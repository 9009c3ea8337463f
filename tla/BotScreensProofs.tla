-------------------------- MODULE BotScreensProofs --------------------------
(* The books of BotScreenManager, for any number of Screens, generations,     *)
(* queued operations, restarts and rejected stops: no runtime escapes them,   *)
(* the capacity they are kept for holds, and what a restarted daemon shows is *)
(* real.                                                                      *)
EXTENDS MCBotScreens, FiniteSetTheorems, TLAPS

-----------------------------------------------------------------------------
(* The invariant. *)

\* A Screen whose operation stops its runtimes, and the runtime it took from the entry.
Stopping(s) == At(s, {"stop"}, "stopping")
Dropped(s) == IF Stopping(s) THEN {target[s]} ELSE {}

\* The rows recover() has yet to visit.
Unvisited == {recovering[i] : i \in (IF began THEN 2 ELSE 1)..Len(recovering)}

\* A queue holds one stop at most, which is known, and the running operation is where its kind
\* allows.  A stop has no entry left; what is used is no runtime that still starts.
QueueFits(s) ==
  /\ \A i, j \in DOMAIN ops[s] : ops[s][i] = "stop" /\ ops[s][j] = "stop" => i = j
  /\ \A i \in DOMAIN ops[s] : ops[s][i] = "stop" => s \in stops
  /\ step[s] = "stopping" => Kind(s) = "stop" /\ entry[s] = 0
  /\ step[s] \in {"waiting", "using", "failing"} => Kind(s) \in Uses
  /\ step[s] = "using" => target[s] # 0 /\ (entry[s] = target[s] => boot[s] = 0)
  /\ target[s] <= gen[s]

\* A pending start is of the newest generation, which does not run yet, and its entry waits for it
\* or a stop does.
StartFits(s) ==
  /\ boot[s] = 0 <=> booting[s] = "none"
  /\ boot[s] # 0 =>
       /\ boot[s] = gen[s] /\ boot[s] # cleanup[s] /\ boot[s] \notin live[s]
       /\ entry[s] = boot[s] \/ (Stopping(s) /\ target[s] = boot[s])
  /\ booting[s] = "starting" => cleanup[s] = 0 /\ live[s] = {}

\* An entry is of the newest generation, and holds its runtime unless its start is pending.
EntryFits(s) ==
  /\ entry[s] # 0 =>
       /\ entry[s] = gen[s] /\ entry[s] # cleanup[s]
       /\ IF boot[s] # 0 THEN installed[s] = "no" ELSE installed[s] # "no" /\ cleanup[s] = 0
  /\ cleanup[s] <= gen[s]

\* What runs is one runtime: that of the entry, the one retained, or the one a stop has dropped.
RunningFits(s) ==
  /\ \A g, h \in live[s] : g = h
  /\ s \notin Unvisited => live[s] \subseteq {entry[s], cleanup[s]} \cup Dropped(s)
  /\ Stopping(s) /\ cleanup[s] # 0 => target[s] \notin live[s] \/ target[s] = cleanup[s]

\* The manager has nothing on a row that recover() has yet to visit.
UnvisitedFits(s) ==
  s \in Unvisited =>
    /\ entry[s] = 0 /\ cleanup[s] = 0 /\ boot[s] = 0 /\ s \notin stops
    /\ stale[s] = {} /\ failing[s] = {} /\ life[s] \in {"starting", "ready", "failed"}

Fits(s) == QueueFits(s) /\ StartFits(s) /\ EntryFits(s) /\ RunningFits(s) /\ UnvisitedFits(s)

\* The Screens that have a runtime, or are to have one, are within the capacity.
Holds(s) ==
  \/ entry[s] # 0 \/ cleanup[s] # 0 \/ (Stopping(s) /\ target[s] # 0)
  \/ s \in Unvisited /\ (live[s] # {} \/ life[s] \in {"starting", "ready"})
HoldersFit == Cardinality({s \in Surfaces : Holds(s)}) <= Capacity

\* recover() visits a row once, after a restart, while nothing is queued or deleted.
RecoveryFits ==
  /\ \A i, j \in DOMAIN recovering : recovering[i] = recovering[j] => i = j
  /\ began => recovering # <<>>
  /\ recovering # <<>> =>
       /\ starts > 0
       /\ \A s \in Surfaces : ops[s] = <<>> /\ deletion[s] = "none"

BooksIInv == TypeOK /\ (\A s \in Surfaces : Fits(s)) /\ HoldersFit /\ RecoveryFits

\* No stop has been rejected and no Bot is being deleted.
Calm == errors = 0 /\ \A s \in Surfaces : deletion[s] = "none"

\* The row of a Screen says what its manager does, and the runtime the manager knows runs.
RowFits(s) ==
  /\ life[s] # "gone" /\ installed[s] # "deaf"
  /\ s \notin Unvisited /\ ~Stopping(s) /\ life[s] \in {"starting", "ready"} => entry[s] # 0
  /\ entry[s] # 0 => IF boot[s] # 0 THEN life[s] = "starting"
                     ELSE life[s] = "ready" /\ live[s] = {entry[s]}
  /\ Stopping(s) => (target[s] # 0 <=> life[s] \in {"starting", "ready"})
  /\ life[s] = "stopped" => live[s] = {}
  /\ cleanup[s] # 0 => cleanup[s] \in live[s] /\ cleanup[s] \notin stale[s]
  /\ entry[s] \notin stale[s] \cup failing[s] /\ boot[s] \notin stale[s] \cup failing[s]
  /\ \A g \in stale[s] \cup failing[s] : g <= gen[s]
RowsFit == \A s \in Surfaces : RowFits(s)

-----------------------------------------------------------------------------
(* Lemmas about the invariant. *)

\* The variables of one Screen, typed.
LEMMA Typed ==
  ASSUME TypeOK, NEW s \in Surfaces
  PROVE  /\ life[s] \in {"stopped", "starting", "ready", "failed", "gone"}
         /\ gen[s] \in Nat /\ entry[s] \in Nat /\ cleanup[s] \in Nat /\ target[s] \in Nat
         /\ boot[s] \in Nat
         /\ installed[s] \in {"no", "yes", "deaf"}
         /\ ops[s] \in Seq({"act", "capture", "stop"})
         /\ step[s] \in {"queued", "waiting", "using", "failing", "stopping"}
         /\ booting[s] \in {"none", "cleaning", "starting"}
         /\ stale[s] \subseteq Nat \ {0} /\ failing[s] \subseteq Nat \ {0}
         /\ live[s] \subseteq Nat \ {0}
         /\ deletion[s] \in {"none", "stopping", "destroying", "cleaned"}
         /\ starts \in Nat /\ errors \in Nat /\ MaxGen \in Nat
<1>1. MaxGen \in Nat /\ MaxStarts \in Nat /\ MaxStopErrors \in Nat BY ScreensAssumption
<1>2. Gens \subseteq Nat \ {0} /\ GenOrNone \subseteq Nat BY <1>1 DEF Gens, GenOrNone
<1>3. /\ stale[s] \subseteq Gens /\ failing[s] \subseteq Gens /\ live[s] \subseteq Gens BY DEF TypeOK
<1>4. /\ gen[s] \in GenOrNone /\ entry[s] \in GenOrNone /\ cleanup[s] \in GenOrNone
      /\ target[s] \in GenOrNone /\ boot[s] \in GenOrNone
  BY DEF TypeOK
<1>5. /\ life[s] \in {"stopped", "starting", "ready", "failed", "gone"}
      /\ installed[s] \in {"no", "yes", "deaf"}
      /\ step[s] \in {"queued", "waiting", "using", "failing", "stopping"}
      /\ booting[s] \in {"none", "cleaning", "starting"}
      /\ deletion[s] \in {"none", "stopping", "destroying", "cleaned"}
  BY DEF TypeOK
<1>6. ops[s] \in Seq({"act", "capture", "stop"}) /\ starts \in Nat /\ errors \in Nat
  BY <1>1 DEF TypeOK
<1> QED BY <1>1, <1>2, <1>3, <1>4, <1>5, <1>6

\* A Screen a step does not touch.
Same(r) ==
  /\ life'[r] = life[r] /\ gen'[r] = gen[r] /\ entry'[r] = entry[r] /\ installed'[r] = installed[r]
  /\ cleanup'[r] = cleanup[r] /\ (r \in stops' <=> r \in stops) /\ ops'[r] = ops[r]
  /\ step'[r] = step[r] /\ target'[r] = target[r] /\ boot'[r] = boot[r] /\ booting'[r] = booting[r]
  /\ stale'[r] = stale[r] /\ failing'[r] = failing[r] /\ live'[r] = live[r]
  /\ (r \in Unvisited' <=> r \in Unvisited)

\* The operation of a Screen is where it was.
LEMMA SameKind ==
  ASSUME NEW r, ops'[r] = ops[r], step'[r] = step[r]
  PROVE  Kind(r)' = Kind(r) /\ (Stopping(r)' <=> Stopping(r))
BY DEF Kind, Stopping, At

\* It keeps what it was.
LEMMA SameKeeps ==
  ASSUME NEW r \in Surfaces, Same(r)
  PROVE  /\ Fits(r) => Fits(r)'
         /\ Holds(r)' <=> Holds(r)
         /\ RowFits(r) => RowFits(r)'
<1>1. Kind(r)' = Kind(r) /\ (Stopping(r)' <=> Stopping(r)) BY SameKind DEF Same
<1>2. Dropped(r)' = Dropped(r) BY <1>1 DEF Dropped, Same
<1>3. QueueFits(r) => QueueFits(r)' BY <1>1 DEF QueueFits, Same
<1>4. StartFits(r) => StartFits(r)' BY <1>1 DEF StartFits, Same
<1>5. EntryFits(r) => EntryFits(r)' BY DEF EntryFits, Same
<1>6. RunningFits(r) => RunningFits(r)' BY <1>1, <1>2 DEF RunningFits, Same
<1>7. UnvisitedFits(r) => UnvisitedFits(r)' BY DEF UnvisitedFits, Same
<1>8. Holds(r)' <=> Holds(r) BY <1>1 DEF Holds, Same
<1>9. RowFits(r) => RowFits(r)' BY <1>1 DEF RowFits, Same
<1> QED BY <1>3, <1>4, <1>5, <1>6, <1>7, <1>8, <1>9 DEF Fits

\* What a step of one Screen has to keep: its own part, and nothing else changes.
Kept(s) ==
  /\ TypeOK' /\ RecoveryFits'
  /\ \A r \in Surfaces \ {s} : Same(r)
  /\ Fits(s)'
  /\ Calm /\ Calm' /\ RowFits(s) => RowFits(s)'

\* Fewer hold a runtime.
LEMMA HoldersShrink ==
  ASSUME HoldersFit, \A r \in Surfaces : Holds(r)' => Holds(r)
  PROVE  HoldersFit'
<1> DEFINE H == {r \in Surfaces : Holds(r)}
           K == {r \in Surfaces : Holds(r)'}
<1>1. IsFiniteSet(H) /\ K \in SUBSET H BY ScreensAssumption, FS_Subset
<1>2. Cardinality(H) <= Capacity BY DEF HoldersFit
<1> HIDE DEF H, K
<1>3. /\ Cardinality(K) <= Cardinality(H) /\ IsFiniteSet(K) /\ Cardinality(K) \in Nat
      /\ Cardinality(H) \in Nat
  BY <1>1, FS_Subset, FS_CardinalityType
<1>4. Cardinality(K) <= Capacity BY <1>2, <1>3, ScreensAssumption
<1> QED BY <1>4 DEF K, HoldersFit

\* A step of one Screen keeps the invariant, if it keeps the count.
LEMMA KeptIsEnough ==
  ASSUME BooksIInv, NEW s \in Surfaces, Kept(s), HoldersFit'
  PROVE  BooksIInv' /\ (Calm /\ Calm' /\ RowsFit => RowsFit')
<1>1. \A r \in Surfaces : Fits(r)' BY SameKeeps DEF BooksIInv, Kept
<1>2. Calm /\ Calm' /\ RowsFit => RowsFit' BY SameKeeps DEF RowsFit, Kept
<1> QED BY <1>1, <1>2 DEF BooksIInv, Kept

\* It keeps the count if its Screen holds a runtime only where it did.
LEMMA KeptShrinks ==
  ASSUME BooksIInv, NEW s \in Surfaces, Kept(s), Holds(s)' => Holds(s)
  PROVE  BooksIInv' /\ (Calm /\ Calm' /\ RowsFit => RowsFit')
<1>1. \A r \in Surfaces : Holds(r)' => Holds(r) BY SameKeeps DEF Kept
<1>2. HoldersFit' BY <1>1, HoldersShrink DEF BooksIInv
<1> QED BY <1>2, KeptIsEnough

\* A recovery a step does not touch.
LEMMA RecoveryStays ==
  ASSUME BooksIInv, NEW s \in Surfaces, UNCHANGED <<recovering, began, starts>>,
         \A r \in Surfaces \ {s} : ops'[r] = ops[r] /\ deletion'[r] = deletion[r],
         recovering = <<>> \/ (ops'[s] = ops[s] /\ deletion'[s] = deletion[s])
  PROVE  RecoveryFits' /\ Unvisited' = Unvisited
<1>1. Unvisited' = Unvisited BY DEF Unvisited
<1> QED BY <1>1 DEF BooksIInv, RecoveryFits

\* A stop that runs is known, and has left its Screen without an entry.
LEMMA StoppingIsKnown ==
  ASSUME TypeOK, NEW s \in Surfaces, Fits(s), Stopping(s)
  PROVE  s \in stops /\ entry[s] = 0 /\ ops[s] # <<>> /\ ops[s][1] = "stop"
<1>1. ops[s] # <<>> /\ Head(ops[s]) = "stop" /\ step[s] = "stopping"
  BY DEF Stopping, At, Kind
<1>2. ops[s] \in Seq({"act", "capture", "stop"}) BY Typed
<1>3. 1 \in DOMAIN ops[s] /\ ops[s][1] = "stop" BY <1>1, <1>2
<1> QED BY <1>1, <1>3 DEF Fits, QueueFits

\* While a Screen is served, nothing is left to recover.
LEMMA ServedIsVisited ==
  ASSUME BooksIInv
  PROVE  /\ recovering = <<>> => Unvisited = {}
         /\ \A s \in Surfaces : ops[s] # <<>> => recovering = <<>>
<1>1. recovering = <<>> => Unvisited = {} BY DEF BooksIInv, RecoveryFits, Unvisited
<1> QED BY <1>1 DEF BooksIInv, RecoveryFits

-----------------------------------------------------------------------------
(* A pending start. *)

\* A start that cleans runs at most what it cleans.
LEMMA CleaningRuns ==
  ASSUME TypeOK, NEW s \in Surfaces, Fits(s), boot[s] # 0
  PROVE  live[s] \subseteq {cleanup[s]} /\ s \notin Unvisited
<1>1. s \notin Unvisited BY DEF Fits, UnvisitedFits
<1>2. live[s] \subseteq {entry[s], cleanup[s]} \cup Dropped(s) /\ boot[s] \notin live[s]
  BY <1>1 DEF Fits, RunningFits, StartFits
<1>3. CASE Stopping(s)
  <2>1. entry[s] = 0 /\ target[s] = boot[s] BY <1>3, StoppingIsKnown DEF Fits, StartFits
  <2> QED BY <1>1, <1>2, <1>3, <2>1, Typed DEF Dropped
<1>4. CASE ~Stopping(s)
  <2>1. entry[s] = boot[s] BY <1>4 DEF Fits, StartFits
  <2> QED BY <1>1, <1>2, <1>4, <2>1 DEF Dropped
<1> QED BY <1>3, <1>4

\* The retained runtime is stopped, and the start goes on.
LEMMA BootCleansKeeps ==
  ASSUME ScreensAssumption, BooksIInv, NEW s \in Surfaces, BootCleans(s)
  PROVE  Kept(s) /\ (Holds(s)' => Holds(s))
<1>1. /\ booting[s] = "cleaning"
      /\ live' = [live EXCEPT ![s] = @ \ {cleanup[s]}] /\ cleanup' = [cleanup EXCEPT ![s] = 0]
      /\ booting' = [booting EXCEPT ![s] = "starting"]
      /\ UNCHANGED <<life, gen, entry, installed, ops, step, target, stops, boot, stale, failing,
                     deletion, recovering, began, starts, errors>>
  BY DEF BootCleans, StopsRuntime, rows, queues, daemon
<1>2. TypeOK /\ Fits(s) BY DEF BooksIInv
<1>3. TypeOK' BY <1>1, <1>2, ScreensAssumption DEF TypeOK, GenOrNone, Gens
<1>4. RecoveryFits' /\ Unvisited' = Unvisited BY <1>1, RecoveryStays
<1>5. \A r \in Surfaces \ {s} : Same(r) BY <1>1, <1>2, <1>4 DEF TypeOK, Same
<1>6. /\ cleanup'[s] = 0 /\ booting'[s] = "starting" /\ live'[s] = live[s] \ {cleanup[s]}
      /\ boot[s] # 0
  BY <1>1, <1>2 DEF TypeOK, Fits, StartFits
<1>7. live'[s] = {} /\ s \notin Unvisited BY <1>2, <1>6, CleaningRuns
<1>8. Kind(s)' = Kind(s) /\ (Stopping(s)' <=> Stopping(s)) BY <1>1, SameKind
<1>9. Fits(s)'
  <2>1. QueueFits(s)' BY <1>1, <1>2, <1>8 DEF Fits, QueueFits
  <2>2. StartFits(s)' BY <1>1, <1>2, <1>6, <1>7, <1>8 DEF Fits, StartFits
  <2>3. EntryFits(s)' BY <1>1, <1>2, <1>6, Typed DEF Fits, EntryFits
  <2>4. RunningFits(s)' BY <1>6, <1>7 DEF RunningFits
  <2>5. UnvisitedFits(s)' BY <1>4, <1>7 DEF UnvisitedFits
  <2> QED BY <2>1, <2>2, <2>3, <2>4, <2>5 DEF Fits
<1>10. RowFits(s) => RowFits(s)' BY <1>1, <1>2, <1>4, <1>6, <1>7, <1>8 DEF RowFits
<1>11. Holds(s)' => Holds(s) BY <1>1, <1>4, <1>6, <1>7, <1>8 DEF Holds
<1> QED BY <1>3, <1>4, <1>5, <1>9, <1>10, <1>11 DEF Kept

\* What has started is installed, or stopped if a stop took its entry.
LEMMA BootSucceedsKeeps ==
  ASSUME ScreensAssumption, BooksIInv, NEW s \in Surfaces, BootSucceeds(s)
  PROVE  Kept(s) /\ (Holds(s)' => Holds(s))
<1>1. /\ booting[s] = "starting"
      /\ boot' = [boot EXCEPT ![s] = 0] /\ booting' = [booting EXCEPT ![s] = "none"]
      /\ live' = [live EXCEPT ![s] = {boot[s]}]
      /\ UNCHANGED <<gen, cleanup, ops, step, target, stops, failing, deletion, recovering, began,
                     starts, errors>>
  BY DEF BootSucceeds, BootSettles, queues, daemon
<1>2. TypeOK /\ Fits(s) BY DEF BooksIInv
<1>3. /\ boot[s] # 0 /\ boot[s] = gen[s] /\ cleanup[s] = 0
      /\ boot'[s] = 0 /\ booting'[s] = "none" /\ live'[s] = {boot[s]}
  BY <1>1, <1>2 DEF TypeOK, Fits, StartFits
<1>4. RecoveryFits' /\ Unvisited' = Unvisited BY <1>1, RecoveryStays
<1>5. s \notin Unvisited BY <1>2, <1>3, CleaningRuns
<1>6. Kind(s)' = Kind(s) /\ (Stopping(s)' <=> Stopping(s)) BY <1>1, SameKind
<1>7. boot[s] \in Gens BY <1>2, <1>3 DEF TypeOK, GenOrNone, Gens
<1>8. CASE entry[s] = boot[s]
  <2>1. /\ entry' = [entry EXCEPT ![s] = boot[s]] /\ UNCHANGED stale
        /\ installed' = [installed EXCEPT ![s] = IF Exists(s) THEN "yes" ELSE "deaf"]
        /\ life' = [life EXCEPT ![s] = IF Exists(s) THEN "ready" ELSE @]
    BY <1>8 DEF BootSucceeds, Wanted
  <2>2. TypeOK' BY <1>1, <1>2, <1>7, <2>1, ScreensAssumption DEF TypeOK, GenOrNone, Gens
  <2>3. \A r \in Surfaces \ {s} : Same(r) BY <1>1, <1>2, <1>4, <2>1 DEF TypeOK, Same
  <2>4. /\ entry'[s] = boot[s] /\ installed'[s] # "no"
        /\ life[s] # "gone" => life'[s] = "ready" /\ installed'[s] = "yes"
    BY <1>2, <2>1 DEF TypeOK, Exists
  <2>5. ~Stopping(s) BY <1>2, <1>3, <1>8, StoppingIsKnown
  <2>6. Fits(s)'
    <3>1. QueueFits(s)' BY <1>1, <1>2, <1>3, <1>6, <1>8, <2>4 DEF Fits, QueueFits
    <3>2. StartFits(s)' BY <1>3 DEF StartFits
    <3>3. EntryFits(s)' BY <1>1, <1>2, <1>3, <2>4, Typed DEF EntryFits
    <3>4. RunningFits(s)' BY <1>3, <1>6, <2>4, <2>5 DEF RunningFits
    <3>5. UnvisitedFits(s)' BY <1>4, <1>5 DEF UnvisitedFits
    <3> QED BY <3>1, <3>2, <3>3, <3>4, <3>5 DEF Fits
  <2>7. RowFits(s) => RowFits(s)'
    BY <1>2, Typed, <1>1, <1>3, <1>6, <1>8, <2>1, <2>4, <2>5 DEF RowFits
  <2>8. Holds(s)' => Holds(s) BY <1>3, <1>8 DEF Holds
  <2> QED BY <1>4, <2>2, <2>3, <2>6, <2>7, <2>8 DEF Kept
<1>9. CASE entry[s] # boot[s]
  <2>1. stale' = [stale EXCEPT ![s] = @ \cup {boot[s]}] /\ UNCHANGED <<entry, installed, life>>
    BY <1>9 DEF BootSucceeds, Wanted
  <2>2. TypeOK' BY <1>1, <1>2, <1>7, <2>1, ScreensAssumption DEF TypeOK, GenOrNone, Gens
  <2>3. \A r \in Surfaces \ {s} : Same(r) BY <1>1, <1>2, <1>4, <2>1 DEF TypeOK, Same
  <2>4. Stopping(s) /\ target[s] = boot[s] BY <1>2, <1>3, <1>9 DEF Fits, StartFits
  <2>5. entry[s] = 0 BY <1>2, <2>4, StoppingIsKnown
  <2>6. stale'[s] = stale[s] \cup {boot[s]} BY <1>2, <2>1 DEF TypeOK
  <2>7. Fits(s)'
    <3>1. QueueFits(s)' BY <1>1, <1>2, <1>3, <1>6, <2>1 DEF Fits, QueueFits
    <3>2. StartFits(s)' BY <1>3 DEF StartFits
    <3>3. EntryFits(s)' BY <1>1, <1>2, <2>1, <2>5 DEF Fits, EntryFits
    <3>4. RunningFits(s)' BY <1>1, <1>3, <1>6, <2>4 DEF RunningFits, Dropped
    <3>5. UnvisitedFits(s)' BY <1>4, <1>5 DEF UnvisitedFits
    <3> QED BY <3>1, <3>2, <3>3, <3>4, <3>5 DEF Fits
  <2>8. RowFits(s) => RowFits(s)'
    BY <1>2, <1>3, <2>6, Typed, <1>1, <1>6, <2>1, <2>4, <2>5 DEF RowFits
  <2>9. Holds(s)' => Holds(s) BY <1>3, <2>4 DEF Holds
  <2> QED BY <1>4, <2>2, <2>3, <2>7, <2>8, <2>9 DEF Kept
<1> QED BY <1>8, <1>9

\* A start that failed leaves no entry.
LEMMA BootFailsKeeps ==
  ASSUME ScreensAssumption, BooksIInv, NEW s \in Surfaces, BootFails(s)
  PROVE  Kept(s) /\ (Holds(s)' => Holds(s))
<1>1. /\ boot[s] # 0
      /\ boot' = [boot EXCEPT ![s] = 0] /\ booting' = [booting EXCEPT ![s] = "none"]
      /\ UNCHANGED <<gen, installed, cleanup, stale, ops, step, target, stops, failing, deletion,
                     recovering, began, starts, live>>
      /\ errors' \in 0..MaxStopErrors
      /\ errors' = errors => booting[s] # "cleaning"
  BY ScreensAssumption DEF BooksIInv, TypeOK, BootFails, StopRejects, BootSettles, queues, daemon
<1>2. TypeOK /\ Fits(s) BY DEF BooksIInv
<1>3. RecoveryFits' /\ Unvisited' = Unvisited BY <1>1, RecoveryStays
<1>4. live[s] \subseteq {cleanup[s]} /\ s \notin Unvisited BY <1>1, <1>2, CleaningRuns
<1>5. Kind(s)' = Kind(s) /\ (Stopping(s)' <=> Stopping(s)) BY <1>1, SameKind
<1>6. boot'[s] = 0 /\ booting'[s] = "none" /\ boot[s] \notin live[s]
  BY <1>1, <1>2 DEF TypeOK, Fits, StartFits
<1>7. Calm /\ Calm' => cleanup[s] = 0 /\ live[s] = {}
  <2> SUFFICES ASSUME Calm, Calm' PROVE booting[s] = "starting"
    BY <1>2 DEF Fits, StartFits
  <2>1. errors' = errors BY DEF Calm
  <2> QED BY <1>1, <1>2, <2>1, Typed DEF Fits, StartFits
<1>8. CASE entry[s] = boot[s]
  <2>1. /\ entry' = [entry EXCEPT ![s] = 0]
        /\ life' = [life EXCEPT ![s] = IF Exists(s) THEN "failed" ELSE @]
    BY <1>8 DEF BootFails, Wanted
  <2>2. TypeOK' BY <1>1, <1>2, <2>1, ScreensAssumption DEF TypeOK, GenOrNone
  <2>3. \A r \in Surfaces \ {s} : Same(r) BY <1>1, <1>2, <1>3, <2>1 DEF TypeOK, Same
  <2>4. entry'[s] = 0 /\ (life[s] # "gone" => life'[s] = "failed") BY <1>2, <2>1 DEF TypeOK, Exists
  <2>5. ~Stopping(s) BY <1>1, <1>2, <1>8, StoppingIsKnown
  <2>6. Fits(s)'
    <3>1. QueueFits(s)' BY <1>1, <1>2, <1>5, <1>6, <2>4 DEF Fits, QueueFits
    <3>2. StartFits(s)' BY <1>6 DEF StartFits
    <3>3. EntryFits(s)' BY <1>1, <1>2, <2>4 DEF Fits, EntryFits
    <3>4. RunningFits(s)' BY <1>1, <1>4, <1>5, <2>5 DEF RunningFits
    <3>5. UnvisitedFits(s)' BY <1>3, <1>4 DEF UnvisitedFits
    <3> QED BY <3>1, <3>2, <3>3, <3>4, <3>5 DEF Fits
  <2>7. Calm /\ Calm' /\ RowFits(s) => RowFits(s)'
    BY <1>2, Typed, <1>1, <1>5, <1>6, <1>7, <2>4, <2>5 DEF RowFits
  <2>8. Holds(s)' => Holds(s) BY <1>1, <1>8 DEF Holds
  <2> QED BY <1>3, <2>2, <2>3, <2>6, <2>7, <2>8 DEF Kept
<1>9. CASE entry[s] # boot[s]
  <2>1. UNCHANGED <<entry, life>> BY <1>9 DEF BootFails, Wanted
  <2>2. TypeOK' BY <1>1, <1>2, <2>1, ScreensAssumption DEF TypeOK, GenOrNone
  <2>3. \A r \in Surfaces \ {s} : Same(r) BY <1>1, <1>2, <1>3, <2>1 DEF TypeOK, Same
  <2>4. Stopping(s) /\ target[s] = boot[s] BY <1>1, <1>2, <1>9 DEF Fits, StartFits
  <2>5. entry[s] = 0 BY <1>2, <2>4, StoppingIsKnown
  <2>6. Fits(s)'
    <3>1. QueueFits(s)' BY <1>1, <1>2, <1>5, <1>6, <2>1 DEF Fits, QueueFits
    <3>2. StartFits(s)' BY <1>6 DEF StartFits
    <3>3. EntryFits(s)' BY <1>1, <1>2, <2>1, <2>5 DEF Fits, EntryFits
    <3>4. RunningFits(s)' BY <1>1, <1>4, <1>5, <1>6, <2>4 DEF RunningFits
    <3>5. UnvisitedFits(s)' BY <1>3, <1>4 DEF UnvisitedFits
    <3> QED BY <3>1, <3>2, <3>3, <3>4, <3>5 DEF Fits
  <2>7. Calm /\ Calm' /\ RowFits(s) => RowFits(s)'
    BY <1>2, Typed, <1>1, <1>5, <1>6, <1>7, <2>1, <2>4, <2>5 DEF RowFits
  <2>8. Holds(s)' => Holds(s) BY <1>1, <1>3, <1>5, <2>1 DEF Holds
  <2> QED BY <1>3, <2>2, <2>3, <2>6, <2>7, <2>8 DEF Kept
<1> QED BY <1>8, <1>9

-----------------------------------------------------------------------------
(* Runtimes that are stopped in the background, and those that fail. *)

\* A runtime is stopped, or it stays.
LEMMA StopsOrStays ==
  ASSUME ScreensAssumption, TypeOK, NEW s \in Surfaces, NEW g,
         StopsRuntime(s, g) \/ StopRejects(s, g)
  PROVE  /\ live' \in [Surfaces -> SUBSET Gens] /\ errors' \in 0..MaxStopErrors
         /\ \A r \in Surfaces \ {s} : live'[r] = live[r]
         /\ live'[s] = live[s] \ {g} \/ (live' = live /\ ~Calm')
<1>1. errors \in 0..MaxStopErrors /\ MaxStopErrors \in Nat /\ live \in [Surfaces -> SUBSET Gens]
  BY ScreensAssumption DEF TypeOK
<1>2. CASE StopsRuntime(s, g) BY <1>1, <1>2 DEF StopsRuntime
<1>3. CASE StopRejects(s, g)
  <2>1. errors' = errors + 1 /\ errors < MaxStopErrors /\ live' = live BY <1>3 DEF StopRejects
  <2>2. errors' # 0 BY <1>1, <2>1
  <2> QED BY <1>1, <2>1, <2>2 DEF Calm
<1> QED BY <1>2, <1>3

\* A superseded start ends its runtime.
LEMMA StaleStopsKeeps ==
  ASSUME ScreensAssumption, BooksIInv, NEW s \in Surfaces, StaleStops(s)
  PROVE  Kept(s) /\ (Holds(s)' => Holds(s))
<1>1. PICK g \in stale[s] :
        /\ stale' = [stale EXCEPT ![s] = @ \ {g}]
        /\ StopsRuntime(s, g) \/ StopRejects(s, g)
  BY DEF StaleStops
<1>2. UNCHANGED <<life, gen, entry, installed, cleanup, ops, step, target, stops, boot, booting,
                  failing, deletion, recovering, began, starts>>
  BY DEF StaleStops, rows, entries, queues, daemon
<1>3. TypeOK /\ Fits(s) BY DEF BooksIInv
<1>4. /\ live' \in [Surfaces -> SUBSET Gens] /\ errors' \in 0..MaxStopErrors
      /\ \A r \in Surfaces \ {s} : live'[r] = live[r]
      /\ live'[s] = live[s] \ {g} \/ (live' = live /\ ~Calm')
  BY <1>1, <1>3, StopsOrStays
<1>5. /\ stale' \in [Surfaces -> SUBSET Gens] /\ stale'[s] = stale[s] \ {g}
      /\ \A r \in Surfaces \ {s} : stale'[r] = stale[r]
  BY <1>1, <1>3 DEF TypeOK
<1>6. TypeOK' BY <1>2, <1>3, <1>4, <1>5 DEF TypeOK
<1>7. RecoveryFits' /\ Unvisited' = Unvisited BY <1>2, RecoveryStays
<1>8. \A r \in Surfaces \ {s} : Same(r) BY <1>2, <1>4, <1>5, <1>7 DEF Same
<1>9. Kind(s)' = Kind(s) /\ (Stopping(s)' <=> Stopping(s)) BY <1>2, SameKind
<1>10. s \notin Unvisited BY <1>3, <1>1 DEF Fits, UnvisitedFits
<1>11. Fits(s)'
  <2>1. QueueFits(s)' BY <1>2, <1>3, <1>9 DEF Fits, QueueFits
  <2>2. StartFits(s)' BY <1>2, <1>3, <1>4, <1>9 DEF Fits, StartFits
  <2>3. EntryFits(s)' BY <1>2, <1>3 DEF Fits, EntryFits
  <2>4. RunningFits(s)' BY <1>2, <1>3, <1>4, <1>7, <1>9 DEF Fits, RunningFits, Dropped
  <2>5. UnvisitedFits(s)' BY <1>7, <1>10 DEF UnvisitedFits
  <2> QED BY <2>1, <2>2, <2>3, <2>4, <2>5 DEF Fits
<1>12. Calm' /\ RowFits(s) => RowFits(s)'
  BY <1>1, <1>2, <1>4, <1>5, <1>7, <1>9 DEF RowFits
<1>13. Holds(s)' => Holds(s) BY <1>2, <1>7, <1>9, <1>10 DEF Holds
<1> QED BY <1>6, <1>7, <1>8, <1>11, <1>12, <1>13 DEF Kept

\* The stop of a failed runtime ends, and its handle goes with it.
LEMMA FailedStopsKeeps ==
  ASSUME ScreensAssumption, BooksIInv, NEW s \in Surfaces, FailedStops(s)
  PROVE  Kept(s) /\ (Holds(s)' => Holds(s))
<1>1. PICK g \in failing[s] :
        /\ failing' = [failing EXCEPT ![s] = @ \ {g}]
        /\ \/ StopsRuntime(s, g) /\ cleanup' = [cleanup EXCEPT ![s] = Forgotten(s, g)]
           \/ StopRejects(s, g) /\ UNCHANGED cleanup
  BY DEF FailedStops
<1>2. UNCHANGED <<life, gen, entry, installed, ops, step, target, stops, boot, booting, stale,
                  deletion, recovering, began, starts>>
  BY DEF FailedStops, rows, queues, boots, daemon
<1>3. TypeOK /\ Fits(s) BY DEF BooksIInv
<1>4. /\ live' \in [Surfaces -> SUBSET Gens] /\ errors' \in 0..MaxStopErrors
      /\ \A r \in Surfaces \ {s} : live'[r] = live[r]
  BY <1>1, <1>3, StopsOrStays
<1>5. /\ failing' \in [Surfaces -> SUBSET Gens] /\ failing'[s] = failing[s] \ {g}
      /\ \A r \in Surfaces \ {s} : failing'[r] = failing[r]
  BY <1>1, <1>3 DEF TypeOK
<1>6. /\ cleanup' \in [Surfaces -> GenOrNone]
      /\ \A r \in Surfaces \ {s} : cleanup'[r] = cleanup[r]
      /\ \/ /\ live'[s] = live[s] \ {g}
            /\ cleanup'[s] = IF cleanup[s] = g THEN 0 ELSE cleanup[s]
         \/ /\ UNCHANGED <<live, cleanup>> /\ ~Calm'
  <2>0. cleanup \in [Surfaces -> GenOrNone] /\ live \in [Surfaces -> SUBSET Gens]
        /\ errors \in Nat /\ 0 \in GenOrNone
    BY <1>3, ScreensAssumption, Typed DEF TypeOK, GenOrNone
  <2>1. CASE StopsRuntime(s, g) /\ cleanup' = [cleanup EXCEPT ![s] = Forgotten(s, g)]
    BY <2>0, <2>1 DEF Forgotten, StopsRuntime
  <2>2. CASE StopRejects(s, g) /\ UNCHANGED cleanup
    <3>1. live' = live /\ errors' = errors + 1 BY <2>2 DEF StopRejects
    <3>2. errors' # 0 BY <2>0, <3>1
    <3> QED BY <2>0, <2>2, <3>1, <3>2 DEF Calm
  <2> QED BY <1>1, <2>1, <2>2
<1>7. TypeOK' BY <1>2, <1>3, <1>4, <1>5, <1>6 DEF TypeOK
<1>8. RecoveryFits' /\ Unvisited' = Unvisited BY <1>2, RecoveryStays
<1>9. \A r \in Surfaces \ {s} : Same(r) BY <1>2, <1>4, <1>5, <1>6, <1>8 DEF Same
<1>10. Kind(s)' = Kind(s) /\ (Stopping(s)' <=> Stopping(s)) BY <1>2, SameKind
<1>11. s \notin Unvisited BY <1>3, <1>1 DEF Fits, UnvisitedFits
<1>12. /\ (cleanup'[s] = 0 \/ cleanup'[s] = cleanup[s]) /\ live'[s] \subseteq live[s]
       /\ cleanup[s] \in live'[s] => cleanup'[s] = cleanup[s]
       /\ 0 \notin live[s] /\ 0 \notin live'[s] /\ gen[s] \in Nat
  <2>1. 0 \notin live[s] /\ gen[s] \in Nat BY <1>3, Typed
  <2>2. CASE /\ live'[s] = live[s] \ {g}
             /\ cleanup'[s] = IF cleanup[s] = g THEN 0 ELSE cleanup[s]
    BY <2>1, <2>2
  <2>3. CASE UNCHANGED <<live, cleanup>> BY <2>1, <2>3
  <2> QED BY <1>6, <2>2, <2>3
<1>13. live'[s] \subseteq live[s] BY <1>6
<1>14. Fits(s)'
  <2>1. QueueFits(s)' BY <1>2, <1>3, <1>10 DEF Fits, QueueFits
  <2>2. StartFits(s)' BY <1>2, <1>3, <1>10, <1>12, <1>13 DEF Fits, StartFits
  <2>3. EntryFits(s)' BY <1>2, <1>3, <1>12 DEF Fits, EntryFits
  <2>4. RunningFits(s)'
    BY <1>2, <1>3, <1>8, <1>10, <1>12, <1>13 DEF Fits, RunningFits, Dropped
  <2>5. UnvisitedFits(s)' BY <1>8, <1>11 DEF UnvisitedFits
  <2> QED BY <2>1, <2>2, <2>3, <2>4, <2>5 DEF Fits
<1>15. Calm' /\ RowFits(s) => RowFits(s)'
  <2> SUFFICES ASSUME Calm', RowFits(s) PROVE RowFits(s)' OBVIOUS
  <2>1. /\ live'[s] = live[s] \ {g}
        /\ cleanup'[s] = IF cleanup[s] = g THEN 0 ELSE cleanup[s]
    BY <1>6
  <2> QED BY <1>1, <1>2, <1>5, <1>8, <1>10, <2>1 DEF RowFits
<1>16. Holds(s)' => Holds(s) BY <1>2, <1>8, <1>10, <1>11, <1>12 DEF Holds
<1> QED BY <1>7, <1>8, <1>9, <1>14, <1>15, <1>16 DEF Kept

\* A runtime that fails is retained in the place of its entry.
LEMMA FailKeeps ==
  ASSUME ScreensAssumption, BooksIInv, NEW s \in Surfaces, Fail(s),
         entry[s] # 0, boot[s] = 0, ~Stopping(s),
         UNCHANGED <<ops, target, stops, boot, booting, stale, deletion, recovering, began, starts,
                     errors, live>>,
         step' = step \/ (At(s, Uses, "using") /\ step' = [step EXCEPT ![s] = "failing"])
  PROVE  Kept(s) /\ (Holds(s)' => Holds(s))
<1>1. /\ entry' = [entry EXCEPT ![s] = 0]
      /\ life' = [life EXCEPT ![s] = IF Exists(s) THEN "failed" ELSE @]
      /\ cleanup' = [cleanup EXCEPT ![s] = entry[s]]
      /\ failing' = [failing EXCEPT ![s] = @ \cup {entry[s]}]
      /\ UNCHANGED <<gen, installed>>
  BY DEF Fail
<1>2. TypeOK /\ Fits(s) BY DEF BooksIInv
<1>3. /\ entry[s] \in Gens /\ entry[s] \in GenOrNone /\ 0 \in GenOrNone
  BY <1>2, ScreensAssumption DEF TypeOK, GenOrNone, Gens
<1>4. /\ step' \in [Surfaces -> {"queued", "waiting", "using", "failing", "stopping"}]
      /\ \A r \in Surfaces \ {s} : step'[r] = step[r]
  BY <1>2 DEF TypeOK
<1>5. TypeOK' BY <1>1, <1>2, <1>3, <1>4 DEF TypeOK
<1>6. RecoveryFits' /\ Unvisited' = Unvisited BY RecoveryStays
<1>7. \A r \in Surfaces \ {s} : Same(r) BY <1>1, <1>2, <1>4, <1>6 DEF Same, TypeOK
<1>8. /\ entry'[s] = 0 /\ cleanup'[s] = entry[s] /\ failing'[s] = failing[s] \cup {entry[s]}
      /\ life[s] # "gone" => life'[s] = "failed"
  BY <1>1, <1>2 DEF TypeOK, Exists
<1>9. Kind(s)' = Kind(s) BY DEF Kind
<1>10. /\ step'[s] = step[s] \/ (Kind(s) \in Uses /\ step[s] = "using" /\ step'[s] = "failing")
       /\ ~Stopping(s)'
  BY <1>2, <1>9 DEF TypeOK, Stopping, At
<1>11. s \notin Unvisited BY <1>2 DEF Fits, UnvisitedFits
<1>12. /\ live[s] \subseteq {entry[s], cleanup[s]} /\ cleanup[s] = 0 /\ entry[s] = gen[s]
       /\ 0 \notin live[s] /\ gen[s] \in Nat /\ 0 \notin stale[s] \cup failing'[s]
  BY <1>2, Typed, <1>8, <1>11 DEF Fits, EntryFits, RunningFits, Dropped
<1>13. Fits(s)'
  <2>1. QueueFits(s)' BY <1>1, <1>2, <1>8, <1>9, <1>10 DEF Fits, QueueFits
  <2>2. StartFits(s)' BY <1>2 DEF Fits, StartFits
  <2>3. EntryFits(s)' BY <1>1, <1>8, <1>12 DEF EntryFits
  <2>4. RunningFits(s)' BY <1>2, <1>8, <1>10, <1>12 DEF Fits, RunningFits, Dropped
  <2>5. UnvisitedFits(s)' BY <1>6, <1>11 DEF UnvisitedFits
  <2> QED BY <2>1, <2>2, <2>3, <2>4, <2>5 DEF Fits
<1>14. RowFits(s) => RowFits(s)' BY <1>1, <1>6, <1>8, <1>10, <1>12 DEF RowFits
<1>15. Holds(s)' => Holds(s) BY DEF Holds
<1> QED BY <1>5, <1>6, <1>7, <1>13, <1>14, <1>15 DEF Kept

\* An installed runtime exits.
LEMMA RuntimeExitsKeeps ==
  ASSUME ScreensAssumption, BooksIInv, NEW s \in Surfaces, RuntimeExits(s)
  PROVE  Kept(s) /\ (Holds(s)' => Holds(s))
<1>1. /\ entry[s] # 0 /\ installed[s] = "yes" /\ Fail(s)
      /\ UNCHANGED <<ops, step, target, stops, boot, booting, stale, deletion, recovering, began,
                     starts, errors, live>>
  BY DEF RuntimeExits, queues, boots, daemon
<1>2. TypeOK /\ Fits(s) BY DEF BooksIInv
<1>3. boot[s] = 0 /\ ~Stopping(s) BY <1>1, <1>2, StoppingIsKnown DEF Fits, EntryFits
<1> QED BY <1>1, <1>3, FailKeeps

\* An operation's error fails the runtime it used.
LEMMA UseFailsKeeps ==
  ASSUME ScreensAssumption, BooksIInv, NEW s \in Surfaces, UseFails(s)
  PROVE  Kept(s) /\ (Holds(s)' => Holds(s))
<1>1. /\ At(s, {"capture"}, "using") /\ entry[s] = target[s] /\ Fail(s)
      /\ step' = [step EXCEPT ![s] = "failing"]
      /\ UNCHANGED <<ops, target, stops, boot, booting, stale, deletion, recovering, began,
                     starts, errors, live>>
  BY DEF UseFails, boots, daemon
<1>2. TypeOK /\ Fits(s) BY DEF BooksIInv
<1>3. At(s, Uses, "using") /\ ~Stopping(s) BY <1>1 DEF At, Uses, Stopping
<1>4. entry[s] # 0 /\ boot[s] = 0 BY <1>1, <1>2 DEF At, Fits, QueueFits
<1> QED BY <1>1, <1>3, <1>4, FailKeeps

-----------------------------------------------------------------------------
(* The queue of a Screen and its operations. *)

\* The head of a queue ends.
LEMMA HeadEnds ==
  ASSUME TypeOK, NEW s \in Surfaces, QueueFits(s), OpEnds(s), ops[s] # <<>>
  PROVE  /\ ops' \in [Surfaces -> Seq({"act", "capture", "stop"})]
         /\ step' \in [Surfaces -> {"queued", "waiting", "using", "failing", "stopping"}]
         /\ target' \in [Surfaces -> GenOrNone]
         /\ \A r \in Surfaces \ {s} : ops'[r] = ops[r] /\ step'[r] = step[r] /\ target'[r] = target[r]
         /\ step'[s] = "queued" /\ target'[s] = 0 /\ ~Stopping(s)' /\ Dropped(s)' = {}
         /\ \A i \in DOMAIN ops'[s] : /\ i + 1 \in DOMAIN ops[s] /\ ops'[s][i] = ops[s][i + 1]
                                      /\ i + 1 # 1
         /\ \A i, j \in DOMAIN ops'[s] : ops'[s][i] = "stop" /\ ops'[s][j] = "stop" => i = j
<1>1. /\ ops' = [ops EXCEPT ![s] = Tail(@)] /\ step' = [step EXCEPT ![s] = "queued"]
      /\ target' = [target EXCEPT ![s] = 0]
  BY DEF OpEnds
<1>2. /\ ops \in [Surfaces -> Seq({"act", "capture", "stop"})] /\ 0 \in GenOrNone
      /\ step \in [Surfaces -> {"queued", "waiting", "using", "failing", "stopping"}]
      /\ target \in [Surfaces -> GenOrNone]
  BY ScreensAssumption DEF TypeOK, GenOrNone
<1>3. ops[s] \in Seq({"act", "capture", "stop"}) /\ ops'[s] = Tail(ops[s]) BY <1>1, <1>2
<1>4. Tail(ops[s]) \in Seq({"act", "capture", "stop"}) BY <1>3
<1>5. \A i \in DOMAIN ops'[s] : i + 1 \in DOMAIN ops[s] /\ ops'[s][i] = ops[s][i + 1] /\ i \in Nat \ {0}
  BY <1>3
<1>6. \A i, j \in DOMAIN ops'[s] : ops'[s][i] = "stop" /\ ops'[s][j] = "stop" => i = j
  <2> SUFFICES ASSUME NEW i \in DOMAIN ops'[s], NEW j \in DOMAIN ops'[s],
                      ops'[s][i] = "stop", ops'[s][j] = "stop"
               PROVE  i = j
    OBVIOUS
  <2>1. i + 1 = j + 1 BY <1>5 DEF QueueFits
  <2> QED BY <1>5, <2>1
<1>7. step'[s] = "queued" BY <1>1, <1>2
<1>8. ~Stopping(s)' /\ Dropped(s)' = {} BY <1>7 DEF Stopping, At, Dropped
<1> QED BY <1>1, <1>2, <1>4, <1>5, <1>6, <1>7, <1>8

\* The end of an operation that used the Screen, or found none.
LEMMA UseIsOver ==
  ASSUME ScreensAssumption, BooksIInv, NEW s \in Surfaces, Kind(s) \in Uses, OpEnds(s),
         UNCHANGED <<life, gen, entry, installed, cleanup, stops, boot, booting, stale, failing,
                     deletion, recovering, began, starts, errors, live>>
  PROVE  Kept(s) /\ (Holds(s)' => Holds(s))
<1>1. TypeOK /\ Fits(s) /\ ops[s] # <<>> /\ QueueFits(s) BY DEF BooksIInv, Kind, Uses, Fits
<1>2. /\ ops' \in [Surfaces -> Seq({"act", "capture", "stop"})]
      /\ step' \in [Surfaces -> {"queued", "waiting", "using", "failing", "stopping"}]
      /\ target' \in [Surfaces -> GenOrNone]
      /\ \A r \in Surfaces \ {s} : ops'[r] = ops[r] /\ step'[r] = step[r] /\ target'[r] = target[r]
      /\ step'[s] = "queued" /\ target'[s] = 0 /\ ~Stopping(s)' /\ Dropped(s)' = {}
      /\ \A i \in DOMAIN ops'[s] : i + 1 \in DOMAIN ops[s] /\ ops'[s][i] = ops[s][i + 1]
      /\ \A i, j \in DOMAIN ops'[s] : ops'[s][i] = "stop" /\ ops'[s][j] = "stop" => i = j
  BY <1>1, HeadEnds
<1>3. TypeOK' BY <1>1, <1>2 DEF TypeOK
<1>4. recovering = <<>> BY <1>1, ServedIsVisited
<1>5. RecoveryFits' /\ Unvisited' = Unvisited BY <1>2, <1>4, RecoveryStays
<1>6. \A r \in Surfaces \ {s} : Same(r) BY <1>2, <1>5 DEF Same
<1>7. ~Stopping(s) /\ Dropped(s) = {} BY DEF Stopping, At, Uses, Dropped
<1>8. s \notin Unvisited /\ gen[s] \in Nat BY <1>1, <1>4, ServedIsVisited, Typed
<1>9. Fits(s)'
  <2>1. QueueFits(s)' BY <1>1, <1>2, <1>8 DEF QueueFits
  <2>2. StartFits(s)' BY <1>1, <1>7 DEF Fits, StartFits
  <2>3. EntryFits(s)' BY <1>1 DEF Fits, EntryFits
  <2>4. RunningFits(s)' BY <1>1, <1>2, <1>5, <1>7 DEF Fits, RunningFits
  <2>5. UnvisitedFits(s)' BY <1>5, <1>8 DEF UnvisitedFits
  <2> QED BY <2>1, <2>2, <2>3, <2>4, <2>5 DEF Fits
<1>10. RowFits(s) => RowFits(s)' BY <1>2, <1>5, <1>7 DEF RowFits
<1>11. Holds(s)' => Holds(s) BY <1>2, <1>5 DEF Holds
<1> QED BY <1>3, <1>5, <1>6, <1>9, <1>10, <1>11 DEF Kept

\* The operation at the head of a queue moves on, and stays one that uses the Screen.
LEMMA UseMoves ==
  ASSUME ScreensAssumption, BooksIInv, NEW s \in Surfaces, Kind(s) \in Uses,
         UNCHANGED <<life, gen, entry, installed, cleanup, ops, stops, boot, booting, stale,
                     failing, deletion, recovering, began, starts, errors, live>>,
         NEW where \in {"waiting", "using"}, step' = [step EXCEPT ![s] = where],
         NEW g \in {target[s], entry[s]}, target' = [target EXCEPT ![s] = g],
         where = "using" => g # 0 /\ boot[s] = 0
  PROVE  Kept(s) /\ (Holds(s)' => Holds(s))
<1>1. TypeOK /\ Fits(s) /\ ops[s] # <<>> /\ QueueFits(s) BY DEF BooksIInv, Kind, Uses, Fits
<1>2. /\ step' \in [Surfaces -> {"queued", "waiting", "using", "failing", "stopping"}]
      /\ target' \in [Surfaces -> GenOrNone]
      /\ \A r \in Surfaces \ {s} : step'[r] = step[r] /\ target'[r] = target[r]
      /\ step'[s] = where /\ target'[s] = g
  BY <1>1 DEF TypeOK
<1>3. TypeOK' BY <1>1, <1>2 DEF TypeOK
<1>4. recovering = <<>> BY <1>1, ServedIsVisited
<1>5. RecoveryFits' /\ Unvisited' = Unvisited BY RecoveryStays
<1>6. \A r \in Surfaces \ {s} : Same(r) BY <1>2, <1>5 DEF Same
<1>7. ~Stopping(s) /\ Dropped(s) = {} /\ Kind(s)' = Kind(s) /\ ~Stopping(s)' /\ Dropped(s)' = {}
  BY DEF Stopping, At, Uses, Dropped, Kind
<1>8. s \notin Unvisited /\ gen[s] \in Nat /\ g <= gen[s]
  BY <1>1, <1>4, ServedIsVisited, Typed DEF QueueFits, Fits, EntryFits
<1>9. Fits(s)'
  <2>1. QueueFits(s)' BY <1>1, <1>2, <1>7, <1>8 DEF QueueFits
  <2>2. StartFits(s)' BY <1>1, <1>7 DEF Fits, StartFits
  <2>3. EntryFits(s)' BY <1>1 DEF Fits, EntryFits
  <2>4. RunningFits(s)' BY <1>1, <1>5, <1>7 DEF Fits, RunningFits
  <2>5. UnvisitedFits(s)' BY <1>5, <1>8 DEF UnvisitedFits
  <2> QED BY <2>1, <2>2, <2>3, <2>4, <2>5 DEF Fits
<1>10. RowFits(s) => RowFits(s)' BY <1>5, <1>7 DEF RowFits
<1>11. Holds(s)' => Holds(s) BY <1>5, <1>7 DEF Holds
<1> QED BY <1>3, <1>5, <1>6, <1>9, <1>10, <1>11 DEF Kept

\* The operations that use a Screen, beside those that start or fail its runtime.
LEMMA UseKeeps ==
  ASSUME ScreensAssumption, BooksIInv, NEW s \in Surfaces,
         UseWaits(s) \/ UseRefused(s) \/ UseRuns(s) \/ UseEnds(s) \/ UseFailed(s)
  PROVE  Kept(s) /\ (Holds(s)' => Holds(s))
<1>0. TypeOK BY DEF BooksIInv
<1>1. /\ Kind(s) \in Uses
      /\ UNCHANGED <<life, gen, entry, installed, cleanup, stops, boot, booting, stale, failing,
                     deletion, recovering, began, starts, errors, live>>
  BY DEF UseWaits, UseRefused, UseRuns, UseEnds, UseFailed, At, rows, entries, boots, daemon
<1>2. CASE OpEnds(s) BY <1>1, <1>2, UseIsOver
<1>3. CASE UseWaits(s)
  <2>1. UNCHANGED <<ops, target>> /\ step' = [step EXCEPT ![s] = "waiting"]
    BY <1>3 DEF UseWaits
  <2>2. target' = [target EXCEPT ![s] = target[s]] BY <1>0, <2>1 DEF TypeOK
  <2> QED BY <1>1, <2>1, <2>2, UseMoves
<1>4. CASE UseRuns(s) /\ ~OpEnds(s)
  <2>1. /\ UNCHANGED ops /\ step' = [step EXCEPT ![s] = "using"]
        /\ target' = [target EXCEPT ![s] = entry[s]] /\ entry[s] # 0 /\ boot[s] = 0
    BY <1>4 DEF UseRuns
  <2> QED BY <1>1, <2>1, UseMoves
<1> QED BY <1>2, <1>3, <1>4 DEF UseRefused, UseEnds, UseFailed

\* An operation joins the queue.
LEMMA RequestKeeps ==
  ASSUME ScreensAssumption, BooksIInv, NEW s \in Surfaces, NEW kind \in Uses, Request(s, kind)
  PROVE  Kept(s) /\ (Holds(s)' => Holds(s))
<1>1. /\ recovering = <<>> /\ ops' = [ops EXCEPT ![s] = Append(@, kind)]
      /\ UNCHANGED <<life, gen, entry, installed, cleanup, step, target, stops, boot, booting, stale,
                     failing, deletion, recovering, began, starts, errors, live>>
  BY DEF Request, Serving, rows, entries, boots, daemon
<1>2. TypeOK /\ Fits(s) /\ QueueFits(s) BY DEF BooksIInv, Fits
<1>3. ops \in [Surfaces -> Seq({"act", "capture", "stop"})] /\ kind \in {"act", "capture"}
  BY <1>2 DEF TypeOK, Uses
<1>4. /\ ops'[s] = Append(ops[s], kind) /\ ops[s] \in Seq({"act", "capture", "stop"})
      /\ \A r \in Surfaces \ {s} : ops'[r] = ops[r]
  BY <1>1, <1>3
<1>5. ops' \in [Surfaces -> Seq({"act", "capture", "stop"})] BY <1>3, <1>4, <1>1
<1>6. TypeOK' BY <1>1, <1>2, <1>5 DEF TypeOK
<1>7. RecoveryFits' /\ Unvisited' = Unvisited BY <1>1, <1>4, RecoveryStays
<1>8. \A r \in Surfaces \ {s} : Same(r) BY <1>1, <1>4, <1>7 DEF Same
<1>9. \A i \in DOMAIN ops'[s] : ops'[s][i] = "stop" => i \in DOMAIN ops[s] /\ ops[s][i] = "stop"
  BY <1>3, <1>4
<1>10. ops[s] # <<>> => Kind(s)' = Kind(s)
  <2> SUFFICES ASSUME ops[s] # <<>> PROVE Kind(s)' = Kind(s) OBVIOUS
  <2>1. Append(ops[s], kind) # <<>> /\ Head(Append(ops[s], kind)) = Head(ops[s]) BY <1>3, <1>4
  <2> QED BY <1>4, <2>1 DEF Kind
<1>11. ops[s] = <<>> => step[s] = "queued"
  <2> SUFFICES ASSUME ops[s] = <<>> PROVE step[s] = "queued" OBVIOUS
  <2>1. Kind(s) = "none" BY DEF Kind
  <2> QED BY <1>2, <2>1, Typed DEF QueueFits, Uses
<1>12. Stopping(s)' <=> Stopping(s) BY <1>1, <1>10, <1>11 DEF Stopping, At
<1>13. s \notin Unvisited /\ Dropped(s)' = Dropped(s)
  BY <1>1, <1>12, ServedIsVisited DEF Dropped
<1>14. Fits(s)'
  <2>1. QueueFits(s)' BY <1>1, <1>2, <1>9, <1>10, <1>11 DEF QueueFits
  <2>2. StartFits(s)' BY <1>1, <1>2, <1>12 DEF Fits, StartFits
  <2>3. EntryFits(s)' BY <1>1, <1>2 DEF Fits, EntryFits
  <2>4. RunningFits(s)' BY <1>1, <1>2, <1>7, <1>12, <1>13 DEF Fits, RunningFits
  <2>5. UnvisitedFits(s)' BY <1>7, <1>13 DEF UnvisitedFits
  <2> QED BY <2>1, <2>2, <2>3, <2>4, <2>5 DEF Fits
<1>15. RowFits(s) => RowFits(s)' BY <1>1, <1>7, <1>12 DEF RowFits
<1>16. Holds(s)' => Holds(s) BY <1>1, <1>7, <1>12 DEF Holds
<1> QED BY <1>6, <1>7, <1>8, <1>14, <1>15, <1>16 DEF Kept

-----------------------------------------------------------------------------
(* Stops and deletions. *)

\* A stop takes the runtime of the entry.
LEMMA StopBeginsKeeps ==
  ASSUME ScreensAssumption, BooksIInv, NEW s \in Surfaces, StopBegins(s)
  PROVE  Kept(s) /\ (Holds(s)' => Holds(s))
<1>1. /\ Kind(s) = "stop" /\ step[s] = "queued" /\ entry' = [entry EXCEPT ![s] = 0]
      /\ step' = [step EXCEPT ![s] = "stopping"] /\ target' = [target EXCEPT ![s] = entry[s]]
      /\ UNCHANGED <<life, gen, installed, cleanup, ops, stops, boot, booting, stale, failing,
                     deletion, recovering, began, starts, errors, live>>
  BY DEF StopBegins, At, rows, boots, daemon
<1>2. TypeOK /\ Fits(s) BY DEF BooksIInv
<1>3. 0 \in GenOrNone BY ScreensAssumption DEF GenOrNone
<1>4. TypeOK' BY <1>1, <1>2, <1>3 DEF TypeOK
<1>5. RecoveryFits' /\ Unvisited' = Unvisited BY <1>1, RecoveryStays
<1>6. \A r \in Surfaces \ {s} : Same(r) BY <1>1, <1>2, <1>5 DEF Same, TypeOK
<1>7. entry'[s] = 0 /\ step'[s] = "stopping" /\ target'[s] = entry[s] BY <1>1, <1>2 DEF TypeOK
<1>8. Kind(s)' = "stop" /\ Stopping(s)' /\ ~Stopping(s) BY <1>1, <1>7 DEF Kind, Stopping, At
<1>9. ops[s] # <<>> /\ s \notin Unvisited
  BY <1>1, ServedIsVisited DEF Kind
<1>10. live[s] \subseteq {entry[s], cleanup[s]} /\ 0 \notin live[s] /\ gen[s] \in Nat
  BY <1>2, <1>8, <1>9, Typed DEF Fits, RunningFits, Dropped
<1>11. Fits(s)'
  <2>1. QueueFits(s)' BY <1>1, <1>2, <1>7, <1>8, <1>10 DEF Fits, QueueFits, EntryFits
  <2>2. StartFits(s)' BY <1>1, <1>2, <1>7, <1>8 DEF Fits, StartFits
  <2>3. EntryFits(s)' BY <1>1, <1>2, <1>7 DEF Fits, EntryFits
  <2>4. RunningFits(s)'
    BY <1>2, <1>8, <1>10, <1>1, <1>7 DEF Fits, EntryFits, StartFits, RunningFits, Dropped
  <2>5. UnvisitedFits(s)' BY <1>5, <1>9 DEF UnvisitedFits
  <2> QED BY <2>1, <2>2, <2>3, <2>4, <2>5 DEF Fits
<1>12. RowFits(s) => RowFits(s)' BY <1>2, Typed, <1>1, <1>5, <1>7, <1>8, <1>9 DEF RowFits
<1>13. Holds(s)' => Holds(s) BY <1>1, <1>5, <1>7 DEF Holds
<1> QED BY <1>4, <1>5, <1>6, <1>11, <1>12, <1>13 DEF Kept

\* A stop that works on nothing that still starts: the Screen has no entry, and no start is pending.
LEMMA StopIsAlone ==
  ASSUME BooksIInv, NEW s \in Surfaces, At(s, {"stop"}, "stopping"),
         target[s] = 0 \/ boot[s] # target[s]
  PROVE  /\ TypeOK /\ Fits(s) /\ Stopping(s) /\ entry[s] = 0 /\ boot[s] = 0 /\ recovering = <<>>
         /\ s \notin Unvisited /\ ops[s] # <<>> /\ ops[s][1] = "stop"
         /\ live[s] \subseteq {target[s], cleanup[s]}
         /\ cleanup[s] # 0 => live[s] \subseteq {cleanup[s]}
<1>1. TypeOK /\ Fits(s) /\ Stopping(s) BY DEF BooksIInv, Stopping
<1>2. entry[s] = 0 /\ ops[s] # <<>> /\ ops[s][1] = "stop" BY <1>1, StoppingIsKnown
<1>3. boot[s] = 0 BY <1>1, <1>2 DEF Fits, StartFits
<1>4. recovering = <<>> /\ s \notin Unvisited BY <1>2, ServedIsVisited
<1>5. /\ live[s] \subseteq {target[s], cleanup[s]}
      /\ cleanup[s] # 0 => live[s] \subseteq {cleanup[s]}
  BY <1>1, <1>2, <1>4, Typed DEF Fits, RunningFits, Dropped
<1> QED BY <1>1, <1>2, <1>3, <1>4, <1>5

\* A stop that ended leaves nothing that runs.
LEMMA StopSucceedsKeeps ==
  ASSUME ScreensAssumption, BooksIInv, NEW s \in Surfaces, StopSucceeds(s)
  PROVE  Kept(s) /\ (Holds(s)' => Holds(s))
<1>1. /\ At(s, {"stop"}, "stopping") /\ (target[s] = 0 \/ boot[s] # target[s]) /\ OpEnds(s)
      /\ live' = [live EXCEPT ![s] = @ \ Targets(s)] /\ cleanup' = [cleanup EXCEPT ![s] = 0]
      /\ life' = [life EXCEPT ![s] = IF Exists(s) THEN "stopped" ELSE @]
      /\ stops' = stops \ {s}
      /\ deletion' = [deletion EXCEPT ![s] = IF @ = "stopping" THEN "destroying" ELSE @]
      /\ UNCHANGED <<gen, entry, installed, boot, booting, stale, failing, recovering, began,
                     starts, errors>>
  BY DEF StopSucceeds, boots, daemon
<1>2. /\ TypeOK /\ Fits(s) /\ Stopping(s) /\ entry[s] = 0 /\ boot[s] = 0 /\ recovering = <<>>
      /\ s \notin Unvisited /\ ops[s] # <<>> /\ ops[s][1] = "stop"
      /\ live[s] \subseteq {target[s], cleanup[s]}
  BY <1>1, StopIsAlone
<1>3. /\ ops' \in [Surfaces -> Seq({"act", "capture", "stop"})]
      /\ step' \in [Surfaces -> {"queued", "waiting", "using", "failing", "stopping"}]
      /\ target' \in [Surfaces -> GenOrNone]
      /\ \A r \in Surfaces \ {s} : ops'[r] = ops[r] /\ step'[r] = step[r] /\ target'[r] = target[r]
      /\ step'[s] = "queued" /\ target'[s] = 0 /\ ~Stopping(s)' /\ Dropped(s)' = {}
      /\ \A i \in DOMAIN ops'[s] : /\ i + 1 \in DOMAIN ops[s] /\ ops'[s][i] = ops[s][i + 1]
                                   /\ i + 1 # 1
  BY <1>1, <1>2, HeadEnds DEF Fits
<1>4. /\ live' \in [Surfaces -> SUBSET Gens] /\ live'[s] = {}
      /\ \A r \in Surfaces \ {s} : live'[r] = live[r] BY <1>2, Typed, <1>1 DEF TypeOK, Targets
<1>5. /\ cleanup' \in [Surfaces -> GenOrNone] /\ cleanup'[s] = 0
      /\ life' \in [Surfaces -> {"stopped", "starting", "ready", "failed", "gone"}]
      /\ deletion' \in [Surfaces -> {"none", "stopping", "destroying", "cleaned"}]
      /\ \A r \in Surfaces \ {s} : /\ cleanup'[r] = cleanup[r] /\ life'[r] = life[r]
                                   /\ deletion'[r] = deletion[r]
      /\ life[s] # "gone" => life'[s] = "stopped"
  BY <1>1, <1>2, ScreensAssumption DEF TypeOK, GenOrNone, Exists
<1>6. stops' \subseteq Surfaces BY <1>1, <1>2 DEF TypeOK
<1>7. TypeOK' BY <1>1, <1>2, <1>3, <1>4, <1>5, <1>6 DEF TypeOK
<1>8. RecoveryFits' /\ Unvisited' = Unvisited BY <1>1, <1>2, <1>3, <1>5, RecoveryStays
<1>9. \A r \in Surfaces \ {s} : Same(r) BY <1>1, <1>3, <1>4, <1>5, <1>8 DEF Same
<1>10. Fits(s)'
  <2>1. \A i \in DOMAIN ops'[s] : ops'[s][i] # "stop"
    <3> SUFFICES ASSUME NEW i \in DOMAIN ops'[s], ops'[s][i] = "stop" PROVE FALSE OBVIOUS
    <3>1. 1 \in DOMAIN ops[s] BY <1>2, Typed
    <3>2. i + 1 = 1 BY <1>2, <1>3, <3>1 DEF Fits, QueueFits
    <3> QED BY <1>3, <3>2
  <2>2. QueueFits(s)' BY <1>2, <1>3, <2>1, Typed, <1>1 DEF QueueFits
  <2>3. StartFits(s)' BY <1>1, <1>2, <1>4, <1>5 DEF Fits, StartFits
  <2>4. EntryFits(s)' BY <1>1, <1>2, <1>5, Typed DEF EntryFits
  <2>5. RunningFits(s)' BY <1>4 DEF RunningFits
  <2>6. UnvisitedFits(s)' BY <1>2, <1>8 DEF UnvisitedFits
  <2> QED BY <2>2, <2>3, <2>4, <2>5, <2>6 DEF Fits
<1>11. RowFits(s) => RowFits(s)' BY <1>2, Typed, <1>1, <1>3, <1>4, <1>5 DEF RowFits
<1>12. Holds(s)' => Holds(s) BY <1>1, <1>2, <1>3, <1>5, <1>8 DEF Holds
<1> QED BY <1>7, <1>8, <1>9, <1>10, <1>11, <1>12 DEF Kept

\* A stop that rejected retains the one runtime that may still run.
LEMMA StopFailsKeeps ==
  ASSUME ScreensAssumption, BooksIInv, NEW s \in Surfaces, StopFails(s)
  PROVE  Kept(s) /\ (Holds(s)' => Holds(s))
<1>1. /\ At(s, {"stop"}, "stopping") /\ (target[s] = 0 \/ boot[s] # target[s]) /\ OpEnds(s)
      /\ \E g \in Targets(s) : StopRejects(s, g)
      /\ cleanup' = [cleanup EXCEPT ![s] = Retained(s)]
      /\ life' = [life EXCEPT ![s] = IF Exists(s) THEN "failed" ELSE @]
      /\ stops' = stops \ {s} /\ deletion' = [deletion EXCEPT ![s] = "none"]
      /\ UNCHANGED <<gen, entry, installed, boot, booting, stale, failing, recovering, began,
                     starts>>
  BY DEF StopFails, boots, daemon
<1>2. /\ TypeOK /\ Fits(s) /\ Stopping(s) /\ entry[s] = 0 /\ boot[s] = 0 /\ recovering = <<>>
      /\ s \notin Unvisited /\ ops[s] # <<>> /\ ops[s][1] = "stop"
      /\ live[s] \subseteq {target[s], cleanup[s]}
      /\ cleanup[s] # 0 => live[s] \subseteq {cleanup[s]}
  BY <1>1, StopIsAlone
<1>3. /\ ops' \in [Surfaces -> Seq({"act", "capture", "stop"})]
      /\ step' \in [Surfaces -> {"queued", "waiting", "using", "failing", "stopping"}]
      /\ target' \in [Surfaces -> GenOrNone]
      /\ \A r \in Surfaces \ {s} : ops'[r] = ops[r] /\ step'[r] = step[r] /\ target'[r] = target[r]
      /\ step'[s] = "queued" /\ target'[s] = 0 /\ ~Stopping(s)' /\ Dropped(s)' = {}
      /\ \A i \in DOMAIN ops'[s] : /\ i + 1 \in DOMAIN ops[s] /\ ops'[s][i] = ops[s][i + 1]
                                   /\ i + 1 # 1
  BY <1>1, <1>2, HeadEnds DEF Fits
<1>4. live' = live /\ errors' \in 0..MaxStopErrors /\ ~Calm'
  BY <1>1, <1>2, ScreensAssumption DEF StopRejects, TypeOK, Calm
<1>5. /\ cleanup' \in [Surfaces -> GenOrNone] /\ cleanup'[s] = Retained(s)
      /\ life' \in [Surfaces -> {"stopped", "starting", "ready", "failed", "gone"}]
      /\ deletion' \in [Surfaces -> {"none", "stopping", "destroying", "cleaned"}]
      /\ \A r \in Surfaces \ {s} : /\ cleanup'[r] = cleanup[r] /\ life'[r] = life[r]
                                   /\ deletion'[r] = deletion[r]
  BY <1>1, <1>2, ScreensAssumption DEF TypeOK, GenOrNone, Retained
<1>6. stops' \subseteq Surfaces BY <1>1, <1>2 DEF TypeOK
<1>7. TypeOK' BY <1>1, <1>2, <1>3, <1>4, <1>5, <1>6 DEF TypeOK
<1>8. RecoveryFits' /\ Unvisited' = Unvisited BY <1>1, <1>2, <1>3, <1>5, RecoveryStays
<1>9. \A r \in Surfaces \ {s} : Same(r) BY <1>1, <1>3, <1>4, <1>5, <1>8 DEF Same
<1>10. live[s] \subseteq {cleanup'[s]} /\ cleanup'[s] <= gen[s]
       /\ (cleanup'[s] = cleanup[s] \/ cleanup'[s] = target[s])
  BY <1>2, <1>5, Typed DEF Retained, Fits, EntryFits, QueueFits
<1>11. Fits(s)'
  <2>1. \A i \in DOMAIN ops'[s] : ops'[s][i] # "stop"
    <3> SUFFICES ASSUME NEW i \in DOMAIN ops'[s], ops'[s][i] = "stop" PROVE FALSE OBVIOUS
    <3>1. 1 \in DOMAIN ops[s] BY <1>2, Typed
    <3>2. i + 1 = 1 BY <1>2, <1>3, <3>1 DEF Fits, QueueFits
    <3> QED BY <1>3, <3>2
  <2>2. QueueFits(s)' BY <1>2, <1>3, <2>1, Typed, <1>1 DEF QueueFits
  <2>3. StartFits(s)' BY <1>1, <1>2 DEF Fits, StartFits
  <2>4. EntryFits(s)' BY <1>1, <1>2, <1>10 DEF EntryFits
  <2>5. RunningFits(s)' BY <1>2, <1>3, <1>4, <1>10 DEF RunningFits, Fits
  <2>6. UnvisitedFits(s)' BY <1>2, <1>8 DEF UnvisitedFits
  <2> QED BY <2>2, <2>3, <2>4, <2>5, <2>6 DEF Fits
<1>12. Holds(s)' => Holds(s) BY <1>1, <1>2, <1>3, <1>8, <1>10 DEF Holds
<1> QED BY <1>4, <1>7, <1>8, <1>9, <1>11, <1>12 DEF Kept

\* Stops join the queues of some Screens, those that have none.
LEMMA QueueStopKeeps ==
  ASSUME ScreensAssumption, BooksIInv, recovering = <<>>, NEW S, S \subseteq Surfaces, QueueStop(S),
         UNCHANGED <<life, gen, entry, installed, cleanup, step, target, boot, booting, stale,
                     failing, recovering, began, starts, errors, live>>,
         deletion' \in [Surfaces -> {"none", "stopping", "destroying", "cleaned"}]
  PROVE  BooksIInv' /\ (RowsFit => RowsFit')
<1>1. /\ stops' = stops \cup S
      /\ ops' = [s \in Surfaces |-> IF s \in S \ stops THEN Append(ops[s], "stop") ELSE ops[s]]
  BY DEF QueueStop
<1>2. TypeOK /\ ops \in [Surfaces -> Seq({"act", "capture", "stop"})] BY DEF BooksIInv, TypeOK
<1>3. ops' \in [Surfaces -> Seq({"act", "capture", "stop"})] BY <1>2, <1>1
<1>4. TypeOK' BY <1>1, <1>2, <1>3 DEF TypeOK
<1>5. RecoveryFits' /\ Unvisited' = {} /\ Unvisited = {}
  BY ServedIsVisited DEF BooksIInv, RecoveryFits, Unvisited
<1>6. ASSUME NEW s \in Surfaces
      PROVE  Fits(s)' /\ (Holds(s)' => Holds(s)) /\ (RowFits(s) => RowFits(s)')
  <2>1. Fits(s) /\ QueueFits(s) /\ ops[s] \in Seq({"act", "capture", "stop"})
    BY <1>2 DEF BooksIInv, Fits
  <2>2. /\ \A i, j \in DOMAIN ops'[s] : ops'[s][i] = "stop" /\ ops'[s][j] = "stop" => i = j
        /\ \A i \in DOMAIN ops'[s] : ops'[s][i] = "stop" => s \in stops'
        /\ ops[s] # <<>> => Kind(s)' = Kind(s)
    <3>1. CASE s \in S \ stops
      <4>1. ops'[s] = Append(ops[s], "stop") /\ s \in stops' BY <1>1, <3>1
      <4>2. \A i \in DOMAIN ops[s] : ops[s][i] # "stop" BY <2>1, <3>1 DEF QueueFits
      <4>3. \A i \in DOMAIN Append(ops[s], "stop") :
              Append(ops[s], "stop")[i] = "stop" => i = Len(ops[s]) + 1
        BY <2>1, <4>2
      <4>4. ops[s] # <<>> => ops'[s] # <<>> /\ Head(ops'[s]) = Head(ops[s]) BY <2>1, <4>1
      <4> QED BY <4>1, <4>3, <4>4 DEF Kind
    <3>2. CASE s \notin S \ stops
      <4>1. ops'[s] = ops[s] /\ (s \in stops' <=> s \in stops) BY <1>1, <3>2
      <4> QED BY <2>1, <4>1 DEF QueueFits, Kind
    <3> QED BY <3>1, <3>2
  <2>3. ops[s] = <<>> => step[s] = "queued"
    <3> SUFFICES ASSUME ops[s] = <<>> PROVE step[s] = "queued" OBVIOUS
    <3>1. Kind(s) = "none" BY DEF Kind
    <3> QED BY <1>2, <2>1, <3>1, Typed DEF QueueFits, Uses
  <2>4. (Stopping(s)' <=> Stopping(s)) /\ Dropped(s)' = Dropped(s)
    BY <2>2, <2>3 DEF Stopping, At, Dropped
  <2>5. QueueFits(s)' BY <2>1, <2>2, <2>3 DEF QueueFits
  <2>6. StartFits(s)' BY <2>1, <2>4 DEF Fits, StartFits
  <2>7. EntryFits(s)' BY <2>1 DEF Fits, EntryFits
  <2>8. RunningFits(s)' BY <1>5, <2>1, <2>4 DEF Fits, RunningFits
  <2>9. UnvisitedFits(s)' BY <1>5 DEF UnvisitedFits
  <2>10. RowFits(s) => RowFits(s)' BY <1>5, <2>4 DEF RowFits
  <2>11. Holds(s)' => Holds(s) BY <1>5, <2>4 DEF Holds
  <2> QED BY <2>5, <2>6, <2>7, <2>8, <2>9, <2>10, <2>11 DEF Fits
<1>7. HoldersFit' BY <1>6, HoldersShrink DEF BooksIInv
<1> QED BY <1>4, <1>5, <1>6, <1>7 DEF BooksIInv, RowsFit

\* The deletion of a Bot stops its Screen, and the shutdown every Screen.
LEMMA StopsAreQueued ==
  ASSUME ScreensAssumption, BooksIInv, (\E s \in Surfaces : Delete(s)) \/ StopAll
  PROVE  BooksIInv' /\ (RowsFit => RowsFit')
<1>1. CASE StopAll
  <2>1. /\ recovering = <<>> /\ QueueStop(Known)
        /\ UNCHANGED <<life, gen, entry, installed, cleanup, step, target, boot, booting, stale,
                       failing, deletion, recovering, began, starts, errors, live>>
    BY <1>1 DEF StopAll, Serving, rows, entries, boots, daemon
  <2>2. Known \subseteq Surfaces BY DEF Known
  <2>3. deletion' \in [Surfaces -> {"none", "stopping", "destroying", "cleaned"}]
    BY <2>1 DEF BooksIInv, TypeOK
  <2> QED BY <2>1, <2>2, <2>3, QueueStopKeeps
<1>2. ASSUME NEW s \in Surfaces, Delete(s) PROVE BooksIInv' /\ (RowsFit => RowsFit')
  <2>1. /\ recovering = <<>> /\ QueueStop({s})
        /\ deletion' = [deletion EXCEPT ![s] = "stopping"]
        /\ UNCHANGED <<life, gen, entry, installed, cleanup, step, target, boot, booting, stale,
                       failing, recovering, began, starts, errors, live>>
    BY <1>2 DEF Delete, Serving, rows, entries, boots, daemon
  <2>2. deletion' \in [Surfaces -> {"none", "stopping", "destroying", "cleaned"}]
    BY <2>1 DEF BooksIInv, TypeOK
  <2> QED BY <2>1, <2>2, QueueStopKeeps
<1> QED BY <1>1, <1>2

\* The deletion removes what the Screen still runs and its row, or fails.
LEMMA DeletionKeeps ==
  ASSUME ScreensAssumption, BooksIInv, NEW s \in Surfaces, AdapterDestroys(s) \/ DeletionEnds(s)
  PROVE  Kept(s) /\ (Holds(s)' => Holds(s))
<1>1. /\ deletion[s] # "none"
      /\ life' \in [Surfaces -> {"stopped", "starting", "ready", "failed", "gone"}]
      /\ deletion' \in [Surfaces -> {"none", "stopping", "destroying", "cleaned"}]
      /\ live' \in [Surfaces -> SUBSET Gens] /\ live'[s] \subseteq live[s]
      /\ \A r \in Surfaces \ {s} : /\ life'[r] = life[r] /\ deletion'[r] = deletion[r]
                                   /\ live'[r] = live[r]
      /\ UNCHANGED <<gen, entry, installed, cleanup, ops, step, target, stops, boot, booting, stale,
                     failing, recovering, began, starts, errors>>
  <2>1. TypeOK BY DEF BooksIInv
  <2>2. CASE AdapterDestroys(s)
    <3>1. /\ deletion[s] = "destroying"
          /\ \/ /\ live' = [live EXCEPT ![s] = {}] /\ deletion' = [deletion EXCEPT ![s] = "cleaned"]
                /\ life' = life
             \/ /\ live' = live /\ deletion' = [deletion EXCEPT ![s] = "none"]
                /\ life' = [life EXCEPT ![s] = "failed"]
          /\ UNCHANGED <<gen, entry, installed, cleanup, ops, step, target, stops, boot, booting,
                         stale, failing, recovering, began, starts, errors>>
      BY <2>2 DEF AdapterDestroys, entries, queues, boots, daemon
    <3>2. /\ life \in [Surfaces -> {"stopped", "starting", "ready", "failed", "gone"}]
          /\ deletion \in [Surfaces -> {"none", "stopping", "destroying", "cleaned"}]
          /\ live \in [Surfaces -> SUBSET Gens]
      BY <2>1 DEF TypeOK
    <3>3. CASE /\ live' = [live EXCEPT ![s] = {}] /\ life' = life
               /\ deletion' = [deletion EXCEPT ![s] = "cleaned"]
      BY <3>1, <3>2, <3>3
    <3>4. CASE /\ live' = live /\ deletion' = [deletion EXCEPT ![s] = "none"]
               /\ life' = [life EXCEPT ![s] = "failed"]
      BY <3>1, <3>2, <3>4
    <3> QED BY <3>1, <3>3, <3>4
  <2>3. CASE DeletionEnds(s)
    <3>1. /\ deletion[s] = "cleaned" /\ deletion' = [deletion EXCEPT ![s] = "none"]
          /\ live' = live
          /\ \E left \in {"gone", life[s]} : life' = [life EXCEPT ![s] = left]
          /\ UNCHANGED <<gen, entry, installed, cleanup, ops, step, target, stops, boot, booting,
                         stale, failing, recovering, began, starts, errors>>
      BY <2>3 DEF DeletionEnds, entries, queues, boots, daemon
    <3>2. /\ life \in [Surfaces -> {"stopped", "starting", "ready", "failed", "gone"}]
          /\ deletion \in [Surfaces -> {"none", "stopping", "destroying", "cleaned"}]
          /\ live \in [Surfaces -> SUBSET Gens]
      BY <2>1 DEF TypeOK
    <3>3. PICK left \in {"gone", life[s]} : life' = [life EXCEPT ![s] = left] BY <3>1
    <3>4. left \in {"stopped", "starting", "ready", "failed", "gone"} BY <3>2
    <3> QED BY <3>1, <3>2, <3>3, <3>4
  <2> QED BY <2>2, <2>3
<1>2. TypeOK /\ Fits(s) BY DEF BooksIInv
<1>3. recovering = <<>> /\ Unvisited = {} BY <1>1, ServedIsVisited DEF BooksIInv, RecoveryFits
<1>4. TypeOK' BY <1>1, <1>2 DEF TypeOK
<1>5. RecoveryFits' /\ Unvisited' = Unvisited BY <1>1, <1>3, RecoveryStays
<1>6. \A r \in Surfaces \ {s} : Same(r) BY <1>1, <1>5 DEF Same
<1>7. Kind(s)' = Kind(s) /\ (Stopping(s)' <=> Stopping(s)) BY <1>1, SameKind
<1>8. Fits(s)'
  <2>1. QueueFits(s)' BY <1>1, <1>2, <1>7 DEF Fits, QueueFits
  <2>2. StartFits(s)' BY <1>1, <1>2, <1>7 DEF Fits, StartFits
  <2>3. EntryFits(s)' BY <1>1, <1>2 DEF Fits, EntryFits
  <2>4. RunningFits(s)' BY <1>1, <1>2, <1>3, <1>7 DEF Fits, RunningFits, Dropped
  <2>5. UnvisitedFits(s)' BY <1>3, <1>5 DEF UnvisitedFits
  <2> QED BY <2>1, <2>2, <2>3, <2>4, <2>5 DEF Fits
<1>9. ~Calm BY <1>1 DEF Calm
<1>10. Holds(s)' => Holds(s) BY <1>1, <1>3, <1>5, <1>7 DEF Holds
<1> QED BY <1>4, <1>5, <1>6, <1>8, <1>9, <1>10 DEF Kept

-----------------------------------------------------------------------------
(* Starts. *)

\* A new generation starts on a Screen without an entry, a stop or a pending start.
LEMMA BeginKeeps ==
  ASSUME ScreensAssumption, BooksIInv, NEW s \in Surfaces, Begin(s), s \notin stops, boot[s] = 0,
         UNCHANGED <<ops, target, stops, failing, deletion, starts, errors>>,
         step' = step \/ (At(s, Uses, "queued") /\ step' = [step EXCEPT ![s] = "waiting"]),
         (live' = live /\ s \notin Unvisited)
           \/ (live' = [live EXCEPT ![s] = {}] /\ cleanup[s] = 0),
         recovering' \in Seq(Surfaces), began' \in BOOLEAN, RecoveryFits',
         Unvisited' = Unvisited \ {s}
  PROVE  Kept(s)
<1>1. /\ entry[s] = 0 /\ gen[s] + MaxStarts - starts < MaxGen
      /\ gen' = [gen EXCEPT ![s] = gen[s] + 1] /\ life' = [life EXCEPT ![s] = "starting"]
      /\ entry' = [entry EXCEPT ![s] = gen[s] + 1] /\ installed' = [installed EXCEPT ![s] = "no"]
      /\ boot' = [boot EXCEPT ![s] = gen[s] + 1]
      /\ booting' = [booting EXCEPT ![s] = IF cleanup[s] # 0 THEN "cleaning" ELSE "starting"]
      /\ UNCHANGED <<cleanup, stale>>
  BY DEF Begin, NextGen, FirstStep
<1>2. TypeOK /\ Fits(s) BY DEF BooksIInv
<1>3. gen[s] \in Nat /\ gen[s] + 1 \in GenOrNone /\ gen[s] + 1 # 0
  BY <1>2, ScreensAssumption, <1>1 DEF TypeOK, GenOrNone
<1>4. /\ step' \in [Surfaces -> {"queued", "waiting", "using", "failing", "stopping"}]
      /\ live' \in [Surfaces -> SUBSET Gens]
      /\ \A r \in Surfaces \ {s} : step'[r] = step[r] /\ live'[r] = live[r]
      /\ live'[s] = {} \/ (live'[s] = live[s] /\ s \notin Unvisited)
  BY <1>2 DEF TypeOK
<1>5. /\ gen' \in [Surfaces -> GenOrNone] /\ entry' \in [Surfaces -> GenOrNone]
      /\ boot' \in [Surfaces -> GenOrNone]
      /\ life' \in [Surfaces -> {"stopped", "starting", "ready", "failed", "gone"}]
      /\ installed' \in [Surfaces -> {"no", "yes", "deaf"}]
      /\ booting' \in [Surfaces -> {"none", "cleaning", "starting"}]
      /\ gen'[s] = gen[s] + 1 /\ entry'[s] = gen[s] + 1 /\ boot'[s] = gen[s] + 1
      /\ life'[s] = "starting" /\ installed'[s] = "no"
      /\ booting'[s] = IF cleanup[s] # 0 THEN "cleaning" ELSE "starting"
      /\ \A r \in Surfaces \ {s} : /\ gen'[r] = gen[r] /\ entry'[r] = entry[r] /\ boot'[r] = boot[r]
                                   /\ life'[r] = life[r] /\ installed'[r] = installed[r]
                                   /\ booting'[r] = booting[r]
  BY <1>1, <1>2, <1>3 DEF TypeOK
<1>6. TypeOK' BY <1>1, <1>2, <1>4, <1>5 DEF TypeOK
<1>7. \A r \in Surfaces \ {s} : Same(r) BY <1>1, <1>4, <1>5 DEF Same
<1>8. Kind(s)' = Kind(s) /\ ~Stopping(s) BY <1>2, StoppingIsKnown DEF Kind
<1>9. step'[s] = step[s] \/ (Kind(s) \in Uses /\ step'[s] = "waiting")
  BY <1>2 DEF TypeOK, At
<1>10. ~Stopping(s)' BY <1>8, <1>9 DEF Stopping, At
<1>11. /\ live'[s] \subseteq {cleanup[s]} /\ 0 \notin live'[s]
       /\ \A g \in live'[s] : g = cleanup[s] /\ cleanup[s] # 0
       /\ cleanup[s] <= gen[s] /\ cleanup[s] \in Nat /\ gen[s] \in Nat
       /\ target[s] <= gen[s] /\ target[s] \in Nat /\ 0 \notin stale[s] \cup failing[s]
  BY <1>2, Typed, <1>1, <1>4, <1>8 DEF Fits, RunningFits, Dropped, EntryFits, QueueFits
<1>12. gen[s] + 1 # cleanup[s] /\ gen[s] + 1 \notin live'[s] /\ gen[s] + 1 # target[s]
       /\ cleanup[s] <= gen[s] + 1 /\ target[s] <= gen[s] + 1
  BY <1>11
<1>13. Fits(s)'
  <2>1. QueueFits(s)' BY <1>2, <1>8, <1>5, <1>9, <1>12 DEF Fits, QueueFits, Stopping, At
  <2>2. StartFits(s)' BY <1>1, <1>3, <1>5, <1>11, <1>12 DEF StartFits
  <2>3. EntryFits(s)' BY <1>1, <1>3, <1>5, <1>12 DEF EntryFits
  <2>4. RunningFits(s)' BY <1>1, <1>10, <1>11 DEF RunningFits
  <2>5. UnvisitedFits(s)' BY DEF UnvisitedFits
  <2> QED BY <2>1, <2>2, <2>3, <2>4, <2>5 DEF Fits
<1>14. RowFits(s) => RowFits(s)'
  <2> SUFFICES ASSUME RowFits(s) PROVE RowFits(s)' OBVIOUS
  <2>1. cleanup[s] # 0 => cleanup[s] \in live'[s] /\ cleanup[s] \notin stale[s]
    BY <1>2, <1>4 DEF RowFits, TypeOK
  <2>2. \A g \in stale[s] \cup failing[s] : g # gen[s] + 1 /\ g <= gen[s] + 1
    BY <1>2, Typed, <1>3 DEF RowFits
  <2> QED BY <1>1, <1>3, <1>5, <1>10, <2>1, <2>2 DEF RowFits
<1> QED BY <1>6, <1>7, <1>13, <1>14 DEF Kept

\* A Screen that is admitted leaves the count within the capacity.
LEMMA AdmissionFits ==
  ASSUME ScreensAssumption, BooksIInv, NEW s \in Surfaces, Admits(s), Unvisited = {},
         \A r \in Surfaces \ {s} : Same(r)
  PROVE  HoldersFit'
<1> DEFINE R == Reserved \ (IF cleanup[s] # 0 THEN {s} ELSE {})
           K == {r \in Surfaces : Holds(r)'}
<1>1. R \subseteq Surfaces /\ Cardinality(R) < Capacity
  BY DEF Admits, Reserved, BooksIInv, TypeOK
<1>2. \A r \in Surfaces \ {s} : Holds(r)' => r \in R
  <2> SUFFICES ASSUME NEW r \in Surfaces \ {s}, Holds(r)' PROVE r \in R OBVIOUS
  <2>1. Holds(r) BY SameKeeps
  <2>2. Stopping(r) => r \in stops BY StoppingIsKnown DEF BooksIInv
  <2> QED BY <2>1, <2>2 DEF Holds, Reserved
<1>3. K \subseteq R \cup {s} BY <1>2
<1>4. K \in SUBSET Surfaces OBVIOUS
<1> HIDE DEF K, R
<1>5. IsFiniteSet(R) /\ Cardinality(R) \in Nat BY <1>1, ScreensAssumption, FS_Subset, FS_CardinalityType
<1>6. /\ IsFiniteSet(R \cup {s})
      /\ Cardinality(R \cup {s}) = IF s \in R THEN Cardinality(R) ELSE Cardinality(R) + 1
  BY <1>5, FS_AddElement
<1>7. IsFiniteSet(K) /\ Cardinality(K) <= Cardinality(R \cup {s}) BY <1>3, <1>6, FS_Subset
<1>8. Cardinality(K) \in Nat BY <1>7, FS_CardinalityType
<1>9. Cardinality(K) <= Capacity BY <1>1, <1>5, <1>6, <1>7, <1>8, ScreensAssumption
<1> QED BY <1>9 DEF K, HoldersFit

\* A Screen is opened by a view, or by an operation that needs it.
LEMMA OpenKeeps ==
  ASSUME ScreensAssumption, BooksIInv, NEW s \in Surfaces, Open(s) \/ UseOpens(s)
  PROVE  Kept(s) /\ HoldersFit'
<1>1. /\ Admits(s) /\ Begin(s)
      /\ UNCHANGED <<ops, target, stops, failing, deletion, recovering, began, starts, errors, live>>
      /\ step' = step \/ (At(s, Uses, "queued") /\ step' = [step EXCEPT ![s] = "waiting"])
      /\ recovering = <<>> \/ At(s, Uses, "queued")
  BY DEF Open, UseOpens, Serving, queues, daemon
<1>2. TypeOK /\ Fits(s) BY DEF BooksIInv
<1>3. recovering = <<>> BY <1>1, ServedIsVisited DEF At, Kind, Uses
<1>4. s \notin stops /\ entry[s] = 0 BY <1>1 DEF Admits, Begin
<1>5. boot[s] = 0 BY <1>2, <1>4, StoppingIsKnown DEF Fits, StartFits
<1>6. Unvisited = {} BY <1>3, ServedIsVisited
<1>7. RecoveryFits' /\ Unvisited' = Unvisited BY <1>1, RecoveryStays
<1>8. recovering' \in Seq(Surfaces) /\ began' \in BOOLEAN BY <1>1, <1>2 DEF TypeOK
<1>9. Kept(s) BY <1>1, <1>4, <1>5, <1>6, <1>7, <1>8, BeginKeeps
<1> QED BY <1>1, <1>6, <1>9, AdmissionFits DEF Kept

-----------------------------------------------------------------------------
(* Recovery. *)

\* The row that is visited, and those that are left afterwards.
LEMMA VisitedLeaves ==
  ASSUME ScreensAssumption, BooksIInv, NEW s \in Surfaces, Visit(s)
  PROVE  /\ s \in Unvisited /\ Tail(recovering) \in Seq(Surfaces)
         /\ {Tail(recovering)[i] : i \in 1..Len(Tail(recovering))} = Unvisited \ {s}
         /\ {recovering[i] : i \in 2..Len(recovering)} = Unvisited \ {s}
         /\ \A i, j \in DOMAIN Tail(recovering) : Tail(recovering)[i] = Tail(recovering)[j] => i = j
<1>1. /\ recovering \in Seq(Surfaces) /\ recovering # <<>> /\ Head(recovering) = s /\ ~began
      /\ \A i, j \in DOMAIN recovering : recovering[i] = recovering[j] => i = j
  BY DEF Visit, BooksIInv, TypeOK, RecoveryFits
<1>2. Unvisited = {recovering[i] : i \in 1..Len(recovering)} BY <1>1 DEF Unvisited
<1>3. /\ Len(recovering) \in Nat \ {0} /\ DOMAIN recovering = 1..Len(recovering)
      /\ recovering[1] = s
  BY <1>1
<1>4. /\ Tail(recovering) \in Seq(Surfaces) /\ Len(Tail(recovering)) = Len(recovering) - 1
      /\ DOMAIN Tail(recovering) = 1..(Len(recovering) - 1)
      /\ \A i \in 1..(Len(recovering) - 1) : Tail(recovering)[i] = recovering[i + 1]
  BY <1>1, <1>3
<1>5. \A i \in 2..Len(recovering) : recovering[i] # s
  <2> SUFFICES ASSUME NEW i \in 2..Len(recovering), recovering[i] = recovering[1] PROVE FALSE
    BY <1>3
  <2>1. i \in DOMAIN recovering /\ 1 \in DOMAIN recovering /\ i # 1 BY <1>3
  <2> QED BY <1>1, <2>1
<1>6. {recovering[i] : i \in 2..Len(recovering)} = Unvisited \ {s}
  <2>1. ASSUME NEW i \in 1..Len(recovering), recovering[i] # s PROVE i \in 2..Len(recovering)
    BY <1>3, <2>1
  <2> QED BY <1>2, <1>3, <1>5, <2>1
<1>7. {Tail(recovering)[i] : i \in 1..Len(Tail(recovering))}
        = {recovering[i] : i \in 2..Len(recovering)}
  <2>1. ASSUME NEW i \in 1..(Len(recovering) - 1)
        PROVE  i + 1 \in 2..Len(recovering) /\ Tail(recovering)[i] = recovering[i + 1]
    BY <1>3, <1>4
  <2>2. ASSUME NEW i \in 2..Len(recovering)
        PROVE  i - 1 \in 1..(Len(recovering) - 1) /\ Tail(recovering)[i - 1] = recovering[i]
    <3>1. i - 1 \in 1..(Len(recovering) - 1) /\ (i - 1) + 1 = i BY <1>3
    <3> QED BY <1>4, <3>1
  <2> QED BY <1>4, <2>1, <2>2
<1>8. \A i, j \in DOMAIN Tail(recovering) : Tail(recovering)[i] = Tail(recovering)[j] => i = j
  <2> SUFFICES ASSUME NEW i \in 1..(Len(recovering) - 1), NEW j \in 1..(Len(recovering) - 1),
                      Tail(recovering)[i] = Tail(recovering)[j]
               PROVE  i = j
    BY <1>4
  <2>1. i + 1 \in DOMAIN recovering /\ j + 1 \in DOMAIN recovering BY <1>3
  <2>2. i + 1 = j + 1 BY <1>1, <1>4, <2>1
  <2> QED BY <2>2
<1>9. s \in Unvisited BY <1>2, <1>3
<1> QED BY <1>4, <1>6, <1>7, <1>8, <1>9

\* The runtime of the row's generation is adopted.
LEMMA RecoverAdoptsKeeps ==
  ASSUME ScreensAssumption, BooksIInv, NEW s \in Surfaces, RecoverAdopts(s)
  PROVE  Kept(s) /\ (Holds(s)' => Holds(s))
<1>1. /\ Visit(s) /\ gen[s] \in live[s] /\ life[s] # "failed"
      /\ entry' = [entry EXCEPT ![s] = gen[s]] /\ installed' = [installed EXCEPT ![s] = "yes"]
      /\ life' = [life EXCEPT ![s] = "ready"] /\ recovering' = Tail(recovering)
      /\ UNCHANGED <<gen, cleanup, ops, step, target, stops, boot, booting, stale, failing, deletion,
                     began, starts, errors, live>>
  BY DEF RecoverAdopts, queues, boots
<1>2. TypeOK /\ Fits(s) /\ RecoveryFits BY DEF BooksIInv
<1>3. /\ s \in Unvisited /\ Tail(recovering) \in Seq(Surfaces)
      /\ {Tail(recovering)[i] : i \in 1..Len(Tail(recovering))} = Unvisited \ {s}
      /\ \A i, j \in DOMAIN Tail(recovering) : Tail(recovering)[i] = Tail(recovering)[j] => i = j
  BY <1>1, VisitedLeaves
<1>4. ~began /\ recovering # <<>> BY <1>1 DEF Visit
<1>5. Unvisited' = Unvisited \ {s} BY <1>1, <1>3, <1>4 DEF Unvisited
<1>6. RecoveryFits' BY <1>1, <1>2, <1>3, <1>4 DEF RecoveryFits
<1>7. TypeOK' BY <1>1, <1>2, <1>3 DEF TypeOK
<1>8. \A r \in Surfaces \ {s} : Same(r) BY <1>1, <1>2, <1>5 DEF Same, TypeOK
<1>9. /\ entry[s] = 0 /\ cleanup[s] = 0 /\ boot[s] = 0 /\ s \notin stops
      /\ stale[s] = {} /\ failing[s] = {} /\ life[s] \in {"starting", "ready", "failed"}
  BY <1>2, <1>3 DEF Fits, UnvisitedFits
<1>10. /\ entry'[s] = gen[s] /\ installed'[s] = "yes" /\ life'[s] = "ready"
       /\ live[s] = {gen[s]} /\ gen[s] # 0 BY <1>1, <1>2, Typed DEF TypeOK, Fits, RunningFits
<1>11. Kind(s)' = Kind(s) /\ (Stopping(s)' <=> Stopping(s)) /\ ~Stopping(s)
  BY <1>1, <1>2, <1>9, SameKind, StoppingIsKnown
<1>12. Fits(s)'
  <2>1. QueueFits(s)' BY <1>2, <1>11, <1>1, <1>9 DEF Fits, QueueFits, Stopping, At
  <2>2. StartFits(s)' BY <1>1, <1>2, <1>9 DEF Fits, StartFits
  <2>3. EntryFits(s)' BY <1>1, <1>2, <1>9, <1>10 DEF Fits, EntryFits
  <2>4. RunningFits(s)' BY <1>1, <1>10, <1>11 DEF RunningFits
  <2>5. UnvisitedFits(s)' BY <1>5 DEF UnvisitedFits
  <2> QED BY <2>1, <2>2, <2>3, <2>4, <2>5 DEF Fits
<1>13. RowFits(s) => RowFits(s)' BY <1>1, <1>9, <1>10, <1>11 DEF RowFits
<1>14. Holds(s) BY <1>1, <1>3 DEF Holds
<1> QED BY <1>6, <1>7, <1>8, <1>12, <1>13, <1>14 DEF Kept

\* What is found on a failed row, or beyond the capacity, is stopped.
LEMMA RecoverDropsKeeps ==
  ASSUME ScreensAssumption, BooksIInv, NEW s \in Surfaces, RecoverDrops(s), Calm'
  PROVE  Kept(s) /\ (Holds(s)' => Holds(s))
<1>1. /\ Visit(s)
      /\ life' = [life EXCEPT ![s] = IF @ = "failed" THEN "failed" ELSE "stopped"]
      /\ recovering' = Tail(recovering)
      /\ UNCHANGED <<gen, entry, installed, cleanup, ops, step, target, stops, boot, booting, stale,
                     failing, deletion, began, starts>>
  BY DEF RecoverDrops, entries, queues, boots
<1>2. TypeOK /\ Fits(s) /\ RecoveryFits BY DEF BooksIInv
<1>3. live' = [live EXCEPT ![s] = {}] /\ UNCHANGED errors
  <2>1. CASE StopRejects(s, gen[s])
    <3>1. errors' = errors + 1 BY <2>1 DEF StopRejects
    <3> QED BY <1>2, <3>1, Typed DEF Calm
  <2> QED BY <2>1 DEF RecoverDrops
<1>4. /\ s \in Unvisited /\ Tail(recovering) \in Seq(Surfaces)
      /\ {Tail(recovering)[i] : i \in 1..Len(Tail(recovering))} = Unvisited \ {s}
      /\ \A i, j \in DOMAIN Tail(recovering) : Tail(recovering)[i] = Tail(recovering)[j] => i = j
  BY <1>1, VisitedLeaves
<1>5. ~began /\ recovering # <<>> BY <1>1 DEF Visit
<1>6. Unvisited' = Unvisited \ {s} BY <1>1, <1>4, <1>5 DEF Unvisited
<1>7. RecoveryFits' BY <1>1, <1>2, <1>4, <1>5 DEF RecoveryFits
<1>8. TypeOK' BY <1>1, <1>2, <1>3, <1>4 DEF TypeOK
<1>9. \A r \in Surfaces \ {s} : Same(r) BY <1>1, <1>2, <1>3, <1>6 DEF Same, TypeOK
<1>10. /\ entry[s] = 0 /\ cleanup[s] = 0 /\ boot[s] = 0 /\ s \notin stops
       /\ stale[s] = {} /\ failing[s] = {}
  BY <1>2, <1>4 DEF Fits, UnvisitedFits
<1>11. live'[s] = {} /\ life'[s] \in {"failed", "stopped"} BY <1>1, <1>2, <1>3 DEF TypeOK
<1>12. Kind(s)' = Kind(s) /\ (Stopping(s)' <=> Stopping(s)) /\ ~Stopping(s)
  BY <1>1, <1>2, <1>10, SameKind, StoppingIsKnown
<1>13. Fits(s)'
  <2>1. QueueFits(s)' BY <1>1, <1>2, <1>12 DEF Fits, QueueFits
  <2>2. StartFits(s)' BY <1>1, <1>2, <1>10 DEF Fits, StartFits
  <2>3. EntryFits(s)' BY <1>1, <1>2, <1>10 DEF Fits, EntryFits
  <2>4. RunningFits(s)' BY <1>11 DEF RunningFits
  <2>5. UnvisitedFits(s)' BY <1>6 DEF UnvisitedFits
  <2> QED BY <2>1, <2>2, <2>3, <2>4, <2>5 DEF Fits
<1>14. RowFits(s) => RowFits(s)' BY <1>1, <1>10, <1>11, <1>12 DEF RowFits
<1>15. Holds(s)' => Holds(s) BY <1>1, <1>6, <1>12 DEF Holds
<1> QED BY <1>7, <1>8, <1>9, <1>13, <1>14, <1>15 DEF Kept

\* Nothing is found: the Screen starts, in the place it had.
LEMMA RecoverStartsKeeps ==
  ASSUME ScreensAssumption, BooksIInv, NEW s \in Surfaces, RecoverStarts(s)
  PROVE  Kept(s) /\ (Holds(s)' => Holds(s))
<1>1. /\ Visit(s) /\ life[s] # "failed" /\ Begin(s) /\ began' = TRUE
      /\ live' = [live EXCEPT ![s] = {}]
      /\ UNCHANGED <<ops, step, target, stops, failing, deletion, recovering, starts, errors>>
  BY DEF RecoverStarts, queues
<1>2. TypeOK /\ Fits(s) /\ RecoveryFits BY DEF BooksIInv
<1>3. /\ s \in Unvisited /\ {recovering[i] : i \in 2..Len(recovering)} = Unvisited \ {s}
  BY <1>1, VisitedLeaves
<1>4. Unvisited' = Unvisited \ {s} BY <1>1, <1>3 DEF Unvisited
<1>5. RecoveryFits' BY <1>1, <1>2 DEF RecoveryFits, Visit
<1>6. /\ cleanup[s] = 0 /\ boot[s] = 0 /\ s \notin stops /\ life[s] \in {"starting", "ready"}
  BY <1>1, <1>2, <1>3 DEF Fits, UnvisitedFits
<1>7. recovering' \in Seq(Surfaces) /\ began' \in BOOLEAN BY <1>1, <1>2 DEF TypeOK
<1>8. Kept(s) BY <1>1, <1>4, <1>5, <1>6, <1>7, BeginKeeps
<1>9. Holds(s) BY <1>3, <1>6 DEF Holds
<1> QED BY <1>8, <1>9

\* The start that recovery waited for has settled.
LEMMA RecoverContinuesKeeps ==
  ASSUME ScreensAssumption, BooksIInv, RecoverContinues
  PROVE  BooksIInv' /\ (RowsFit => RowsFit')
<1>1. /\ began /\ began' = FALSE /\ recovering' = Tail(recovering)
      /\ UNCHANGED <<life, gen, entry, installed, cleanup, ops, step, target, stops, boot, booting,
                     stale, failing, deletion, starts, errors, live>>
  BY DEF RecoverContinues, rows, entries, queues, boots
<1>2. TypeOK /\ RecoveryFits /\ recovering \in Seq(Surfaces) /\ recovering # <<>>
  BY <1>1 DEF BooksIInv, TypeOK, RecoveryFits
<1>3. /\ Len(recovering) \in Nat \ {0} /\ DOMAIN recovering = 1..Len(recovering)
      /\ Tail(recovering) \in Seq(Surfaces) /\ Len(Tail(recovering)) = Len(recovering) - 1
      /\ DOMAIN Tail(recovering) = 1..(Len(recovering) - 1)
      /\ \A i \in 1..(Len(recovering) - 1) : Tail(recovering)[i] = recovering[i + 1]
  BY <1>2
<1>4. Unvisited' = Unvisited
  <2>1. Unvisited = {recovering[i] : i \in 2..Len(recovering)} BY <1>1 DEF Unvisited
  <2>2. Unvisited' = {Tail(recovering)[i] : i \in 1..(Len(recovering) - 1)}
    BY <1>1, <1>3 DEF Unvisited
  <2>3. ASSUME NEW i \in 1..(Len(recovering) - 1)
        PROVE  i + 1 \in 2..Len(recovering) /\ Tail(recovering)[i] = recovering[i + 1]
    BY <1>3
  <2>4. ASSUME NEW i \in 2..Len(recovering)
        PROVE  i - 1 \in 1..(Len(recovering) - 1) /\ Tail(recovering)[i - 1] = recovering[i]
    <3>1. i - 1 \in 1..(Len(recovering) - 1) /\ (i - 1) + 1 = i BY <1>3
    <3> QED BY <1>3, <3>1
  <2> QED BY <2>1, <2>2, <2>3, <2>4
<1>5. \A i, j \in DOMAIN Tail(recovering) : Tail(recovering)[i] = Tail(recovering)[j] => i = j
  <2> SUFFICES ASSUME NEW i \in 1..(Len(recovering) - 1), NEW j \in 1..(Len(recovering) - 1),
                      Tail(recovering)[i] = Tail(recovering)[j]
               PROVE  i = j
    BY <1>3
  <2>1. i + 1 \in DOMAIN recovering /\ j + 1 \in DOMAIN recovering BY <1>3
  <2>2. i + 1 = j + 1 BY <1>2, <1>3, <2>1 DEF RecoveryFits
  <2> QED BY <2>2
<1>6. RecoveryFits' BY <1>1, <1>2, <1>5 DEF RecoveryFits
<1>7. TypeOK' BY <1>1, <1>2, <1>3 DEF TypeOK
<1>8. \A r \in Surfaces : Same(r) BY <1>1, <1>4 DEF Same
<1>9. \A r \in Surfaces : Fits(r)' /\ (Holds(r)' => Holds(r)) BY <1>8, SameKeeps DEF BooksIInv
<1>10. HoldersFit' BY <1>9, HoldersShrink DEF BooksIInv
<1>11. RowsFit => RowsFit' BY <1>8, SameKeeps DEF RowsFit
<1> QED BY <1>6, <1>7, <1>9, <1>10, <1>11 DEF BooksIInv

\* The recovery list of a new daemon names every recoverable row, and once.
LEMMA RecoveryList ==
  ASSUME ScreensAssumption, NEW R, R \subseteq Surfaces,
         NEW order \in [1..Cardinality(R) -> R],
         \A i, j \in DOMAIN order : order[i] = order[j] => i = j
  PROVE  order \in Seq(Surfaces) /\ {order[i] : i \in 1..Len(order)} = R
<1> DEFINE n == Cardinality(R)
<1>1. IsFiniteSet(R) /\ n \in Nat BY ScreensAssumption, FS_Subset, FS_CardinalityType
<1>2. IsFiniteSet(1..n) /\ Cardinality(1..n) = n BY <1>1, FS_Interval
<1>3. order \in Injection(1..n, R) BY DEF Injection, IsInjective
<1>4. order \in Surjection(1..n, R)
  <2> HIDE DEF n
  <2>1. Cardinality(R) = Cardinality(1..n) BY <1>2 DEF n
  <2> QED BY <1>1, <1>2, <1>3, <2>1, FS_Injection
<1>5. \A r \in R : \E i \in 1..n : order[i] = r BY <1>4 DEF Surjection
<1> HIDE DEF n
<1>6. order \in [1..n -> R] BY DEF n
<1>7. order \in Seq(Surfaces) /\ Len(order) = n BY <1>1, <1>6
<1>8. \A i \in 1..n : order[i] \in R BY <1>6
<1>9. {order[i] : i \in 1..n} = R BY <1>5, <1>8
<1> QED BY <1>7, <1>9

\* A new daemon finds the processes and the rows, and knows nothing else.
LEMMA RestartKeeps ==
  ASSUME ScreensAssumption, BooksIInv, RowsFit, Calm, Restart
  PROVE  BooksIInv' /\ RowsFit'
<1>1. PICK order \in [1..Cardinality(Recoverable) -> Recoverable] :
        /\ \A i, j \in DOMAIN order : order[i] = order[j] => i = j
        /\ recovering' = order
  BY DEF Restart
<1>2. PICK left \in SUBSET {s \in Surfaces : booting[s] = "starting"} :
        live' = [s \in Surfaces |-> IF s \in left THEN {boot[s]} ELSE live[s]]
  BY DEF Restart
<1>3. /\ starts < MaxStarts /\ starts' = starts + 1 /\ began' = FALSE /\ stops' = {}
      /\ entry' = [s \in Surfaces |-> 0] /\ installed' = [s \in Surfaces |-> "no"]
      /\ cleanup' = [s \in Surfaces |-> 0] /\ ops' = [s \in Surfaces |-> <<>>]
      /\ step' = [s \in Surfaces |-> "queued"] /\ target' = [s \in Surfaces |-> 0]
      /\ boot' = [s \in Surfaces |-> 0] /\ booting' = [s \in Surfaces |-> "none"]
      /\ stale' = [s \in Surfaces |-> {}] /\ failing' = [s \in Surfaces |-> {}]
      /\ deletion' = [s \in Surfaces |-> "none"] /\ UNCHANGED <<life, gen, errors>>
  BY DEF Restart, rows
<1>4. TypeOK /\ RecoveryFits BY DEF BooksIInv
<1>5. recovering' \in Seq(Surfaces) /\ {recovering'[i] : i \in 1..Len(recovering')} = Recoverable
  <2>1. Recoverable \subseteq Surfaces BY DEF Recoverable
  <2>2. /\ order \in Seq(Surfaces)
        /\ {order[i] : i \in 1..Len(order)} = Recoverable
    BY <1>1, <2>1, RecoveryList
  <2> QED BY <1>1, <2>2
<1>6. Unvisited' = Recoverable BY <1>3, <1>5 DEF Unvisited
<1>7. ASSUME NEW s \in left
      PROVE  /\ s \in Surfaces /\ boot[s] # 0 /\ boot[s] \in Gens
             /\ life[s] \in {"starting", "ready"} /\ Holds(s)
  <2>1. Fits(s) /\ RowFits(s) /\ booting[s] = "starting" BY DEF BooksIInv, RowsFit
  <2>2. boot[s] # 0 /\ boot[s] \in Gens BY <1>4, <2>1 DEF Fits, StartFits, TypeOK, GenOrNone, Gens
  <2>3. entry[s] = boot[s] \/ (Stopping(s) /\ target[s] = boot[s]) BY <2>1, <2>2 DEF Fits, StartFits
  <2> QED BY <2>1, <2>2, <2>3 DEF RowFits, Holds
<1>8. /\ live' \in [Surfaces -> SUBSET Gens]
      /\ \A s \in Surfaces : live'[s] = IF s \in left THEN {boot[s]} ELSE live[s]
  BY <1>2, <1>4, <1>7 DEF TypeOK
<1>9. starts' \in 0..MaxStarts /\ starts' > 0
  BY <1>3, <1>4, ScreensAssumption DEF TypeOK
<1>10. TypeOK'
  <2>1. 0 \in GenOrNone /\ {} \in SUBSET Gens /\ <<>> \in Seq({"act", "capture", "stop"})
    BY ScreensAssumption DEF GenOrNone
  <2>2. /\ entry' \in [Surfaces -> GenOrNone] /\ cleanup' \in [Surfaces -> GenOrNone]
        /\ target' \in [Surfaces -> GenOrNone] /\ boot' \in [Surfaces -> GenOrNone]
        /\ installed' \in [Surfaces -> {"no", "yes", "deaf"}]
        /\ ops' \in [Surfaces -> Seq({"act", "capture", "stop"})]
        /\ step' \in [Surfaces -> {"queued", "waiting", "using", "failing", "stopping"}]
        /\ booting' \in [Surfaces -> {"none", "cleaning", "starting"}]
        /\ stale' \in [Surfaces -> SUBSET Gens] /\ failing' \in [Surfaces -> SUBSET Gens]
        /\ deletion' \in [Surfaces -> {"none", "stopping", "destroying", "cleaned"}]
    BY <1>3, <2>1
  <2> QED BY <1>3, <1>4, <1>5, <1>8, <1>9, <2>2 DEF TypeOK
<1>11. RecoveryFits' BY <1>1, <1>3, <1>9 DEF RecoveryFits
<1>12. ASSUME NEW s \in Surfaces
       PROVE  Fits(s)' /\ (Holds(s)' => Holds(s)) /\ RowFits(s)'
  <2>1. Fits(s) /\ RowFits(s) BY DEF BooksIInv, RowsFit
  <2>2. /\ entry'[s] = 0 /\ cleanup'[s] = 0 /\ boot'[s] = 0 /\ booting'[s] = "none"
        /\ ops'[s] = <<>> /\ step'[s] = "queued" /\ target'[s] = 0 /\ s \notin stops'
        /\ stale'[s] = {} /\ failing'[s] = {} /\ installed'[s] = "no"
        /\ life'[s] = life[s] /\ gen'[s] = gen[s] /\ gen[s] \in Nat
    BY <1>3, <1>4, Typed
  <2>3. ~Stopping(s)' BY <2>2 DEF Stopping, At
  <2>4. s \in Unvisited' <=> life[s] \in {"starting", "ready", "failed"} BY <1>6 DEF Recoverable
  <2>5. life[s] = "stopped" => live'[s] = {} BY <1>7, <1>8, <2>1 DEF RowFits
  <2>6. life[s] # "gone" /\ (s \notin Unvisited' => live'[s] = {})
    BY <1>4, <2>1, <2>4, <2>5, Typed DEF RowFits
  <2>7. Fits(s)'
    <3>1. QueueFits(s)' BY <2>2 DEF QueueFits
    <3>2. StartFits(s)' BY <2>2 DEF StartFits
    <3>3. EntryFits(s)' BY <2>2 DEF EntryFits
    <3>4. RunningFits(s)' BY <1>8, <2>1, <2>3, <2>6 DEF RunningFits, Fits
    <3>5. UnvisitedFits(s)' BY <2>2, <2>4 DEF UnvisitedFits
    <3> QED BY <3>1, <3>2, <3>3, <3>4, <3>5 DEF Fits
  <2>8. RowFits(s)' BY <2>4, <2>2, <2>3, <2>5, <2>6 DEF RowFits
  <2>9. live[s] # {} \/ life[s] \in {"starting", "ready"} => Holds(s)
    <3>1. CASE s \in Unvisited BY <3>1 DEF Holds
    <3>2. CASE s \notin Unvisited
      <4>1. /\ live[s] \subseteq {entry[s], cleanup[s]} \cup Dropped(s) /\ 0 \notin live[s]
        BY <1>4, <2>1, <3>2, Typed DEF Fits, RunningFits
      <4>2. live[s] # {} => Holds(s) BY <4>1 DEF Holds, Dropped
      <4>3. life[s] \in {"starting", "ready"} => Holds(s) BY <2>1, <3>2 DEF RowFits, Holds
      <4> QED BY <4>2, <4>3
    <3> QED BY <3>1, <3>2
  <2>10. Holds(s)' => Holds(s) BY <1>7, <1>8, <2>2, <2>9 DEF Holds
  <2> QED BY <2>7, <2>8, <2>10
<1>13. HoldersFit' BY <1>12, HoldersShrink DEF BooksIInv
<1> QED BY <1>10, <1>11, <1>12, <1>13 DEF BooksIInv, RowsFit

-----------------------------------------------------------------------------
(* The theorems. *)

\* The invariant holds at first.
LEMMA BooksInit == ASSUME ScreensAssumption, Init PROVE BooksIInv /\ RowsFit
<1>1. 0 \in GenOrNone /\ Capacity \in Nat /\ MaxStarts \in Nat /\ MaxStopErrors \in Nat
  BY ScreensAssumption DEF GenOrNone
<1>2. TypeOK
  <2>1. <<>> \in Seq({"act", "capture", "stop"}) /\ <<>> \in Seq(Surfaces) OBVIOUS
  <2>2. ops \in [Surfaces -> Seq({"act", "capture", "stop"})] /\ recovering \in Seq(Surfaces)
    BY <2>1 DEF Init
  <2>3. starts \in 0..MaxStarts /\ errors \in 0..MaxStopErrors BY <1>1 DEF Init
  <2> QED BY <1>1, <2>2, <2>3 DEF Init, TypeOK
<1>3. Unvisited = {} BY DEF Unvisited, Init
<1>4. RecoveryFits BY DEF RecoveryFits, Init
<1>5. ASSUME NEW s \in Surfaces PROVE Fits(s) /\ ~Holds(s) /\ RowFits(s)
  <2>1. /\ life[s] = "stopped" /\ gen[s] = 0 /\ entry[s] = 0 /\ installed[s] = "no"
        /\ cleanup[s] = 0 /\ ops[s] = <<>> /\ step[s] = "queued" /\ target[s] = 0 /\ boot[s] = 0
        /\ booting[s] = "none" /\ stale[s] = {} /\ failing[s] = {} /\ live[s] = {}
    BY DEF Init
  <2>2. ~Stopping(s) BY <2>1 DEF Stopping, At
  <2>3. QueueFits(s) /\ StartFits(s) /\ EntryFits(s) /\ RunningFits(s) /\ UnvisitedFits(s)
    BY <1>3, <2>1, <2>2 DEF QueueFits, StartFits, EntryFits, RunningFits, UnvisitedFits
  <2> QED BY <1>3, <2>1, <2>2, <2>3 DEF Fits, Holds, RowFits
<1>6. HoldersFit BY <1>5, <1>1, FS_EmptySet DEF HoldersFit
<1> QED BY <1>2, <1>4, <1>5, <1>6 DEF BooksIInv, RowsFit

\* What a step has to keep.
StepKeeps == BooksIInv' /\ (Calm /\ Calm' /\ RowsFit => RowsFit')

\* Every step keeps it: while one daemon lives, or when no stop is rejected and no Bot deleted.
LEMMA BooksNext ==
  ASSUME ScreensAssumption, BooksIInv, [Next]_vars, starts' = 0 \/ (Calm /\ Calm' /\ RowsFit)
  PROVE  StepKeeps
<1>1. ASSUME NEW s \in Surfaces, Kept(s), Holds(s)' => Holds(s) PROVE StepKeeps
  BY <1>1, KeptShrinks DEF StepKeeps
<1>2. ASSUME NEW s \in Surfaces, Kept(s), HoldersFit' PROVE StepKeeps BY <1>2, KeptIsEnough DEF StepKeeps
<1>3. CASE UNCHANGED vars
  <2>1. UNCHANGED <<life, gen, entry, installed, cleanup, ops, step, target, stops, boot, booting,
                    stale, failing, deletion, recovering, began, starts, errors, live>>
    BY <1>3 DEF vars, rows, queues, boots, entries, daemon
  <2>2. TypeOK' BY <2>1 DEF TypeOK, BooksIInv
  <2>3. Unvisited' = Unvisited BY <2>1 DEF Unvisited
  <2>4. RecoveryFits' BY <2>1 DEF RecoveryFits, BooksIInv
  <2>5. \A r \in Surfaces : Same(r) BY <2>1, <2>3 DEF Same
  <2>6. \A r \in Surfaces : Fits(r)' /\ (Holds(r)' => Holds(r)) BY <2>5, SameKeeps DEF BooksIInv
  <2>7. HoldersFit' BY <2>6, HoldersShrink DEF BooksIInv
  <2>8. RowsFit => RowsFit' BY <2>5, SameKeeps DEF RowsFit
  <2> QED BY <2>2, <2>4, <2>6, <2>7, <2>8 DEF BooksIInv, StepKeeps
<1>4. ASSUME NEW s \in Surfaces, Open(s) \/ UseOpens(s) PROVE StepKeeps BY <1>2, <1>4, OpenKeeps
<1>5. ASSUME NEW s \in Surfaces, Boot(s) PROVE StepKeeps
  BY <1>1, <1>5, BootCleansKeeps, BootSucceedsKeeps, BootFailsKeeps DEF Boot
<1>6. ASSUME NEW s \in Surfaces, StaleStops(s) \/ RuntimeExits(s) \/ FailedStops(s) PROVE StepKeeps
  BY <1>1, <1>6, StaleStopsKeeps, RuntimeExitsKeeps, FailedStopsKeeps
<1>7. ASSUME NEW s \in Surfaces, NEW kind \in Uses, Request(s, kind) PROVE StepKeeps
  BY <1>1, <1>7, RequestKeeps
<1>8. ASSUME NEW s \in Surfaces, Use(s) PROVE StepKeeps
  BY <1>1, <1>4, <1>8, UseKeeps, UseFailsKeeps DEF Use
<1>9. ASSUME NEW s \in Surfaces, Stop(s) PROVE StepKeeps
  BY <1>1, <1>9, StopBeginsKeeps, StopSucceedsKeeps, StopFailsKeeps DEF Stop
<1>10. ASSUME NEW s \in Surfaces, AdapterDestroys(s) \/ DeletionEnds(s) PROVE StepKeeps
  BY <1>1, <1>10, DeletionKeeps
<1>11. ASSUME NEW s \in Surfaces, Recover(s) PROVE StepKeeps
  <2>1. recovering # <<>> BY <1>11 DEF Recover, RecoverAdopts, RecoverDrops, RecoverStarts, Visit
  <2>2. starts > 0 /\ starts' = starts
    BY <1>11, <2>1 DEF BooksIInv, RecoveryFits, Recover, RecoverAdopts, RecoverDrops, RecoverStarts,
       daemon
  <2>3. Calm' BY <2>2
  <2> QED BY <1>1, <1>11, <2>3, RecoverAdoptsKeeps, RecoverDropsKeeps, RecoverStartsKeeps DEF Recover
<1>12. CASE (\E s \in Surfaces : Delete(s)) \/ StopAll BY <1>12, StopsAreQueued DEF StepKeeps
<1>13. CASE Restart
  <2>1. starts' # 0 BY <1>13, ScreensAssumption DEF Restart, BooksIInv, TypeOK
  <2> QED BY <1>13, <2>1, RestartKeeps DEF StepKeeps
<1>14. CASE RecoverContinues BY <1>14, RecoverContinuesKeeps DEF StepKeeps
<1>15. ASSUME NEW s \in Surfaces,
              \/ Open(s) \/ Boot(s) \/ StaleStops(s)
              \/ RuntimeExits(s) \/ FailedStops(s)
              \/ (\E kind \in Uses : Request(s, kind)) \/ Use(s)
              \/ Stop(s) \/ Delete(s) \/ AdapterDestroys(s) \/ DeletionEnds(s)
              \/ Recover(s)
       PROVE  StepKeeps
  BY <1>4, <1>5, <1>6, <1>7, <1>8, <1>9, <1>10, <1>11, <1>12, <1>15
<1>16. CASE Next BY <1>12, <1>13, <1>14, <1>15, <1>16 DEF Next
<1> QED BY <1>3, <1>16

\* No runtime escapes the books, and the capacity holds.
LEMMA BooksCount ==
  ASSUME ScreensAssumption, BooksIInv PROVE RuntimesAreCounted
<1>1. ASSUME NEW s \in Surfaces
      PROVE  /\ \A g \in live[s] : \/ entry[s] = g \/ cleanup[s] = g \/ s \in stops \/ boot[s] # 0
                                   \/ s \in Unrecovered
             /\ booting[s] = "starting" => live[s] = {}
             /\ live[s] # {} \/ booting[s] = "starting" => Holds(s)
  <2>1. TypeOK /\ Fits(s) BY DEF BooksIInv
  <2>2. s \in Unvisited => s \in Unrecovered BY <2>1 DEF TypeOK, Unvisited, Unrecovered
  <2>3. booting[s] = "starting" => live[s] = {} /\ boot[s] # 0 BY <2>1 DEF Fits, StartFits
  <2>4. boot[s] # 0 => Holds(s) BY <2>1 DEF Fits, StartFits, Holds
  <2>5. CASE s \in Unvisited BY <2>2, <2>3, <2>4, <2>5 DEF Holds
  <2>6. CASE s \notin Unvisited
    <3>1. live[s] \subseteq {entry[s], cleanup[s]} \cup Dropped(s) /\ 0 \notin live[s]
      BY <2>1, <2>6, Typed DEF Fits, RunningFits
    <3>2. Stopping(s) => s \in stops BY <2>1, StoppingIsKnown
    <3>3. live[s] # {} => Holds(s) BY <3>1 DEF Holds, Dropped
    <3> QED BY <2>3, <2>4, <3>1, <3>2, <3>3 DEF Dropped
  <2> QED BY <2>5, <2>6
<1>2. NoOrphans BY <1>1 DEF NoOrphans
<1>3. CapacityHolds
  <2> DEFINE H == {s \in Surfaces : Holds(s)}
             L == {s \in Surfaces : live[s] # {} \/ booting[s] = "starting"}
  <2>1. L \in SUBSET H /\ IsFiniteSet(H) /\ Cardinality(H) <= Capacity
    BY <1>1, ScreensAssumption, FS_Subset DEF BooksIInv, HoldersFit
  <2> HIDE DEF H, L
  <2>2. /\ Cardinality(L) <= Cardinality(H) /\ IsFiniteSet(L)
        /\ Cardinality(L) \in Nat /\ Cardinality(H) \in Nat
    BY <2>1, FS_Subset, FS_CardinalityType
  <2>3. Cardinality(L) <= Capacity BY <2>1, <2>2, ScreensAssumption
  <2> QED BY <2>3 DEF L, CapacityHolds
<1> QED BY <1>2, <1>3 DEF RuntimesAreCounted

\* What the database shows is real.
LEMMA RowsAreReal ==
  ASSUME ScreensAssumption, BooksIInv, RowsFit PROVE ShownIsReal
<1>1. TypeOK BY DEF BooksIInv
<1>2. ASSUME NEW s \in Surfaces
      PROVE  /\ s \notin stops \cup Unrecovered =>
                  /\ life[s] = "ready" => /\ entry[s] = gen[s] /\ installed[s] = "yes"
                                          /\ gen[s] \in live[s]
                  /\ life[s] = "starting" => entry[s] = gen[s] /\ boot[s] = gen[s]
             /\ cleanup[s] # 0 => cleanup[s] \in live[s]
  <2>1. Fits(s) /\ RowFits(s) BY DEF BooksIInv, RowsFit
  <2>2. s \in Unvisited => s \in Unrecovered BY <1>1 DEF TypeOK, Unvisited, Unrecovered
  <2>3. Stopping(s) => s \in stops BY <1>1, <2>1, StoppingIsKnown
  <2>4. ASSUME s \notin stops \cup Unrecovered, life[s] \in {"starting", "ready"}
        PROVE  /\ entry[s] # 0 /\ entry[s] = gen[s]
               /\ IF boot[s] # 0 THEN life[s] = "starting"
                  ELSE life[s] = "ready" /\ live[s] = {entry[s]} /\ installed[s] # "no"
    BY <2>1, <2>2, <2>3, <2>4 DEF RowFits, Fits, EntryFits
  <2>5. (boot[s] # 0 => boot[s] = gen[s]) /\ installed[s] # "deaf" BY <2>1 DEF RowFits, Fits, StartFits
  <2>6. installed[s] \in {"no", "yes", "deaf"} BY <1>1, Typed
  <2> QED BY <2>1, <2>4, <2>5, <2>6 DEF RowFits
<1> QED BY <1>1, <1>2 DEF ShownIsReal

\* RuntimesAreCounted: every runtime that runs is one BotScreenManager still knows of, and no more
\* Screens hold one than the capacity allows, while one daemon lives, whatever fails and is deleted,
\* or across restarts in which no stop is rejected and no Bot deleted.
THEOREM RuntimesStayCounted ==
  Spec /\ ([](starts = 0) \/ []Calm) => []RuntimesAreCounted
<1>1. Init => BooksIInv /\ RowsFit BY ScreensAssumption, BooksInit
<1>2. BooksIInv => RuntimesAreCounted BY ScreensAssumption, BooksCount
<1>3. BooksIInv /\ [Next]_vars /\ (starts = 0)' => BooksIInv'
  BY ScreensAssumption, BooksNext DEF StepKeeps
<1>4. BooksIInv /\ RowsFit /\ [Next]_vars /\ Calm /\ Calm' => BooksIInv' /\ RowsFit'
  BY ScreensAssumption, BooksNext DEF StepKeeps
<1>5. Spec /\ [](starts = 0) => []RuntimesAreCounted BY <1>1, <1>2, <1>3, PTL DEF Spec
<1>6. Spec /\ []Calm => []RuntimesAreCounted BY <1>1, <1>2, <1>4, PTL DEF Spec
<1> QED BY <1>5, <1>6, PTL

\* RecoveredIsReal: whatever ends the daemon, its successor shows as ready what runs and as starting
\* what starts, and retains no handle of a runtime that is gone.  The books hold meanwhile.
THEOREM RecoveredStaysReal == ScreensSpec => [](RecoveredIsReal /\ RuntimesAreCounted)
<1> DEFINE I == /\ BooksIInv /\ part \in {"deletion", "restart"}
                /\ part = "deletion" => starts = 0
                /\ part = "restart" => Calm /\ RowsFit
<1>1. ScreensInit => I BY ScreensAssumption, BooksInit DEF Init, Calm, ScreensInit
<1>2. I /\ [ScreensNext]_<<vars, part>> => I'
  <2> SUFFICES ASSUME I, [ScreensNext]_<<vars, part>> PROVE I' OBVIOUS
  <2>1. UNCHANGED part /\ [Next]_vars BY DEF ScreensNext
  <2>2. /\ part = "deletion" => starts' = 0
        /\ part = "restart" => Calm'
    <3>1. CASE ScreensNext BY <3>1 DEF ScreensNext, Calm
    <3>2. CASE UNCHANGED <<vars, part>>
      BY <3>2 DEF vars, daemon, Calm
    <3> QED BY <3>1, <3>2
  <2> QED BY <2>1, <2>2, ScreensAssumption, BooksNext DEF StepKeeps
<1>3. I => RecoveredIsReal /\ RuntimesAreCounted
  BY ScreensAssumption, RowsAreReal, BooksCount DEF RecoveredIsReal
<1> QED BY <1>1, <1>2, <1>3, PTL DEF ScreensSpec
=============================================================================
