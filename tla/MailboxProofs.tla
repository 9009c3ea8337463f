---------------------------- MODULE MailboxProofs ----------------------------
(***************************************************************************)
(* Proofs about Mailbox for any number of Bots, Agents, calls, deliveries, *)
(* dispatchers and daemon starts.  The inductive invariant MailboxInv ties *)
(* the delivery row to the Turn rows inserted for it; KeptInv, at the end, *)
(* adds what makes mail wait where it will be found.                       *)
(***************************************************************************)
EXTENDS Mailbox, SequenceTheorems, FiniteSetTheorems, TLAPS

(* A delivery has one Turn exactly when it has been claimed and its target *)
(* still exists, and a failed delivery's Turn has ended.                   *)
Unclaimed(d) == mail[d].state \in {"none", "queued", "gone"}
RowMatchesTurns ==
  \A d \in Ids :
    /\ Unclaimed(d) => turn[d] = <<>>
    /\ mail[d].state \in {"none", "queued"} => mail[d].turn = 0
    /\ ~Unclaimed(d) => Len(turn[d]) = 1 /\ mail[d].turn = 1
    /\ mail[d].state = "failed" => turn[d][1] \in Terminal

(* The queue names each waiting delivery once and none being dispatched,   *)
(* and the pool's counter is the number of dispatches under way.           *)
Distinct(s) == \A i, j \in DOMAIN s : s[i] = s[j] => i = j
PoolInv ==
  /\ Distinct(pending)
  /\ Elements(pending) \cap Active = {}
  /\ PoolAccounting

MailboxInv == TypeOK /\ RowMatchesTurns /\ PoolInv /\ DispatchingIsOwned

-----------------------------------------------------------------------------
(* FailWorking keeps the number of Turns, leaves none working and leaves   *)
(* the ended ones as they are.                                             *)
LEMMA FailWorkingLemma ==
  ASSUME NEW s \in Seq(TurnStatus)
  PROVE  /\ FailWorking(s) \in Seq(TurnStatus)
         /\ Len(FailWorking(s)) = Len(s)
         /\ DOMAIN FailWorking(s) = DOMAIN s
         /\ s = <<>> => FailWorking(s) = <<>>
         /\ \A i \in DOMAIN s : /\ FailWorking(s)[i] \in Terminal
                                /\ s[i] \in Terminal => FailWorking(s)[i] = s[i]
  BY DEF FailWorking, TurnStatus, Terminal

(* Any set of deliveries is finite.                                        *)
LEMMA FiniteIds ==
  ASSUME MailboxAssumption, NEW S \in SUBSET Ids
  PROVE  IsFiniteSet(S) /\ Cardinality(S) \in Nat
<1>1. IsFiniteSet(Ids)
  BY FS_Interval DEF Ids, MailboxAssumption
<1>2. IsFiniteSet(S)
  BY <1>1, FS_Subset
<1> QED BY <1>2, FS_CardinalityType

(* A scheduling request keeps the types of the queue.                      *)
LEMMA ScheduleDispatchType ==
  ASSUME TypeOK, NEW D \in SUBSET Ids, ScheduleDispatch(D), MailboxAssumption
  PROVE  /\ pending' \in Seq(Ids)
         /\ rerun' \in SUBSET Ids
         /\ drainScheduled' \in BOOLEAN
<1> DEFINE new == (D \ Active) \ Elements(pending)
<1>1. new \in SUBSET Ids
  OBVIOUS
<1>2. Cardinality(new) \in Nat
  BY <1>1, FiniteIds
<1>3. PICK s \in [1..Cardinality(new) -> new] : pending' = pending \o s
  BY DEF ScheduleDispatch
<1>4. s \in Seq(Ids)
  <2> HIDE DEF new
  <2>1. s \in [1..Cardinality(new) -> Ids]
    BY <1>1
  <2> QED BY <1>2, <2>1, IsASeq
<1>5. pending' \in Seq(Ids)
  BY <1>3, <1>4 DEF TypeOK
<1>6. rerun' \in SUBSET Ids /\ drainScheduled' \in BOOLEAN
  BY DEF ScheduleDispatch, TypeOK
<1> QED BY <1>5, <1>6

(* The first n members of a sequence without repetitions are n, and none   *)
(* of them is in the rest.                                                 *)
Prefix(P, n) == {P[i] : i \in 1..n}
LEMMA PrefixLemma ==
  ASSUME NEW S, NEW P \in Seq(S), Distinct(P), NEW n \in Nat, n <= Len(P)
  PROVE  LET rest == SubSeq(P, n + 1, Len(P)) IN
         /\ Prefix(P, n) \subseteq Elements(P)
         /\ Elements(P) \subseteq S
         /\ IsFiniteSet(Prefix(P, n)) /\ Cardinality(Prefix(P, n)) = n
         /\ rest \in Seq(S)
         /\ Distinct(rest)
         /\ Elements(rest) \subseteq Elements(P) \ Prefix(P, n)
<1> DEFINE rest == SubSeq(P, n + 1, Len(P))
           f == [i \in 1..n |-> P[i]]
<1>1. DOMAIN P = 1..Len(P) /\ Len(P) \in Nat /\ \A i \in 1..Len(P) : P[i] \in S
  OBVIOUS
<1>2. Prefix(P, n) \subseteq Elements(P) /\ Elements(P) \subseteq S
  BY <1>1 DEF Prefix, Elements
<1>3. f \in Bijection(1..n, Prefix(P, n))
  <2>1. f \in [1..n -> Prefix(P, n)]
    BY DEF Prefix
  <2>2. \A i, j \in 1..n : f[i] = f[j] => i = j
    BY <1>1 DEF Distinct
  <2>3. \A t \in Prefix(P, n) : \E i \in 1..n : f[i] = t
    BY DEF Prefix
  <2> QED BY <2>1, <2>2, <2>3, Zenon DEF Bijection, Injection, Surjection, IsInjective
<1>4. IsFiniteSet(Prefix(P, n)) /\ Cardinality(Prefix(P, n)) = n
  <2>1. IsFiniteSet(1..n) /\ Cardinality(1..n) = n BY FS_Interval
  <2>2. ExistsBijection(1..n, Prefix(P, n))
    BY <1>3, Zenon DEF ExistsBijection
  <2> QED BY <2>1, <2>2, FS_Bijection, Zenon
<1>5. /\ rest \in Seq(S)
      /\ Len(rest) = Len(P) - n
      /\ DOMAIN rest = 1..(Len(P) - n)
      /\ \A i \in 1..(Len(P) - n) : rest[i] = P[n + i]
  <2>1. \A i \in (n + 1)..Len(P) : P[i] \in S
    BY <1>1
  <2>2. n + 1 \in Int /\ Len(P) \in Int
    BY <1>1
  <2>3. /\ rest \in Seq(S)
        /\ Len(rest) = IF n + 1 <= Len(P) THEN Len(P) - (n + 1) + 1 ELSE 0
        /\ \A i \in 1..(Len(P) - (n + 1) + 1) : rest[i] = P[n + 1 + i - 1]
    BY <2>1, <2>2, SubSeqProperties
  <2>4. Len(rest) = Len(P) - n
    <3> HIDE DEF rest
    <3>1. \A m, k \in Nat : k <= m => (IF k + 1 <= m THEN m - (k + 1) + 1 ELSE 0) = m - k
      OBVIOUS
    <3> QED BY <1>1, <2>3, <3>1, Zenon
  <2>5. \A i \in 1..(Len(P) - n) : rest[i] = P[n + i]
    <3> TAKE i \in 1..(Len(P) - n)
    <3>1. Len(P) - (n + 1) + 1 = Len(P) - n /\ n + 1 + i - 1 = n + i
      BY <1>1
    <3> HIDE DEF rest
    <3> QED BY <2>3, <3>1
  <2> HIDE DEF rest
  <2> QED BY <2>3, <2>4, <2>5
<1>6. Distinct(rest)
  <2> HIDE DEF rest
  <2>1. \A i, j \in 1..(Len(P) - n) : P[n + i] = P[n + j] => i = j
    BY <1>1 DEF Distinct
  <2> QED BY <1>5, <2>1 DEF Distinct
<1>7. Elements(rest) \subseteq Elements(P) \ Prefix(P, n)
  <2> HIDE DEF rest
  <2> SUFFICES ASSUME NEW i \in 1..(Len(P) - n)
               PROVE  P[n + i] \in Elements(P) \ Prefix(P, n)
    BY <1>5 DEF Elements
  <2>1. n + i \in DOMAIN P /\ n + i > n
    BY <1>1
  <2>2. \A j \in 1..n : P[j] # P[n + i]
    BY <1>1, <2>1 DEF Distinct
  <2> QED BY <2>1, <2>2 DEF Elements, Prefix
<1> QED BY <1>2, <1>4, <1>5, <1>6, <1>7

(* A drain takes a prefix of distinct waiting deliveries into the pool:    *)
(* the pool invariant holds again, whatever the pool released before.      *)
LEMMA DrainPool ==
  ASSUME MailboxAssumption, TypeOK,
         NEW P \in Seq(Ids), NEW idle \in SUBSET Ids, NEW used \in Nat,
         Distinct(P), Elements(P) \cap (Active \ idle) = {},
         used = Cardinality(Active \ idle), used <= MaxDispatches,
         DrainDispatches(P, idle, used)
  PROVE  /\ pending' \in Seq(Ids)
         /\ phase' \in [Ids -> {"idle", "awaiting", "settled"}]
         /\ activeDispatches' \in Nat
         /\ PoolInv'
<1> DEFINE A == Active \ idle
<1>1. PICK n \in Nat :
        /\ n <= Len(P) /\ used + n <= MaxDispatches
        /\ n = IF Len(P) <= Room(used) THEN Len(P) ELSE Room(used)
  BY DEF Room, MailboxAssumption
<1>2. /\ pending' = SubSeq(P, n + 1, Len(P))
      /\ activeDispatches' = used + n
      /\ phase' = [d \in Ids |-> IF d \in {e \in Prefix(P, n) : Claimable(e)} THEN "awaiting"
                                 ELSE IF d \in Prefix(P, n) THEN "settled"
                                 ELSE IF d \in idle THEN "idle" ELSE phase[d]]
  BY <1>1 DEF DrainDispatches, Prefix
<1>3. /\ Prefix(P, n) \subseteq Elements(P)
      /\ Elements(P) \subseteq Ids
      /\ IsFiniteSet(Prefix(P, n)) /\ Cardinality(Prefix(P, n)) = n
      /\ pending' \in Seq(Ids)
      /\ Distinct(pending')
      /\ Elements(pending') \subseteq Elements(P) \ Prefix(P, n)
  BY <1>1, <1>2, PrefixLemma
<1>4. Active' = A \cup Prefix(P, n)
  BY <1>2, <1>3 DEF Active
<1>5. Cardinality(Active') = used + n
  <2>1. IsFiniteSet(A)
    BY FiniteIds DEF Active
  <2>2. A \cap Prefix(P, n) = {}
    BY <1>3
  <2>3. Cardinality(A \cap Prefix(P, n)) = 0
    BY <2>2, FS_EmptySet
  <2> HIDE DEF A
  <2>4. Cardinality(A \cup Prefix(P, n))
          = Cardinality(A) + Cardinality(Prefix(P, n)) - Cardinality(A \cap Prefix(P, n))
    BY <1>3, <2>1, FS_Union
  <2>5. Cardinality(A) = used
    BY DEF A
  <2> QED BY <1>3, <1>4, <2>3, <2>4, <2>5
<1>6. Elements(pending') \cap Active' = {}
  BY <1>3, <1>4
<1>7. phase' \in [Ids -> {"idle", "awaiting", "settled"}]
  BY <1>2 DEF TypeOK
<1>8. PoolInv'
  BY <1>1, <1>2, <1>3, <1>5, <1>6 DEF PoolInv, PoolAccounting, Distinct, Elements
<1> QED BY <1>2, <1>3, <1>7, <1>8

(* Two sequences without repetitions and without a common member           *)
(* concatenate to a sequence without repetitions.                          *)
LEMMA ConcatDistinct ==
  ASSUME NEW S, NEW p \in Seq(S), NEW q \in Seq(S), Distinct(p), Distinct(q),
         Elements(p) \cap Elements(q) = {}
  PROVE  /\ p \o q \in Seq(S)
         /\ Distinct(p \o q)
         /\ Elements(p \o q) = Elements(p) \cup Elements(q)
<1>1. /\ p \o q \in Seq(S)
      /\ DOMAIN (p \o q) = 1..(Len(p) + Len(q))
      /\ \A i \in 1..(Len(p) + Len(q)) :
           (p \o q)[i] = IF i <= Len(p) THEN p[i] ELSE q[i - Len(p)]
  OBVIOUS
<1>2. /\ DOMAIN p = 1..Len(p) /\ DOMAIN q = 1..Len(q)
      /\ Len(p) \in Nat /\ Len(q) \in Nat
  OBVIOUS
<1> DEFINE r == p \o q
<1> HIDE DEF r
<1>3. /\ DOMAIN r = 1..(Len(p) + Len(q))
      /\ \A i \in 1..Len(p) : r[i] = p[i]
      /\ \A i \in 1..Len(q) : r[Len(p) + i] = q[i]
  BY <1>1, <1>2 DEF r
<1>4. \A k \in DOMAIN r : k \in DOMAIN p \/ \E i \in DOMAIN q : k = Len(p) + i
  <2>1. \A m, n \in Nat : \A k \in 1..(m + n) :
          k \in 1..m \/ \E i \in 1..n : k = m + i
    <3> TAKE m, n \in Nat
    <3> TAKE k \in 1..(m + n)
    <3>1. k \in 1..m \/ (k - m \in 1..n /\ k = m + (k - m))
      OBVIOUS
    <3> QED BY <3>1, Zenon
  <2>2. \A k \in 1..(Len(p) + Len(q)) : k \in 1..Len(p) \/ \E i \in 1..Len(q) : k = Len(p) + i
    BY <1>2, <2>1, Zenon
  <2> QED BY <1>2, <1>3, <2>2, Zenon
<1>5. \A i \in DOMAIN p, j \in DOMAIN q : p[i] # q[j]
  BY DEF Elements
<1>6. Distinct(r)
  <2> SUFFICES ASSUME NEW k \in DOMAIN r, NEW l \in DOMAIN r, r[k] = r[l]
               PROVE  k = l
    BY DEF Distinct
  <2>1. CASE k \in DOMAIN p /\ l \in DOMAIN p
    BY <1>2, <1>3, <2>1 DEF Distinct
  <2>2. CASE k \in DOMAIN p /\ l \notin DOMAIN p
    BY <1>2, <1>3, <1>4, <1>5, <2>2
  <2>3. CASE k \notin DOMAIN p /\ l \in DOMAIN p
    BY <1>2, <1>3, <1>4, <1>5, <2>3
  <2>4. CASE k \notin DOMAIN p /\ l \notin DOMAIN p
    BY <1>2, <1>3, <1>4, <2>4 DEF Distinct
  <2> QED BY <2>1, <2>2, <2>3, <2>4
<1>7. Elements(r) \subseteq Elements(p) \cup Elements(q)
  BY <1>2, <1>3, <1>4 DEF Elements
<1>8. Elements(p) \subseteq Elements(r)
  BY <1>2, <1>3 DEF Elements
<1>9. Elements(q) \subseteq Elements(r)
  <2> SUFFICES ASSUME NEW i \in 1..Len(q) PROVE Len(p) + i \in DOMAIN r /\ r[Len(p) + i] = q[i]
    BY <1>2 DEF Elements
  <2> QED BY <1>2, <1>3
<1> QED BY <1>1, <1>6, <1>7, <1>8, <1>9 DEF r

(* Scheduling puts deliveries that are neither waiting nor being           *)
(* dispatched behind the queue, each once.                                 *)
LEMMA ScheduleDispatchPool ==
  ASSUME TypeOK, MailboxAssumption, PoolInv, NEW D \in SUBSET Ids, ScheduleDispatch(D),
         UNCHANGED <<phase, activeDispatches>>
  PROVE  PoolInv'
<1> DEFINE new == (D \ Active) \ Elements(pending)
<1>1. new \in SUBSET Ids /\ Cardinality(new) \in Nat
  BY FiniteIds
<1>2. PICK s \in [1..Cardinality(new) -> new] : InOrder(s, new) /\ pending' = pending \o s
  BY DEF ScheduleDispatch
<1>3. new \cap Active = {} /\ new \cap Elements(pending) = {}
  OBVIOUS
<1> HIDE DEF new
<1>4. s \in [1..Cardinality(new) -> Ids]
  BY <1>1, <1>2
<1>5. s \in Seq(Ids)
  BY <1>1, <1>4, IsASeq
<1>6. Distinct(s) /\ Elements(s) = new
  <2>1. DOMAIN s = 1..Cardinality(new)
    BY <1>2
  <2>2. \A i, j \in 1..Cardinality(new) : i < j => s[i] < s[j]
    BY <1>2, <2>1 DEF InOrder
  <2>3. \A i \in 1..Cardinality(new) : s[i] \in Int
    BY <1>4 DEF Ids
  <2>4. \A i, j \in 1..Cardinality(new) : s[i] = s[j] => i = j
    BY <1>1, <2>2, <2>3
  <2> QED BY <1>2, <2>1, <2>4 DEF InOrder, Distinct
<1>7. pending \in Seq(Ids) /\ Distinct(pending) /\ Elements(pending) \cap Elements(s) = {}
  BY <1>3, <1>6 DEF TypeOK, PoolInv
<1>8. Distinct(pending') /\ Elements(pending') = Elements(pending) \cup new
  BY <1>2, <1>5, <1>6, <1>7, ConcatDistinct
<1>9. Active' = Active
  BY DEF Active
<1> QED BY <1>3, <1>8, <1>9 DEF PoolInv, PoolAccounting, Distinct, Elements
(* A drain inserts one working Turn for each row it claims and touches no  *)
(* other row or Turn; what it claims it also waits for.                    *)
LEMMA DrainRows ==
  ASSUME TypeOK, RowMatchesTurns, DispatchingIsOwned, Running,
         MailboxAssumption,
         NEW P \in Seq(Ids), NEW idle \in SUBSET Ids, NEW used \in Nat, used <= MaxDispatches,
         Elements(P) \cap (Active \ idle) = {},
         \A d \in idle : phase[d] # "awaiting",
         DrainDispatches(P, idle, used)
  PROVE  /\ mail' \in [Ids -> [state : MailState, call : Calls \cup {None},
                               source : Bots \cup {None}, target : Bots \cup {None},
                               turn : Nat]]
         /\ turn' \in [Ids -> Seq(TurnStatus)]
         /\ RowMatchesTurns'
         /\ \A d \in Ids : mail'[d].state = "dispatching" => phase'[d] = "awaiting"
         /\ TurnsFinal
<1>1. PICK batch \in SUBSET Elements(P) :
        LET claimed == {d \in batch : Claimable(d)} IN
        /\ phase' = [d \in Ids |-> IF d \in claimed THEN "awaiting"
                                   ELSE IF d \in batch THEN "settled"
                                   ELSE IF d \in idle THEN "idle" ELSE phase[d]]
        /\ turn' = [d \in Ids |-> IF d \in claimed THEN Append(turn[d], "working") ELSE turn[d]]
        /\ mail' = [d \in Ids |-> IF d \in claimed
                                  THEN [mail[d] EXCEPT !.state = "dispatching",
                                                       !.turn = Len(turn[d]) + 1]
                                  ELSE mail[d]]
  <2> DEFINE n == IF Len(P) <= Room(used) THEN Len(P) ELSE Room(used)
             batch == {P[i] : i \in 1..n}
  <2>1. n \in Nat /\ n <= Len(P) /\ DOMAIN P = 1..Len(P)
    BY DEF Room, MailboxAssumption
  <2>2. batch \subseteq Elements(P)
    <3> HIDE DEF n
    <3> QED BY <2>1 DEF Elements
  <2> QED BY <2>2 DEF DrainDispatches
<1> DEFINE claimed == {d \in batch : Claimable(d)}
<1>2. ASSUME NEW d \in Ids
      PROVE  \/ /\ d \in claimed
                /\ mail[d].state = "queued" /\ turn[d] = <<>>
                /\ mail'[d] = [mail[d] EXCEPT !.state = "dispatching", !.turn = 1]
                /\ turn'[d] = <<"working">>
                /\ phase'[d] = "awaiting"
             \/ /\ d \notin claimed
                /\ mail'[d] = mail[d] /\ turn'[d] = turn[d]
  <2>1. CASE d \in claimed
    <3>1. mail[d].state = "queued"
      BY <2>1 DEF Claimable, Queued
    <3>2. turn[d] = <<>>
      BY <3>1 DEF RowMatchesTurns, Unclaimed
    <3>3. Len(turn[d]) + 1 = 1 /\ Append(turn[d], "working") = <<"working">>
      BY <3>2
    <3> QED BY <1>1, <2>1, <3>1, <3>2, <3>3
  <2>2. CASE d \notin claimed
    BY <1>1, <2>2
  <2> QED BY <2>1, <2>2
<1>3. /\ mail' \in [Ids -> [state : MailState, call : Calls \cup {None},
                             source : Bots \cup {None}, target : Bots \cup {None},
                             turn : Nat]]
      /\ turn' \in [Ids -> Seq(TurnStatus)]
  <2>1. ASSUME NEW d \in Ids
        PROVE  /\ mail'[d] \in [state : MailState, call : Calls \cup {None},
                                source : Bots \cup {None}, target : Bots \cup {None}, turn : Nat]
               /\ turn'[d] \in Seq(TurnStatus)
    <3> DEFINE Row == [state : MailState, call : Calls \cup {None},
                       source : Bots \cup {None}, target : Bots \cup {None}, turn : Nat]
    <3>1. mail[d] \in Row /\ turn[d] \in Seq(TurnStatus)
      BY DEF TypeOK
    <3>2. CASE d \in claimed
      <4>1. [mail[d] EXCEPT !.state = "dispatching", !.turn = 1] \in Row
        BY <3>1 DEF MailState
      <4>2. <<"working">> \in Seq(TurnStatus)
        BY DEF TurnStatus
      <4> QED BY <1>2, <3>2, <4>1, <4>2
    <3>3. CASE d \notin claimed
      BY <1>2, <3>1, <3>3
    <3> QED BY <3>2, <3>3
  <2> QED BY <1>1, <2>1
<1>4. RowMatchesTurns'
  <2> SUFFICES ASSUME NEW d \in Ids
               PROVE  /\ Unclaimed(d)' => turn'[d] = <<>>
                      /\ mail'[d].state \in {"none", "queued"} => mail'[d].turn = 0
                      /\ ~Unclaimed(d)' => Len(turn'[d]) = 1 /\ mail'[d].turn = 1
                      /\ mail'[d].state = "failed" => turn'[d][1] \in Terminal
    BY DEF RowMatchesTurns, Unclaimed
  <2>1. CASE d \in claimed
    <3>1. /\ mail'[d].state = "dispatching" /\ mail'[d].turn = 1
          /\ turn'[d] = <<"working">>
      <4>1. mail[d] \in [state : MailState, call : Calls \cup {None},
                         source : Bots \cup {None}, target : Bots \cup {None}, turn : Nat]
        BY DEF TypeOK
      <4>2. [mail[d] EXCEPT !.state = "dispatching", !.turn = 1].state = "dispatching"
        BY <4>1
      <4>3. [mail[d] EXCEPT !.state = "dispatching", !.turn = 1].turn = 1
        BY <4>1
      <4> HIDE DEF claimed
      <4> QED BY <1>2, <2>1, <4>2, <4>3, Zenon
    <3> QED BY <3>1 DEF Unclaimed
  <2>2. CASE d \notin claimed
    BY <1>2, <2>2 DEF RowMatchesTurns, Unclaimed
  <2> QED BY <2>1, <2>2
<1>5. ASSUME NEW d \in Ids, mail'[d].state = "dispatching"
      PROVE  phase'[d] = "awaiting"
  <2>1. CASE d \in claimed
    BY <1>1, <2>1
  <2>2. CASE d \notin claimed
    <3>1. phase[d] = "awaiting"
      BY <1>2, <1>5, <2>2 DEF DispatchingIsOwned
    <3>2. d \notin batch /\ d \notin idle
      BY <3>1 DEF Active
    <3> QED BY <1>1, <2>2, <3>1, <3>2
  <2> QED BY <2>1, <2>2
<1>6. TurnsFinal
  <2> SUFFICES ASSUME NEW d \in Ids, NEW i \in DOMAIN turn[d]
               PROVE  i \in DOMAIN turn'[d] /\ turn'[d][i] = turn[d][i]
    BY DEF TurnsFinal
  <2> HIDE DEF claimed
  <2>1. turn[d] # <<>>
    OBVIOUS
  <2> QED BY <1>2, <2>1, Zenon
<1> QED BY <1>3, <1>4, <1>5, <1>6
-----------------------------------------------------------------------------
(* The invariant holds initially.                                          *)
LEMMA MailboxInit ==
  ASSUME Init PROVE MailboxInv
<1>1. Active = {} /\ Cardinality(Active) = 0 BY FS_EmptySet DEF Init, Active
<1>2. TypeOK
  <2>1. NoMail \in [state : MailState, call : Calls \cup {None},
                   source : Bots \cup {None}, target : Bots \cup {None}, turn : Nat]
    BY DEF NoMail, MailState
  <2>2. mail = [d \in Ids |-> NoMail] /\ turn = [d \in Ids |-> <<>>]
    BY DEF Init
  <2>3. turn \in [Ids -> Seq(TurnStatus)] /\ pending \in Seq(Ids)
    BY <2>2 DEF Init
  <2>4. rerun \in SUBSET Ids /\ starts \in 0..MaxStarts /\ activeDispatches \in Nat
    BY MailboxAssumption DEF Init, MailboxAssumption
  <2> QED BY <2>1, <2>2, <2>3, <2>4 DEF Init, TypeOK, BotState
<1>3. RowMatchesTurns
  BY DEF Init, RowMatchesTurns, Unclaimed, NoMail
<1>4. PoolInv
  BY <1>1, MailboxAssumption
  DEF Init, PoolInv, PoolAccounting, Distinct, Elements, MailboxAssumption
<1>5. DispatchingIsOwned
  BY DEF Init, DispatchingIsOwned, NoMail
<1> QED BY <1>2, <1>3, <1>4, <1>5 DEF MailboxInv

(* A new delivery.                                                         *)
LEMMA EnqueueStep ==
  ASSUME MailboxInv, NEW c \in Calls, NEW b \in Bots, Enqueue(c, b)
  PROVE  MailboxInv'
<1> USE MailboxAssumption
<1> DEFINE Row == [state : MailState, call : Calls \cup {None},
                   source : Bots \cup {None}, target : Bots \cup {None}, turn : Nat]
           new == [state |-> "queued", call |-> c, source |-> SourceOf[c],
                   target |-> b, turn |-> 0]
<1>1. PICK d \in Unused :
        /\ mail' = [mail EXCEPT ![d] = new]
        /\ unread' = [unread EXCEPT ![b] = @ + 1]
        /\ unreadMail' = [unreadMail EXCEPT ![b] = d]
        /\ ScheduleDispatch({d})
        /\ UNCHANGED <<daemon, starts, ready, bot, turn, phase, activeDispatches>>
  BY DEF Enqueue
<1>2. d \in Ids /\ mail[d].state = "none"
  BY DEF Unused
<1>3. new \in Row /\ new.state = "queued" /\ new.turn = 0
  BY DEF MailState, MailboxAssumption
<1>4. mail \in [Ids -> Row]
  BY DEF MailboxInv, TypeOK
<1>5. mail' \in [Ids -> Row]
  BY <1>1, <1>3, <1>4
<1>6. TypeOK'
  <2>1. pending' \in Seq(Ids) /\ rerun' \in SUBSET Ids /\ drainScheduled' \in BOOLEAN
    BY <1>1, <1>2, ScheduleDispatchType DEF MailboxInv
  <2>2. unread' \in [Bots -> Nat] /\ unreadMail' \in [Bots -> Ids \cup {0}]
    BY <1>1, <1>2 DEF MailboxInv, TypeOK
  <2> QED BY <1>1, <1>5, <2>1, <2>2 DEF MailboxInv, TypeOK
<1>7. RowMatchesTurns'
  BY <1>1, <1>2, <1>3, <1>4 DEF MailboxInv, RowMatchesTurns, Unclaimed
<1>8. PoolInv'
  BY <1>1, <1>2, ScheduleDispatchPool DEF MailboxInv
<1>9. DispatchingIsOwned'
  BY <1>1, <1>2, <1>3, <1>4 DEF MailboxInv, DispatchingIsOwned, Running
<1> QED BY <1>6, <1>7, <1>8, <1>9 DEF MailboxInv
(* Both callers of the drain loop give back what they took from the pool   *)
(* before it runs.                                                         *)
LEMMA DrainMicrotaskStep ==
  ASSUME MailboxInv, DrainMicrotask
  PROVE  MailboxInv' /\ TurnsFinal
<1> USE MailboxAssumption
<1>1. /\ DrainDispatches(pending, {}, activeDispatches)
      /\ drainScheduled' = FALSE /\ Running
      /\ UNCHANGED <<daemon, starts, ready, bot, unread, unreadMail, rerun>>
  BY DEF DrainMicrotask
<1>2. /\ pending \in Seq(Ids) /\ activeDispatches \in Nat /\ activeDispatches <= MaxDispatches
      /\ Distinct(pending) /\ Elements(pending) \cap (Active \ {}) = {}
      /\ activeDispatches = Cardinality(Active \ {})
  BY DEF MailboxInv, TypeOK, PoolInv, PoolAccounting
<1>3. /\ pending' \in Seq(Ids)
      /\ phase' \in [Ids -> {"idle", "awaiting", "settled"}]
      /\ activeDispatches' \in Nat
      /\ PoolInv'
  BY <1>1, <1>2, DrainPool DEF MailboxInv
<1>4. /\ mail' \in [Ids -> [state : MailState, call : Calls \cup {None},
                             source : Bots \cup {None}, target : Bots \cup {None}, turn : Nat]]
      /\ turn' \in [Ids -> Seq(TurnStatus)]
      /\ RowMatchesTurns'
      /\ \A d \in Ids : mail'[d].state = "dispatching" => phase'[d] = "awaiting"
      /\ TurnsFinal
  BY <1>1, <1>2, DrainRows DEF MailboxInv
<1>5. TypeOK'
  BY <1>1, <1>3, <1>4 DEF MailboxInv, TypeOK
<1> QED BY <1>3, <1>4, <1>5 DEF MailboxInv, DispatchingIsOwned

LEMMA FinishDispatchStep ==
  ASSUME MailboxInv, NEW d \in Ids, FinishDispatch(d)
  PROVE  MailboxInv' /\ TurnsFinal
<1> USE MailboxAssumption
<1> DEFINE again == d \in rerun /\ d \notin Elements(pending)
           P == IF again THEN Append(pending, d) ELSE pending
<1>1. /\ DrainDispatches(P, {d}, activeDispatches - 1)
      /\ drainScheduled' = (drainScheduled \/ again) /\ rerun' = rerun \ {d}
      /\ Running /\ phase[d] = "settled"
      /\ UNCHANGED <<daemon, starts, ready, bot, unread, unreadMail>>
  BY DEF FinishDispatch
<1>2. d \in Active /\ d \notin Elements(pending)
  BY <1>1 DEF MailboxInv, PoolInv, Active
<1>3. /\ activeDispatches - 1 \in Nat /\ activeDispatches - 1 <= MaxDispatches
      /\ activeDispatches - 1 = Cardinality(Active \ {d})
  <2>1. IsFiniteSet(Active) /\ Cardinality(Active \ {d}) \in Nat
    BY FiniteIds DEF Active
  <2>2. Cardinality(Active \ {d}) = Cardinality(Active) - 1
    BY <1>2, <2>1, FS_RemoveElement
  <2>3. activeDispatches = Cardinality(Active) /\ activeDispatches <= MaxDispatches
        /\ activeDispatches \in Nat
    BY DEF MailboxInv, PoolInv, PoolAccounting, TypeOK
  <2> QED BY <2>1, <2>2, <2>3 DEF MailboxAssumption
<1>4. P \in Seq(Ids) /\ Distinct(P) /\ Elements(P) \cap (Active \ {d}) = {}
  <2>1. /\ pending \in Seq(Ids) /\ Distinct(pending)
        /\ Elements(pending) \cap Active = {}
    BY DEF MailboxInv, TypeOK, PoolInv
  <2>2. CASE again
    <3>1. <<d>> \in Seq(Ids) /\ Distinct(<<d>>) /\ Elements(<<d>>) = {d}
      BY DEF Distinct, Elements
    <3>2. Append(pending, d) = pending \o <<d>>
      BY <2>1
    <3>3. Elements(pending) \cap Elements(<<d>>) = {}
      BY <1>2, <3>1
    <3>4. /\ pending \o <<d>> \in Seq(Ids) /\ Distinct(pending \o <<d>>)
          /\ Elements(pending \o <<d>>) = Elements(pending) \cup Elements(<<d>>)
      <4>1. \A q \in Seq(Ids) :
              Distinct(q) /\ Elements(pending) \cap Elements(q) = {} =>
                /\ pending \o q \in Seq(Ids) /\ Distinct(pending \o q)
                /\ Elements(pending \o q) = Elements(pending) \cup Elements(q)
        BY <2>1, ConcatDistinct
      <4> QED BY <3>1, <3>3, <4>1, Zenon
    <3> QED BY <1>2, <2>1, <2>2, <3>1, <3>2, <3>4
  <2>3. CASE ~again
    BY <2>1, <2>3
  <2> QED BY <2>2, <2>3
<1> HIDE DEF P
<1>5. /\ pending' \in Seq(Ids)
      /\ phase' \in [Ids -> {"idle", "awaiting", "settled"}]
      /\ activeDispatches' \in Nat
      /\ PoolInv'
  BY <1>1, <1>3, <1>4, DrainPool DEF MailboxInv
<1>6. /\ mail' \in [Ids -> [state : MailState, call : Calls \cup {None},
                             source : Bots \cup {None}, target : Bots \cup {None}, turn : Nat]]
      /\ turn' \in [Ids -> Seq(TurnStatus)]
      /\ RowMatchesTurns'
      /\ \A e \in Ids : mail'[e].state = "dispatching" => phase'[e] = "awaiting"
      /\ TurnsFinal
  <2>1. {d} \in SUBSET Ids /\ \A e \in {d} : phase[e] # "awaiting"
    BY <1>1
  <2>2. TypeOK /\ RowMatchesTurns /\ DispatchingIsOwned
    BY DEF MailboxInv
  <2> QED BY <1>1, <1>3, <1>4, <2>1, <2>2, DrainRows, Zenon
<1>7. TypeOK'
  BY <1>1, <1>5, <1>6 DEF MailboxInv, TypeOK
<1> QED BY <1>5, <1>6, <1>7 DEF MailboxInv, DispatchingIsOwned
(* A dispatch settles: its row follows the outcome only while it still     *)
(* owns it.                                                                *)
LEMMA SettleStep ==
  ASSUME MailboxInv, NEW d \in Ids, Accept(d) \/ Reject(d)
  PROVE  MailboxInv' /\ TurnsFinal
<1> DEFINE Row == [state : MailState, call : Calls \cup {None},
                   source : Bots \cup {None}, target : Bots \cup {None}, turn : Nat]
<1>1. /\ mail \in [Ids -> Row] /\ turn \in [Ids -> Seq(TurnStatus)]
      /\ phase \in [Ids -> {"idle", "awaiting", "settled"}]
      /\ phase[d] = "awaiting" /\ phase' = [phase EXCEPT ![d] = "settled"]
      /\ UNCHANGED <<daemon, starts, ready, bot, unread, unreadMail, pending, rerun,
                     activeDispatches, drainScheduled>>
      /\ Running
  BY DEF MailboxInv, TypeOK, Accept, Reject
<1>2. PICK outcome \in {"delivered", "failed"} :
        /\ mail' = IF Owns(d) THEN [mail EXCEPT ![d].state = outcome] ELSE mail
        /\ turn' = IF outcome = "failed" THEN [turn EXCEPT ![d] = FailWorking(@)] ELSE turn
  BY DEF Accept, Reject
<1>3. /\ FailWorking(turn[d]) \in Seq(TurnStatus)
      /\ Len(FailWorking(turn[d])) = Len(turn[d])
      /\ DOMAIN FailWorking(turn[d]) = DOMAIN turn[d]
      /\ turn[d] = <<>> => FailWorking(turn[d]) = <<>>
      /\ \A i \in DOMAIN turn[d] : /\ FailWorking(turn[d])[i] \in Terminal
                                   /\ turn[d][i] \in Terminal
                                        => FailWorking(turn[d])[i] = turn[d][i]
  BY <1>1, FailWorkingLemma
<1>4. /\ mail' \in [Ids -> Row]
      /\ \A e \in Ids \ {d} : mail'[e] = mail[e]
      /\ mail'[d].turn = mail[d].turn
      /\ mail'[d].state = IF Owns(d) THEN outcome ELSE mail[d].state
  BY <1>1, <1>2 DEF MailState
<1>5. /\ turn' \in [Ids -> Seq(TurnStatus)]
      /\ \A e \in Ids \ {d} : turn'[e] = turn[e]
      /\ turn'[d] = IF outcome = "failed" THEN FailWorking(turn[d]) ELSE turn[d]
  BY <1>1, <1>2, <1>3
<1>6. TypeOK'
  BY <1>1, <1>4, <1>5 DEF MailboxInv, TypeOK
<1>7. RowMatchesTurns'
  <2> SUFFICES ASSUME NEW e \in Ids
               PROVE  /\ Unclaimed(e)' => turn'[e] = <<>>
                      /\ mail'[e].state \in {"none", "queued"} => mail'[e].turn = 0
                      /\ ~Unclaimed(e)' => Len(turn'[e]) = 1 /\ mail'[e].turn = 1
                      /\ mail'[e].state = "failed" => turn'[e][1] \in Terminal
    BY DEF RowMatchesTurns, Unclaimed
  <2>1. /\ Unclaimed(e) => turn[e] = <<>>
        /\ mail[e].state \in {"none", "queued"} => mail[e].turn = 0
        /\ ~Unclaimed(e) => Len(turn[e]) = 1 /\ mail[e].turn = 1
        /\ mail[e].state = "failed" => turn[e][1] \in Terminal
    BY DEF MailboxInv, RowMatchesTurns
  <2>2. CASE e # d
    BY <1>4, <1>5, <2>1, <2>2 DEF Unclaimed
  <2>3. CASE e = d /\ Unclaimed(d)
    <3>1. ~Owns(d)
      BY <2>3 DEF Owns, Unclaimed
    <3>2. mail'[d].state = mail[d].state
      BY <1>4, <3>1
    <3> QED BY <1>3, <1>4, <1>5, <2>1, <2>3, <3>2 DEF Unclaimed
  <2>4. CASE e = d /\ ~Unclaimed(d)
    <3>1. Len(turn[d]) = 1 /\ mail[d].turn = 1 /\ 1 \in DOMAIN turn[d]
      BY <1>1, <2>1, <2>4
    <3>2. mail'[d].state \in {mail[d].state, outcome}
      BY <1>4
    <3>3. ~Unclaimed(d)'
      BY <2>4, <3>2 DEF Unclaimed
    <3>4. mail'[d].state = "failed" => turn'[d][1] \in Terminal
      <4>1. CASE outcome = "failed"
        BY <1>3, <1>5, <3>1, <4>1
      <4>2. CASE outcome = "delivered"
        BY <1>5, <2>1, <2>4, <3>2, <4>2
      <4> QED BY <4>1, <4>2
    <3>5. Len(turn'[d]) = 1
      BY <1>3, <1>5, <3>1
    <3> QED BY <1>4, <2>4, <3>1, <3>3, <3>4, <3>5 DEF Unclaimed
  <2> QED BY <2>2, <2>3, <2>4
<1>8. PoolInv'
  <2>1. Active' = Active
    BY <1>1 DEF Active
  <2> QED BY <1>1, <2>1 DEF MailboxInv, PoolInv, PoolAccounting, Distinct, Elements
<1>9. DispatchingIsOwned'
  <2>1. mail'[d].state # "dispatching" BY <1>4 DEF MailboxInv, RowMatchesTurns, Unclaimed, Owns
  <2> QED BY <1>1, <1>4, <2>1 DEF MailboxInv, DispatchingIsOwned, Running
<1>10. TurnsFinal
  BY <1>3, <1>5 DEF TurnsFinal
<1> QED BY <1>6, <1>7, <1>8, <1>9, <1>10 DEF MailboxInv

(* A working Turn ends.                                                    *)
LEMMA EndTurnStep ==
  ASSUME MailboxInv, NEW d \in Ids, NEW outcome \in Outcomes, EndTurn(d, outcome)
  PROVE  MailboxInv' /\ TurnsFinal
<1> USE MailboxAssumption
<1> DEFINE last == Len(turn[d])
<1>1. /\ turn[d] \in Seq(TurnStatus) /\ turn \in [Ids -> Seq(TurnStatus)]
      /\ turn[d] # <<>> /\ turn[d][last] = "working"
      /\ turn' = [turn EXCEPT ![d] = [turn[d] EXCEPT ![last] = outcome]]
      /\ UNCHANGED <<daemon, starts, ready, bot, mail, unread, unreadMail, pending, phase,
                     rerun, activeDispatches, drainScheduled>>
  BY DEF MailboxInv, TypeOK, EndTurn, queue
<1>2. outcome \in Terminal
  BY DEF MailboxAssumption, Terminal, TurnStatus
<1> DEFINE ended == [turn[d] EXCEPT ![last] = outcome]
<1>3. /\ ended \in Seq(TurnStatus) /\ Len(ended) = Len(turn[d])
      /\ DOMAIN ended = DOMAIN turn[d] /\ ended[last] \in Terminal
      /\ \A i \in DOMAIN turn[d] : i # last => ended[i] = turn[d][i]
  BY <1>1, <1>2 DEF Terminal
<1>4. TypeOK'
  BY <1>1, <1>3 DEF MailboxInv, TypeOK
<1>5. RowMatchesTurns' BY <1>1, <1>3 DEF MailboxInv, RowMatchesTurns, Unclaimed
<1>6. PoolInv'
  BY <1>1 DEF MailboxInv, PoolInv, PoolAccounting, Active, Distinct, Elements
<1>7. DispatchingIsOwned'
  BY <1>1 DEF MailboxInv, DispatchingIsOwned, Running
<1>8. TurnsFinal BY <1>1, <1>3 DEF Terminal, TurnsFinal
<1> QED BY <1>4, <1>5, <1>6, <1>7, <1>8 DEF MailboxInv
LEMMA BecomeReadyStep ==
  ASSUME MailboxInv, NEW a \in Agents, BecomeReady(a)
  PROVE  MailboxInv' /\ TurnsFinal
<1> USE MailboxAssumption
<1> DEFINE D == {d \in Ids : /\ Queued(d) /\ AgentOf[mail[d].target] = a
                             /\ ~Deleting(mail[d].target)}
<1>1. /\ ScheduleDispatch(D) /\ D \in SUBSET Ids
      /\ ready' = [ready EXCEPT ![a] = TRUE]
      /\ UNCHANGED <<daemon, starts, bot, mail, turn, unread, unreadMail, phase,
                     activeDispatches>>
  BY DEF BecomeReady, durable
<1> HIDE DEF D
<1>2. PoolInv'
  BY <1>1, ScheduleDispatchPool DEF MailboxInv
<1>3. pending' \in Seq(Ids) /\ rerun' \in SUBSET Ids /\ drainScheduled' \in BOOLEAN
  BY <1>1, ScheduleDispatchType DEF MailboxInv
<1>4. TypeOK'
  BY <1>1, <1>3 DEF MailboxInv, TypeOK
<1>5. RowMatchesTurns' /\ DispatchingIsOwned'
  BY <1>1 DEF MailboxInv, RowMatchesTurns, Unclaimed, DispatchingIsOwned, Running
<1>6. TurnsFinal
  BY <1>1 DEF TurnsFinal
<1> QED BY <1>2, <1>4, <1>5, <1>6 DEF MailboxInv

(* A deletion takes the target's rows and Turns together.                  *)
LEMMA CommitDeletionStep ==
  ASSUME MailboxInv, NEW b \in Bots, CommitDeletion(b)
  PROVE  MailboxInv' /\ TurnsFinal
<1> DEFINE Row == [state : MailState, call : Calls \cup {None},
                   source : Bots \cup {None}, target : Bots \cup {None}, turn : Nat]
<1>1. /\ mail \in [Ids -> Row] /\ turn \in [Ids -> Seq(TurnStatus)]
      /\ mail' = [d \in Ids |-> IF d \in MailTo(b) THEN [mail[d] EXCEPT !.state = "gone"]
                               ELSE IF mail[d].source = b THEN [mail[d] EXCEPT !.source = None]
                               ELSE mail[d]]
      /\ turn' = [d \in Ids |-> IF d \in MailTo(b) THEN <<>> ELSE turn[d]]
      /\ bot' = [bot EXCEPT ![b] = "deleted"]
      /\ unread' = [unread EXCEPT ![b] = 0]
      /\ unreadMail' = [unreadMail EXCEPT ![b] = 0]
      /\ UNCHANGED <<daemon, starts, ready, pending, phase, rerun, activeDispatches,
                     drainScheduled>>
  BY DEF MailboxInv, TypeOK, CommitDeletion, queue
<1>2. ASSUME NEW d \in Ids
      PROVE  /\ mail'[d] \in Row /\ turn'[d] \in Seq(TurnStatus)
             /\ mail'[d].turn = mail[d].turn
             /\ d \in MailTo(b) => mail'[d].state = "gone" /\ turn'[d] = <<>>
             /\ d \notin MailTo(b) => mail'[d].state = mail[d].state /\ turn'[d] = turn[d]
  <2>1. mail[d] \in Row /\ turn[d] \in Seq(TurnStatus)
    BY <1>1
  <2>2. CASE d \in MailTo(b)
    <3>1. mail'[d] = [mail[d] EXCEPT !.state = "gone"] /\ turn'[d] = <<>>
      BY <1>1, <2>2
    <3> QED BY <2>1, <2>2, <3>1 DEF MailState
  <2>3. CASE d \notin MailTo(b)
    <3>1. /\ mail'[d] \in {mail[d], [mail[d] EXCEPT !.source = None]}
          /\ turn'[d] = turn[d]
      BY <1>1, <2>3
    <3> QED BY <2>1, <2>3, <3>1
  <2> QED BY <2>2, <2>3
<1>3. mail' \in [Ids -> Row] /\ turn' \in [Ids -> Seq(TurnStatus)]
  BY <1>1, <1>2
<1>4. TypeOK'
  BY <1>1, <1>3 DEF MailboxInv, TypeOK, BotState
<1>5. RowMatchesTurns'
  BY <1>2 DEF MailboxInv, RowMatchesTurns, Unclaimed
<1>6. PoolInv'
  BY <1>1 DEF MailboxInv, PoolInv, PoolAccounting, Active, Distinct, Elements
<1>7. DispatchingIsOwned'
  BY <1>1, <1>2 DEF MailboxInv, DispatchingIsOwned, Running
<1>8. TurnsFinal
  BY <1>2 DEF TurnsFinal
<1> QED BY <1>4, <1>5, <1>6, <1>7, <1>8 DEF MailboxInv

(* The process ends: an empty pool and an empty queue.                     *)
LEMMA DownStep ==
  ASSUME MailboxInv, Down
  PROVE  MailboxInv' /\ TurnsFinal
<1>1. /\ daemon' = "down" /\ pending' = <<>> /\ phase' = [d \in Ids |-> "idle"]
      /\ activeDispatches' = 0 /\ rerun' = {} /\ drainScheduled' = FALSE
      /\ ready' = [a \in Agents |-> FALSE]
      /\ UNCHANGED <<starts, bot, mail, turn, unread, unreadMail>>
  BY DEF Down, durable
<1>2. Active' = {} /\ Cardinality(Active') = 0 BY <1>1, FS_EmptySet DEF Active
<1>3. TypeOK'
  <2>1. pending' \in Seq(Ids)
    BY <1>1
  <2> QED BY <1>1, <2>1 DEF MailboxInv, TypeOK
<1>4. PoolInv'
  BY <1>1, <1>2, MailboxAssumption
  DEF PoolInv, PoolAccounting, Distinct, Elements, MailboxAssumption
<1>5. RowMatchesTurns' /\ DispatchingIsOwned'
  BY <1>1 DEF MailboxInv, RowMatchesTurns, Unclaimed, DispatchingIsOwned, Running
<1>6. TurnsFinal
  BY <1>1 DEF TurnsFinal
<1> QED BY <1>3, <1>4, <1>5, <1>6 DEF MailboxInv

(* Start-up fails the Turns a crash left working.                          *)
LEMMA RecoverOnStartupStep ==
  ASSUME MailboxInv, RecoverOnStartup, starts' \in 0..MaxStarts
  PROVE  MailboxInv' /\ TurnsFinal
<1>1. /\ daemon' = "recovered"
      /\ turn' = [d \in Ids |-> FailWorking(turn[d])]
      /\ bot' = [b \in Bots |-> IF Deleting(b) THEN "deleteFailed" ELSE bot[b]]
      /\ UNCHANGED <<ready, mail, unread, unreadMail, pending, phase, rerun,
                     activeDispatches, drainScheduled>>
  BY DEF RecoverOnStartup, queue
<1>2. ASSUME NEW d \in Ids
      PROVE  /\ turn'[d] \in Seq(TurnStatus)
             /\ Len(turn'[d]) = Len(turn[d])
             /\ DOMAIN turn'[d] = DOMAIN turn[d]
             /\ turn[d] = <<>> => turn'[d] = <<>>
             /\ \A i \in DOMAIN turn[d] : /\ turn'[d][i] \in Terminal
                                          /\ turn[d][i] \in Terminal
                                               => turn'[d][i] = turn[d][i]
  <2>1. turn[d] \in Seq(TurnStatus) /\ turn'[d] = FailWorking(turn[d])
    BY <1>1 DEF MailboxInv, TypeOK
  <2> QED BY <2>1, FailWorkingLemma
<1>3. TypeOK' BY <1>1, <1>2 DEF MailboxInv, TypeOK, BotState
<1>4. RowMatchesTurns'
  <2> SUFFICES ASSUME NEW d \in Ids
               PROVE  /\ Unclaimed(d) => turn'[d] = <<>>
                      /\ ~Unclaimed(d) => Len(turn'[d]) = 1
                      /\ mail[d].state = "failed" => turn'[d][1] \in Terminal
    BY <1>1 DEF MailboxInv, RowMatchesTurns, Unclaimed
  <2>1. ~Unclaimed(d) => 1 \in DOMAIN turn[d]
    BY DEF MailboxInv, RowMatchesTurns, TypeOK
  <2>2. mail[d].state = "failed" => ~Unclaimed(d)
    BY DEF Unclaimed
  <2> QED BY <1>2, <2>1, <2>2 DEF MailboxInv, RowMatchesTurns
<1>5. PoolInv'
  BY <1>1 DEF MailboxInv, PoolInv, PoolAccounting, Active, Distinct, Elements
<1>6. DispatchingIsOwned'
  BY <1>1 DEF DispatchingIsOwned, Running
<1>7. TurnsFinal
  BY <1>2 DEF TurnsFinal
<1> QED BY <1>3, <1>4, <1>5, <1>6, <1>7 DEF MailboxInv
(* Reconciliation settles every interrupted delivery before any dispatcher *)
(* runs.                                                                   *)
LEMMA ReconcileStartupStep ==
  ASSUME MailboxInv, ReconcileStartup
  PROVE  MailboxInv'
<1> USE MailboxAssumption
<1> DEFINE Row == [state : MailState, call : Calls \cup {None},
                   source : Bots \cup {None}, target : Bots \cup {None}, turn : Nat]
           D == {d \in Ids : Reconciled(d).state = "queued" /\ Reconciled(d).turn = 0}
<1>1. /\ mail \in [Ids -> Row] /\ turn \in [Ids -> Seq(TurnStatus)]
      /\ daemon' = "up"
      /\ mail' = [d \in Ids |-> Reconciled(d)]
      /\ turn' = [d \in Ids |-> IF Interrupted(d) THEN [turn[d] EXCEPT ![mail[d].turn] = "failed"]
                               ELSE turn[d]]
      /\ ScheduleDispatch(D) /\ D \in SUBSET Ids
      /\ UNCHANGED <<starts, ready, bot, unread, unreadMail, phase, activeDispatches>>
  BY DEF MailboxInv, TypeOK, ReconcileStartup
<1>2. ASSUME NEW d \in Ids
      PROVE  \/ /\ Interrupted(d) /\ mail[d].state = "dispatching"
                /\ mail'[d] = [mail[d] EXCEPT !.state = "failed"] /\ mail[d].turn = 1
                /\ Len(turn[d]) = 1 /\ turn'[d] = [turn[d] EXCEPT ![1] = "failed"]
             \/ /\ mail[d].state # "dispatching"
                /\ mail'[d] = mail[d] /\ turn'[d] = turn[d]
  <2>1. mail[d].state = "dispatching" => mail[d].turn = 1 /\ Len(turn[d]) = 1
    BY DEF MailboxInv, RowMatchesTurns, Unclaimed
  <2>2. mail[d].state = "queued" => mail[d].turn = 0
    BY DEF MailboxInv, RowMatchesTurns
  <2>3. Interrupted(d) <=> mail[d].state = "dispatching"
    BY <2>1, <2>2 DEF Interrupted
  <2>4. CASE mail[d].state = "dispatching"
    <3>1. Reconciled(d) = [mail[d] EXCEPT !.state = "failed"]
      BY <2>1, <2>3, <2>4 DEF Reconciled
    <3> QED BY <1>1, <2>1, <2>3, <2>4, <3>1
  <2>5. CASE mail[d].state # "dispatching"
    <3>1. Reconciled(d) = mail[d]
      BY <2>3, <2>5 DEF Reconciled
    <3> QED BY <1>1, <2>3, <2>5, <3>1
  <2> QED BY <2>4, <2>5
<1>3. ASSUME NEW d \in Ids
      PROVE  /\ mail'[d] \in Row /\ turn'[d] \in Seq(TurnStatus)
             /\ mail'[d].state # "dispatching"
             /\ Unclaimed(d)' => turn'[d] = <<>>
             /\ mail'[d].state \in {"none", "queued"} => mail'[d].turn = 0
             /\ ~Unclaimed(d)' => Len(turn'[d]) = 1 /\ mail'[d].turn = 1
             /\ mail'[d].state = "failed" => turn'[d][1] \in Terminal
  <2>1. mail[d] \in Row /\ turn[d] \in Seq(TurnStatus)
    BY <1>1
  <2>2. CASE mail[d].state = "dispatching"
    <3>1. /\ mail'[d] = [mail[d] EXCEPT !.state = "failed"] /\ mail[d].turn = 1
          /\ Len(turn[d]) = 1 /\ turn'[d] = [turn[d] EXCEPT ![1] = "failed"]
      BY <1>2, <2>2
    <3>2. mail'[d] \in Row /\ mail'[d].state = "failed" /\ mail'[d].turn = 1
      BY <2>1, <3>1 DEF MailState
    <3>3. turn'[d] \in Seq(TurnStatus) /\ Len(turn'[d]) = 1 /\ turn'[d][1] = "failed"
      BY <2>1, <3>1 DEF TurnStatus
    <3> QED BY <3>2, <3>3 DEF Unclaimed, Terminal, TurnStatus
  <2>3. CASE mail[d].state # "dispatching"
    <3>1. mail'[d] = mail[d] /\ turn'[d] = turn[d]
      BY <1>2, <2>3
    <3> QED BY <2>1, <2>3, <3>1 DEF MailboxInv, RowMatchesTurns, Unclaimed
  <2> QED BY <2>2, <2>3
<1>4. PoolInv'
  BY <1>1, ScheduleDispatchPool DEF MailboxInv
<1>5. TypeOK' BY <1>1, ScheduleDispatchType, <1>3 DEF MailboxInv, TypeOK
<1>6. RowMatchesTurns'
  BY <1>3 DEF RowMatchesTurns, Unclaimed
<1>7. DispatchingIsOwned'
  BY <1>3 DEF DispatchingIsOwned
<1> QED BY <1>4, <1>5, <1>6, <1>7 DEF MailboxInv

(* Steps that leave deliveries, Turns and the dispatch queue alone.        *)
LEMMA OtherStep ==
  ASSUME MailboxInv, UNCHANGED <<starts, mail, turn, queue>>,
         ready' \in [Agents -> BOOLEAN], bot' \in [Bots -> BotState],
         unread' \in [Bots -> Nat], unreadMail' \in [Bots -> Ids \cup {0}],
         \/ UNCHANGED daemon
         \/ Running /\ daemon' = "stopping"
  PROVE  MailboxInv' /\ TurnsFinal
<1>1. UNCHANGED <<starts, mail, turn, pending, phase, rerun, activeDispatches, drainScheduled>>
  BY DEF queue
<1>2. TypeOK'
  BY <1>1 DEF MailboxInv, TypeOK
<1>3. RowMatchesTurns'
  BY <1>1 DEF MailboxInv, RowMatchesTurns, Unclaimed
<1>4. PoolInv'
  BY <1>1 DEF MailboxInv, PoolInv, PoolAccounting, Active, Distinct, Elements
<1>5. DispatchingIsOwned'
  BY <1>1 DEF MailboxInv, DispatchingIsOwned, Running
<1>6. TurnsFinal
  BY <1>1 DEF TurnsFinal
<1> QED BY <1>2, <1>3, <1>4, <1>5, <1>6 DEF MailboxInv

-----------------------------------------------------------------------------
(* A process that is down has a start left.                                *)
StartsBound == daemon = "down" => starts < MaxStarts
MailboxIInv == MailboxInv /\ StartsBound

LEMMA MailboxNext ==
  ASSUME MailboxIInv, [Next]_vars
  PROVE  MailboxIInv' /\ (daemon # "recovered" => TurnsFinal)
<1> USE MailboxAssumption
<1>1. MailboxInv /\ StartsBound /\ TypeOK
  BY DEF MailboxIInv, MailboxInv
<1>2. StartsBound'
  BY <1>1 DEF Next, vars, Enqueue, DrainMicrotask, FinishDispatch, Accept, Reject, EndTurn,
     BecomeReady, LoseReadiness, ClearUnread, ClaimDeletion, DrainDeletion, FailDeletion,
     CommitDeletion, Stop, Down, RecoverOnStartup, ReconcileStartup, StartsBound
<1>3. MailboxInv' /\ (daemon # "recovered" => TurnsFinal)
  <2>1. ASSUME NEW c \in Calls, NEW b \in Bots, Enqueue(c, b) PROVE MailboxInv' /\ TurnsFinal
    <3>1. TurnsFinal
      BY <2>1 DEF Enqueue, TurnsFinal
    <3> QED BY <1>1, <2>1, <3>1, EnqueueStep
  <2>2. CASE DrainMicrotask
    BY <1>1, <2>2, DrainMicrotaskStep
  <2>3. ASSUME NEW d \in Ids, FinishDispatch(d) PROVE MailboxInv' /\ TurnsFinal
    BY <1>1, <2>3, FinishDispatchStep
  <2>4. ASSUME NEW d \in Ids, Accept(d) \/ Reject(d) PROVE MailboxInv' /\ TurnsFinal
    BY <1>1, <2>4, SettleStep
  <2>5. ASSUME NEW d \in Ids, NEW outcome \in Outcomes, EndTurn(d, outcome)
        PROVE  MailboxInv' /\ TurnsFinal
    BY <1>1, <2>5, EndTurnStep
  <2>6. ASSUME NEW a \in Agents, BecomeReady(a) PROVE MailboxInv' /\ TurnsFinal
    BY <1>1, <2>6, BecomeReadyStep
  <2>7. ASSUME NEW a \in Agents, LoseReadiness(a) PROVE MailboxInv' /\ TurnsFinal
    <3>1. /\ UNCHANGED <<daemon, starts, bot, mail, turn, unread, unreadMail, queue>>
          /\ ready' = [ready EXCEPT ![a] = FALSE]
      BY <2>7 DEF LoseReadiness, durable
    <3> QED BY <1>1, <3>1, OtherStep DEF TypeOK
  <2>8. ASSUME NEW b \in Bots, ClearUnread(b) PROVE MailboxInv' /\ TurnsFinal
    <3>1. /\ UNCHANGED <<daemon, starts, ready, bot, mail, turn, queue>>
          /\ unread' = [unread EXCEPT ![b] = 0]
          /\ unreadMail' = [unreadMail EXCEPT ![b] = 0]
      BY <2>8 DEF ClearUnread
    <3> QED BY <1>1, <3>1, OtherStep DEF TypeOK
  <2>9. ASSUME NEW b \in Bots, ClaimDeletion(b) \/ DrainDeletion(b) \/ FailDeletion(b)
        PROVE  MailboxInv' /\ TurnsFinal
    <3>1. UNCHANGED <<daemon, starts, ready, mail, turn, unread, unreadMail, queue>>
      BY <2>9 DEF ClaimDeletion, DrainDeletion, FailDeletion
    <3>2. bot' \in [Bots -> BotState]
      BY <1>1, <2>9 DEF TypeOK, BotState, ClaimDeletion, DrainDeletion, FailDeletion
    <3> QED BY <1>1, <3>1, <3>2, OtherStep DEF TypeOK
  <2>10. ASSUME NEW b \in Bots, CommitDeletion(b) PROVE MailboxInv' /\ TurnsFinal
    BY <1>1, <2>10, CommitDeletionStep
  <2>11. CASE Stop
    <3>1. /\ UNCHANGED <<starts, ready, bot, mail, turn, unread, unreadMail, queue>>
          /\ Running /\ daemon' = "stopping"
      BY <2>11 DEF Stop, durable, Running
    <3> QED BY <1>1, <3>1, OtherStep DEF TypeOK
  <2>12. CASE Down
    BY <1>1, <2>12, DownStep
  <2>13. CASE RecoverOnStartup
    <3>1. starts' \in 0..MaxStarts
      BY <1>1, <2>13 DEF RecoverOnStartup, StartsBound, TypeOK, MailboxAssumption
    <3> QED BY <1>1, <2>13, <3>1, RecoverOnStartupStep
  <2>14. CASE ReconcileStartup
    <3>1. daemon = "recovered"
      BY <2>14 DEF ReconcileStartup
    <3> QED BY <1>1, <2>14, <3>1, ReconcileStartupStep
  <2>15. CASE UNCHANGED vars
    <3>1. UNCHANGED <<daemon, starts, ready, bot, mail, turn, unread, unreadMail, queue>>
      BY <2>15 DEF vars, durable
    <3> QED BY <1>1, <3>1, OtherStep DEF TypeOK
  <2> QED BY <2>1, <2>2, <2>3, <2>4, <2>5, <2>6, <2>7, <2>8, <2>9, <2>10, <2>11, <2>12,
             <2>13, <2>14, <2>15 DEF Next
<1> QED BY <1>2, <1>3 DEF MailboxIInv

(* The inductive invariant holds in every reachable state.                 *)
THEOREM MailboxInvariant == Spec => []MailboxIInv
<1>1. Init => MailboxIInv
  BY MailboxInit DEF MailboxIInv, StartsBound, Init
<1>2. MailboxIInv /\ [Next]_vars => MailboxIInv'
  BY MailboxNext
<1> QED BY <1>1, <1>2, PTL DEF Spec

(* Every variable keeps its type (the schema of the durable rows and the   *)
(* in-memory structures of MailboxService).                                *)
THEOREM TypeCorrect == Spec => []TypeOK
<1>1. MailboxIInv => TypeOK
  BY DEF MailboxIInv, MailboxInv
<1> QED BY <1>1, MailboxInvariant, PTL

(* No delivery ever starts two target Turns, over any number of crashes.   *)
THEOREM NeverDispatchedTwice == Spec => []ClaimedOnce
<1>1. MailboxIInv => ClaimedOnce
  <2> SUFFICES ASSUME MailboxIInv, NEW d \in Ids PROVE Len(turn[d]) <= 1
    BY DEF ClaimedOnce
  <2>1. turn[d] = <<>> \/ Len(turn[d]) = 1
    BY DEF MailboxIInv, MailboxInv, RowMatchesTurns
  <2>2. turn[d] = <<>> => Len(turn[d]) = 0
    OBVIOUS
  <2>3. 0 <= 1 /\ 1 <= 1
    OBVIOUS
  <2> QED BY <2>1, <2>2, <2>3, Zenon
<1> QED BY <1>1, MailboxInvariant, PTL

(* A failed delivery shows one terminal Turn, a queued one none.           *)
THEOREM FailuresVisible == Spec => []FailureIsVisible
<1>1. MailboxIInv => FailureIsVisible
  <2> SUFFICES ASSUME MailboxIInv, NEW d \in Ids
               PROVE  /\ mail[d].state = "failed" =>
                           turn[d] # <<>> /\ turn[d][Len(turn[d])] \in Terminal
                      /\ mail[d].state = "queued" => turn[d] = <<>>
    BY DEF FailureIsVisible
  <2>1. mail[d].state = "failed" => Len(turn[d]) = 1 /\ turn[d][1] \in Terminal
    BY DEF MailboxIInv, MailboxInv, RowMatchesTurns, Unclaimed
  <2>2. Len(turn[d]) = 1 => turn[d] # <<>>
    OBVIOUS
  <2>3. mail[d].state = "queued" => turn[d] = <<>>
    BY DEF MailboxIInv, MailboxInv, RowMatchesTurns, Unclaimed
  <2> QED BY <2>1, <2>2, <2>3
<1> QED BY <1>1, MailboxInvariant, PTL

(* While the daemon runs, every row in 'dispatching' has a dispatcher that *)
(* will settle it.                                                         *)
THEOREM DispatchersOwnClaims == Spec => []DispatchingIsOwned
<1>1. MailboxIInv => DispatchingIsOwned
  BY DEF MailboxIInv, MailboxInv
<1> QED BY <1>1, MailboxInvariant, PTL

(* A row says nothing of its delivery that is not so.                      *)
THEOREM RowsAreTrue == Spec => []RowsTellTruth
<1>1. DispatchingIsOwned /\ FailureIsVisible => RowsTellTruth
  BY DEF RowsTellTruth
<1> QED BY <1>1, DispatchersOwnClaims, FailuresVisible, PTL

(* The pool counts its dispatches exactly and never exceeds its limit.     *)
THEOREM PoolIsBounded == Spec => []PoolAccounting
<1>1. MailboxIInv => PoolAccounting
  BY DEF MailboxIInv, MailboxInv, PoolInv
<1> QED BY <1>1, MailboxInvariant, PTL

(* A terminal target Turn is final in every step but the reconciliation at *)
(* start-up.                                                               *)
THEOREM TurnsAreFinal == Spec => TerminalOnceInService
<1>1. MailboxIInv /\ [Next]_vars => [daemon # "recovered" => TurnsFinal]_vars
  BY MailboxNext
<1> QED BY <1>1, MailboxInvariant, PTL DEF Spec, TerminalOnceInService
-----------------------------------------------------------------------------
(* Mail is kept: what NoLostDispatch, DrainedStaysIdle and RetryInvisible  *)
(* need beside MailboxIInv.  Mail has a target, a dispatch that waits for  *)
(* its worker has a claimed row, and a daemon that is down has no ready    *)
(* Agent and no dispatch; so mail that could be claimed waits in the       *)
(* queue, or for its rerun.                                                *)
Addressed == \A d \in Ids : Live(d) => mail[d].target \in Bots
Awaited == \A d \in Ids : phase[d] = "awaiting" => mail[d].state \in {"dispatching", "gone"}
DownForgets ==
  ~Running => (\A a \in Agents : ~ready[a]) /\ (\A d \in Ids : phase[d] = "idle")
Waits(d) == d \in Elements(pending) \/ (phase[d] = "settled" /\ d \in rerun)
ClaimableWaits == \A d \in Ids : Claimable(d) /\ bot[mail[d].target] = "present" => Waits(d)
QueueDrains == pending # <<>> => drainScheduled \/ activeDispatches = MaxDispatches

KeptInv ==
  /\ Addressed /\ Awaited /\ DownForgets /\ ClaimableWaits /\ QueueDrains
  /\ DrainedStaysIdle /\ RetryInvisible

(* Rows keep who sent them to whom in most steps, and unread attention     *)
(* then stays as it is.                                                    *)
RowsStay ==
  \A d \in Ids : /\ mail'[d].target = mail[d].target /\ mail'[d].call = mail[d].call
                 /\ Live(d)' <=> Live(d)

LEMMA RowsStayMailTo ==
  ASSUME RowsStay, NEW b
  PROVE  MailTo(b)' = MailTo(b)
BY DEF RowsStay, MailTo

LEMMA RetryStays ==
  ASSUME RetryInvisible, RowsStay, UNCHANGED <<unread, unreadMail>>
  PROVE  RetryInvisible'
<1>1. \A b \in Bots : MailTo(b)' = MailTo(b)
  BY RowsStayMailTo
<1> QED BY <1>1 DEF RetryInvisible, RowsStay

(* No Turn starts working in a step: a drained Bot stays idle.             *)
NoneStarts ==
  \A d \in Ids : \A i \in DOMAIN turn'[d] :
    turn'[d][i] = "working" => i \in DOMAIN turn[d] /\ turn[d][i] = "working"

LEMMA IdleStays ==
  ASSUME DrainedStaysIdle, NoneStarts,
         \A d \in Ids : Live(d)' => (Live(d) /\ mail'[d].target = mail[d].target) \/ turn'[d] = <<>>,
         \A b \in Bots : bot'[b] = "drained" => bot[b] = "drained" \/ ~Busy(b)'
  PROVE  DrainedStaysIdle'
<1> SUFFICES ASSUME NEW b \in Bots, bot'[b] = "drained" PROVE ~Busy(b)'
  BY DEF DrainedStaysIdle
<1>1. CASE ~Busy(b)'
  BY <1>1
<1>2. CASE bot[b] = "drained"
  <2>1. ~Busy(b)
    BY <1>2 DEF DrainedStaysIdle
  <2> SUFFICES ASSUME NEW d \in Ids, Live(d)', mail'[d].target = b,
                      NEW i \in DOMAIN turn'[d], turn'[d][i] = "working"
               PROVE  FALSE
    BY DEF Busy, MailTo
  <2>2. turn'[d] # <<>>
    OBVIOUS
  <2>3. Live(d) /\ mail[d].target = b
    BY <2>2
  <2>4. i \in DOMAIN turn[d] /\ turn[d][i] = "working"
    BY DEF NoneStarts
  <2> QED BY <2>1, <2>3, <2>4 DEF Busy, MailTo
<1> QED BY <1>1, <1>2

(* What a sequence loses at its front is the front.                        *)
LEMMA PrefixRest ==
  ASSUME NEW S, NEW P \in Seq(S), NEW n \in Nat, n <= Len(P)
  PROVE  /\ Elements(P) \subseteq Prefix(P, n) \cup Elements(SubSeq(P, n + 1, Len(P)))
         /\ SubSeq(P, n + 1, Len(P)) # <<>> => n < Len(P)
<1>1. DOMAIN P = 1..Len(P) /\ Len(P) \in Nat
  OBVIOUS
<1> DEFINE rest == SubSeq(P, n + 1, Len(P))
<1>2. /\ DOMAIN rest = 1..(Len(P) - n) /\ rest = [i \in 1..(Len(P) - n) |-> P[i + n]]
  BY <1>1
<1> HIDE DEF rest
<1>3. ASSUME NEW i \in 1..Len(P) PROVE P[i] \in Prefix(P, n) \cup Elements(rest)
  <2>1. CASE i <= n
    BY <1>1, <2>1 DEF Prefix
  <2>2. CASE i > n
    <3>1. i - n \in 1..(Len(P) - n) /\ (i - n) + n = i
      BY <1>1, <2>2
    <3>2. rest[i - n] = P[i]
      BY <1>2, <3>1
    <3> QED BY <1>2, <3>1, <3>2 DEF Elements
  <2> QED BY <1>1, <2>1, <2>2
<1>4. rest # <<>> => n < Len(P)
  <2> SUFFICES ASSUME ~(n < Len(P)) PROVE rest = <<>>
    OBVIOUS
  <2>1. 1..(Len(P) - n) = {}
    BY <1>1
  <2> QED BY <1>2, <2>1
<1> QED BY <1>1, <1>3, <1>4 DEF Elements, rest

(* A drain leaves waiting what it does not claim, and stops only at a full *)
(* pool.                                                                   *)
LEMMA DrainKeeps ==
  ASSUME MailboxAssumption, MailboxInv, KeptInv, Running,
         NEW P \in Seq(Ids), NEW idle \in SUBSET Ids, NEW used \in Nat, used <= MaxDispatches,
         Elements(P) \cap (Active \ idle) = {}, Distinct(P),
         \A d \in idle : phase[d] = "settled",
         \A d \in Ids : Claimable(d) /\ bot[mail[d].target] = "present" =>
                          d \in Elements(P) \/ (phase[d] = "settled" /\ d \in rerun' /\ d \notin idle),
         DrainDispatches(P, idle, used),
         UNCHANGED <<daemon, ready, bot, unread, unreadMail>>
  PROVE  KeptInv'
<1> USE DEF KeptInv
<1>1. PICK n \in Nat :
        /\ n <= Len(P) /\ used + n <= MaxDispatches /\ (n < Len(P) => used + n = MaxDispatches)
        /\ n = IF Len(P) <= Room(used) THEN Len(P) ELSE Room(used)
  <2>1. Len(P) \in Nat /\ MaxDispatches \in Nat /\ used \in Nat /\ used <= MaxDispatches
        /\ Room(used) = MaxDispatches - used
    BY DEF Room, MailboxAssumption
  <2>2. CASE Len(P) <= Room(used)
    BY <2>1, <2>2
  <2>3. CASE ~(Len(P) <= Room(used))
    <3>1. Room(used) \in Nat /\ Room(used) <= Len(P) /\ used + Room(used) = MaxDispatches
      BY <2>1, <2>3
    <3> HIDE DEF Room
    <3> QED BY <2>1, <2>3, <3>1
  <2> QED BY <2>2, <2>3
<1> DEFINE batch == Prefix(P, n)
           claimed == {e \in batch : Claimable(e)}
<1>2. /\ pending' = SubSeq(P, n + 1, Len(P))
      /\ activeDispatches' = used + n
      /\ phase' = [d \in Ids |-> IF d \in claimed THEN "awaiting"
                                 ELSE IF d \in batch THEN "settled"
                                 ELSE IF d \in idle THEN "idle" ELSE phase[d]]
      /\ turn' = [d \in Ids |-> IF d \in claimed THEN Append(turn[d], "working") ELSE turn[d]]
      /\ mail' = [d \in Ids |-> IF d \in claimed
                                THEN [mail[d] EXCEPT !.state = "dispatching", !.turn = Len(turn[d]) + 1]
                                ELSE mail[d]]
  BY <1>1 DEF DrainDispatches, Prefix
<1>3. /\ batch \subseteq Elements(P)
      /\ Elements(P) \subseteq batch \cup Elements(pending')
      /\ pending' # <<>> => n < Len(P)
  BY <1>1, <1>2, PrefixLemma, PrefixRest
<1> HIDE DEF batch
<1>4. ASSUME NEW d \in Ids
      PROVE  /\ d \in claimed => Claimable(d) /\ mail[d].state = "queued" /\ mail'[d].state = "dispatching"
             /\ d \notin claimed => mail'[d] = mail[d] /\ turn'[d] = turn[d]
             /\ mail'[d].target = mail[d].target /\ mail'[d].call = mail[d].call
             /\ mail'[d].source = mail[d].source
  <2>1. mail[d] \in [state : MailState, call : Calls \cup {None}, source : Bots \cup {None},
                     target : Bots \cup {None}, turn : Nat]
    BY DEF MailboxInv, TypeOK
  <2>2. CASE d \in claimed
    <3> DEFINE k == Len(turn[d]) + 1
    <3>1. mail'[d] = [mail[d] EXCEPT !.state = "dispatching", !.turn = k]
      BY <1>2, <2>2
    <3> HIDE DEF k
    <3> QED BY <2>1, <2>2, <3>1 DEF Claimable, Queued
  <2>3. CASE d \notin claimed
    BY <1>2, <2>3
  <2> QED BY <2>2, <2>3
<1>5. RowsStay
  BY <1>4 DEF RowsStay, Live
<1>6. Awaited'
  <2> SUFFICES ASSUME NEW d \in Ids, phase'[d] = "awaiting" PROVE mail'[d].state \in {"dispatching", "gone"}
    BY DEF Awaited
  <2>1. CASE d \in claimed
    BY <1>4, <2>1
  <2>2. CASE d \notin claimed
    <3>1. phase[d] = "awaiting"
      BY <1>2, <2>2
    <3> QED BY <1>4, <2>2, <3>1 DEF Awaited
  <2> QED BY <2>1, <2>2
<1>7. DownForgets' /\ Addressed'
  BY <1>5 DEF DownForgets, Running, Addressed, RowsStay
<1>8. ClaimableWaits'
  <2> SUFFICES ASSUME NEW d \in Ids, Claimable(d)', bot'[mail'[d].target] = "present"
               PROVE  Waits(d)'
    BY DEF ClaimableWaits
  <2>1. d \notin claimed
    BY <1>4 DEF Claimable, Queued
  <2>2. Claimable(d) /\ bot[mail[d].target] = "present"
    BY <1>4, <2>1 DEF Claimable, Queued
  <2>3. d \notin batch
    BY <2>1, <2>2
  <2>4. CASE d \in Elements(P)
    <3>1. d \in Elements(pending')
      BY <1>3, <2>3, <2>4
    <3> QED BY <3>1 DEF Waits, Elements
  <2>5. CASE phase[d] = "settled" /\ d \in rerun' /\ d \notin idle
    BY <1>2, <2>1, <2>3, <2>5 DEF Waits
  <2> QED BY <2>2, <2>4, <2>5
<1>9. QueueDrains'
  BY <1>1, <1>2, <1>3 DEF QueueDrains
<1>10. DrainedStaysIdle'
  <2> SUFFICES ASSUME NEW b \in Bots, bot[b] = "drained", NEW d \in Ids, Live(d)', mail'[d].target = b,
                      NEW i \in DOMAIN turn'[d], turn'[d][i] = "working"
               PROVE  FALSE
    BY DEF DrainedStaysIdle, Busy, MailTo
  <2>1. d \notin claimed
    BY <1>4 DEF Claimable
  <2>2. Live(d) /\ mail[d].target = b /\ turn'[d] = turn[d]
    BY <1>4, <1>5, <2>1 DEF RowsStay
  <2> QED BY <2>2 DEF DrainedStaysIdle, Busy, MailTo
<1>11. RetryInvisible'
  BY <1>5, RetryStays
<1> QED BY <1>6, <1>7, <1>8, <1>9, <1>10, <1>11

LEMMA KeptInit ==
  ASSUME Init, MailboxAssumption PROVE KeptInv
<1>1. \A d \in Ids : mail[d].state = "none" /\ turn[d] = <<>> /\ phase[d] = "idle" /\ ~Live(d)
  BY DEF Init, NoMail, Live
<1>2. Addressed /\ Awaited /\ DownForgets /\ ClaimableWaits /\ QueueDrains /\ DrainedStaysIdle
  BY <1>1 DEF Addressed, Awaited, DownForgets, ClaimableWaits, Claimable, Queued, QueueDrains,
              DrainedStaysIdle, Init, Running
<1>3. RetryInvisible
  <2>1. \A b \in Bots : MailTo(b) = {} /\ unread[b] = 0 /\ unreadMail[b] = 0
    BY <1>1 DEF MailTo, Init
  <2>2. \A b \in Bots : unread[b] <= Cardinality(MailTo(b)) BY FS_EmptySet, <2>1
  <2> QED BY <1>1, <2>1, <2>2 DEF RetryInvisible
<1> QED BY <1>2, <1>3 DEF KeptInv

(* Scheduling makes what it names wait, keeps waiting what waits, and asks *)
(* for a drain when it adds to the queue.                                  *)
LEMMA ScheduleKeeps ==
  ASSUME MailboxAssumption, MailboxInv, QueueDrains, NEW D \in SUBSET Ids, ScheduleDispatch(D),
         UNCHANGED <<phase, activeDispatches>>
  PROVE  /\ QueueDrains'
         /\ \A d \in Ids : Waits(d) \/ (d \in D /\ phase[d] # "awaiting") => Waits(d)'
<1> DEFINE new == (D \ Active) \ Elements(pending)
<1>1. new \in SUBSET Ids /\ Cardinality(new) \in Nat
  BY FiniteIds
<1>2. PICK s \in [1..Cardinality(new) -> new] : InOrder(s, new) /\ pending' = pending \o s
  BY DEF ScheduleDispatch
<1>3. rerun' = rerun \cup (D \cap Active) /\ drainScheduled' = (drainScheduled \/ new # {})
  BY DEF ScheduleDispatch
<1>4. /\ new \cap Elements(pending) = {}
      /\ \A d \in D : d \in new \/ d \in Active \/ d \in Elements(pending)
  OBVIOUS
<1> HIDE DEF new
<1>5. s \in [1..Cardinality(new) -> Ids]
  BY <1>1, <1>2
<1>6. s \in Seq(Ids)
  BY <1>1, <1>5, IsASeq
<1>7. Distinct(s) /\ Elements(s) = new
  <2>1. DOMAIN s = 1..Cardinality(new)
    BY <1>2
  <2>2. \A i, j \in 1..Cardinality(new) : i < j => s[i] < s[j]
    BY <1>2, <2>1 DEF InOrder
  <2>3. \A i \in 1..Cardinality(new) : s[i] \in Int
    BY <1>5 DEF Ids
  <2>4. \A i, j \in 1..Cardinality(new) : s[i] = s[j] => i = j
    BY <1>1, <2>2, <2>3
  <2> QED BY <1>2, <2>1, <2>4 DEF InOrder, Distinct
<1>8. pending \in Seq(Ids) /\ Distinct(pending) /\ Elements(pending) \cap Elements(s) = {}
  BY <1>4, <1>7 DEF MailboxInv, TypeOK, PoolInv
<1>9. pending' \in Seq(Ids) /\ Elements(pending') = Elements(pending) \cup new
  BY <1>2, <1>6, <1>7, <1>8, ConcatDistinct
<1>10. QueueDrains'
  <2> SUFFICES ASSUME pending' # <<>> PROVE drainScheduled' \/ activeDispatches' = MaxDispatches
    BY DEF QueueDrains
  <2>1. CASE new # {}
    BY <1>3, <2>1
  <2>2. CASE new = {}
    <3>1. 1 \in DOMAIN pending'
      BY <1>9
    <3>2. Elements(pending') # {}
      BY <3>1 DEF Elements
    <3>3. Elements(pending) # {} BY <1>9, <2>2, <3>2
    <3>4. pending # <<>>
      BY <3>3 DEF Elements
    <3> QED BY <1>3, <3>4 DEF QueueDrains
  <2> QED BY <2>1, <2>2
<1>11. ASSUME NEW d \in Ids, Waits(d) \/ (d \in D /\ phase[d] # "awaiting") PROVE Waits(d)'
  <2>1. CASE d \in Elements(pending')
    <3>1. Elements(pending)' = Elements(pending')
      BY DEF Elements
    <3> QED BY <2>1, <3>1 DEF Waits
  <2>2. CASE d \notin Elements(pending')
    <3>1. phase[d] = "settled" /\ (d \in rerun \/ (d \in D /\ d \in Active))
      <4>1. d \notin Elements(pending) /\ d \notin new
        BY <1>9, <2>2
      <4>2. CASE Waits(d)
        BY <4>1, <4>2 DEF Waits
      <4>3. CASE d \in D /\ phase[d] # "awaiting"
        <5>1. d \in Active
          BY <1>4, <4>1, <4>3
        <5>2. phase[d] \in {"idle", "awaiting", "settled"}
          BY DEF MailboxInv, TypeOK
        <5> QED BY <4>3, <5>1, <5>2 DEF Active
      <4> QED BY <1>11, <4>2, <4>3
    <3> QED BY <1>3, <3>1 DEF Waits
  <2> QED BY <2>1, <2>2
<1> QED BY <1>10, <1>11

(* A step that leaves the queue alone leaves waiting what waits.           *)
LEMMA QueueStays ==
  ASSUME UNCHANGED <<pending, phase, rerun, activeDispatches, drainScheduled>>
  PROVE  (QueueDrains' <=> QueueDrains) /\ \A d : (Waits(d)' <=> Waits(d))
BY DEF QueueDrains, Waits, Elements

(* A dispatch settles.                                                     *)
LEMMA SettleKeeps ==
  ASSUME MailboxInv, KeptInv, NEW d \in Ids, Accept(d) \/ Reject(d)
  PROVE  KeptInv'
<1> USE DEF KeptInv
<1> DEFINE Row == [state : MailState, call : Calls \cup {None},
                   source : Bots \cup {None}, target : Bots \cup {None}, turn : Nat]
<1>1. /\ mail \in [Ids -> Row] /\ turn \in [Ids -> Seq(TurnStatus)]
      /\ phase \in [Ids -> {"idle", "awaiting", "settled"}]
      /\ phase[d] = "awaiting" /\ phase' = [phase EXCEPT ![d] = "settled"]
      /\ UNCHANGED <<daemon, starts, ready, bot, unread, unreadMail, pending, rerun,
                     activeDispatches, drainScheduled>>
      /\ Running
  BY DEF MailboxInv, TypeOK, Accept, Reject
<1>2. PICK outcome \in {"delivered", "failed"} :
        /\ mail' = IF Owns(d) THEN [mail EXCEPT ![d].state = outcome] ELSE mail
        /\ turn' = IF outcome = "failed" THEN [turn EXCEPT ![d] = FailWorking(@)] ELSE turn
  BY DEF Accept, Reject
<1>3. \A e \in Ids : /\ mail'[e].target = mail[e].target /\ mail'[e].call = mail[e].call
                     /\ mail'[e].turn = mail[e].turn
                     /\ \/ mail'[e].state = mail[e].state
                        \/ /\ e = d /\ mail[e].state = "dispatching"
                           /\ mail'[e].state \in {"delivered", "failed"}
  BY <1>1, <1>2 DEF Owns
<1>4. RowsStay
  BY <1>3 DEF RowsStay, Live
<1>5. NoneStarts
  <2> SUFFICES ASSUME NEW e \in Ids, NEW i \in DOMAIN turn'[e], turn'[e][i] = "working"
               PROVE  i \in DOMAIN turn[e] /\ turn[e][i] = "working"
    BY DEF NoneStarts
  <2>1. turn'[e] = turn[e] \/ turn'[e] = FailWorking(turn[e])
    BY <1>1, <1>2
  <2>2. DOMAIN FailWorking(turn[e]) = DOMAIN turn[e]
        /\ \A j \in DOMAIN turn[e] : FailWorking(turn[e])[j] # "working"
    BY DEF FailWorking
  <2> QED BY <2>1, <2>2
<1>6. Addressed' /\ Awaited' /\ DownForgets'
  BY <1>1, <1>3, <1>4 DEF Addressed, RowsStay, Awaited, DownForgets, Running
<1>7. ClaimableWaits' /\ QueueDrains'
  <2>1. \A e \in Ids : Waits(e) => Waits(e)'
    BY <1>1 DEF Waits, Elements
  <2>2. \A e \in Ids : Claimable(e)' => Claimable(e)
    BY <1>1, <1>3 DEF Claimable, Queued
  <2> QED BY <1>1, <1>3, <2>1, <2>2 DEF ClaimableWaits, QueueDrains
<1>8. RetryInvisible'
  BY <1>1, <1>4, RetryStays
<1>9. DrainedStaysIdle'
  BY <1>1, <1>4, <1>5, IdleStays DEF RowsStay
<1> QED BY <1>6, <1>7, <1>8, <1>9

(* Steps that leave the rows and the queue alone, and give no Bot back and *)
(* make no Agent ready.                                                    *)
LEMMA QuietKeeps ==
  ASSUME MailboxInv, KeptInv, UNCHANGED <<mail, pending, phase, rerun, activeDispatches, drainScheduled>>,
         NoneStarts,
         Running => Running',
         \A a \in Agents : ready'[a] => ready[a] /\ Running',
         \A b \in Bots : bot'[b] = "present" => bot[b] = "present",
         \A b \in Bots : bot'[b] = "drained" => bot[b] = "drained" \/ ~Busy(b)',
         MailboxAssumption
  PROVE  /\ Addressed' /\ Awaited' /\ DownForgets' /\ ClaimableWaits' /\ QueueDrains'
         /\ DrainedStaysIdle'
<1> USE DEF KeptInv
<1>1. RowsStay
  BY DEF RowsStay, Live
<1>2. Addressed' /\ Awaited'
  BY DEF Addressed, Awaited, Live
<1>3. DownForgets'
  BY DEF DownForgets
<1>4. QueueDrains'
  BY QueueStays
<1>5. ClaimableWaits'
  <2> SUFFICES ASSUME NEW d \in Ids, Claimable(d)', bot'[mail[d].target] = "present"
               PROVE  Waits(d)'
    BY DEF ClaimableWaits
  <2>1. mail[d].target \in Bots /\ Queued(d)
    BY DEF Claimable, Queued, Addressed, Live
  <2>2. AgentOf[mail[d].target] \in Agents
    BY <2>1 DEF MailboxAssumption
  <2>3. ready[AgentOf[mail[d].target]] /\ bot[mail[d].target] = "present"
    BY <2>1, <2>2 DEF Claimable
  <2>4. Claimable(d)
    BY <2>1, <2>3 DEF Claimable
  <2> QED BY <2>3, <2>4, QueueStays DEF ClaimableWaits
<1>6. DrainedStaysIdle'
  BY <1>1, IdleStays DEF RowsStay
<1> QED BY <1>2, <1>3, <1>4, <1>5, <1>6
(* A new delivery waits, and its target has one more.                      *)
LEMMA EnqueueKeeps ==
  ASSUME MailboxInv, KeptInv, NEW c \in Calls, NEW b \in Bots, Enqueue(c, b)
  PROVE  KeptInv'
<1> USE MailboxAssumption DEF KeptInv
<1> DEFINE new == [state |-> "queued", call |-> c, source |-> SourceOf[c],
                   target |-> b, turn |-> 0]
<1>1. PICK d \in Unused :
        /\ mail' = [mail EXCEPT ![d] = new]
        /\ unread' = [unread EXCEPT ![b] = @ + 1]
        /\ unreadMail' = [unreadMail EXCEPT ![b] = d]
        /\ ScheduleDispatch({d})
        /\ UNCHANGED <<daemon, starts, ready, bot, turn, phase, activeDispatches>>
  BY DEF Enqueue
<1>2. /\ d \in Ids /\ mail[d].state = "none" /\ ~Live(d) /\ Running /\ ~Duplicate(c)
      /\ bot[b] # "drained" /\ phase[d] # "awaiting"
  BY <1>1 DEF Unused, Live, Enqueue, Awaited
<1>3. /\ mail'[d] = new /\ Live(d)' /\ mail'[d].target = b /\ mail'[d].call = c
      /\ \A e \in Ids \ {d} : mail'[e] = mail[e] /\ (Live(e)' <=> Live(e))
  BY <1>1, <1>2 DEF MailboxInv, TypeOK, Live
<1>4. Addressed' /\ Awaited' /\ DownForgets'
  BY <1>1, <1>2, <1>3 DEF Addressed, Awaited, DownForgets, Running
<1>5. QueueDrains' /\ \A e \in Ids : Waits(e) \/ (e \in {d} /\ phase[e] # "awaiting") => Waits(e)'
  BY <1>1, <1>2, ScheduleKeeps
<1>6. ClaimableWaits'
  <2> SUFFICES ASSUME NEW e \in Ids, Claimable(e)', bot'[mail'[e].target] = "present" PROVE Waits(e)'
    BY DEF ClaimableWaits
  <2>1. CASE e = d
    BY <1>2, <1>5, <2>1
  <2>2. CASE e # d
    <3>1. Claimable(e) /\ bot[mail[e].target] = "present"
      BY <1>1, <1>3, <2>2 DEF Claimable, Queued
    <3> QED BY <1>5, <3>1 DEF ClaimableWaits
  <2> QED BY <2>1, <2>2
<1>7. /\ MailTo(b)' = MailTo(b) \cup {d} /\ d \notin MailTo(b)
      /\ \A x \in Bots \ {b} : MailTo(x)' = MailTo(x)
  BY <1>2, <1>3 DEF MailTo
<1>8. DrainedStaysIdle'
  <2> SUFFICES ASSUME NEW x \in Bots, bot[x] = "drained" PROVE ~Busy(x)'
    BY <1>1 DEF DrainedStaysIdle
  <2>1. MailTo(x)' = MailTo(x)
    BY <1>2, <1>7
  <2> QED BY <1>1, <2>1 DEF DrainedStaysIdle, Busy
<1>9. RetryInvisible'
  <2>1. ASSUME NEW e \in Ids, NEW f \in Ids, Live(e)', Live(f)', mail'[e].call = mail'[f].call
        PROVE  e = f
    <3>1. \A g \in Ids : Live(g) => mail[g].call # c
      BY <1>2 DEF Duplicate
    <3>2. CASE e # d /\ f # d
      BY <1>3, <2>1, <3>2 DEF RetryInvisible
    <3>3. CASE e = d \/ f = d
      BY <1>3, <2>1, <3>1, <3>3
    <3> QED BY <3>2, <3>3
  <2>2. ASSUME NEW x \in Bots
        PROVE  /\ unread'[x] <= Cardinality(MailTo(x)')
               /\ unreadMail'[x] \in MailTo(x)' \cup {0}
               /\ unreadMail'[x] = 0 <=> unread'[x] = 0
    <3>1. /\ unread[x] <= Cardinality(MailTo(x))
          /\ unreadMail[x] \in MailTo(x) \cup {0}
          /\ unreadMail[x] = 0 <=> unread[x] = 0
          /\ unread[x] \in Nat /\ unread \in [Bots -> Nat]
          /\ unreadMail \in [Bots -> Ids \cup {0}]
      BY DEF RetryInvisible, MailboxInv, TypeOK
    <3>2. CASE x = b
      <4>1. unread'[x] = unread[x] + 1 /\ unreadMail'[x] = d
        BY <1>1, <3>1, <3>2
      <4>2. MailTo(x) \in SUBSET Ids /\ MailTo(x)' = MailTo(x) \cup {d} /\ d \notin MailTo(x)
        BY <1>7, <3>2 DEF MailTo
      <4>3. IsFiniteSet(MailTo(x)) /\ Cardinality(MailTo(x)) \in Nat
        BY <4>2, FiniteIds
      <4>4. Cardinality(MailTo(x) \cup {d}) = Cardinality(MailTo(x)) + 1
        BY <4>2, <4>3, FS_AddElement
      <4>5. Cardinality(MailTo(x)') = Cardinality(MailTo(x)) + 1
        BY <4>2, <4>4
      <4>6. d # 0 /\ unread[x] + 1 # 0
        BY <1>2, <3>1 DEF Ids
      <4>7. \A k \in Nat : unread[x] <= k => unread[x] + 1 <= k + 1
        BY <3>1
      <4> HIDE DEF MailTo
      <4> QED BY <3>1, <4>1, <4>2, <4>3, <4>5, <4>6, <4>7
    <3>3. CASE x # b
      <4>1. unread'[x] = unread[x] /\ unreadMail'[x] = unreadMail[x]
        BY <1>1, <3>1, <3>3
      <4> QED BY <1>7, <3>1, <3>3, <4>1
    <3> QED BY <3>2, <3>3
  <2> QED BY <2>1, <2>2 DEF RetryInvisible
<1> QED BY <1>4, <1>5, <1>6, <1>8, <1>9

(* The two callers of the drain.                                           *)
LEMMA DrainMicrotaskKeeps ==
  ASSUME MailboxInv, KeptInv, DrainMicrotask
  PROVE  KeptInv'
<1> USE MailboxAssumption
<1>1. /\ DrainDispatches(pending, {}, activeDispatches) /\ Running
      /\ UNCHANGED <<daemon, starts, ready, bot, unread, unreadMail, rerun>>
  BY DEF DrainMicrotask
<1>2. /\ pending \in Seq(Ids) /\ activeDispatches \in Nat /\ activeDispatches <= MaxDispatches
      /\ Distinct(pending) /\ Elements(pending) \cap (Active \ {}) = {}
  BY DEF MailboxInv, TypeOK, PoolInv, PoolAccounting
<1>3. \A d \in Ids : Claimable(d) /\ bot[mail[d].target] = "present" =>
        d \in Elements(pending) \/ (phase[d] = "settled" /\ d \in rerun' /\ d \notin {})
  BY <1>1 DEF KeptInv, ClaimableWaits, Waits
<1> QED BY <1>1, <1>2, <1>3, DrainKeeps

LEMMA FinishDispatchKeeps ==
  ASSUME MailboxInv, KeptInv, NEW d \in Ids, FinishDispatch(d)
  PROVE  KeptInv'
<1> USE MailboxAssumption
<1> DEFINE again == d \in rerun /\ d \notin Elements(pending)
           P == IF again THEN Append(pending, d) ELSE pending
<1>1. /\ DrainDispatches(P, {d}, activeDispatches - 1)
      /\ rerun' = rerun \ {d}
      /\ Running /\ phase[d] = "settled"
      /\ UNCHANGED <<daemon, starts, ready, bot, unread, unreadMail>>
  BY DEF FinishDispatch
<1>2. d \in Active /\ d \notin Elements(pending)
  BY <1>1 DEF MailboxInv, PoolInv, Active
<1>3. activeDispatches - 1 \in Nat /\ activeDispatches - 1 <= MaxDispatches
  <2>1. IsFiniteSet(Active) /\ Cardinality(Active \ {d}) \in Nat
    BY FiniteIds DEF Active
  <2>2. Cardinality(Active \ {d}) = Cardinality(Active) - 1
    BY <1>2, <2>1, FS_RemoveElement
  <2>3. activeDispatches = Cardinality(Active) /\ activeDispatches <= MaxDispatches
        /\ activeDispatches \in Nat
    BY DEF MailboxInv, PoolInv, PoolAccounting, TypeOK
  <2> QED BY <2>1, <2>2, <2>3 DEF MailboxAssumption
<1>4. /\ P \in Seq(Ids) /\ Distinct(P) /\ Elements(P) \cap (Active \ {d}) = {}
      /\ Elements(pending) \subseteq Elements(P) /\ (d \in rerun => d \in Elements(P))
  <2>1. /\ pending \in Seq(Ids) /\ Distinct(pending)
        /\ Elements(pending) \cap Active = {}
    BY DEF MailboxInv, TypeOK, PoolInv
  <2>2. CASE again
    <3>1. <<d>> \in Seq(Ids) /\ Distinct(<<d>>) /\ Elements(<<d>>) = {d}
      BY DEF Distinct, Elements
    <3>2. Append(pending, d) = pending \o <<d>>
      BY <2>1
    <3>3. Elements(pending) \cap Elements(<<d>>) = {}
      BY <1>2, <3>1
    <3>4. /\ pending \o <<d>> \in Seq(Ids) /\ Distinct(pending \o <<d>>)
          /\ Elements(pending \o <<d>>) = Elements(pending) \cup Elements(<<d>>)
      <4>1. \A q \in Seq(Ids) :
              Distinct(q) /\ Elements(pending) \cap Elements(q) = {} =>
                /\ pending \o q \in Seq(Ids) /\ Distinct(pending \o q)
                /\ Elements(pending \o q) = Elements(pending) \cup Elements(q)
        BY <2>1, ConcatDistinct
      <4> QED BY <3>1, <3>3, <4>1, Zenon
    <3> QED BY <1>2, <2>1, <2>2, <3>1, <3>2, <3>4
  <2>3. CASE ~again
    BY <1>2, <2>1, <2>3
  <2> QED BY <2>2, <2>3
<1> HIDE DEF P
<1>5. \A e \in Ids : Claimable(e) /\ bot[mail[e].target] = "present" =>
        e \in Elements(P) \/ (phase[e] = "settled" /\ e \in rerun' /\ e \notin {d})
  BY <1>1, <1>4 DEF KeptInv, ClaimableWaits, Waits
<1>6. {d} \in SUBSET Ids /\ \A e \in {d} : phase[e] = "settled"
  BY <1>1
<1> QED BY <1>1, <1>3, <1>4, <1>5, <1>6, DrainKeeps

(* An Agent becomes ready: its queued mail is scheduled.                   *)
LEMMA BecomeReadyKeeps ==
  ASSUME MailboxInv, KeptInv, NEW a \in Agents, BecomeReady(a)
  PROVE  KeptInv'
<1> USE MailboxAssumption DEF KeptInv
<1> DEFINE D == {d \in Ids : /\ Queued(d) /\ AgentOf[mail[d].target] = a
                             /\ ~Deleting(mail[d].target)}
<1>1. /\ ScheduleDispatch(D) /\ D \in SUBSET Ids /\ Running
      /\ ready' = [ready EXCEPT ![a] = TRUE]
      /\ UNCHANGED <<daemon, starts, bot, mail, turn, unread, unreadMail, phase,
                     activeDispatches>>
  BY DEF BecomeReady, durable
<1>2. QueueDrains' /\ \A d \in Ids : Waits(d) \/ (d \in D /\ phase[d] # "awaiting") => Waits(d)'
  BY <1>1, ScheduleKeeps
<1>3. RowsStay /\ NoneStarts
  BY <1>1 DEF RowsStay, Live, NoneStarts
<1>4. Addressed' /\ Awaited' /\ DownForgets'
  BY <1>1 DEF Addressed, Live, Awaited, DownForgets, Running
<1>5. ClaimableWaits'
  <2> SUFFICES ASSUME NEW d \in Ids, Claimable(d)', bot[mail[d].target] = "present" PROVE Waits(d)'
    BY <1>1 DEF ClaimableWaits
  <2>1. Queued(d) /\ phase[d] # "awaiting" /\ mail[d].target \in Bots /\ ~Deleting(mail[d].target)
    BY <1>1 DEF Claimable, Queued, Awaited, Addressed, Live, Deleting
  <2>2. CASE AgentOf[mail[d].target] = a
    BY <1>2, <2>1, <2>2
  <2>3. CASE AgentOf[mail[d].target] # a
    <3>1. AgentOf[mail[d].target] \in Agents
      BY <2>1 DEF MailboxAssumption
    <3>2. ready[AgentOf[mail[d].target]]
      BY <1>1, <2>3, <3>1 DEF Claimable, MailboxInv, TypeOK
    <3>3. Claimable(d)
      BY <1>1, <2>1, <3>2 DEF Claimable, Deleting
    <3> QED BY <1>2, <3>3 DEF ClaimableWaits
  <2> QED BY <2>2, <2>3
<1>6. DrainedStaysIdle'
  BY <1>1, <1>3, IdleStays DEF RowsStay
<1>7. RetryInvisible'
  BY <1>1, <1>3, RetryStays
<1> QED BY <1>2, <1>4, <1>5, <1>6, <1>7
(* A deletion's commit leaves the mail of every other Bot as it is.        *)
LEMMA CommitDeletionKeeps ==
  ASSUME MailboxInv, KeptInv, NEW b \in Bots, CommitDeletion(b)
  PROVE  KeptInv'
<1> USE MailboxAssumption DEF KeptInv
<1>1. /\ mail' = [d \in Ids |-> IF d \in MailTo(b) THEN [mail[d] EXCEPT !.state = "gone"]
                               ELSE IF mail[d].source = b THEN [mail[d] EXCEPT !.source = None]
                               ELSE mail[d]]
      /\ turn' = [d \in Ids |-> IF d \in MailTo(b) THEN <<>> ELSE turn[d]]
      /\ bot' = [bot EXCEPT ![b] = "deleted"] /\ bot \in [Bots -> BotState]
      /\ unread' = [unread EXCEPT ![b] = 0] /\ unread \in [Bots -> Nat]
      /\ unreadMail' = [unreadMail EXCEPT ![b] = 0] /\ unreadMail \in [Bots -> Ids \cup {0}]
      /\ Running
      /\ UNCHANGED <<daemon, starts, ready, pending, phase, rerun, activeDispatches,
                     drainScheduled>>
  BY DEF MailboxInv, TypeOK, CommitDeletion, queue
<1>2. ASSUME NEW d \in Ids
      PROVE  /\ mail'[d].call = mail[d].call /\ mail'[d].target = mail[d].target
             /\ mail'[d].turn = mail[d].turn
             /\ d \in MailTo(b) => mail'[d].state = "gone" /\ turn'[d] = <<>>
             /\ d \notin MailTo(b) => mail'[d].state = mail[d].state /\ turn'[d] = turn[d]
  <2>1. mail[d] \in [state : MailState, call : Calls \cup {None}, source : Bots \cup {None},
                     target : Bots \cup {None}, turn : Nat]
    BY DEF MailboxInv, TypeOK
  <2>2. CASE d \in MailTo(b)
    <3>1. mail'[d] = [mail[d] EXCEPT !.state = "gone"] /\ turn'[d] = <<>>
      BY <1>1, <2>2
    <3> QED BY <2>1, <2>2, <3>1
  <2>3. CASE d \notin MailTo(b)
    <3>1. /\ mail'[d] \in {mail[d], [mail[d] EXCEPT !.source = None]}
          /\ turn'[d] = turn[d]
      BY <1>1, <2>3
    <3> QED BY <2>1, <2>3, <3>1
  <2> QED BY <2>2, <2>3
<1>3. \A d \in Ids : /\ Live(d)' => Live(d) /\ d \notin MailTo(b)
                     /\ Live(d) /\ d \notin MailTo(b) => Live(d)'
  BY <1>2 DEF Live
<1>4. /\ MailTo(b)' = {}
      /\ \A x \in Bots \ {b} : MailTo(x)' = MailTo(x)
  BY <1>2, <1>3 DEF MailTo
<1>5. Addressed' /\ Awaited' /\ DownForgets'
  BY <1>1, <1>2, <1>3 DEF Addressed, Awaited, DownForgets, Running
<1>6. QueueDrains' /\ \A d : (Waits(d)' <=> Waits(d))
  BY <1>1, QueueStays
<1>7. ClaimableWaits'
  <2> SUFFICES ASSUME NEW d \in Ids, Claimable(d)', bot'[mail'[d].target] = "present"
               PROVE  Waits(d)'
    BY DEF ClaimableWaits
  <2>1. d \notin MailTo(b) /\ Queued(d)
    BY <1>2 DEF Claimable, Queued
  <2>2. mail[d].target \in Bots /\ mail[d].target # b /\ mail'[d].target = mail[d].target
    BY <1>2, <2>1 DEF Addressed, Queued, Live, MailTo
  <2>3. bot'[mail[d].target] = bot[mail[d].target]
    BY <1>1, <2>2
  <2>4. Claimable(d) /\ bot[mail[d].target] = "present"
    BY <1>1, <2>1, <2>2, <2>3 DEF Claimable
  <2> QED BY <1>6, <2>4 DEF ClaimableWaits
<1>8. DrainedStaysIdle'
  <2>1. NoneStarts BY <1>2 DEF NoneStarts
  <2>2. \A d \in Ids : Live(d)' => Live(d) /\ mail'[d].target = mail[d].target
    BY <1>2, <1>3
  <2>3. \A x \in Bots : bot'[x] = "drained" => bot[x] = "drained"
    BY <1>1
  <2> QED BY <2>1, <2>2, <2>3, IdleStays
<1>9. RetryInvisible'
  <2>1. \A d, e \in Ids : Live(d)' /\ Live(e)' /\ mail'[d].call = mail'[e].call => d = e
    BY <1>2, <1>3 DEF RetryInvisible
  <2>2. ASSUME NEW x \in Bots
        PROVE  /\ unread'[x] <= Cardinality(MailTo(x)')
               /\ unreadMail'[x] \in MailTo(x)' \cup {0}
               /\ unreadMail'[x] = 0 <=> unread'[x] = 0
    <3>1. CASE x = b
      <4>1. unread'[x] = 0 /\ unreadMail'[x] = 0 /\ MailTo(x)' = {}
        BY <1>1, <1>4, <3>1
      <4>2. Cardinality({}) = 0
        BY FS_EmptySet
      <4>3. 0 <= 0
        OBVIOUS
      <4> QED BY <4>1, <4>2, <4>3
    <3>2. CASE x # b
      <4>1. unread'[x] = unread[x] /\ unreadMail'[x] = unreadMail[x] /\ MailTo(x)' = MailTo(x)
        BY <1>1, <1>4, <3>2
      <4> QED BY <4>1 DEF RetryInvisible
    <3> QED BY <3>1, <3>2
  <2> QED BY <2>1, <2>2 DEF RetryInvisible
<1> QED BY <1>5, <1>6, <1>7, <1>8, <1>9

(* The process ends: nothing waits and no Agent is ready.                  *)
LEMMA DownKeeps ==
  ASSUME MailboxInv, KeptInv, Down
  PROVE  KeptInv'
<1> USE MailboxAssumption DEF KeptInv
<1>1. /\ daemon' = "down" /\ pending' = <<>> /\ phase' = [d \in Ids |-> "idle"]
      /\ ready' = [a \in Agents |-> FALSE]
      /\ UNCHANGED <<starts, bot, mail, turn, unread, unreadMail>>
  BY DEF Down, durable
<1>2. RowsStay /\ NoneStarts
  BY <1>1 DEF RowsStay, Live, NoneStarts
<1>3. Addressed' /\ Awaited' /\ DownForgets' /\ QueueDrains'
  BY <1>1 DEF Addressed, Live, Awaited, DownForgets, QueueDrains
<1>4. ClaimableWaits'
  <2> SUFFICES ASSUME NEW d \in Ids, Claimable(d)' PROVE FALSE
    BY DEF ClaimableWaits
  <2>1. mail[d].target \in Bots
    BY <1>1 DEF Claimable, Queued, Addressed, Live
  <2> QED BY <1>1, <2>1 DEF Claimable, MailboxAssumption
<1>5. DrainedStaysIdle'
  BY <1>1, <1>2, IdleStays DEF RowsStay
<1>6. RetryInvisible'
  BY <1>1, <1>2, RetryStays
<1> QED BY <1>3, <1>4, <1>5, <1>6

(* Start-up fails interrupted deletions and working Turns.                 *)
LEMMA RecoverOnStartupKeeps ==
  ASSUME MailboxInv, KeptInv, RecoverOnStartup
  PROVE  KeptInv'
<1> USE MailboxAssumption
<1>1. /\ daemon = "down" /\ daemon' = "recovered"
      /\ turn' = [d \in Ids |-> FailWorking(turn[d])]
      /\ bot' = [b \in Bots |-> IF Deleting(b) THEN "deleteFailed" ELSE bot[b]]
      /\ UNCHANGED <<ready, mail, unread, unreadMail, pending, phase, rerun,
                     activeDispatches, drainScheduled>>
  BY DEF RecoverOnStartup, queue
<1>2. NoneStarts
  BY <1>1 DEF NoneStarts, FailWorking
<1>3. /\ \A b \in Bots : bot'[b] = "present" => bot[b] = "present"
      /\ \A b \in Bots : bot'[b] # "drained"
  BY <1>1 DEF Deleting
<1>4. ~Running /\ \A a \in Agents : ~ready[a]
  BY <1>1 DEF Running, KeptInv, DownForgets
<1>5. /\ Addressed' /\ Awaited' /\ DownForgets' /\ ClaimableWaits' /\ QueueDrains'
      /\ DrainedStaysIdle'
  BY <1>1, <1>2, <1>3, <1>4, QuietKeeps
<1>6. RetryInvisible'
  BY <1>1, RetryStays DEF KeptInv, RowsStay, Live
<1> QED BY <1>5, <1>6 DEF KeptInv

(* Reconciliation runs before any Agent is ready, and starts no Turn.      *)
LEMMA ReconcileStartupKeeps ==
  ASSUME MailboxInv, KeptInv, ReconcileStartup
  PROVE  KeptInv'
<1> USE MailboxAssumption DEF KeptInv
<1> DEFINE D == {d \in Ids : Reconciled(d).state = "queued" /\ Reconciled(d).turn = 0}
<1>1. /\ turn \in [Ids -> Seq(TurnStatus)]
      /\ daemon = "recovered" /\ daemon' = "up"
      /\ mail' = [d \in Ids |-> Reconciled(d)]
      /\ turn' = [d \in Ids |-> IF Interrupted(d) THEN [turn[d] EXCEPT ![mail[d].turn] = "failed"]
                               ELSE turn[d]]
      /\ ScheduleDispatch(D) /\ D \in SUBSET Ids
      /\ UNCHANGED <<starts, ready, bot, unread, unreadMail, phase, activeDispatches>>
  BY DEF MailboxInv, TypeOK, ReconcileStartup
<1>2. ASSUME NEW d \in Ids
      PROVE  /\ mail'[d].target = mail[d].target /\ mail'[d].call = mail[d].call
             /\ Live(d)' <=> Live(d)
  <2>1. mail[d] \in [state : MailState, call : Calls \cup {None}, source : Bots \cup {None},
                     target : Bots \cup {None}, turn : Nat]
    BY DEF MailboxInv, TypeOK
  <2>2. mail'[d] = Reconciled(d)
    BY <1>1
  <2>3. \/ mail'[d] = mail[d]
        \/ mail[d].state \in {"queued", "dispatching"} /\ mail'[d] = [mail[d] EXCEPT !.state = "queued"]
        \/ mail[d].state \in {"queued", "dispatching"} /\ mail'[d] = [mail[d] EXCEPT !.state = "failed"]
    BY <2>2 DEF Reconciled, Interrupted
  <2>4. CASE mail'[d] = mail[d]
    BY <2>4 DEF Live
  <2>5. CASE /\ mail[d].state \in {"queued", "dispatching"}
             /\ \/ mail'[d] = [mail[d] EXCEPT !.state = "queued"]
                \/ mail'[d] = [mail[d] EXCEPT !.state = "failed"]
    <3>1. /\ mail'[d].target = mail[d].target /\ mail'[d].call = mail[d].call
          /\ mail'[d].state \in {"queued", "failed"}
      BY <2>1, <2>5
    <3> QED BY <2>5, <3>1 DEF Live
  <2> QED BY <2>3, <2>4, <2>5
<1>3. RowsStay
  BY <1>2 DEF RowsStay
<1>4. NoneStarts
  <2> SUFFICES ASSUME NEW d \in Ids, NEW i \in DOMAIN turn'[d], turn'[d][i] = "working"
               PROVE  i \in DOMAIN turn[d] /\ turn[d][i] = "working"
    BY DEF NoneStarts
  <2>1. turn'[d] = turn[d] \/ turn'[d] = [turn[d] EXCEPT ![mail[d].turn] = "failed"]
    BY <1>1
  <2> QED BY <2>1
<1>5. /\ \A a \in Agents : ~ready[a]
      /\ \A d \in Ids : phase[d] = "idle"
  BY <1>1 DEF DownForgets, Running
<1>6. Addressed' /\ Awaited' /\ DownForgets'
  BY <1>1, <1>3, <1>5 DEF Addressed, RowsStay, Awaited, DownForgets, Running
<1>7. QueueDrains'
  BY <1>1, ScheduleKeeps
<1>8. ClaimableWaits'
  <2> SUFFICES ASSUME NEW d \in Ids, Claimable(d)' PROVE FALSE
    BY DEF ClaimableWaits
  <2>1. Live(d)'
    BY DEF Claimable, Queued, Live
  <2>2. mail'[d].target \in Bots /\ ready'[AgentOf[mail'[d].target]]
    BY <1>6, <2>1 DEF Addressed, Claimable
  <2> QED BY <1>1, <1>5, <2>2 DEF MailboxAssumption
<1>9. DrainedStaysIdle'
  BY <1>1, <1>3, <1>4, IdleStays DEF RowsStay
<1>10. RetryInvisible'
  BY <1>1, <1>3, RetryStays
<1> QED BY <1>6, <1>7, <1>8, <1>9, <1>10

(* Clearing a Bot's unread mark counts nothing that is not there.          *)
LEMMA ClearUnreadKeeps ==
  ASSUME MailboxInv, KeptInv, NEW b \in Bots, ClearUnread(b)
  PROVE  RetryInvisible'
<1>1. /\ unread' = [unread EXCEPT ![b] = 0] /\ unread \in [Bots -> Nat]
      /\ unreadMail' = [unreadMail EXCEPT ![b] = 0] /\ unreadMail \in [Bots -> Ids \cup {0}]
      /\ UNCHANGED mail
  BY DEF MailboxInv, TypeOK, ClearUnread
<1>2. \A x \in Bots : MailTo(x)' = MailTo(x)
  BY <1>1 DEF MailTo, Live
<1>3. \A x \in Bots : Cardinality(MailTo(x)) \in Nat
  <2> SUFFICES ASSUME NEW x \in Bots PROVE Cardinality(MailTo(x)) \in Nat
    OBVIOUS
  <2>1. MailTo(x) \in SUBSET Ids
    BY DEF MailTo
  <2> QED BY <2>1, FiniteIds, MailboxAssumption
<1>4. \A x \in Bots : /\ unread[x] <= Cardinality(MailTo(x))
                      /\ unreadMail[x] \in MailTo(x) \cup {0}
                      /\ unreadMail[x] = 0 <=> unread[x] = 0
  BY DEF KeptInv, RetryInvisible
<1>5. ASSUME NEW x \in Bots
      PROVE  /\ unread'[x] <= Cardinality(MailTo(x))
             /\ unreadMail'[x] \in MailTo(x) \cup {0}
             /\ unreadMail'[x] = 0 <=> unread'[x] = 0
  BY <1>1, <1>3, <1>4
<1>6. \A d, e \in Ids : Live(d)' /\ Live(e)' /\ mail'[d].call = mail'[e].call => d = e
  BY <1>1 DEF KeptInv, RetryInvisible, Live
<1> QED BY <1>2, <1>5, <1>6 DEF RetryInvisible

LEMMA KeptNext ==
  ASSUME MailboxIInv, KeptInv, [Next]_vars
  PROVE  KeptInv'
<1> USE MailboxAssumption
<1>1. MailboxInv /\ TypeOK
  BY DEF MailboxIInv, MailboxInv
<1>2. ASSUME UNCHANGED <<daemon, mail, turn, pending, phase, rerun, activeDispatches, drainScheduled>>,
             \A a \in Agents : ready'[a] => ready[a],
             \A b \in Bots : bot'[b] = "present" => bot[b] = "present",
             \A b \in Bots : bot'[b] = "drained" => bot[b] = "drained" \/ ~Busy(b)',
             RetryInvisible' \/ UNCHANGED <<unread, unreadMail>>
      PROVE  KeptInv'
  <2>1. NoneStarts
    BY <1>2 DEF NoneStarts
  <2>2. (Running => Running') /\ \A a \in Agents : ready'[a] => ready[a] /\ Running'
    BY <1>2 DEF Running, KeptInv, DownForgets
  <2>3. /\ Addressed' /\ Awaited' /\ DownForgets' /\ ClaimableWaits' /\ QueueDrains'
        /\ DrainedStaysIdle'
    BY <1>1, <1>2, <2>1, <2>2, QuietKeeps
  <2>4. RetryInvisible'
    BY <1>2, RetryStays DEF KeptInv, RowsStay, Live
  <2> QED BY <2>3, <2>4 DEF KeptInv
<1>3. ASSUME NEW c \in Calls, NEW b \in Bots, Enqueue(c, b) PROVE KeptInv'
  BY <1>1, <1>3, EnqueueKeeps
<1>4. CASE DrainMicrotask
  BY <1>1, <1>4, DrainMicrotaskKeeps
<1>5. ASSUME NEW d \in Ids, FinishDispatch(d) PROVE KeptInv'
  BY <1>1, <1>5, FinishDispatchKeeps
<1>6. ASSUME NEW d \in Ids, Accept(d) \/ Reject(d) PROVE KeptInv'
  BY <1>1, <1>6, SettleKeeps
<1>7. ASSUME NEW d \in Ids, NEW outcome \in Outcomes, EndTurn(d, outcome) PROVE KeptInv'
  <2>1. /\ turn' = [turn EXCEPT ![d] = [turn[d] EXCEPT ![Len(turn[d])] = outcome]]
        /\ UNCHANGED <<daemon, starts, ready, bot, mail, unread, unreadMail, pending, phase,
                       rerun, activeDispatches, drainScheduled>>
        /\ outcome # "working" /\ turn \in [Ids -> Seq(TurnStatus)]
    BY <1>1, <1>7 DEF EndTurn, queue, TypeOK, MailboxAssumption
  <2>2. NoneStarts
    <3> SUFFICES ASSUME NEW e \in Ids, NEW i \in DOMAIN turn'[e], turn'[e][i] = "working"
                 PROVE  i \in DOMAIN turn[e] /\ turn[e][i] = "working"
      BY DEF NoneStarts
    <3>1. turn'[e] = turn[e] \/ turn'[e] = [turn[e] EXCEPT ![Len(turn[e])] = outcome]
      BY <2>1
    <3> QED BY <2>1, <3>1
  <2>3. (Running => Running') /\ \A a \in Agents : ready'[a] => ready[a] /\ Running'
    BY <2>1 DEF Running, KeptInv, DownForgets
  <2>4. /\ Addressed' /\ Awaited' /\ DownForgets' /\ ClaimableWaits' /\ QueueDrains'
        /\ DrainedStaysIdle'
    BY <1>1, <2>1, <2>2, <2>3, QuietKeeps
  <2>5. RetryInvisible'
    BY <2>1, RetryStays DEF KeptInv, RowsStay, Live
  <2> QED BY <2>4, <2>5 DEF KeptInv
<1>8. ASSUME NEW a \in Agents, BecomeReady(a) PROVE KeptInv'
  BY <1>1, <1>8, BecomeReadyKeeps
<1>9. ASSUME NEW a \in Agents, LoseReadiness(a) PROVE KeptInv'
  <2>1. /\ UNCHANGED <<daemon, bot, mail, turn, unread, unreadMail, pending, phase, rerun,
                       activeDispatches, drainScheduled>>
        /\ ready' = [ready EXCEPT ![a] = FALSE] /\ ready \in [Agents -> BOOLEAN]
    BY <1>1, <1>9 DEF LoseReadiness, durable, queue, TypeOK
  <2> QED BY <1>2, <2>1
<1>10. ASSUME NEW b \in Bots, ClearUnread(b) PROVE KeptInv'
  <2>1. UNCHANGED <<daemon, ready, bot, mail, turn, pending, phase, rerun, activeDispatches,
                    drainScheduled>>
    BY <1>10 DEF ClearUnread, queue
  <2>2. RetryInvisible'
    BY <1>1, <1>10, ClearUnreadKeeps
  <2> QED BY <1>2, <2>1, <2>2
<1>11. ASSUME NEW b \in Bots, ClaimDeletion(b) \/ DrainDeletion(b) \/ FailDeletion(b)
       PROVE  KeptInv'
  <2>1. UNCHANGED <<daemon, ready, mail, turn, unread, unreadMail, pending, phase, rerun,
                    activeDispatches, drainScheduled>>
    BY <1>11 DEF ClaimDeletion, DrainDeletion, FailDeletion, queue
  <2>2. \A x \in Bots : bot'[x] = "present" => bot[x] = "present"
    BY <1>1, <1>11 DEF TypeOK, ClaimDeletion, DrainDeletion, FailDeletion
  <2>3. \A x : Busy(x)' <=> Busy(x)
    BY <2>1 DEF Busy, MailTo, Live
  <2>4. \A x \in Bots : bot'[x] = "drained" => bot[x] = "drained" \/ ~Busy(x)
    BY <1>1, <1>11 DEF TypeOK, ClaimDeletion, DrainDeletion, FailDeletion
  <2> QED BY <1>2, <2>1, <2>2, <2>3, <2>4
<1>12. ASSUME NEW b \in Bots, CommitDeletion(b) PROVE KeptInv'
  BY <1>1, <1>12, CommitDeletionKeeps
<1>13. CASE Stop
  <2>1. /\ UNCHANGED <<ready, bot, mail, turn, unread, unreadMail, pending, phase, rerun,
                       activeDispatches, drainScheduled>>
        /\ Running /\ Running'
    BY <1>13 DEF Stop, durable, queue, Running
  <2>2. NoneStarts
    BY <2>1 DEF NoneStarts
  <2>3. /\ Addressed' /\ Awaited' /\ DownForgets' /\ ClaimableWaits' /\ QueueDrains'
        /\ DrainedStaysIdle'
    BY <1>1, <2>1, <2>2, QuietKeeps
  <2>4. RetryInvisible'
    BY <2>1, RetryStays DEF KeptInv, RowsStay, Live
  <2> QED BY <2>3, <2>4 DEF KeptInv
<1>14. CASE Down
  BY <1>1, <1>14, DownKeeps
<1>15. CASE RecoverOnStartup
  BY <1>1, <1>15, RecoverOnStartupKeeps
<1>16. CASE ReconcileStartup
  BY <1>1, <1>16, ReconcileStartupKeeps
<1>17. CASE UNCHANGED vars
  <2>1. UNCHANGED <<daemon, ready, bot, mail, turn, unread, unreadMail, pending, phase, rerun,
                    activeDispatches, drainScheduled>>
    BY <1>17 DEF vars, durable, queue
  <2> QED BY <1>2, <2>1
<1> QED BY <1>3, <1>4, <1>5, <1>6, <1>7, <1>8, <1>9, <1>10, <1>11, <1>12, <1>13, <1>14,
           <1>15, <1>16, <1>17 DEF Next

(* Mail is neither lost nor sent twice nor dispatched behind a deletion's  *)
(* back: mail that could be claimed waits with a drain coming, a drained   *)
(* Bot starts no Turn, and a repeated call makes no second exchange.       *)
THEOREM MailStaysKept == Spec => []MailIsKept
<1>1. Init => KeptInv
  BY KeptInit, MailboxAssumption
<1>2. MailboxIInv /\ KeptInv /\ [Next]_vars => KeptInv'
  BY KeptNext
<1>3. MailboxIInv /\ KeptInv => MailIsKept
  BY DEF MailboxIInv, MailboxInv, KeptInv, MailIsKept, NoLostDispatch, ClaimableWaits, Waits,
         QueueDrains
<1> QED BY <1>1, <1>2, <1>3, MailboxInvariant, PTL DEF Spec
=============================================================================
