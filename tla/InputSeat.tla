----------------------------- MODULE InputSeat -----------------------------
(***************************************************************************)
(* The one input seat that all Bot Screens share (swayBotScreenRuntime.ts):*)
(* #acquireInputLease, #releaseInputLease and what runs under the lease,   *)
(* together with the operation queue of each Surface (botScreenManager.ts).*)
(*                                                                         *)
(* The lease is granted in the order it was asked for. A human keeps it    *)
(* from setInputAuthority to releaseInput; the Bot has it for one action.  *)
(* A runtime that fails gives it up while an action of that runtime may    *)
(* still be at work: such an action is stale.                              *)
(***************************************************************************)
EXTENDS Naturals, Sequences, FiniteSets

CONSTANTS Surfaces, NoSurface,
          MaxQueued,   \* operations waiting in the queue of one Surface
          MaxFailures  \* runtimes that fail

ASSUME SeatAssumption == /\ NoSurface \notin Surfaces
                         /\ MaxQueued \in Nat \ {0}
                         /\ MaxFailures \in Nat

VARIABLES queued,    \* per Surface, the operations of the manager's queue, the head first
          at,        \* where the head stands: "idle", "waiting" for the lease or "inside"
          acquired,  \* the head got the lease itself, so it gives it back
          stale,     \* the head belongs to a runtime that failed
          live,      \* the Surface has a runtime
          stopping,  \* the failed runtime is still being stopped
          human,     \* a controller has authority at the runtime
          leaseLine, \* who holds the lease or waits for it (#inputTail)
          leaseOwner,\* #inputLeaseOwner
          failures

seatVars == <<queued, at, acquired, stale, live, stopping, human, leaseLine, leaseOwner, failures>>

SeatTypeOK == /\ queued \in [Surfaces -> Seq({"act", "claim", "release", "stop"})]
              /\ at \in [Surfaces -> {"idle", "waiting", "inside"}]
              /\ \A f \in {acquired, stale, live, stopping, human} : f \in [Surfaces -> BOOLEAN]
              /\ leaseLine \in Seq(Surfaces)
              /\ leaseOwner \in Surfaces \cup {NoSurface}
              /\ failures \in 0..MaxFailures

SeatInit == /\ queued = [s \in Surfaces |-> <<>>]
            /\ at = [s \in Surfaces |-> "idle"]
            /\ live = [s \in Surfaces |-> TRUE]
            /\ acquired = [s \in Surfaces |-> FALSE]
            /\ stale = acquired /\ stopping = acquired /\ human = acquired
            /\ leaseLine = <<>>
            /\ leaseOwner = NoSurface
            /\ failures = 0

-----------------------------------------------------------------------------
HeadIs(s, op) == queued[s] # <<>> /\ Head(queued[s]) = op

\* Mutant: whoever releases takes the lease from its owner.
LeaseTakenAway(s, cond) ==
  IF cond /\ leaseOwner # NoSurface
    THEN leaseOwner' = NoSurface /\ leaseLine' = Tail(leaseLine)
    ELSE UNCHANGED <<leaseOwner, leaseLine>>

\* #releaseInputLease: only the Surface that owns the lease gives it up.
LeaseGivenUp(s, cond) ==
  IF cond /\ leaseOwner = s
    THEN leaseOwner' = NoSurface /\ leaseLine' = Tail(leaseLine)
    ELSE UNCHANGED <<leaseOwner, leaseLine>>

\* #serialize: the head is over, the next operation may begin.
HeadOver(s) == /\ queued' = [queued EXCEPT ![s] = Tail(@)]
               /\ at' = [at EXCEPT ![s] = "idle"]
               /\ stale' = [stale EXCEPT ![s] = FALSE]
               /\ acquired' = [acquired EXCEPT ![s] = FALSE]

\* A call or a viewer puts an operation behind those of its Surface. The projection claims
\* again only after it asked for the release, and never releases twice.
Enqueue(s, op) ==
  /\ Len(queued[s]) < MaxQueued
  /\ LET last(o) == \E i \in DOMAIN queued[s] : /\ queued[s][i] = o
                                               /\ \A j \in (i + 1)..Len(queued[s]) :
                                                    queued[s][j] \notin {"claim", "release"}
         none == \A i \in DOMAIN queued[s] : queued[s][i] \notin {"claim", "release"}
     IN /\ op = "claim" => last("release") \/ (none /\ ~human[s])
        /\ op = "release" => last("claim") \/ (none /\ human[s])
  /\ queued' = [queued EXCEPT ![s] = Append(@, op)]
  /\ UNCHANGED <<at, acquired, stale, live, stopping, human, leaseLine, leaseOwner, failures>>

\* act (#withInputLease) or setInputAuthority asks for the lease; its own Surface's lease is
\* shared with it. Without a runtime the operation is refused.
AskLease(s) ==
  /\ at[s] = "idle" /\ (HeadIs(s, "act") \/ HeadIs(s, "claim"))
  /\ IF ~live[s]
       THEN HeadOver(s) /\ UNCHANGED leaseLine
     ELSE IF leaseOwner = s
       THEN at' = [at EXCEPT ![s] = "inside"] /\ UNCHANGED <<queued, stale, acquired, leaseLine>>
     ELSE /\ at' = [at EXCEPT ![s] = "waiting"]
          /\ leaseLine' = Append(leaseLine, s)
          /\ UNCHANGED <<queued, stale, acquired>>
  /\ UNCHANGED <<live, stopping, human, leaseOwner, failures>>

\* The await of #acquireInputLease ends: those before it in line gave the lease up.
LeaseGranted(s) ==
  /\ leaseOwner = NoSurface /\ leaseLine # <<>> /\ Head(leaseLine) = s
  /\ leaseOwner' = s
  /\ at' = [at EXCEPT ![s] = "inside"]
  /\ acquired' = [acquired EXCEPT ![s] = TRUE]
  /\ UNCHANGED <<queued, stale, live, stopping, human, leaseLine, failures>>

\* Mutant: an action whose runtime failed does not give the lease back.
StaleActionKeeps(s) ==
  /\ at[s] = "inside" /\ HeadIs(s, "act")
  /\ HeadOver(s)
  /\ LeaseGivenUp(s, acquired[s] /\ ~stale[s])
  /\ UNCHANGED <<live, stopping, human, failures>>

\* The action under the lease ends, well or not.
ActionEnds(s) ==
  /\ at[s] = "inside" /\ HeadIs(s, "act")
  /\ HeadOver(s)
  /\ LeaseGivenUp(s, acquired[s])
  /\ UNCHANGED <<live, stopping, human, failures>>

\* setInputAuthority ends. On success the human keeps the lease; an error fails the runtime
\* (#invoke), and a runtime that is gone cannot give authority.
AuthorityEnds(s) ==
  /\ at[s] = "inside" /\ HeadIs(s, "claim")
  /\ HeadOver(s)
  /\ \/ /\ live[s] /\ ~stale[s]
        /\ human' = [human EXCEPT ![s] = TRUE]
        /\ UNCHANGED <<leaseOwner, leaseLine, live, stopping, failures>>
     \/ /\ stale[s]
        /\ LeaseGivenUp(s, acquired[s])
        /\ UNCHANGED <<human, live, stopping, failures>>
     \/ /\ live[s] /\ ~stale[s] /\ failures < MaxFailures
        /\ failures' = failures + 1
        /\ live' = [live EXCEPT ![s] = FALSE]
        /\ stopping' = [stopping EXCEPT ![s] = TRUE]
        /\ human' = [human EXCEPT ![s] = FALSE]
        /\ LeaseGivenUp(s, TRUE)

\* releaseInput: held keys go up and the lease is given up, whatever the helper answers.
ReleaseInput(s) ==
  /\ at[s] = "idle" /\ HeadIs(s, "release")
  /\ HeadOver(s)
  /\ human' = [human EXCEPT ![s] = FALSE]
  /\ LeaseGivenUp(s, live[s])
  /\ UNCHANGED <<live, stopping, failures>>

\* #stopSurface in the queue: the runtime releases its input, then stops.
StopSurface(s) ==
  /\ at[s] = "idle" /\ HeadIs(s, "stop")
  /\ HeadOver(s)
  /\ live' = [live EXCEPT ![s] = FALSE]
  /\ human' = [human EXCEPT ![s] = FALSE]
  /\ LeaseGivenUp(s, TRUE)
  /\ UNCHANGED <<stopping, failures>>

\* A process of the Surface exits: #failRuntime works outside the queue. It releases the input
\* while the head of the queue may be inside, or wait for the lease.
RuntimeFails(s) ==
  /\ live[s] /\ failures < MaxFailures
  /\ failures' = failures + 1
  /\ live' = [live EXCEPT ![s] = FALSE]
  /\ stopping' = [stopping EXCEPT ![s] = TRUE]
  /\ human' = [human EXCEPT ![s] = FALSE]
  /\ stale' = [stale EXCEPT ![s] = at[s] # "idle"]
  /\ LeaseGivenUp(s, TRUE)
  /\ UNCHANGED <<queued, at, acquired>>

\* #stopSession and cleanupSurface release the lease once more.
RuntimeStopped(s) ==
  /\ stopping[s]
  /\ stopping' = [stopping EXCEPT ![s] = FALSE]
  /\ LeaseGivenUp(s, TRUE)
  /\ UNCHANGED <<queued, at, acquired, stale, live, human, failures>>

\* open() starts a runtime after the stopped one; it does not wait for the queue.
StartSurface(s) ==
  /\ ~live[s] /\ ~stopping[s]
  /\ live' = [live EXCEPT ![s] = TRUE]
  /\ UNCHANGED <<queued, at, acquired, stale, stopping, human, leaseLine, leaseOwner, failures>>

-----------------------------------------------------------------------------
Progress(s) == \/ AskLease(s) \/ LeaseGranted(s) \/ ActionEnds(s) \/ AuthorityEnds(s)
               \/ ReleaseInput(s) \/ StopSurface(s) \/ RuntimeStopped(s)

SeatNext == \E s \in Surfaces :
              \/ \E op \in {"act", "claim", "release", "stop"} : Enqueue(s, op)
              \/ Progress(s)
              \/ RuntimeFails(s)
              \/ StartSurface(s)

\* Operations under the lease are bounded by timers; nothing is assumed of viewers, Agents,
\* failures or starts.
SeatSpec == SeatInit /\ [][SeatNext]_seatVars /\ \A s \in Surfaces : WF_seatVars(Progress(s))

-----------------------------------------------------------------------------
(* Properties. *)

\* A human in control of a Screen owns the seat, and whatever of a running Surface is inside
\* does: its input goes to its own workspace.
SeatIsOwned ==
  /\ SeatTypeOK
  /\ \A s \in Surfaces : /\ human[s] => live[s] /\ leaseOwner = s
                         /\ at[s] = "inside" /\ ~stale[s] => leaseOwner = s

\* An operation that waits for the seat gets it, provided no human of another Surface keeps it.
SeatIsReached == \A s \in Surfaces :
                   (\A t \in Surfaces \ {s} : []<>~human[t])
                     => (at[s] = "waiting" ~> at[s] # "waiting")

\* What ADR 0009 says of actions: they are atomic under the lease, no two are inside at once.
ActionsAreAtomic == Cardinality({s \in Surfaces : at[s] = "inside"}) <= 1
=============================================================================
