------------------------ MODULE RelayerLifecycleProofs ------------------------
(***************************************************************************)
(* Theorems about RelayerLifecycle, for any number of launches and relays. *)
(***************************************************************************)
EXTENDS RelayerLifecycle, TLAPS

(***************************************************************************)
(* The inductive invariant.                                                *)
(***************************************************************************)

\* The goroutines of the loop and of the subscriber are there exactly while
\* startRelayer waits for the context.
GoroutinesTogether ==
    /\ main = "wait" <=> loop # "none"
    /\ main = "wait" <=> subscriber # "none"

\* The context of a process is cancelled by its own trap alone, once.
CancelledByTrap ==
    /\ ctx = "cancelled" => ~trap /\ main # "off"
    /\ main = "off" => ~trap /\ ~signal

\* The subscriber stops on cancellation alone, and the memory is set only
\* after a broadcast has succeeded.
StopsAfterCancel == subscriber = "stopped" => ctx = "cancelled"

TakenBeforeUpdate == loop = "update" \/ ready => taken > 0

\* A late relay is the last work of the loop: what is left of its tick is the
\* memory, and no further tick begins.
LateIsLast ==
    /\ late \in {0, 1}
    /\ late = 1 => ctx = "cancelled" /\ loop \in {"update", "select"}
    /\ late <= taken

IInv ==
    /\ TypeOK
    /\ GoroutinesTogether
    /\ CancelledByTrap
    /\ StopsAfterCancel
    /\ TakenBeforeUpdate
    /\ LateIsLast

LEMMA InitIInv == Init => IInv
<1>1. 0 \in 0 .. MaxLaunches /\ 0 \in 0 .. MaxRelays
    BY LifecycleAssumption
<1>2. Init => TypeOK
    BY <1>1, Zenon DEF Init, TypeOK
<1>3. Init => GoroutinesTogether /\ CancelledByTrap /\ StopsAfterCancel
    BY DEF Init, GoroutinesTogether, CancelledByTrap, StopsAfterCancel
<1>4. Init => TakenBeforeUpdate /\ LateIsLast
    BY DEF Init, TakenBeforeUpdate, LateIsLast
<1> QED
    BY <1>2, <1>3, <1>4 DEF IInv

\* An attempt, whichever it is, is made on behalf of one broadcast.
LEMMA AttemptKeepsIInv ==
    ASSUME IInv, loop \in {"broadcast", "retry"}, Attempts
    PROVE  IInv'
<1> USE LifecycleAssumption DEF IInv, TypeOK
<1>1. late = 0
    BY DEF LateIsLast
<1>2. UNCHANGED <<main, launches, signal, trap, ctx, subscriber, ready>> /\ height' = "old"
    BY DEF Attempts, loopOnly
<1>3. CASE Succeeds /\ loop' = "update"
    <2>1. taken' = taken + 1 /\ taken' \in 0 .. MaxRelays /\ taken' > 0
        BY <1>3 DEF Succeeds
    <2>2. late' \in {0, 1} /\ (late' = 1 => ctx = "cancelled")
        BY <1>1, <1>3 DEF Succeeds
    <2>3. late' <= taken' /\ late' \in 0 .. MaxRelays
        BY <2>1, <2>2
    <2>4. TypeOK'
        BY <1>2, <1>3, <2>1, <2>3
    <2> QED
        BY <1>2, <1>3, <2>1, <2>2, <2>3, <2>4
        DEF GoroutinesTogether, CancelledByTrap, StopsAfterCancel, TakenBeforeUpdate, LateIsLast
<1>4. CASE loop' \in {"retry", "select"} /\ UNCHANGED history
    BY <1>1, <1>2, <1>4
    DEF history, GoroutinesTogether, CancelledByTrap, StopsAfterCancel, TakenBeforeUpdate,
        LateIsLast
<1> QED
    BY <1>3, <1>4 DEF Attempts

LEMMA NextKeepsIInv == IInv /\ [Next]_vars => IInv'
<1> SUFFICES ASSUME IInv, [Next]_vars PROVE IInv'
    OBVIOUS
<1> USE LifecycleAssumption
    DEF IInv, TypeOK, GoroutinesTogether, CancelledByTrap, StopsAfterCancel,
        TakenBeforeUpdate, LateIsLast, history
<1>1. CASE Launch
    BY <1>1 DEF Launch
<1>2. CASE EnterPassword
    BY <1>2 DEF EnterPassword
<1>3. CASE Connect
    BY <1>3 DEF Connect
<1>4. CASE PromptFails \/ ConnectFails \/ WaitReturns
    <2>1. /\ main' = "off" /\ loop' = "none" /\ subscriber' = "none" /\ ctx' = "live"
          /\ signal' = FALSE /\ trap' = FALSE /\ ready' = FALSE /\ height' = "old"
          /\ taken' = 0 /\ late' = 0 /\ launches' = launches
        BY <1>4 DEF PromptFails, ConnectFails, WaitReturns, Exit
    <2>2. 0 \in 0 .. MaxRelays
        BY LifecycleAssumption
    <2>3. TypeOK'
        BY <2>1, <2>2, Zenon
    <2> QED
        BY <2>1, <2>3
<1>5. CASE Signal
    BY <1>5 DEF Signal
<1>6. CASE TrapSignal
    BY <1>6 DEF TrapSignal
<1>7. CASE BlockHeader \/ SubscriberStops
    BY <1>7 DEF BlockHeader, SubscriberStops, subscriberOnly
<1>8. CASE StartsTick
    BY <1>8 DEF StartsTick, loopOnly
<1>9. CASE Queries
    BY <1>9 DEF Queries, loopOnly
<1>10. CASE Broadcasts \/ Retries
    BY <1>10, AttemptKeepsIInv DEF Broadcasts, Retries
<1>11. CASE BroadcastFails
    BY <1>11 DEF BroadcastFails, loopOnly
<1>12. CASE Updates
    BY <1>12 DEF Updates, loopOnly
<1>13. CASE UNCHANGED vars
    BY <1>13 DEF vars
<1> QED
    BY <1>1, <1>2, <1>3, <1>4, <1>5, <1>6, <1>7, <1>8, <1>9, <1>10, <1>11, <1>12, <1>13
    DEF Next, MainStep, LoopStep

LEMMA Invariance == Spec => []IInv
BY InitIInv, NextKeepsIInv, PTL DEF Spec

(***************************************************************************)
(* The theorems.                                                           *)
(***************************************************************************)

\* Goroutines run only in a live process, and only a broadcast that succeeded
\* sets the memory (relayer.go:117-124), for any number of launches and relays.
THEOREM TypeCorrect == Spec => []TypeOK
<1>1. IInv => TypeOK
    BY DEF IInv
<1> QED
    BY Invariance, <1>1, PTL

\* After the cancellation at most one more batch is relayed: a tick under way
\* may still broadcast, but it returns once that has succeeded, and Start
\* begins no other (relayer.go:58-79, client.go:261-314).
THEOREM OneLateRelayAtMost == Spec => []AtMostOneLateRelay
<1>1. IInv => AtMostOneLateRelay
    BY DEF IInv, LateIsLast, AtMostOneLateRelay
<1> QED
    BY Invariance, <1>1, PTL

=============================================================================
