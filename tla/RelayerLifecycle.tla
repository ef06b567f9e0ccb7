-------------------------- MODULE RelayerLifecycle --------------------------
(***************************************************************************)
(* The relayer as a process (relayer/cmd/relayer.go with Start of          *)
(* relayer/relayer/relayer.go): start-up with its password prompt, the     *)
(* signal trap, the goroutines under one context, and the exit, which      *)
(* ends every goroutine wherever it stands.  A tick is reduced to the      *)
(* calls it waits in; module Relayer has its content.                      *)
(***************************************************************************)
EXTENDS Integers

CONSTANTS
    MaxLaunches,  \* bound on how often the process is started
    MaxRelays     \* bound on the relays counted in one life of the process

ASSUME LifecycleAssumption == MaxLaunches \in Nat /\ MaxRelays \in Nat

VARIABLES
    main,        \* the main goroutine
    launches,    \* starts so far
    signal,      \* a signal waits in sigCh
    trap,        \* the goroutine of trapSignal still listens
    ctx,         \* the context all goroutines share
    loop,        \* the goroutine of Start
    subscriber,  \* the goroutine of ChainHeight
    height,      \* the cached height against the one BroadcastTx checked last
    ready,       \* latestAssets is set
    taken,       \* history: broadcasts that succeeded in this life
    late         \* history: those that did so after the cancellation

history == <<taken, late>>
vars == <<main, launches, signal, trap, ctx, loop, subscriber, height, ready, history>>

Init ==
    /\ main = "off"
    /\ launches = 0
    /\ signal = FALSE
    /\ trap = FALSE
    /\ ctx = "live"
    /\ loop = "none"
    /\ subscriber = "none"
    /\ height = "old"
    /\ ready = FALSE
    /\ taken = 0
    /\ late = 0

(***************************************************************************)
(* The main goroutine: relayerCmdHandler and startRelayer.                 *)
(***************************************************************************)

\* The trap is set before the password is asked for; KEYRING_PASS skips the
\* prompt.
Launch ==
    /\ main = "off"
    /\ launches < MaxLaunches
    /\ launches' = launches + 1
    /\ main' \in {"prompt", "connect"}
    /\ trap' = TRUE
    /\ UNCHANGED <<signal, ctx, loop, subscriber, height, ready, history>>

EnterPassword ==
    /\ main = "prompt"
    /\ main' = "connect"
    /\ UNCHANGED <<launches, signal, trap, ctx, loop, subscriber, height, ready, history>>

\* NewRelayerClient starts the subscriber; startRelayer the loop.
Connect ==
    /\ main = "connect"
    /\ main' = "wait"
    /\ loop' = "select"
    /\ subscriber' = "running"
    /\ UNCHANGED <<launches, signal, trap, ctx, height, ready, history>>

Exit ==
    /\ main' = "off"
    /\ signal' = FALSE
    /\ trap' = FALSE
    /\ ctx' = "live"
    /\ loop' = "none"
    /\ subscriber' = "none"
    /\ height' = "old"
    /\ ready' = FALSE
    /\ taken' = 0
    /\ late' = 0
    /\ UNCHANGED launches

PromptFails == main = "prompt" /\ Exit

ConnectFails == main = "connect" /\ Exit

\* A variant a mistake in startRelayer would give: it waits for Start.
WaitsForStart ==
    /\ main = "wait"
    /\ ctx = "cancelled"
    /\ loop = "none"
    /\ Exit

\* startRelayer returns on the context alone; it does not wait for Start.
WaitReturns ==
    /\ main = "wait"
    /\ ctx = "cancelled"
    /\ Exit

MainStep == Connect \/ ConnectFails \/ WaitReturns

(***************************************************************************)
(* Signals.                                                                *)
(***************************************************************************)
Signal ==
    /\ main # "off"
    /\ ~signal
    /\ signal' = TRUE
    /\ UNCHANGED <<main, launches, trap, ctx, loop, subscriber, height, ready, history>>

TrapSignal ==
    /\ trap
    /\ signal
    /\ signal' = FALSE
    /\ trap' = FALSE
    /\ ctx' = "cancelled"
    /\ UNCHANGED <<main, launches, loop, subscriber, height, ready, history>>

(***************************************************************************)
(* The subscriber.  A header is a new height or, when it is garbled, an    *)
(* error; so is an Unsubscribe that fails.                                 *)
(***************************************************************************)
subscriberOnly == <<main, launches, signal, trap, ctx, loop, ready, history>>

BlockHeader ==
    /\ subscriber = "running"
    /\ height' \in {"new", "error"}
    /\ UNCHANGED <<subscriberOnly, subscriber>>

SubscriberStops ==
    /\ subscriber = "running"
    /\ ctx = "cancelled"
    /\ subscriber' = "stopped"
    /\ height' \in {height, "error"}
    /\ UNCHANGED subscriberOnly

(***************************************************************************)
(* The loop of Start and its tick.                                         *)
(***************************************************************************)
loopOnly == <<main, launches, signal, trap, ctx, subscriber>>

\* The default branch is taken only while the context is live; afterwards the
\* loop closes the closer over and over and never returns.
StartsTick ==
    /\ loop = "select"
    /\ ctx = "live"
    /\ loop' = "query"
    /\ UNCHANGED <<loopOnly, height, ready, history>>

\* Prices carry the context and fail once it is cancelled.  The first tick
\* asks for prices; a later one need not, when every heartbeat is due.
Queries ==
    /\ loop = "query"
    /\ \/ loop' = "select"
       \/ (ctx = "live" \/ ready) /\ loop' = "broadcast"
    /\ UNCHANGED <<loopOnly, height, ready, history>>

\* An attempt that ends the call: the node's answer is there.  It counts as
\* late when the context has been cancelled.
Succeeds ==
    /\ taken < MaxRelays
    /\ taken' = taken + 1
    /\ late' = IF ctx = "cancelled" THEN late + 1 ELSE late

\* Variants mistakes in BroadcastTx and init would give: an attempt that goes
\* on after success, and a memory set ahead of the relay.
GoesOn ==
    /\ height' = "old"
    /\ loop' \in {"retry", "select"}
    /\ Succeeds \/ UNCHANGED history
    /\ UNCHANGED <<loopOnly, ready>>

ReadyBeforeRelay ==
    /\ height' = "old"
    /\ ready' = TRUE
    /\ \/ Succeeds /\ loop' = "update"
       \/ loop' \in {"retry", "select"} /\ UNCHANGED history
    /\ UNCHANGED loopOnly

\* BroadcastTx does not carry the context.  An attempt that fails, or whose
\* answer is lost, is repeated or was the last in its window.
Attempts ==
    /\ height' = "old"
    /\ \/ Succeeds /\ loop' = "update"
       \/ loop' \in {"retry", "select"} /\ UNCHANGED history
    /\ UNCHANGED <<loopOnly, ready>>

Broadcasts ==
    /\ loop = "broadcast"
    /\ height # "error"
    /\ Attempts

\* The next attempt waits for a height.  One may be cached already, but a
\* stopped subscriber delivers no other; the loop then spins here.
Retries ==
    /\ loop = "retry"
    /\ height = "new"
    /\ Attempts

\* An error of the height ends the call, as any error ahead of the first
\* attempt does.
BroadcastFails ==
    /\ \/ loop = "broadcast"
       \/ loop = "retry" /\ height = "error"
    /\ loop' = "select"
    /\ UNCHANGED <<loopOnly, height, ready, history>>

Updates ==
    /\ loop = "update"
    /\ ready' = TRUE
    /\ loop' = "select"
    /\ UNCHANGED <<loopOnly, height, history>>

LoopStep ==
    \/ StartsTick
    \/ Queries
    \/ Broadcasts
    \/ Retries
    \/ BroadcastFails
    \/ Updates

Next ==
    \/ Launch
    \/ EnterPassword
    \/ PromptFails
    \/ MainStep
    \/ Signal
    \/ TrapSignal
    \/ BlockHeader
    \/ SubscriberStops
    \/ LoopStep

Spec == Init /\ [][Next]_vars

\* The goroutines are scheduled; whether anyone types a password or sends a
\* signal is up to them.
Fairness ==
    /\ WF_vars(MainStep)
    /\ WF_vars(TrapSignal)
    /\ WF_vars(SubscriberStops)
    /\ WF_vars(LoopStep)

FairSpec == Spec /\ Fairness

\* The same, where every prompt is answered.
AnsweredSpec == FairSpec /\ WF_vars(EnterPassword)

(***************************************************************************)
(* Properties.                                                             *)
(***************************************************************************)

\* Every variable stays in its type; goroutines run only in a live process,
\* and only a broadcast that succeeded sets the memory.
TypeOK ==
    /\ main \in {"off", "prompt", "connect", "wait"}
    /\ launches \in 0 .. MaxLaunches
    /\ signal \in BOOLEAN
    /\ trap \in BOOLEAN
    /\ ctx \in {"live", "cancelled"}
    /\ loop \in {"none", "select", "query", "broadcast", "retry", "update"}
    /\ subscriber \in {"none", "running", "stopped"}
    /\ height \in {"old", "new", "error"}
    /\ ready \in BOOLEAN
    /\ late \in 0 .. MaxRelays
    /\ taken \in 0 .. MaxRelays
    /\ main = "off" => loop = "none" /\ subscriber = "none" /\ ctx = "live"
    /\ ready => taken > 0

\* After the cancellation at most one more batch is relayed, the one whose tick
\* was under way, although neither BroadcastTx nor a due heartbeat looks at the
\* context and the goroutine of Start never returns (relayer.go:58-79).
AtMostOneLateRelay == late <= 1

\* A signal ends the process, even while BroadcastTx spins for a height the
\* stopped subscriber never delivers, as long as a prompt is answered.
SignalEndsProcess == signal /\ trap ~> main = "off"

\* cmd/relayer.go:141-142: the main process blocks "until all spawned
\* goroutines have gracefully exited", so none is in the middle of a tick.
ExitBetweenTicks ==
    [][main = "wait" /\ main' = "off" => loop = "select"]_vars

=============================================================================
