---------------------------- MODULE PriceOracle ----------------------------
(***************************************************************************)
(* What the Ojo contract promises its readers, with the message network,   *)
(* the express path, the callbacks and the reverts hidden.  A command is   *)
(* asked once, with a stamp for each of its assets, and lands at most      *)
(* once; a landing replaces the prices of those assets whose stamps are    *)
(* still in time, each by a price with its stamp, and no other price.      *)
(***************************************************************************)
EXTENDS Integers

CONSTANTS
    Commands,   \* identities of the price commands
    Assets,     \* asset names
    Prices,     \* prices a command may carry
    Windows,    \* values of the resolve window
    StartTime,  \* time of the first block
    MaxTime,    \* bound on the clock
    MaxSkew     \* how far a stamp may lie from the clock that receives it

VARIABLES
    now,            \* block timestamp
    resolveWindow,  \* how old an accepted price may be
    asked,          \* command -> whether it is sent, and its assets' stamps
    landed,         \* commands that have taken effect
    priceData       \* asset -> stored price and its stamp

vars == <<now, resolveWindow, asked, landed, priceData>>

NotAsked == [sent |-> FALSE, stamps |-> [a \in {} |-> 0]]

NoPriceData == [price |-> 0, resolveTime |-> 0]

Init ==
    /\ now = StartTime
    /\ resolveWindow \in Windows
    /\ asked = [c \in Commands |-> NotAsked]
    /\ landed = {}
    /\ priceData = [a \in Assets |-> NoPriceData]

Tick ==
    /\ now < MaxTime
    /\ now' = now + 1
    /\ UNCHANGED <<resolveWindow, asked, landed, priceData>>

SetWindow ==
    /\ resolveWindow' \in Windows
    /\ UNCHANGED <<now, asked, landed, priceData>>

\* A command is asked for, with stamps from a clock at most MaxSkew ahead.
Ask(c) ==
    /\ asked[c] = NotAsked
    /\ \E names \in SUBSET Assets : \E stamps \in [names -> 0 .. now + MaxSkew] :
          asked' = [asked EXCEPT ![c] = [sent |-> TRUE, stamps |-> stamps]]
    /\ UNCHANGED <<now, resolveWindow, landed, priceData>>

InTime(stamp) == stamp + resolveWindow > now

Land(c) ==
    /\ asked[c].sent
    /\ c \notin landed
    /\ landed' = landed \cup {c}
    /\ LET stamps == asked[c].stamps
       IN  \E price \in [DOMAIN stamps -> Prices] :
               priceData' = [a \in Assets |->
                   IF a \in DOMAIN stamps /\ InTime(stamps[a])
                   THEN [price |-> price[a], resolveTime |-> stamps[a]]
                   ELSE priceData[a]]
    /\ UNCHANGED <<now, resolveWindow, asked>>

Next ==
    \/ Tick
    \/ SetWindow
    \/ \E c \in Commands : Ask(c) \/ Land(c)

Spec == Init /\ [][Next]_vars

=============================================================================
