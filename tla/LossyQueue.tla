------------------------------ MODULE LossyQueue ------------------------------
(***************************************************************************)
(* What the program's hand-over channels promise, whatever their batching: *)
(* an accepted item is handed over at most once, is given up only while    *)
(* more than Capacity items are on their way or the receiver is down, and  *)
(* never stays on its way for ever.  The traffic counter (Tunnel) and the  *)
(* log's network backend (AccessLog) implement it.                         *)
(***************************************************************************)
EXTENDS Naturals, FiniteSets

CONSTANTS Items, Capacity

VARIABLES accepted, delivered, lost, down

vars == <<accepted, delivered, lost, down>>

OnTheWay == accepted \ (delivered \cup lost)

Init == accepted = {} /\ delivered = {} /\ lost = {} /\ down = FALSE

Accept(x) ==
    /\ x \notin accepted
    /\ accepted' = accepted \cup {x}
    /\ UNCHANGED <<delivered, lost, down>>

Deliver(S) ==
    /\ S \subseteq OnTheWay /\ S # {}
    /\ delivered' = delivered \cup S
    /\ UNCHANGED <<accepted, lost, down>>

\* Items are given up when there are too many, or with the receiver.
Lose(S) ==
    /\ S \subseteq OnTheWay /\ S # {}
    /\ down \/ Cardinality(OnTheWay) > Capacity
    /\ lost' = lost \cup S
    /\ UNCHANGED <<accepted, delivered, down>>

\* The receiver stops or fails, with what it was about to take.
GoDown(S) ==
    /\ S \subseteq OnTheWay
    /\ down' = TRUE
    /\ lost' = lost \cup S
    /\ UNCHANGED <<accepted, delivered>>

\* An item that comes while the receiver is down may be given up at once.
Refuse(x) ==
    /\ down /\ x \notin accepted
    /\ accepted' = accepted \cup {x} /\ lost' = lost \cup {x}
    /\ UNCHANGED <<delivered, down>>

\* The receiver is back.
Recover == down /\ down' = FALSE /\ UNCHANGED <<accepted, delivered, lost>>

Settle(x) == \E S \in SUBSET OnTheWay : x \in S /\ (Deliver(S) \/ Lose(S) \/ GoDown(S))

Next ==
    \/ \E x \in Items : Accept(x) \/ Refuse(x) \/ Settle(x)
    \/ GoDown({}) \/ Recover

Safety == Init /\ [][Next]_vars

Spec == Safety /\ \A x \in Items : WF_vars(Settle(x))
==============================================================================
