---------------------------- MODULE MCUserPorts ----------------------------
(* Instances of UserPorts for TLC: the values that a cfg cannot write.     *)
EXTENDS UserPorts, TLC

CONSTANTS alice, bob

\* One user on port 1.
OneUser == {alice}
OneInitPort == alice :> 1

\* Two users on ports 1 and 2.
TwoUsers == {alice, bob}
TwoInitPort == alice :> 1 @@ bob :> 2

\* Real listeners, the block page, the demo build.
Plain == [MITMEnabled |-> FALSE, DemoMode |-> FALSE]
PlainOnly == {Plain}
EveryConfig == {Plain, [Plain EXCEPT !.MITMEnabled = TRUE], [Plain EXCEPT !.DemoMode = TRUE]}

\* Only for runs that check invariants.
WorkerSymmetry == Permutations(Workers)

PauseOps == {"SetEnabled", "Override", "Now", "Schedule", "Shutdown"}
=============================================================================
