----------------------------- MODULE MCAccessLog -----------------------------
(* Two goroutines log, one of them also blocked hosts, while one reader    *)
(* watches the stream.  A behaviour explores one of three things further   *)
(* than the others: the backend, the traffic ring once its slots are used  *)
(* again, or the stream with more entries than its channel holds.  In the  *)
(* last two the backend rests.                                             *)
EXTENDS AccessLog

CONSTANTS w1, w2

VARIABLE part

MCKinds == [w \in Workers |-> IF w = w1 THEN {"ok"} ELSE {"ok", "dns-block"}]

MCInit == Init /\ part \in {"backend", "ring", "stream"}

MCNext ==
    /\ Next /\ UNCHANGED part
    /\ part = "backend" => now' = 1 /\ UNCHANGED spc
    /\ part = "ring" => UNCHANGED <<backendVars, spc>>
    /\ part = "stream" => UNCHANGED <<backendVars, now>>

MCSpec == MCInit /\ [][MCNext]_<<vars, part>> /\ Fairness
==============================================================================
