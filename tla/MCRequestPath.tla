---------------------------- MODULE MCRequestPath ----------------------------
(* Two connections at a time from one address.  The run of every property  *)
(* asks two questions side by side: what a pause does to requests on one   *)
(* port, and what sessions and a password change do to requests on two.    *)
EXTENDS RequestPath

CONSTANTS alice, bob, site, push, i1

VARIABLE part

Req(port, cred, host, kind) ==
    [ip |-> i1, port |-> port, cred |-> cred, host |-> host, kind |-> kind]

\* Requests on alice's port to every kind of host; on bob's, CONNECTs to one
\* host, with anybody's credentials or none.
MCOffered ==
    {Req(alice, cred, site, kind) : cred \in {alice, None}, kind \in Kinds}
        \cup {Req(alice, alice, host, "connect") : host \in Hosts}
        \cup {Req(alice, "bad", site, "forward")}
        \cup {Req(bob, cred, site, "connect") : cred \in {alice, bob, None}}

\* alice is paused in every way; bob's password changes.
MCChanges == {<<alice, r>> : r \in Reasons} \cup {<<bob, "known">>}

MCOfferedAlone == {r \in Request : r.port = alice}

MCPausedAlone == {<<alice, "disabled">>}

MCInit == Init /\ part \in {"pauses", "ports"}

MCNext ==
    /\ Next /\ UNCHANGED part
    /\ part = "pauses" => \A w \in Workers : wreq'[w] = None \/ wreq'[w].port = alice
    /\ part = "pauses" => known' = Users
    /\ part = "ports" => paused' = {}

MCSpec == MCInit /\ [][MCNext]_<<vars, part>> /\ Fairness
=============================================================================
