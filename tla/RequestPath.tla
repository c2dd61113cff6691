----------------------------- MODULE RequestPath -----------------------------
(***************************************************************************)
(* What one proxied request goes through (pkg/proxy handler.go, connect.go *)
(* and forward.go): the rate limit, authentication with its 407 retry on   *)
(* the same connection and its per-address sessions, the pause check, the  *)
(* ACL and the dial.                                                       *)
(*                                                                         *)
(* Every port belongs to a user, so a port is named by its owner.  A       *)
(* request's credentials are None, "bad", or the user they are right for   *)
(* as long as that user's password is current.                             *)
(***************************************************************************)
EXTENDS Integers, FiniteSets

CONSTANTS
    Users, IPs, Workers,
    Hosts,
    Passthrough,  \* hosts a paused user still reaches when MITM is on (external data)
    Denied,       \* hosts acl.Allow refuses
    MITMEnabled,
    SessionTTL,   \* authSessionTTL, in ticks
    Limit,        \* AUTH_FAIL_RATE_LIMIT
    Kinds,        \* request methods: "connect", "forward"
    Changes,      \* pairs of a user and what changes: a reason for a pause, or "known"
    Offered,      \* the requests clients send first on a connection
    None

\* Why a user is paused: by an admin, by downtime for some time, by the weekly
\* schedule (no override being in force).
Reasons == {"disabled", "until", "schedule"}

ASSUME RequestAssumption ==
    /\ Passthrough \subseteq Hosts /\ Denied \subseteq Hosts
    /\ MITMEnabled \in BOOLEAN /\ SessionTTL \in Nat \ {0} /\ Limit \in Nat \ {0}
    /\ Kinds \subseteq {"connect", "forward"} /\ Changes \subseteq Users \X (Reasons \cup {"known"})
    /\ None \notin Users \cup Hosts \cup IPs /\ "bad" \notin Users

VARIABLES
    known,     \* users whose present credentials userdb accepts
    paused,    \* pairs of a user and a reason the user is paused for
    authSessions,   \* by address and port owner: the user and the ticks left
    failures,  \* the limiter's failures inside the window, per address
    wpc, wreq, wuser, \* per connection: program counter, request, authenticated user
    gap,       \* history: ticks since the address was last accepted as the user
    held       \* history: pairs of a connection and a reason that has held for its
               \* port's owner since it arrived

vars == <<known, paused, authSessions, failures, wpc, wreq, wuser, gap, held>>

\* The keys of authSessions; the owner None stands for the empty string.
Keys == IPs \X (Users \cup {None})

Creds == Users \cup {None, "bad"}

Request == [ip : IPs, port : Users, cred : Creds, host : Hosts, kind : Kinds]

ASSUME OfferedAssumption == Offered \subseteq Request

Never == SessionTTL + 1

TypeOK ==
    /\ known \subseteq Users /\ paused \subseteq Users \X Reasons
    /\ authSessions \in [Keys -> [user : Users, left : 0..SessionTTL] \cup {None}]
    /\ failures \in [IPs -> 0..(Limit + Cardinality(Workers))]
    /\ wpc \in [Workers -> {"idle", "check", "retry", "record", "dial", "tunnel"} \cup Reasons]
    /\ wreq \in [Workers -> Request \cup {None}]
    /\ wuser \in [Workers -> Users \cup {None}]
    /\ gap \in [IPs \X Users -> 0..Never] /\ held \subseteq Workers \X Reasons

Init ==
    /\ known = Users /\ paused = {}
    /\ authSessions = [k \in Keys |-> None]
    /\ failures = [ip \in IPs |-> 0]
    /\ wpc = [w \in Workers |-> "idle"]
    /\ wreq = [w \in Workers |-> None] /\ wuser = [w \in Workers |-> None]
    /\ gap = [k \in IPs \X Users |-> Never] /\ held = {}

Goto(w, l) == wpc' = [wpc EXCEPT ![w] = l] /\ UNCHANGED held

\* The response is written and the connection closed.
Finish(w) ==
    /\ wpc' = [wpc EXCEPT ![w] = "idle"]
    /\ wreq' = [wreq EXCEPT ![w] = None]
    /\ wuser' = [wuser EXCEPT ![w] = None]
    /\ held' = {h \in held : h[1] # w}

RecordFailure(ip) == failures' = [failures EXCEPT ![ip] = @ + 1]

-----------------------------------------------------------------------------
(* Authentication.                                                         *)

\* The reasons that concern a request: handleForward asks about downtime only, and so
\* does handleConnect without MITM, when a disabled user's port is not bound.
Concern(req) ==
    IF MITMEnabled /\ req.kind = "connect" THEN Reasons ELSE {"until", "schedule"}

\* limiter.Allow; a refused request is answered 407 and leaves no trace.
Arrive(w, req) ==
    /\ wpc[w] = "idle" /\ failures[req.ip] < Limit
    /\ wreq' = [wreq EXCEPT ![w] = req]
    /\ wpc' = [wpc EXCEPT ![w] = "check"]
    /\ held' = held \cup {<<w, r>> : r \in {q \in Concern(req) : <<req.port, q>> \in paused}}
    /\ UNCHANGED <<known, paused, authSessions, failures, wuser, gap>>

\* Fault: a session is kept for the address, whatever the port.
KeyOfAddress(ip, portUser) == <<ip, None>>

authCacheKey(ip, portUser) == <<ip, portUser>>

\* Fault: an entry the cleanup has not reached yet still counts.
SessionInMap(ip, portUser) ==
    LET s == authSessions[authCacheKey(ip, portUser)] IN
    IF s = None THEN None ELSE s.user

checkAuthSession(ip, portUser) ==
    LET s == authSessions[authCacheKey(ip, portUser)] IN
    IF s = None \/ s.left = 0 THEN None ELSE s.user

\* users.Check, and the port owner compared with the user it names.
Passes(cred, portUser) == cred \in known /\ cred = portUser

\* The user a first request is accepted as, or None.
Authenticate(req) ==
    IF Passes(req.cred, req.port) THEN req.cred
    ELSE IF req.cred = None THEN checkAuthSession(req.ip, req.port) ELSE None

\* The first authentication.  A CONNECT is challenged and may retry on the
\* connection; a plain request is answered 407, a failure if it had credentials.
CheckAuth(w) ==
    LET req == wreq[w]
        user == Authenticate(req) IN
    /\ wpc[w] = "check"
    /\ IF user # None
         THEN /\ wuser' = [wuser EXCEPT ![w] = user]
              /\ Goto(w, "record")
              /\ UNCHANGED <<wreq, failures>>
       ELSE IF req.kind = "connect"
         THEN Goto(w, "retry") /\ UNCHANGED <<wreq, wuser, failures>>
       ELSE /\ IF req.cred # None THEN RecordFailure(req.ip) ELSE UNCHANGED failures
            /\ Finish(w)
    /\ UNCHANGED <<known, paused, authSessions, gap>>

\* No second request within AuthRetryTimeout, or a broken one.
RetryReadFails(w) ==
    /\ wpc[w] = "retry"
    /\ IF wreq[w].cred # None THEN RecordFailure(wreq[w].ip) ELSE UNCHANGED failures
    /\ Finish(w)
    /\ UNCHANGED <<known, paused, authSessions, gap>>

\* The second request names the host anew; sessions are not asked again.
Retry(w, cred, host) ==
    LET req == [wreq[w] EXCEPT !.cred = cred, !.host = host] IN
    /\ wpc[w] = "retry"
    /\ IF Passes(cred, req.port)
         THEN /\ wreq' = [wreq EXCEPT ![w] = req]
              /\ wuser' = [wuser EXCEPT ![w] = cred]
              /\ Goto(w, "record")
              /\ UNCHANGED failures
         ELSE RecordFailure(req.ip) /\ Finish(w)
    /\ UNCHANGED <<known, paused, authSessions, gap>>

\* blockReason asks about the admin's pause with MITM only, handleForward never.
FirstAsked(req) == IF MITMEnabled /\ req.kind = "connect" THEN "disabled" ELSE "until"

\* Every accepted request renews the session, one without credentials too.
recordAuthSuccess(w) ==
    /\ wpc[w] = "record"
    /\ authSessions' = [authSessions EXCEPT ![authCacheKey(wreq[w].ip, wuser[w])] =
                          [user |-> wuser[w], left |-> SessionTTL]]
    /\ gap' = [gap EXCEPT ![<<wreq[w].ip, wuser[w]>>] = 0]
    /\ Goto(w, FirstAsked(wreq[w]))
    /\ UNCHANGED <<known, paused, failures, wreq, wuser>>

-----------------------------------------------------------------------------
(* The pause check and what follows.                                       *)

(* The program counter names the reason asked about next.                  *)

\* Fault: the block page is only for a request that got in by a session.
BlockSessionsOnly(w) ==
    IF wreq[w].cred # None THEN Goto(w, "dial") /\ UNCHANGED <<wreq, wuser>> ELSE Finish(w)

\* The block page, 403, or a tunnel after all.
serveBlocked(w) ==
    IF MITMEnabled /\ wreq[w].host \in Passthrough
      THEN Goto(w, "dial") /\ UNCHANGED <<wreq, wuser>>
      ELSE Finish(w)

\* A paused user's request: handleForward answers every one 403.
Blocked(w) == IF wreq[w].kind = "connect" THEN serveBlocked(w) ELSE Finish(w)

\* One read of one reason: the request is blocked or goes on to label l.
Ask(w, reason, l) ==
    /\ wpc[w] = reason
    /\ IF <<wuser[w], reason>> \in paused THEN Blocked(w)
       ELSE Goto(w, l) /\ UNCHANGED <<wreq, wuser>>
    /\ UNCHANGED <<known, paused, authSessions, failures, gap>>

\* Fault: an admin's pause is not a reason.
DowntimeOnly(w) ==
    /\ wpc[w] = "disabled" /\ Goto(w, "until")
    /\ UNCHANGED <<known, paused, authSessions, failures, wreq, wuser, gap>>

\* blockReason asks IsEnabled and then IsInDowntime, reading caches that change in between.
IsEnabled(w) == Ask(w, "disabled", "until")

\* IsInDowntime asks for the time an admin has set, and then for the schedule.
GetDowntimeUntil(w) == Ask(w, "until", "schedule")

InSchedule(w) == Ask(w, "schedule", "dial")

\* The ACL, then an exchange with the target that may fail.
Reach(w) ==
    \/ wreq[w].host \notin Denied /\ Goto(w, "tunnel") /\ UNCHANGED <<wreq, wuser>>
    \/ Finish(w)

\* connectTunnel up to the 200 that opens the tunnel.
Dial(w) ==
    /\ wpc[w] = "dial" /\ wreq[w].kind = "connect"
    /\ Reach(w)
    /\ UNCHANGED <<known, paused, authSessions, failures, gap>>

\* The second half of handleForward, up to the response's header.
RoundTrip(w) ==
    /\ wpc[w] = "dial" /\ wreq[w].kind = "forward"
    /\ Reach(w)
    /\ UNCHANGED <<known, paused, authSessions, failures, gap>>

\* Both directions, or the response, are copied to the end.
Close(w) ==
    /\ wpc[w] = "tunnel"
    /\ Finish(w)
    /\ UNCHANGED <<known, paused, authSessions, failures, gap>>

-----------------------------------------------------------------------------
(* The clock, the cleanup goroutine and the admin.                         *)

Ended(s) == s = None \/ s.left = 0

Tick ==
    /\ authSessions' = [k \in Keys |-> IF Ended(authSessions[k]) THEN authSessions[k]
                                       ELSE [authSessions[k] EXCEPT !.left = @ - 1]]
    /\ gap' = [k \in IPs \X Users |-> IF gap[k] < Never THEN gap[k] + 1 ELSE gap[k]]
    /\ UNCHANGED <<known, paused, failures, wpc, wreq, wuser, held>>

\* Failures leave the limiter's window.
LeaveWindow(ip) ==
    /\ failures[ip] > 0
    /\ failures' = [failures EXCEPT ![ip] = @ - 1]
    /\ UNCHANGED <<known, paused, authSessions, wpc, wreq, wuser, gap, held>>

cleanupAuthSessions ==
    /\ authSessions' = [k \in Keys |-> IF Ended(authSessions[k]) THEN None ELSE authSessions[k]]
    /\ UNCHANGED <<known, paused, failures, wpc, wreq, wuser, gap, held>>

\* The admin pauses and resumes, downtime begins and ends, a password changes.
Flip(S, x) == IF x \in S THEN S \ {x} ELSE S \cup {x}

Environment(u) ==
    /\ \/ \E r \in Reasons : /\ <<u, r>> \in Changes
                            /\ paused' = Flip(paused, <<u, r>>) /\ UNCHANGED known
       \/ <<u, "known">> \in Changes /\ known' = Flip(known, u) /\ UNCHANGED paused
    /\ UNCHANGED <<authSessions, failures, wpc, wreq, wuser, gap>>
    /\ held' = {h \in held : <<wreq[h[1]].port, h[2]>> \in paused'}

\* What the handler does by itself; the retry ends by its read deadline.
Handle(w) ==
    \/ CheckAuth(w) \/ RetryReadFails(w) \/ recordAuthSuccess(w)
    \/ IsEnabled(w) \/ GetDowntimeUntil(w) \/ InSchedule(w) \/ Dial(w) \/ RoundTrip(w)

Next ==
    \/ \E w \in Workers :
         \/ \E req \in Offered : Arrive(w, req)
         \/ \E cred \in Creds, host \in Hosts : Retry(w, cred, host)
         \/ Handle(w) \/ Close(w)
    \/ \E u \in Users : Environment(u)
    \/ \E ip \in IPs : LeaveWindow(ip)
    \/ cleanupAuthSessions \/ Tick

Spec == Init /\ [][Next]_vars

Fairness == \A w \in Workers : WF_vars(Handle(w))

FairSpec == Spec /\ Fairness

-----------------------------------------------------------------------------
(* Properties.                                                             *)

\* Whoever is served on a port is the user the port belongs to, also when the
\* user was found by a session and not by credentials.
OwnerServed == \A w \in Workers : wuser[w] # None => wuser[w] = wreq[w].port

\* A request without credentials is accepted on a port only if its address was
\* accepted there as the owner within the session lifetime, no matter what the
\* address did on other users' ports and whether the cleanup has run.
SessionsScoped ==
    [][\A w \in Workers : wpc[w] = "check" /\ wpc'[w] = "record" /\ wreq[w].cred = None
          => gap[<<wreq[w].ip, wreq[w].port>>] < SessionTTL]_vars

\* A request that arrives at a port whose owner is paused for a reason that concerns it
\* gets no further than the pause check while that reason holds, whatever the way it
\* authenticates (credentials, a second request on the connection, the session of an
\* earlier one) and whatever the other reasons do.  A reason must hold throughout: the
\* check reads one after the other, so a user whose one reason ends and whose other
\* begins between two reads is let through.  The hosts of Passthrough are open to
\* CONNECTs when MITM is on.
PausedGetsNowhere ==
    \A w \in Workers, r \in Reasons :
        <<w, r>> \in held /\ wpc[w] \in {"dial", "tunnel"} =>
            MITMEnabled /\ wreq[w].kind = "connect" /\ wreq[w].host \in Passthrough

\* A tunnel or a round trip is begun for user u to a host outside Passthrough.
Opens(w, u) ==
    /\ wpc[w] = "dial" /\ wpc'[w] = "tunnel" /\ wuser[w] = u
    /\ ~(MITMEnabled /\ wreq[w].host \in Passthrough)

\* Once a user stays in downtime, be it an admin's or the schedule's, the proxy soon
\* opens nothing more for that user: only requests already past the check get through,
\* by whichever way they authenticated.
PauseHolds ==
    \A u \in Users, r \in {"until", "schedule"} :
        <>[](<<u, r>> \in paused) => <>[][\A w \in Workers : ~Opens(w, u)]_vars

\* With MITM on, a disabled user is blocked in the request path ("the block
\* moves from the socket to the request path"), whatever the request's method.
DisabledHolds ==
    MITMEnabled =>
        \A u \in Users :
            <>[](<<u, "disabled">> \in paused) => <>[][\A w \in Workers : ~Opens(w, u)]_vars
=============================================================================
