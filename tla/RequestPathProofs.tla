-------------------------- MODULE RequestPathProofs --------------------------
(* Proofs that a port serves nobody but its owner, that a session admits   *)
(* only an address that was accepted there within its lifetime, and that a *)
(* request of a paused user gets no further than the pause check.          *)
EXTENDS RequestPath, TLAPS

\* The key under which a session is kept names the session's user.
SessionNamesOwner ==
    \A ip \in IPs, u \in Users :
        authSessions[<<ip, u>>] # None => authSessions[<<ip, u>>].user = u

\* The parts of the type invariant the argument needs.
ShapeOK ==
    /\ authSessions \in [Keys -> [user : Users, left : 0..SessionTTL] \cup {None}]
    /\ wpc \in [Workers -> {"idle", "check", "retry", "record", "dial", "tunnel"} \cup Reasons]
    /\ wreq \in [Workers -> Request \cup {None}]
    /\ wuser \in [Workers -> Users \cup {None}]
    /\ \A w \in Workers : wpc[w] # "idle" => wreq[w] \in Request
    /\ \A w \in Workers : wpc[w] \in {"record", "dial", "tunnel"} \cup Reasons => wuser[w] \in Users
    /\ \A w \in Workers : wpc[w] \in {"idle", "check", "retry"} => wuser[w] = None

\* The inductive invariant behind OwnerServed.
Inv == ShapeOK /\ SessionNamesOwner /\ OwnerServed

\* The three reads of the pause check.
Asks(w) == IsEnabled(w) \/ GetDowntimeUntil(w) \/ InSchedule(w)

\* A read answers the request or moves its connection on, and touches nothing else.
LEMMA AskMoves ==
    ASSUME NEW w, Asks(w)
    PROVE  /\ wpc[w] \in Reasons /\ UNCHANGED <<known, paused, authSessions, failures, gap>>
           /\ \/ Finish(w)
              \/ UNCHANGED <<wreq, wuser>> /\ \E l \in {"until", "schedule", "dial"} : Goto(w, l)
  <1>1. PICK r \in Reasons, l \in {"until", "schedule", "dial"} : Ask(w, r, l)
    BY DEF Asks, IsEnabled, GetDowntimeUntil, InSchedule, Reasons
  <1> QED BY <1>1 DEF Ask, Blocked, serveBlocked

\* Initially no session and no request exist.
LEMMA InitInv == Init => Inv
  BY RequestAssumption DEF Init, Inv, ShapeOK, SessionNamesOwner, OwnerServed, Keys, Reasons

\* Every step keeps the invariant: a session is only ever stored under the name
\* of its user, and a user comes from credentials compared with the port or
\* from the session under the port's name.
LEMMA NextInv == Inv /\ [Next]_vars => Inv'
  <1> SUFFICES ASSUME Inv, [Next]_vars PROVE Inv'
    OBVIOUS
  <1>key. \A ip \in IPs, u \in Users : <<ip, u>> \in Keys
    BY DEF Keys
  <1>1. ASSUME NEW w \in Workers, NEW req \in Offered, Arrive(w, req) PROVE Inv'
    BY <1>1, OfferedAssumption DEF Reasons, Arrive, Goto, Inv, ShapeOK, SessionNamesOwner, OwnerServed
  <1>2. ASSUME NEW w \in Workers, CheckAuth(w) PROVE Inv'
    <2> DEFINE req == wreq[w]
    <2> DEFINE user == Authenticate(req)
    <2>1. req \in Request /\ wuser[w] = None
      BY <1>2 DEF CheckAuth, Inv, ShapeOK
    <2>2. req.ip \in IPs /\ req.port \in Users
      BY <2>1 DEF Request
    <2>3. user # None => user \in Users /\ user = req.port
      <3>1. CASE Passes(req.cred, req.port)
        BY <3>1, <2>2 DEF Authenticate, Passes
      <3>2. CASE ~Passes(req.cred, req.port)
        BY <3>2, <2>2, <1>key DEF Authenticate, checkAuthSession, authCacheKey, Inv, SessionNamesOwner
      <3> QED BY <3>1, <3>2
    <2>4. CASE user # None
      BY <1>2, <2>1, <2>3, <2>4 DEF CheckAuth, Goto, Inv, ShapeOK, SessionNamesOwner, OwnerServed
    <2>5. CASE user = None
      BY <1>2, <2>1, <2>5 DEF Reasons, CheckAuth, Goto, Finish, Inv, ShapeOK, SessionNamesOwner, OwnerServed
    <2> QED BY <2>4, <2>5
  <1>3. ASSUME NEW w \in Workers, RetryReadFails(w) PROVE Inv'
    BY <1>3 DEF Reasons, RetryReadFails, Goto, Finish, Inv, ShapeOK, SessionNamesOwner, OwnerServed
  <1>4. ASSUME NEW w \in Workers, NEW cred \in Creds, NEW host \in Hosts, Retry(w, cred, host)
        PROVE Inv'
    <2> DEFINE req == [wreq[w] EXCEPT !.cred = cred, !.host = host]
    <2>1. wreq[w] \in Request
      BY <1>4 DEF Retry, Inv, ShapeOK
    <2>2. req \in Request /\ req.port \in Users
      BY <2>1 DEF Request
    <2> HIDE DEF req
    <2>3. CASE Passes(cred, req.port)
      BY <1>4, <2>1, <2>2, <2>3
      DEF req, Retry, Passes, Goto, Inv, ShapeOK, SessionNamesOwner, OwnerServed
    <2>4. CASE ~Passes(cred, req.port)
      BY <1>4, <2>4 DEF Reasons, req, Retry, Goto, Finish, Inv, ShapeOK, SessionNamesOwner, OwnerServed
    <2> QED BY <2>3, <2>4
  <1>5. ASSUME NEW w \in Workers, recordAuthSuccess(w) PROVE Inv'
    <2>1. wreq[w] \in Request /\ wuser[w] \in Users
      BY <1>5 DEF recordAuthSuccess, Inv, ShapeOK
    <2>2. wreq[w].ip \in IPs
      BY <2>1 DEF Request
    <2>3. ShapeOK'
      BY <1>5, <2>1, <2>2, <1>key, RequestAssumption
      DEF recordAuthSuccess, FirstAsked, Reasons, authCacheKey, Goto, Inv, ShapeOK
    <2>4. SessionNamesOwner'
      BY <1>5, <2>1, <2>2, <1>key
      DEF recordAuthSuccess, authCacheKey, Inv, ShapeOK, SessionNamesOwner
    <2>5. OwnerServed'
      BY <1>5 DEF recordAuthSuccess, Inv, OwnerServed
    <2> QED BY <2>3, <2>4, <2>5 DEF Inv
  <1>6. ASSUME NEW w \in Workers, Dial(w) \/ RoundTrip(w) \/ Close(w)
        PROVE Inv'
    BY <1>6 DEF Reasons, Dial, RoundTrip, Reach, Close, Goto, Finish,
                Inv, ShapeOK, SessionNamesOwner, OwnerServed
  <1>10. ASSUME NEW w \in Workers, Asks(w) PROVE Inv'
    <2>1. wpc[w] \in Reasons /\ UNCHANGED authSessions
      BY <1>10, AskMoves
    <2>2. wuser[w] \in Users /\ wreq[w] \in Request
      BY <2>1 DEF Reasons, Inv, ShapeOK
    <2>3. CASE Finish(w)
      BY <2>1, <2>3 DEF Reasons, Finish, Inv, ShapeOK, SessionNamesOwner, OwnerServed
    <2>4. ASSUME NEW l \in {"until", "schedule", "dial"}, Goto(w, l), UNCHANGED <<wreq, wuser>>
          PROVE  Inv'
      BY <2>1, <2>2, <2>4 DEF Goto, Reasons, Inv, ShapeOK, SessionNamesOwner, OwnerServed
    <2> QED BY <1>10, <2>3, <2>4, AskMoves
  <1>7. ASSUME Tick PROVE Inv'
    <2>1. ASSUME NEW k \in Keys
          PROVE /\ authSessions'[k] \in [user : Users, left : 0..SessionTTL] \cup {None}
                /\ authSessions'[k] # None =>
                     authSessions[k] # None /\ authSessions'[k].user = authSessions[k].user
      <3>1. authSessions'[k] = IF Ended(authSessions[k]) THEN authSessions[k]
                               ELSE [authSessions[k] EXCEPT !.left = @ - 1]
        BY <1>7, <2>1 DEF Tick
      <3>2. CASE Ended(authSessions[k])
        BY <3>1, <3>2, <2>1 DEF Inv, ShapeOK
      <3>3. CASE ~Ended(authSessions[k])
        <4>1. PICK u \in Users, n \in 0..SessionTTL : authSessions[k] = [user |-> u, left |-> n]
          BY <3>3, <2>1 DEF Ended, Inv, ShapeOK
        <4>2. n # 0 /\ n - 1 \in 0..SessionTTL
          BY <3>3, <4>1, RequestAssumption DEF Ended
        <4>3. authSessions'[k] = [user |-> u, left |-> n - 1]
          BY <3>1, <3>3, <4>1
        <4> QED BY <4>1, <4>2, <4>3, <3>3 DEF Ended
      <3> QED BY <3>2, <3>3
    <2>2. authSessions' \in [Keys -> [user : Users, left : 0..SessionTTL] \cup {None}]
      <3>1. authSessions' = [k \in Keys |-> authSessions'[k]]
        BY <1>7 DEF Tick
      <3> QED BY <3>1, <2>1
    <2>3. ShapeOK'
      BY <1>7, <2>2 DEF Tick, Inv, ShapeOK
    <2>4. SessionNamesOwner'
      <3> SUFFICES ASSUME NEW ip \in IPs, NEW u \in Users, authSessions'[<<ip, u>>] # None
                   PROVE  authSessions'[<<ip, u>>].user = u
        BY DEF SessionNamesOwner
      <3> DEFINE k == <<ip, u>>
      <3>1. k \in Keys
        BY <1>key
      <3>2. authSessions[k] # None => authSessions[k].user = u
        BY DEF Inv, SessionNamesOwner
      <3> HIDE DEF k
      <3>3. authSessions'[k] # None => authSessions'[k].user = u
        BY <2>1, <3>1, <3>2
      <3> QED BY <3>3 DEF k
    <2>5. OwnerServed'
      BY <1>7 DEF Tick, Inv, OwnerServed
    <2> QED BY <2>3, <2>4, <2>5 DEF Inv
  <1>8. ASSUME cleanupAuthSessions PROVE Inv'
    BY <1>8, <1>key DEF cleanupAuthSessions, Inv, ShapeOK, SessionNamesOwner, OwnerServed
  <1>9. CASE (\E u \in Users : Environment(u)) \/ (\E ip \in IPs : LeaveWindow(ip))
              \/ UNCHANGED vars
    <2>1. UNCHANGED <<authSessions, wpc, wreq, wuser>>
      BY <1>9 DEF Environment, LeaveWindow, vars
    <2> QED BY <2>1 DEF Inv, ShapeOK, SessionNamesOwner, OwnerServed
  <1> QED
    BY <1>1, <1>2, <1>3, <1>4, <1>5, <1>6, <1>7, <1>8, <1>9, <1>10 DEF Next, Handle, Asks

\* For any users, addresses, hosts, limits and number of connections, whoever is
\* served on a dedicated port is the port's owner (handleConnect,
\* handleForward, checkAuthSession).
THEOREM OwnerAlwaysServed == Spec => []OwnerServed
  <1>1. Inv => OwnerServed
    BY DEF Inv
  <1> QED
    BY <1>1, InitInv, NextInv, PTL DEF Spec

-----------------------------------------------------------------------------
(* Sessions.                                                               *)

\* What a session that still counts has left, and how long ago its address was
\* accepted, together fit into the session lifetime.
SessionsFresh ==
    /\ known \subseteq Users
    /\ gap \in [IPs \X Users -> 0..Never]
    /\ \A ip \in IPs, u \in Users :
         ~Ended(authSessions[<<ip, u>>]) =>
             gap[<<ip, u>>] + authSessions[<<ip, u>>].left <= SessionTTL

\* Initially there is no session, and nobody was ever accepted.
LEMMA InitFresh == Init => SessionsFresh
  <1>1. Never \in 0..Never
    BY RequestAssumption DEF Never
  <1>2. \A ip \in IPs, u \in Users : <<ip, u>> \in Keys
    BY DEF Keys
  <1> QED
    BY <1>1, <1>2 DEF Init, SessionsFresh, Ended

\* A tick takes from what is left what it adds to the gap; a success sets both.
LEMMA NextFresh == Inv /\ SessionsFresh /\ [Next]_vars => SessionsFresh'
  <1> SUFFICES ASSUME Inv, SessionsFresh, [Next]_vars PROVE SessionsFresh'
    OBVIOUS
  <1>key. \A ip \in IPs, u \in Users : <<ip, u>> \in Keys /\ <<ip, u>> \in IPs \X Users
    BY DEF Keys
  <1>1. CASE UNCHANGED <<authSessions, gap>> /\ known' \subseteq Users
    BY <1>1 DEF SessionsFresh, Ended
  <1>2. ASSUME NEW w \in Workers, recordAuthSuccess(w) PROVE SessionsFresh'
    <2>1. wreq[w] \in Request /\ wuser[w] \in Users
      BY <1>2 DEF recordAuthSuccess, Inv, ShapeOK
    <2>2. wreq[w].ip \in IPs
      BY <2>1 DEF Request
    <2> DEFINE k == <<wreq[w].ip, wuser[w]>>
    <2>3. k \in Keys /\ k \in IPs \X Users
      BY <2>1, <2>2, <1>key
    <2> HIDE DEF k
    <2>4. /\ authSessions' = [authSessions EXCEPT ![k] = [user |-> wuser[w], left |-> SessionTTL]]
          /\ gap' = [gap EXCEPT ![k] = 0] /\ known' = known
      BY <1>2 DEF recordAuthSuccess, authCacheKey, k
    <2>5. gap' \in [IPs \X Users -> 0..Never]
      BY <2>3, <2>4, RequestAssumption DEF SessionsFresh, Never
    <2>6. ASSUME NEW ip \in IPs, NEW u \in Users, ~Ended(authSessions'[<<ip, u>>])
          PROVE  gap'[<<ip, u>>] + authSessions'[<<ip, u>>].left <= SessionTTL
      <3> DEFINE j == <<ip, u>>
      <3>1. j \in Keys /\ j \in IPs \X Users
        BY <1>key
      <3>2. ~Ended(authSessions[j]) => gap[j] + authSessions[j].left <= SessionTTL
        BY DEF SessionsFresh
      <3>3. ~Ended(authSessions'[j])
        BY <2>6
      <3> SUFFICES gap'[j] + authSessions'[j].left <= SessionTTL
        OBVIOUS
      <3> HIDE DEF j
      <3>4. CASE j = k
        BY <2>3, <2>4, <3>4, RequestAssumption DEF SessionsFresh, Inv, ShapeOK
      <3>5. CASE j # k
        BY <2>4, <3>1, <3>2, <3>3, <3>5 DEF SessionsFresh, Inv, ShapeOK
      <3> QED BY <3>4, <3>5
    <2> QED BY <2>4, <2>5, <2>6 DEF SessionsFresh
  <1>3. ASSUME Tick PROVE SessionsFresh'
    <2>1. gap' \in [IPs \X Users -> 0..Never]
      BY <1>3, RequestAssumption DEF Tick, SessionsFresh, Never
    <2>2. ASSUME NEW ip \in IPs, NEW u \in Users, ~Ended(authSessions'[<<ip, u>>])
          PROVE  gap'[<<ip, u>>] + authSessions'[<<ip, u>>].left <= SessionTTL
      <3> DEFINE j == <<ip, u>>
      <3>1. j \in Keys /\ j \in IPs \X Users
        BY <1>key
      <3>2. ~Ended(authSessions[j]) => gap[j] + authSessions[j].left <= SessionTTL
        BY DEF SessionsFresh
      <3>3. ~Ended(authSessions'[j])
        BY <2>2
      <3> SUFFICES gap'[j] + authSessions'[j].left <= SessionTTL
        OBVIOUS
      <3> HIDE DEF j
      <3>4. authSessions'[j] = IF Ended(authSessions[j]) THEN authSessions[j]
                               ELSE [authSessions[j] EXCEPT !.left = @ - 1]
        BY <1>3, <3>1 DEF Tick
      <3>5. ~Ended(authSessions[j])
        BY <3>3, <3>4
      <3>6. PICK v \in Users, n \in 0..SessionTTL : authSessions[j] = [user |-> v, left |-> n]
        BY <3>1, <3>5 DEF Ended, Inv, ShapeOK
      <3>7. authSessions'[j].left = n - 1
        BY <3>4, <3>5, <3>6
      <3>8. gap[j] \in 0..Never /\ gap'[j] = IF gap[j] < Never THEN gap[j] + 1 ELSE gap[j]
        BY <1>3, <3>1 DEF Tick, SessionsFresh
      <3>9. gap[j] + n <= SessionTTL
        BY <3>2, <3>5, <3>6
      <3> QED BY <3>7, <3>8, <3>9, RequestAssumption DEF Never
    <2> QED BY <1>3, <2>1, <2>2 DEF Tick, SessionsFresh
  <1>4. ASSUME cleanupAuthSessions PROVE SessionsFresh'
    <2>1. ASSUME NEW ip \in IPs, NEW u \in Users, ~Ended(authSessions'[<<ip, u>>])
          PROVE  authSessions'[<<ip, u>>] = authSessions[<<ip, u>>]
      BY <1>4, <2>1, <1>key DEF cleanupAuthSessions, Ended
    <2> QED BY <1>4, <2>1 DEF cleanupAuthSessions, SessionsFresh, Ended
  <1>5. ASSUME NEW u \in Users, Environment(u)
        PROVE  UNCHANGED <<authSessions, gap>> /\ known' \subseteq Users
    BY <1>5 DEF Environment, Flip, SessionsFresh
  <1>6. ASSUME NEW w \in Workers, NEW req \in Offered, Arrive(w, req)
        PROVE  UNCHANGED <<authSessions, gap, known>>
    BY <1>6 DEF Arrive
  <1>7. ASSUME NEW w \in Workers, NEW cred \in Creds, NEW host \in Hosts, Retry(w, cred, host)
        PROVE  UNCHANGED <<authSessions, gap, known>>
    BY <1>7 DEF Retry
  <1>8. ASSUME NEW w \in Workers,
               \/ CheckAuth(w) \/ RetryReadFails(w) \/ Asks(w)
               \/ Dial(w) \/ RoundTrip(w) \/ Close(w)
        PROVE  UNCHANGED <<authSessions, gap, known>>
    BY <1>8, AskMoves DEF CheckAuth, RetryReadFails, Dial, RoundTrip, Close
  <1>9. CASE (\E ip \in IPs : LeaveWindow(ip)) \/ UNCHANGED vars
    BY <1>1, <1>9 DEF LeaveWindow, vars, SessionsFresh
  <1>10. CASE UNCHANGED <<authSessions, gap, known>>
    BY <1>1, <1>10 DEF SessionsFresh
  <1> QED
    BY <1>1, <1>2, <1>3, <1>4, <1>5, <1>6, <1>7, <1>8, <1>9, <1>10 DEF Next, Handle, Asks

\* Only CheckAuth takes a request from the first check to "record".
LEMMA AcceptedByCheck ==
    ASSUME Inv, [Next]_vars, NEW w \in Workers, wpc[w] = "check", wpc'[w] = "record"
    PROVE  CheckAuth(w)
  <1>1. ASSUME NEW v \in Workers, NEW req \in Offered, Arrive(v, req) PROVE FALSE
    BY <1>1 DEF Arrive, Goto, Inv, ShapeOK
  <1>2. ASSUME NEW v \in Workers, NEW cred \in Creds, NEW host \in Hosts, Retry(v, cred, host)
        PROVE  FALSE
    BY <1>2 DEF Retry, Goto, Finish, Inv, ShapeOK
  <1>3. ASSUME NEW v \in Workers, CheckAuth(v), v # w PROVE FALSE
    BY <1>3 DEF CheckAuth, Goto, Finish, Inv, ShapeOK
  <1>4. ASSUME NEW v \in Workers,
               RetryReadFails(v) \/ recordAuthSuccess(v) \/ Dial(v) \/ RoundTrip(v) \/ Close(v)
        PROVE  FALSE
    BY <1>4 DEF RetryReadFails, recordAuthSuccess, FirstAsked, Dial, RoundTrip, Reach, Close,
                Goto, Finish, Inv, ShapeOK
  <1>6. ASSUME NEW v \in Workers, Asks(v) PROVE FALSE
    BY <1>6, AskMoves DEF Reasons, Goto, Finish, Inv, ShapeOK
  <1>5. CASE \/ cleanupAuthSessions \/ Tick \/ (\E u \in Users : Environment(u))
             \/ (\E ip \in IPs : LeaveWindow(ip)) \/ UNCHANGED vars
    BY <1>5 DEF cleanupAuthSessions, Tick, Environment, LeaveWindow, vars
  <1> QED
    BY <1>1, <1>2, <1>3, <1>4, <1>5, <1>6 DEF Next, Handle, Asks

\* For any users, addresses, lifetime and number of connections, a request without
\* credentials gets in on a port only while its address was accepted there as the
\* owner within authSessionTTL (checkAuthSession, recordAuthSuccess), whatever
\* the cleanup and other ports' requests do meanwhile.
THEOREM SessionsStayScoped == Spec => SessionsScoped
  <1>1. Inv /\ SessionsFresh /\ [Next]_vars
          => [\A w \in Workers : wpc[w] = "check" /\ wpc'[w] = "record" /\ wreq[w].cred = None
                => gap[<<wreq[w].ip, wreq[w].port>>] < SessionTTL]_vars
    <2> SUFFICES ASSUME Inv, SessionsFresh, [Next]_vars, NEW w \in Workers,
                        wpc[w] = "check", wpc'[w] = "record", wreq[w].cred = None
                 PROVE  gap[<<wreq[w].ip, wreq[w].port>>] < SessionTTL
      OBVIOUS
    <2> DEFINE req == wreq[w]
               k == <<req.ip, req.port>>
    <2>1. req \in Request
      BY DEF Inv, ShapeOK
    <2>2. req.ip \in IPs /\ req.port \in Users
      BY <2>1 DEF Request
    <2>3. k \in Keys /\ k \in IPs \X Users
      BY <2>2 DEF Keys
    <2>4. Authenticate(req) # None
      BY AcceptedByCheck DEF CheckAuth, Goto, Finish, Inv, ShapeOK
    <2>5. ~Passes(req.cred, req.port)
      BY RequestAssumption DEF Passes, SessionsFresh
    <2>6. ~Ended(authSessions[k])
      BY <2>4, <2>5 DEF Authenticate, checkAuthSession, authCacheKey, Ended
    <2>7. gap[k] + authSessions[k].left <= SessionTTL
      BY <2>2, <2>6 DEF SessionsFresh
    <2> HIDE DEF k, req
    <2>8. authSessions[k].left \in 0..SessionTTL /\ authSessions[k].left # 0
      BY <2>3, <2>6 DEF Inv, ShapeOK, Ended
    <2>9. gap[k] \in 0..Never
      BY <2>3 DEF SessionsFresh
    <2>10. gap[k] < SessionTTL
      BY <2>7, <2>8, <2>9, RequestAssumption DEF Never
    <2> QED BY <2>10 DEF k, req
  <1> QED
    BY <1>1, InitInv, NextInv, InitFresh, NextFresh, PTL DEF Spec, SessionsScoped

-----------------------------------------------------------------------------
(* Pauses.                                                                 *)

\* Where a request is once a reason has been asked about.
Past(r) ==
    CASE r = "disabled" -> {"until", "schedule", "dial", "tunnel"}
      [] r = "until" -> {"schedule", "dial", "tunnel"}
      [] r = "schedule" -> {"dial", "tunnel"}

\* Where a paused user may go.
Open(w) == MITMEnabled /\ wreq[w].kind = "connect" /\ wreq[w].host \in Passthrough

\* What is so of a connection for which a reason has held since it arrived: the reason
\* holds now, concerns the request, and is ahead of it or found it bound for an open host.
HeldFor(w, r) ==
    /\ wpc[w] # "idle" /\ <<wreq[w].port, r>> \in paused /\ r \in Concern(wreq[w])
    /\ wpc[w] \in Past(r) => Open(w)

HeldOK ==
    /\ held \subseteq Workers \X Reasons
    /\ \A w \in Workers, r \in Reasons : <<w, r>> \in held => HeldFor(w, r)

\* The read of a reason that holds finds the port's owner, who is the user; a read of
\* another reason comes before it.
LEMMA ReadStopsHeld ==
    ASSUME Inv, HeldOK, NEW w \in Workers, NEW r \in Reasons, <<w, r>> \in held, Asks(w),
           ~Finish(w)
    PROVE  wpc'[w] # "idle" /\ (wpc'[w] \in Past(r) => Open(w))
  <1>1. HeldFor(w, r) /\ wpc[w] \in Reasons
    BY AskMoves DEF HeldOK
  <1>2. wuser[w] = wreq[w].port
    BY <1>1, RequestAssumption DEF Inv, ShapeOK, OwnerServed
  <1>3. \A l : Goto(w, l) => wpc'[w] = l
    BY DEF Goto, Inv, ShapeOK
  <1>4. CASE wpc[w] \in Past(r)
    <2>1. Open(w)
      BY <1>1, <1>4 DEF HeldFor
    <2> QED BY <2>1, <1>3, AskMoves
  <1>5. CASE wpc[w] = r
    <2>1. Blocked(w)
      BY <1>1, <1>2, <1>5 DEF Asks, IsEnabled, GetDowntimeUntil, InSchedule, Ask, HeldFor
    <2> QED BY <2>1, <1>3 DEF Blocked, serveBlocked, Open
  <1>6. CASE wpc[w] # r /\ wpc[w] \notin Past(r)
    <2>1. r # "disabled"
      BY <1>1, <1>6 DEF Past, Reasons
    <2>2. CASE <<wuser[w], wpc[w]>> \in paused
      <3>1. Blocked(w)
        BY <2>2 DEF Asks, IsEnabled, GetDowntimeUntil, InSchedule, Ask
      <3> QED BY <3>1, <1>3 DEF Blocked, serveBlocked, Open
    <2>3. CASE <<wuser[w], wpc[w]>> \notin paused
      <3>1. \/ wpc[w] = "disabled" /\ Goto(w, "until")
            \/ wpc[w] = "until" /\ Goto(w, "schedule")
            \/ wpc[w] = "schedule" /\ Goto(w, "dial")
        BY <2>3 DEF Asks, IsEnabled, GetDowntimeUntil, InSchedule, Ask
      <3>2. \/ wpc[w] = "disabled" /\ wpc'[w] = "until"
            \/ wpc[w] = "until" /\ wpc'[w] = "schedule"
            \/ wpc[w] = "schedule" /\ wpc'[w] = "dial"
        BY <3>1, <1>3
      <3> QED BY <3>2, <2>1, <1>6 DEF Past, Reasons
    <2> QED BY <2>2, <2>3
  <1> QED BY <1>4, <1>5, <1>6

\* Every step keeps it so.
LEMMA NextHeld ==
    ASSUME Inv, HeldOK, [Next]_vars
    PROVE  HeldOK'
  \* A step of one connection that leaves the pauses alone.
  <1>1. ASSUME NEW w \in Workers, UNCHANGED paused, held' \subseteq held,
               \A v \in Workers : v # w => wpc'[v] = wpc[v] /\ wreq'[v] = wreq[v],
               \A r \in Reasons : <<w, r>> \in held' =>
                   /\ wpc'[w] # "idle"
                   /\ wreq'[w].port = wreq[w].port /\ wreq'[w].kind = wreq[w].kind
                   /\ wpc'[w] \in Past(r) => Open(w)'
        PROVE  HeldOK'
    <2>1. ASSUME NEW v \in Workers, NEW r \in Reasons, <<v, r>> \in held'
          PROVE  HeldFor(v, r)'
      <3>1. HeldFor(v, r)
        BY <1>1, <2>1 DEF HeldOK
      <3>2. CASE v = w
        BY <1>1, <2>1, <3>1, <3>2 DEF HeldFor, Concern, Open
      <3>3. CASE v # w
        BY <1>1, <3>1, <3>3 DEF HeldFor, Concern, Open
      <3> QED BY <3>2, <3>3
    <2>2. held' \subseteq Workers \X Reasons
      BY <1>1 DEF HeldOK
    <2> QED BY <2>1, <2>2 DEF HeldOK
  <1>2. ASSUME NEW w \in Workers, NEW req \in Offered, Arrive(w, req)
        PROVE  HeldOK'
    <2>1. /\ wpc'[w] = "check" /\ wreq'[w] = req /\ UNCHANGED paused
          /\ \A v \in Workers : v # w => wpc'[v] = wpc[v] /\ wreq'[v] = wreq[v]
      BY <1>2 DEF Arrive, Inv, ShapeOK
    <2>2. \A r \in Reasons : <<w, r>> \notin held
      BY <1>2 DEF Arrive, HeldOK, HeldFor
    <2>3. held' = held \cup {<<w, r>> : r \in {q \in Concern(req) : <<req.port, q>> \in paused}}
      BY <1>2 DEF Arrive
    <2>4. Concern(req) \subseteq Reasons
      BY DEF Concern, Reasons
    <2>5. ASSUME NEW v \in Workers, NEW r \in Reasons, <<v, r>> \in held'
          PROVE  HeldFor(v, r)'
      <3>1. CASE v = w
        <4>1. r \in Concern(req) /\ <<req.port, r>> \in paused
          BY <2>2, <2>3, <2>5, <3>1
        <4>2. "check" \notin Past(r)
          BY DEF Past, Reasons
        <4> QED BY <2>1, <3>1, <4>1, <4>2 DEF HeldFor, Concern
      <3>2. CASE v # w
        <4>1. HeldFor(v, r)
          BY <2>3, <2>5, <3>2 DEF HeldOK
        <4> QED BY <2>1, <3>2, <4>1 DEF HeldFor, Concern, Open
      <3> QED BY <3>1, <3>2
    <2>6. held' \subseteq Workers \X Reasons
      <3>1. ASSUME NEW h \in held', h \notin held PROVE h \in Workers \X Reasons
        <4>1. PICK r \in {q \in Concern(req) : <<req.port, q>> \in paused} : h = <<w, r>>
          BY <2>3, <3>1
        <4>2. r \in Reasons
          BY <2>4, <4>1
        <4> QED BY <4>1, <4>2
      <3> QED BY <3>1 DEF HeldOK
    <2> QED BY <2>5, <2>6 DEF HeldOK
  <1>3. ASSUME NEW w \in Workers, Finish(w), UNCHANGED paused
        PROVE  HeldOK'
    <2>1. \A v \in Workers : v # w => wpc'[v] = wpc[v] /\ wreq'[v] = wreq[v]
      BY <1>3 DEF Finish, Inv, ShapeOK
    <2>2. held' \subseteq held /\ \A r \in Reasons : <<w, r>> \notin held'
      BY <1>3 DEF Finish
    <2> QED BY <1>1, <1>3, <2>1, <2>2
  <1>4. ASSUME NEW w \in Workers, NEW l, Goto(w, l), l # "idle", UNCHANGED <<wreq, paused>>,
               \A r \in Reasons : <<w, r>> \in held /\ l \in Past(r) => Open(w)
        PROVE  HeldOK'
    <2>1. wpc'[w] = l /\ held' = held /\ \A v \in Workers : v # w => wpc'[v] = wpc[v] /\ wreq'[v] = wreq[v]
      BY <1>4 DEF Goto, Inv, ShapeOK
    <2>2. Open(w)' = Open(w)
      BY <1>4 DEF Open
    <2> QED BY <1>1, <1>4, <2>1, <2>2
  <1>5. ASSUME NEW w \in Workers, CheckAuth(w) \/ RetryReadFails(w) \/ Close(w)
        PROVE  HeldOK'
    <2>1. UNCHANGED paused
      BY <1>5 DEF CheckAuth, RetryReadFails, Close
    <2>2. Finish(w) \/ (UNCHANGED wreq /\ \E l \in {"retry", "record"} : Goto(w, l))
      BY <1>5 DEF CheckAuth, RetryReadFails, Close
    <2>3. \A r \in Reasons, l \in {"retry", "record"} : l \notin Past(r)
      BY DEF Past, Reasons
    <2> QED BY <1>3, <1>4, <2>1, <2>2, <2>3
  <1>6. ASSUME NEW w \in Workers, NEW cred \in Creds, NEW host \in Hosts, Retry(w, cred, host)
        PROVE  HeldOK'
    <2> DEFINE req == [wreq[w] EXCEPT !.cred = cred, !.host = host]
    <2>1. wreq[w] \in Request /\ UNCHANGED paused
      BY <1>6 DEF Retry, Inv, ShapeOK
    <2>2. req.port = wreq[w].port /\ req.kind = wreq[w].kind
      BY <2>1 DEF Request
    <2> HIDE DEF req
    <2>3. Finish(w) \/ (wreq' = [wreq EXCEPT ![w] = req] /\ Goto(w, "record"))
      BY <1>6 DEF Retry, req
    <2>4. CASE Finish(w)
      BY <1>3, <2>1, <2>4
    <2>5. CASE wreq' = [wreq EXCEPT ![w] = req] /\ Goto(w, "record")
      <3>1. /\ wpc'[w] = "record" /\ wreq'[w] = req /\ held' = held
            /\ \A v \in Workers : v # w => wpc'[v] = wpc[v] /\ wreq'[v] = wreq[v]
        BY <2>5 DEF Goto, Inv, ShapeOK
      <3>2. \A r \in Reasons : "record" \notin Past(r)
        BY DEF Past, Reasons
      <3> QED BY <1>1, <2>1, <2>2, <3>1, <3>2
    <2> QED BY <2>3, <2>4, <2>5
  <1>7. ASSUME NEW w \in Workers, recordAuthSuccess(w)
        PROVE  HeldOK'
    <2>1. UNCHANGED <<wreq, paused>> /\ Goto(w, FirstAsked(wreq[w]))
      BY <1>7 DEF recordAuthSuccess
    <2>2. \A r \in Concern(wreq[w]) : FirstAsked(wreq[w]) \notin Past(r)
      BY DEF Concern, FirstAsked, Past, Reasons
    <2>3. \A r \in Reasons : <<w, r>> \in held => r \in Concern(wreq[w])
      BY DEF HeldOK, HeldFor
    <2>4. FirstAsked(wreq[w]) # "idle"
      BY DEF FirstAsked
    <2> QED BY <1>4, <2>1, <2>2, <2>3, <2>4
  <1>8. ASSUME NEW w \in Workers, Asks(w)
        PROVE  HeldOK'
    <2>1. CASE Finish(w)
      BY <1>3, <1>8, <2>1, AskMoves
    <2>2. CASE ~Finish(w)
      <3>1. PICK l \in {"until", "schedule", "dial"} : Goto(w, l) /\ UNCHANGED <<wreq, paused>>
        BY <1>8, <2>2, AskMoves
      <3>2. wpc'[w] = l
        BY <3>1 DEF Goto, Inv, ShapeOK
      <3>3. \A r \in Reasons : <<w, r>> \in held /\ l \in Past(r) => Open(w)
        BY <1>8, <2>2, <3>2, ReadStopsHeld
      <3> QED BY <1>4, <3>1, <3>3
    <2> QED BY <2>1, <2>2
  <1>9. ASSUME NEW w \in Workers, Dial(w) \/ RoundTrip(w)
        PROVE  HeldOK'
    <2>1. /\ UNCHANGED paused /\ wpc[w] = "dial"
          /\ Finish(w) \/ (UNCHANGED wreq /\ Goto(w, "tunnel"))
      BY <1>9 DEF Dial, RoundTrip, Reach
    <2>2. \A r \in Reasons : "dial" \in Past(r)
      BY DEF Past, Reasons
    <2>3. \A r \in Reasons : <<w, r>> \in held => Open(w)
      BY <2>1, <2>2 DEF HeldOK, HeldFor
    <2> QED BY <1>3, <1>4, <2>1, <2>3
  <1>10. ASSUME NEW u \in Users, Environment(u)
        PROVE  HeldOK'
    <2>1. UNCHANGED <<wpc, wreq>> /\ held' = {h \in held : <<wreq[h[1]].port, h[2]>> \in paused'}
      BY <1>10 DEF Environment
    <2>2. ASSUME NEW v \in Workers, NEW r \in Reasons, <<v, r>> \in held'
          PROVE  <<v, r>> \in held /\ <<wreq[v].port, r>> \in paused'
      BY <2>1, <2>2
    <2>3. held' \subseteq held
      BY <2>1
    <2> QED BY <2>1, <2>2, <2>3 DEF HeldOK, HeldFor, Concern, Open
  <1>11. CASE (\E ip \in IPs : LeaveWindow(ip)) \/ cleanupAuthSessions \/ Tick \/ UNCHANGED vars
    <2>1. UNCHANGED <<paused, wpc, wreq, held>>
      BY <1>11 DEF LeaveWindow, cleanupAuthSessions, Tick, vars
    <2> QED BY <2>1 DEF HeldOK, HeldFor, Concern, Open
  <1> QED
    BY <1>2, <1>5, <1>6, <1>7, <1>8, <1>9, <1>10, <1>11 DEF Next, Handle, Asks

\* For any users, connections, addresses and hosts, with MITM on or off: while a reason
\* for a pause that held when a request arrived goes on holding, the request is answered
\* without a target being dialled, whichever way it authenticates and whatever the other
\* reasons do between the reads of the check (blockReason, IsInDowntime, serveBlocked);
\* a CONNECT to a pass-through host excepted.
THEOREM PausedGetNowhere == Spec => []PausedGetsNowhere
  <1>1. Init => HeldOK
    BY DEF Init, HeldOK
  <1>2. Inv /\ HeldOK /\ [Next]_vars => HeldOK'
    BY NextHeld
  <1>3. HeldOK => PausedGetsNowhere
    <2>1. \A r \in Reasons : {"dial", "tunnel"} \subseteq Past(r)
      BY DEF Past, Reasons
    <2> QED BY <2>1 DEF HeldOK, HeldFor, Open, PausedGetsNowhere
  <1> QED
    BY <1>1, <1>2, <1>3, InitInv, NextInv, PTL DEF Spec
=============================================================================
