-------------------------- MODULE AdminAccessProofs --------------------------
(* For any number of sessions, codes, devices and concurrent requests: a   *)
(* code is redeemed once, a device enrolls no successor, an idle session   *)
(* and a closed one are not accepted.                                      *)
EXTENDS AdminAccess, TLAPS

\* What a worker's program counter says of the credential it carries.
CredentialsOK ==
    \A w \in Workers :
        /\ wpc[w] \in {"expired", "renew", "handler"} => wreq[w].cred \in Sessions
        /\ wpc[w] = "mint" => wreq[w].cred \in Codes

\* Worker w has consumed code c and has yet to insert the token.
Minting(w, c) == wpc[w] = "mint" /\ wreq[w].cred = c

\* A code is in the store, or with one worker, or spent on one device: never in
\* two of these places.
CodesOnce ==
    ~persistent => \A c \in Codes :
        /\ c \notin issued => codes[c] = Gone
        /\ \A w \in Workers : Minting(w, c) =>
              /\ codes[c] = Gone /\ c \in issued
              /\ \A v \in Workers : Minting(v, c) => v = w
        /\ \A d \in Devices : from[d] = c =>
              /\ codes[c] = Gone /\ c \in issued
              /\ \A w \in Workers : ~Minting(w, c)

\* A token that was not issued came from no code.
TokensFresh == \A d \in Devices : d \notin issued => from[d] = None

\* Codes are asked for with sessions only.
CreatorsOK == \A c \in Codes : creator[c] \in Sessions \cup {None}

\* What is left of a session, or of a renewal under way, and the time since the
\* last accepted request make up one lifetime at most.
LifetimeOK ==
    /\ \A s \in Sessions : s \notin issued => idle[s] = 0
    /\ \A s \in Sessions : s \notin issued => sessions[s] = Gone
    /\ \A s \in Sessions : sessions[s] >= 0 => sessions[s] + idle[s] <= TTL
    /\ \A w \in Workers : wpc[w] = "renew" =>
          /\ wreq[w].cred \in issued
          /\ wleft[w] >= 0 => wleft[w] + idle[wreq[w].cred] <= TTL

\* A session that was logged out is in nobody's hands.
EndedOK == \A s \in ended : s \in issued /\ sessions[s] = Gone /\ ~Renewing(s)

\* The demo code never gets another expiry.
DemoOK == persistent => codes = [c \in Codes |-> Never]

\* The inductive invariant.
IndInv ==
    /\ TypeOK /\ CredentialsOK /\ CodesOnce /\ TokensFresh /\ RedeemedOnce
    /\ CreatorsOK /\ LifetimeOK /\ EndedOK /\ DemoOK

-----------------------------------------------------------------------------

\* The shape of every request a worker may serve.
AnyRequest == [cred : Sessions \cup Devices \cup Codes \cup {None}, op : Ops,
               arg : Devices \cup {None}]

\* The part of the type invariant about requests.
WorkersTyped ==
    /\ wpc \in [Workers -> {"idle", "expired", "renew", "handler", "mint"}]
    /\ wreq \in [Workers -> AnyRequest]
    /\ wleft \in [Workers -> Ticks(TTL)]

\* A finished request leaves its worker typed.
LEMMA FinishTyped ==
    ASSUME TypeOK, NEW w \in Workers, Finish(w)
    PROVE  WorkersTyped'
<1>1. NoRequest \in AnyRequest
  BY DEF NoRequest, AnyRequest, Ops
<1>2. 0 \in Ticks(TTL)
  BY AccessAssumption DEF Ticks
<1> QED BY <1>1, <1>2 DEF Finish, TypeOK, WorkersTyped, AnyRequest

\* A worker that takes up a request is typed, whatever it is about to renew.
LEMMA AdmitTyped ==
    ASSUME TypeOK, NEW w \in Workers, NEW req \in AnyRequest,
           NEW l \in {"expired", "renew", "mint"}, Admit(w, req, l),
           wleft' \in [Workers -> Ticks(TTL)]
    PROVE  WorkersTyped'
BY DEF Admit, TypeOK, WorkersTyped, AnyRequest

\* Every step keeps the inductive invariant.
LEMMA NextInv == IndInv /\ [Next]_vars => IndInv'
<1> SUFFICES ASSUME IndInv, [Next]_vars PROVE IndInv'
  OBVIOUS
<1> USE AccessAssumption DEF IndInv
<1>1. ASSUME NEW s \in Sessions, Create(s)
      PROVE  IndInv'
  <2>1. TypeOK'
    BY <1>1 DEF Create, TypeOK, Ticks, Gone, Never, Ops
  <2>2. CodesOnce'
    BY <1>1 DEF Create, CodesOnce, Minting, CredentialsOK, TypeOK, Gone, Never, DemoOK, TokensFresh
  <2>3. TokensFresh'
    BY <1>1 DEF Create, TokensFresh, TypeOK
  <2>4. LifetimeOK'
    BY <1>1 DEF Create, LifetimeOK, CredentialsOK, TypeOK, Ticks, Gone, EndedOK
  <2>5. EndedOK'
    BY <1>1 DEF Create, EndedOK, Renewing, CredentialsOK, TypeOK, Ticks, Gone, LifetimeOK
  <2>6. CredentialsOK' /\ RedeemedOnce' /\ CreatorsOK' /\ DemoOK'
    BY <1>1 DEF Create, CredentialsOK, RedeemedOnce, CreatorsOK, DemoOK
  <2> QED BY <2>1, <2>2, <2>3, <2>4, <2>5, <2>6
<1>2. ASSUME NEW s \in Sessions, handleLogout(s)
      PROVE  IndInv'
  <2>1. TypeOK'
    BY <1>2 DEF handleLogout, Renewing, TypeOK, Ticks, Gone, Never, Ops
  <2>2. LifetimeOK'
    BY <1>2 DEF handleLogout, Renewing, LifetimeOK, CredentialsOK, TypeOK, Ticks, Gone, EndedOK
  <2>3. EndedOK'
    BY <1>2 DEF handleLogout, Renewing, EndedOK, CredentialsOK, TypeOK, Ticks, Gone, LifetimeOK
  <2>4. CredentialsOK' /\ CodesOnce' /\ TokensFresh' /\ RedeemedOnce' /\ CreatorsOK' /\ DemoOK'
    BY <1>2
    DEF handleLogout, CredentialsOK, CodesOnce, TokensFresh, RedeemedOnce, CreatorsOK, DemoOK,
        Minting
  <2> QED BY <2>1, <2>2, <2>3, <2>4
<1>3. ASSUME NEW w \in Workers, NEW req \in [cred : Sessions, op : Ops, arg : Devices \cup {None}],
             ReadSession(w, req)
      PROVE  IndInv'
  <2>1. TypeOK'
    <3>1. req \in AnyRequest
      BY DEF AnyRequest
    <3>2. TTL \in Ticks(TTL)
      BY DEF Ticks
    <3>3. WorkersTyped'
      BY <1>3, <3>1, <3>2, AdmitTyped DEF ReadSession, IndInv, TypeOK
    <3>4. idle' \in [Sessions -> 0..(TTL + 1)]
      BY <1>3 DEF ReadSession, IndInv, TypeOK
    <3> QED BY <1>3, <3>3, <3>4 DEF ReadSession, IndInv, TypeOK, WorkersTyped, AnyRequest
  <2>2. CredentialsOK'
    BY <1>3 DEF ReadSession, Admit, CredentialsOK, TypeOK
  <2>3. CodesOnce'
    <3>1. \A v \in Workers, c \in Codes : Minting(v, c)' => Minting(v, c)
      BY <1>3 DEF ReadSession, Admit, Minting, IndInv, TypeOK
    <3> QED BY <1>3, <3>1 DEF ReadSession, IndInv, CodesOnce
  <2>4. LifetimeOK'
    <3>3. sessions[req.cred] \in Int
      BY DEF IndInv, TypeOK, Ticks, Gone
    <3>1. CASE sessions[req.cred] < 0
      BY <1>3, <3>1 DEF ReadSession, Admit, IndInv, LifetimeOK, TypeOK
    <3>2. CASE sessions[req.cred] >= 0
      <4>1. req.cred \in Sessions /\ req.cred \in issued
        BY <1>3 DEF ReadSession, IndInv, LifetimeOK
      <4>2. \A s \in Sessions : idle'[s] = IF s = req.cred THEN 0 ELSE idle[s]
        BY <1>3, <3>2, <3>3, <4>1 DEF ReadSession, IndInv, TypeOK
      <4>3. \A s \in Sessions : sessions[s] \in Int /\ idle[s] \in Nat /\ sessions[s] <= TTL
        BY DEF IndInv, TypeOK, Ticks, Gone
      <4>4. \A v \in Workers : wpc'[v] = "renew" =>
               /\ v # w => wpc[v] = "renew" /\ wreq'[v] = wreq[v] /\ wleft'[v] = wleft[v]
               /\ v = w => wreq'[v] = req /\ wleft'[v] = TTL
        BY <1>3, <3>2, <3>3 DEF ReadSession, Admit, IndInv, TypeOK
      <4>5. \A v \in Workers : wpc[v] = "renew" => wreq[v].cred \in Sessions /\ wleft[v] \in Int
        BY DEF IndInv, TypeOK, CredentialsOK, Ticks
      <4>6. UNCHANGED <<sessions, issued>>
        BY <1>3 DEF ReadSession
      <4> QED BY <4>1, <4>2, <4>3, <4>4, <4>5, <4>6 DEF IndInv, LifetimeOK
    <3> QED BY <3>1, <3>2, <3>3
  <2>5. EndedOK'
    BY <1>3
    DEF ReadSession, Admit, EndedOK, Renewing, CredentialsOK, TypeOK, Ticks, Gone, LifetimeOK
  <2>6. TokensFresh' /\ RedeemedOnce' /\ CreatorsOK' /\ DemoOK'
    BY <1>3 DEF ReadSession, TokensFresh, RedeemedOnce, CreatorsOK, DemoOK
  <2> QED BY <2>1, <2>2, <2>3, <2>4, <2>5, <2>6
<1>4. ASSUME NEW w \in Workers, DropExpired(w)
      PROVE  IndInv'
  <2>1. TypeOK'
    <3>1. WorkersTyped'
      BY <1>4, FinishTyped DEF DropExpired, IndInv
    <3> QED BY <1>4, <3>1 DEF DropExpired, IndInv, TypeOK, CredentialsOK, WorkersTyped, AnyRequest, Gone
  <2>2. CredentialsOK'
    BY <1>4 DEF DropExpired, Finish, NoRequest, CredentialsOK, TypeOK
  <2>3. CodesOnce'
    BY <1>4
    DEF DropExpired, Finish, NoRequest, CodesOnce, Minting, CredentialsOK, TypeOK, Gone, Never,
        DemoOK, TokensFresh
  <2>4. LifetimeOK'
    BY <1>4
    DEF DropExpired, Finish, NoRequest, LifetimeOK, CredentialsOK, TypeOK, Ticks, Gone, EndedOK
  <2>5. EndedOK'
    BY <1>4
    DEF DropExpired, Finish, NoRequest, EndedOK, Renewing, CredentialsOK, TypeOK, Ticks, Gone,
        LifetimeOK
  <2>6. TokensFresh' /\ RedeemedOnce' /\ CreatorsOK' /\ DemoOK'
    BY <1>4 DEF DropExpired, TokensFresh, RedeemedOnce, CreatorsOK, DemoOK
  <2> QED BY <2>1, <2>2, <2>3, <2>4, <2>5, <2>6
<1>5. ASSUME NEW w \in Workers, Renew(w)
      PROVE  IndInv'
  <2>1. TypeOK'
    <3>1. WorkersTyped'
      <4>1. CASE wreq[w].op = "page"
        BY <1>5, <4>1, FinishTyped DEF Renew, IndInv
      <4>2. CASE wreq[w].op # "page"
        BY <1>5, <4>2 DEF Renew, IndInv, TypeOK, WorkersTyped, AnyRequest
      <4> QED BY <4>1, <4>2
    <3>2. sessions' \in [Sessions -> Ticks(TTL) \cup {Gone}]
      BY <1>5 DEF Renew, IndInv, TypeOK, CredentialsOK
    <3> QED BY <1>5, <3>1, <3>2 DEF Renew, IndInv, TypeOK, WorkersTyped, AnyRequest
  <2>2. CredentialsOK'
    BY <1>5 DEF Renew, Finish, NoRequest, CredentialsOK, TypeOK
  <2>3. CodesOnce'
    <3>1. \A v \in Workers, c \in Codes : Minting(v, c)' => Minting(v, c)
      BY <1>5 DEF Renew, Finish, Minting, IndInv, TypeOK
    <3> QED BY <1>5, <3>1 DEF Renew, IndInv, CodesOnce
  <2>4. LifetimeOK'
    <3>1. \A v \in Workers : wpc'[v] = "renew" =>
             wpc[v] = "renew" /\ wreq'[v] = wreq[v] /\ wleft'[v] = wleft[v]
      BY <1>5 DEF Renew, Finish, IndInv, TypeOK
    <3>2. /\ wreq[w].cred \in Sessions /\ UNCHANGED <<idle, issued>>
          /\ sessions' = [sessions EXCEPT ![wreq[w].cred] = wleft[w]] /\ wpc[w] = "renew"
      BY <1>5 DEF Renew, IndInv, CredentialsOK
    <3>3. sessions \in [Sessions -> Ticks(TTL) \cup {Gone}]
      BY DEF IndInv, TypeOK
    <3> QED BY <3>1, <3>2, <3>3 DEF IndInv, LifetimeOK
  <2>5. EndedOK'
    BY <1>5
    DEF Renew, Finish, NoRequest, EndedOK, Renewing, CredentialsOK, TypeOK, Ticks, Gone,
        LifetimeOK
  <2>6. TokensFresh' /\ RedeemedOnce' /\ CreatorsOK' /\ DemoOK'
    BY <1>5 DEF Renew, TokensFresh, RedeemedOnce, CreatorsOK, DemoOK
  <2> QED BY <2>1, <2>2, <2>3, <2>4, <2>5, <2>6
<1>6. ASSUME NEW w \in Workers, handleEnroll(w)
      PROVE  IndInv'
  <2>1. TypeOK'
    <3>1. WorkersTyped'
      BY <1>6, FinishTyped DEF handleEnroll, IndInv
    <3>2. wreq[w].cred \in Sessions
      BY <1>6 DEF handleEnroll, IndInv, CredentialsOK
    <3>3. CodeTTL \in Ticks(CodeTTL)
      BY DEF Ticks
    <3>4. /\ codes' \in [Codes -> Ticks(CodeTTL) \cup {Gone, Never}]
          /\ creator' \in [Codes -> Sessions \cup Devices \cup {None}]
          /\ issued' \subseteq Sessions \cup Codes \cup Devices
      BY <1>6, <3>2, <3>3 DEF handleEnroll, create, IndInv, TypeOK
    <3> QED BY <1>6, <3>1, <3>4 DEF handleEnroll, IndInv, TypeOK, WorkersTyped, AnyRequest
  <2>2. CredentialsOK'
    BY <1>6 DEF handleEnroll, create, Finish, NoRequest, CredentialsOK, TypeOK
  <2>3. CodesOnce'
    BY <1>6
    DEF handleEnroll, create, Finish, NoRequest, CodesOnce, Minting, CredentialsOK, TypeOK,
        Gone, Never, DemoOK, TokensFresh
  <2>4. TokensFresh'
    BY <1>6 DEF handleEnroll, create, Finish, NoRequest, TokensFresh, TypeOK
  <2>5. CreatorsOK'
    BY <1>6 DEF handleEnroll, create, Finish, NoRequest, CreatorsOK, CredentialsOK, TypeOK
  <2>6. LifetimeOK'
    BY <1>6
    DEF handleEnroll, create, Finish, NoRequest, LifetimeOK, CredentialsOK, TypeOK, Ticks, Gone,
        EndedOK
  <2>7. EndedOK'
    BY <1>6
    DEF handleEnroll, create, Finish, NoRequest, EndedOK, Renewing, CredentialsOK, TypeOK,
        Ticks, Gone, LifetimeOK
  <2>8. DemoOK'
    BY <1>6 DEF handleEnroll, create, Finish, NoRequest, DemoOK, TypeOK, Never
  <2>9. RedeemedOnce'
    BY <1>6 DEF handleEnroll, RedeemedOnce
  <2> QED BY <2>1, <2>2, <2>3, <2>4, <2>5, <2>6, <2>7, <2>8, <2>9
<1>7. ASSUME NEW w \in Workers, NEW c \in Codes, consume(w, c)
      PROVE  IndInv'
  <2>1. TypeOK'
    <3>1. [NoRequest EXCEPT !.cred = c] \in AnyRequest
      BY DEF NoRequest, AnyRequest, Ops
    <3>2. WorkersTyped'
      <4>1. CASE Live(codes[c])
        BY <1>7, <3>1, <4>1, AdmitTyped DEF consume, IndInv, TypeOK
      <4>2. CASE ~Live(codes[c])
        BY <1>7, <4>2 DEF consume, IndInv, TypeOK, WorkersTyped, AnyRequest
      <4> QED BY <4>1, <4>2
    <3>3. codes' \in [Codes -> Ticks(CodeTTL) \cup {Gone, Never}]
      BY <1>7 DEF consume, IndInv, TypeOK
    <3> QED BY <1>7, <3>2, <3>3 DEF consume, IndInv, TypeOK, WorkersTyped, AnyRequest
  <2>2. CredentialsOK'
    BY <1>7 DEF consume, Admit, Live, NoRequest, CredentialsOK, TypeOK
  <2>3. CodesOnce'
    <3> SUFFICES ASSUME ~persistent PROVE CodesOnce'
      BY <1>7 DEF consume, CodesOnce
    <3>1. c \in issued /\ codes[c] # Gone
      BY <1>7 DEF consume, IndInv, CodesOnce
    <3>2. \A v \in Workers : ~Minting(v, c)
      BY <3>1 DEF IndInv, CodesOnce
    <3>3. \A d \in Devices : from[d] # c
      BY <3>1 DEF IndInv, CodesOnce
    <3>4. \A b \in Codes : codes'[b] = IF b = c THEN Gone ELSE codes[b]
      BY <1>7 DEF consume, IndInv, TypeOK
    <3>5. \A v \in Workers, b \in Codes : Minting(v, b)' => Minting(v, b) \/ (v = w /\ b = c)
      BY <1>7 DEF consume, Admit, Minting, NoRequest, IndInv, TypeOK
    <3>6. UNCHANGED <<persistent, issued, from>>
      BY <1>7 DEF consume
    <3> QED BY <3>1, <3>2, <3>3, <3>4, <3>5, <3>6 DEF IndInv, CodesOnce
  <2>4. LifetimeOK'
    BY <1>7
    DEF consume, Admit, Live, NoRequest, LifetimeOK, CredentialsOK, TypeOK, Ticks, Gone, EndedOK
  <2>5. EndedOK'
    BY <1>7
    DEF consume, Admit, Live, NoRequest, EndedOK, Renewing, CredentialsOK, TypeOK, Ticks, Gone,
        LifetimeOK
  <2>6. DemoOK'
    BY <1>7 DEF consume, Admit, Live, NoRequest, DemoOK, TypeOK, Never
  <2>7. TokensFresh' /\ RedeemedOnce' /\ CreatorsOK'
    BY <1>7 DEF consume, TokensFresh, RedeemedOnce, CreatorsOK
  <2> QED BY <2>1, <2>2, <2>3, <2>4, <2>5, <2>6, <2>7
<1>8. ASSUME NEW w \in Workers, CreateDeviceToken(w)
      PROVE  IndInv'
  <2>1. TypeOK'
    <3>1. WorkersTyped'
      BY <1>8, FinishTyped DEF CreateDeviceToken, IndInv
    <3>2. wreq[w].cred \in Codes
      BY <1>8 DEF CreateDeviceToken, IndInv, CredentialsOK
    <3>3. /\ devices' \subseteq Devices /\ issued' \subseteq Sessions \cup Codes \cup Devices
          /\ from' \in [Devices -> Codes \cup {None}]
      BY <1>8, <3>2 DEF CreateDeviceToken, IndInv, TypeOK
    <3> QED BY <1>8, <3>1, <3>3 DEF CreateDeviceToken, IndInv, TypeOK, WorkersTyped, AnyRequest
  <2>2. CredentialsOK'
    BY <1>8 DEF CreateDeviceToken, Finish, NoRequest, CredentialsOK, TypeOK
  <2>3. CodesOnce'
    BY <1>8
    DEF CreateDeviceToken, Finish, NoRequest, CodesOnce, Minting, CredentialsOK, TypeOK, Gone,
        Never, DemoOK, TokensFresh
  <2>4. TokensFresh'
    BY <1>8 DEF CreateDeviceToken, Finish, NoRequest, TokensFresh, TypeOK
  <2>5. RedeemedOnce'
    BY <1>8
    DEF CreateDeviceToken, Finish, NoRequest, RedeemedOnce, CodesOnce, Minting, TokensFresh,
        TypeOK, CredentialsOK
  <2>6. LifetimeOK'
    BY <1>8
    DEF CreateDeviceToken, Finish, NoRequest, LifetimeOK, CredentialsOK, TypeOK, Ticks, Gone,
        EndedOK
  <2>7. EndedOK'
    BY <1>8
    DEF CreateDeviceToken, Finish, NoRequest, EndedOK, Renewing, CredentialsOK, TypeOK, Ticks,
        Gone, LifetimeOK
  <2>8. CreatorsOK' /\ DemoOK'
    BY <1>8 DEF CreateDeviceToken, CreatorsOK, DemoOK
  <2> QED BY <2>1, <2>2, <2>3, <2>4, <2>5, <2>6, <2>7, <2>8
<1>9. ASSUME NEW w \in Workers, RevokeDeviceToken(w)
      PROVE  IndInv'
  <2>1. TypeOK'
    <3>1. WorkersTyped'
      BY <1>9, FinishTyped DEF RevokeDeviceToken, IndInv
    <3> QED BY <1>9, <3>1 DEF RevokeDeviceToken, IndInv, TypeOK, CredentialsOK, WorkersTyped, AnyRequest, Gone
  <2>2. CredentialsOK'
    BY <1>9 DEF RevokeDeviceToken, Finish, NoRequest, CredentialsOK, TypeOK
  <2>3. CodesOnce'
    BY <1>9
    DEF RevokeDeviceToken, Finish, NoRequest, CodesOnce, Minting, CredentialsOK, TypeOK, Gone,
        Never, DemoOK, TokensFresh
  <2>4. LifetimeOK'
    BY <1>9
    DEF RevokeDeviceToken, Finish, NoRequest, LifetimeOK, CredentialsOK, TypeOK, Ticks, Gone,
        EndedOK
  <2>5. EndedOK'
    BY <1>9
    DEF RevokeDeviceToken, Finish, NoRequest, EndedOK, Renewing, CredentialsOK, TypeOK, Ticks,
        Gone, LifetimeOK
  <2>6. TokensFresh' /\ RedeemedOnce' /\ CreatorsOK' /\ DemoOK'
    BY <1>9 DEF RevokeDeviceToken, TokensFresh, RedeemedOnce, CreatorsOK, DemoOK
  <2> QED BY <2>1, <2>2, <2>3, <2>4, <2>5, <2>6
<1>10. ASSUME Tick
      PROVE  IndInv'
  <2>1. TypeOK'
    BY <1>10 DEF Tick, Down, TypeOK, Ticks, Gone, Never, Ops
  <2>2. CodesOnce'
    BY <1>10
    DEF Tick, Down, CodesOnce, Minting, CredentialsOK, TypeOK, Gone, Never, DemoOK, TokensFresh
  <2>3. LifetimeOK'
    BY <1>10 DEF Tick, Down, LifetimeOK, CredentialsOK, TypeOK, Ticks, Gone, EndedOK
  <2>4. EndedOK'
    BY <1>10 DEF Tick, Down, EndedOK, Renewing, CredentialsOK, TypeOK, Ticks, Gone, LifetimeOK
  <2>5. DemoOK'
    BY <1>10 DEF Tick, Down, DemoOK, TypeOK, Never
  <2>6. CredentialsOK' /\ TokensFresh' /\ RedeemedOnce' /\ CreatorsOK'
    BY <1>10 DEF Tick, CredentialsOK, TokensFresh, RedeemedOnce, CreatorsOK
  <2> QED BY <2>1, <2>2, <2>3, <2>4, <2>5, <2>6
<1>11. ASSUME cleanupSessions
      PROVE  IndInv'
  <2>1. TypeOK'
    BY <1>11 DEF cleanupSessions, TypeOK, Ticks, Gone, Never, Ops
  <2>2. LifetimeOK'
    BY <1>11 DEF cleanupSessions, LifetimeOK, CredentialsOK, TypeOK, Ticks, Gone, EndedOK
  <2>3. EndedOK'
    BY <1>11 DEF cleanupSessions, EndedOK, Renewing, CredentialsOK, TypeOK, Ticks, Gone, LifetimeOK
  <2>4. CredentialsOK' /\ CodesOnce' /\ TokensFresh' /\ RedeemedOnce' /\ CreatorsOK' /\ DemoOK'
    BY <1>11
    DEF cleanupSessions, CredentialsOK, CodesOnce, TokensFresh, RedeemedOnce, CreatorsOK,
        DemoOK, Minting
  <2> QED BY <2>1, <2>2, <2>3, <2>4
<1>12. ASSUME cleanupCodes
      PROVE  IndInv'
  <2>1. TypeOK'
    BY <1>12 DEF cleanupCodes, TypeOK, Ticks, Gone, Never, Ops
  <2>2. CodesOnce'
    BY <1>12
    DEF cleanupCodes, CodesOnce, Minting, CredentialsOK, TypeOK, Gone, Never, DemoOK,
        TokensFresh
  <2>3. DemoOK'
    BY <1>12 DEF cleanupCodes, DemoOK, TypeOK, Never
  <2>4. CredentialsOK' /\ TokensFresh' /\ RedeemedOnce' /\ CreatorsOK' /\ LifetimeOK' /\ EndedOK'
    BY <1>12
    DEF cleanupCodes, CredentialsOK, TokensFresh, RedeemedOnce, CreatorsOK, LifetimeOK, EndedOK,
        Renewing
  <2> QED BY <2>1, <2>2, <2>3, <2>4
<1>13. ASSUME UNCHANGED vars
      PROVE  IndInv'
  BY <1>13 DEF vars, TypeOK, CredentialsOK, CodesOnce, Minting, TokensFresh, RedeemedOnce,
               CreatorsOK, LifetimeOK, EndedOK, Renewing, DemoOK
<1>14. ASSUME NEW w \in Workers, WorkerNext(w)
       PROVE  IndInv'
  <2>1. ASSUME NEW s \in Sessions PROVE
          LET req == [NoRequest EXCEPT !.cred = s]
          IN  req \in [cred : Sessions, op : Ops, arg : Devices \cup {None}]
    BY DEF NoRequest, Ops
  <2>2. ASSUME NEW s \in Sessions, NEW o \in {"enroll", "revoke"}, NEW d \in Devices \cup {None}
        PROVE  Request(s, o, d) \in [cred : Sessions, op : Ops, arg : Devices \cup {None}]
    BY DEF Request, Ops
  <2>3. ASSUME NEW cred \in Sessions \cup Devices,
               NEW o \in {"enroll", "revoke"}, NEW d \in Devices \cup {None},
               requireAdminSession(w, Request(cred, o, d))
        PROVE  IndInv'
    <3>1. cred \in Sessions
      BY <2>3 DEF requireAdminSession, Request
    <3> QED BY <1>3, <2>2, <2>3, <3>1 DEF requireAdminSession
  <2>4. ASSUME NEW s \in Sessions, requireSession(w, s) \/ requireSessionPage(w, s)
        PROVE  IndInv'
    BY <1>3, <2>1, <2>4 DEF requireSession, requireSessionPage
  <2> QED BY <1>4, <1>5, <1>6, <1>7, <1>8, <1>9, <1>14, <2>3, <2>4 DEF WorkerNext, handlePair
<1> QED BY <1>1, <1>2, <1>10, <1>11, <1>12, <1>13, <1>14 DEF Next

\* Initially there are no sessions and no requests.
LEMMA InitInv == Init => IndInv
<1> SUFFICES ASSUME Init PROVE IndInv
  OBVIOUS
<1> USE AccessAssumption DEF Init
<1>1. NoRequest \in AnyRequest
  BY DEF NoRequest, AnyRequest, Ops
<1>2. TypeOK
  BY <1>1 DEF TypeOK, AnyRequest, Ticks, Gone, Never
<1> QED
  BY <1>2 DEF IndInv, CredentialsOK, CodesOnce, Minting, TokensFresh, RedeemedOnce, CreatorsOK,
              LifetimeOK, EndedOK, DemoOK, Gone

\* So it holds in every reachable state.
LEMMA Invariance == Spec => []IndInv
BY InitInv, NextInv, PTL DEF Spec

\* Any number of devices may race for a code, and inserts may fail: one device
\* token at most comes of it (enrollStore.consume, handlePair).
THEOREM CodesRedeemOnce == Spec => [](TypeOK /\ RedeemedOnce)
BY Invariance, PTL DEF IndInv

\* Whatever requests devices make, no device token descends from another
\* (requireAdminSession).
THEOREM RevocationIsFinal == Spec => []NoSuccessor
<1>1. IndInv => NoSuccessor
  BY AccessAssumption DEF IndInv, TypeOK, CreatorsOK, NoSuccessor
<1> QED BY <1>1, Invariance, PTL

\* The demo code can be redeemed for as long as the process runs (enrollStore).
THEOREM DemoCodeStays == Spec => []DemoCodeLives
<1>1. IndInv => DemoCodeLives
  BY DEF IndInv, DemoOK, DemoCodeLives, Live
<1> QED BY <1>1, Invariance, PTL

\* The only step that accepts a session is Validate's first half, and it finds the
\* session in the map and not expired.
LEMMA AcceptedByReadSession ==
    ASSUME IndInv, [Next]_vars, NEW w \in Workers, wpc[w] = "idle", wpc'[w] = "renew"
    PROVE  /\ wreq'[w].cred \in Sessions
           /\ sessions[wreq'[w].cred] # Gone /\ sessions[wreq'[w].cred] >= 0
<1> USE DEF IndInv
<1>1. ASSUME NEW v \in Workers, NEW req, ReadSession(v, req), req.cred \in Sessions
      PROVE  /\ wreq'[w].cred \in Sessions
             /\ sessions[wreq'[w].cred] # Gone /\ sessions[wreq'[w].cred] >= 0
  <2>1. sessions[req.cred] \in Int
    BY <1>1 DEF TypeOK, Ticks, Gone
  <2>2. v = w /\ wreq'[w] = req /\ sessions[req.cred] # Gone /\ ~(sessions[req.cred] < 0)
    BY <1>1 DEF ReadSession, Admit, TypeOK
  <2> QED BY <1>1, <2>1, <2>2
<1>2. ASSUME NEW v \in Workers,
             DropExpired(v) \/ Renew(v) \/ handleEnroll(v) \/ RevokeDeviceToken(v) \/ handlePair(v)
      PROVE  FALSE
  BY <1>2 DEF DropExpired, Renew, handleEnroll, RevokeDeviceToken, handlePair, consume,
              CreateDeviceToken, Finish, Admit, TypeOK
<1>3. CASE \/ \E s \in Sessions : Create(s) \/ handleLogout(s)
           \/ Tick \/ cleanupSessions \/ cleanupCodes \/ UNCHANGED vars
  BY <1>3 DEF Create, handleLogout, Tick, cleanupSessions, cleanupCodes, vars
<1>4. ASSUME NEW v \in Workers, NEW req, requireAdminSession(v, req)
      PROVE  /\ wreq'[w].cred \in Sessions
             /\ sessions[wreq'[w].cred] # Gone /\ sessions[wreq'[w].cred] >= 0
  BY <1>1, <1>4 DEF requireAdminSession
<1>5. ASSUME NEW v \in Workers, NEW s \in Sessions, requireSession(v, s) \/ requireSessionPage(v, s)
      PROVE  /\ wreq'[w].cred \in Sessions
             /\ sessions[wreq'[w].cred] # Gone /\ sessions[wreq'[w].cred] >= 0
  <2>1. [NoRequest EXCEPT !.cred = s].cred \in Sessions
    BY DEF NoRequest
  <2> QED BY <1>1, <1>5, <2>1 DEF requireSession, requireSessionPage
<1> QED BY <1>2, <1>3, <1>4, <1>5 DEF Next, WorkerNext

\* No session is accepted once TTL ticks have gone by without an accepted
\* request, cleanup or not, however renewals and logouts interleave (Validate).
THEOREM IdleSessionsRefused == Spec => IdleSessionRefused
<1>1. IndInv /\ [Next]_vars =>
        [\A w \in Workers : wpc[w] = "idle" /\ wpc'[w] = "renew" => idle[wreq'[w].cred] <= TTL]_vars
  <2> SUFFICES ASSUME IndInv, [Next]_vars, NEW w \in Workers, wpc[w] = "idle", wpc'[w] = "renew"
               PROVE  idle[wreq'[w].cred] <= TTL
    OBVIOUS
  <2> DEFINE s == wreq'[w].cred
  <2>1. s \in Sessions /\ sessions[s] >= 0
    BY AcceptedByReadSession
  <2> HIDE DEF s
  <2>2. sessions[s] + idle[s] <= TTL /\ sessions[s] \in Int /\ idle[s] \in Int
    BY <2>1 DEF IndInv, LifetimeOK, TypeOK, Ticks, Gone
  <2>3. idle[s] <= TTL
    BY <2>1, <2>2, AccessAssumption
  <2> QED BY <2>3 DEF s
<1> QED BY <1>1, Invariance, PTL DEF Spec, IdleSessionRefused

\* A session logged out while nobody was renewing it is never accepted again,
\* however many requests race (SessionStore.Delete, Validate).
THEOREM LogoutsHold == Spec => LogoutHolds
<1>1. IndInv /\ [Next]_vars =>
        [\A w \in Workers : wpc[w] = "idle" /\ wpc'[w] = "renew" => wreq'[w].cred \notin ended]_vars
  <2> SUFFICES ASSUME IndInv, [Next]_vars, NEW w \in Workers, wpc[w] = "idle", wpc'[w] = "renew"
               PROVE  wreq'[w].cred \notin ended
    OBVIOUS
  <2>1. sessions[wreq'[w].cred] # Gone
    BY AcceptedByReadSession
  <2> QED BY <2>1 DEF IndInv, EndedOK
<1> QED BY <1>1, Invariance, PTL DEF Spec, LogoutHolds
==============================================================================
