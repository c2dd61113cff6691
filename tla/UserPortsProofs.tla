--------------------------- MODULE UserPortsProofs ---------------------------
(***************************************************************************)
(* For every number of users, ports, workers and requests: the types, the  *)
(* agreement of the two maps, the absence of zombies, when no request      *)
(* assigns a port the absence of orphans, when requests only pause and     *)
(* resume that MITM keeps the ports open, and when ports are given out one *)
(* at a time that no two users get the same.                               *)
(***************************************************************************)
EXTENDS UserPorts, TLAPS, NaturalsInduction, WellFoundedInduction

-----------------------------------------------------------------------------
(* Facts about the helpers.                                                *)

\* A server start picks a slot nobody uses (startListenerLocked allocates).
LEMMA NewSlotIsFree ==
    ASSUME NEW p, FreeSlots(p) # {}
    PROVE  NewSlot(p) \in FreeSlots(p)
BY DEF NewSlot

\* A server is a pair of a port and a slot.
LEMMA ServerIsPair ==
    \A s \in Srv : \E p \in Ports, k \in Slots : s = <<p, k>>
BY DEF Srv

\* nextAvailablePort finds a port of the range that no row uses.
LEMMA NextPortIsFree ==
    ASSUME InRange \ UsedPorts # {}
    PROVE  nextAvailablePort \in InRange \ UsedPorts
<1> DEFINE F == InRange \ UsedPorts
<1>1. F \subseteq Nat
  BY ConstantsAssumption
<1>2. \E p \in F : \A q \in F : ~(<<q, p>> \in OpToRel(<, Nat))
  BY <1>1, NatLessThanWellFounded, WFMin, Zenon
<1>3. ASSUME NEW p \in Nat, NEW q \in Nat, q < p
      PROVE  <<q, p>> \in OpToRel(<, Nat)
  <2>1. /\ <<q, p>> \in Nat \X Nat
        /\ <<q, p>>[1] < <<q, p>>[2]
    BY <1>3
  <2> QED
    BY <2>1, Zenon DEF OpToRel
<1>4. PICK p \in F : \A q \in F : ~(<<q, p>> \in OpToRel(<, Nat))
  BY <1>2, Zenon
<1>5. \A q \in F : ~(q < p)
  BY <1>1, <1>3, <1>4, Zenon
<1>6. \A q \in F : p <= q
  <2> HIDE DEF F
  <2> QED BY <1>1, <1>5
<1> QED
  BY <1>6 DEF nextAvailablePort

-----------------------------------------------------------------------------
(* Each kind of critical section keeps the maps and the servers sound.     *)

\* The types of the maps and the servers.
MapsTyped == /\ userServers \in [Ports -> Slots \cup {NoSlot}]
             /\ portUsers \in [Ports -> Users \cup {NoUser}]
             /\ st \in [Srv -> SrvStates]
             /\ own \in [Srv -> Users \cup {NoUser}]

\* All that a critical section must keep of them.
MapsSound == MapsTyped /\ Held \subseteq Srv /\ MapsAgree /\ NoZombie /\ HeldUntracked

\* A step that touches neither maps nor servers and hands none over.
LEMMA FrameStep ==
    ASSUME MapsSound, UNCHANGED <<mapVars, srvVars>>, Held' \subseteq Held
    PROVE  MapsSound'
BY DEF MapsSound, MapsTyped, MapsAgree, NoZombie, HeldUntracked, Tracked, IsTracked,
       mapVars, srvVars

\* Starting servers on ports that have users.
LEMMA StartStep ==
    ASSUME MapsSound, NEW P \in SUBSET Ports, NEW user,
           \A p \in P : user[p] \in Users,
           startListenerLocked(P, user), Held' = Held
    PROVE  MapsSound'
<1> USE ConstantsAssumption
<1>1. \A p \in P : /\ NewSlot(p) \in Slots
                    /\ <<p, NewSlot(p)>> \notin Held
  BY NewSlotIsFree DEF startListenerLocked, FreeSlots
<1>2. MapsTyped'
  BY <1>1 DEF MapsSound, MapsTyped, startListenerLocked, SrvStates
<1>3. MapsAgree'
  BY <1>1 DEF MapsSound, MapsTyped, MapsAgree, Tracked, startListenerLocked
<1>4. ASSUME NEW s \in Srv, IsTracked(s)'
      PROVE  (st'[s] \in LiveStates \cup {"failed"}) /\ s \notin Held
  <2>1. PICK p \in Ports, k \in Slots : s = <<p, k>>
    BY ServerIsPair
  <2>2. CASE p \in P
    <3>1. k = NewSlot(p)
      BY <1>4, <2>1, <2>2 DEF IsTracked, startListenerLocked
    <3>2. st'[s] \in {"demo", "starting"}
      BY <2>1, <2>2, <3>1 DEF startListenerLocked
    <3> QED BY <1>1, <2>1, <2>2, <3>1, <3>2 DEF LiveStates
  <2>3. CASE p \notin P
    <3>1. IsTracked(s) /\ st'[s] = st[s]
      BY <1>4, <2>1, <2>3 DEF IsTracked, startListenerLocked
    <3> QED BY <3>1 DEF MapsSound, NoZombie, HeldUntracked
  <2> QED BY <2>2, <2>3
<1>5. NoZombie'
  BY <1>4 DEF NoZombie
<1>6. HeldUntracked'
  BY <1>4 DEF MapsSound, HeldUntracked
<1> QED
  BY <1>2, <1>3, <1>5, <1>6 DEF MapsSound

\* Taking servers out of the maps, into the hands of whoever shuts them down.
LEMMA UntrackStep ==
    ASSUME MapsSound, NEW P \in SUBSET Ports, Untrack(P), UNCHANGED srvVars,
           Held' \subseteq Held \cup {<<p, userServers[p]>> : p \in {q \in P : Tracked(q)}}
    PROVE  MapsSound'
<1> USE ConstantsAssumption
<1>1. MapsTyped'
  BY DEF MapsSound, MapsTyped, Untrack, srvVars
<1>2. Held' \subseteq Srv
  <2>1. ASSUME NEW p \in Ports, Tracked(p) PROVE <<p, userServers[p]>> \in Srv
    BY <2>1 DEF MapsSound, MapsTyped, Srv, Tracked
  <2>2. ASSUME NEW s \in Held', s \notin Held PROVE s \in Srv
    <3>1. PICK p \in {q \in P : Tracked(q)} : s = <<p, userServers[p]>>
      BY <2>2
    <3> QED BY <2>1, <3>1
  <2> QED BY <2>2 DEF MapsSound
<1>3. MapsAgree'
  BY DEF MapsSound, MapsTyped, MapsAgree, Tracked, Untrack
<1>4. ASSUME NEW s \in Srv, IsTracked(s)'
      PROVE  IsTracked(s) /\ s[1] \notin P /\ st'[s] = st[s]
  <2>1. PICK p \in Ports, k \in Slots : s = <<p, k>>
    BY ServerIsPair
  <2> QED BY <1>4, <2>1 DEF IsTracked, Untrack, srvVars
<1>5. NoZombie'
  BY <1>4 DEF MapsSound, NoZombie
<1>6. HeldUntracked'
  BY <1>2, <1>4 DEF MapsSound, HeldUntracked
<1> QED
  BY <1>1, <1>2, <1>3, <1>5, <1>6 DEF MapsSound

\* Shutting down a server that is out of the maps.
LEMMA ShutdownStep ==
    ASSUME MapsSound, NEW s \in Held, ShutdownServer(s), UNCHANGED mapVars,
           Held' \subseteq Held
    PROVE  MapsSound'
<1>1. s \in Srv /\ ~IsTracked(s)
  BY DEF MapsSound, HeldUntracked
<1>2. AfterShutdown(s) \in SrvStates
  BY <1>1 DEF MapsSound, MapsTyped, AfterShutdown, SrvStates
<1>3. MapsTyped'
  BY <1>1, <1>2 DEF MapsSound, MapsTyped, ShutdownServer, mapVars
<1>4. MapsAgree'
  BY DEF MapsSound, MapsAgree, Tracked, mapVars
<1>5. NoZombie'
  BY <1>1 DEF MapsSound, MapsTyped, NoZombie, IsTracked, ShutdownServer, mapVars
<1>6. HeldUntracked'
  BY DEF MapsSound, HeldUntracked, IsTracked, mapVars
<1> QED
  BY <1>3, <1>4, <1>5, <1>6 DEF MapsSound

\* A server's goroutine goes on: a tracked one from live to live or failed.
LEMMA GoroutineStep ==
    ASSUME MapsSound, NEW s \in Srv, NEW from, NEW to \in SrvStates,
           ServerStep(s, from, to), UNCHANGED mapVars,
           to \in LiveStates \cup {"failed"} \/ from \notin LiveStates \cup {"failed"}
    PROVE  MapsSound'
<1>1. Held' = Held /\ st' = [st EXCEPT ![s] = to] /\ st[s] = from
  BY DEF ServerStep, Held, recVars, wkVars, mainVars
<1>2. MapsTyped'
  BY <1>1 DEF MapsSound, MapsTyped, ServerStep, mapVars
<1>3. MapsAgree' /\ HeldUntracked'
  BY <1>1 DEF MapsSound, MapsAgree, Tracked, HeldUntracked, IsTracked, mapVars
<1>4. NoZombie'
  BY <1>1 DEF MapsSound, MapsTyped, NoZombie, IsTracked, mapVars
<1> QED
  BY <1>1, <1>2, <1>3, <1>4 DEF MapsSound

-----------------------------------------------------------------------------
(* The control state: everything but the maps and the servers.             *)

\* The types of everything else.
ControlTyped ==
    /\ row \in [Users -> [ex : BOOLEAN, port : Ports \cup {0}, en : BOOLEAN]]
    /\ enabledCache \in [Users -> BOOLEAN]
    /\ sched \in [Users -> BOOLEAN]
    /\ override \in [Users -> BOOLEAN]
    /\ until \in [Users -> BOOLEAN]
    /\ rpc \in {"idle", "decide", "shutdown"}
    /\ rmap \in [Ports -> Users \cup {NoUser}]
    /\ rtodo \in SUBSET Ports
    /\ rheld \in SUBSET Srv
    /\ wpc \in [Workers -> WorkerStates]
    /\ wreq \in [Workers -> Requests]
    /\ wport \in [Workers -> Ports \cup {0}]
    /\ wheld \in [Workers -> SUBSET Srv]
    /\ cfg \in Configs
    /\ mpc \in {"run", "stopping", "closing"}
    /\ mheld \in SUBSET Srv
    /\ contested \in SUBSET Ports
    /\ ops \in 0..MaxOps /\ faults \in 0..MaxFaults /\ clock \in 0..MaxClock

\* Everything else a step must keep.
Control == ControlTyped /\ RequestShape /\ HeldShape

\* The inductive invariant, split for the proof of a step.
LEMMA IndInvSplit == IndInv <=> Control /\ MapsSound
<1>1. ControlTyped => Held \subseteq Srv
  BY DEF ControlTyped, Held
<1> QED
  BY <1>1 DEF IndInv, TypeOK, Control, ControlTyped, MapsSound, MapsTyped

\* The database and cache writes and reads of a worker: no map, no server.
QuietWorkerStep(w) ==
    \/ NewRequest(w)   \/ WriteCache(w)    \/ ListUsers(w)
    \/ InsertRow(w)    \/ CacheNewUser(w)  \/ FindOldPort(w)
    \/ UpdatePortRow(w) \/ DeleteRow(w)    \/ DeleteCaches(w)

\* The types of a worker's control state.
WorkerTyped == /\ wpc \in [Workers -> WorkerStates]
               /\ wreq \in [Workers -> Requests]
               /\ wport \in [Workers -> Ports \cup {0}]

\* The labels a worker may go to without a port in hand or a server held.
PlainLabels == WorkerStates \ {"start", "stop", "stopOld", "startNew", "shutdown"}

\* A worker accepts a well-formed request.
LEMMA AcceptKeeps ==
    ASSUME NEW w \in Workers, Control, NEW req \in Requests, Accept(w, req),
           req.u \in Users, req.p # 0 => req.p \in AssignPorts \/ req.op = "Create",
           NEW l \in PlainLabels, Goto(w, l), wport' = wport
    PROVE  WorkerTyped' /\ RequestShape' /\ ops' \in 0..MaxOps /\ contested' \in SUBSET Ports /\ wpc[w] = "idle"
<1> USE ConstantsAssumption
<1>1. WorkerTyped' /\ ops' \in 0..MaxOps /\ wpc[w] = "idle"
  BY DEF WorkerTyped, Accept, Control, ControlTyped, Goto, PlainLabels
<1>3. contested' \in SUBSET Ports
  BY DEF Accept, Contest, Requests, Control, ControlTyped
<1>2. RequestShape'
  BY DEF Goto, Accept, Control, ControlTyped, RequestShape, PlainLabels
<1> QED BY <1>1, <1>2, <1>3

\* A worker finishes its request.
LEMMA FinishKeeps ==
    ASSUME NEW w \in Workers, Control, Finish(w)
    PROVE  WorkerTyped' /\ RequestShape'
<1>1. NoRequest \in Requests /\ NoRequest.op = "none" /\ NoRequest.p = 0
  BY DEF NoRequest, Requests
<1>2. WorkerTyped'
  BY <1>1 DEF Finish, Goto, Control, ControlTyped, WorkerTyped, WorkerStates
<1>3. RequestShape'
  BY <1>1 DEF Finish, Goto, Control, ControlTyped, RequestShape
<1> QED BY <1>2, <1>3

\* A busy worker goes on.
LEMMA GotoKeeps ==
    ASSUME NEW w \in Workers, Control, wpc[w] # "idle", UNCHANGED <<wreq, wport>>,
           NEW l \in PlainLabels \cup {"startNew", "shutdown"},
           l = "startNew" => wreq[w].p # 0, Goto(w, l)
    PROVE  WorkerTyped' /\ RequestShape'
BY DEF Goto, Control, ControlTyped, RequestShape, WorkerTyped, WorkerStates, PlainLabels

\* A busy worker goes on with a port in hand.
LEMMA GotoPortKeeps ==
    ASSUME NEW w \in Workers, Control, wpc[w] # "idle", wreq' = wreq,
           NEW l \in {"start", "stop", "stopOld"}, Goto(w, l),
           NEW p \in Ports, wport' = [wport EXCEPT ![w] = p]
    PROVE  WorkerTyped' /\ RequestShape'
BY DEF Goto, Control, ControlTyped, RequestShape, WorkerTyped, WorkerStates

\* Nobody takes or releases a server.
LEMMA NoHandover ==
    ASSUME NEW w \in Workers, Control, wpc[w] # "shutdown",
           NEW l \in WorkerStates, l # "shutdown", Goto(w, l),
           UNCHANGED <<wheld, recVars, mainVars>>
    PROVE  HeldShape' /\ Held' = Held
<1>1. HeldShape'
  BY DEF Goto, Control, ControlTyped, HeldShape, recVars, mainVars
<1> QED BY <1>1 DEF Held, recVars, mainVars

\* Each quiet step of a worker keeps the control state in shape.
LEMMA QuietControl ==
    ASSUME Control, NEW w \in Workers, QuietWorkerStep(w)
    PROVE  Control' /\ Held' = Held /\ UNCHANGED <<mapVars, srvVars>>
<1> DEFINE Goal == Control' /\ Held' = Held /\ UNCHANGED <<mapVars, srvVars>>
<1> USE ConstantsAssumption
<1>0. ASSUME WorkerTyped', RequestShape', HeldShape', Held' = Held, UNCHANGED <<mapVars, srvVars, recVars, wheld, mainVars>>,
             row' \in [Users -> [ex : BOOLEAN, port : Ports \cup {0}, en : BOOLEAN]],
             enabledCache' \in [Users -> BOOLEAN], sched' \in [Users -> BOOLEAN],
             override' \in [Users -> BOOLEAN], until' \in [Users -> BOOLEAN],
             ops' \in 0..MaxOps, contested' \in SUBSET Ports, UNCHANGED <<faults, clock>>
      PROVE  Goal
  BY <1>0 DEF Control, ControlTyped, WorkerTyped, recVars, mainVars
<1>1. ASSUME NEW u \in Users, NEW b \in BOOLEAN, NEW o \in {"SetEnabled", "Schedule", "Override", "Now"},
             UpdateRow(w, Request(o, u, b, 0))
      PROVE  Goal
  <2> DEFINE req == Request(o, u, b, 0)
             l == "cache"
  <2>1. /\ req \in Requests /\ req.u \in Users
        /\ req.p # 0 => req.p \in AssignPorts \/ req.op = "Create"
    BY DEF Request, Requests, AllOps
  <2>2. l \in PlainLabels /\ l \in WorkerStates /\ l # "shutdown"
    BY DEF PlainLabels, WorkerStates
  <2>3. /\ Accept(w, req) /\ Goto(w, l) /\ wport' = wport
        /\ UNCHANGED <<enabledCache, sched, override, until, mapVars, srvVars, recVars, wheld, mainVars, faults, clock>>
    BY <1>1 DEF UpdateRow, dbVars
  <2>4. row' \in [Users -> [ex : BOOLEAN, port : Ports \cup {0}, en : BOOLEAN]]
    <3>1. /\ [row[u] EXCEPT !.en = b] \in [ex : BOOLEAN, port : Ports \cup {0}, en : BOOLEAN]
          /\ req.u = u /\ req.b = b
      BY DEF Control, ControlTyped, Request
    <3> HIDE DEF req
    <3> QED BY <1>1, <3>1 DEF UpdateRow, Control, ControlTyped, req
  <2> HIDE DEF req, l
  <2>5. WorkerTyped' /\ RequestShape' /\ ops' \in 0..MaxOps /\ contested' \in SUBSET Ports /\ wpc[w] = "idle"
    BY <2>1, <2>2, <2>3, AcceptKeeps
  <2>6. HeldShape' /\ Held' = Held
    BY <2>2, <2>3, <2>5, NoHandover
  <2> QED BY <1>0, <2>3, <2>4, <2>5, <2>6 DEF Control, ControlTyped
<1>2. ASSUME NEW u \in Users, NEW p \in AssignPorts,
             handleUpdatePort(w, u, p)
      PROVE  Goal
  <2> DEFINE req == Request("UpdatePort", u, FALSE, p)
             l == "findOld"
  <2>1. /\ req \in Requests /\ req.u \in Users
        /\ req.p # 0 => req.p \in AssignPorts \/ req.op = "Create"
    BY DEF Request, Requests, AllOps
  <2>2. l \in PlainLabels /\ l \in WorkerStates /\ l # "shutdown"
    BY DEF PlainLabels, WorkerStates
  <2>3. /\ Accept(w, req) /\ Goto(w, l) /\ wport' = wport
        /\ UNCHANGED <<enabledCache, sched, override, until, mapVars, srvVars, recVars, wheld, mainVars, faults, clock>>
    BY <1>2 DEF handleUpdatePort, dbVars
  <2>4. row' \in [Users -> [ex : BOOLEAN, port : Ports \cup {0}, en : BOOLEAN]]
    BY <1>2, <2>1 DEF handleUpdatePort, dbVars, Control, ControlTyped
  <2> HIDE DEF req, l
  <2>5. WorkerTyped' /\ RequestShape' /\ ops' \in 0..MaxOps /\ contested' \in SUBSET Ports /\ wpc[w] = "idle"
    BY <2>1, <2>2, <2>3, AcceptKeeps
  <2>6. HeldShape' /\ Held' = Held
    BY <2>2, <2>3, <2>5, NoHandover
  <2> QED BY <1>0, <2>3, <2>4, <2>5, <2>6 DEF Control, ControlTyped
<1>3. ASSUME NEW u \in Users,
             handleCreateUser(w, u)
      PROVE  Goal
  <2> DEFINE req == Request("Create", u, FALSE, nextAvailablePort)
             l == "insert"
  <2>1. /\ req \in Requests /\ req.u \in Users
        /\ req.p # 0 => req.p \in AssignPorts \/ req.op = "Create"
    BY <1>3, NextPortIsFree DEF Request, Requests, AllOps, handleCreateUser
  <2>2. l \in PlainLabels /\ l \in WorkerStates /\ l # "shutdown"
    BY DEF PlainLabels, WorkerStates
  <2>3. /\ Accept(w, req) /\ Goto(w, l) /\ wport' = wport
        /\ UNCHANGED <<enabledCache, sched, override, until, mapVars, srvVars, recVars, wheld, mainVars, faults, clock>>
    BY <1>3 DEF handleCreateUser, dbVars
  <2>4. row' \in [Users -> [ex : BOOLEAN, port : Ports \cup {0}, en : BOOLEAN]]
    BY <1>3, <2>1 DEF handleCreateUser, dbVars, Control, ControlTyped
  <2> HIDE DEF req, l
  <2>5. WorkerTyped' /\ RequestShape' /\ ops' \in 0..MaxOps /\ contested' \in SUBSET Ports /\ wpc[w] = "idle"
    BY <2>1, <2>2, <2>3, AcceptKeeps
  <2>6. HeldShape' /\ Held' = Held
    BY <2>2, <2>3, <2>5, NoHandover
  <2> QED BY <1>0, <2>3, <2>4, <2>5, <2>6 DEF Control, ControlTyped
<1>4. ASSUME NEW u \in Users,
             handleDeleteUser(w, u)
      PROVE  Goal
  <2> DEFINE req == Request("Delete", u, FALSE, 0)
             l == IF row[u].ex /\ row[u].port # 0 THEN "findOld" ELSE "dbDelete"
  <2>1. /\ req \in Requests /\ req.u \in Users
        /\ req.p # 0 => req.p \in AssignPorts \/ req.op = "Create"
    BY DEF Request, Requests, AllOps
  <2>2. l \in PlainLabels /\ l \in WorkerStates /\ l # "shutdown"
    BY DEF PlainLabels, WorkerStates
  <2>3. /\ Accept(w, req) /\ Goto(w, l) /\ wport' = wport
        /\ UNCHANGED <<enabledCache, sched, override, until, mapVars, srvVars, recVars, wheld, mainVars, faults, clock>>
    BY <1>4 DEF handleDeleteUser, dbVars
  <2>4. row' \in [Users -> [ex : BOOLEAN, port : Ports \cup {0}, en : BOOLEAN]]
    BY <1>4, <2>1 DEF handleDeleteUser, dbVars, Control, ControlTyped
  <2> HIDE DEF req, l
  <2>5. WorkerTyped' /\ RequestShape' /\ ops' \in 0..MaxOps /\ contested' \in SUBSET Ports /\ wpc[w] = "idle"
    BY <2>1, <2>2, <2>3, AcceptKeeps
  <2>6. HeldShape' /\ Held' = Held
    BY <2>2, <2>3, <2>5, NoHandover
  <2> QED BY <1>0, <2>3, <2>4, <2>5, <2>6 DEF Control, ControlTyped
<1>5. CASE NewRequest(w)
  BY <1>1, <1>2, <1>3, <1>4, <1>5 DEF NewRequest, handleSetEnabled, handleUpdateDowntime,
     handleDowntimeOverride, handleDowntimeNow
<1>6. CASE WriteCache(w)
  <2>1. PICK l \in WorkerStates : l # "shutdown" /\ Goto(w, l)
    BY <1>6 DEF WriteCache, Finish, WorkerStates
  <2>2. HeldShape' /\ Held' = Held
    BY <1>6, <2>1, NoHandover DEF WriteCache, Finish
  <2>3. WorkerTyped' /\ RequestShape'
    <3>1. CASE Finish(w)
      BY <3>1, FinishKeeps
    <3>2. CASE wreq' = wreq /\ wport' = wport
      BY <1>6, <3>2, GotoKeeps DEF WriteCache, Finish, PlainLabels, WorkerStates
    <3> QED BY <1>6, <3>1, <3>2 DEF WriteCache
  <2>4. row' \in [Users -> [ex : BOOLEAN, port : Ports \cup {0}, en : BOOLEAN]]
    BY <1>6 DEF WriteCache, dbVars, Control, ControlTyped, Requests, NoRow
  <2>5. /\ enabledCache' \in [Users -> BOOLEAN] /\ sched' \in [Users -> BOOLEAN]
        /\ override' \in [Users -> BOOLEAN] /\ until' \in [Users -> BOOLEAN]
    BY <1>6 DEF WriteCache, dbVars, Control, ControlTyped, Requests
  <2> QED BY <1>0, <1>6, <2>2, <2>3, <2>4, <2>5 DEF WriteCache, Control, ControlTyped
<1>7. CASE ListUsers(w)
  <2>1. PICK l \in WorkerStates : l # "shutdown" /\ Goto(w, l)
    BY <1>7 DEF ListUsers, Finish, WorkerStates, AfterList
  <2>2. HeldShape' /\ Held' = Held
    BY <1>7, <2>1, NoHandover DEF ListUsers, Finish
  <2>3. WorkerTyped' /\ RequestShape'
    <3>1. CASE Finish(w)
      BY <3>1, FinishKeeps
    <3>2. CASE wreq' = wreq /\ \E p \in Ports : wport' = [wport EXCEPT ![w] = p] /\ (\E next \in {"start", "stop"} : Goto(w, next))
      BY <1>7, <3>2, GotoPortKeeps DEF ListUsers, PlainLabels, WorkerStates, AfterList
    <3> QED BY <1>7, <3>1, <3>2 DEF ListUsers, AfterList, Control, ControlTyped, RequestShape
  <2>4. row' \in [Users -> [ex : BOOLEAN, port : Ports \cup {0}, en : BOOLEAN]]
    BY <1>7 DEF ListUsers, dbVars, Control, ControlTyped, Requests, NoRow
  <2>5. /\ enabledCache' \in [Users -> BOOLEAN] /\ sched' \in [Users -> BOOLEAN]
        /\ override' \in [Users -> BOOLEAN] /\ until' \in [Users -> BOOLEAN]
    BY <1>7 DEF ListUsers, dbVars, Control, ControlTyped, Requests
  <2> QED BY <1>0, <1>7, <2>2, <2>3, <2>4, <2>5 DEF ListUsers, Control, ControlTyped
<1>8. CASE InsertRow(w)
  <2>1. PICK l \in WorkerStates : l # "shutdown" /\ Goto(w, l)
    BY <1>8 DEF InsertRow, Finish, WorkerStates
  <2>2. HeldShape' /\ Held' = Held
    BY <1>8, <2>1, NoHandover DEF InsertRow, Finish
  <2>3. WorkerTyped' /\ RequestShape'
    <3>1. CASE Finish(w)
      BY <3>1, FinishKeeps
    <3>2. CASE wreq' = wreq /\ wport' = wport
      BY <1>8, <3>2, GotoKeeps DEF InsertRow, Finish, PlainLabels, WorkerStates
    <3> QED BY <1>8, <3>1, <3>2 DEF InsertRow
  <2>4. row' \in [Users -> [ex : BOOLEAN, port : Ports \cup {0}, en : BOOLEAN]]
    <3>1. wreq[w].u \in Users /\ wreq[w].p \in Ports \cup {0}
      BY <1>8 DEF InsertRow, Control, ControlTyped, RequestShape, Requests
    <3>2. [ex |-> TRUE, port |-> wreq[w].p, en |-> TRUE] \in [ex : BOOLEAN, port : Ports \cup {0}, en : BOOLEAN]
      BY <3>1 DEF Control, ControlTyped
    <3>3. row' = row \/ row' = [row EXCEPT ![wreq[w].u] = [ex |-> TRUE, port |-> wreq[w].p, en |-> TRUE]]
      BY <1>8 DEF InsertRow
    <3>4. row \in [Users -> [ex : BOOLEAN, port : Ports \cup {0}, en : BOOLEAN]]
      BY DEF Control, ControlTyped
    <3> QED BY <3>1, <3>2, <3>3, <3>4
  <2>5. /\ enabledCache' \in [Users -> BOOLEAN] /\ sched' \in [Users -> BOOLEAN]
        /\ override' \in [Users -> BOOLEAN] /\ until' \in [Users -> BOOLEAN]
    BY <1>8 DEF InsertRow, dbVars, Control, ControlTyped, Requests
  <2> QED BY <1>0, <1>8, <2>2, <2>3, <2>4, <2>5 DEF InsertRow, Control, ControlTyped
<1>9. CASE CacheNewUser(w)
  <2>1. PICK l \in WorkerStates : l # "shutdown" /\ Goto(w, l)
    BY <1>9 DEF CacheNewUser, Finish, WorkerStates
  <2>2. HeldShape' /\ Held' = Held
    BY <1>9, <2>1, NoHandover DEF CacheNewUser, Finish
  <2>3. WorkerTyped' /\ RequestShape'
    <3>1. CASE wreq' = wreq /\ wport' = wport
      BY <1>9, <3>1, GotoKeeps DEF CacheNewUser, Finish, PlainLabels, WorkerStates
    <3> QED BY <1>9, <3>1 DEF CacheNewUser
  <2>4. row' \in [Users -> [ex : BOOLEAN, port : Ports \cup {0}, en : BOOLEAN]]
    BY <1>9 DEF CacheNewUser, dbVars, Control, ControlTyped, Requests, NoRow
  <2>5. /\ enabledCache' \in [Users -> BOOLEAN] /\ sched' \in [Users -> BOOLEAN]
        /\ override' \in [Users -> BOOLEAN] /\ until' \in [Users -> BOOLEAN]
    BY <1>9 DEF CacheNewUser, dbVars, Control, ControlTyped, Requests
  <2> QED BY <1>0, <1>9, <2>2, <2>3, <2>4, <2>5 DEF CacheNewUser, Control, ControlTyped
<1>10. CASE FindOldPort(w)
  <2>1. PICK l \in WorkerStates : l # "shutdown" /\ Goto(w, l)
    BY <1>10 DEF FindOldPort, Finish, WorkerStates
  <2>2. HeldShape' /\ Held' = Held
    BY <1>10, <2>1, NoHandover DEF FindOldPort, Finish
  <2>3. WorkerTyped' /\ RequestShape'
    <3>1. CASE Goto(w, "updatePort") /\ wreq' = wreq /\ wport' = wport
      BY <1>10, <3>1, GotoKeeps DEF FindOldPort, Finish, PlainLabels, WorkerStates
    <3>2. CASE wreq' = wreq /\ \E p \in Ports : wport' = [wport EXCEPT ![w] = p] /\ Goto(w, "stopOld")
      BY <1>10, <3>2, GotoPortKeeps DEF FindOldPort, PlainLabels, WorkerStates
    <3> QED BY <1>10, <3>1, <3>2 DEF FindOldPort, Control, ControlTyped, RequestShape
  <2>4. row' \in [Users -> [ex : BOOLEAN, port : Ports \cup {0}, en : BOOLEAN]]
    BY <1>10 DEF FindOldPort, dbVars, Control, ControlTyped, Requests, NoRow
  <2>5. /\ enabledCache' \in [Users -> BOOLEAN] /\ sched' \in [Users -> BOOLEAN]
        /\ override' \in [Users -> BOOLEAN] /\ until' \in [Users -> BOOLEAN]
    BY <1>10 DEF FindOldPort, dbVars, Control, ControlTyped, Requests
  <2> QED BY <1>0, <1>10, <2>2, <2>3, <2>4, <2>5 DEF FindOldPort, Control, ControlTyped
<1>11. CASE UpdatePortRow(w)
  <2>1. PICK l \in WorkerStates : l # "shutdown" /\ Goto(w, l)
    BY <1>11 DEF UpdatePortRow, Finish, WorkerStates
  <2>2. HeldShape' /\ Held' = Held
    BY <1>11, <2>1, NoHandover DEF UpdatePortRow, Finish
  <2>3. WorkerTyped' /\ RequestShape'
    <3>1. CASE Finish(w)
      BY <3>1, FinishKeeps
    <3>2. CASE wreq' = wreq /\ wport' = wport
      BY <1>11, <3>2, GotoKeeps DEF UpdatePortRow, Finish, PlainLabels, WorkerStates
    <3> QED BY <1>11, <3>1, <3>2 DEF UpdatePortRow
  <2>4. row' \in [Users -> [ex : BOOLEAN, port : Ports \cup {0}, en : BOOLEAN]]
    <3>1. wreq[w].u \in Users /\ wreq[w].p \in Ports \cup {0}
      BY <1>11 DEF UpdatePortRow, Control, ControlTyped, RequestShape, Requests
    <3>2. [row[wreq[w].u] EXCEPT !.port = wreq[w].p] \in [ex : BOOLEAN, port : Ports \cup {0}, en : BOOLEAN]
      <4>1. PICK e \in BOOLEAN, q \in Ports \cup {0}, n \in BOOLEAN :
                   row[wreq[w].u] = [ex |-> e, port |-> q, en |-> n]
        BY <3>1 DEF Control, ControlTyped
      <4>2. [row[wreq[w].u] EXCEPT !.port = wreq[w].p] = [ex |-> e, port |-> wreq[w].p, en |-> n]
        BY <4>1
      <4> QED BY <3>1, <4>1, <4>2
    <3> QED BY <1>11, <3>1, <3>2 DEF UpdatePortRow, Control, ControlTyped
  <2>5. /\ enabledCache' \in [Users -> BOOLEAN] /\ sched' \in [Users -> BOOLEAN]
        /\ override' \in [Users -> BOOLEAN] /\ until' \in [Users -> BOOLEAN]
    BY <1>11 DEF UpdatePortRow, dbVars, Control, ControlTyped, Requests
  <2> QED BY <1>0, <1>11, <2>2, <2>3, <2>4, <2>5 DEF UpdatePortRow, Control, ControlTyped
<1>12. CASE DeleteRow(w)
  <2>1. PICK l \in WorkerStates : l # "shutdown" /\ Goto(w, l)
    BY <1>12 DEF DeleteRow, Finish, WorkerStates
  <2>2. HeldShape' /\ Held' = Held
    BY <1>12, <2>1, NoHandover DEF DeleteRow, Finish
  <2>3. WorkerTyped' /\ RequestShape'
    <3>1. CASE Finish(w)
      BY <3>1, FinishKeeps
    <3>2. CASE wreq' = wreq /\ wport' = wport
      BY <1>12, <3>2, GotoKeeps DEF DeleteRow, Finish, PlainLabels, WorkerStates
    <3> QED BY <1>12, <3>1, <3>2 DEF DeleteRow
  <2>4. row' \in [Users -> [ex : BOOLEAN, port : Ports \cup {0}, en : BOOLEAN]]
    BY <1>12 DEF DeleteRow, dbVars, Control, ControlTyped, Requests, NoRow
  <2>5. /\ enabledCache' \in [Users -> BOOLEAN] /\ sched' \in [Users -> BOOLEAN]
        /\ override' \in [Users -> BOOLEAN] /\ until' \in [Users -> BOOLEAN]
    BY <1>12 DEF DeleteRow, dbVars, Control, ControlTyped, Requests
  <2> QED BY <1>0, <1>12, <2>2, <2>3, <2>4, <2>5 DEF DeleteRow, Control, ControlTyped
<1>13. CASE DeleteCaches(w)
  <2>1. PICK l \in WorkerStates : l # "shutdown" /\ Goto(w, l)
    BY <1>13 DEF DeleteCaches, Finish, WorkerStates
  <2>2. HeldShape' /\ Held' = Held
    BY <1>13, <2>1, NoHandover DEF DeleteCaches, Finish
  <2>3. WorkerTyped' /\ RequestShape'
    <3>1. CASE Finish(w)
      BY <3>1, FinishKeeps
    <3> QED BY <1>13, <3>1 DEF DeleteCaches
  <2>4. row' \in [Users -> [ex : BOOLEAN, port : Ports \cup {0}, en : BOOLEAN]]
    BY <1>13 DEF DeleteCaches, dbVars, Control, ControlTyped, Requests, NoRow
  <2>5. /\ enabledCache' \in [Users -> BOOLEAN] /\ sched' \in [Users -> BOOLEAN]
        /\ override' \in [Users -> BOOLEAN] /\ until' \in [Users -> BOOLEAN]
    BY <1>13 DEF DeleteCaches, dbVars, Control, ControlTyped, Requests
  <2> QED BY <1>0, <1>13, <2>2, <2>3, <2>4, <2>5 DEF DeleteCaches, Control, ControlTyped
<1> QED
  BY <1>5, <1>6, <1>7, <1>8, <1>9, <1>10, <1>11, <1>12, <1>13 DEF QuietWorkerStep

\* The steps of a worker that touch the maps or shut a server down.
LEMMA MapWorkerStep ==
    ASSUME Control, MapsSound, NEW w \in Workers,
           \/ StartListener(w) \/ StopListener(w) \/ StopOldPort(w)
           \/ WorkerShutdown(w) \/ StartNewPort(w)
    PROVE  Control' /\ MapsSound'
<1> USE ConstantsAssumption
<1>0. ASSUME WorkerTyped', RequestShape', HeldShape', wheld' \in [Workers -> SUBSET Srv],
             UNCHANGED <<dbVars, recVars, mainVars, ops, contested, faults, clock>>
      PROVE  Control'
  BY <1>0 DEF Control, ControlTyped, WorkerTyped, dbVars, recVars, mainVars
<1>1. CASE StartListener(w)
  <2>1. wport[w] \in Ports /\ wreq[w].u \in Users /\ wpc[w] # "shutdown"
    BY <1>1 DEF StartListener, Control, RequestShape
  <2>2. HeldShape' /\ Held' = Held
    BY <1>1, NoHandover DEF StartListener, Finish, WorkerStates
  <2>3. MapsSound'
    <3>1. CASE Tracked(wport[w])
      <4>1. portUsers' = [portUsers EXCEPT ![wport[w]] = wreq[w].u] /\ UNCHANGED <<userServers, srvVars>>
        BY <1>1, <3>1 DEF StartListener
      <4>2. MapsTyped' /\ MapsAgree'
        BY <2>1, <3>1, <4>1 DEF MapsSound, MapsTyped, MapsAgree, Tracked, srvVars
      <4> QED BY <2>2, <4>1, <4>2 DEF MapsSound, NoZombie, HeldUntracked, IsTracked, srvVars
    <3>2. CASE ~Tracked(wport[w])
      <4>1. startListenerLocked({wport[w]}, [q \in Ports |-> wreq[w].u])
        BY <1>1, <3>2 DEF StartListener
      <4> DEFINE P == {wport[w]}
                 user == [q \in Ports |-> wreq[w].u]
      <4>2. P \in SUBSET Ports /\ \A p \in P : user[p] \in Users
        BY <2>1
      <4>3. startListenerLocked(P, user)
        BY <4>1
      <4> HIDE DEF P, user
      <4> QED BY <2>2, <4>2, <4>3, StartStep
    <3> QED BY <3>1, <3>2
  <2> QED BY <1>0, <1>1, <2>2, <2>3, FinishKeeps DEF StartListener, Control, ControlTyped
<1>2. ASSUME NEW p \in Ports, NEW next \in {"idle", "updatePort"}, wpc[w] \in {"stop", "stopOld"},
             StopUserListener(w, p, next), UNCHANGED <<dbVars, srvVars, recVars, mainVars, ops, contested, faults, clock>>
      PROVE  Control' /\ MapsSound'
  <2>1. CASE Tracked(p)
    <3>1. /\ Untrack({p}) /\ Goto(w, "shutdown") /\ UNCHANGED <<wreq, wport>>
          /\ wheld' = [wheld EXCEPT ![w] = {<<p, userServers[p]>>}]
      BY <1>2, <2>1 DEF StopUserListener
    <3>2. <<p, userServers[p]>> \in Srv
      BY <2>1 DEF MapsSound, MapsTyped, Tracked, Srv
    <3>3. WorkerTyped' /\ RequestShape'
      BY <1>2, <3>1, GotoKeeps DEF PlainLabels
    <3>4. HeldShape' /\ wheld' \in [Workers -> SUBSET Srv]
      BY <1>2, <3>1, <3>2 DEF Control, ControlTyped, HeldShape, Goto, recVars, mainVars
    <3>5. Held' \subseteq Held \cup {<<q, userServers[q]>> : q \in {x \in {p} : Tracked(x)}}
      BY <1>2, <2>1, <3>1 DEF Held, Control, ControlTyped, recVars, mainVars
    <3>6. MapsSound'
      BY <1>2, <3>1, <3>5, UntrackStep
    <3> QED BY <1>0, <1>2, <3>3, <3>4, <3>6
  <2>2. CASE ~Tracked(p)
    <3>1. /\ UNCHANGED <<mapVars, wheld>>
          /\ Finish(w) \/ (Goto(w, next) /\ next = "updatePort" /\ UNCHANGED <<wreq, wport>>)
      BY <1>2, <2>2 DEF StopUserListener
    <3>2. WorkerTyped' /\ RequestShape'
      BY <1>2, <3>1, GotoKeeps, FinishKeeps DEF PlainLabels, WorkerStates
    <3>3. HeldShape' /\ Held' = Held
      BY <1>2, <3>1, NoHandover DEF Finish, WorkerStates
    <3>4. MapsSound'
      BY <1>2, <3>1, <3>3, FrameStep
    <3> QED BY <1>0, <1>2, <3>1, <3>2, <3>3, <3>4 DEF Control, ControlTyped
  <2> QED BY <2>1, <2>2
<1>3. CASE StopListener(w)
  <2>1. wport[w] \in Ports
    BY <1>3 DEF StopListener, Control, RequestShape
  <2>2. CASE cfg.MITMEnabled
    <3>1. Finish(w) /\ UNCHANGED <<mapVars, wheld, dbVars, srvVars, recVars, mainVars, ops, contested, faults, clock>>
      BY <1>3, <2>2 DEF StopListener
    <3>2. HeldShape' /\ Held' = Held
      BY <1>3, <3>1, NoHandover DEF StopListener, Finish, WorkerStates
    <3> QED BY <1>0, <3>1, <3>2, FinishKeeps, FrameStep DEF Control, ControlTyped
  <2>3. CASE ~cfg.MITMEnabled
    BY <1>2, <1>3, <2>1, <2>3 DEF StopListener
  <2> QED BY <2>2, <2>3
<1>4. CASE StopOldPort(w)
  BY <1>2, <1>4 DEF StopOldPort, Control, RequestShape
<1>5. CASE WorkerShutdown(w)
  <2>1. PICK s \in Srv : wheld[w] = {s}
    BY <1>5 DEF WorkerShutdown, Control, HeldShape
  <2>2. ShutdownServer(s) /\ wheld' = [wheld EXCEPT ![w] = {}] /\ UNCHANGED <<mapVars, recVars, mainVars>>
    BY <1>5, <2>1 DEF WorkerShutdown
  <2>3. s \in Held /\ Held' \subseteq Held
    BY <2>1, <2>2 DEF Held, Control, ControlTyped, recVars, mainVars
  <2>4. MapsSound'
    BY <2>2, <2>3, ShutdownStep
  <2>5. WorkerTyped' /\ RequestShape'
    BY <1>5, GotoKeeps, FinishKeeps DEF WorkerShutdown, PlainLabels, WorkerStates
  <2>6. HeldShape' /\ wheld' \in [Workers -> SUBSET Srv]
    BY <1>5, <2>2 DEF WorkerShutdown, Finish, Goto, Control, ControlTyped, HeldShape, recVars, mainVars
  <2> QED BY <1>0, <1>5, <2>4, <2>5, <2>6 DEF WorkerShutdown
<1>6. CASE StartNewPort(w)
  <2>1. wreq[w].p \in Ports /\ wreq[w].u \in Users /\ wpc[w] # "shutdown"
    BY <1>6 DEF StartNewPort, Control, ControlTyped, RequestShape, Requests
  <2>2. HeldShape' /\ Held' = Held
    BY <1>6, NoHandover DEF StartNewPort, Finish, WorkerStates
  <2>3. MapsSound'
    <3> DEFINE P == {wreq[w].p}
               user == [q \in Ports |-> wreq[w].u]
    <3>1. P \in SUBSET Ports /\ \A p \in P : user[p] \in Users
      BY <2>1
    <3>2. startListenerLocked(P, user)
      BY <1>6 DEF StartNewPort
    <3> HIDE DEF P, user
    <3> QED BY <2>2, <3>1, <3>2, StartStep
  <2> QED BY <1>0, <1>6, <2>2, <2>3, FinishKeeps DEF StartNewPort, Control, ControlTyped
<1> QED BY <1>1, <1>3, <1>4, <1>5, <1>6

\* The reconciler.
LEMMA ReconcilerStep ==
    ASSUME Control, MapsSound, reconcileListeners
    PROVE  Control' /\ MapsSound'
<1> USE ConstantsAssumption
<1>0. ASSUME UNCHANGED <<dbVars, wkVars, mainVars, ops, contested, faults, clock>>,
             rpc' \in {"idle", "decide", "shutdown"}, rmap' \in [Ports -> Users \cup {NoUser}],
             rtodo' \in SUBSET Ports, rheld' \in SUBSET Srv, rpc' # "shutdown" => rheld' = {}
      PROVE  Control'
  BY <1>0 DEF Control, ControlTyped, RequestShape, HeldShape, dbVars, wkVars, mainVars
<1>1. CASE ReconcileList \/ \E p \in Ports : ReconcileDecide(p)
  <2>1. UNCHANGED <<mapVars, srvVars>> /\ Held' = Held
    BY <1>1 DEF ReconcileList, ReconcileDecide, Held, wkVars, mainVars
  <2>2. MapsSound'
    BY <2>1, FrameStep
  <2>3. CASE ReconcileList
    BY <1>0, <2>2, <2>3 DEF ReconcileList, Control, ControlTyped, HeldShape
  <2>4. ASSUME NEW p \in Ports, ReconcileDecide(p)
        PROVE  Control'
    <3>1. rmap' \in [Ports -> Users \cup {NoUser}] /\ rtodo' \in SUBSET Ports
      BY <2>4 DEF ReconcileDecide, Control, ControlTyped
    <3>2. rpc' = "decide" /\ rheld' = {}
      BY <2>4 DEF ReconcileDecide, Control, HeldShape
    <3> QED BY <1>0, <2>4, <3>1, <3>2 DEF ReconcileDecide
  <2> QED BY <1>1, <2>2, <2>3, <2>4
<1>2. CASE ReconcileStop
  <2> DEFINE P == {p \in Ports : Tracked(p) /\ rmap[p] = NoUser}
  <2>1. rheld' = {<<p, userServers[p]>> : p \in P} /\ Untrack(P) /\ UNCHANGED <<srvVars, wkVars, mainVars>>
    BY <1>2 DEF ReconcileStop
  <2>2. rheld' \subseteq Srv
    <3>1. \A p \in P : p \in Ports /\ userServers[p] \in Slots
      BY DEF MapsSound, MapsTyped, Tracked
    <3>2. rheld' = {<<p, userServers[p]>> : p \in P}
      BY <2>1
    <3> HIDE DEF P
    <3> QED BY <3>1, <3>2 DEF Srv
  <2>3. Held' \subseteq Held \cup {<<p, userServers[p]>> : p \in {q \in P : Tracked(q)}}
    BY <2>1 DEF Held, wkVars, mainVars
  <2>4. MapsSound'
    BY <2>1, <2>3, UntrackStep
  <2> QED BY <1>0, <1>2, <2>2, <2>4 DEF ReconcileStop, Control, ControlTyped
<1>3. ASSUME NEW s \in Srv, ReconcileShutdown(s)
      PROVE  Control' /\ MapsSound'
  <2>1. s \in Held /\ Held' \subseteq Held
    BY <1>3 DEF ReconcileShutdown, Held, wkVars, mainVars
  <2>2. MapsSound'
    BY <1>3, <2>1, ShutdownStep DEF ReconcileShutdown
  <2> QED BY <1>0, <1>3, <2>2 DEF ReconcileShutdown, Control, ControlTyped, HeldShape
<1>4. CASE ReconcileStart
  <2> DEFINE P == {p \in Ports : rmap[p] # NoUser /\ ~Tracked(p)}
  <2>1. startListenerLocked(P, rmap) /\ Held' = Held
    BY <1>4 DEF ReconcileStart, Held, wkVars, mainVars
  <2>2. \A p \in P : rmap[p] \in Users
    BY DEF Control, ControlTyped
  <2>3. MapsSound'
    BY <2>1, <2>2, StartStep
  <2> QED BY <1>0, <1>4, <2>3 DEF ReconcileStart, Control, ControlTyped
<1> QED BY <1>1, <1>2, <1>3, <1>4 DEF reconcileListeners

\* The serving goroutines, the clock and the main goroutine.
LEMMA OtherStep ==
    ASSUME Control, MapsSound,
           (\E s \in Srv : ServerNext(s) \/ AcceptFails(s)) \/ Tick \/ MainNext
    PROVE  Control' /\ MapsSound'
<1> USE ConstantsAssumption
<1>1. ASSUME NEW s \in Srv, Listen(s) \/ Serve(s) \/ ListenFails(s) \/ AcceptFails(s) \/ Abort(s)
      PROVE  Control' /\ MapsSound'
  <2>1. MapsSound'
    BY <1>1, GoroutineStep DEF Listen, Serve, ListenFails, AcceptFails, Abort, LiveStates, SrvStates
  <2>2. UNCHANGED <<dbVars, recVars, wkVars, mainVars, ops, contested, clock>> /\ faults' \in 0..MaxFaults
    BY <1>1 DEF Listen, Serve, ListenFails, AcceptFails, Abort, ServerStep, Control, ControlTyped
  <2> QED BY <2>1, <2>2 DEF Control, ControlTyped, RequestShape, HeldShape, dbVars, recVars, wkVars, mainVars
<1>2. ASSUME NEW s \in Srv, RemoveFailed(s)
      PROVE  Control' /\ MapsSound'
  <2>1. /\ UNCHANGED <<dbVars, recVars, wkVars, mainVars, ops, contested, clock, faults>> /\ Held' = Held
        /\ st' = [st EXCEPT ![s] = "none"]
        /\ own' = [own EXCEPT ![s] = NoUser]
    BY <1>2 DEF RemoveFailed, ServerStep, Held, recVars, wkVars, mainVars
  <2>2. PICK p \in Ports, k \in Slots : s = <<p, k>>
    BY ServerIsPair
  <2>3. MapsTyped' /\ MapsAgree'
    BY <1>2, <2>1, <2>2 DEF RemoveFailed, MapsSound, MapsTyped, MapsAgree, Tracked, Untrack, mapVars, SrvStates
  <2>4. ASSUME NEW t \in Srv, IsTracked(t)'
        PROVE  IsTracked(t) /\ t # s
    <3>1. PICK q \in Ports, j \in Slots : t = <<q, j>>
      BY ServerIsPair
    <3> QED BY <1>2, <2>2, <2>4, <3>1 DEF RemoveFailed, IsTracked, Untrack, mapVars
  <2>5. NoZombie'
    BY <2>1, <2>4 DEF MapsSound, MapsTyped, NoZombie
  <2>6. HeldUntracked'
    BY <2>1, <2>4 DEF MapsSound, HeldUntracked
  <2> QED BY <2>1, <2>3, <2>5, <2>6 DEF MapsSound, Control, ControlTyped, RequestShape, HeldShape, dbVars, recVars, wkVars, mainVars
<1>3. CASE Tick
  <2>1. UNCHANGED <<mapVars, srvVars>> /\ Held' = Held
    BY <1>3 DEF Tick, WindowBoundary, Expire, Held, recVars, wkVars, mainVars
  <2>2. MapsSound'
    BY <2>1, FrameStep
  <2>3. /\ sched' \in [Users -> BOOLEAN] /\ override' \in [Users -> BOOLEAN]
        /\ until' \in [Users -> BOOLEAN] /\ clock' \in 0..MaxClock
        /\ UNCHANGED <<row, enabledCache, recVars, wkVars, mainVars, ops, contested, faults>>
    <3>1. ASSUME NEW u \in Users, WindowBoundary(u)
          PROVE  sched' \in [Users -> BOOLEAN]
      <4> DEFINE b == ~sched[u]
      <4>1. b \in BOOLEAN
        OBVIOUS
      <4>2. sched' = [sched EXCEPT ![u] = b]
        BY <3>1 DEF WindowBoundary
      <4> HIDE DEF b
      <4> QED BY <4>1, <4>2 DEF Control, ControlTyped
    <3>2. ASSUME NEW u \in Users, Expire(u)
          PROVE  override' \in [Users -> BOOLEAN] /\ until' \in [Users -> BOOLEAN]
      BY <3>2 DEF Expire, Control, ControlTyped
    <3>3. clock' \in 0..MaxClock /\ UNCHANGED <<row, enabledCache, recVars, wkVars, mainVars, ops, contested, faults>>
      BY <1>3 DEF Tick, WindowBoundary, Expire, Control, ControlTyped
    <3>4. PICK u \in Users : WindowBoundary(u) \/ Expire(u)
      BY <1>3 DEF Tick
    <3>5. CASE WindowBoundary(u)
      BY <3>1, <3>3, <3>5 DEF WindowBoundary, Control, ControlTyped
    <3>6. CASE Expire(u)
      BY <3>2, <3>3, <3>6 DEF Expire, Control, ControlTyped
    <3> QED BY <3>4, <3>5, <3>6
  <2> QED BY <2>2, <2>3 DEF Control, ControlTyped, RequestShape, HeldShape, recVars, wkVars, mainVars
<1>4. CASE StopReconciler
  <2>1. UNCHANGED <<mapVars, srvVars>> /\ Held' = Held
    BY <1>4 DEF StopReconciler, Held, recVars, wkVars
  <2>2. MapsSound'
    BY <2>1, FrameStep
  <2> QED BY <1>4, <2>2 DEF StopReconciler, Control, ControlTyped, RequestShape, HeldShape, dbVars, recVars, wkVars
<1>5. CASE ShutdownUserListeners
  <2>1. /\ mheld' = {<<p, userServers[p]>> : p \in {q \in Ports : Tracked(q)}}
        /\ Untrack(Ports) /\ UNCHANGED <<srvVars, recVars, wkVars>>
    BY <1>5 DEF ShutdownUserListeners
  <2>2. mheld' \subseteq Srv
    <3>1. \A p \in Ports : Tracked(p) => <<p, userServers[p]>> \in Srv
      BY DEF MapsSound, MapsTyped, Tracked, Srv
    <3> QED BY <2>1, <3>1
  <2>3. Held' \subseteq Held \cup {<<p, userServers[p]>> : p \in {q \in Ports : Tracked(q)}}
    BY <2>1 DEF Held, recVars, wkVars
  <2>4. MapsSound'
    BY <2>1, <2>3, UntrackStep
  <2> QED BY <1>5, <2>2, <2>4 DEF ShutdownUserListeners, Control, ControlTyped, RequestShape, HeldShape, dbVars, recVars, wkVars
<1>6. ASSUME NEW s \in Srv, MainShutdown(s)
      PROVE  Control' /\ MapsSound'
  <2>1. s \in Held /\ Held' \subseteq Held
    BY <1>6 DEF MainShutdown, Held, recVars, wkVars
  <2>2. MapsSound'
    BY <1>6, <2>1, ShutdownStep DEF MainShutdown
  <2> QED BY <1>6, <2>2 DEF MainShutdown, Control, ControlTyped, RequestShape, HeldShape, dbVars, recVars, wkVars
<1> QED BY <1>1, <1>2, <1>3, <1>4, <1>5, <1>6 DEF ServerNext, MainNext

-----------------------------------------------------------------------------
(* The theorems.                                                           *)

\* At startup StartUserListeners has put one starting server on each port
\* whose listener is wanted.
LEMMA InitIndInv == Init => IndInv
<1> SUFFICES ASSUME Init PROVE IndInv
  OBVIOUS
<1> USE ConstantsAssumption
<1>1. Control
  <2>1. /\ enabledCache \in [Users -> BOOLEAN] /\ sched \in [Users -> BOOLEAN]
        /\ override \in [Users -> BOOLEAN] /\ until \in [Users -> BOOLEAN]
    BY DEF Init
  <2>2. NoRequest \in Requests /\ NoRequest.op = "none" /\ NoRequest.p = 0
    BY DEF NoRequest, Requests
  <2>3. ControlTyped
    BY <2>1, <2>2 DEF Init, ControlTyped, WorkerStates
  <2> QED BY <2>2, <2>3 DEF Init, Control, RequestShape, HeldShape
<1>2. Held = {}
  BY DEF Init, Held
<1>3. /\ userServers \in [Ports -> Slots \cup {NoSlot}]
      /\ \A p \in Ports : Tracked(p) => \E u \in Users : row[u].port = p /\ listenerWanted(u)
  BY DEF Init, Tracked
<1>4. portUsers \in [Ports -> Users \cup {NoUser}] /\ MapsAgree
  BY <1>3 DEF Init, MapsAgree
<1>5. /\ st \in [Srv -> SrvStates] /\ own \in [Srv -> Users \cup {NoUser}]
      /\ NoZombie
  <2>1. \A s \in Srv : portUsers[s[1]] \in Users \cup {NoUser}
    BY <1>4, ServerIsPair
  <2>2. own \in [Srv -> Users \cup {NoUser}]
    BY <2>1 DEF Init
  <2> QED BY <2>2 DEF Init, SrvStates, NoZombie, LiveStates
<1> QED
  BY <1>1, <1>2, <1>3, <1>4, <1>5, IndInvSplit DEF MapsSound, MapsTyped, HeldUntracked

\* Every step keeps the inductive invariant.
LEMMA NextIndInv == IndInv /\ [Next]_vars => IndInv'
<1> SUFFICES ASSUME IndInv, [Next]_vars PROVE IndInv'
  OBVIOUS
<1>0. Control /\ MapsSound
  BY IndInvSplit
<1>1. ASSUME NEW w \in Workers, QuietWorkerStep(w)
      PROVE  Control' /\ MapsSound'
  BY <1>0, <1>1, QuietControl, FrameStep
<1>2. ASSUME NEW w \in Workers, NewRequest(w) \/ WorkerNext(w)
      PROVE  Control' /\ MapsSound'
  BY <1>0, <1>1, <1>2, MapWorkerStep DEF WorkerNext, QuietWorkerStep
<1>3. ASSUME UNCHANGED vars PROVE Control' /\ MapsSound'
  <2>1. MapsSound'
    BY <1>0, <1>3, FrameStep DEF vars, Held, recVars, wkVars, mainVars
  <2>2. UNCHANGED <<row, enabledCache, sched, override, until, rpc, rmap, rtodo, rheld,
                    wpc, wreq, wport, wheld, cfg, mpc, mheld, ops, contested, faults, clock>>
    BY <1>3 DEF vars, dbVars, recVars, wkVars, mainVars
  <2>3. ControlTyped' /\ RequestShape' /\ HeldShape'
    BY <1>0, <2>2 DEF Control, ControlTyped, RequestShape, HeldShape
  <2> QED BY <2>1, <2>3 DEF Control
<1>4. ASSUME Next PROVE Control' /\ MapsSound'
  BY <1>0, <1>2, <1>4, ReconcilerStep, OtherStep DEF Next
<1>5. Control' /\ MapsSound'
  BY <1>3, <1>4
<1> QED
  BY <1>5, IndInvSplit, PTL

\* The inductive invariant holds in every reachable state, for all constants.
THEOREM Inductive == Spec => []IndInv
BY InitIndInv, NextIndInv, PTL DEF Spec

\* Type correctness of the listeners, the reconciler and the handlers.
THEOREM TypeCorrect == Spec => []TypeOK
<1>1. IndInv => TypeOK
  BY DEF IndInv
<1> QED BY <1>1, Inductive, PTL

\* userServers and portUsers always have the same ports.
THEOREM MapsAlwaysAgree == Spec => []MapsAgree
<1>1. IndInv => MapsAgree
  BY DEF IndInv
<1> QED BY <1>1, Inductive, PTL

\* No server that has ended or been shut down stays in userServers, whatever
\* admin requests, bind errors and reconciler passes interleave.
THEOREM NeverZombie == Spec => []NoZombie
<1>1. IndInv => NoZombie
  BY DEF IndInv
<1> QED BY <1>1, Inductive, PTL
-----------------------------------------------------------------------------
(* No orphans, as long as no request assigns a port.                       *)

\* No request of this instance assigns a port; unassigning one is fine.
NoAssignment == "Create" \notin Ops /\ AssignPorts \subseteq {0}

\* A step that leaves the maps and the servers alone and drops none held.
LEMMA OrphanFrame ==
    ASSUME NoOrphan, UNCHANGED <<mapVars, srvVars>>, Held \subseteq Held'
    PROVE  NoOrphan'
BY DEF NoOrphan, IsTracked, mapVars, srvVars

\* Starting a server orphans none if its port had none.
LEMMA OrphanStart ==
    ASSUME NoOrphan, NEW P \in SUBSET Ports, NEW user, MapsSound,
           \A p \in P : ~Tracked(p), startListenerLocked(P, user), Held' = Held
    PROVE  NoOrphan'
<1> SUFFICES ASSUME NEW s \in Srv, st'[s] \in LiveStates
             PROVE  IsTracked(s)' \/ s \in Held
  BY DEF NoOrphan
<1> USE ConstantsAssumption
<1>1. PICK p \in Ports, k \in Slots : s = <<p, k>>
  BY ServerIsPair
<1>2. CASE p \in P /\ k = NewSlot(p)
  BY <1>1, <1>2 DEF startListenerLocked, IsTracked
<1>3. CASE ~(p \in P /\ k = NewSlot(p))
  <2>1. st'[s] = st[s]
    BY <1>1, <1>3 DEF startListenerLocked
  <2>2. IsTracked(s) \/ s \in Held
    BY <2>1 DEF NoOrphan
  <2>3. CASE IsTracked(s)
    <3>1. p \notin P
      BY <1>1, <2>3 DEF IsTracked, Tracked
    <3> QED BY <1>1, <2>3, <3>1 DEF IsTracked, startListenerLocked
  <2> QED BY <2>2, <2>3
<1> QED BY <1>2, <1>3

\* Untracking servers orphans none if they pass into somebody's hands.
LEMMA OrphanUntrack ==
    ASSUME NoOrphan, NEW P \in SUBSET Ports, Untrack(P), UNCHANGED srvVars,
           Held \cup {<<p, userServers[p]>> : p \in {q \in P : Tracked(q)}} \subseteq Held'
    PROVE  NoOrphan'
<1> SUFFICES ASSUME NEW s \in Srv, st[s] \in LiveStates
             PROVE  IsTracked(s)' \/ s \in Held'
  BY DEF NoOrphan, srvVars
<1> USE ConstantsAssumption
<1>1. PICK p \in Ports, k \in Slots : s = <<p, k>>
  BY ServerIsPair
<1>2. CASE IsTracked(s) /\ p \in P
  BY <1>1, <1>2 DEF IsTracked, Tracked
<1>3. CASE IsTracked(s) /\ p \notin P
  BY <1>1, <1>3 DEF IsTracked, Untrack
<1> QED BY <1>2, <1>3 DEF NoOrphan

\* A server that was shut down may be let go.
LEMMA OrphanShutdown ==
    ASSUME NoOrphan, MapsSound, NEW s \in Srv, ShutdownServer(s), UNCHANGED mapVars,
           Held \ {s} \subseteq Held'
    PROVE  NoOrphan'
<1>1. AfterShutdown(s) \notin LiveStates
  BY DEF AfterShutdown, MapsSound, MapsTyped, SrvStates, LiveStates
<1> QED BY <1>1 DEF NoOrphan, MapsSound, MapsTyped, ShutdownServer, IsTracked, mapVars

\* A goroutine makes no server live that was not.
LEMMA OrphanGoroutine ==
    ASSUME NoOrphan, MapsSound, NEW s \in Srv, NEW from, NEW to,
           ServerStep(s, from, to), UNCHANGED mapVars, to \in LiveStates => from \in LiveStates
    PROVE  NoOrphan'
<1>1. Held' = Held
  BY DEF ServerStep, Held, recVars, wkVars, mainVars
<1> QED BY <1>1 DEF NoOrphan, MapsSound, MapsTyped, ServerStep, IsTracked, mapVars

\* Without assignments every step of a worker keeps NoOrphan: StartNewPort,
\* which does not look whether a server runs, is never reached.
LEMMA OrphanWorker ==
    ASSUME NoAssignment, NoOrphan, Control, MapsSound, NEW w \in Workers,
           NewRequest(w) \/ WorkerNext(w)
    PROVE  NoOrphan'
<1> USE ConstantsAssumption
<1>1. CASE QuietWorkerStep(w)
  BY <1>1, QuietControl, OrphanFrame
<1>2. CASE StartListener(w)
  <2>1. wport[w] \in Ports /\ Held' = Held
    BY <1>2 DEF StartListener, Control, RequestShape, Held, recVars, mainVars
  <2>2. CASE Tracked(wport[w])
    BY <1>2, <2>1, <2>2 DEF StartListener, NoOrphan, IsTracked, srvVars
  <2>3. CASE ~Tracked(wport[w])
    <3> DEFINE P == {wport[w]}
               user == [q \in Ports |-> wreq[w].u]
    <3>1. P \in SUBSET Ports /\ (\A p \in P : ~Tracked(p)) /\ startListenerLocked(P, user)
      BY <1>2, <2>1, <2>3 DEF StartListener
    <3> HIDE DEF P, user
    <3> QED BY <2>1, <3>1, OrphanStart
  <2> QED BY <2>2, <2>3
<1>3. ASSUME NEW p \in Ports, NEW next \in {"idle", "updatePort"}, wpc[w] \in {"stop", "stopOld"},
             StopUserListener(w, p, next), UNCHANGED <<srvVars, recVars, mainVars>>
      PROVE  NoOrphan'
  <2>1. wheld[w] = {}
    BY <1>3 DEF Control, HeldShape
  <2>2. CASE Tracked(p)
    <3>1. Untrack({p}) /\ wheld' = [wheld EXCEPT ![w] = {<<p, userServers[p]>>}]
      BY <1>3, <2>2 DEF StopUserListener
    <3>2. Held \cup {<<q, userServers[q]>> : q \in {x \in {p} : Tracked(x)}} \subseteq Held'
      BY <1>3, <2>1, <3>1 DEF Held, Control, ControlTyped, recVars, mainVars
    <3> QED BY <1>3, <3>1, <3>2, OrphanUntrack
  <2>3. CASE ~Tracked(p)
    <3>1. UNCHANGED <<mapVars, wheld>>
      BY <1>3, <2>3 DEF StopUserListener
    <3>2. Held \subseteq Held'
      BY <1>3, <3>1 DEF Held, recVars, mainVars
    <3> QED BY <1>3, <3>1, <3>2, OrphanFrame
  <2> QED BY <2>2, <2>3
<1>4. CASE StopListener(w)
  <2>1. CASE cfg.MITMEnabled
    <3>1. UNCHANGED <<mapVars, srvVars>> /\ Held \subseteq Held'
      BY <1>4, <2>1 DEF StopListener, Held, recVars, mainVars
    <3> QED BY <3>1, OrphanFrame
  <2>2. CASE ~cfg.MITMEnabled
    BY <1>3, <1>4, <2>2 DEF StopListener, Control, RequestShape
  <2> QED BY <2>1, <2>2
<1>5. CASE StopOldPort(w)
  BY <1>3, <1>5 DEF StopOldPort, Control, RequestShape
<1>6. CASE WorkerShutdown(w)
  <2>1. PICK s \in Srv : wheld[w] = {s}
    BY <1>6 DEF WorkerShutdown, Control, HeldShape
  <2>2. ShutdownServer(s) /\ UNCHANGED mapVars
    BY <1>6, <2>1 DEF WorkerShutdown
  <2>3. Held \ {s} \subseteq Held'
    BY <1>6, <2>1 DEF WorkerShutdown, Held, Control, ControlTyped, recVars, mainVars
  <2> QED BY <2>2, <2>3, OrphanShutdown
<1>7. ~StartNewPort(w)
  <2>1. wreq[w].p = 0
    BY DEF Control, ControlTyped, RequestShape, NoAssignment
  <2> QED BY <2>1 DEF StartNewPort, Control, RequestShape
<1> QED
  BY <1>1, <1>2, <1>4, <1>5, <1>6, <1>7 DEF WorkerNext, QuietWorkerStep

\* The reconciler, the goroutines, the clock and main keep NoOrphan.
LEMMA OrphanOther ==
    ASSUME NoOrphan, Control, MapsSound,
           \/ reconcileListeners
           \/ \E s \in Srv : ServerNext(s) \/ AcceptFails(s)
           \/ Tick \/ MainNext
    PROVE  NoOrphan'
<1> USE ConstantsAssumption
<1>1. CASE ReconcileList \/ (\E p \in Ports : ReconcileDecide(p)) \/ Tick \/ StopReconciler
  <2>1. UNCHANGED <<mapVars, srvVars>> /\ Held \subseteq Held'
    BY <1>1 DEF ReconcileList, ReconcileDecide, Tick, WindowBoundary, Expire, StopReconciler,
       Held, recVars, wkVars, mainVars
  <2> QED BY <2>1, OrphanFrame
<1>2. CASE ReconcileStop
  <2> DEFINE P == {p \in Ports : Tracked(p) /\ rmap[p] = NoUser}
  <2>1. /\ Untrack(P) /\ UNCHANGED <<srvVars, wkVars, mainVars>>
        /\ rheld = {} /\ rheld' = {<<p, userServers[p]>> : p \in P}
    BY <1>2 DEF ReconcileStop, Control, HeldShape
  <2>2. Held \cup {<<p, userServers[p]>> : p \in {q \in P : Tracked(q)}} \subseteq Held'
    BY <2>1 DEF Held, wkVars, mainVars
  <2> QED BY <2>1, <2>2, OrphanUntrack
<1>3. ASSUME NEW s \in Srv, ReconcileShutdown(s) \/ MainShutdown(s)
      PROVE  NoOrphan'
  <2>1. Held \ {s} \subseteq Held'
    BY <1>3 DEF ReconcileShutdown, MainShutdown, Held, recVars, wkVars, mainVars
  <2> QED BY <1>3, <2>1, OrphanShutdown DEF ReconcileShutdown, MainShutdown
<1>4. CASE ReconcileStart
  <2> DEFINE P == {p \in Ports : rmap[p] # NoUser /\ ~Tracked(p)}
  <2>1. startListenerLocked(P, rmap) /\ Held' = Held
    BY <1>4 DEF ReconcileStart, Held, wkVars, mainVars
  <2> QED BY <2>1, OrphanStart
<1>5. ASSUME NEW s \in Srv, Listen(s) \/ Serve(s) \/ ListenFails(s) \/ AcceptFails(s) \/ Abort(s)
      PROVE  NoOrphan'
  BY <1>5, OrphanGoroutine DEF Listen, Serve, ListenFails, AcceptFails, Abort, LiveStates
<1>6. ASSUME NEW s \in Srv, RemoveFailed(s)
      PROVE  NoOrphan'
  <2>1. st' = [st EXCEPT ![s] = "none"] /\ Held' = Held
    BY <1>6 DEF RemoveFailed, ServerStep, Held, recVars, wkVars, mainVars
  <2> SUFFICES ASSUME NEW t \in Srv, st'[t] \in LiveStates
               PROVE  IsTracked(t)' \/ t \in Held
    BY <2>1 DEF NoOrphan
  <2>2. t # s /\ (IsTracked(t) \/ t \in Held)
    BY <2>1 DEF NoOrphan, MapsSound, MapsTyped, LiveStates
  <2>3. PICK p \in Ports, k \in Slots : s = <<p, k>>
    BY ServerIsPair
  <2>4. PICK q \in Ports, j \in Slots : t = <<q, j>>
    BY ServerIsPair
  <2>5. CASE IsTracked(t)
    BY <1>6, <2>2, <2>3, <2>4, <2>5 DEF RemoveFailed, IsTracked, Untrack, mapVars
  <2> QED BY <2>2, <2>5
<1>7. CASE ShutdownUserListeners
  <2>1. /\ mheld' = {<<p, userServers[p]>> : p \in {q \in Ports : Tracked(q)}}
        /\ mheld = {} /\ Untrack(Ports) /\ UNCHANGED <<srvVars, recVars, wkVars>>
    BY <1>7 DEF ShutdownUserListeners, Control, HeldShape
  <2> DEFINE T == {<<p, userServers[p]>> : p \in {q \in Ports : Tracked(q)}}
  <2>2. mheld' = T /\ mheld = {} /\ rheld' = rheld /\ wheld' = wheld
    BY <2>1 DEF recVars, wkVars
  <2>3. Held \cup T \subseteq Held'
    <3> HIDE DEF T
    <3> QED BY <2>2 DEF Held
  <2> QED BY <2>1, <2>3, OrphanUntrack
<1> QED
  BY <1>1, <1>2, <1>3, <1>4, <1>5, <1>6, <1>7 DEF reconcileListeners, ServerNext, MainNext

\* When no request assigns a port, no listener is ever orphaned: pausing,
\* resuming, unassigning, deleting, the clock, bind errors, the reconciler and
\* the shutdown of the process leave every live server within reach.
THEOREM NeverOrphan == NoAssignment /\ Spec => []NoOrphan
<1>1. Init => NoOrphan
  BY DEF Init, NoOrphan, LiveStates
<1>2. NoAssignment /\ NoOrphan /\ IndInv /\ [Next]_vars => NoOrphan'
  <2> SUFFICES ASSUME NoAssignment, NoOrphan, IndInv, [Next]_vars PROVE NoOrphan'
    OBVIOUS
  <2>1. Control /\ MapsSound
    BY IndInvSplit
  <2>2. CASE UNCHANGED vars
    <3>1. UNCHANGED <<mapVars, srvVars>> /\ Held \subseteq Held'
      BY <2>2 DEF vars, Held, recVars, wkVars, mainVars
    <3> QED BY <3>1, OrphanFrame
  <2>3. CASE Next
    BY <2>1, <2>3, OrphanWorker, OrphanOther DEF Next
  <2> QED BY <2>2, <2>3
<1>3. SUFFICES ASSUME NoAssignment PROVE Spec => []NoOrphan
  OBVIOUS
<1> QED BY <1>1, <1>2, <1>3, Inductive, PTL DEF Spec

-----------------------------------------------------------------------------
(* With MITM on, pausing closes no port.                                   *)

\* The requests pause and resume users but neither create nor delete one nor move
\* a port, and the rows' ports are within the configured range.  (A row outside it,
\* left by an earlier range, is started by a resume and closed by the reconciler.)
PauseOnly ==
    /\ Ops \cap {"UpdatePort", "Create", "Delete"} = {}
    /\ \A u \in Users : InitPort[u] \in InRange \cup {0}

\* A row assigns the port.
Assigned(p) == \E u \in Users : row[u].ex /\ row[u].port = p

\* With MITM on, every tracked or starting port is assigned, the reconciler's map
\* has exactly the assigned ports, and nobody holds a server to shut it down.
KeepsOpen ==
    cfg.MITMEnabled =>
        /\ \A u \in Users : row[u].ex => row[u].port \in InRange \cup {0}
        /\ \A p \in Ports : Tracked(p) => Assigned(p)
        /\ \A w \in Workers : /\ wpc[w] \in {"idle", "cache", "list", "start", "stop"}
                              /\ wpc[w] = "start" => Assigned(wport[w])
        /\ rpc # "idle" => \A p \in Ports : rmap[p] # NoUser <=> Assigned(p)
        /\ rheld = {}

\* A step that keeps the rows' ports keeps what is assigned.
LEMMA AssignedKept ==
    ASSUME \A u \in Users : row'[u].ex = row[u].ex /\ row'[u].port = row[u].port
    PROVE  \A p : Assigned(p)' <=> Assigned(p)
BY DEF Assigned

\* StartUserListeners starts assigned ports only.
LEMMA KeepsOpenInit == PauseOnly /\ Init => KeepsOpen
<1> SUFFICES ASSUME PauseOnly, Init PROVE KeepsOpen
  OBVIOUS
<1> USE ConstantsAssumption
<1>1. \A u \in Users : row[u].port \in Ports => row[u].ex
  BY DEF Init, NoRow
<1>2. \A u \in Users : row[u].ex => row[u].port \in InRange \cup {0}
  BY DEF Init, NoRow, PauseOnly
<1>3. ASSUME NEW p \in Ports, Tracked(p) PROVE Assigned(p)
  <2>1. \E u \in Users : row[u].port = p
    BY <1>3 DEF Init, Tracked
  <2> QED BY <1>1, <2>1 DEF Assigned
<1>4. (\A w \in Workers : wpc[w] = "idle") /\ rpc = "idle" /\ rheld = {}
  BY DEF Init
<1> QED BY <1>2, <1>3, <1>4 DEF KeepsOpen

\* No step of a pause-only process closes a port under MITM: StopListener does
\* nothing, and the reconciler wants every assigned port.
LEMMA KeepsOpenNext ==
    ASSUME PauseOnly, Control, MapsSound, KeepsOpen, [Next]_vars
    PROVE  KeepsOpen'
<1> USE ConstantsAssumption
<1>cfg. cfg' = cfg
  <2>1. ASSUME NEW w \in Workers, NewRequest(w) PROVE cfg' = cfg
    BY <2>1 DEF mainVars, NewRequest, handleSetEnabled, handleUpdateDowntime,
       handleDowntimeOverride, handleDowntimeNow, UpdateRow, handleUpdatePort,
       handleCreateUser, handleDeleteUser
  <2>2. ASSUME NEW w \in Workers, WorkerNext(w) PROVE cfg' = cfg
    BY <2>2 DEF mainVars, WorkerNext, WriteCache, ListUsers, StartListener, StopListener,
       WorkerShutdown, InsertRow, CacheNewUser, FindOldPort, StopOldPort, UpdatePortRow,
       StartNewPort, DeleteRow, DeleteCaches
  <2>3. CASE reconcileListeners
    BY <2>3 DEF mainVars, reconcileListeners, ReconcileList, ReconcileDecide, ReconcileStop,
       ReconcileShutdown, ReconcileStart
  <2>4. ASSUME NEW s \in Srv, ServerNext(s) \/ AcceptFails(s) PROVE cfg' = cfg
    BY <2>4 DEF mainVars, ServerNext, Listen, Serve, ListenFails, RemoveFailed, Abort,
       AcceptFails, ServerStep
  <2>5. CASE Tick \/ MainNext \/ UNCHANGED vars
    BY <2>5 DEF mainVars, vars, Tick, WindowBoundary, Expire, MainNext, StopReconciler,
       ShutdownUserListeners, MainShutdown
  <2> QED BY <2>1, <2>2, <2>3, <2>4, <2>5 DEF Next
<1> SUFFICES ASSUME cfg.MITMEnabled PROVE KeepsOpen'
  BY <1>cfg DEF KeepsOpen
<1>inv. /\ \A u \in Users : row[u].ex => row[u].port \in InRange \cup {0}
        /\ \A p \in Ports : Tracked(p) => Assigned(p)
        /\ \A w \in Workers : /\ wpc[w] \in {"idle", "cache", "list", "start", "stop"}
                              /\ wpc[w] = "start" => Assigned(wport[w])
        /\ rpc # "idle" => \A p \in Ports : rmap[p] # NoUser <=> Assigned(p)
        /\ rheld = {}
  BY DEF KeepsOpen
<1>typ. /\ wpc \in [Workers -> WorkerStates] /\ wport \in [Workers -> Ports \cup {0}]
        /\ row \in [Users -> [ex : BOOLEAN, port : Ports \cup {0}, en : BOOLEAN]]
        /\ rmap \in [Ports -> Users \cup {NoUser}]
        /\ userServers \in [Ports -> Slots \cup {NoSlot}]
  BY DEF Control, ControlTyped, MapsSound, MapsTyped
\* A worker's step that leaves the maps, the reconciler and the rows' ports alone.
<1>quiet. ASSUME NEW w \in Workers, NEW l \in {"idle", "cache", "list", "start", "stop"}, Goto(w, l),
                 l = "start" => Assigned(wport'[w]),
                 \A v \in Workers : v # w => wport'[v] = wport[v],
                 UNCHANGED <<userServers, recVars>>,
                 \A u \in Users : row'[u].ex = row[u].ex /\ row'[u].port = row[u].port
          PROVE  KeepsOpen'
  <2>1. \A p : Assigned(p)' <=> Assigned(p)
    BY <1>quiet, AssignedKept
  <2>2. \A v \in Workers : /\ wpc'[v] \in {"idle", "cache", "list", "start", "stop"}
                           /\ wpc'[v] = "start" => Assigned(wport'[v])
    BY <1>quiet, <1>inv, <1>typ DEF Goto
  <2>3. /\ \A u \in Users : row'[u].ex => row'[u].port \in InRange \cup {0}
        /\ \A p \in Ports : Tracked(p)' => Assigned(p)
        /\ rpc' # "idle" => \A p \in Ports : rmap'[p] # NoUser <=> Assigned(p)
        /\ rheld' = {}
    BY <1>quiet, <1>inv DEF recVars, Tracked
  <2> QED BY <2>1, <2>2, <2>3 DEF KeepsOpen
<1>1. ASSUME NEW w \in Workers, NewRequest(w) PROVE KeepsOpen'
  <2>1. PICK u \in Users, b \in BOOLEAN, o \in {"SetEnabled", "Schedule", "Override", "Now"} :
          UpdateRow(w, Request(o, u, b, 0))
    BY <1>1 DEF NewRequest, handleSetEnabled, handleUpdateDowntime, handleDowntimeOverride,
       handleDowntimeNow, handleUpdatePort, handleCreateUser, handleDeleteUser, Accept,
       Request, PauseOnly
  <2> DEFINE req == Request(o, u, b, 0)
  <2>2. req.u = u /\ req.b = b
    BY DEF Request
  <2>3. row' = IF req.op = "SetEnabled" THEN [row EXCEPT ![u].en = b] ELSE row
    BY <2>1, <2>2 DEF UpdateRow
  <2> HIDE DEF req
  <2>4. \A v \in Users : row'[v].ex = row[v].ex /\ row'[v].port = row[v].port
    BY <2>3, <1>typ
  <2>5. Goto(w, "cache") /\ wport' = wport /\ UNCHANGED <<userServers, recVars>>
    BY <2>1 DEF UpdateRow, mapVars
  <2> QED BY <2>4, <2>5, <1>quiet
<1>2. ASSUME NEW w \in Workers, WriteCache(w) PROVE KeepsOpen'
  <2>1. /\ Goto(w, "idle") \/ Goto(w, "list")
        /\ \A v \in Workers : v # w => wport'[v] = wport[v]
        /\ row' = row /\ UNCHANGED <<userServers, recVars>>
    BY <1>2, <1>typ DEF WriteCache, Finish, mapVars
  <2> QED BY <2>1, <1>quiet
<1>3. ASSUME NEW w \in Workers, ListUsers(w) PROVE KeepsOpen'
  <2> DEFINE next == AfterList(wreq[w])
  <2>1. wreq[w].u \in Users
    BY <1>3 DEF ListUsers, Control, RequestShape
  <2>2. next \in {"idle", "start", "stop"} /\ (next # "idle" => row[wreq[w].u].ex)
    BY DEF AfterList
  <2>3. row' = row /\ UNCHANGED <<userServers, recVars>>
    BY <1>3 DEF ListUsers, dbVars, mapVars
  <2>4. CASE next = "idle"
    <3>1. Goto(w, "idle") /\ \A v \in Workers : v # w => wport'[v] = wport[v]
      BY <1>3, <2>4, <1>typ DEF ListUsers, Finish
    <3> QED BY <2>3, <3>1, <1>quiet
  <2>5. CASE next # "idle"
    <3>1. /\ Goto(w, next) /\ wport' = [wport EXCEPT ![w] = row[wreq[w].u].port]
      BY <1>3, <2>5 DEF ListUsers
    <3>2. Assigned(row[wreq[w].u].port)
      BY <2>1, <2>2, <2>5 DEF Assigned
    <3> HIDE DEF next
    <3>3. Assigned(wport'[w]) /\ \A v \in Workers : v # w => wport'[v] = wport[v]
      BY <3>1, <3>2, <1>typ
    <3> QED BY <2>2, <2>3, <2>5, <3>1, <3>3, <1>quiet
  <2> QED BY <2>4, <2>5
<1>4. ASSUME NEW w \in Workers, StopListener(w) PROVE KeepsOpen'
  <2>1. /\ Goto(w, "idle") /\ \A v \in Workers : v # w => wport'[v] = wport[v]
        /\ row' = row /\ UNCHANGED <<userServers, recVars>>
    BY <1>4, <1>typ DEF StopListener, Finish, dbVars, mapVars
  <2> QED BY <2>1, <1>quiet
<1>5. ASSUME NEW w \in Workers, StartListener(w) PROVE KeepsOpen'
  <2>1. /\ Goto(w, "idle") /\ \A v \in Workers : v # w => wport'[v] = wport[v]
        /\ row' = row /\ UNCHANGED recVars
    BY <1>5, <1>typ DEF StartListener, Finish, dbVars
  <2>2. CASE Tracked(wport[w])
    <3>1. userServers' = userServers
      BY <1>5, <2>2 DEF StartListener
    <3> QED BY <2>1, <3>1, <1>quiet
  <2>3. CASE ~Tracked(wport[w])
    <3>1. Assigned(wport[w])
      BY <1>5, <1>inv DEF StartListener
    <3>2. \A p \in Ports : userServers'[p] = IF p = wport[w] THEN NewSlot(p) ELSE userServers[p]
      BY <1>5, <2>3 DEF StartListener, startListenerLocked
    <3>3. \A p \in Ports : Tracked(p)' => Assigned(p)
      BY <3>1, <3>2, <1>inv DEF Tracked
    <3>4. \A p : Assigned(p)' <=> Assigned(p)
      BY <2>1, AssignedKept
    <3>5. \A v \in Workers : /\ wpc'[v] \in {"idle", "cache", "list", "start", "stop"}
                             /\ wpc'[v] = "start" => Assigned(wport'[v])
      BY <2>1, <1>inv, <1>typ DEF Goto
    <3> QED BY <2>1, <3>3, <3>4, <3>5, <1>inv DEF KeepsOpen, recVars
  <2> QED BY <2>2, <2>3
<1>6. ASSUME NEW w \in Workers,
             \/ WorkerShutdown(w) \/ InsertRow(w) \/ CacheNewUser(w) \/ FindOldPort(w) \/ StopOldPort(w)
             \/ UpdatePortRow(w) \/ StartNewPort(w) \/ DeleteRow(w) \/ DeleteCaches(w)
      PROVE  KeepsOpen'
  BY <1>6, <1>inv DEF WorkerShutdown, InsertRow, CacheNewUser, FindOldPort, StopOldPort,
     UpdatePortRow, StartNewPort, DeleteRow, DeleteCaches
\* A step that leaves the workers and the rows alone.
<1>still. ASSUME UNCHANGED <<wpc, wport, row>>,
                 \A p \in Ports : Tracked(p)' => Assigned(p),
                 rpc' # "idle" => \A p \in Ports : rmap'[p] # NoUser <=> Assigned(p),
                 rheld' = {}
          PROVE  KeepsOpen'
  <2>1. \A p : Assigned(p)' <=> Assigned(p)
    BY <1>still, AssignedKept
  <2> QED BY <1>still, <2>1, <1>inv DEF KeepsOpen
<1>7. CASE ReconcileList
  <2>1. UNCHANGED <<wpc, wport, row, userServers, rheld>>
    BY <1>7 DEF ReconcileList, wkVars, dbVars, mapVars
  <2>2. \A p \in Ports :
          LET owners == {u \in Users : row[u].ex /\ row[u].port = p} IN
          rmap'[p] \in IF owners = {} THEN {NoUser} ELSE owners
    BY <1>7 DEF ReconcileList
  <2>3. ASSUME NEW p \in Ports PROVE rmap'[p] # NoUser <=> Assigned(p)
    BY <2>2 DEF Assigned
  <2> QED BY <2>1, <2>3, <1>still, <1>inv DEF Tracked
<1>8. ASSUME NEW p \in Ports, ReconcileDecide(p) PROVE KeepsOpen'
  <2>1. UNCHANGED <<wpc, wport, row, userServers, rheld>> /\ rpc = "decide" /\ rpc' = rpc
    BY <1>8 DEF ReconcileDecide, wkVars, dbVars, mapVars
  <2>2. \A q \in Ports : rmap'[q] # NoUser <=> Assigned(q)
    <3>1. CASE p \in InRange
      <4>1. rmap' = rmap
        BY <1>8, <3>1 DEF ReconcileDecide, listenerWanted
      <4> QED BY <2>1, <4>1, <1>inv
    <3>2. CASE p \notin InRange
      <4>1. ~Assigned(p) /\ rmap' = [rmap EXCEPT ![p] = NoUser]
        BY <1>8, <3>2, <1>inv DEF ReconcileDecide, Assigned
      <4> QED BY <2>1, <4>1, <1>inv, <1>typ
    <3> QED BY <3>1, <3>2
  <2> QED BY <2>1, <2>2, <1>still, <1>inv DEF Tracked
<1>9. CASE ReconcileStop
  <2>1. {p \in Ports : Tracked(p) /\ rmap[p] = NoUser} = {}
    BY <1>9, <1>inv DEF ReconcileStop
  <2>2. /\ UNCHANGED <<wpc, wport, row, rmap>> /\ rheld' = {} /\ rpc # "idle"
        /\ \A p \in Ports : userServers'[p] = userServers[p]
    BY <1>9, <2>1 DEF ReconcileStop, Untrack, wkVars, dbVars
  <2> QED BY <2>2, <1>still, <1>inv DEF Tracked
<1>10. ASSUME NEW s \in Srv, ReconcileShutdown(s) PROVE KeepsOpen'
  BY <1>10, <1>inv DEF ReconcileShutdown
<1>11. CASE ReconcileStart
  <2>1. UNCHANGED <<wpc, wport, row, rheld>> /\ rpc # "idle" /\ rpc' = "idle"
    BY <1>11 DEF ReconcileStart, wkVars, dbVars
  <2>2. \A p \in Ports : Tracked(p)' => Tracked(p) \/ rmap[p] # NoUser
    BY <1>11 DEF ReconcileStart, startListenerLocked, Tracked
  <2> QED BY <2>1, <2>2, <1>still, <1>inv
<1>12. ASSUME NEW s \in Srv, ServerNext(s) \/ AcceptFails(s) PROVE KeepsOpen'
  <2>1. UNCHANGED <<wpc, wport, row, rpc, rmap, rheld>>
    BY <1>12 DEF ServerNext, Listen, Serve, ListenFails, RemoveFailed, Abort, AcceptFails,
       ServerStep, wkVars, dbVars, recVars
  <2>2. \A p \in Ports : Tracked(p)' => Tracked(p)
    BY <1>12 DEF ServerNext, Listen, Serve, ListenFails, RemoveFailed, Abort, AcceptFails,
       mapVars, Untrack, Tracked
  <2> QED BY <2>1, <2>2, <1>still, <1>inv
<1>13. CASE Tick \/ MainNext \/ UNCHANGED vars
  <2>1. UNCHANGED <<wpc, wport, row, rpc, rmap, rheld>>
    BY <1>13 DEF Tick, WindowBoundary, Expire, MainNext, StopReconciler, ShutdownUserListeners,
       MainShutdown, vars, wkVars, dbVars, recVars
  <2>2. \A p \in Ports : Tracked(p)' => Tracked(p)
    BY <1>13 DEF Tick, WindowBoundary, Expire, MainNext, StopReconciler, ShutdownUserListeners,
       MainShutdown, vars, mapVars, Untrack, Tracked
  <2> QED BY <2>1, <2>2, <1>still, <1>inv
<1> QED
  BY <1>1, <1>2, <1>3, <1>4, <1>5, <1>6, <1>7, <1>8, <1>9, <1>10, <1>11, <1>12, <1>13
  DEF Next, WorkerNext, reconcileListeners

\* A server that serves is left alone by startListenerLocked: it takes a free slot.
LEMMA StartLeavesServing ==
    ASSUME MapsSound, NEW P \in SUBSET Ports, NEW user, startListenerLocked(P, user),
           NEW s \in Srv, st[s] = "serving"
    PROVE  st'[s] = "serving"
<1>1. PICK p \in Ports, k \in Slots : s = <<p, k>>
  BY ServerIsPair
<1>2. ASSUME p \in P, k = NewSlot(p) PROVE FALSE
  BY <1>1, <1>2, NewSlotIsFree DEF startListenerLocked, FreeSlots
<1> QED BY <1>1, <1>2 DEF startListenerLocked

\* For any users, ports, workers, faults and clock: with MITM on, as long as requests
\* only pause and resume (StopListener, listenerWanted) and the process is not told
\* to stop, a port that serves goes on serving unless its own accept fails.
THEOREM MITMPortsStayOpen == PauseOnly /\ Spec => MITMKeepsPortsOpen
<1> SUFFICES ASSUME PauseOnly PROVE Spec => MITMKeepsPortsOpen
  OBVIOUS
<1>1. Init => KeepsOpen
  BY KeepsOpenInit
<1>2. IndInv /\ KeepsOpen /\ [Next]_vars => KeepsOpen'
  BY IndInvSplit, KeepsOpenNext
<1>3. IndInv /\ KeepsOpen /\ [Next]_vars
        => [cfg.MITMEnabled /\ mpc = "run" =>
              \A s \in Srv : st[s] = "serving" => st'[s] \in {"serving", "failed"}]_vars
  <2> SUFFICES ASSUME IndInv, KeepsOpen, [Next]_vars, cfg.MITMEnabled, mpc = "run",
                      NEW s \in Srv, st[s] = "serving"
               PROVE  st'[s] \in {"serving", "failed"}
    OBVIOUS
  <2>1. Control /\ MapsSound /\ st \in [Srv -> SrvStates]
    BY IndInvSplit DEF MapsSound, MapsTyped
  <2>2. /\ \A w \in Workers : wpc[w] \in {"idle", "cache", "list", "start", "stop"}
        /\ rheld = {}
    BY DEF KeepsOpen
  <2>3. ASSUME NEW w \in Workers, NewRequest(w) \/ (WorkerNext(w) /\ wpc[w] # "start")
        PROVE  st' = st
    BY <2>2, <2>3 DEF NewRequest, handleSetEnabled, handleUpdateDowntime,
       handleDowntimeOverride, handleDowntimeNow, UpdateRow, handleUpdatePort,
       handleCreateUser, handleDeleteUser, WorkerNext, WriteCache, ListUsers, StartListener,
       StopListener, WorkerShutdown, InsertRow, CacheNewUser, FindOldPort, StopOldPort,
       UpdatePortRow, StartNewPort, DeleteRow, DeleteCaches, srvVars
  <2>4. ASSUME NEW w \in Workers, StartListener(w) PROVE st'[s] = "serving"
    <3>1. wport[w] \in Ports
      BY <2>1, <2>4 DEF StartListener, Control, RequestShape
    <3>2. CASE Tracked(wport[w])
      BY <2>4, <3>2 DEF StartListener, srvVars
    <3>3. CASE ~Tracked(wport[w])
      <4>1. startListenerLocked({wport[w]}, [q \in Ports |-> wreq[w].u])
        BY <2>4, <3>3 DEF StartListener
      <4> QED BY <2>1, <3>1, <4>1, StartLeavesServing
    <3> QED BY <3>2, <3>3
  <2>5. ASSUME NEW w \in Workers, WorkerNext(w), wpc[w] = "start" PROVE StartListener(w)
    BY <2>5 DEF WorkerNext, WriteCache, ListUsers, StopListener, WorkerShutdown, InsertRow,
       CacheNewUser, FindOldPort, StopOldPort, UpdatePortRow, StartNewPort, DeleteRow,
       DeleteCaches
  <2>6. CASE reconcileListeners
    <3>1. CASE ReconcileStart
      <4> DEFINE P == {p \in Ports : rmap[p] # NoUser /\ ~Tracked(p)}
      <4>1. P \in SUBSET Ports /\ startListenerLocked(P, rmap)
        BY <3>1 DEF ReconcileStart
      <4> HIDE DEF P
      <4> QED BY <2>1, <4>1, StartLeavesServing
    <3>2. CASE ~ReconcileStart
      BY <2>2, <2>6, <3>2 DEF reconcileListeners, ReconcileList, ReconcileDecide, ReconcileStop,
         ReconcileShutdown, srvVars
    <3> QED BY <3>1, <3>2
  <2>7. ASSUME NEW t \in Srv, ServerNext(t) \/ AcceptFails(t)
        PROVE  st'[s] \in {"serving", "failed"}
    BY <2>1, <2>7 DEF ServerNext, Listen, Serve, ListenFails, RemoveFailed, Abort, AcceptFails,
       ServerStep
  <2>8. CASE Tick \/ MainNext \/ UNCHANGED vars
    BY <2>8 DEF Tick, WindowBoundary, Expire, MainNext, StopReconciler, ShutdownUserListeners,
       MainShutdown, vars, srvVars
  <2> QED BY <2>3, <2>4, <2>5, <2>6, <2>7, <2>8 DEF Next
<1> QED
  BY <1>1, <1>2, <1>3, Inductive, PTL DEF Spec, MITMKeepsPortsOpen

-----------------------------------------------------------------------------
(* One port, one user.                                                     *)

\* A port that is not contested is in one row, and in the hands of one request, at most,
\* and what a request carries is in no row but its own user's.
PortsOK ==
    \A p \in Ports \ contested :
        /\ \A u, v \in Users : Has(u, p) /\ Has(v, p) => u = v
        /\ \A x, y \in Workers : wreq[x].p = p /\ wreq[y].p = p => x = y
        /\ \A x \in Workers, v \in Users : wreq[x].p = p /\ Has(v, p) => v = wreq[x].u

\* A step that takes no port and no request up.
LEMMA PortsFrame ==
    ASSUME PortsOK, contested' = contested,
           \A v \in Users : row'[v].ex => row[v].ex /\ (row'[v].port \notin Ports \/ row'[v].port = row[v].port),
           \A w \in Workers : wreq'[w] = wreq[w] \/ wreq'[w].p \notin Ports
    PROVE  PortsOK'
BY DEF PortsOK, Has

\* A row gets the port that a request carries for its user.
LEMMA PortWritten ==
    ASSUME PortsOK, contested' = contested, NEW w \in Workers, NEW u \in Users, wreq[w].u = u,
           row'[u].port = wreq[w].p,
           \A v \in Users : v # u => row'[v] = row[v],
           \A x \in Workers : wreq'[x] = wreq[x] \/ wreq'[x].p \notin Ports
    PROVE  PortsOK'
<1> SUFFICES ASSUME NEW p \in Ports \ contested
             PROVE  /\ \A v, x \in Users : Has(v, p)' /\ Has(x, p)' => v = x
                    /\ \A x, y \in Workers : wreq'[x].p = p /\ wreq'[y].p = p => x = y
                    /\ \A x \in Workers, v \in Users : wreq'[x].p = p /\ Has(v, p)' => v = wreq'[x].u
  BY DEF PortsOK
<1>1. /\ \A v, x \in Users : Has(v, p) /\ Has(x, p) => v = x
      /\ \A x, y \in Workers : wreq[x].p = p /\ wreq[y].p = p => x = y
      /\ \A x \in Workers, v \in Users : wreq[x].p = p /\ Has(v, p) => v = wreq[x].u
  BY DEF PortsOK
<1>2. \A v \in Users : Has(v, p)' => IF v = u THEN wreq[w].p = p ELSE Has(v, p)
  BY DEF Has
<1>3. \A x \in Workers : wreq'[x].p = p => wreq'[x] = wreq[x]
  OBVIOUS
<1> QED BY <1>1, <1>2, <1>3

\* A request comes; if it carries a port, the port is in no row, or in its user's.
LEMMA PortClaimed ==
    ASSUME IndInv, PortsOK, NEW w \in Workers, NEW req \in Requests, Accept(w, req), row' = row,
           req.p # 0 => Has(req.u, req.p) \/ \A v \in Users : ~Has(v, req.p),
           req.u \in Users
    PROVE  PortsOK'
<1> USE ConstantsAssumption
<1>1. \A x \in Workers : wreq'[x] = IF x = w THEN req ELSE wreq[x]
  BY DEF Accept, IndInv, TypeOK
<1>2. SUFFICES ASSUME NEW p \in Ports, p \notin contested'
               PROVE  /\ \A v, x \in Users : Has(v, p) /\ Has(x, p) => v = x
                      /\ \A x, y \in Workers : wreq'[x].p = p /\ wreq'[y].p = p => x = y
                      /\ \A x \in Workers, v \in Users : wreq'[x].p = p /\ Has(v, p) => v = wreq'[x].u
  BY DEF PortsOK, Has
<1>3. CASE p = req.p
  <2>1. p # 0 /\ contested' = IF \E v \in Workers : wreq[v].p = p THEN contested \cup {p}
                              ELSE IF Shared(p) THEN contested ELSE contested \ {p}
    BY <1>3 DEF Accept, Contest
  <2>2. \A v \in Workers : wreq[v].p # p
    BY <1>2, <2>1
  <2>3. ~Shared(p)
    BY <1>2, <2>1, <2>2 DEF PortsOK, Shared
  <2>4. \A v, x \in Users : Has(v, p) /\ Has(x, p) => v = x
    BY <2>3 DEF Shared
  <2>5. \A v \in Users : Has(v, p) => v = req.u
    BY <1>3, <2>1, <2>4
  <2> QED BY <1>1, <2>2, <2>4, <2>5
<1>4. CASE p # req.p
  <2>1. p \notin contested
    BY <1>2, <1>4 DEF Accept, Contest
  <2>2. /\ \A v, x \in Users : Has(v, p) /\ Has(x, p) => v = x
        /\ \A x, y \in Workers : wreq[x].p = p /\ wreq[y].p = p => x = y
        /\ \A x \in Workers, v \in Users : wreq[x].p = p /\ Has(v, p) => v = wreq[x].u
    BY <2>1 DEF PortsOK
  <2>3. \A x \in Workers : wreq'[x].p = p => wreq'[x] = wreq[x]
    BY <1>1, <1>4
  <2> QED BY <2>2, <2>3
<1> QED BY <1>3, <1>4

\* Every step keeps the invariant.
LEMMA NextPorts ==
    ASSUME IndInv, PortsOK, [Next]_vars
    PROVE  PortsOK'
<1> USE ConstantsAssumption
<1>no. NoRequest.p \notin Ports
  BY DEF NoRequest
<1>1. ASSUME NEW w \in Workers, Finish(w)
      PROVE  \A x \in Workers : wreq'[x] = wreq[x] \/ wreq'[x].p \notin Ports
  BY <1>1, <1>no DEF Finish, IndInv, TypeOK
<1>2. CASE UNCHANGED <<row, wreq, contested>>
  BY <1>2, PortsFrame
<1>3. ASSUME NEW w \in Workers, NEW req \in Requests, UpdateRow(w, req), req.p = 0, req.u \in Users
      PROVE  PortsOK'
  <2>1. \A x \in Workers : wreq'[x] = wreq[x] \/ wreq'[x].p \notin Ports
    BY <1>3 DEF UpdateRow, Accept, IndInv, TypeOK
  <2>3. contested' = contested
    BY <1>3 DEF UpdateRow, Accept, Contest
  <2>2. \A v \in Users : row'[v].ex = row[v].ex /\ row'[v].port = row[v].port
    BY <1>3 DEF UpdateRow, IndInv, TypeOK
  <2> QED BY <2>1, <2>2, <2>3, PortsFrame
<1>4. ASSUME NEW w \in Workers, NEW u \in Users, NEW b \in BOOLEAN,
             \/ handleSetEnabled(w, u, b) \/ handleUpdateDowntime(w, u, b)
             \/ handleDowntimeOverride(w, u, b) \/ handleDowntimeNow(w, u, b)
      PROVE  PortsOK'
  <2>1. PICK o \in {"SetEnabled", "Schedule", "Override", "Now"} : UpdateRow(w, Request(o, u, b, 0))
    BY <1>4 DEF handleSetEnabled, handleUpdateDowntime, handleDowntimeOverride, handleDowntimeNow
  <2> DEFINE req == Request(o, u, b, 0)
  <2>2. req \in Requests /\ req.p = 0 /\ req.u = u
    BY DEF Request, Requests, AllOps
  <2> HIDE DEF req
  <2>3. UpdateRow(w, req)
    BY <2>1 DEF req
  <2> QED BY <1>3, <2>2, <2>3
<1>5. ASSUME NEW w \in Workers, NEW u \in Users, NEW p \in AssignPorts, handleUpdatePort(w, u, p)
      PROVE  PortsOK'
  <2> DEFINE req == Request("UpdatePort", u, FALSE, p)
  <2>1. req \in Requests /\ req.p = p /\ req.u = u /\ req.op = "UpdatePort"
    BY DEF Request, Requests, AllOps
  <2> HIDE DEF req
  <2>2. Accept(w, req) /\ row' = row /\ (p # 0 => Has(u, p) \/ \A v \in Users : ~Has(v, p))
    BY <1>5 DEF handleUpdatePort, req, dbVars
  <2> QED BY <2>1, <2>2, PortClaimed
<1>6. ASSUME NEW w \in Workers, NEW u \in Users, handleCreateUser(w, u)
      PROVE  PortsOK'
  <2> DEFINE p == nextAvailablePort
             req == Request("Create", u, FALSE, p)
  <2>1. p \in InRange \ UsedPorts
    BY <1>6, NextPortIsFree DEF handleCreateUser
  <2>2. Accept(w, req) /\ row' = row
    BY <1>6 DEF handleCreateUser, dbVars
  <2> HIDE DEF p
  <2>3. req \in Requests /\ req.p = p /\ req.u = u /\ req.op = "Create"
    BY <2>1 DEF Request, Requests, AllOps
  <2>4. \A v \in Users : ~Has(v, p)
    BY <2>1 DEF UsedPorts, Has
  <2> HIDE DEF req
  <2> QED BY <2>2, <2>3, <2>4, PortClaimed
<1>7. ASSUME NEW w \in Workers, NEW u \in Users, handleDeleteUser(w, u)
      PROVE  PortsOK'
  <2> DEFINE req == Request("Delete", u, FALSE, 0)
  <2>1. req \in Requests /\ req.p = 0 /\ req.u = u
    BY DEF Request, Requests, AllOps
  <2> HIDE DEF req
  <2>2. Accept(w, req) /\ row' = row
    BY <1>7 DEF handleDeleteUser, req, dbVars
  <2> QED BY <2>1, <2>2, PortClaimed
<1>8. ASSUME NEW w \in Workers, InsertRow(w)
      PROVE  PortsOK'
  <2>1. wreq[w].u \in Users
    BY <1>8 DEF InsertRow, IndInv, RequestShape
  <2>c. contested' = contested
    BY <1>8 DEF InsertRow
  <2>2. CASE row' = row /\ Finish(w)
    BY <1>1, <2>2, <2>c, PortsFrame
  <2>3. CASE /\ row' = [row EXCEPT ![wreq[w].u] = [ex |-> TRUE, port |-> wreq[w].p, en |-> TRUE]]
             /\ UNCHANGED wreq
    <3>1. row'[wreq[w].u].port = wreq[w].p /\ \A v \in Users : v # wreq[w].u => row'[v] = row[v]
      BY <2>1, <2>3 DEF IndInv, TypeOK
    <3> QED BY <2>1, <2>3, <2>c, <3>1, PortWritten
  <2> QED BY <1>8, <2>2, <2>3 DEF InsertRow
<1>9. ASSUME NEW w \in Workers, UpdatePortRow(w)
      PROVE  PortsOK'
  <2>1. wreq[w].u \in Users
    BY <1>9 DEF UpdatePortRow, IndInv, RequestShape
  <2>2. \A x \in Workers : wreq'[x] = wreq[x] \/ wreq'[x].p \notin Ports
    BY <1>1, <1>9 DEF UpdatePortRow
  <2>c. contested' = contested
    BY <1>9 DEF UpdatePortRow
  <2>3. CASE row' = row
    BY <2>2, <2>3, <2>c, PortsFrame
  <2>4. CASE row' = [row EXCEPT ![wreq[w].u].port = wreq[w].p]
    <3>1. row'[wreq[w].u].port = wreq[w].p /\ \A v \in Users : v # wreq[w].u => row'[v] = row[v]
      BY <2>1, <2>4 DEF IndInv, TypeOK
    <3> QED BY <2>1, <2>2, <2>c, <3>1, PortWritten
  <2> QED BY <1>9, <2>3, <2>4 DEF UpdatePortRow
<1>10. ASSUME NEW w \in Workers, DeleteRow(w)
       PROVE  PortsOK'
  <2>1. \A x \in Workers : wreq'[x] = wreq[x] \/ wreq'[x].p \notin Ports
    BY <1>1, <1>10 DEF DeleteRow
  <2>2. \A v \in Users : row'[v] = row[v] \/ row'[v] = NoRow
    BY <1>10 DEF DeleteRow, IndInv, TypeOK
  <2>3. contested' = contested
    BY <1>10 DEF DeleteRow
  <2> QED BY <2>1, <2>2, <2>3, PortsFrame DEF NoRow
\* The rest of a handler leaves the rows alone, and at most ends the request.
<1>11. ASSUME NEW w \in Workers,
              \/ WriteCache(w) \/ ListUsers(w) \/ StartListener(w) \/ StopListener(w) \/ WorkerShutdown(w)
              \/ CacheNewUser(w) \/ FindOldPort(w) \/ StopOldPort(w) \/ StartNewPort(w) \/ DeleteCaches(w)
       PROVE  PortsOK'
  <2>1. row' = row /\ contested' = contested
    BY <1>11 DEF WriteCache, ListUsers, StartListener, StopListener, WorkerShutdown, CacheNewUser,
                 FindOldPort, StopOldPort, StartNewPort, DeleteCaches, dbVars
  <2>2. Finish(w) \/ UNCHANGED wreq
    BY <1>11 DEF WriteCache, ListUsers, StartListener, StopListener, StopUserListener, WorkerShutdown,
                 CacheNewUser, FindOldPort, StopOldPort, StartNewPort, DeleteCaches
  <2> QED BY <1>1, <2>1, <2>2, PortsFrame
<1>12. CASE UNCHANGED vars
  BY <1>2, <1>12 DEF vars, dbVars, wkVars
<1>13. CASE reconcileListeners \/ (\E s \in Srv : ServerNext(s) \/ AcceptFails(s)) \/ Tick \/ MainNext
  <2>1. UNCHANGED <<row, wreq, contested>>
    BY <1>13 DEF reconcileListeners, ReconcileList, ReconcileDecide, ReconcileStop, ReconcileShutdown,
                 ReconcileStart, ServerNext, Listen, Serve, ListenFails, RemoveFailed, Abort, AcceptFails,
                 ServerStep, Tick, WindowBoundary, Expire, MainNext, StopReconciler,
                 ShutdownUserListeners, MainShutdown, dbVars, wkVars
  <2> QED BY <1>2, <2>1
<1>14. ASSUME NEW w \in Workers, NewRequest(w) PROVE PortsOK'
  BY <1>4, <1>5, <1>6, <1>7, <1>14 DEF NewRequest
<1>15. ASSUME NEW w \in Workers, WorkerNext(w) PROVE PortsOK'
  BY <1>8, <1>9, <1>10, <1>11, <1>15 DEF WorkerNext
<1> QED BY <1>12, <1>13, <1>14, <1>15 DEF Next

\* For any number of requests at once: a port that two of them were not giving out at the
\* same time never comes to be two users', whatever the handlers of creations, moves,
\* deletions and pauses, the reconciler, the servers and the clock do between the look
\* for a free port and the statement that takes it.
THEOREM PortsStayUnique == Spec => []PortsUnique
<1>1. Init => PortsOK
  BY ConstantsAssumption DEF Init, PortsOK, Shared, Has, NoRequest
<1>2. IndInv /\ PortsOK /\ [Next]_vars => PortsOK'
  BY NextPorts
<1>3. PortsOK => PortsUnique
  BY DEF PortsOK, PortsUnique
<1> QED BY <1>1, <1>2, <1>3, Inductive, PTL DEF Spec
=============================================================================
