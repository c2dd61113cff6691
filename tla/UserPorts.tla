------------------------------ MODULE UserPorts ------------------------------
(***************************************************************************)
(* The dedicated per-user listeners of pkg/proxy/userports.go, driven by   *)
(* the admin handlers of pkg/admin/api.go, the 30-second reconciler, the   *)
(* serving goroutines and the clock.                                       *)
(*                                                                         *)
(* One action is one critical section, one SQL statement, one cache write  *)
(* or one call of net/http, so every interleaving of admin requests, the   *)
(* reconciler and the serving goroutines is explored.  A server object is  *)
(* a pair <<port, slot>>; a slot is reused once nothing refers to it.      *)
(***************************************************************************)
EXTENDS Naturals, FiniteSets

CONSTANTS Users,        \* user names
          Ports,        \* port numbers a row of the users table may hold
          InRange,      \* the ports within [UserPortMin, UserPortMax]
          Slots,        \* identities of the http.Server objects of one port
          Workers,      \* goroutines serving admin requests
          Configs,      \* configurations the process may be started with
          Ops,          \* admin requests that arrive in this instance
          AssignPorts,  \* ports that PUT /api/users/port asks for, 0 = none
          InitPort,     \* port of each user at startup, 0 = none
          Absent,       \* users without a row at startup
          MaxOps,       \* bound: admin requests and signals
          MaxFaults,    \* bound: bind and accept errors not of our making
          MaxClock,     \* bound: window boundaries and expiries
          NoUser, NoSlot

AllOps == {"SetEnabled", "Override", "Now", "Schedule", "UpdatePort",
           "Create", "Delete", "Shutdown"}

ASSUME ConstantsAssumption ==
    /\ Ports \subseteq Nat \ {0}
    /\ InRange \subseteq Ports
    /\ Configs \subseteq [MITMEnabled : BOOLEAN, DemoMode : BOOLEAN]
    /\ Ops \subseteq AllOps
    /\ AssignPorts \subseteq InRange \cup {0}
    /\ InitPort \in [Users -> Ports \cup {0}]
    /\ Absent \subseteq Users
    /\ MaxOps \in Nat /\ MaxFaults \in Nat /\ MaxClock \in Nat
    /\ NoUser \notin Users /\ NoSlot \notin Slots

VARIABLES
    row,          \* users table: exists, port, enabled
    enabledCache, \* userdb.enabledCache; FALSE also stands for "no entry"
    sched,        \* is now inside a window of the cached downtime schedule?
    override,     \* is now before the cached downtime_override_until?
    until,        \* is now before the cached downtime_until?
    userServers,  \* Handler.userServers: port -> server
    portUsers,    \* Handler.portUsers: port -> user
    st,           \* per server: where ListenAndServe is
    own,          \* per server: the user its handler closure captured
    rpc,          \* reconciler goroutine: program counter,
    rmap,         \*   ports (later shouldRun): port -> user,
    rtodo,        \*   ports still to be judged by listenerWanted,
    rheld,        \*   toStop: servers untracked but not yet shut down
    wpc, wreq,    \* admin worker: program counter, request,
    wport,        \*   the port it works on,
    wheld,        \*   the server it untracked and has yet to shut down
    cfg,          \* main goroutine: the configuration it started with,
    mpc, mheld,   \*   program counter, servers to shut down
    contested,    \* history: ports two requests have been giving out at once
    ops, faults, clock

dbVars   == <<row, enabledCache, sched, override, until>>
mapVars  == <<userServers, portUsers>>
srvVars  == <<st, own>>
recVars  == <<rpc, rmap, rtodo, rheld>>
wkVars   == <<wpc, wreq, wport, wheld>>
mainVars == <<cfg, mpc, mheld>>
vars == <<dbVars, mapVars, srvVars, recVars, wkVars, mainVars, ops, contested, faults, clock>>

Srv == Ports \X Slots

\* Where a server's goroutine is.  "none": it has ended, or never began;
\* "listening": the socket is bound but Serve has not registered it;
\* "aborting", "closing": as "starting", "listening", after Shutdown;
\* "failed": ListenAndServe returned an error other than ErrServerClosed.
SrvStates == {"none", "starting", "listening", "serving", "failed",
              "aborting", "closing", "demo"}

\* The states in which the operating system's port is taken.
BoundStates == {"listening", "serving", "closing"}

\* The states of a server that nobody has shut down and that will serve,
\* or already serves, its user.
LiveStates == {"starting", "listening", "serving", "demo"}

WorkerStates == {"idle", "cache", "list", "start", "stop", "shutdown", "findOld",
                 "stopOld", "updatePort", "startNew", "insert", "cacheNew",
                 "dbDelete", "cacheDelete"}

Requests == [op : AllOps \cup {"none"}, u : Users \cup {NoUser},
             b : BOOLEAN, p : Ports \cup {0}]

NoRequest == [op |-> "none", u |-> NoUser, b |-> FALSE, p |-> 0]

NoRow == [ex |-> FALSE, port |-> 0, en |-> FALSE]

TypeOK ==
    /\ row \in [Users -> [ex : BOOLEAN, port : Ports \cup {0}, en : BOOLEAN]]
    /\ enabledCache \in [Users -> BOOLEAN]
    /\ sched \in [Users -> BOOLEAN]
    /\ override \in [Users -> BOOLEAN]
    /\ until \in [Users -> BOOLEAN]
    /\ userServers \in [Ports -> Slots \cup {NoSlot}]
    /\ portUsers \in [Ports -> Users \cup {NoUser}]
    /\ st \in [Srv -> SrvStates]
    /\ own \in [Srv -> Users \cup {NoUser}]
    /\ rpc \in {"idle", "decide", "shutdown"}
    /\ rmap \in [Ports -> Users \cup {NoUser}]
    /\ rtodo \in SUBSET Ports
    /\ rheld \in SUBSET Srv
    /\ wpc \in [Workers -> WorkerStates]
    /\ wreq \in [Workers -> Requests]
    /\ wport \in [Workers -> Ports \cup {0}]
    /\ wheld \in [Workers -> SUBSET Srv]
    /\ cfg \in Configs
    /\ mpc \in {"run", "stopping", "closing"}
    /\ mheld \in SUBSET Srv
    /\ contested \in SUBSET Ports
    /\ ops \in 0..MaxOps /\ faults \in 0..MaxFaults /\ clock \in 0..MaxClock

-----------------------------------------------------------------------------
(* What the maps and the servers say.                                      *)

Tracked(p) == userServers[p] # NoSlot

IsTracked(s) == userServers[s[1]] = s[2]

\* The servers that someone has taken out of the maps and will shut down.
Held == rheld \cup mheld \cup UNION {wheld[w] : w \in Workers}

PortTaken(p) == \E k \in Slots : st[<<p, k>>] \in BoundStates

FreeSlots(p) == {k \in Slots : /\ st[<<p, k>>] = "none"
                               /\ ~IsTracked(<<p, k>>)
                               /\ <<p, k>> \notin Held}

NewSlot(p) == CHOOSE k \in FreeSlots(p) : TRUE

IsInDowntime(u) == until[u] \/ (~override[u] /\ sched[u])

listenerWanted(u) == cfg.MITMEnabled \/ (enabledCache[u] /\ ~IsInDowntime(u))

-----------------------------------------------------------------------------
(* Critical sections under portMu.                                         *)

\* startListenerLocked for every port of P, with portUsers set by the caller.
startListenerLocked(P, user) ==
    /\ \A p \in P : FreeSlots(p) # {}
    /\ userServers' = [p \in Ports |-> IF p \in P THEN NewSlot(p) ELSE userServers[p]]
    /\ portUsers' = [p \in Ports |-> IF p \in P THEN user[p] ELSE portUsers[p]]
    /\ st' = [s \in Srv |-> IF s[1] \in P /\ s[2] = NewSlot(s[1])
                              THEN IF cfg.DemoMode THEN "demo" ELSE "starting"
                              ELSE st[s]]
    /\ own' = [s \in Srv |-> IF s[1] \in P /\ s[2] = NewSlot(s[1])
                               THEN user[s[1]] ELSE own[s]]

\* delete(h.userServers, port); delete(h.portUsers, port)
Untrack(P) ==
    /\ userServers' = [p \in Ports |-> IF p \in P THEN NoSlot ELSE userServers[p]]
    /\ portUsers' = [p \in Ports |-> IF p \in P THEN NoUser ELSE portUsers[p]]

\* http.Server.Shutdown: closes a registered listener; a goroutine that has
\* not registered one yet finds inShutdown set and closes it itself.
AfterShutdown(s) ==
    CASE st[s] = "starting"  -> "aborting"
      [] st[s] = "listening" -> "closing"
      [] st[s] \in {"serving", "demo"} -> "none"
      [] OTHER -> st[s]

ShutdownServer(s) ==
    /\ st' = [st EXCEPT ![s] = AfterShutdown(s)]
    /\ own' = [own EXCEPT ![s] = IF AfterShutdown(s) = "none" THEN NoUser ELSE own[s]]

-----------------------------------------------------------------------------
(* Admin handlers: a request begins with the handler's first statement that *)
(* reads or writes shared state.                                           *)

Goto(w, l) == wpc' = [wpc EXCEPT ![w] = l]

Finish(w) ==
    /\ Goto(w, "idle")
    /\ wreq' = [wreq EXCEPT ![w] = NoRequest]
    /\ wport' = [wport EXCEPT ![w] = 0]

Has(u, p) == row[u].ex /\ row[u].port = p

Shared(p) == \E u, v \in Users : u # v /\ Has(u, p) /\ Has(v, p)

\* History only: a port is contested from the moment a second request comes to
\* give it out while a first one still does, until it is given out again
\* by one request alone with no two rows on it.
Contest(p) ==
    contested' = IF p = 0 THEN contested
                 ELSE IF \E v \in Workers : wreq[v].p = p THEN contested \cup {p}
                 ELSE IF Shared(p) THEN contested
                 ELSE contested \ {p}

Accept(w, req) ==
    /\ req.op \in Ops
    /\ wpc[w] = "idle" /\ ops < MaxOps
    /\ ops' = ops + 1
    /\ wreq' = [wreq EXCEPT ![w] = req]
    /\ Contest(req.p)

Request(name, u, b, p) == [op |-> name, u |-> u, b |-> b, p |-> p]

\* The UPDATE of a setter; without such a row it answers 404.
UpdateRow(w, req) ==
    /\ Accept(w, req)
    /\ row[req.u].ex
    /\ row' = IF req.op = "SetEnabled" THEN [row EXCEPT ![req.u].en = req.b] ELSE row
    /\ Goto(w, "cache")
    /\ UNCHANGED <<enabledCache, sched, override, until, mapVars, srvVars, recVars,
                   wport, wheld, mainVars, faults, clock>>

handleSetEnabled(w, u, b) == UpdateRow(w, Request("SetEnabled", u, b, 0))

handleUpdateDowntime(w, u, b) == UpdateRow(w, Request("Schedule", u, b, 0))

handleDowntimeOverride(w, u, b) == UpdateRow(w, Request("Override", u, b, 0))

handleDowntimeNow(w, u, b) == UpdateRow(w, Request("Now", u, b, 0))

\* The setter's second half: the in-memory cache, under its own mutex.
WriteCache(w) ==
    LET r == wreq[w] IN
    /\ wpc[w] = "cache"
    /\ enabledCache' = IF r.op = "SetEnabled" THEN [enabledCache EXCEPT ![r.u] = r.b] ELSE enabledCache
    /\ sched' = IF r.op = "Schedule" THEN [sched EXCEPT ![r.u] = r.b] ELSE sched
    /\ override' = IF r.op = "Override" THEN [override EXCEPT ![r.u] = r.b] ELSE override
    /\ until' = IF r.op = "Now" THEN [until EXCEPT ![r.u] = r.b] ELSE until
    /\ IF r.op = "Schedule" \/ (r.op = "Override" /\ ~r.b)
         THEN Finish(w)
         ELSE Goto(w, "list") /\ UNCHANGED <<wreq, wport>>
    /\ UNCHANGED <<row, mapVars, srvVars, recVars, wheld, mainVars, ops, contested, faults, clock>>

\* What the handler does next, given the row that users.List returned.
AfterList(r) ==
    IF ~row[r.u].ex \/ row[r.u].port = 0 THEN "idle"
    ELSE CASE r.op = "SetEnabled" -> IF r.b THEN "start" ELSE "stop"
           [] r.op = "Override"   -> "start"
           [] r.op = "Now"        -> IF r.b THEN "stop"
                                     ELSE IF row[r.u].en THEN "start" ELSE "idle"
           [] OTHER -> "idle"

ListUsers(w) ==
    LET next == AfterList(wreq[w]) IN
    /\ wpc[w] = "list"
    /\ IF next = "idle"
         THEN Finish(w)
         ELSE /\ Goto(w, next)
              /\ wport' = [wport EXCEPT ![w] = row[wreq[w].u].port]
              /\ wreq' = wreq
    /\ UNCHANGED <<dbVars, mapVars, srvVars, recVars, wheld, mainVars, ops, contested, faults, clock>>

StartListener(w) ==
    LET p == wport[w]
        u == wreq[w].u IN
    /\ wpc[w] = "start"
    /\ IF Tracked(p)
         THEN portUsers' = [portUsers EXCEPT ![p] = u] /\ UNCHANGED <<userServers, srvVars>>
         ELSE startListenerLocked({p}, [q \in Ports |-> u])
    /\ Finish(w)
    /\ UNCHANGED <<dbVars, recVars, wheld, mainVars, ops, contested, faults, clock>>

\* StopUserListener's critical section, then `next` or the Shutdown.
StopUserListener(w, p, next) ==
    /\ IF Tracked(p)
         THEN /\ Untrack({p})
              /\ wheld' = [wheld EXCEPT ![w] = {<<p, userServers[p]>>}]
              /\ Goto(w, "shutdown") /\ UNCHANGED <<wreq, wport>>
         ELSE /\ UNCHANGED <<mapVars, wheld>>
              /\ IF next = "idle" THEN Finish(w) ELSE Goto(w, next) /\ UNCHANGED <<wreq, wport>>

\* Fault: StopListener without its MITM test.
StopDespiteMITM(w) ==
    /\ wpc[w] = "stop"
    /\ StopUserListener(w, wport[w], "idle")
    /\ UNCHANGED <<dbVars, srvVars, recVars, mainVars, ops, contested, faults, clock>>

StopListener(w) ==
    /\ wpc[w] = "stop"
    /\ IF cfg.MITMEnabled
         THEN Finish(w) /\ UNCHANGED <<mapVars, wheld>>
         ELSE StopUserListener(w, wport[w], "idle")
    /\ UNCHANGED <<dbVars, srvVars, recVars, mainVars, ops, contested, faults, clock>>

Reassigns(w) == wreq[w].op \in {"UpdatePort", "Create", "Delete"}

WorkerShutdown(w) ==
    /\ wpc[w] = "shutdown"
    /\ \E s \in wheld[w] : ShutdownServer(s)
    /\ wheld' = [wheld EXCEPT ![w] = {}]
    /\ IF Reassigns(w) THEN Goto(w, "updatePort") /\ UNCHANGED <<wreq, wport>> ELSE Finish(w)
    /\ UNCHANGED <<dbVars, mapVars, recVars, mainVars, ops, contested, faults, clock>>

-----------------------------------------------------------------------------
(* Port assignment.                                                        *)

\* Fault: PortOwner is not asked.
UpdatePortUnasked(w, u, p) ==
    /\ Accept(w, Request("UpdatePort", u, FALSE, p))
    /\ p \in AssignPorts
    /\ Goto(w, "findOld")
    /\ UNCHANGED <<dbVars, mapVars, srvVars, recVars, wport, wheld, mainVars, faults, clock>>

\* PortOwner, any one of the rows with the port, must be nobody or the user;
\* 0 unassigns and is not checked.
handleUpdatePort(w, u, p) ==
    /\ Accept(w, Request("UpdatePort", u, FALSE, p))
    /\ p \in AssignPorts
    /\ p = 0 \/ Has(u, p) \/ \A v \in Users : ~Has(v, p)
    /\ Goto(w, "findOld")
    /\ UNCHANGED <<dbVars, mapVars, srvVars, recVars, wport, wheld, mainVars, faults, clock>>

\* nextAvailablePort is the SELECT; the INSERT is a statement of its own.
UsedPorts == {row[v].port : v \in {x \in Users : row[x].ex}}

\* The lowest port of the range that no row has.
nextAvailablePort ==
    CHOOSE p \in InRange \ UsedPorts : \A q \in InRange \ UsedPorts : p <= q

handleCreateUser(w, u) ==
    /\ InRange \ UsedPorts # {}
    /\ Accept(w, Request("Create", u, FALSE, nextAvailablePort))
    /\ Goto(w, "insert")
    /\ UNCHANGED <<dbVars, mapVars, srvVars, recVars, wport, wheld, mainVars, faults, clock>>

InsertRow(w) ==
    LET r == wreq[w] IN
    /\ wpc[w] = "insert"
    /\ IF row[r.u].ex
         THEN Finish(w) /\ row' = row
         ELSE /\ row' = [row EXCEPT ![r.u] = [ex |-> TRUE, port |-> r.p, en |-> TRUE]]
              /\ Goto(w, "cacheNew") /\ UNCHANGED <<wreq, wport>>
    /\ UNCHANGED <<enabledCache, sched, override, until, mapVars, srvVars, recVars,
                   wheld, mainVars, ops, contested, faults, clock>>

CacheNewUser(w) ==
    /\ wpc[w] = "cacheNew"
    /\ enabledCache' = [enabledCache EXCEPT ![wreq[w].u] = TRUE]
    /\ Goto(w, "findOld")
    /\ UNCHANGED <<row, sched, override, until, mapVars, srvVars, recVars, wreq, wport,
                   wheld, mainVars, ops, contested, faults, clock>>

\* A row with a port is first unassigned through UpdateUserPort(u, 0).
handleDeleteUser(w, u) ==
    /\ Accept(w, Request("Delete", u, FALSE, 0))
    /\ Goto(w, IF row[u].ex /\ row[u].port # 0 THEN "findOld" ELSE "dbDelete")
    /\ UNCHANGED <<dbVars, mapVars, srvVars, recVars, wport, wheld, mainVars, faults, clock>>

\* UpdateUserPort, read section: any port that portUsers gives to the user.
FindOldPort(w) ==
    LET old == {p \in Ports : portUsers[p] = wreq[w].u} IN
    /\ wpc[w] = "findOld"
    /\ \/ /\ old = {} /\ Goto(w, "updatePort") /\ wport' = wport
       \/ \E p \in old : Goto(w, "stopOld") /\ wport' = [wport EXCEPT ![w] = p]
    /\ UNCHANGED <<dbVars, mapVars, srvVars, recVars, wreq, wheld, mainVars, ops, contested, faults, clock>>

StopOldPort(w) ==
    /\ wpc[w] = "stopOld"
    /\ StopUserListener(w, wport[w], "updatePort")
    /\ UNCHANGED <<dbVars, srvVars, recVars, mainVars, ops, contested, faults, clock>>

\* DB.UpdatePort; handleDeleteUser ignores its error and goes on.
UpdatePortRow(w) ==
    LET r == wreq[w] IN
    /\ wpc[w] = "updatePort"
    /\ row' = IF row[r.u].ex THEN [row EXCEPT ![r.u].port = r.p] ELSE row
    /\ IF r.op = "Delete" THEN Goto(w, "dbDelete") /\ UNCHANGED <<wreq, wport>>
       ELSE IF row[r.u].ex /\ r.p # 0
              THEN Goto(w, "startNew") /\ UNCHANGED <<wreq, wport>>
              ELSE Finish(w)
    /\ UNCHANGED <<enabledCache, sched, override, until, mapVars, srvVars, recVars,
                   wheld, mainVars, ops, contested, faults, clock>>

\* UpdateUserPort starts the listener whether or not one is running.
StartNewPort(w) ==
    /\ wpc[w] = "startNew"
    /\ startListenerLocked({wreq[w].p}, [q \in Ports |-> wreq[w].u])
    /\ Finish(w)
    /\ UNCHANGED <<dbVars, recVars, wheld, mainVars, ops, contested, faults, clock>>

DeleteRow(w) ==
    LET u == wreq[w].u IN
    /\ wpc[w] = "dbDelete"
    /\ row' = [row EXCEPT ![u] = NoRow]
    /\ IF row[u].ex THEN Goto(w, "cacheDelete") /\ UNCHANGED <<wreq, wport>> ELSE Finish(w)
    /\ UNCHANGED <<enabledCache, sched, override, until, mapVars, srvVars, recVars,
                   wheld, mainVars, ops, contested, faults, clock>>

\* DB.Delete drops three of the four entries; downtimeUntilCache keeps its own.
DeleteCaches(w) ==
    LET u == wreq[w].u IN
    /\ wpc[w] = "cacheDelete"
    /\ sched' = [sched EXCEPT ![u] = FALSE]
    /\ override' = [override EXCEPT ![u] = FALSE]
    /\ enabledCache' = [enabledCache EXCEPT ![u] = FALSE]
    /\ Finish(w)
    /\ UNCHANGED <<row, until, mapVars, srvVars, recVars, wheld, mainVars, ops, contested, faults, clock>>

-----------------------------------------------------------------------------
(* The reconciler goroutine.                                               *)

\* ListPorts: of two rows with the same port the later one scanned stays.
ReconcileList ==
    /\ rpc = "idle" /\ mpc = "run"
    /\ \E m \in [Ports -> Users \cup {NoUser}] :
         /\ \A p \in Ports :
              LET owners == {u \in Users : row[u].ex /\ row[u].port = p} IN
              m[p] \in IF owners = {} THEN {NoUser} ELSE owners
         /\ rmap' = m
         /\ rtodo' = {p \in Ports : m[p] # NoUser}
    /\ rpc' = "decide"
    /\ UNCHANGED <<dbVars, mapVars, srvVars, rheld, wkVars, mainVars, ops, contested, faults, clock>>

ReconcileDecide(p) ==
    /\ rpc = "decide" /\ p \in rtodo
    /\ rmap' = IF p \in InRange /\ listenerWanted(rmap[p]) THEN rmap
               ELSE [rmap EXCEPT ![p] = NoUser]
    /\ rtodo' = rtodo \ {p}
    /\ UNCHANGED <<dbVars, mapVars, srvVars, rpc, rheld, wkVars, mainVars, ops, contested, faults, clock>>

\* Fault: the reconciler shuts servers down but leaves them in the maps.
StopWithoutDelete ==
    /\ rpc = "decide" /\ rtodo = {}
    /\ rheld' = {<<p, userServers[p]>> : p \in {q \in Ports : Tracked(q) /\ rmap[q] = NoUser}}
    /\ rpc' = "shutdown"
    /\ UNCHANGED <<dbVars, mapVars, srvVars, rmap, rtodo, wkVars, mainVars, ops, contested, faults, clock>>

\* First critical section: untrack what runs but should not.
ReconcileStop ==
    LET P == {p \in Ports : Tracked(p) /\ rmap[p] = NoUser} IN
    /\ rpc = "decide" /\ rtodo = {}
    /\ Untrack(P)
    /\ rheld' = {<<p, userServers[p]>> : p \in P}
    /\ rpc' = "shutdown"
    /\ UNCHANGED <<dbVars, srvVars, rmap, rtodo, wkVars, mainVars, ops, contested, faults, clock>>

ReconcileShutdown(s) ==
    /\ rpc = "shutdown" /\ s \in rheld
    /\ ShutdownServer(s)
    /\ rheld' = rheld \ {s}
    /\ UNCHANGED <<dbVars, mapVars, rpc, rmap, rtodo, wkVars, mainVars, ops, contested, faults, clock>>

\* Second critical section: start what should run but does not.
ReconcileStart ==
    /\ rpc = "shutdown" /\ rheld = {}
    /\ startListenerLocked({p \in Ports : rmap[p] # NoUser /\ ~Tracked(p)}, rmap)
    /\ rpc' = "idle"
    /\ rmap' = [p \in Ports |-> NoUser]
    /\ UNCHANGED <<dbVars, rtodo, rheld, wkVars, mainVars, ops, contested, faults, clock>>

-----------------------------------------------------------------------------
(* The goroutine of a server: ListenAndServe and what follows it.          *)

ServerStep(s, from, to) ==
    /\ st[s] = from
    /\ st' = [st EXCEPT ![s] = to]
    /\ own' = [own EXCEPT ![s] = IF to = "none" THEN NoUser ELSE own[s]]
    /\ UNCHANGED <<dbVars, recVars, wkVars, mainVars, ops, contested, clock>>

Listen(s) ==
    /\ ~PortTaken(s[1])
    /\ ServerStep(s, "starting", "listening")
    /\ UNCHANGED <<mapVars, faults>>

Serve(s) == ServerStep(s, "listening", "serving") /\ UNCHANGED <<mapVars, faults>>

\* "address already in use" from one of our own servers, or another cause.
ListenFails(s) ==
    /\ \/ PortTaken(s[1]) /\ faults' = faults
       \/ ~PortTaken(s[1]) /\ faults < MaxFaults /\ faults' = faults + 1
    /\ ServerStep(s, "starting", "failed")
    /\ UNCHANGED mapVars

AcceptFails(s) ==
    /\ faults < MaxFaults /\ faults' = faults + 1
    /\ ServerStep(s, "serving", "failed")
    /\ UNCHANGED mapVars

\* Faults: the error branch forgets the maps, or one of them.
FailWithoutDelete(s) == ServerStep(s, "failed", "none") /\ UNCHANGED <<mapVars, faults>>

FailDeletesServerOnly(s) ==
    /\ ServerStep(s, "failed", "none")
    /\ userServers' = IF IsTracked(s) THEN [userServers EXCEPT ![s[1]] = NoSlot] ELSE userServers
    /\ UNCHANGED <<portUsers, faults>>

\* The error branch: leave the maps, unless another server took the port.
RemoveFailed(s) ==
    /\ ServerStep(s, "failed", "none")
    /\ IF IsTracked(s) THEN Untrack({s[1]}) ELSE UNCHANGED mapVars
    /\ UNCHANGED faults

\* Shutdown came before Serve registered the listener: net.Listen may still
\* have been on its way and hold the port for a moment.
Abort(s) ==
    /\ \/ ServerStep(s, "aborting", "none")
       \/ ~PortTaken(s[1]) /\ ServerStep(s, "aborting", "closing")
       \/ ServerStep(s, "closing", "none")
    /\ UNCHANGED <<mapVars, faults>>

-----------------------------------------------------------------------------
(* The clock, and the shutdown of the process in main.                     *)

WindowBoundary(u) ==
    /\ row[u].ex /\ clock < MaxClock
    /\ sched' = [sched EXCEPT ![u] = ~sched[u]]
    /\ clock' = clock + 1
    /\ UNCHANGED <<row, enabledCache, override, until, mapVars, srvVars, recVars, wkVars,
                   mainVars, ops, contested, faults>>

Expire(u) ==
    /\ clock < MaxClock
    /\ \/ override[u] /\ override' = [override EXCEPT ![u] = FALSE] /\ until' = until
       \/ until[u] /\ until' = [until EXCEPT ![u] = FALSE] /\ override' = override
    /\ clock' = clock + 1
    /\ UNCHANGED <<row, enabledCache, sched, mapVars, srvVars, recVars, wkVars,
                   mainVars, ops, contested, faults>>

\* A signal: StopReconciler only keeps the next pass from beginning.
StopReconciler ==
    /\ mpc = "run" /\ "Shutdown" \in Ops /\ ops < MaxOps
    /\ mpc' = "stopping"
    /\ ops' = ops + 1
    /\ UNCHANGED <<dbVars, mapVars, srvVars, recVars, wkVars, cfg, mheld, contested, faults, clock>>

\* Fault: the maps are cleared before the servers are copied.
ClearMapsFirst ==
    /\ mpc = "stopping"
    /\ mheld' = {}
    /\ Untrack(Ports)
    /\ mpc' = "closing"
    /\ UNCHANGED <<dbVars, srvVars, recVars, wkVars, cfg, ops, contested, faults, clock>>

\* Once mheld is empty main shuts the other servers down and the process ends.
ShutdownUserListeners ==
    /\ mpc = "stopping"
    /\ mheld' = {<<p, userServers[p]>> : p \in {q \in Ports : Tracked(q)}}
    /\ Untrack(Ports)
    /\ mpc' = "closing"
    /\ UNCHANGED <<dbVars, srvVars, recVars, wkVars, cfg, ops, contested, faults, clock>>

MainShutdown(s) ==
    /\ mpc = "closing" /\ s \in mheld
    /\ ShutdownServer(s)
    /\ mheld' = mheld \ {s}
    /\ UNCHANGED <<dbVars, mapVars, recVars, wkVars, cfg, mpc, ops, contested, faults, clock>>

-----------------------------------------------------------------------------
(* StartUserListeners has run: every user whose listener is wanted has one *)
(* starting.  Rows and windows are whatever the database held.             *)

Init ==
    /\ cfg \in Configs
    /\ row \in {r \in [Users -> [ex : BOOLEAN, port : Ports \cup {0}, en : BOOLEAN]] :
                  \A u \in Users : IF u \in Absent THEN r[u] = NoRow
                                   ELSE r[u].ex /\ r[u].port = InitPort[u]}
    /\ enabledCache = [u \in Users |-> row[u].en]
    /\ sched \in [Users -> BOOLEAN]
    /\ \A u \in Absent : ~sched[u]
    /\ override = [u \in Users |-> FALSE]
    /\ until = [u \in Users |-> FALSE]
    /\ userServers = [p \in Ports |->
          IF p \in InRange /\ \E u \in Users : row[u].port = p /\ listenerWanted(u)
            THEN CHOOSE k \in Slots : TRUE ELSE NoSlot]
    /\ portUsers = [p \in Ports |->
          IF Tracked(p) THEN CHOOSE u \in Users : row[u].port = p /\ listenerWanted(u)
          ELSE NoUser]
    /\ st = [s \in Srv |-> IF ~IsTracked(s) THEN "none"
                           ELSE IF cfg.DemoMode THEN "demo" ELSE "starting"]
    /\ own = [s \in Srv |-> IF IsTracked(s) THEN portUsers[s[1]] ELSE NoUser]
    /\ rpc = "idle" /\ rmap = [p \in Ports |-> NoUser] /\ rtodo = {} /\ rheld = {}
    /\ wpc = [w \in Workers |-> "idle"]
    /\ wreq = [w \in Workers |-> NoRequest]
    /\ wport = [w \in Workers |-> 0]
    /\ wheld = [w \in Workers |-> {}]
    /\ mpc = "run" /\ mheld = {}
    /\ contested = {p \in Ports : Shared(p)}
    /\ ops = 0 /\ faults = 0 /\ clock = 0

NewRequest(w) ==
    \E u \in Users :
       \/ \E b \in BOOLEAN : \/ handleSetEnabled(w, u, b)
                             \/ handleUpdateDowntime(w, u, b)
                             \/ handleDowntimeOverride(w, u, b)
                             \/ handleDowntimeNow(w, u, b)
       \/ \E p \in AssignPorts : handleUpdatePort(w, u, p)
       \/ handleCreateUser(w, u)
       \/ handleDeleteUser(w, u)

WorkerNext(w) ==
    \/ WriteCache(w)    \/ ListUsers(w)     \/ StartListener(w) \/ StopListener(w)
    \/ WorkerShutdown(w)
    \/ InsertRow(w)     \/ CacheNewUser(w)  \/ FindOldPort(w)   \/ StopOldPort(w)
    \/ UpdatePortRow(w) \/ StartNewPort(w)  \/ DeleteRow(w)     \/ DeleteCaches(w)

reconcileListeners ==
    \/ ReconcileList
    \/ \E p \in Ports : ReconcileDecide(p)
    \/ ReconcileStop
    \/ \E s \in Srv : ReconcileShutdown(s)
    \/ ReconcileStart

ServerNext(s) == Listen(s) \/ Serve(s) \/ ListenFails(s) \/ RemoveFailed(s) \/ Abort(s)

Tick == \E u \in Users : WindowBoundary(u) \/ Expire(u)

MainNext == StopReconciler \/ ShutdownUserListeners \/ \E s \in Srv : MainShutdown(s)

Next ==
    \/ \E w \in Workers : NewRequest(w) \/ WorkerNext(w)
    \/ reconcileListeners
    \/ \E s \in Srv : ServerNext(s) \/ AcceptFails(s)
    \/ Tick
    \/ MainNext

\* The ticker keeps firing, handlers and goroutines keep running; requests,
\* faults and the clock owe nothing.
Fairness ==
    /\ WF_vars(reconcileListeners)
    /\ \A w \in Workers : WF_vars(WorkerNext(w))
    /\ \A s \in Srv : WF_vars(ServerNext(s))

Spec == Init /\ [][Next]_vars

FairSpec == Spec /\ Fairness
-----------------------------------------------------------------------------
(* Properties.                                                             *)

\* The two maps of Handler are kept in step: a port has an owner exactly when
\* it has a server.  Every critical section of userports.go writes both.
MapsAgree == \A p \in Ports : Tracked(p) <=> portUsers[p] # NoUser

\* A server in userServers has not been shut down and its goroutine has not
\* ended; otherwise the reconciler would take a dead port for a running one
\* and never retry it (the error branch of startListenerLocked).
NoZombie ==
    \A s \in Srv : IsTracked(s) => st[s] \in LiveStates \cup {"failed"}

\* A server that serves, or is about to, is in userServers or in the hands of
\* a goroutine that will shut it down.  An orphan can never be closed again:
\* pausing its user has no effect, and its port cannot be bound anew.
NoOrphan ==
    \A s \in Srv : st[s] \in LiveStates => IsTracked(s) \/ s \in Held

\* The user may use the proxy now: what listenerWanted is to enforce.
Blocked(u) == ~enabledCache[u] \/ until[u] \/ (sched[u] /\ ~override[u])

Entitled(p) == {u \in Users : /\ row[u].ex /\ row[u].port = p /\ p \in InRange
                              /\ cfg.MITMEnabled \/ ~Blocked(u)}

\* In demo mode a port is active in the maps only.
Active == IF cfg.DemoMode THEN "demo" ELSE "serving"

PortConverged(p) ==
    IF Entitled(p) = {} THEN ~PortTaken(p) /\ ~Tracked(p)
    ELSE \E k \in Slots : LET s == <<p, k>> IN
            st[s] = Active /\ IsTracked(s) /\ own[s] \in Entitled(p)

\* However admin requests, window boundaries, bind errors and the reconciler
\* interleave, once they stop every port is bound exactly when its user may
\* use it, by a server for that user, and stays so while the process runs.
ListenersConverge == <>[](mpc = "run" => \A p \in Ports : PortConverged(p))

\* With MITM on, no pause, resume, schedule change or reconciler pass closes a
\* port that serves before the process is told to stop: a dead port makes iOS
\* Safari fall back DIRECT.
MITMKeepsPortsOpen ==
    [][cfg.MITMEnabled /\ mpc = "run" =>
        \A s \in Srv : st[s] = "serving" => st'[s] \in {"serving", "failed"}]_vars

\* Two users come to have one dedicated port only where two requests were giving
\* that very port out at once: otherwise a port looked for in one statement and
\* taken in a later one is still nobody else's, with listeners stopped in between
\* and other requests creating, moving and deleting rows.
PortsUnique ==
    \A u, v \in Users, p \in Ports \ contested : Has(u, p) /\ Has(v, p) => u = v

-----------------------------------------------------------------------------
(* What the proofs of MapsAgree, NoZombie and NoOrphan rest on.            *)

\* A worker that is busy has a user; one about to touch the maps has a port;
\* only an assignment carries a port in its request.
RequestShape ==
    \A w \in Workers :
        /\ wpc[w] # "idle" => wreq[w].u \in Users
        /\ wpc[w] \in {"start", "stop", "stopOld"} => wport[w] \in Ports
        /\ wpc[w] = "startNew" => wreq[w].p # 0
        /\ wreq[w].op \in Ops \cup {"none"}
        /\ wreq[w].p # 0 => wreq[w].p \in AssignPorts \/ wreq[w].op = "Create"

\* Who holds servers, and when.
HeldShape ==
    /\ \A w \in Workers : IF wpc[w] = "shutdown" THEN \E s \in Srv : wheld[w] = {s}
                           ELSE wheld[w] = {}
    /\ rpc # "shutdown" => rheld = {}
    /\ mpc # "closing" => mheld = {}

\* A server that somebody is about to shut down is out of the maps.
HeldUntracked == \A s \in Held : ~IsTracked(s)

IndInv == TypeOK /\ RequestShape /\ HeldShape /\ MapsAgree /\ NoZombie /\ HeldUntracked
=============================================================================
