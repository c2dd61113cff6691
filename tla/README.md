# Verification of evan-proxy

TLA+ models of the parts of evan-proxy that decide who may use the proxy, when
and on which port, that carry the traffic, and that account for it, with the TLC
configurations that check them and TLAPS proofs of the results that matter most. Paths of the code are relative to `src/`.

## 1. The system

evan-proxy is one Go process: an HTTP forward proxy (`pkg/proxy`), an admin
server (`pkg/admin`) and a SQLite database of users (`pkg/userdb`). Each user may
own a *dedicated port*, and the port identifies the user. A user is *paused* when
an admin disabled the user or when the user is in downtime. Without MITM a pause
closes the user's port; with MITM the port stays bound and the request path
answers with a block page, for which `pkg/mitm` mints certificates.

| Component | State it keeps | Operations | Interacts with |
|---|---|---|---|
| User listeners, `proxy/userports.go` | `userServers`, `portUsers` under `portMu`; one goroutine per server | start, stop, move, reconcile every 30 s, shut down | called by the admin handlers and by `main`; reads userdb |
| Admin handlers, `admin/api.go` | none of their own | create, delete, enable, schedule, override, downtime-now, port, password | write userdb first, then the listeners, with no lock across the two |
| User database, `userdb/userdb.go` | the users table; the password cache; caches of enabled, DNS, schedule, override and until | `Check`, `Add`, `Delete`, `ChangePassword`, setters, `NextAvailablePort` | every request reads its caches |
| Schedules, `userdb/downtime.go` | weekly windows per user | `ValidateSchedule`, `isInDowntime` | userdb |
| Rate limits, `ratelimit/ratelimit.go` and the global limiter of `admin/api.go` | times of failures per address, and of all | allow, record, clean up | login and proxy authentication |
| Admin access, `admin/session.go`, `enroll.go`, `devices.go`, `server.go` | sessions, enrolment codes, device tokens | log in, log out, enrol, pair, revoke, clean up | the middleware of every admin route |
| Request path, `proxy/handler.go`, `connect.go`, `forward.go` | `authSessions` per address and port owner; the failure limiter | authenticate, challenge, check the pause, ACL, dial | userdb, mitm, ratelimit |
| MITM, `mitm/ca.go`, `mint.go`, `lru.go` | the CA and its generation; an LRU of leaves | get, mint, store, rotate, purge | request path (block page); nothing but tests calls `Rotate` yet |
| Resolvers, `dns/*` | a process-wide cache of resolvers | `GetOrCreate`, look up, over HTTPS with two parallel queries | the request path dials what they return |
| Tunnels, `proxy/connect.go`, `forward.go` | two copying goroutines per tunnel, a counting writer and its flusher per direction | copy, half-close, flush | resolvers, traffic counter, logger |
| Traffic, `stats/*` | a bounded channel of byte counts; hits, a ring of buckets, subscribers | flush, drain, observe, compact, subscribe | fed by tunnels and the logger, read by the dashboard and the log stream |
| Logging, `logging/*` | backends; for json-http a buffer, a signal and a goroutine | log, flush, close | every handler logs; observers run inside `Log` |
| Configuration, PAC, ACL, cookies, pages, iOS app, chart | no shared mutable state of the proxy's | | |

What is hard here:

* **Interleaving.** An admin handler is a sequence of SQL statements, cache
  writes and critical sections; the reconciler, the server goroutines and other
  handlers run between any two of them.
* **Stale reads.** The reconciler decides with a map computed before it takes
  the lock; a password is verified against a row read before a long argon2 run;
  a session is validated under one lock and renewed under another; a CA generation
  is compared under one lock and the leaf stored under another.
* **Failure.** `ListenAndServe` fails after the maps were written; a process ends
  between a statement and the cache write that follows; a token insert fails after
  its code was consumed; a POST of log entries fails; one of two DNS queries fails; a
  peer ends or breaks while the other direction of its tunnel goes on.
* **Bounded queues.** Byte counts, log stream and flush signal go through channels
  that drop when full, next to goroutines that stop at shutdown.
* **Time.** Windows, session and code lifetimes, cache lifetimes, leaf expiry and
  limiter windows all have edges, and several expired things stay in a map until a
  clean-up comes by.

`PROJECT.json` lists each hazard at its line with the properties that cover it.

What makes each part correct: a port is bound exactly when its user may use it,
and no server gets out of reach (listeners); a replaced password dies and caches
agree with the table (userdb); a user is blocked exactly inside accepted windows
(schedules); the limiters count what happened, overshoot by a bounded amount and
lock nobody out for ever (limits); a code makes one token, tokens have no
successors, idle sessions are refused (admin access); nobody is served on another
user's port and a paused user gets nothing new (request path); the cache is
consistent and bounded and serves nothing stale (MITM); connections share resolvers,
and a host of which nothing or only sinks are found is not dialled, whichever query
answers first (DNS); each end of a
tunnel learns that the other is done, and the closing entry is complete (tunnels);
every byte count and log entry is handed on once or given up for a reason, the
dashboard counts what happened, and closing the log flushes it (traffic, logging).

## 2. Modules and the code

A module `MCX` extends `X` for TLC and adds constants; where one run has several
questions whose product would be too large, it adds a variable `part` that says which of
them a behaviour is about and what rests meanwhile (UserDB, RequestPath, AccessLog).
`XProofs` holds the theorems, of `X`'s own specification. In all modules one action is one critical section, one SQL statement or
one library call, so that all interleavings the locks allow are explored; `wpc`
is the program counter of a handler's goroutine and `wreq`/`wop` its locals.

### UserPorts
The listener maps are `userServers` and `portUsers`. A server object is
`<<port, slot>>`; `st` says where its goroutine is: about to listen, bound but not
yet registered with `Serve`, serving, failed, or on its way out after `Shutdown`.
`net/http.Server` is external and modelled with the two facts the code meets:
`Shutdown` of a server that has not registered its listener does not close the
socket at once, and a bind fails while another socket has the port.

| Code | Actions |
|---|---|
| `startListenerLocked`, its goroutine | `startListenerLocked`, `Listen`, `Serve`, `ListenFails`, `AcceptFails`, `RemoveFailed`, `Abort` |
| `StartUserListener`, `StopUserListener`, `UpdateUserPort` | `StartListener`, `StopListener`, `WorkerShutdown`, `FindOldPort`, `StopOldPort`, `StartNewPort` |
| `reconcileListeners` | `ReconcileList`, `ReconcileDecide`, `ReconcileStop`, `ReconcileShutdown`, `ReconcileStart` |
| the admin handlers | `handleSetEnabled`, `handleUpdateDowntime`, `handleDowntimeOverride`, `handleDowntimeNow`, `handleUpdatePort`, `handleCreateUser`, `handleDeleteUser`, followed by `WriteCache`, `ListUsers`, `InsertRow`, `CacheNewUser`, `UpdatePortRow`, `DeleteRow`, `DeleteCaches` |
| shutdown in `main.go` | `StopReconciler`, `ShutdownUserListeners`, `MainShutdown` |
| the clock | `WindowBoundary`, `Expire` |

`cfg` is the configuration (MITM, demo mode), chosen once in `Init`. Schedule,
override and until are Booleans that say whether now lies inside; what a schedule
means is the subject of DowntimeSchedule. `contested` is history: ports that two requests
have been giving out at once, or that the database shared from the start.

### UserDB
`hash` and `row` are the table, `cache` the password cache with the ticks left,
`settings` the setting caches. `Check` is `Lookup`, `SelectHash`, `Rehash`,
`Populate`; the other methods are a statement (`ChangePassword`, `Add`, `Delete`,
`SetRow`) and the critical section after it (`ForgetPassword`, `EnableNew`,
`PurgeCaches`, `StoreSetting`). `Restart` loses the maps and reloads the settings
from the table, as `Open` does. `chosen`, `raced` and `crossed` are history: the password
an admin last gave the user; the users of whom a `Check` had verified a password and not
yet stored it at that moment; and the settings of which a statement changed the row while
an earlier method had the cache still to write, or, for `until`, the row was deleted and
the cache entry left.

### DowntimeSchedule
`checkOverlaps`, `ValidateSchedule` and `isInDowntime` as pure operators over a
week of `DaysPerWeek` days of `MinutesPerDay` minutes. They are compared with
`Covered`, the set of minutes of the week a window reaches, which knows nothing of
sorting, splitting at midnight or looking at yesterday. `Pieces` are the intervals of a
day's windows and `Sorted` every order `sort.Slice` may put them in. The module's specification is `ScheduleSpec`,
so that UserDBProofs can extend both modules of the package.

### LoginLimits
A limiter is a function from ages to the number of failures of that age, pruned
where the code prunes; `Total` counts its failures, the length of the code's slice. `handleLogin` is `Allow`, `allow` (the global limiter),
`Check`, `RecordFailure`, `record`. `failed` and `failedAll` are history: what
happened, whatever the limiters kept. The address a login is counted under is what
`clientIP` makes of the peer and of X-Forwarded-For, which `Received` puts together
from what the client wrote and what each proxy on its `route` appended; `wclient` is
history: the client it really came from.

### AdminAccess
`sessions`, `codes` and `devices` hold ticks left. `ReadSession`, `DropExpired`
and `Renew` are `Validate`'s critical sections; `consume` and `CreateDeviceToken`
are `handlePair`; `persistent` is demo mode's never-expiring code. `creator`,
`from`, `issued`, `idle` and `ended` are history.

### MitmCA
`order` and `index` are the LRU's list and map. A handshake is `certFor`, and on a
miss `mint`, `CompareGen`, `CacheLeaf`; a rotation is `Rotate`, `RotatePurge`.
`late` is history: the names of the handshakes that had compared generations when the last
rotation overtook them.

### RequestPath
A connection is `Arrive`, `CheckAuth`, possibly `Retry` or `RetryReadFails`,
`recordAuthSuccess`, the pause check, `Dial` or `RoundTrip`, `Close`. A port is named by
its owner. `paused` holds pairs of a user and a reason: disabled by an admin, in downtime
`until` a time an admin has set, or inside the `schedule`. The check reads them one after
the other, as `blockReason` and `IsInDowntime` do (`IsEnabled`, `GetDowntimeUntil`,
`InSchedule`), and anything may happen between two reads; `handleForward` never asks the
first. `gap` and `held` are history: how long ago the address was accepted as the user,
and for each connection the reasons that have held for its port's owner since it arrived.

### NameLookup and Tunnel
`NameLookup` takes a connection from the user's DNS setting to a verdict: `UpdateDNS`
is the admin's request, `ctxWithUserDNS` and `GetOrCreate` are the two critical
sections of the resolver cache, `query` is one of the two goroutines of
`dohClient.lookupIPAddr` sending its result, `lookupIPAddr` puts the results
together in the order they arrived, and `Verdict` is what `dialWithBlockCheck` does
with the first address. `StdLookup` stands for `net.Resolver`.
`DialWithoutLookup` is a host given by its address, or a plain request for which the
transport has an idle connection.

`Tunnel` extends it with what follows the dial. A stream is one direction of a
connection; its goroutine is `Write` (a round of `io.Copy`), `CopyEnds`,
`CloseCounter`, `halfCloseWrite`, and `Finish` is `connectTunnel` after `wg.Wait`. A
plain request has the stream to the client only. The peers, `PeerEnds` and
`PeerBreaks`, do what they like. A counting writer's flusher is `FlushTick`,
`FlushLast` and `FlushSend`; the drain is `DrainReceive` and `DrainStop`. Bytes are
chunks, each with its stream and number, so that one can say *which* were counted.

### Collector and AccessLog
`Collector` is `pkg/stats/collector.go` with the log stream of `handleLogs`. Nearly
every operation is one critical section and one action; `Unsubscribe` is two, since
the channel is closed outside the lock. `AccessLog` extends it with `Logger.Log`
(`Log`, `Signal`, `Return`, all under the logger's mutex `mu`), the goroutine of the
json-http backend (`RunTick`, `RunSignal`, `RunStop`, `Post`, `Report`, `RunReturns`),
`Close` and the end of the process. An entry carries the time its request began
(`Begin`) and is logged later; a tunnel logs several (`mitm_passthrough`, `open`,
`close`), all with that one time. What `collector.go` calls the requests of a bucket are
therefore its entries, and so are they here. `seen`, `posted`, `failed` and `before` are
history.

### LossyQueue
The abstract specification of a hand-over: items are accepted, delivered in groups,
each at most once, and given up only while more than `Capacity` are on their way or
with a receiver that is down; none stays on its way for ever. Two details implement
it. In `Tunnel` the items are chunks, the capacity is the channel's and the receiver
is down when the drain has ended. In `AccessLog` the items are entries; the buffer is
unbounded, so nothing is lost for want of room, and the receiver is down while a
failed POST is being reported, after `Close`, and when the process has ended. The
refinement mappings are the `INSTANCE LossyQueue` of each module.

### How they compose
The modules meet at the interfaces of the code. UserPorts contains userdb's rows
and caches at the granularity its handlers see, RequestPath takes the pause as an
input that may change at any step (`Environment`), and DowntimeSchedule says when
`sched` of UserPorts and the reason `schedule` of RequestPath hold. Tunnel begins where RequestPath
dials and contains NameLookup; AccessLog contains Collector, whose `AddLiveBytes` is
what Tunnel's `DrainReceive` calls.

## 3. The runs

| Run | Checks | What it shows |
|---|---|---|
| `pause_converges` | `NoOrphan`, `ListenersConverge`, `MITMKeepsPortsOpen` | Pauses, resumes, schedule changes, a window boundary, a bind error and a shutdown against the reconciler: each port ends up bound exactly when its user may use it; with MITM none closes |
| `assign_maps` | `MapsAgree`, `NoZombie`, `PortsUnique` | Creating, moving and deleting users while the reconciler runs and the process stops keeps the maps in step and free of dead servers; a port goes to two users only by two requests that give it out at once |
| `assign_orphan` | `NoOrphan` (violated) | One port assignment racing one reconciler pass leaves a server nobody can close |
| `login_limits` | `WindowExact`, `OvershootBounded`, `ClientKeyed`, `NoLockout` | Each client is counted under its own address; the limiters count exactly, overshoot by less than one per request in flight, and refusals do not prolong a lockout |
| `admin_access` | `RedeemedOnce`, `NoSuccessor`, `DemoCodeLives`, `IdleSessionRefused`, `LogoutHolds` | Pairing, revocation, logout, expiry and clean-up, normal and demo mode |
| `user_database` | `SettingsMatchRows`, `ChangeTakesEffect`, `OldPasswordDies`, `BlockedExactly`, `AcceptedDisjoint` | A change of password holds at once and for good unless a check had just verified the old one, which then stops working one cache lifetime later; caches and table agree, also after a crash, but where two admins' methods crossed or a deleted user left an ad-hoc downtime. Side by side, every schedule of up to two windows at every minute of a short week |
| `mitm_leaves` | `OrderMatchesIndex`, `RotationTakesEffect`, `RetiredLeafDies` | The leaf cache under concurrent handshakes, expiry and rotation: a retired CA's leaves are gone with the purge but under names whose handshakes the swap overtook, and those stop being served when stale |
| `rotation_leaf` | `RetiredNeverCached` (violated) | One handshake and one rotation leave a leaf of the retired CA in the cache after the purge |
| `request_paths` | `OwnerServed`, `PausedGetsNowhere`, `SessionsScoped`, `PauseHolds` | Two connections of one address on two users' ports: nobody is served on another's port or on a stale session, no request gets past the pause check while a reason that held when it arrived holds, and a user who stays in downtime soon gets nothing new |
| `disabled_forward` | `DisabledHolds` (violated) | With MITM, a disabled user's plain HTTP requests are forwarded for ever |
| `tunnel` | `OneResolverPerServer`, `VerdictSound`, `FinPropagates`, `EntryComplete`, `ChunksAccountedFor` | Lookups, one of them failing, a tunnel or plain request with peers that end or break at any point, byte counts and the counter's shutdown; the last is the refinement of LossyQueue |
| `access_log` | `HitsExact`, `TrafficChronological`, `NoSendOnClosed`, `StreamInOrder`, `NoMissedSignal`, `CloseFlushes`, `CloseEnds`, `EntriesAccountedFor` | Two goroutines log out of order, several entries of a request among them, while the backend posts and the log is closed or the process dies; while the ring's slots are used again and the cleanup compacts; while a reader comes, goes and misses entries. The last is the refinement of LossyQueue |

### Bounds
Every bound is a constant of the module or a guard that names it.

* *UserPorts*: `MaxOps` 2 requests or signals, `MaxFaults` 1 error not of the
  process's making, `MaxClock` 1 boundary. The races need one handler against one
  reconciler pass and one goroutine; a second request lets a handler's leftovers
  meet a new one. `Slots` is the number of server objects one port can have at
  once, in the map, in a goroutine's hands or on their way out; a start that finds
  none free waits. In the pause run four are enough: a fifth adds no
  state, so no start ever waits. In the assignment run, with two admins that are
  symmetric, two keep the run short; with one admin and five slots, where a sixth
  adds no state, the same properties hold of 2.0 million states, and the theorems of
  section 4 hold for any number of both.
  When the requests
  are used up the reconciler goes on for ever; when the process has shut down,
  everything stops, so these two runs do not look for deadlock.
* *UserDB*: three goroutines, two of which also serve administrators, so that two
  statements and two cache writes about one user meet; two passwords, the old and the
  new; the settings `enabled`, which every method writes, and `until`, which `Delete`
  forgets; a lifetime of two ticks, so that a hit can fall between storing and expiry.
* *MitmCA*: a cache of two for three names, so that eviction happens; one rotation.
  The violation needs one name, one handshake and one rotation.
* *RequestPath*: two connections, one address, two users to tell ports apart,
  three hosts (plain, pass-through, denied). A behaviour has pauses and requests on one
  port, or password changes and requests on both. `Offered` says which credentials and hosts requests
  bring and `Changes` which pauses and password changes happen to whom: one user is
  paused in every way, the other's password changes. The limit is one failure,
  so that it is reached. In this module the limiter is a count that failures leave
  one by one; LoginLimits has its exact form.
* *LoginLimits*: two clients, two requests, limits 2 and 3, a window of two ticks:
  both limiters are reached, separately and together. Headers of up to two entries,
  routes of up to two proxies; the theorem has no such bound.
* *AdminAccess*: one session, two codes, two devices, two requests, lifetimes of
  one tick: a second tick separates expiry from clean-up.
* *DowntimeSchedule*: three days make yesterday, today and tomorrow distinct; three
  minutes admit adjacent, overlapping, overnight and empty windows.
* *Tunnel*: two connections that may miss the resolver cache together, of which one
  goes on to copy one chunk each way; a channel of one, so that the second flush finds
  it full. A connection is used once, and everything may stop, so the run does not look
  for deadlock.
* *AccessLog*: four entries, so that they are logged in other orders than their requests
  began and a batch of two is overtaken by a next one; three points in time with a ring of
  two buckets and a window of one tick, so that used slots are used again and hits
  expire; a subscriber's channel of two, which then holds two, skips the third entry and
  takes the fourth. A behaviour is about the backend (at one point in time, without a
  reader), the ring (all times, without a reader) or the stream (one point in time); in
  the last two the backend rests. The process may end, so the run does not look for
  deadlock.

### Fairness
* *UserPorts*: the reconciler, started handlers and server goroutines keep running:
  the ticker fires for ever, every `Shutdown` has a five-second context and every
  handler returns. Requests, faults, boundaries and the signal owe nothing.
* *UserDB*: a method that was called returns, and time passes. Nobody must call.
* *LoginLimits*: time passes. *MitmCA*: time passes, a begun rotation purges and a
  begun handshake ends. Both are straight-line code.
* *RequestPath*: a connection is handled to its end; for a challenged one the read
  deadline `AuthRetryTimeout` sees to it. No fairness on arrivals, pauses or time.
* *Tunnel*: a copying goroutine whose source has ended goes on to half-close, a
  flusher's ticker fires, the drain receives, and a handler whose goroutines are done
  returns. The peers, lookups and the shutdown owe nothing. Fairness of `CopyEnds` takes
  for granted that a peer reads what it is sent, or breaks: the code sets no deadline on
  a tunnel.
* *AccessLog*: while the process lives, the backend's goroutine goes on (its ticker
  fires, and a POST ends within the client's ten seconds) and so does `Close` once that
  goroutine is done. Nobody must log, and the process may end at any time.

## 4. The proofs

All theorems hold for every value of the constants that satisfies the module's
`ASSUME`; where one has a hypothesis of its own it is named below. Each proof has the
same three parts: an inductive invariant holds initially, every action keeps it (one
step per action, one lemma per effect that several actions share), and it implies the
property. The inductive invariants were run through TLC as invariants of the
module's run before they were proved.

| Module | Theorem | Property |
|---|---|---|
| UserPortsProofs | `TypeCorrect`, `MapsAlwaysAgree`, `NeverZombie` | `TypeOK`, `MapsAgree`, `NoZombie` |
| | `NeverOrphan`, if `NoAssignment` | `NoOrphan` |
| | `MITMPortsStayOpen`, if `PauseOnly` | `MITMKeepsPortsOpen` (action) |
| | `PortsStayUnique` | `PortsUnique` |
| LoginLimitsProofs | `WindowAlwaysExact`, `ClientAlwaysKeyed`, `OvershootAlwaysBounded` | `WindowExact`, `ClientKeyed`, `OvershootBounded` |
| AdminAccessProofs | `CodesRedeemOnce`, `RevocationIsFinal`, `DemoCodeStays` | `RedeemedOnce`, `NoSuccessor`, `DemoCodeLives` |
| | `IdleSessionsRefused`, `LogoutsHold` | `IdleSessionRefused`, `LogoutHolds` (actions) |
| UserDBProofs | `SettingsAlwaysMatch` | `SettingsMatchRows` |
| | `ChangesTakeEffect` | `ChangeTakesEffect` |
| | `BlockedInWindows`, if `Spellings = {TRUE}` | `BlockedExactly` of DowntimeSchedule |
| | `AcceptedStayApart` | `AcceptedDisjoint` of DowntimeSchedule |
| MitmCAProofs | `CacheConsistent`, `RotationsTakeEffect` | `OrderMatchesIndex`, `RotationTakesEffect` |
| | `NothingStaleServed` | `CachedServedFresh` (action) |
| RequestPathProofs | `OwnerAlwaysServed`, `PausedGetNowhere` | `OwnerServed`, `PausedGetsNowhere` |
| | `SessionsStayScoped` | `SessionsScoped` (action) |
| TunnelProofs | `ResolversShared`, `EntriesComplete` | `OneResolverPerServer`, `EntryComplete` |
| | `VerdictsSound` | `VerdictSound` (action) |
| | `CounterIsLossyQueue` | the safety of `ChunksAccountedFor` (refinement) |
| AccessLogProofs | `HitsAreExact`, `TrafficInOrder`, `NeverSendsOnClosed`, `StreamsInOrder`, `SignalsNotMissed`, `CloseAlwaysFlushes` | `HitsExact`, `TrafficChronological`, `NoSendOnClosed`, `StreamInOrder`, `NoMissedSignal`, `CloseFlushes` |
| | `BackendIsLossyQueue` | the safety of `EntriesAccountedFor` (refinement) |

**UserPortsProofs.** `NoZombie` is not inductive: a server that some goroutine has
taken out of the map to shut it down must not have come back into it
(`HeldUntracked`), a worker about to start or stop a port must have a port
(`RequestShape`), and only the program counters that have servers in hand may have
them (`HeldShape`). `IndInv` is the conjunction of these with `TypeOK`, `MapsAgree`
and `NoZombie`. The proof has one lemma per effect on the maps (start, untrack, shut
down, goroutine step, none) and reduces every action to one of them.

`NeverOrphan` supposes `NoAssignment`: no request creates a user or assigns a port
other than none. That delimits the defect `assign_orphan` shows: all pausing, resuming,
moving to no port, deleting, reconciling and shutting down is safe, because each of
them asks whether the port has a server, in the critical section that starts one.

`MITMPortsStayOpen` supposes `PauseOnly`: requests pause and resume, and the rows'
ports are within the configured range (or none). The action property rests on
`KeepsOpen`: with MITM on, nobody ever has a server in hand to shut it down, because
what the reconciler listed is exactly what the rows assign and everything tracked, or
about to be started, is assigned. The range matters (section 6).

`PortsStayUnique` has no hypothesis: concurrent requests may create, move and delete users,
and the database may share ports from the start. Between the statement that looks for a
free port and the one that takes it, `UpdateUserPort` stops and shuts down listeners and
anything else runs. What bridges the gap is `PortsOK`: of a port that is not contested, the
request that carries it is the only one, and no user but that request's has it; a second
request for the port makes it contested at once. Deletions and moves of others only make
ports free. Two requests that give out one port at once do make it shared (section 6).

**LoginLimitsProofs.** A failure is counted under the address and happens to the
client, so `WindowExact` needs `ClientKeyed` and the induction is on both. `ClientFound`
is about `clientIP` alone: right of the client's entry there are only trusted proxies,
so the right-most foreign entry is the client's, for a header and a route of any length.
`SliceTypes` and `SliceAgree` say that ageing, pruning, adding and forgetting keep two
counters equal inside the window if they were. `OvershootBounded` is a statement about
recorded failures; what is inductive is `Overshoot`, failures in the window *plus*
handlers that were let in and may still record one (`InFlight`). A handler is let in
only below the limit, which is where the sum may jump up to the bound; recording
moves one unit from one summand to the other.

**AdminAccessProofs.** `CodesOnce`: a code is in the store, or in the hands of one
request that consumed it, or spent on one device. `LifetimeOK`: what is left of a
session, or of a renewal under way, and the time since its last accepted request make
up one lifetime at most. `EndedOK`: a session that was logged out quietly is in
nobody's hands. `CreatorsOK`: codes are asked for with sessions only. The last is
why a revoked device has no successor.

**UserDBProofs.** `SettingsAlwaysMatch` has no hypothesis: any number of administrators call
any methods about any users and settings. `SettingsMatchRows` says nothing of a setting
whose cache some method has yet to write, so the invariant must say what that method will
write: `FollowsRow`, that of a setting that was not crossed at most one method has the
cache still to write, and writes what the row holds. `NoRowNoSettings`, that a user without
a row has no settings in the table, is why creating and deleting may write caches without
looking at the row. A restart makes caches and table agree whatever was crossed.

In `ChangesTakeEffect`, too, any number of administrators may race.
`InEffect` adds to the property the checks under way: what one has verified and is about to
store is what the admin chose, unless the user was raced. Migrating an old hash then
rewrites the password that is there, and a purge that comes after a newer check has stored
its entry costs a query and nothing else.

`BlockedInWindows` is arithmetic. `WeekMod` and `DayAndMinute` take the remainder by
the week apart into day and minute, `SpanHolds` says when a span of the circle holds a
minute, and `TwoLookups` concludes, for any schedule without empty windows and not only
the offered ones, that today's windows and yesterday's overnight ones are all that
can reach this minute. That day keys are spelled plainly is necessary (section 6).

`AcceptedStayApart` is about sorting. `checkOverlaps` compares neighbours;
`NeighboursEnough` concludes for any two elements of any sorted order that they have no
minute in common: the earlier one's successor starts no sooner than it ends, and the later
one no sooner than that successor. No induction is needed, since being sorted is given for
all pairs. `ClockInIntervals` says that a minute of the clock a window covers lies in one
of its pieces, and `PassedApart` is the result for a day with any number of windows.

**MitmCAProofs.** `CacheOK`: the list has each key once, the index is the set of its
keys, and it is no longer than the cache's size. Lemmas say what moving to the front,
adding, evicting and removing do to the keys of a list (`Keys`, `Distinct`). `HandshakesOK`
says what a handshake past the miss carries: a name, and once minted a leaf. `Current`
strengthens `RotationTakesEffect` by the handshakes that are about to store: theirs are
leaves of the current CA too, because the generation was compared after the swap, or the
handshake's name is in `late`.

**RequestPathProofs.** `OwnerServed` needs `SessionNamesOwner`, that a session stored
under a port's key names that port's owner. `SessionsScoped` needs `SessionsFresh`: the
ticks a session has left and the ticks since its address was last accepted there
make up one session lifetime at most. `HeldOK` says of each
reason that has held since a connection arrived that it holds now and that the connection
is not past the read of this reason (`Past`) but to an open host; the check asks about the
authenticated user, so that `PausedGetNowhere` rests on `OwnerServed`. Nothing is supposed
of the other reasons, which may come and go between the reads.

**TunnelProofs.** `ResolverOK`: a connection in possession of a resolver has the
cached one of its server; `RepliesOK`: at most one reply per query is held.
`VerdictsSound` then takes the orders in which two replies can come. `StreamOK` and
`EntryOK` give `EntryComplete`. For the refinement, `CounterInv` says that a
chunk is in one place at a time: not yet flushed, in a flush, in one delta of the
channel, counted, or dropped. From it, every action is a step of LossyQueue under the
mapping, or leaves it alone; a drop implies that more than `Capacity` are on their way
because the full channel holds that many non-empty, disjoint deltas (`Cardinality` facts
of the library), and the dropped one is besides them.

**AccessLogProofs.** `Observed` is the last entry the observers were given: the
logger's mutex makes it `length`, or one less while it is held. `StreamsOK`,
`SeenOK` and `HitsOK` bound by it what readers and dashboard hold; `RingOK` says that
used slots of the ring have increasing times. `SignalOK` is the interesting part of the
backend: a full buffer has its signal pending or a logger about to send it.
`PlacesOK` and `ClosingOK`, an entry is in one place and the last flush takes all that
was logged before `Close`, give `CloseFlushes` and the refinement of LossyQueue.

**Only model-checked.** Liveness under fairness is outside the prover's reach:
`ListenersConverge`, `NoLockout`, `OldPasswordDies`, `RetiredLeafDies`, `PauseHolds`,
`FinPropagates`, `CloseEnds`, and of the refinements
`ChunksAccountedFor` and `EntriesAccountedFor` the part that none stays on its way for
ever (LossyQueue's fairness); the theorems state the rest, `Queue!Safety`.
Every invariant and every action property of a run that passes is proved. `TypeOK` of UserPorts
and `CachedServedFresh` are proved and listed in no run. Where a
liveness property has an immediate counterpart, that is proved: `ChangesTakeEffect` for
`OldPasswordDies`, `RotationsTakeEffect` for `RetiredLeafDies`, `PausedGetNowhere` for
`PauseHolds`.

## 5. Findings

1. `assign_orphan`, `pkg/proxy/userports.go:260`. `UpdateUserPort` starts a port
   without asking whether it has a server. A reconciler pass in between has its
   server replaced in the map; the replacement cannot bind and removes itself; the
   first keeps the port out of everyone's reach. The comment at 205-206 says why
   this must not happen.
2. `disabled_forward`, `pkg/proxy/forward.go:91`. `handleForward` asks only about
   downtime, so with MITM a disabled user's plain HTTP requests go through.
3. `rotation_leaf`, `pkg/mitm/mint.go:54`. `certFor` compares the generation under `mu`
   and stores the leaf after releasing it. A `Rotate` that swaps and purges in between
   leaves a leaf of the retired CA in the cache, which the comment at `ca.go:72-73` says
   cannot be. Only tests call `Rotate` so far.

## 6. Other behaviour met while modelling

No run depends on these; each follows from the modules or from reading the code.

* An override opens the port of a *disabled* user until the next reconciler pass
  (`pkg/admin/api.go:590`); `ListenersConverge` shows that the pass closes it.
* The reconciler's stale decision can reopen a port that downtime-now has just
  closed (`userports.go:138`), for one pass.
* Under MITM, a row whose port lies outside the configured range (left from an earlier
  range) is started by a resume, which does not look at the range, and closed by the next
  reconciler pass, which does (`userports.go:207`, `97`); hence the range in `PauseOnly`.
* Two concurrent requests that give out ports can give out the same one
  (`userdb.go:563`, `583`, `api.go:307`): both look before either writes. `PortsUnique`
  exempts such a port, and says that nothing else makes one shared.
* The pause check reads one reason after the other (`connect.go:155`, `158`,
  `userdb.go:532`, `542`). A user in downtime is found enabled; before the next read an
  admin disables the user and the downtime ends; the request is dialled although the user
  was paused all the time. The same holds between the ad-hoc downtime and the schedule.
  `PausedGetsNowhere` therefore speaks of one reason that holds throughout.
* A logout is undone by a `Validate` in flight (`session.go:72`, `77`);
  `LogoutHolds` says that by nothing else.
* The migration of an old hash updates by user name alone (`userdb.go:834`): a login
  reads the old hash and verifies it, the admin changes the password, and the login's
  UPDATE stores a hash of the old password over the new one. In UserDB these are
  `SelectHash`, `ChangePassword`, `Rehash`; `ChangeTakesEffect` says that nothing else undoes
  a change.
* `Add` drops no cached password (`userdb.go:576`). If a `Check` stored the password of a
  user who was being deleted behind the purge, a new user of the same name is accepted with
  it for up to one cache lifetime; hence `Add` leaves `raced` as it was.
* A plain request may reuse an idle connection of the shared `http.Transport`
  (`handler.go:213`), which was opened for another user under that user's DNS server;
  the user's own server, and so the block it would answer, is not asked.
* `Delete` leaves the entry of `downtimeUntilCache` (`userdb.go:671`), which a later user of
  the same name inherits until it ends or is set. Two concurrent setters can write row and
  cache in different orders (`userdb.go:627`), and then the cache contradicts the table
  until the next change or restart. `SettingsMatchRows` exempts these settings by
  `crossed`, and says that there are no others.
* A password verified before a change is cached after it (`userdb.go:840`);
  `OldPasswordDies` says that it lives one cache lifetime, `ChangeTakesEffect` that
  nothing else keeps it alive.
* The leaf of finding 3 goes when stale (`RetiredLeafDies`), and there is no other
  (`RotationTakesEffect`).
* A schedule keyed `"01"` is accepted and blocks nobody (`downtime.go:41`): with
  `Spellings = {TRUE, FALSE}` `BlockedExactly` fails.
* Monday 21:00-07:00 and Monday 05:00-06:00 are refused as overlapping although the
  first reaches 05:00 on Tuesday only: the pieces after midnight are compared as if
  they belonged to the same date (`downtime.go:87`). `AcceptedDisjoint` speaks of
  accepted schedules.
* Statistics. Bytes of a tunnel that ends within the bucket it began in are added by
  both `recordTraffic` and `AddLiveBytes`; an entry older than the current bucket
  leaves no trace in the buckets (`collector.go:95`); a tunnel's "open" and "close"
  entries each count as a request and a hit, which `metrics.go:138` avoids for its own
  counter; bytes of plain responses reach the Prometheus counter twice, live
  (`forward.go:164`, `metrics.go:124`) and from the entry (`metrics.go:178`).
* An AAAA answer `::` that arrives first is not taken for a block and is dialled
  (`handler.go:135`); `VerdictSound` speaks of the addresses `isDNSBlocked` knows. Which
  of a blocked and a real address decides depends on which query answers first
  (`doh.go:56`).
* `GetOrCreate`'s error branch is never taken: the admin API refuses other protocols.
* `IDLE_TIMEOUT` sets the server's idle timeout only (`userports.go:153`); a hijacked
  tunnel has none. A log stream's reader holds the admin server's `Shutdown` until its
  context ends.
* `Fatalf` ends the process without `Close` (`logger.go:84`), so the json-http buffer
  is lost, and with it the message; entries logged after `Close` stay in the buffer
  (tunnels may still be running then). A POST answered with an error status counts as
  sent (`jsonhttp.go:93`).
* `AUTH_FAIL_RATE_LIMIT` and its window are not validated (`config.go:167`), unlike the
  admin login's.
* `clientIP` reads the first X-Forwarded-For line only; `Received` supposes proxies
  that append to it, as the comment on `clientIP` does, rather than add a line.

## 7. Abstractions and what is left out

* `listenerWanted` reads its caches in one step per user; `Delete`'s five critical
  sections on unrelated maps are one step; errors of `ListPorts` (the reconciler
  then skips the pass) are left out; the end of the process ends the behaviour.
* In RequestPath the schedule and the override that suspends it are one read; the code
  reads the override first (`userdb.go:537`, `542`). While the schedule is in force
  throughout, both reads say so; when it changes between them, the code's answer is that of
  one of the two moments, or a block although the override began as the window did.
* In AccessLog the entries of one request after its first are of kind "ok", as those of a
  tunnel are; `compact` takes its cutoff from any earlier moment, since the code reads the
  clock before it takes the lock.
* There is no shared port in RequestPath, so a port always has an owner.
* UserDB does not follow the expiry of a setting's value; UserPorts does.
* Tunnel has no goroutine panics (the code recovers and logs them) and takes a write
  and its count as one step; AccessLog has access entries only, not server messages,
  and no other backend, and the metrics observer is left out.
* HH:MM strings are minutes; argon2, TLS, PEM files, DNS wire formats and HTTP
  syntax are external.
* Not modelled: PAC text, cookies, the admin access log, most metrics, configuration
  parsing, the block page's HTTP exchange, web pages, the iOS app and the chart. They keep no state that a decision of the proxy
  rests on, or are another program. Start-up wiring and schema migration run once,
  alone.

## 8. Plan

1. *Done*: UserPorts, UserDB, LoginLimits with the client address, AdminAccess,
   RequestPath, MitmCA, DowntimeSchedule, NameLookup, Tunnel, Collector, AccessLog and
   the abstract LossyQueue; the proofs above.
2. *Done*: proofs of all invariants and action properties that passing runs check, and of the safety half of both LossyQueue refinements.
3. *Abstract pause specification*: one variable per user, allowed or blocked, that
   UserPorts (without MITM) and RequestPath (with it) implement up to the delay of
   a pass.
4. *Proofs next*: the step properties that the other liveness results rest on, such as
   that a reconciler pass undisturbed by requests leaves exactly the wanted ports tracked
   (UserPorts), and the refinement proofs of the abstract pause specification.
