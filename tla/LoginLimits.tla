----------------------------- MODULE LoginLimits -----------------------------
(***************************************************************************)
(* Login throttling: the sliding-window limiter of pkg/ratelimit, the      *)
(* global ceiling of pkg/admin/globalcounter.go, and handleLogin, whose    *)
(* check and record are separate critical sections.                        *)
(*                                                                         *)
(* A slice of failure times is a function from ages to how many failures   *)
(* have that age: order never matters, and age Window stands for every     *)
(* time at or before the cutoff.  So time is unbounded and states are few. *)
(***************************************************************************)
EXTENDS Integers, Sequences, FiniteSets

CONSTANTS IPs,        \* the clients' addresses
          Workers,
          Limit,      \* ADMIN_LOGIN_RATE_LIMIT
          GlobalMax,  \* ADMIN_LOGIN_GLOBAL_MAX; 0 or less disables the ceiling
          Window,     \* ADMIN_LOGIN_WINDOW, in clock ticks
          Trusted,    \* the addresses of ADMIN_TRUSTED_PROXIES
          Headers,    \* what clients may send as X-Forwarded-For
          Routes,     \* the trusted proxies clients may come through
          Junk        \* a header entry that is no address

\* config.validate refuses a limit below 1 and a window that is not positive;
\* finitely many requests are served at a time.
ASSUME LimitsAssumption ==
    /\ Limit \in Nat \ {0} /\ Window \in Nat \ {0} /\ GlobalMax \in Int
    /\ IsFiniteSet(Workers)

\* The clients are outside the trusted networks.
ASSUME HeadersAssumption ==
    /\ IPs \cap Trusted = {} /\ Junk \notin IPs \cup Trusted
    /\ Headers \subseteq Seq(IPs \cup Trusted \cup {Junk}) /\ Routes \subseteq Seq(Trusted)

VARIABLES
    counts,   \* Limiter.counts, per IP
    times,    \* globalCounter.times
    wpc, wip, \* login handlers: program counter, the address clientIP returned
    wclient,  \* history: the client each handler serves
    failed,   \* history: the failures that really happened, per client
    failedAll \* history: the same for all IPs together

vars == <<counts, times, wpc, wip, wclient, failed, failedAll>>

Ages == 0..Window

NoFailures == [a \in Ages |-> 0]

\* The part of a slice that is After(cutoff).
InWindow(c) == [a \in 0..(Window - 1) |-> c[a]]

\* The failures of a slice, those of one age numbered; and len() of the slice.
Failures(c) == UNION {{a} \X (1..c[a]) : a \in DOMAIN c}

Total(c) == Cardinality(Failures(c))

\* Fault: the window is one tick too short.
PruneEarly(c) == [a \in Ages |-> IF a < Window - 1 THEN c[a] ELSE 0]

Prune(c) == [a \in Ages |-> IF a < Window THEN c[a] ELSE 0]

AddFailure(c) == [c EXCEPT ![0] = @ + 1]

Older(c) == [a \in Ages |-> IF a = 0 THEN 0
                            ELSE IF a = Window THEN c[a] + c[a - 1] ELSE c[a - 1]]

\* What a history forgets: nothing that any window still holds.
Forget(c) == [c EXCEPT ![Window] = 0]

TypeOK ==
    /\ counts \in [IPs -> [Ages -> Nat]] /\ times \in [Ages -> Nat]
    /\ failed \in [IPs -> [Ages -> Nat]] /\ failedAll \in [Ages -> Nat]
    /\ wpc \in [Workers -> {"idle", "global", "auth", "recordIP", "recordGlobal"}]
    /\ wip \in [Workers -> IPs] /\ wclient \in [Workers -> IPs]

Init ==
    /\ counts = [ip \in IPs |-> NoFailures] /\ times = NoFailures
    /\ failed = counts /\ failedAll = times
    /\ wpc = [w \in Workers |-> "idle"]
    /\ wip \in [Workers -> IPs] /\ wclient = wip

-----------------------------------------------------------------------------
(* Whose request it is (pkg/admin/clientip.go).                            *)

\* Entries of the header that clientIP may return.
Foreign(xff) == {i \in DOMAIN xff : xff[i] \notin Trusted \cup {Junk}}

\* Fault: the header is read from the left.
LeftMostForeign(peer, xff) ==
    IF peer \notin Trusted \/ Foreign(xff) = {} THEN peer
    ELSE xff[CHOOSE i \in Foreign(xff) : \A j \in Foreign(xff) : i <= j]

\* The right-most foreign entry, if the peer is a trusted proxy and there is one.
clientIP(peer, xff) ==
    IF peer \notin Trusted \/ Foreign(xff) = {} THEN peer
    ELSE xff[CHOOSE i \in Foreign(xff) : \A j \in Foreign(xff) : j <= i]

\* What reaches clientIP: each proxy (external) appends the address it was called
\* from and is the peer of the next.
Received(client, header, route) ==
    IF route = <<>> THEN [peer |-> client, xff |-> header]
    ELSE [peer |-> route[Len(route)],
          xff |-> header \o <<client>> \o SubSeq(route, 1, Len(route) - 1)]

-----------------------------------------------------------------------------

Goto(w, l) == wpc' = [wpc EXCEPT ![w] = l]

\* Fault: a refused attempt counts as a failure too.
AllowCountsRefused(w, client, ip) ==
    LET active == Prune(counts[ip])
        ok == Total(active) < Limit IN
    /\ wpc[w] = "idle"
    /\ wip' = [wip EXCEPT ![w] = ip] /\ wclient' = [wclient EXCEPT ![w] = client]
    /\ counts' = [counts EXCEPT ![ip] = IF ok \/ Total(active) >= 2 * Limit THEN active
                                        ELSE AddFailure(active)]
    /\ Goto(w, IF ok THEN "global" ELSE "idle")
    /\ UNCHANGED <<times, failed, failedAll>>

\* loginLimiter.Allow(ip), which prunes; 429 when it refuses.
Allow(w, client, ip) ==
    LET active == Prune(counts[ip]) IN
    /\ wpc[w] = "idle"
    /\ wip' = [wip EXCEPT ![w] = ip] /\ wclient' = [wclient EXCEPT ![w] = client]
    /\ counts' = [counts EXCEPT ![ip] = active]
    /\ Goto(w, IF Total(active) < Limit THEN "global" ELSE "idle")
    /\ UNCHANGED <<times, failed, failedAll>>

\* Fault: the ceiling refuses one failure too late.
AllowGlobalLate(w) ==
    /\ wpc[w] = "global"
    /\ times' = IF GlobalMax <= 0 THEN times ELSE Prune(times)
    /\ Goto(w, IF GlobalMax <= 0 \/ Total(Prune(times)) <= GlobalMax THEN "auth" ELSE "idle")
    /\ UNCHANGED <<counts, wip, wclient, failed, failedAll>>

\* globalFails.allow()
allow(w) ==
    /\ wpc[w] = "global"
    /\ times' = IF GlobalMax <= 0 THEN times ELSE Prune(times)
    /\ Goto(w, IF GlobalMax <= 0 \/ Total(Prune(times)) < GlobalMax THEN "auth" ELSE "idle")
    /\ UNCHANGED <<counts, wip, wclient, failed, failedAll>>

\* The body is decoded and the password checked; a bad body or a good password
\* records nothing.
Check(w) ==
    /\ wpc[w] = "auth"
    /\ Goto(w, "idle") \/ Goto(w, "recordIP")
    /\ UNCHANGED <<counts, times, wip, wclient, failed, failedAll>>

RecordFailure(w) ==
    /\ wpc[w] = "recordIP"
    /\ counts' = [counts EXCEPT ![wip[w]] = AddFailure(@)]
    /\ failed' = [failed EXCEPT ![wclient[w]] = AddFailure(@)]
    /\ Goto(w, "recordGlobal")
    /\ UNCHANGED <<times, wip, wclient, failedAll>>

record(w) ==
    /\ wpc[w] = "recordGlobal"
    /\ times' = IF GlobalMax <= 0 THEN times ELSE AddFailure(times)
    /\ failedAll' = AddFailure(failedAll)
    /\ Goto(w, "idle")
    /\ UNCHANGED <<counts, wip, wclient, failed>>

handleLogin(w) ==
    \/ \E client \in IPs, header \in Headers, route \in Routes :
         LET r == Received(client, header, route) IN Allow(w, client, clientIP(r.peer, r.xff))
    \/ allow(w) \/ Check(w) \/ RecordFailure(w) \/ record(w)

\* The limiter's ticker; deleting an empty entry and keeping one are alike.
cleanup ==
    /\ counts' = [ip \in IPs |-> Prune(counts[ip])]
    /\ UNCHANGED <<times, wpc, wip, wclient, failed, failedAll>>

\* A clock tick; the histories forget what has left every window.
Tick ==
    /\ counts' = [ip \in IPs |-> Older(counts[ip])]
    /\ times' = Older(times)
    /\ failed' = [ip \in IPs |-> Forget(Older(failed[ip]))]
    /\ failedAll' = Forget(Older(failedAll))
    /\ UNCHANGED <<wpc, wip, wclient>>

Next == (\E w \in Workers : handleLogin(w)) \/ cleanup \/ Tick

\* The clock ticks; nothing else is owed.
Spec == Init /\ [][Next]_vars /\ WF_vars(Tick)

-----------------------------------------------------------------------------
(* Properties.                                                             *)

\* Pruning never loses a failure that is still inside the window nor keeps
\* the limiter from seeing it: what Allow counts is what happened.
WindowExact ==
    /\ \A ip \in IPs : InWindow(counts[ip]) = InWindow(failed[ip])
    /\ GlobalMax > 0 => InWindow(times) = InWindow(failedAll)

\* Checking and recording are not atomic: requests in flight may overshoot,
\* but never by more than one per concurrent request beyond the last.
OvershootBounded ==
    /\ \A ip \in IPs : Total(InWindow(failed[ip])) < Limit + Cardinality(Workers)
    /\ GlobalMax > 0 => Total(InWindow(failedAll)) < GlobalMax + Cardinality(Workers)

\* The address a login is limited by is the client's own, directly or through any
\* number of our proxies, whatever it wrote into X-Forwarded-For.
ClientKeyed == wip = wclient

\* An address that is refused, however often it keeps trying, is let in again
\* once its failures have left the window: refusals are not failures.
NoLockout == \A ip \in IPs : []<>(Total(InWindow(counts[ip])) < Limit)
=============================================================================
