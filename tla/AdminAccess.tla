----------------------------- MODULE AdminAccess -----------------------------
(***************************************************************************)
(* Who may call the admin API: browser sessions (pkg/admin/session.go),    *)
(* one-time enrollment codes (enroll.go), device tokens (pkg/userdb/       *)
(* devicetokens.go), and the handlers and middleware that use them.        *)
(*                                                                         *)
(* An expiry is kept as the ticks left until it; it stays at -1 once past. *)
(* Tokens and codes are random, so each is issued at most once.            *)
(***************************************************************************)
EXTENDS Integers, FiniteSets

CONSTANTS Sessions, Codes, Devices,  \* tokens and codes that may be issued
          Workers,                   \* goroutines serving admin requests
          TTL, CodeTTL,              \* session and code lifetimes, in ticks
          Modes,                     \* TRUE: started in demo mode
          None

ASSUME AccessAssumption ==
    /\ TTL \in Nat \ {0} /\ CodeTTL \in Nat \ {0}
    /\ Modes \subseteq BOOLEAN
    /\ None \notin Sessions \cup Codes \cup Devices
    /\ Sessions \cap Devices = {}

VARIABLES
    sessions,   \* SessionStore.sessions: ticks left, or Gone
    persistent, \* demo mode: one reusable code
    codes,      \* enrollStore.codes: ticks left, or Gone
    devices,    \* rows of device_tokens
    wpc, wreq,  \* per worker: program counter; credential and operation
    wleft,      \*   the expiry Validate is about to write
    issued,     \* history: every token and code handed out
    creator,    \* history: the credential that asked for a code
    from,       \* history: the code a device token was minted for
    idle,       \* history: ticks since the session's last accepted request
    ended       \* history: sessions logged out with no renewal under way

vars == <<persistent, sessions, codes, devices, wpc, wreq, wleft, issued, creator, from, idle, ended>>

Gone == -2

\* The zero time: a code that never expires.  It lies before every clock.
Never == -3

Ticks(n) == -1 .. n

Ops == {"page", "enroll", "revoke"}

NoRequest == [cred |-> None, op |-> "page", arg |-> None]

TypeOK ==
    /\ persistent \in Modes
    /\ sessions \in [Sessions -> Ticks(TTL) \cup {Gone}]
    /\ codes \in [Codes -> Ticks(CodeTTL) \cup {Gone, Never}]
    /\ devices \subseteq Devices
    /\ wpc \in [Workers -> {"idle", "expired", "renew", "handler", "mint"}]
    /\ wreq \in [Workers -> [cred : Sessions \cup Devices \cup Codes \cup {None}, op : Ops,
                             arg : Devices \cup {None}]]
    /\ wleft \in [Workers -> Ticks(TTL)]
    /\ issued \subseteq Sessions \cup Codes \cup Devices
    /\ creator \in [Codes -> Sessions \cup Devices \cup {None}]
    /\ from \in [Devices -> Codes \cup {None}]
    /\ idle \in [Sessions -> 0..(TTL + 1)] /\ ended \subseteq Sessions

\* newEnrollStore seeds the demo code.
Init ==
    /\ persistent \in Modes
    /\ sessions = [s \in Sessions |-> Gone]
    /\ codes = [c \in Codes |-> IF persistent THEN Never ELSE Gone]
    /\ issued = IF persistent THEN Codes ELSE {}
    /\ devices = {}
    /\ wpc = [w \in Workers |-> "idle"] /\ wreq = [w \in Workers |-> NoRequest]
    /\ wleft = [w \in Workers |-> 0]
    /\ creator = [c \in Codes |-> None] /\ from = [d \in Devices |-> None]
    /\ idle = [s \in Sessions |-> 0] /\ ended = {}

Finish(w) ==
    /\ wpc' = [wpc EXCEPT ![w] = "idle"]
    /\ wreq' = [wreq EXCEPT ![w] = NoRequest]
    /\ wleft' = [wleft EXCEPT ![w] = 0]

-----------------------------------------------------------------------------
(* Sessions.                                                               *)

\* A login that passed: SessionStore.Create.
Create(s) ==
    /\ s \notin issued
    /\ issued' = issued \cup {s}
    /\ sessions' = [sessions EXCEPT ![s] = TTL]
    /\ UNCHANGED <<persistent, codes, devices, wpc, wreq, wleft, creator, from, idle, ended>>

Renewing(s) == \E w \in Workers : wpc[w] = "renew" /\ wreq[w].cred = s

\* Fault: only the browser's cookie is cleared.
LogoutClearsCookie(s) ==
    /\ s \in issued
    /\ ended' = IF Renewing(s) THEN ended ELSE ended \cup {s}
    /\ UNCHANGED <<persistent, sessions, codes, devices, wpc, wreq, wleft, issued, creator, from, idle>>

\* handleLogout: SessionStore.Delete; the route needs no valid session.
handleLogout(s) ==
    /\ s \in issued
    /\ sessions' = [sessions EXCEPT ![s] = Gone]
    /\ ended' = IF Renewing(s) THEN ended ELSE ended \cup {s}
    /\ UNCHANGED <<persistent, codes, devices, wpc, wreq, wleft, issued, creator, from, idle>>

Admit(w, req, l) ==
    /\ wpc' = [wpc EXCEPT ![w] = l]
    /\ wreq' = [wreq EXCEPT ![w] = req]

\* Fault: Validate forgets to compare the expiry.
ReadSessionUnexpired(w, req) ==
    /\ wpc[w] = "idle" /\ sessions[req.cred] # Gone
    /\ Admit(w, req, "renew")
    /\ wleft' = [wleft EXCEPT ![w] = TTL]
    /\ idle' = [idle EXCEPT ![req.cred] = 0]
    /\ UNCHANGED <<persistent, sessions, codes, devices, issued, creator, from, ended>>

\* Validate, first half: the look under RLock.  Not found is a 401.
ReadSession(w, req) ==
    /\ wpc[w] = "idle" /\ sessions[req.cred] # Gone
    /\ IF sessions[req.cred] < 0
         THEN Admit(w, req, "expired") /\ UNCHANGED <<wleft, idle>>
         ELSE /\ Admit(w, req, "renew")
              /\ wleft' = [wleft EXCEPT ![w] = TTL]
              /\ idle' = [idle EXCEPT ![req.cred] = 0]
    /\ UNCHANGED <<persistent, sessions, codes, devices, issued, creator, from, ended>>

DropExpired(w) ==
    /\ wpc[w] = "expired"
    /\ sessions' = [sessions EXCEPT ![wreq[w].cred] = Gone]
    /\ Finish(w)
    /\ UNCHANGED <<persistent, codes, devices, issued, creator, from, idle, ended>>

\* Validate, second half: the sliding expiry, counted from the first half's
\* clock reading, is written whether or not the session is still there.
Renew(w) ==
    /\ wpc[w] = "renew"
    /\ sessions' = [sessions EXCEPT ![wreq[w].cred] = wleft[w]]
    /\ IF wreq[w].op = "page" THEN Finish(w)
       ELSE wpc' = [wpc EXCEPT ![w] = "handler"] /\ UNCHANGED <<wreq, wleft>>
    /\ UNCHANGED <<persistent, codes, devices, issued, creator, from, idle, ended>>

-----------------------------------------------------------------------------
(* Middleware.                                                             *)

\* Fault: device management accepts what requireSession accepts.
AdmitDeviceToo(w, req) ==
    \/ req.cred \in Sessions /\ ReadSession(w, req)
    \/ /\ req.cred \in devices /\ wpc[w] = "idle"
       /\ Admit(w, req, "handler")
       /\ UNCHANGED <<persistent, sessions, codes, devices, wleft, issued, creator, from, idle, ended>>

\* Enrollment and revocation: the session cookie only.
requireAdminSession(w, req) == req.cred \in Sessions /\ ReadSession(w, req)

\* The rest of the API: a cookie, or a device token whose row is there, which
\* changes nothing but last_seen_at.  Demo mode looks at neither.
requireSession(w, cred) ==
    ~persistent /\ ReadSession(w, [NoRequest EXCEPT !.cred = cred])

\* The pages: a cookie, in demo mode too.
requireSessionPage(w, cred) == ReadSession(w, [NoRequest EXCEPT !.cred = cred])

-----------------------------------------------------------------------------
(* Enrollment, pairing and revocation.                                     *)

Live(x) == x = Never \/ x > 0

\* A fresh code, or the demo code seeded again.
create(cred) ==
    IF persistent THEN codes' = [c \in Codes |-> Never] /\ UNCHANGED <<issued, creator>>
    ELSE \E c \in Codes \ issued :
           /\ issued' = issued \cup {c}
           /\ codes' = [codes EXCEPT ![c] = CodeTTL]
           /\ creator' = [creator EXCEPT ![c] = cred]

\* POST; rendering the QR of a code changes nothing.
handleEnroll(w) ==
    /\ wpc[w] = "handler" /\ wreq[w].op = "enroll"
    /\ create(wreq[w].cred)
    /\ Finish(w)
    /\ UNCHANGED <<persistent, sessions, devices, from, idle, ended>>

\* Fault: a code is looked up but not deleted.
ConsumeKeeps(w, c) ==
    /\ wpc[w] = "idle" /\ Live(codes[c])
    /\ Admit(w, [NoRequest EXCEPT !.cred = c], "mint")
    /\ UNCHANGED <<persistent, sessions, codes, devices, wleft, issued, creator, from, idle, ended>>

\* enrollStore.consume is one critical section.
consume(w, c) ==
    /\ wpc[w] = "idle" /\ codes[c] # Gone
    /\ codes' = IF Live(codes[c]) /\ persistent THEN codes ELSE [codes EXCEPT ![c] = Gone]
    /\ IF Live(codes[c]) THEN Admit(w, [NoRequest EXCEPT !.cred = c], "mint")
       ELSE UNCHANGED <<wpc, wreq>>
    /\ UNCHANGED <<persistent, sessions, devices, wleft, issued, creator, from, idle, ended>>

\* The INSERT may fail; the code is spent all the same.
CreateDeviceToken(w) ==
    /\ wpc[w] = "mint"
    /\ \/ UNCHANGED <<devices, issued, from>>
       \/ \E d \in Devices \ issued :
            /\ issued' = issued \cup {d}
            /\ devices' = devices \cup {d}
            /\ from' = [from EXCEPT ![d] = wreq[w].cred]
    /\ Finish(w)
    /\ UNCHANGED <<persistent, sessions, codes, creator, idle, ended>>

\* handleDevices DELETE; the statement may fail, and listing changes nothing.
RevokeDeviceToken(w) ==
    /\ wpc[w] = "handler" /\ wreq[w].op = "revoke"
    /\ devices' \in {devices, devices \ {wreq[w].arg}}
    /\ Finish(w)
    /\ UNCHANGED <<persistent, sessions, codes, issued, creator, from, idle, ended>>

handlePair(w) == (\E c \in Codes : consume(w, c)) \/ CreateDeviceToken(w)

-----------------------------------------------------------------------------
(* The clock and the cleanup goroutines.                                   *)

Down(n) == IF n > -1 THEN n - 1 ELSE n

Tick ==
    /\ sessions' = [s \in Sessions |-> Down(sessions[s])]
    /\ codes' = [c \in Codes |-> Down(codes[c])]
    /\ wleft' = [w \in Workers |-> IF wpc[w] = "renew" THEN Down(wleft[w]) ELSE wleft[w]]
    /\ idle' = [s \in Sessions |->
                  IF s \in issued /\ idle[s] <= TTL THEN idle[s] + 1 ELSE idle[s]]
    /\ UNCHANGED <<persistent, devices, wpc, wreq, issued, creator, from, ended>>

cleanupSessions ==
    /\ sessions' = [s \in Sessions |-> IF sessions[s] < 0 THEN Gone ELSE sessions[s]]
    /\ UNCHANGED <<persistent, codes, devices, wpc, wreq, wleft, issued, creator, from, idle, ended>>

\* Fault: the cleanup takes the zero time for a time long past.
CleanupCodesAll ==
    /\ codes' = [c \in Codes |-> IF codes[c] < 0 THEN Gone ELSE codes[c]]
    /\ UNCHANGED <<persistent, sessions, devices, wpc, wreq, wleft, issued, creator, from, idle, ended>>

cleanupCodes ==
    /\ codes' = [c \in Codes |-> IF codes[c] < 0 /\ codes[c] # Never THEN Gone ELSE codes[c]]
    /\ UNCHANGED <<persistent, sessions, devices, wpc, wreq, wleft, issued, creator, from, idle, ended>>

Request(cred, o, arg) == [cred |-> cred, op |-> o, arg |-> arg]

WorkerNext(w) ==
    \/ \E cred \in Sessions \cup Devices :
         \/ requireAdminSession(w, Request(cred, "enroll", None))
         \/ \E d \in Devices : requireAdminSession(w, Request(cred, "revoke", d))
    \/ \E s \in Sessions : requireSession(w, s) \/ requireSessionPage(w, s)
    \/ DropExpired(w) \/ Renew(w)
    \/ handleEnroll(w) \/ RevokeDeviceToken(w)
    \/ handlePair(w)

Next ==
    \/ \E s \in Sessions : Create(s) \/ handleLogout(s)
    \/ \E w \in Workers : WorkerNext(w)
    \/ Tick \/ cleanupSessions \/ cleanupCodes

Spec == Init /\ [][Next]_vars

-----------------------------------------------------------------------------
(* Properties.                                                             *)

\* An enrollment code yields at most one device token, however many devices
\* redeem it at the same moment ("it redeems at most once", handlePair).
RedeemedOnce ==
    ~persistent => \A d, e \in Devices : from[d] # None /\ from[d] = from[e] => d = e

\* No device token descends from a device token: a leaked one cannot enroll a
\* successor that outlives its revocation (requireAdminSession: "revoking a
\* token must be a complete kill").
NoSuccessor == \A d \in Devices : from[d] # None => creator[from[d]] \notin Devices

\* A session is not accepted after TTL ticks without an accepted request, even
\* if the cleanup goroutine never ran (Validate compares the expiry itself).
IdleSessionRefused ==
    [][\A w \in Workers : wpc[w] = "idle" /\ wpc'[w] = "renew"
          => idle[wreq'[w].cred] <= TTL]_vars

\* A session that was logged out is never accepted again, although renewals write
\* it back without looking: the exception is a renewal under way at that moment.
LogoutHolds ==
    [][\A w \in Workers : wpc[w] = "idle" /\ wpc'[w] = "renew" => wreq'[w].cred \notin ended]_vars

\* In demo mode the pairing code can always be redeemed again, whatever the
\* cleanup goroutine and the pairings do (enrollStore: "codes never expire and
\* a code may be redeemed any number of times").
DemoCodeLives == persistent => \A c \in Codes : Live(codes[c])
=============================================================================
