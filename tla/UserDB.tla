------------------------------- MODULE UserDB --------------------------------
(***************************************************************************)
(* pkg/userdb: the users table, the password cache in front of it, and the *)
(* per-user setting caches that every request path reads instead of it.    *)
(*                                                                         *)
(* A SQL statement is one step and a critical section is one step; between *)
(* a method's statement and its critical section others run.  Delete's     *)
(* five critical sections are on five unrelated maps and make one step.    *)
(* A restart loses every map and loads the settings from the table.        *)
(***************************************************************************)
EXTENDS Integers, FiniteSets

CONSTANTS
    Users, Passwords,
    Workers,        \* goroutines inside a method of DB
    Admins,         \* those of them that serve the admin API
    Settings,       \* which of AllSettings the instance follows
    Ops,            \* which methods the instance calls
    OldHashes,      \* the table comes from a build with other argon2 parameters
    TTL,            \* cacheTTL, in ticks
    None

AllSettings == {"enabled", "dns", "downtime", "override", "until"}

AllOps == {"check", "password", "add", "delete", "set"}

Hash == [pw : Passwords, old : BOOLEAN]

ASSUME UserDBAssumption ==
    /\ Admins \subseteq Workers
    /\ Settings \subseteq AllSettings /\ Ops \subseteq AllOps
    /\ OldHashes \in BOOLEAN /\ TTL \in Nat \ {0}
    /\ None \notin Passwords \cup Hash /\ None # "on"

VARIABLES
    hash,     \* users.password_hash, None for no row
    row,      \* the row's settings: "on", or None for empty, false or no row
    cache,    \* DB.cache: the password whose SHA is kept and the ticks left
    settings, \* dnsCache, downtimeCache, overrideCache, downtimeUntilCache, enabledCache
    wpc, wop, \* per worker: program counter and arguments
    chosen,   \* history: the password an admin last gave the user, None for no user
    raced,    \* history: users whose password a Check was about to store just then
    crossed   \* history: user and setting that a statement changed while the map
              \* had yet to hear of an earlier one, or was never to hear of this one

vars == <<hash, row, cache, settings, wpc, wop, chosen, raced, crossed>>

history == <<chosen, raced, crossed>>

Value == {None, "on"}

NoOp == [user |-> None, pw |-> None, setting |-> None, value |-> None, old |-> FALSE]

NoSettings == [s \in Settings |-> None]

\* The defaults of the table's columns.
NewRow == [s \in Settings |-> IF s = "enabled" THEN "on" ELSE None]

TypeOK ==
    /\ hash \in [Users -> Hash \cup {None}]
    /\ row \in [Users -> [Settings -> Value]]
    /\ cache \in [Users -> [pw : Passwords, left : 0..TTL] \cup {None}]
    /\ settings \in [Users -> [Settings -> Value]]
    /\ wpc \in [Workers -> {"idle", "select", "rehash", "populate", "forget",
                            "enable", "purge", "store"}]
    /\ wop \in [Workers -> [user : Users \cup {None}, pw : Passwords \cup {None},
                            setting : Settings \cup {None}, value : Value, old : BOOLEAN]]
    /\ chosen \in [Users -> Passwords \cup {None}] /\ raced \subseteq Users
    /\ crossed \subseteq Users \X Settings

\* The password the table has for a user.
Stored(u) == IF hash[u] = None THEN None ELSE hash[u].pw

\* The table may hold users of an earlier build; Open loads the settings.
Init ==
    /\ hash \in [Users -> [pw : Passwords, old : {OldHashes}] \cup {None}]
    /\ row = [u \in Users |-> IF hash[u] = None THEN NoSettings ELSE NewRow]
    /\ cache = [u \in Users |-> None]
    /\ settings = row
    /\ wpc = [w \in Workers |-> "idle"] /\ wop = [w \in Workers |-> NoOp]
    /\ chosen = [u \in Users |-> Stored(u)] /\ raced = {}
    /\ crossed = {}

Begin(w, o, op, l) ==
    /\ wpc[w] = "idle" /\ o \in Ops
    /\ wop' = [wop EXCEPT ![w] = op]
    /\ wpc' = [wpc EXCEPT ![w] = l]

Goto(w, l) == wpc' = [wpc EXCEPT ![w] = l] /\ UNCHANGED wop

Finish(w) ==
    /\ wpc' = [wpc EXCEPT ![w] = "idle"]
    /\ wop' = [wop EXCEPT ![w] = NoOp]

-----------------------------------------------------------------------------
(* Check.                                                                  *)

Fresh(u) == cache[u] # None /\ cache[u].left > 0

\* Fault: a hit renews the entry.
LookupSliding(w, u, p) ==
    \/ /\ wpc[w] = "idle" /\ "check" \in Ops /\ Fresh(u) /\ cache[u].pw = p
       /\ cache' = [cache EXCEPT ![u].left = TTL]
       /\ UNCHANGED <<hash, row, settings, wpc, wop, history>>
    \/ /\ ~Fresh(u)
       /\ Begin(w, "check", [NoOp EXCEPT !.user = u, !.pw = p], "select")
       /\ UNCHANGED <<hash, row, cache, settings, history>>

\* The look at the cache under RLock.  A fresh entry decides the request
\* either way and changes nothing, so only a miss is a step.
Lookup(w, u, p) ==
    /\ ~Fresh(u)
    /\ Begin(w, "check", [NoOp EXCEPT !.user = u, !.pw = p], "select")
    /\ UNCHANGED <<hash, row, cache, settings, history>>

\* The row is read, the password verified against it; a query error, no row
\* and a wrong password end the request.
SelectHash(w) ==
    LET h == hash[wop[w].user] IN
    /\ wpc[w] = "select"
    /\ \/ Finish(w)
       \/ /\ h # None /\ h.pw = wop[w].pw
          /\ Goto(w, IF h.old THEN "rehash" ELSE "populate")
    /\ UNCHANGED <<hash, row, cache, settings, history>>

\* The UPDATE names the user only; its error is dropped.
Rehash(w) ==
    LET u == wop[w].user
        new == [hash EXCEPT ![u] = [pw |-> wop[w].pw, old |-> FALSE]] IN
    /\ wpc[w] = "rehash"
    /\ hash' \in {hash, IF hash[u] = None THEN hash ELSE new}
    /\ Goto(w, "populate")
    /\ UNCHANGED <<row, cache, settings, history>>

Populate(w) ==
    /\ wpc[w] = "populate"
    /\ cache' = [cache EXCEPT ![wop[w].user] = [pw |-> wop[w].pw, left |-> TTL]]
    /\ Finish(w)
    /\ UNCHANGED <<hash, row, settings, history>>

-----------------------------------------------------------------------------
(* Writers: a statement, then the maps.                                    *)

\* A method about user u has written the table and not yet the map of setting s.
Pending(w, u, s) ==
    /\ wop[w].user = u
    /\ \/ wpc[w] = "store" /\ wop[w].setting = s
       \/ wpc[w] = "enable" /\ s = "enabled"
       \/ wpc[w] = "purge" /\ s # "until"

\* History only: a statement changes the settings S of user u's row.  A map will be
\* right again if no earlier method has it still to write; left are the settings
\* whose map this method leaves as it is.
Cross(u, S, left) ==
    crossed' = (crossed \ ({u} \X S))
                 \cup ({u} \X (left \cup {s \in S : \E w \in Workers : Pending(w, u, s)}))

\* Some Check has found a password of user u right and has yet to store it.
Verified(u) == \E w \in Workers : wop[w].user = u /\ wpc[w] \in {"rehash", "populate"}

\* An admin gives user u the password p; before is who was raced, u left out if the
\* method drops the cached password.
Choose(u, p, before) ==
    /\ chosen' = [chosen EXCEPT ![u] = p]
    /\ raced' = IF Verified(u) THEN before \cup {u} ELSE before

\* Fault: the cached password is left alone.
ChangeKeepsCache(w, u, p) ==
    /\ hash[u] # None /\ wpc[w] = "idle" /\ "password" \in Ops
    /\ hash' = [hash EXCEPT ![u] = [pw |-> p, old |-> FALSE]]
    /\ Choose(u, p, raced \ {u})
    /\ UNCHANGED <<row, cache, settings, wpc, wop, crossed>>

ChangePassword(w, u, p) ==
    /\ hash[u] # None
    /\ Begin(w, "password", [NoOp EXCEPT !.user = u], "forget")
    /\ hash' = [hash EXCEPT ![u] = [pw |-> p, old |-> FALSE]]
    /\ Choose(u, p, raced \ {u})
    /\ UNCHANGED <<row, cache, settings, crossed>>

ForgetPassword(w) ==
    /\ wpc[w] = "forget"
    /\ cache' = [cache EXCEPT ![wop[w].user] = None]
    /\ Finish(w)
    /\ UNCHANGED <<hash, row, settings, history>>

\* The port is chosen in UserPorts; an existing name is refused by the table.
Add(w, u, p) ==
    /\ hash[u] = None
    /\ Begin(w, "add", [NoOp EXCEPT !.user = u], "enable")
    /\ hash' = [hash EXCEPT ![u] = [pw |-> p, old |-> FALSE]]
    /\ row' = [row EXCEPT ![u] = NewRow]
    /\ Choose(u, p, raced)
    /\ Cross(u, Settings \cap {"enabled"}, {})
    /\ UNCHANGED <<cache, settings>>

EnableNew(w) ==
    LET u == wop[w].user IN
    /\ wpc[w] = "enable"
    /\ settings' = [settings EXCEPT ![u] =
                      [s \in Settings |-> IF s = "enabled" THEN "on" ELSE @[s]]]
    /\ Finish(w)
    /\ UNCHANGED <<hash, row, cache, history>>

Delete(w, u) ==
    /\ hash[u] # None
    /\ Begin(w, "delete", [NoOp EXCEPT !.user = u], "purge")
    /\ hash' = [hash EXCEPT ![u] = None]
    /\ row' = [row EXCEPT ![u] = NoSettings]
    /\ Choose(u, None, raced \ {u})
    /\ Cross(u, Settings, {s \in Settings \cap {"until"} : settings[u][s] # None})
    /\ UNCHANGED <<cache, settings>>

\* Fault: enabledCache is left alone too.
PurgeKeepsEnabled(w) ==
    LET u == wop[w].user IN
    /\ wpc[w] = "purge"
    /\ cache' = [cache EXCEPT ![u] = None]
    /\ settings' = [settings EXCEPT ![u] =
                      [s \in Settings |-> IF s \in {"until", "enabled"} THEN @[s] ELSE None]]
    /\ Finish(w)
    /\ UNCHANGED <<hash, row, history>>

\* Every map but downtimeUntilCache.
PurgeCaches(w) ==
    LET u == wop[w].user IN
    /\ wpc[w] = "purge"
    /\ cache' = [cache EXCEPT ![u] = None]
    /\ settings' = [settings EXCEPT ![u] =
                      [s \in Settings |-> IF s = "until" THEN @[s] ELSE None]]
    /\ Finish(w)
    /\ UNCHANGED <<hash, row, history>>

\* SetEnabled, UpdateDNS, UpdateDowntime, and setting or clearing an override
\* or an ad-hoc downtime: no affected row is an error.
SetRow(w, u, s, v) ==
    /\ hash[u] # None
    /\ Begin(w, "set", [NoOp EXCEPT !.user = u, !.setting = s, !.value = v], "store")
    /\ row' = [row EXCEPT ![u][s] = v]
    /\ Cross(u, {s}, {})
    /\ UNCHANGED <<hash, cache, settings, chosen, raced>>

StoreSetting(w) ==
    /\ wpc[w] = "store"
    /\ settings' = [settings EXCEPT ![wop[w].user][wop[w].setting] = wop[w].value]
    /\ Finish(w)
    /\ UNCHANGED <<hash, row, cache, history>>

-----------------------------------------------------------------------------

Tick ==
    /\ \E u \in Users : Fresh(u)
    /\ cache' = [u \in Users |-> IF Fresh(u) THEN [cache[u] EXCEPT !.left = @ - 1] ELSE cache[u]]
    /\ UNCHANGED <<hash, row, settings, wpc, wop, history>>

\* The process dies, requests and all, and Open builds the maps again.
Restart ==
    /\ cache' = [u \in Users |-> None]
    /\ settings' = row
    /\ wpc' = [w \in Workers |-> "idle"] /\ wop' = [w \in Workers |-> NoOp]
    /\ crossed' = {}
    /\ UNCHANGED <<hash, row, chosen, raced>>

Continue(w) ==
    \/ SelectHash(w) \/ Rehash(w) \/ Populate(w) \/ ForgetPassword(w)
    \/ EnableNew(w) \/ PurgeCaches(w) \/ StoreSetting(w)

\* Passwords are checked by proxy requests; the rest is the admin API's.
Call(w) ==
    \E u \in Users :
      \/ \E p \in Passwords : Lookup(w, u, p)
      \/ /\ w \in Admins
         /\ \/ \E p \in Passwords : ChangePassword(w, u, p) \/ Add(w, u, p)
            \/ Delete(w, u)
            \/ \E s \in Settings, v \in Value : SetRow(w, u, s, v)

Next == (\E w \in Workers : Call(w) \/ Continue(w)) \/ Tick \/ Restart

Spec == Init /\ [][Next]_vars

\* A method that was called returns, and the clock ticks.
Fairness == WF_vars(Tick) /\ \A w \in Workers : WF_vars(Continue(w))

-----------------------------------------------------------------------------
(* Properties.                                                             *)

\* The password the cache accepts without asking the table.
Accepted(u) == IF Fresh(u) THEN cache[u].pw ELSE None

\* Once a user's password stays changed, or the user deleted, the cache stops
\* accepting anything else, whoever keeps presenting the old password: an entry
\* stored by a Check that raced the change lives for one TTL and is not renewed.
OldPasswordDies ==
    \A u \in Users : \A p \in Passwords \cup {None} :
        <>[](Stored(u) = p) => <>[](Accepted(u) \in {p, None})

\* An admin's call has yet to drop the user's cached password.
Forgetting(u) == \E w \in Workers : wop[w].user = u /\ wpc[w] \in {"forget", "purge"}

\* A change of a user's password, or a deletion, takes effect when the method is done,
\* at once and for good: the table keeps what the admin chose and the cache accepts
\* nothing else, whatever Checks, migrations of old hashes, crashes and later users of
\* the name do.  The exception is a Check that had verified the old password and not
\* stored it when the table changed.
ChangeTakesEffect ==
    \A u \in Users \ raced :
        /\ Stored(u) = chosen[u]
        /\ Forgetting(u) \/ Accepted(u) \in {chosen[u], None}

\* When no method is between its statement and its map, a setting cache says what the
\* table says, however many admins change, delete and create users at once and
\* wherever a crash falls.  The exceptions are a setting whose row another method
\* changed in between, and the end of a downtime that a deleted user leaves behind.
SettingsMatchRows ==
    \A u \in Users, s \in Settings :
        \/ <<u, s>> \in crossed \/ \E w \in Workers : Pending(w, u, s)
        \/ settings[u][s] = row[u][s]
=============================================================================
