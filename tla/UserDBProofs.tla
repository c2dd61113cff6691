----------------------------- MODULE UserDBProofs -----------------------------
(* For any users, settings, passwords, proxy requests and admin requests,  *)
(* and crashes at any moment: what the setting caches and the password     *)
(* cache say of the table.  At the end, the package's other module:        *)
(* schedules block at the minutes their windows cover.                     *)
EXTENDS UserDB, DowntimeSchedule, FiniteSetTheorems, TLAPS

\* What a method that is between its statement and the maps will write there.
WillWrite(w) ==
    IF wpc[w] = "store" THEN wop[w].value ELSE IF wpc[w] = "enable" THEN "on" ELSE None

\* Unless the setting was crossed, at most one method has its map still to write, and
\* will write what the row holds; if none has, the map holds it.
FollowsRow(u, s) ==
    \/ <<u, s>> \in crossed
    \/ /\ \A v, w \in Workers : Pending(v, u, s) /\ Pending(w, u, s) => v = w
       /\ \A w \in Workers : Pending(w, u, s) => WillWrite(w) = row[u][s]
       /\ (\A w \in Workers : ~Pending(w, u, s)) => settings[u][s] = row[u][s]

\* A user without a row has no settings in the table.
NoRowNoSettings == \A u \in Users : hash[u] = None => row[u] = NoSettings

\* A call under way names a user, and a Check a password.
CallersOK == \A w \in Workers : wpc[w] # "idle" => wop[w].user \in Users
             /\ (wpc[w] \in {"select", "rehash", "populate"} => wop[w].pw \in Passwords)

\* The inductive invariant.
IndInv == /\ TypeOK /\ CallersOK /\ NoRowNoSettings
          /\ \A u \in Users, s \in Settings : FollowsRow(u, s)

-----------------------------------------------------------------------------

\* The shape of every call.
AnyCall == [user : Users \cup {None}, pw : Passwords \cup {None},
          setting : Settings \cup {None}, value : Value, old : BOOLEAN]

\* The part of the type invariant about workers.
WorkersTyped ==
    /\ wpc \in [Workers -> {"idle", "select", "rehash", "populate", "forget",
                            "enable", "purge", "store"}]
    /\ wop \in [Workers -> AnyCall]

\* An idle worker's call has that shape.
LEMMA NoOpTyped == NoOp \in AnyCall
BY DEF NoOp, AnyCall, Value

\* The settings of nobody and of a new user are settings.
LEMMA RowsTyped == NoSettings \in [Settings -> Value] /\ NewRow \in [Settings -> Value]
BY DEF NoSettings, NewRow, Value

\* Beginning, continuing and finishing a method keep the workers typed.
LEMMA StepTyped ==
    ASSUME TypeOK, NEW w \in Workers
    PROVE  /\ \A o \in AllOps, op \in AnyCall, l \in {"select", "forget", "enable", "purge", "store"} :
                Begin(w, o, op, l) => WorkersTyped'
           /\ \A l \in {"rehash", "populate"} : Goto(w, l) => WorkersTyped'
           /\ Finish(w) => WorkersTyped'
<1>1. ASSUME NEW o \in AllOps, NEW op \in AnyCall,
             NEW l \in {"select", "forget", "enable", "purge", "store"}, Begin(w, o, op, l)
      PROVE  WorkersTyped'
  BY <1>1 DEF TypeOK, WorkersTyped, AnyCall, Begin
<1>2. ASSUME NEW l \in {"rehash", "populate"}, Goto(w, l)
      PROVE  WorkersTyped'
  BY <1>2 DEF TypeOK, WorkersTyped, AnyCall, Goto
<1>3. Finish(w) => WorkersTyped'
  BY NoOpTyped DEF TypeOK, WorkersTyped, AnyCall, Finish
<1> QED BY <1>1, <1>2, <1>3

\* The history variables keep their types: few methods write them.
LEMMA HistoryTyped ==
    ASSUME TypeOK, [Next]_vars
    PROVE  /\ chosen' \in [Users -> Passwords \cup {None}] /\ raced' \subseteq Users
           /\ crossed' \subseteq Users \X Settings
<1> DEFINE Typed == chosen' \in [Users -> Passwords \cup {None}] /\ raced' \subseteq Users
           Pairs == crossed' \subseteq Users \X Settings
<1>1. ASSUME NEW u \in Users, NEW p \in Passwords \cup {None}, NEW before \in SUBSET Users,
             Choose(u, p, before)
      PROVE  Typed
  BY <1>1 DEF Choose, TypeOK
<1>2. ASSUME NEW u \in Users, NEW S \in SUBSET Settings, NEW left \in SUBSET Settings, Cross(u, S, left)
      PROVE  Pairs
  BY <1>2 DEF Cross, TypeOK
<1>3. ASSUME NEW w \in Workers, NEW u \in Users, NEW p \in Passwords,
             ChangePassword(w, u, p) \/ Add(w, u, p)
      PROVE  Typed /\ Pairs
  <2>1. Typed
    BY <1>1, <1>3 DEF ChangePassword, Add, TypeOK
  <2>2. CASE ChangePassword(w, u, p)
    BY <2>1, <2>2 DEF ChangePassword, TypeOK
  <2>3. CASE Add(w, u, p)
    <3>1. Cross(u, Settings \cap {"enabled"}, {})
      BY <2>3 DEF Add
    <3> QED BY <1>2, <2>1, <3>1
  <2> QED BY <1>3, <2>2, <2>3
<1>4. ASSUME NEW w \in Workers, NEW u \in Users, Delete(w, u)
      PROVE  Typed /\ Pairs
  <2>1. Typed
    BY <1>1, <1>4 DEF Delete, TypeOK
  <2>2. Cross(u, Settings, {s \in Settings \cap {"until"} : settings[u][s] # None})
    BY <1>4 DEF Delete
  <2> QED BY <1>2, <2>1, <2>2
<1>5. ASSUME NEW w \in Workers, NEW u \in Users, NEW s \in Settings, NEW v \in Value, SetRow(w, u, s, v)
      PROVE  Typed /\ Pairs
  <2>1. Cross(u, {s}, {}) /\ UNCHANGED <<chosen, raced>>
    BY <1>5 DEF SetRow
  <2>2. Pairs
    BY <1>2, <2>1
  <2> QED BY <2>1, <2>2 DEF TypeOK
<1>6. CASE UNCHANGED history
  BY <1>6 DEF history, TypeOK
<1>7. CASE Restart
  BY <1>7 DEF Restart, TypeOK
<1>8. \/ UNCHANGED history \/ Restart
      \/ \E w \in Workers, u \in Users :
           \/ Delete(w, u) \/ \E p \in Passwords : ChangePassword(w, u, p) \/ Add(w, u, p)
           \/ \E s \in Settings, v \in Value : SetRow(w, u, s, v)
  BY DEF Next, Call, Continue, Lookup, SelectHash, Rehash, Populate, ForgetPassword, EnableNew,
         PurgeCaches, StoreSetting, Tick, vars, history
<1> QED BY <1>3, <1>4, <1>5, <1>6, <1>7, <1>8

-----------------------------------------------------------------------------
(* Settings: with any number of admin requests at once.                    *)

\* Nothing happens to a setting: its row, its map and the methods about to write it.
LEMMA SettingFrame ==
    ASSUME NEW u \in Users, NEW s \in Settings, FollowsRow(u, s),
           row'[u][s] = row[u][s], settings'[u][s] = settings[u][s],
           <<u, s>> \in crossed => <<u, s>> \in crossed',
           \A w \in Workers : /\ Pending(w, u, s)' <=> Pending(w, u, s)
                              /\ Pending(w, u, s) => wpc'[w] = wpc[w] /\ wop'[w] = wop[w]
    PROVE  FollowsRow(u, s)'
BY DEF FollowsRow, WillWrite

\* A worker that is not about to write a map, before or after, disturbs no setting.
LEMMA QuietFrame ==
    ASSUME NEW x \in Workers, UNCHANGED <<row, settings, crossed>>,
           \A u \in Users, s \in Settings : FollowsRow(u, s),
           \A w \in Workers : w # x => wpc'[w] = wpc[w] /\ wop'[w] = wop[w],
           {wpc[x], wpc'[x]} \cap {"store", "enable", "purge"} = {}
    PROVE  \A u \in Users, s \in Settings : FollowsRow(u, s)'
<1> SUFFICES ASSUME NEW u \in Users, NEW s \in Settings PROVE FollowsRow(u, s)'
  OBVIOUS
<1>1. ASSUME NEW w \in Workers
      PROVE  /\ Pending(w, u, s)' <=> Pending(w, u, s)
             /\ Pending(w, u, s) => wpc'[w] = wpc[w] /\ wop'[w] = wop[w]
  BY DEF Pending
<1> QED BY <1>1, SettingFrame

\* A statement about user y changes the settings S, with a method that will write their maps.
LEMMA StatementFollows ==
    ASSUME NEW x \in Workers, NEW y \in Users, NEW S \in SUBSET Settings, NEW left \in SUBSET Settings,
           \A u \in Users, s \in Settings : FollowsRow(u, s),
           Cross(y, S, left), settings' = settings,
           wpc[x] = "idle", wop'[x].user = y,
           \A w \in Workers : w # x => wpc'[w] = wpc[w] /\ wop'[w] = wop[w],
           \A u \in Users, s \in Settings : u # y \/ s \notin S => row'[u][s] = row[u][s],
           \A s \in Settings : Pending(x, y, s)' => s \in S /\ WillWrite(x)' = row'[y][s],
           \A s \in S : Pending(x, y, s)' \/ s \in left \/ settings[y][s] = row'[y][s]
    PROVE  \A u \in Users, s \in Settings : FollowsRow(u, s)'
<1> SUFFICES ASSUME NEW u \in Users, NEW s \in Settings PROVE FollowsRow(u, s)'
  OBVIOUS
<1>1. \A w \in Workers : w # x => (Pending(w, u, s)' <=> Pending(w, u, s)) /\ wpc'[w] = wpc[w] /\ wop'[w] = wop[w]
  BY DEF Pending
<1>2. ~Pending(x, u, s)
  BY DEF Pending
<1>3. CASE u # y \/ s \notin S
  <2>1. ~Pending(x, u, s)'
    BY <1>3 DEF Pending
  <2>2. <<u, s>> \in crossed => <<u, s>> \in crossed'
    BY <1>3 DEF Cross
  <2>3. \A w \in Workers : /\ Pending(w, u, s)' <=> Pending(w, u, s)
                           /\ Pending(w, u, s) => wpc'[w] = wpc[w] /\ wop'[w] = wop[w]
    BY <1>1, <1>2, <2>1
  <2>4. row'[u][s] = row[u][s] /\ settings'[u][s] = settings[u][s]
    BY <1>3
  <2> QED BY <2>2, <2>3, <2>4, SettingFrame
<1>4. CASE u = y /\ s \in S
  <2>1. CASE (\E w \in Workers : Pending(w, u, s)) \/ s \in left
    <3>1. <<u, s>> \in crossed'
      BY <1>4, <2>1 DEF Cross
    <3> QED BY <3>1 DEF FollowsRow
  <2>2. CASE (\A w \in Workers : ~Pending(w, u, s)) /\ s \notin left
    <3>1. \A w \in Workers : Pending(w, u, s)' => w = x
      BY <1>1, <2>2
    <3>2. Pending(x, u, s)' => WillWrite(x)' = row'[u][s]
      BY <1>4
    <3>3. Pending(x, u, s)' \/ settings'[u][s] = row'[u][s]
      BY <1>4, <2>2
    <3> QED BY <3>1, <3>2, <3>3 DEF FollowsRow
  <2> QED BY <2>1, <2>2
<1> QED BY <1>3, <1>4

\* A method writes the maps it was to write, and ends.
LEMMA MapsFollow ==
    ASSUME NEW x \in Workers, UNCHANGED <<row, crossed>>,
           \A u \in Users, s \in Settings : FollowsRow(u, s),
           \A w \in Workers : w # x => wpc'[w] = wpc[w] /\ wop'[w] = wop[w],
           wpc'[x] = "idle",
           \A u \in Users, s \in Settings :
               settings'[u][s] = IF Pending(x, u, s) THEN WillWrite(x) ELSE settings[u][s]
    PROVE  \A u \in Users, s \in Settings : FollowsRow(u, s)'
<1> SUFFICES ASSUME NEW u \in Users, NEW s \in Settings PROVE FollowsRow(u, s)'
  OBVIOUS
<1>1. \A w \in Workers : w # x => (Pending(w, u, s)' <=> Pending(w, u, s)) /\ wpc'[w] = wpc[w] /\ wop'[w] = wop[w]
  BY DEF Pending
<1>2. ~Pending(x, u, s)'
  BY DEF Pending
<1>3. CASE Pending(x, u, s)
  BY <1>1, <1>2, <1>3 DEF FollowsRow
<1>4. CASE ~Pending(x, u, s)
  BY <1>1, <1>2, <1>4, SettingFrame
<1> QED BY <1>3, <1>4

\* Every step keeps the invariant.
LEMMA NextInv ==
    ASSUME IndInv, [Next]_vars
    PROVE  IndInv'
<1> USE UserDBAssumption DEF IndInv
<1> DEFINE Follow == \A u \in Users, s \in Settings : FollowsRow(u, s)
<1>ops. {"check", "password", "add", "delete", "set"} \subseteq AllOps
  BY DEF AllOps
<1>hist. /\ chosen' \in [Users -> Passwords \cup {None}] /\ raced' \subseteq Users
         /\ crossed' \subseteq Users \X Settings
  BY HistoryTyped
<1>1. ASSUME NEW w \in Workers, NEW u \in Users, NEW p \in Passwords, Lookup(w, u, p)
      PROVE  IndInv'
  <2> DEFINE op == [NoOp EXCEPT !.user = u, !.pw = p]
  <2>1. op \in AnyCall /\ op.user = u /\ op.pw = p
    BY DEF NoOp, AnyCall, Value
  <2> HIDE DEF op
  <2>2. Begin(w, "check", op, "select") /\ UNCHANGED <<hash, row, cache, settings, crossed>>
    BY <1>1 DEF Lookup, op, history
  <2>3. TypeOK'
    BY <1>ops, <1>hist, <2>1, <2>2, StepTyped DEF TypeOK, WorkersTyped, AnyCall
  <2>4. CallersOK'
    BY <2>1, <2>2 DEF Begin, CallersOK, TypeOK
  <2>5. /\ \A v \in Workers : v # w => wpc'[v] = wpc[v] /\ wop'[v] = wop[v]
        /\ wpc[w] = "idle" /\ wpc'[w] = "select"
    BY <2>2 DEF Begin, TypeOK
  <2>6. Follow'
    BY <2>2, <2>5, QuietFrame
  <2> QED BY <2>2, <2>3, <2>4, <2>6 DEF NoRowNoSettings
<1>2. ASSUME NEW w \in Workers, SelectHash(w) \/ Rehash(w) \/ Populate(w) \/ ForgetPassword(w)
      PROVE  IndInv'
  <2>1. wop[w].user \in Users /\ (wpc[w] # "forget" => wop[w].pw \in Passwords)
    BY <1>2 DEF SelectHash, Rehash, Populate, ForgetPassword, CallersOK
  <2>2. WorkersTyped'
    BY <1>2, StepTyped DEF SelectHash, Rehash, Populate, ForgetPassword
  <2>3. hash' \in [Users -> Hash \cup {None}] /\ \A u \in Users : hash'[u] = None => hash[u] = None
    <3>1. CASE Rehash(w)
      <4>1. [pw |-> wop[w].pw, old |-> FALSE] \in Hash
        BY <2>1, <3>1 DEF Rehash, Hash
      <4> QED BY <2>1, <3>1, <4>1 DEF Rehash, TypeOK
    <3> QED BY <1>2, <3>1 DEF SelectHash, Populate, ForgetPassword, TypeOK
  <2>4. cache' \in [Users -> [pw : Passwords, left : 0..TTL] \cup {None}]
    <3>1. CASE Populate(w)
      <4>1. [pw |-> wop[w].pw, left |-> TTL] \in [pw : Passwords, left : 0..TTL]
        BY <2>1, <3>1 DEF Populate
      <4> QED BY <2>1, <3>1, <4>1 DEF Populate, TypeOK
    <3> QED BY <1>2, <2>1, <3>1 DEF SelectHash, Rehash, ForgetPassword, TypeOK
  <2>5. UNCHANGED <<row, settings, crossed>>
    BY <1>2 DEF SelectHash, Rehash, Populate, ForgetPassword, history
  <2>6. TypeOK'
    BY <1>hist, <2>2, <2>3, <2>4, <2>5 DEF TypeOK, WorkersTyped, AnyCall
  <2>7. CallersOK'
    BY <1>2, <2>1 DEF SelectHash, Rehash, Populate, ForgetPassword, Goto, Finish, CallersOK, TypeOK
  <2>8. \A v \in Workers : v # w => wpc'[v] = wpc[v] /\ wop'[v] = wop[v]
    BY <1>2 DEF SelectHash, Rehash, Populate, ForgetPassword, Goto, Finish, TypeOK
  <2>9. {wpc[w], wpc'[w]} \cap {"store", "enable", "purge"} = {}
    BY <1>2 DEF SelectHash, Rehash, Populate, ForgetPassword, Goto, Finish, TypeOK
  <2>10. Follow'
    BY <2>5, <2>8, <2>9, QuietFrame
  <2> QED BY <2>3, <2>5, <2>6, <2>7, <2>10 DEF NoRowNoSettings
\* A call of the admin API begins with its statement.
<1>3. ASSUME NEW w \in Workers, NEW o \in AllOps, NEW op \in AnyCall, NEW u \in Users, op.user = u,
             NEW l \in {"forget", "enable", "purge", "store"}, Begin(w, o, op, l),
             hash' \in [Users -> Hash \cup {None}], row' \in [Users -> [Settings -> Value]],
             UNCHANGED <<cache, settings>>,
             \A v \in Users : v # u => row'[v] = row[v] /\ hash'[v] = hash[v],
             hash'[u] = None => row'[u] = NoSettings
      PROVE  /\ TypeOK' /\ CallersOK' /\ NoRowNoSettings'
             /\ \A v \in Workers : v # w => wpc'[v] = wpc[v] /\ wop'[v] = wop[v]
             /\ wpc[w] = "idle" /\ wpc'[w] = l /\ wop'[w] = op
  <2>1. wpc[w] = "idle" /\ wpc'[w] = l /\ wop'[w] = op
    BY <1>3 DEF Begin, TypeOK
  <2>2. \A v \in Workers : v # w => wpc'[v] = wpc[v] /\ wop'[v] = wop[v]
    BY <1>3 DEF Begin, TypeOK
  <2>3. TypeOK'
    BY <1>3, <1>hist, StepTyped DEF TypeOK, WorkersTyped, AnyCall
  <2>4. CallersOK'
    BY <1>3, <2>1, <2>2 DEF CallersOK
  <2>5. NoRowNoSettings'
    BY <1>3 DEF NoRowNoSettings
  <2> QED BY <2>1, <2>2, <2>3, <2>4, <2>5
<1>4. ASSUME NEW w \in Workers, NEW u \in Users, NEW p \in Passwords,
             ChangePassword(w, u, p) \/ Add(w, u, p)
      PROVE  IndInv'
  <2> DEFINE op == [NoOp EXCEPT !.user = u]
  <2>1. op \in AnyCall /\ op.user = u
    BY DEF NoOp, AnyCall, Value
  <2>2. hash' = [hash EXCEPT ![u] = [pw |-> p, old |-> FALSE]]
    BY <1>4 DEF ChangePassword, Add
  <2>3. hash' \in [Users -> Hash \cup {None}] /\ hash'[u] # None
    <3>1. [pw |-> p, old |-> FALSE] \in Hash
      BY DEF Hash
    <3> QED BY <2>2, <3>1 DEF TypeOK
  <2> HIDE DEF op
  <2>4. CASE ChangePassword(w, u, p)
    <3>1. Begin(w, "password", op, "forget") /\ UNCHANGED <<row, cache, settings, crossed>>
      BY <2>4 DEF ChangePassword, op
    <3>2. /\ TypeOK' /\ CallersOK' /\ NoRowNoSettings'
          /\ \A v \in Workers : v # w => wpc'[v] = wpc[v] /\ wop'[v] = wop[v]
          /\ wpc[w] = "idle" /\ wpc'[w] = "forget"
      BY <1>ops, <1>3, <2>1, <2>2, <2>3, <3>1 DEF TypeOK
    <3>3. Follow'
      BY <3>1, <3>2, QuietFrame
    <3> QED BY <3>2, <3>3
  <2>5. CASE Add(w, u, p)
    <3>1. /\ Begin(w, "add", op, "enable") /\ UNCHANGED <<cache, settings>>
          /\ hash[u] = None /\ row' = [row EXCEPT ![u] = NewRow]
          /\ Cross(u, Settings \cap {"enabled"}, {})
      BY <2>5 DEF Add, op
    <3>2. /\ TypeOK' /\ CallersOK' /\ NoRowNoSettings'
          /\ \A v \in Workers : v # w => wpc'[v] = wpc[v] /\ wop'[v] = wop[v]
          /\ wpc[w] = "idle" /\ wpc'[w] = "enable" /\ wop'[w] = op
      BY <1>ops, <1>3, <2>1, <2>2, <2>3, <3>1, RowsTyped DEF TypeOK
    <3>3. row'[u] = NewRow /\ row[u] = NoSettings /\ \A v \in Users : v # u => row'[v] = row[v]
      BY <3>1 DEF TypeOK, NoRowNoSettings
    <3>4. \A v \in Users, s \in Settings :
             v # u \/ s \notin Settings \cap {"enabled"} => row'[v][s] = row[v][s]
      BY <3>3 DEF NewRow, NoSettings
    <3>5. \A s \in Settings : /\ Pending(w, u, s)' <=> s = "enabled"
                              /\ Pending(w, u, s)' => WillWrite(w)' = row'[u][s]
      BY <2>1, <3>2, <3>3 DEF Pending, WillWrite, NewRow
    <3>6. Follow'
      BY <2>1, <3>1, <3>2, <3>4, <3>5, StatementFollows
    <3> QED BY <3>2, <3>6
  <2> QED BY <1>4, <2>4, <2>5
<1>5. ASSUME NEW w \in Workers, NEW u \in Users, Delete(w, u)
      PROVE  IndInv'
  <2> DEFINE op == [NoOp EXCEPT !.user = u]
             left == {s \in Settings \cap {"until"} : settings[u][s] # None}
  <2>1. op \in AnyCall /\ op.user = u
    BY DEF NoOp, AnyCall, Value
  <2> HIDE DEF op
  <2>2. /\ Begin(w, "delete", op, "purge") /\ UNCHANGED <<cache, settings>>
        /\ hash' = [hash EXCEPT ![u] = None] /\ row' = [row EXCEPT ![u] = NoSettings]
        /\ Cross(u, Settings, left)
    BY <1>5 DEF Delete, op
  <2>3. /\ TypeOK' /\ CallersOK' /\ NoRowNoSettings'
        /\ \A v \in Workers : v # w => wpc'[v] = wpc[v] /\ wop'[v] = wop[v]
        /\ wpc[w] = "idle" /\ wpc'[w] = "purge" /\ wop'[w] = op
    BY <1>ops, <1>3, <2>1, <2>2, RowsTyped DEF TypeOK
  <2>4. \A s \in Settings : row'[u][s] = None
    BY <2>2 DEF TypeOK, NoSettings
  <2>5. \A s \in Settings : /\ Pending(w, u, s)' <=> s # "until"
                            /\ Pending(w, u, s)' => WillWrite(w)' = row'[u][s]
    BY <2>1, <2>3, <2>4 DEF Pending, WillWrite
  <2>6. \A s \in Settings : Pending(w, u, s)' \/ s \in left \/ settings[u][s] = row'[u][s]
    BY <2>4, <2>5
  <2>7. \A v \in Users, s \in Settings : v # u \/ s \notin Settings => row'[v][s] = row[v][s]
    BY <2>2 DEF TypeOK
  <2>8. left \in SUBSET Settings
    OBVIOUS
  <2> HIDE DEF left
  <2>9. Follow'
    BY <2>1, <2>2, <2>3, <2>5, <2>6, <2>7, <2>8, StatementFollows
  <2> QED BY <2>3, <2>9
<1>6. ASSUME NEW w \in Workers, NEW u \in Users, NEW s \in Settings, NEW v \in Value,
             SetRow(w, u, s, v)
      PROVE  IndInv'
  <2> DEFINE op == [NoOp EXCEPT !.user = u, !.setting = s, !.value = v]
  <2>1. op \in AnyCall /\ op.user = u /\ op.setting = s /\ op.value = v
    BY DEF NoOp, AnyCall
  <2> HIDE DEF op
  <2>2. /\ Begin(w, "set", op, "store") /\ UNCHANGED <<hash, cache, settings>>
        /\ hash[u] # None /\ row' = [row EXCEPT ![u][s] = v] /\ Cross(u, {s}, {})
    BY <1>6 DEF SetRow, op
  <2>3. /\ row' \in [Users -> [Settings -> Value]] /\ row'[u][s] = v
        /\ \A x \in Users, t \in Settings : x # u \/ t # s => row'[x][t] = row[x][t]
        /\ \A x \in Users : x # u => row'[x] = row[x]
    BY <2>2 DEF TypeOK
  <2>4. /\ TypeOK' /\ CallersOK' /\ NoRowNoSettings'
        /\ \A x \in Workers : x # w => wpc'[x] = wpc[x] /\ wop'[x] = wop[x]
        /\ wpc[w] = "idle" /\ wpc'[w] = "store" /\ wop'[w] = op
    BY <1>ops, <1>3, <2>1, <2>2, <2>3 DEF TypeOK
  <2>5. \A t \in Settings : /\ Pending(w, u, t)' <=> t = s
                            /\ Pending(w, u, t)' => WillWrite(w)' = row'[u][t]
    BY <2>1, <2>3, <2>4 DEF Pending, WillWrite
  <2>6. Follow'
    BY <2>1, <2>2, <2>3, <2>4, <2>5, StatementFollows
  <2> QED BY <2>4, <2>6
\* The critical section of a call under way.
<1>7. ASSUME NEW w \in Workers, EnableNew(w) \/ PurgeCaches(w) \/ StoreSetting(w)
      PROVE  IndInv'
  <2> DEFINE u == wop[w].user
  <2>1. u \in Users /\ wop[w].value \in Value /\ Finish(w) /\ UNCHANGED <<hash, row, crossed>>
    BY <1>7 DEF EnableNew, PurgeCaches, StoreSetting, CallersOK, TypeOK, history
  <2>2. settings[u] \in [Settings -> Value] /\ "on" \in Value /\ None \in Value
    BY <2>1 DEF TypeOK, Value
  <2>3. /\ settings' \in [Users -> [Settings -> Value]]
        /\ \A x \in Users, s \in Settings :
              settings'[x][s] = IF Pending(w, x, s) THEN WillWrite(w) ELSE settings[x][s]
    <3>1. CASE EnableNew(w)
      BY <2>1, <2>2, <3>1 DEF EnableNew, Pending, WillWrite, TypeOK
    <3>2. CASE PurgeCaches(w)
      BY <2>1, <2>2, <3>2 DEF PurgeCaches, Pending, WillWrite, TypeOK
    <3>3. CASE StoreSetting(w)
      BY <2>1, <2>2, <3>3 DEF StoreSetting, Pending, WillWrite, TypeOK
    <3> QED BY <1>7, <3>1, <3>2, <3>3
  <2>4. cache' \in [Users -> [pw : Passwords, left : 0..TTL] \cup {None}]
    BY <1>7, <2>1 DEF EnableNew, PurgeCaches, StoreSetting, TypeOK
  <2>5. /\ wpc'[w] = "idle"
        /\ \A v \in Workers : v # w => wpc'[v] = wpc[v] /\ wop'[v] = wop[v]
    BY <2>1 DEF Finish, TypeOK
  <2>6. TypeOK'
    BY <1>hist, <2>1, <2>3, <2>4, StepTyped DEF TypeOK, WorkersTyped, AnyCall
  <2>7. CallersOK'
    BY <2>5 DEF CallersOK
  <2>8. Follow'
    BY <2>1, <2>3, <2>5, MapsFollow
  <2> QED BY <2>1, <2>6, <2>7, <2>8 DEF NoRowNoSettings
<1>8. CASE Tick
  <2>1. ASSUME NEW u \in Users
        PROVE  cache'[u] \in [pw : Passwords, left : 0..TTL] \cup {None}
    <3>1. cache'[u] = IF Fresh(u) THEN [cache[u] EXCEPT !.left = @ - 1] ELSE cache[u]
      BY <1>8 DEF Tick
    <3>2. CASE Fresh(u)
      <4>1. PICK q \in Passwords, n \in 0..TTL : cache[u] = [pw |-> q, left |-> n]
        BY <3>2 DEF Fresh, TypeOK
      <4>2. cache'[u] = [pw |-> q, left |-> n - 1] /\ n > 0
        BY <3>1, <3>2, <4>1 DEF Fresh
      <4> QED BY <4>2
    <3> QED BY <3>1, <3>2 DEF TypeOK
  <2>2. cache' = [u \in Users |-> cache'[u]]
    BY <1>8 DEF Tick
  <2>3. TypeOK'
    BY <1>8, <1>hist, <2>1, <2>2 DEF Tick, TypeOK
  <2> QED BY <1>8, <2>3 DEF Tick, CallersOK, NoRowNoSettings, FollowsRow, Pending, WillWrite, history
<1>9. CASE Restart
  <2>1. TypeOK'
    BY <1>9, <1>hist, NoOpTyped DEF Restart, TypeOK, AnyCall
  <2>2. Follow'
    BY <1>9 DEF Restart, FollowsRow, Pending
  <2> QED BY <1>9, <2>1, <2>2 DEF Restart, CallersOK, NoRowNoSettings
<1>10. CASE UNCHANGED vars
  BY <1>10 DEF vars, TypeOK, CallersOK, NoRowNoSettings, FollowsRow, Pending, WillWrite
<1> QED
  BY <1>1, <1>2, <1>4, <1>5, <1>6, <1>7, <1>8, <1>9, <1>10 DEF Next, Call, Continue

\* Open has just loaded the table.
LEMMA InitInv == Init => IndInv
<1> SUFFICES ASSUME Init PROVE IndInv
  OBVIOUS
<1> USE UserDBAssumption DEF Init
<1>1. TypeOK
  <2>1. hash \in [Users -> Hash \cup {None}]
    BY DEF Hash
  <2>2. chosen \in [Users -> Passwords \cup {None}]
    BY <2>1 DEF Stored, Hash
  <2> QED BY <2>1, <2>2, NoOpTyped, RowsTyped DEF TypeOK, AnyCall
<1>2. \A u \in Users, s \in Settings : FollowsRow(u, s)
  BY DEF FollowsRow, Pending
<1> QED BY <1>1, <1>2 DEF IndInv, CallersOK, NoRowNoSettings

\* For any number of admin requests at once, and whatever proxy requests, crashes and
\* restarts do in between: a setting cache that no method has still to write says what
\* the table says, unless another statement about that setting of that user fell between
\* a method's statement and its write, or a deletion left the end of a downtime behind.
THEOREM SettingsAlwaysMatch == Spec => [](TypeOK /\ SettingsMatchRows)
<1>1. IndInv /\ [Next]_vars => IndInv'
  BY NextInv
<1>2. IndInv => SettingsMatchRows
  BY DEF IndInv, FollowsRow, SettingsMatchRows
<1> QED BY <1>1, <1>2, InitInv, PTL DEF Spec, IndInv

-----------------------------------------------------------------------------
(* Passwords: with any number of admin requests at once.                   *)

\* The types that the passwords need.
PasswordsTyped ==
    /\ hash \in [Users -> Hash \cup {None}]
    /\ cache \in [Users -> [pw : Passwords, left : 0..TTL] \cup {None}]
    /\ WorkersTyped
    /\ chosen \in [Users -> Passwords \cup {None}] /\ raced \subseteq Users

\* Unless it was raced, a change is in the table; a fresh entry is older only until
\* the cache is purged; and what a Check has verified and will store is the new password.
InEffect(u) ==
    \/ u \in raced
    \/ /\ Stored(u) = chosen[u]
       /\ Fresh(u) => Forgetting(u) \/ cache[u].pw = chosen[u]
       /\ \A w \in Workers :
            wop[w].user = u /\ wpc[w] \in {"rehash", "populate"} => wop[w].pw = chosen[u]

\* The inductive invariant.
EffectInv == PasswordsTyped /\ CallersOK /\ \A u \in Users : InEffect(u)

\* Nothing a step does to one user's passwords is about another's.
LEMMA OthersInEffect ==
    ASSUME NEW u \in Users, InEffect(u),
           hash'[u] = hash[u], cache'[u] = cache[u], chosen'[u] = chosen[u],
           u \in raced => u \in raced',
           \A v \in Workers : wpc[v] \in {"forget", "purge"} /\ wop[v].user = u
                                => wpc'[v] = wpc[v] /\ wop'[v] = wop[v],
           \A v \in Workers : wpc'[v] \in {"rehash", "populate"} /\ wop'[v].user = u
                                => wpc[v] \in {"rehash", "populate"} /\ wop'[v] = wop[v]
    PROVE  InEffect(u)'
<1>1. Stored(u)' = Stored(u) /\ (Fresh(u)' <=> Fresh(u)) /\ (Forgetting(u) => Forgetting(u)')
  BY DEF Stored, Fresh, Forgetting
<1> QED BY <1>1 DEF InEffect

\* Every step keeps the invariant.
LEMMA NextEffect ==
    ASSUME EffectInv, [Next]_vars
    PROVE  EffectInv'
<1> USE UserDBAssumption DEF EffectInv
<1> DEFINE Hist == chosen' \in [Users -> Passwords \cup {None}] /\ raced' \subseteq Users
           Cached == [pw : Passwords, left : 0..TTL] \cup {None}
\* A call begins.
<1>1. ASSUME NEW w \in Workers, NEW u \in Users, NEW o \in AllOps, NEW op \in AnyCall, op.user = u,
             NEW l \in {"select", "forget", "enable", "purge", "store"}, Begin(w, o, op, l),
             l = "select" => op.pw \in Passwords
      PROVE  /\ WorkersTyped' /\ CallersOK'
             /\ \A v \in Workers : v # w => wpc'[v] = wpc[v] /\ wop'[v] = wop[v]
             /\ wpc[w] = "idle" /\ wpc'[w] = l /\ wop'[w] = op
  <2>1. WorkersTyped'
    BY <1>1 DEF PasswordsTyped, WorkersTyped, AnyCall, Begin
  <2>2. /\ \A v \in Workers : v # w => wpc'[v] = wpc[v] /\ wop'[v] = wop[v]
        /\ wpc[w] = "idle" /\ wpc'[w] = l /\ wop'[w] = op
    BY <1>1 DEF Begin, PasswordsTyped, WorkersTyped
  <2>3. CallersOK'
    BY <1>1, <2>2 DEF CallersOK
  <2> QED BY <2>1, <2>2, <2>3
\* A call goes on or ends.
<1>2. ASSUME NEW w \in Workers, Finish(w) \/ \E l \in {"rehash", "populate"} : Goto(w, l),
             wpc[w] # "idle", Finish(w) \/ wop[w].pw \in Passwords
      PROVE  /\ WorkersTyped' /\ CallersOK'
             /\ \A v \in Workers : v # w => wpc'[v] = wpc[v] /\ wop'[v] = wop[v]
  <2>1. WorkersTyped'
    BY <1>2, NoOpTyped DEF PasswordsTyped, WorkersTyped, AnyCall, Finish, Goto
  <2>2. \A v \in Workers : v # w => wpc'[v] = wpc[v] /\ wop'[v] = wop[v]
    BY <1>2 DEF Finish, Goto, PasswordsTyped, WorkersTyped
  <2>3. wpc'[w] = "idle" \/ (wop'[w] = wop[w] /\ wop[w].pw \in Passwords)
    BY <1>2 DEF Finish, Goto, PasswordsTyped, WorkersTyped
  <2>4. CallersOK'
    BY <1>2, <2>2, <2>3 DEF CallersOK
  <2> QED BY <2>1, <2>2, <2>4
<1>3. {"check", "password", "add", "delete", "set"} \subseteq AllOps
  BY DEF AllOps
\* An admin gives a user a password: it is in the table, and either the cache has no
\* older one or the method will drop it.
<1>4. ASSUME NEW w \in Workers, NEW u \in Users, NEW p \in Passwords \cup {None}, NEW o \in AllOps,
             NEW l \in {"forget", "enable", "purge"}, Begin(w, o, [NoOp EXCEPT !.user = u], l),
             NEW before \in SUBSET Users, Choose(u, p, before), \A x \in Users : x # u => (x \in raced => x \in before),
             l = "enable" => u \in before \/ ~Fresh(u) \/ Forgetting(u),
             NEW h \in Hash \cup {None}, hash' = [hash EXCEPT ![u] = h],
             p = IF h = None THEN None ELSE h.pw, UNCHANGED cache
      PROVE  EffectInv'
  <2> DEFINE op == [NoOp EXCEPT !.user = u]
  <2>1. op \in AnyCall /\ op.user = u
    BY DEF NoOp, AnyCall, Value
  <2> HIDE DEF op
  <2>2. /\ WorkersTyped' /\ CallersOK'
        /\ \A v \in Workers : v # w => wpc'[v] = wpc[v] /\ wop'[v] = wop[v]
        /\ wpc[w] = "idle" /\ wpc'[w] = l /\ wop'[w] = op
    <3>1. Begin(w, o, op, l)
      BY <1>4 DEF op
    <3> QED BY <1>1, <1>4, <2>1, <3>1
  <2>3. chosen' = [chosen EXCEPT ![u] = p] /\ raced' = IF Verified(u) THEN before \cup {u} ELSE before
    BY <1>4 DEF Choose
  <2>4. PasswordsTyped'
    BY <1>4, <2>2, <2>3 DEF PasswordsTyped
  <2>5. ASSUME NEW x \in Users, x # u
        PROVE  InEffect(x)'
    <3>1. hash'[x] = hash[x] /\ cache'[x] = cache[x] /\ chosen'[x] = chosen[x]
      BY <1>4, <2>3, <2>5 DEF PasswordsTyped
    <3>2. x \in raced => x \in raced'
      BY <1>4, <2>3, <2>5
    <3> QED BY <2>1, <2>2, <3>1, <3>2, OthersInEffect
  <2>6. InEffect(u)'
    <3>1. CASE u \in raced'
      BY <3>1 DEF InEffect
    <3>2. CASE u \notin raced'
      <4>1. ~Verified(u) /\ u \notin before
        BY <2>3, <3>2
      <4>2. Stored(u)' = p /\ chosen'[u] = p
        BY <1>4, <2>3 DEF PasswordsTyped, Stored
      <4>3. \A v \in Workers : ~(wop'[v].user = u /\ wpc'[v] \in {"rehash", "populate"})
        BY <2>2, <4>1 DEF Verified
      <4>4. Fresh(u)' <=> Fresh(u)
        BY <1>4 DEF Fresh
      <4>5. l # "enable" => Forgetting(u)'
        BY <2>1, <2>2 DEF Forgetting
      <4>6. Forgetting(u) => Forgetting(u)'
        BY <2>2 DEF Forgetting
      <4> QED BY <1>4, <4>1, <4>2, <4>3, <4>4, <4>5, <4>6 DEF InEffect
    <3> QED BY <3>1, <3>2
  <2> QED BY <2>2, <2>4, <2>5, <2>6
<1>5. ASSUME NEW w \in Workers, NEW u \in Users, NEW p \in Passwords,
             ChangePassword(w, u, p) \/ Add(w, u, p)
      PROVE  EffectInv'
  <2> DEFINE h == [pw |-> p, old |-> FALSE]
  <2>1. h \in Hash /\ h.pw = p /\ h # None
    <3>1. h \in Hash /\ h.pw = p
      BY DEF Hash
    <3> QED BY <3>1
  <2> HIDE DEF h
  <2>2. CASE ChangePassword(w, u, p)
    <3>1. /\ Begin(w, "password", [NoOp EXCEPT !.user = u], "forget") /\ Choose(u, p, raced \ {u})
          /\ hash' = [hash EXCEPT ![u] = h] /\ UNCHANGED cache
      BY <2>2 DEF ChangePassword, h
    <3>2. raced \ {u} \in SUBSET Users
      BY DEF PasswordsTyped
    <3> QED BY <1>3, <1>4, <2>1, <3>1, <3>2
  <2>3. CASE Add(w, u, p)
    <3>1. /\ Begin(w, "add", [NoOp EXCEPT !.user = u], "enable") /\ Choose(u, p, raced)
          /\ hash' = [hash EXCEPT ![u] = h] /\ UNCHANGED cache /\ hash[u] = None
      BY <2>3 DEF Add, h
    <3>2. u \in raced \/ ~Fresh(u) \/ Forgetting(u)
      <4>1. Fresh(u) => cache[u].pw # None
        BY DEF Fresh, PasswordsTyped
      <4>2. Stored(u) = None
        BY <3>1 DEF Stored
      <4> QED BY <4>1, <4>2 DEF InEffect
    <3>3. raced \in SUBSET Users
      BY DEF PasswordsTyped
    <3> QED BY <1>3, <1>4, <2>1, <3>1, <3>2, <3>3
  <2> QED BY <1>5, <2>2, <2>3
<1>6. ASSUME NEW w \in Workers, NEW u \in Users, Delete(w, u)
      PROVE  EffectInv'
  <2>1. /\ Begin(w, "delete", [NoOp EXCEPT !.user = u], "purge") /\ Choose(u, None, raced \ {u})
        /\ hash' = [hash EXCEPT ![u] = None] /\ UNCHANGED cache
    BY <1>6 DEF Delete
  <2>2. raced \ {u} \in SUBSET Users
    BY DEF PasswordsTyped
  <2> QED BY <1>3, <1>4, <2>1, <2>2
\* A look-up that misses, or a setting.
<1>7. ASSUME NEW w \in Workers, NEW u \in Users, NEW o \in AllOps, NEW op \in AnyCall, op.user = u,
             NEW l \in {"select", "store"}, Begin(w, o, op, l), l = "select" => op.pw \in Passwords,
             UNCHANGED <<hash, cache, chosen, raced>>
      PROVE  EffectInv'
  <2>1. /\ WorkersTyped' /\ CallersOK'
        /\ \A v \in Workers : v # w => wpc'[v] = wpc[v] /\ wop'[v] = wop[v]
        /\ wpc[w] = "idle" /\ wpc'[w] = l /\ wop'[w] = op
    BY <1>1, <1>7
  <2>2. PasswordsTyped'
    BY <1>7, <2>1 DEF PasswordsTyped
  <2>3. \A x \in Users : InEffect(x)'
    BY <1>7, <2>1, OthersInEffect
  <2> QED BY <2>1, <2>2, <2>3
<1>8. ASSUME NEW w \in Workers, NEW u \in Users, NEW p \in Passwords, Lookup(w, u, p)
      PROVE  EffectInv'
  <2> DEFINE op == [NoOp EXCEPT !.user = u, !.pw = p]
  <2>1. op \in AnyCall /\ op.user = u /\ op.pw = p
    BY DEF NoOp, AnyCall, Value
  <2> HIDE DEF op
  <2>2. Begin(w, "check", op, "select") /\ UNCHANGED <<hash, cache, chosen, raced>>
    BY <1>8 DEF Lookup, op, history
  <2> QED BY <1>3, <1>7, <2>1, <2>2
<1>9. ASSUME NEW w \in Workers, NEW u \in Users, NEW s \in Settings, NEW v \in Value, SetRow(w, u, s, v)
      PROVE  EffectInv'
  <2> DEFINE op == [NoOp EXCEPT !.user = u, !.setting = s, !.value = v]
  <2>1. op \in AnyCall /\ op.user = u
    BY DEF NoOp, AnyCall
  <2> HIDE DEF op
  <2>2. Begin(w, "set", op, "store") /\ UNCHANGED <<hash, cache, chosen, raced>>
    BY <1>9 DEF SetRow, op
  <2> QED BY <1>3, <1>7, <2>1, <2>2
<1>10. ASSUME NEW w \in Workers, SelectHash(w)
       PROVE  EffectInv'
  <2>1. PICK u \in Users : wop[w].user = u /\ wop[w].pw \in Passwords
    BY <1>10 DEF SelectHash, CallersOK
  <2>2. UNCHANGED <<hash, cache, history>>
    BY <1>10 DEF SelectHash
  <2>3. /\ WorkersTyped' /\ CallersOK'
        /\ \A v \in Workers : v # w => wpc'[v] = wpc[v] /\ wop'[v] = wop[v]
    BY <1>2, <1>10, <2>1 DEF SelectHash
  <2>4. PasswordsTyped'
    BY <2>2, <2>3 DEF PasswordsTyped, history
  <2>5. wpc[w] = "select" /\ (wpc'[w] = "idle" \/ (wop'[w] = wop[w] /\ hash[u] # None /\ hash[u].pw = wop[w].pw))
    BY <1>10, <2>1 DEF SelectHash, Finish, Goto, PasswordsTyped, WorkersTyped
  <2>6. ASSUME NEW x \in Users, x # u \/ wpc'[w] = "idle"
        PROVE  InEffect(x)'
    BY <2>1, <2>2, <2>3, <2>5, <2>6, OthersInEffect DEF history
  <2>7. CASE wpc'[w] # "idle"
    <3>1. Stored(u) = wop[w].pw
      BY <2>5, <2>7 DEF Stored
    <3>2. Stored(u)' = Stored(u) /\ (Fresh(u)' <=> Fresh(u)) /\ (Forgetting(u) => Forgetting(u)')
      BY <2>2, <2>3, <2>5 DEF Stored, Fresh, Forgetting
    <3>3. InEffect(u)
      BY <2>1
    <3>4. InEffect(u)'
      BY <2>1, <2>2, <2>3, <2>5, <2>7, <3>1, <3>2, <3>3 DEF InEffect, history
    <3> QED BY <2>3, <2>4, <2>6, <3>4
  <2> QED BY <2>3, <2>4, <2>6, <2>7
<1>11. ASSUME NEW w \in Workers, Rehash(w)
       PROVE  EffectInv'
  <2>1. PICK u \in Users, q \in Passwords : wop[w].user = u /\ wop[w].pw = q /\ wpc[w] = "rehash"
    BY <1>11 DEF Rehash, CallersOK
  <2> DEFINE h == [pw |-> q, old |-> FALSE]
  <2>2. UNCHANGED <<cache, history>>
    BY <1>11 DEF Rehash
  <2>3. /\ WorkersTyped' /\ CallersOK'
        /\ \A v \in Workers : v # w => wpc'[v] = wpc[v] /\ wop'[v] = wop[v]
    BY <1>2, <1>11, <2>1 DEF Rehash
  <2>4. wpc'[w] = "populate" /\ wop'[w] = wop[w]
    BY <1>11 DEF Rehash, Goto, PasswordsTyped, WorkersTyped
  <2>5. h \in Hash /\ h.pw = q
    BY DEF Hash
  <2>6. hash' = hash \/ (hash[u] # None /\ hash' = [hash EXCEPT ![u] = h])
    BY <1>11, <2>1 DEF Rehash
  <2> HIDE DEF h
  <2>7. PasswordsTyped'
    BY <2>1, <2>2, <2>3, <2>5, <2>6 DEF PasswordsTyped, history
  <2>8. ASSUME NEW x \in Users, x # u
        PROVE  InEffect(x)'
    <3>1. hash'[x] = hash[x]
      BY <2>6, <2>8 DEF PasswordsTyped
    <3> QED BY <2>1, <2>2, <2>3, <2>4, <2>8, <3>1, OthersInEffect DEF history
  <2>9. InEffect(u)'
    <3>1. Stored(u)' \in {Stored(u), q}
      <4>1. h # None
        BY <2>5
      <4> QED BY <2>5, <2>6, <4>1 DEF Stored, PasswordsTyped
    <3>2. (Fresh(u)' <=> Fresh(u)) /\ (Forgetting(u) => Forgetting(u)')
      BY <2>1, <2>2, <2>3, <2>4 DEF Fresh, Forgetting
    <3>3. InEffect(u)
      BY <2>1
    <3> QED BY <2>1, <2>2, <2>3, <2>4, <3>1, <3>2, <3>3 DEF InEffect, history
  <2> QED BY <2>3, <2>7, <2>8, <2>9
\* The cache gets the password a Check verified, or loses its entry.
<1>12. ASSUME NEW w \in Workers, NEW e \in Cached, Finish(w), wpc[w] # "idle",
              cache' = [cache EXCEPT ![wop[w].user] = e], UNCHANGED <<hash, history>>,
              e = None \/ (wpc[w] = "populate" /\ e.pw = wop[w].pw)
       PROVE  EffectInv'
  <2>1. PICK u \in Users : wop[w].user = u
    BY <1>12 DEF CallersOK
  <2>2. /\ WorkersTyped' /\ CallersOK'
        /\ \A v \in Workers : v # w => wpc'[v] = wpc[v] /\ wop'[v] = wop[v]
    BY <1>2, <1>12
  <2>3. wpc'[w] = "idle"
    BY <1>12 DEF Finish, PasswordsTyped, WorkersTyped
  <2>4. PasswordsTyped'
    BY <1>12, <2>1, <2>2 DEF PasswordsTyped, history
  <2>5. ASSUME NEW x \in Users, x # u
        PROVE  InEffect(x)'
    <3>1. cache'[x] = cache[x]
      BY <1>12, <2>1, <2>5 DEF PasswordsTyped
    <3> QED BY <1>12, <2>1, <2>2, <2>3, <2>5, <3>1, OthersInEffect DEF history
  <2>6. InEffect(u)'
    <3>1. cache'[u] = e /\ Stored(u)' = Stored(u)
      BY <1>12, <2>1 DEF PasswordsTyped, Stored
    <3>2. InEffect(u)
      BY <2>1
    <3>3. Fresh(u)' => e # None
      BY <3>1 DEF Fresh
    <3> QED BY <1>12, <2>1, <2>2, <2>3, <3>1, <3>2, <3>3 DEF InEffect, history
  <2> QED BY <2>2, <2>4, <2>5, <2>6
<1>13. ASSUME NEW w \in Workers, Populate(w) \/ ForgetPassword(w) \/ PurgeCaches(w)
       PROVE  EffectInv'
  <2>1. CASE Populate(w)
    <3> DEFINE e == [pw |-> wop[w].pw, left |-> TTL]
    <3>1. wop[w].pw \in Passwords
      BY <2>1 DEF Populate, CallersOK
    <3>2. e \in Cached /\ e.pw = wop[w].pw
      BY <3>1
    <3>3. /\ Finish(w) /\ wpc[w] = "populate" /\ UNCHANGED <<hash, history>>
          /\ cache' = [cache EXCEPT ![wop[w].user] = e]
      BY <2>1 DEF Populate
    <3> HIDE DEF e
    <3> QED BY <1>12, <3>2, <3>3
  <2>2. CASE ForgetPassword(w) \/ PurgeCaches(w)
    BY <1>12, <2>2 DEF ForgetPassword, PurgeCaches
  <2> QED BY <1>13, <2>1, <2>2
<1>14. ASSUME NEW w \in Workers, EnableNew(w) \/ StoreSetting(w)
       PROVE  EffectInv'
  <2>1. Finish(w) /\ wpc[w] \in {"enable", "store"} /\ UNCHANGED <<hash, cache, history>>
    BY <1>14 DEF EnableNew, StoreSetting
  <2>2. /\ WorkersTyped' /\ CallersOK'
        /\ \A v \in Workers : v # w => wpc'[v] = wpc[v] /\ wop'[v] = wop[v]
    BY <1>2, <2>1
  <2>3. wpc'[w] = "idle"
    BY <2>1 DEF Finish, PasswordsTyped, WorkersTyped
  <2>4. PasswordsTyped'
    BY <2>1, <2>2 DEF PasswordsTyped, history
  <2>5. \A x \in Users : InEffect(x)'
    BY <2>1, <2>2, <2>3, OthersInEffect DEF history
  <2> QED BY <2>2, <2>4, <2>5
<1>15. CASE Tick
  <2>1. UNCHANGED <<hash, wpc, wop, history>>
    BY <1>15 DEF Tick
  <2>2. ASSUME NEW u \in Users
        PROVE  /\ cache'[u] \in Cached
               /\ Fresh(u)' => Fresh(u) /\ cache'[u].pw = cache[u].pw
    <3>1. cache'[u] = IF Fresh(u) THEN [cache[u] EXCEPT !.left = @ - 1] ELSE cache[u]
      BY <1>15 DEF Tick
    <3>2. CASE Fresh(u)
      <4>1. PICK q \in Passwords, n \in 0..TTL : cache[u] = [pw |-> q, left |-> n]
        BY <3>2 DEF Fresh, PasswordsTyped
      <4>2. cache'[u] = [pw |-> q, left |-> n - 1] /\ n > 0
        BY <3>1, <3>2, <4>1 DEF Fresh
      <4> QED BY <3>2, <4>1, <4>2
    <3>3. CASE ~Fresh(u)
      BY <3>1, <3>3 DEF PasswordsTyped, Fresh
    <3> QED BY <3>2, <3>3
  <2>3. cache' = [u \in Users |-> cache'[u]]
    BY <1>15 DEF Tick
  <2>4. PasswordsTyped' /\ CallersOK'
    BY <2>1, <2>2, <2>3 DEF PasswordsTyped, WorkersTyped, CallersOK, history
  <2>5. ASSUME NEW u \in Users
        PROVE  InEffect(u)'
    <3>1. Stored(u)' = Stored(u) /\ Forgetting(u)' = Forgetting(u)
      BY <2>1 DEF Stored, Forgetting
    <3> QED BY <2>1, <2>2, <3>1 DEF InEffect, history
  <2> QED BY <2>4, <2>5
<1>16. CASE Restart
  <2>1. PasswordsTyped' /\ CallersOK'
    BY <1>16, NoOpTyped DEF Restart, PasswordsTyped, WorkersTyped, CallersOK, history
  <2>2. ASSUME NEW u \in Users
        PROVE  InEffect(u)'
    <3>1. Stored(u)' = Stored(u) /\ ~Fresh(u)'
      BY <1>16 DEF Restart, Stored, Fresh
    <3> QED BY <1>16, <3>1 DEF Restart, InEffect, history
  <2> QED BY <2>1, <2>2
<1>17. CASE UNCHANGED vars
  <2>1. PasswordsTyped' /\ CallersOK'
    BY <1>17 DEF vars, PasswordsTyped, WorkersTyped, CallersOK
  <2>2. \A u \in Users : InEffect(u)'
    BY <1>17, OthersInEffect DEF vars
  <2> QED BY <2>1, <2>2
<1> QED
  BY <1>5, <1>6, <1>8, <1>9, <1>10, <1>11, <1>13, <1>14, <1>15, <1>16, <1>17 DEF Next, Call, Continue

\* A password that an admin changes, or takes away with the user, is gone when the
\* method is done: the table keeps the choice and the cache accepts nothing else, with
\* any number of admin requests and Checks at once, migrations of old hashes and crashes
\* at any moment, for every cache lifetime.  Only a Check between verifying the old
\* password and storing it, at the moment of the change, can bring it back.
THEOREM ChangesTakeEffect == Spec => []ChangeTakesEffect
<1>1. Init => EffectInv
  <2> SUFFICES ASSUME Init PROVE EffectInv
    OBVIOUS
  <2>1. hash \in [Users -> Hash \cup {None}]
    BY UserDBAssumption DEF Init, Hash
  <2>2. chosen \in [Users -> Passwords \cup {None}]
    BY <2>1 DEF Init, Stored, Hash
  <2>3. PasswordsTyped /\ CallersOK
    BY <2>1, <2>2, NoOpTyped DEF Init, PasswordsTyped, WorkersTyped, CallersOK
  <2>4. \A u \in Users : InEffect(u)
    BY DEF Init, InEffect, Fresh
  <2> QED BY <2>3, <2>4 DEF EffectInv
<1>2. EffectInv /\ [Next]_vars => EffectInv'
  BY NextEffect
<1>3. EffectInv => ChangeTakesEffect
  BY DEF EffectInv, InEffect, ChangeTakesEffect, Accepted
<1> QED BY <1>1, <1>2, <1>3, PTL DEF Spec

-----------------------------------------------------------------------------
(* Schedules (DowntimeSchedule, the other half of the package): the code's *)
(* two look-ups, today's windows and yesterday's overnight ones, are the   *)
(* windows on the circle of the week.                                      *)

\* The remainder of what has gone round at most once.
LEMMA ModOnce ==
    ASSUME NEW n \in Nat \ {0}, NEW x \in 0..(2 * n - 1)
    PROVE  x % n = IF x < n THEN x ELSE x - n
OBVIOUS

\* A day's minutes come before the next day's.
LEMMA DayFits ==
    ASSUME NEW M \in Nat \ {0}, NEW a \in Nat, NEW b \in Nat, a < b
    PROVE  a * M + M <= b * M /\ a * M \in Nat /\ b * M \in Nat
<1>1. PICK c \in Nat : b = a + 1 + c
  <2>1. b - a - 1 \in Nat /\ b = a + 1 + (b - a - 1)
    OBVIOUS
  <2> QED BY <2>1
<1>2. b * M = a * M + M + c * M
  BY <1>1
<1>3. a * M \in Nat /\ b * M \in Nat /\ c * M \in Nat
  OBVIOUS
<1> QED BY <1>2, <1>3

\* A minute of the week has one day and one minute of it.
LEMMA DayAndMinute ==
    ASSUME NEW M \in Nat \ {0}, NEW a \in Nat, NEW b \in Nat,
           NEW r \in 0..(M - 1), NEW s \in 0..(M - 1)
    PROVE  a * M + r = b * M + s <=> a = b /\ r = s
<1>1. CASE a < b
  BY <1>1, DayFits
<1>2. CASE b < a
  BY <1>2, DayFits
<1>3. CASE a = b
  <2>1. a * M \in Nat
    OBVIOUS
  <2> QED BY <1>3, <2>1
<1> QED BY <1>1, <1>2, <1>3

\* Counting on from a day, past midnight and past the end of the week.
LEMMA WeekMod ==
    ASSUME NEW D \in Nat \ {0, 1}, NEW M \in Nat \ {0, 1},
           NEW d \in 0..(D - 1), NEW x \in 0..(2 * M - 1)
    PROVE  (d * M + x) % (D * M) = IF x < M THEN d * M + x ELSE ((d + 1) % D) * M + (x - M)
<1> DEFINE n == D * M
           y == d * M + x
<1>1. n \in Nat /\ d * M \in Nat /\ d * M + M <= n
  BY DayFits
<1> HIDE DEF n
<1>2. n \in Nat \ {0} /\ y \in 0..(2 * n - 1)
  BY <1>1
<1> HIDE DEF y
<1>3. y % n = IF y < n THEN y ELSE y - n
  BY <1>2, ModOnce
<1>4. CASE x < M
  <2>1. y < n
    BY <1>1, <1>4 DEF y
  <2> QED BY <1>3, <1>4, <2>1 DEF y, n
<1>5. CASE ~(x < M) /\ d + 1 < D
  <2>1. (d + 1) % D = d + 1 /\ (d + 1) * M = d * M + M
    BY <1>5
  <2>2. (d + 1) * M + M <= n
    BY <1>5, DayFits DEF n
  <2>3. y % n = y
    BY <1>1, <1>3, <2>1, <2>2 DEF y
  <2>4. ((d + 1) % D) * M + (x - M) = y
    BY <1>1, <2>1 DEF y
  <2> QED BY <1>5, <2>3, <2>4 DEF n, y
<1>6. CASE ~(x < M) /\ d + 1 = D
  <2>1. (d + 1) % D = 0 /\ n = d * M + M
    BY <1>6 DEF n
  <2>2. y % n = x - M
    BY <1>1, <1>3, <1>6, <2>1 DEF y
  <2> QED BY <1>6, <2>1, <2>2 DEF n, y
<1> QED BY <1>4, <1>5, <1>6

\* A span of the circle that begins on day a at minute b and ends before minute e,
\* on the next day if e is not later.
Span(D, M, a, b, e) == {(a * M + b + i) % (D * M) : i \in 0..(((e - b + M) % M) - 1)}

\* Held before that midnight, or after it.
Held(D, a, d, b, e, m) ==
    \/ a = d /\ b <= m /\ (b < e => m < e)
    \/ (a + 1) % D = d /\ b >= e /\ m < e

\* A span holds a minute exactly if it does so before or after its midnight.
LEMMA SpanHolds ==
    ASSUME NEW D \in Nat \ {0, 1}, NEW M \in Nat \ {0, 1}, NEW a \in 0..(D - 1), NEW d \in 0..(D - 1),
           NEW b \in 0..(M - 1), NEW e \in 0..(M - 1), NEW m \in 0..(M - 1), b # e
    PROVE  d * M + m \in Span(D, M, a, b, e) <=> Held(D, a, d, b, e, m)
<1> DEFINE z == e - b + M
           L == z % M
           next == (a + 1) % D
<1>1. z \in 0..(2 * M - 1)
  OBVIOUS
<1> HIDE DEF z
<1>2. L = IF z < M THEN z ELSE z - M
  BY <1>1, ModOnce
<1> HIDE DEF L
<1>3. L = IF b < e THEN e - b ELSE e - b + M
  BY <1>2 DEF z
<1>4. next \in 0..(D - 1)
  OBVIOUS
<1> HIDE DEF next
<1>5. ASSUME NEW i \in 0..(L - 1)
      PROVE  d * M + m = (a * M + b + i) % (D * M) <=>
               \/ b + i < M /\ d = a /\ m = b + i
               \/ b + i >= M /\ d = next /\ m = b + i - M
  <2> DEFINE x == b + i
  <2>1. x \in 0..(2 * M - 1)
    BY <1>3
  <2>2. a * M + b + i = a * M + x
    <3>1. a * M \in Nat
      OBVIOUS
    <3> QED BY <1>3, <3>1
  <2> HIDE DEF x
  <2>3. (a * M + x) % (D * M) = IF x < M THEN a * M + x ELSE next * M + (x - M)
    BY <2>1, WeekMod DEF next
  <2>4. CASE x < M
    <3>1. d * M + m = a * M + x <=> d = a /\ m = x
      <4>1. x \in 0..(M - 1) /\ M \in Nat \ {0}
        BY <2>1, <2>4
      <4> QED BY <4>1, DayAndMinute
    <3> QED BY <2>1, <2>2, <2>3, <2>4, <3>1 DEF x
  <2>5. CASE ~(x < M)
    <3>1. x - M \in 0..(M - 1) /\ M \in Nat \ {0}
      BY <2>1, <2>5
    <3>2. d * M + m = next * M + (x - M) <=> d = next /\ m = x - M
      BY <1>4, <3>1, DayAndMinute
    <3> QED BY <2>1, <2>2, <2>3, <2>5, <3>2 DEF x
  <2> QED BY <2>4, <2>5
<1> DEFINE Holds == \E i \in 0..(L - 1) : d * M + m = (a * M + b + i) % (D * M)
<1>6. Holds <=> \E i \in 0..(L - 1) : \/ b + i < M /\ d = a /\ m = b + i
                                      \/ b + i >= M /\ d = next /\ m = b + i - M
  BY <1>5
<1> DEFINE Where == \/ a = d /\ b <= m /\ (b < e => m < e)
                    \/ next = d /\ b >= e /\ m < e
<1>9. (d * M + m \in Span(D, M, a, b, e) <=> Holds) /\ (Held(D, a, d, b, e, m) <=> Where)
  BY DEF Span, Held, L, z, next
<1> HIDE DEF Holds, Where
<1>7. CASE b < e
  <2>1. \A i \in 0..(L - 1) : b + i < e /\ b + i >= b
    BY <1>3, <1>7
  <2>2. b <= m /\ m < e => m - b \in 0..(L - 1) /\ m = b + (m - b)
    BY <1>3, <1>7
  <2>3. Holds <=> a = d /\ b <= m /\ m < e
    BY <1>6, <2>1, <2>2
  <2>4. Holds <=> Where
    BY <1>7, <2>3 DEF Where
  <2> QED BY <1>9, <2>4
<1>8. CASE e < b
  <2>1. \A i \in 0..(L - 1) : b + i >= b /\ b + i < e + M
    BY <1>3, <1>8
  <2>2. b <= m => m - b \in 0..(L - 1) /\ m = b + (m - b)
    BY <1>3, <1>8
  <2>3. m < e => /\ m + M - b \in 0..(L - 1) /\ b + (m + M - b) >= M
                 /\ m = b + (m + M - b) - M
    BY <1>3, <1>8
  <2>4. Holds => (a = d /\ b <= m) \/ (next = d /\ m < e)
    BY <1>6, <2>1
  <2>5. (a = d /\ b <= m) => Holds
    BY <1>6, <2>2
  <2>6. (next = d /\ m < e) => Holds
    BY <1>6, <2>3
  <2>7. Where <=> (a = d /\ b <= m) \/ (next = d /\ m < e)
    BY <1>8 DEF Where
  <2>8. Holds <=> Where
    BY <2>4, <2>5, <2>6, <2>7
  <2> QED BY <1>9, <2>8
<1> QED BY <1>7, <1>8

\* A window covers a minute of the week exactly if it is that day's and the minute
\* lies in it, or the day before's, overnight, and the minute is of its morning.
LEMMA CoveredWhen ==
    ASSUME NEW k \in Key, NEW w \in Window,
           w.start # w.end, NEW d \in Days, NEW m \in Minutes
    PROVE  d * MinutesPerDay + m \in Covered(k, w) <=>
             \/ k.day = d /\ w.start <= m /\ (w.start < w.end => m < w.end)
             \/ (k.day + 1) % DaysPerWeek = d /\ w.start >= w.end /\ m < w.end
<1> DEFINE a == k.day
           b == w.start
           e == w.end
<1>1. /\ MinutesPerDay \in Nat \ {0, 1} /\ DaysPerWeek \in Nat \ {0, 1}
      /\ a \in 0..(DaysPerWeek - 1) /\ d \in 0..(DaysPerWeek - 1) /\ m \in 0..(MinutesPerDay - 1)
      /\ b \in 0..(MinutesPerDay - 1) /\ e \in 0..(MinutesPerDay - 1) /\ b # e
  BY ScheduleAssumption DEF Key, Window, Days, Minutes
<1>2. Covered(k, w) = Span(DaysPerWeek, MinutesPerDay, a, b, e)
  BY DEF Covered, Week, Length, Span
<1> HIDE DEF a, b, e
<1>3. d * MinutesPerDay + m \in Span(DaysPerWeek, MinutesPerDay, a, b, e)
        <=> Held(DaysPerWeek, a, d, b, e, m)
  BY <1>1, SpanHolds
<1> QED BY <1>2, <1>3, Zenon DEF a, b, e, Held

\* The day before, as the code computes it.
LEMMA Yesterday ==
    ASSUME NEW D \in Nat \ {0, 1}, NEW d \in 0..(D - 1), NEW e \in 0..(D - 1)
    PROVE  (e + 1) % D = d <=> e = (d + D - 1) % D
<1>1. (e + 1) % D = IF e + 1 < D THEN e + 1 ELSE e + 1 - D
  OBVIOUS
<1>2. (d + D - 1) % D = IF d = 0 THEN D - 1 ELSE d - 1
  OBVIOUS
<1> QED BY <1>1, <1>2

\* The clock and the windows have their types, and the schedule validates.
ScheduleOK ==
    /\ schedule \in [Key -> Seq(Window)]
    /\ ValidateSchedule(schedule)
    /\ day \in Days /\ minute \in Minutes

\* Only schedules that validate are stored, and the clock runs round.
LEMMA ScheduleKept == ScheduleSpec => []ScheduleOK
<1> USE ScheduleAssumption
<1>1. NoWindows \in [Key -> Seq(Window)]
  BY DEF NoWindows
<1>2. ScheduleInit => ScheduleOK
  <2>1. ValidateSchedule(NoWindows)
    BY DEF ValidateSchedule, checkOverlaps, NoWindows
  <2> QED BY <1>1, <2>1 DEF ScheduleInit, ScheduleOK, Days, Minutes
<1>3. ScheduleOK /\ [ScheduleNext]_scheduleVars => ScheduleOK'
  <2> SUFFICES ASSUME ScheduleOK, [ScheduleNext]_scheduleVars PROVE ScheduleOK'
    OBVIOUS
  <2>1. CASE ClockTick
    <3>1. minute' \in Minutes /\ day' \in Days
      BY <2>1 DEF ClockTick, ScheduleOK, Days, Minutes
    <3> QED BY <2>1, <3>1 DEF ClockTick, ScheduleOK
  <2>2. ASSUME NEW s \in Offers, UpdateDowntime(s) PROVE ScheduleOK'
    <3>1. s \in [Key -> Seq(Window)]
      <4> DEFINE Schedules == [Key -> Seq(Window)]
      <4>1. ASSUME NEW q \in Schedules, NEW k \in Key, NEW w \in Window
            PROVE  Adding(q, k, w) \in Schedules
        BY DEF Adding
      <4> HIDE DEF Schedules
      <4>2. OneWindow \subseteq Schedules
        BY <1>1, <4>1 DEF OneWindow, Schedules
      <4>3. s \in Schedules
        <5>1. CASE s = NoWindows
          BY <1>1, <5>1 DEF Schedules
        <5>2. CASE s \in OneWindow
          BY <4>2, <5>2
        <5>3. ASSUME NEW q \in OneWindow, NEW k \in Key, NEW w \in Window,
                     s = Adding(q, k, w)
              PROVE  s \in Schedules
          <6>1. q \in Schedules
            BY <4>2
          <6> QED BY <4>1, <5>3, <6>1
        <5> QED BY <5>1, <5>2, <5>3 DEF Offers
      <4> QED BY <4>3 DEF Schedules
    <3>2. ValidateSchedule(s)
      BY <2>2 DEF UpdateDowntime, Valid
    <3> QED BY <2>2, <3>1, <3>2 DEF UpdateDowntime, ScheduleOK
  <2>3. CASE UNCHANGED scheduleVars
    BY <2>3 DEF scheduleVars, ScheduleOK
  <2> QED BY <2>1, <2>2, <2>3 DEF ScheduleNext
<1> QED BY <1>2, <1>3, PTL DEF ScheduleSpec

\* Whatever its windows, as long as none is empty, a schedule blocks at exactly the
\* minutes they cover: today's windows and yesterday's overnight ones are enough.
LEMMA TwoLookups ==
    ASSUME Spellings = {TRUE}, ScheduleOK
    PROVE  BlockedExactly
<1> DEFINE now == day * MinutesPerDay + minute
           today == [day |-> day, plain |-> TRUE]
           before == (day + DaysPerWeek - 1) % DaysPerWeek
           yesterday == [day |-> before, plain |-> TRUE]
           Inside(w) == w.start <= minute /\ (w.start < w.end => minute < w.end)
           Morning(w) == w.start >= w.end /\ minute < w.end
<1>1. DaysPerWeek \in Nat \ {0, 1} /\ day \in 0..(DaysPerWeek - 1)
  BY ScheduleAssumption DEF ScheduleOK, Days
<1>2. before \in 0..(DaysPerWeek - 1)
  BY <1>1
<1>3. today \in Key /\ yesterday \in Key
  BY <1>1, <1>2 DEF Key, Days
<1>4. ASSUME NEW k \in Key
      PROVE  /\ k.day = day <=> k = today
             /\ (k.day + 1) % DaysPerWeek = day <=> k = yesterday
  <2>1. k = [day |-> k.day, plain |-> TRUE] /\ k.day \in 0..(DaysPerWeek - 1)
    BY DEF Key, Days
  <2>2. (k.day + 1) % DaysPerWeek = day <=> k.day = before
    BY <1>1, <2>1, Yesterday
  <2> HIDE DEF before
  <2> QED BY <2>1, <2>2
<1>5. ASSUME NEW k \in Key, NEW i \in DOMAIN schedule[k]
      PROVE  now \in Covered(k, schedule[k][i]) <=>
               \/ k = today /\ Inside(schedule[k][i])
               \/ k = yesterday /\ Morning(schedule[k][i])
  <2>1. schedule[k][i] \in Window /\ schedule[k][i].start # schedule[k][i].end
    BY DEF ScheduleOK, ValidateSchedule
  <2>2. now \in Covered(k, schedule[k][i]) <=>
           \/ k.day = day /\ Inside(schedule[k][i])
           \/ (k.day + 1) % DaysPerWeek = day /\ Morning(schedule[k][i])
    BY <2>1, CoveredWhen DEF ScheduleOK
  <2> QED BY <1>4, <2>2
<1> HIDE DEF now, Inside, Morning, today, yesterday
<1>6. (\E x \in Windows(schedule) : now \in CoveredBy(schedule, x)) <=>
        \E k \in Key : \E i \in DOMAIN schedule[k] : now \in Covered(k, schedule[k][i])
  <2>1. ASSUME NEW k \in Key, NEW i \in DOMAIN schedule[k]
        PROVE  /\ <<k, i>> \in Windows(schedule)
               /\ CoveredBy(schedule, <<k, i>>) = Covered(k, schedule[k][i])
    BY DEF Windows, CoveredBy
  <2>2. ASSUME NEW x \in Windows(schedule)
        PROVE  \E k \in Key : \E i \in DOMAIN schedule[k] : x = <<k, i>>
    BY DEF Windows
  <2>3. ASSUME NEW x \in Windows(schedule), now \in CoveredBy(schedule, x)
        PROVE  \E k \in Key : \E i \in DOMAIN schedule[k] : now \in Covered(k, schedule[k][i])
    <3>1. PICK k \in Key : \E i \in DOMAIN schedule[k] : x = <<k, i>>
      BY <2>2
    <3>2. PICK i \in DOMAIN schedule[k] : x = <<k, i>>
      BY <3>1
    <3>3. CoveredBy(schedule, <<k, i>>) = Covered(k, schedule[k][i])
      BY <2>1
    <3>4. now \in Covered(k, schedule[k][i])
      BY <2>3, <3>2, <3>3
    <3> QED BY <3>4
  <2>4. ASSUME NEW k \in Key, NEW i \in DOMAIN schedule[k], now \in Covered(k, schedule[k][i])
        PROVE  \E x \in Windows(schedule) : now \in CoveredBy(schedule, x)
    <3>1. <<k, i>> \in Windows(schedule) /\ now \in CoveredBy(schedule, <<k, i>>)
      BY <2>1, <2>4
    <3> QED BY <3>1
  <2> QED BY <2>3, <2>4
<1>7. (\E k \in Key : \E i \in DOMAIN schedule[k] : now \in Covered(k, schedule[k][i]))
        <=> \/ \E i \in DOMAIN schedule[today] : Inside(schedule[today][i])
            \/ \E i \in DOMAIN schedule[yesterday] : Morning(schedule[yesterday][i])
  BY <1>3, <1>5
<1>8. isInDowntime(schedule, day, minute)
        <=> \/ \E i \in DOMAIN schedule[today] : Inside(schedule[today][i])
            \/ \E i \in DOMAIN schedule[yesterday] : Morning(schedule[yesterday][i])
  BY DEF isInDowntime, today, yesterday, Inside, Morning
<1> QED BY <1>6, <1>7, <1>8 DEF BlockedExactly, now

\* For any number of days and of minutes in a day, and day keys spelled plainly, a
\* user is blocked at exactly the minutes that an accepted window covers, around
\* midnight and around the end of the week too (isInDowntime, ValidateSchedule).
THEOREM BlockedInWindows ==
    ASSUME Spellings = {TRUE}
    PROVE  ScheduleSpec => []BlockedExactly
<1>1. ScheduleOK => BlockedExactly
  BY TwoLookups
<1> QED BY <1>1, ScheduleKept, PTL

\* A minute of the clock that a window covers lies in one of its intervals.
LEMMA ClockInIntervals ==
    ASSUME NEW w \in Window, w.start # w.end, NEW c \in ClockOf(w)
    PROVE  \E v \in Intervals(w) : v.start <= c /\ c < v.end
<1> DEFINE b == w.start
           e == w.end
<1>1. MinutesPerDay \in Nat \ {0, 1} /\ b \in 0..(MinutesPerDay - 1) /\ e \in 0..(MinutesPerDay - 1)
  BY ScheduleAssumption DEF Window, Minutes
<1>2. PICK n \in 0..(Length(w) - 1) : c = (b + n) % MinutesPerDay
  BY DEF ClockOf
<1>3. Length(w) = IF b < e THEN e - b ELSE e - b + MinutesPerDay
  <2>1. e - b + MinutesPerDay \in 0..(2 * MinutesPerDay - 1)
    BY <1>1
  <2> QED BY <1>1, <2>1, ModOnce DEF Length
<1>4. b + n \in 0..(2 * MinutesPerDay - 1)
  BY <1>1, <1>3
<1>5. c = IF b + n < MinutesPerDay THEN b + n ELSE b + n - MinutesPerDay
  <2> DEFINE x == b + n
  <2>1. x \in 0..(2 * MinutesPerDay - 1) /\ MinutesPerDay \in Nat \ {0}
    BY <1>1, <1>4
  <2> HIDE DEF x
  <2>2. x % MinutesPerDay = IF x < MinutesPerDay THEN x ELSE x - MinutesPerDay
    BY <2>1, ModOnce
  <2>3. c = x % MinutesPerDay
    BY <1>2, Zenon DEF x
  <2>4. c = IF x < MinutesPerDay THEN x ELSE x - MinutesPerDay
    BY <2>2, <2>3, Zenon
  <2> QED BY <1>1, <2>4 DEF x
<1> HIDE DEF b, e
<1>6. CASE b < e
  <2>1. b <= c /\ c < e
    BY <1>1, <1>3, <1>5, <1>6
  <2>2. [start |-> b, end |-> e] \in Intervals(w)
    BY <1>6 DEF Intervals, b, e
  <2> QED BY <2>1, <2>2
<1>7. CASE ~(b < e) /\ b + n < MinutesPerDay
  <2>1. b <= c /\ c < MinutesPerDay
    BY <1>1, <1>3, <1>5, <1>7
  <2>2. [start |-> b, end |-> MinutesPerDay] \in Intervals(w)
    BY <1>7 DEF Intervals, b, e
  <2> QED BY <2>1, <2>2
<1>8. CASE ~(b < e) /\ ~(b + n < MinutesPerDay)
  <2>1. 0 <= c /\ c < e
    BY <1>1, <1>3, <1>5, <1>8
  <2>2. [start |-> 0, end |-> e] \in Intervals(w)
    <3>1. e > 0
      BY <1>1, <1>5, <1>8, <2>1
    <3> QED BY <1>8, <3>1 DEF Intervals, b, e
  <2> QED BY <2>1, <2>2
<1> QED BY <1>6, <1>7, <1>8

\* In a sorted order whose neighbours do not overlap, no two intervals do.
LEMMA NeighboursEnough ==
    ASSUME NEW S, \A x \in S : x.span.start \in Nat /\ x.span.end \in Nat, Cardinality(S) \in Nat,
           NEW q \in Sorted(S), \A i \in DOMAIN q : i > 1 => q[i].span.start >= q[i - 1].span.end,
           NEW x \in S, NEW y \in S, x # y,
           NEW c \in Int, x.span.start <= c, c < x.span.end
    PROVE  ~(y.span.start <= c /\ c < y.span.end)
<1> DEFINE n == Cardinality(S)
<1>1. /\ q \in [1..n -> S] /\ \A z \in S : \E i \in 1..n : q[i] = z
      /\ \A i, j \in 1..n : i < j => q[i].span.start <= q[j].span.start
  BY DEF Sorted, Bijection, Injection, Surjection
<1>2. n \in Nat
  OBVIOUS
<1> HIDE DEF n
<1>3. ASSUME NEW i \in 1..n, NEW j \in 1..n, i < j
      PROVE  q[j].span.start >= q[i].span.end
  <2>1. i + 1 \in 1..n /\ i + 1 > 1 /\ (i + 1) - 1 = i
    BY <1>2, <1>3
  <2>2. q[i + 1].span.start >= q[i].span.end
    BY <1>1, <2>1
  <2>3. q[j].span.start >= q[i + 1].span.start
    <3>1. CASE j = i + 1
      BY <1>1, <2>1, <3>1
    <3>2. CASE i + 1 < j
      BY <1>1, <2>1, <3>2
    <3> QED BY <1>2, <1>3, <3>1, <3>2
  <2>4. q[i] \in S /\ q[j] \in S /\ q[i + 1] \in S
    BY <1>1, <2>1
  <2> QED BY <2>2, <2>3, <2>4
<1>4. PICK i \in 1..n : q[i] = x
  BY <1>1
<1>5. PICK j \in 1..n : q[j] = y
  BY <1>1
<1>6. i < j \/ j < i
  BY <1>2, <1>4, <1>5
<1> QED BY <1>3, <1>4, <1>5, <1>6

\* A day has finitely many intervals.
LEMMA PiecesFinite ==
    ASSUME NEW windows \in Seq(Window)
    PROVE  Cardinality(Pieces(windows)) \in Nat
<1> DEFINE Of(i) == {[idx |-> i, span |-> v] : v \in Intervals(windows[i])}
           All == {Of(i) : i \in DOMAIN windows}
<1>1. ASSUME NEW i \in DOMAIN windows PROVE IsFiniteSet(Of(i))
  <2> DEFINE w == windows[i]
             a == [idx |-> i, span |-> [start |-> w.start, end |-> w.end]]
             b == [idx |-> i, span |-> [start |-> w.start, end |-> MinutesPerDay]]
             e == [idx |-> i, span |-> [start |-> 0, end |-> w.end]]
  <2>1. Of(i) \subseteq ({a} \cup {b}) \cup {e}
    BY DEF Intervals
  <2> HIDE DEF a, b, e, Of
  <2>2. IsFiniteSet({a} \cup {b})
    BY FS_Singleton, FS_AddElement
  <2>3. IsFiniteSet(({a} \cup {b}) \cup {e})
    BY <2>2, FS_AddElement
  <2> QED BY <2>1, <2>3, FS_Subset
<1>2. IsFiniteSet(DOMAIN windows)
  <2>1. DOMAIN windows = 1..Len(windows) /\ Len(windows) \in Nat
    OBVIOUS
  <2> QED BY <2>1, FS_Interval
<1>3. IsFiniteSet(All)
  <2> DEFINE f == [i \in DOMAIN windows |-> Of(i)]
  <2> HIDE DEF Of
  <2>1. f \in Surjection(DOMAIN windows, All)
    BY DEF Surjection
  <2> QED BY <1>2, <2>1, FS_Surjection
<1>4. IsFiniteSet(UNION All)
  BY <1>1, <1>3, FS_UNION
<1>5. Pieces(windows) = UNION All
  BY DEF Pieces
<1> QED BY <1>4, <1>5, FS_CardinalityType

\* For any number of windows: a day that passes checkOverlaps has no two that share
\* a minute of the clock.
LEMMA PassedApart ==
    ASSUME NEW windows \in Seq(Window), \A i \in DOMAIN windows : windows[i].start # windows[i].end,
           checkOverlaps(windows), NEW i \in DOMAIN windows, NEW j \in DOMAIN windows, i # j
    PROVE  ClockOf(windows[i]) \cap ClockOf(windows[j]) = {}
<1> SUFFICES ASSUME NEW c \in ClockOf(windows[i]), c \in ClockOf(windows[j]) PROVE FALSE
  OBVIOUS
<1>1. Len(windows) >= 2
  BY DEF Window
<1>2. PICK q \in Sorted(Pieces(windows)) :
        \A k \in DOMAIN q : k > 1 => q[k].span.start >= q[k - 1].span.end
  BY <1>1 DEF checkOverlaps
<1>3. PICK v \in Intervals(windows[i]) : v.start <= c /\ c < v.end
  BY ClockInIntervals
<1>4. PICK u \in Intervals(windows[j]) : u.start <= c /\ c < u.end
  BY ClockInIntervals
<1> DEFINE x == [idx |-> i, span |-> v]
           y == [idx |-> j, span |-> u]
<1>5. x \in Pieces(windows) /\ y \in Pieces(windows) /\ x # y
  BY DEF Pieces
<1>6. \A z \in Pieces(windows) : z.span.start \in Nat /\ z.span.end \in Nat
  <2>1. ASSUME NEW k \in DOMAIN windows, NEW z \in Intervals(windows[k])
        PROVE  z.start \in Nat /\ z.end \in Nat
    <3>1. windows[k] \in Window
      OBVIOUS
    <3>2. windows[k].start \in Nat /\ windows[k].end \in Nat /\ MinutesPerDay \in Nat
      BY <3>1, ScheduleAssumption DEF Window, Minutes
    <3> QED BY <3>2 DEF Intervals
  <2> QED BY <2>1 DEF Pieces
<1>7. c \in Int
  <2>1. windows[i] \in Window
    OBVIOUS
  <2>2. windows[i].start \in Nat /\ MinutesPerDay \in Nat \ {0, 1}
    BY <2>1, ScheduleAssumption DEF Window, Minutes
  <2>3. PICK n \in 0..(Length(windows[i]) - 1) : c = (windows[i].start + n) % MinutesPerDay
    BY DEF ClockOf
  <2> QED BY <2>2, <2>3
<1>8. Cardinality(Pieces(windows)) \in Nat
  BY PiecesFinite
<1>9. x.span.start <= c /\ c < x.span.end /\ y.span.start <= c /\ c < y.span.end
  BY <1>3, <1>4
<1> HIDE DEF x, y
<1> QED BY <1>2, <1>5, <1>6, <1>7, <1>8, <1>9, NeighboursEnough

\* For any number of days and of minutes in a day: in no schedule that was accepted
\* do two windows of a day share a minute (checkOverlaps, which compares neighbours).
THEOREM AcceptedStayApart == ScheduleSpec => []AcceptedDisjoint
<1>1. ScheduleOK => AcceptedDisjoint
  <2> SUFFICES ASSUME ScheduleOK, NEW k \in Key, NEW i \in DOMAIN schedule[k],
                      NEW j \in DOMAIN schedule[k], i # j
               PROVE  ClockOf(schedule[k][i]) \cap ClockOf(schedule[k][j]) = {}
    BY DEF AcceptedDisjoint
  <2>1. /\ schedule[k] \in Seq(Window) /\ checkOverlaps(schedule[k])
        /\ \A n \in DOMAIN schedule[k] : schedule[k][n].start # schedule[k][n].end
    BY DEF ScheduleOK, ValidateSchedule
  <2> QED BY <2>1, PassedApart
<1> QED BY <1>1, ScheduleKept, PTL
=============================================================================
