-------------------------- MODULE DowntimeSchedule ---------------------------
(***************************************************************************)
(* pkg/userdb/downtime.go: which schedules are accepted, and when a user   *)
(* with an accepted schedule is blocked, against a definition over the     *)
(* week as one circle of minutes.                                          *)
(*                                                                         *)
(* A day key is what the JSON holds: the number it parses to and whether   *)
(* it is spelled the way strconv.Itoa spells it ("1", not "01").  Times    *)
(* that do not parse are refused first and are left out.                   *)
(***************************************************************************)
EXTENDS Integers, Sequences, FiniteSets, SequencesExt

CONSTANTS DaysPerWeek, MinutesPerDay,
          Spellings    \* TRUE for "1", FALSE for "01" and "+1"

ASSUME ScheduleAssumption ==
    /\ DaysPerWeek \in Nat \ {0, 1} /\ MinutesPerDay \in Nat \ {0, 1}
    /\ Spellings \subseteq BOOLEAN

VARIABLES
    schedule, \* downtimeCache of a user: the windows of each day key
    day, minute \* the server's local clock

scheduleVars == <<schedule, day, minute>>

Days == 0..(DaysPerWeek - 1)

Minutes == 0..(MinutesPerDay - 1)

Window == [start : Minutes, end : Minutes]

Key == [day : Days, plain : Spellings]

NoWindows == [k \in Key |-> <<>>]

-----------------------------------------------------------------------------
(* Validation.                                                             *)

\* Fault: an overnight window counts for its evening only.
IntervalsEvening(w) ==
    {[start |-> w.start, end |-> IF w.start < w.end THEN w.end ELSE MinutesPerDay]}

\* A window as intervals of its day; an overnight one is split in two.
Intervals(w) ==
    IF w.start < w.end THEN {[start |-> w.start, end |-> w.end]}
    ELSE {[start |-> w.start, end |-> MinutesPerDay]}
           \cup (IF w.end > 0 THEN {[start |-> 0, end |-> w.end]} ELSE {})

\* The intervals of a day's windows, each with the index of its window.
Pieces(windows) ==
    UNION {{[idx |-> i, span |-> v] : v \in Intervals(windows[i])} : i \in DOMAIN windows}

\* What sort.Slice by start may make of them: it does not say which of two that
\* start together comes first.
Sorted(pieces) ==
    {q \in Bijection(1..Cardinality(pieces), pieces) :
        \A i, j \in DOMAIN q : i < j => q[i].span.start <= q[j].span.start}

\* Sorted, no interval begins before its predecessor ends; two that start together
\* fail in either order.
checkOverlaps(windows) ==
    Len(windows) >= 2 =>
        \E q \in Sorted(Pieces(windows)) :
            \A i \in DOMAIN q : i > 1 => q[i].span.start >= q[i - 1].span.end

ValidateSchedule(s) ==
    \A k \in Key : /\ \A i \in DOMAIN s[k] : s[k][i].start # s[k][i].end
                   /\ checkOverlaps(s[k])

-----------------------------------------------------------------------------
(* Evaluation.                                                             *)

\* Fault: the morning after is looked up under tomorrow's name.
SpillFromTomorrow(s, d, m) ==
    LET today == [day |-> d, plain |-> TRUE]
        other == [day |-> (d + 1) % DaysPerWeek, plain |-> TRUE] IN
    \/ \E i \in DOMAIN s[today] :
         LET w == s[today][i] IN w.start <= m /\ (w.start < w.end => m < w.end)
    \/ \E i \in DOMAIN s[other] :
         LET w == s[other][i] IN w.start >= w.end /\ m < w.end

\* Today's windows, and the mornings of yesterday's overnight ones.
isInDowntime(s, d, m) ==
    LET today == [day |-> d, plain |-> TRUE]
        yesterday == [day |-> (d + DaysPerWeek - 1) % DaysPerWeek, plain |-> TRUE] IN
    \/ \E i \in DOMAIN s[today] :
         LET w == s[today][i] IN w.start <= m /\ (w.start < w.end => m < w.end)
    \/ \E i \in DOMAIN s[yesterday] :
         LET w == s[yesterday][i] IN w.start >= w.end /\ m < w.end

-----------------------------------------------------------------------------

Adding(s, k, w) == [s EXCEPT ![k] = Append(@, w)]

OneWindow == {Adding(NoWindows, k, w) : k \in Key, w \in Window}

\* The schedules a request may carry: up to two windows, on any days.
Offers ==
    {NoWindows} \cup OneWindow \cup {Adding(s, k, w) : s \in OneWindow, k \in Key, w \in Window}

Valid == {s \in Offers : ValidateSchedule(s)}

ScheduleTypeOK ==
    /\ schedule \in [Key -> Seq(Window)]
    /\ day \in Days /\ minute \in Minutes

ScheduleInit ==
    /\ schedule = NoWindows
    /\ day = 0 /\ minute = 0

\* handleUpdateDowntime: a schedule that validates replaces the user's; any
\* other is answered 400 and changes nothing.
UpdateDowntime(s) ==
    /\ s \in Valid
    /\ schedule' = s
    /\ UNCHANGED <<day, minute>>

ClockTick ==
    /\ minute' = (minute + 1) % MinutesPerDay
    /\ day' = IF minute' = 0 THEN (day + 1) % DaysPerWeek ELSE day
    /\ UNCHANGED schedule

ScheduleNext == ClockTick \/ \E s \in Offers : UpdateDowntime(s)

ScheduleSpec == ScheduleInit /\ [][ScheduleNext]_scheduleVars

-----------------------------------------------------------------------------
(* Properties.                                                             *)

\* The minutes of the week, as a circle, that a window covers from its start on
\* its day, past midnight if its end is not later than its start.
Week == DaysPerWeek * MinutesPerDay

Length(w) == (w.end - w.start + MinutesPerDay) % MinutesPerDay

Covered(k, w) == {(k.day * MinutesPerDay + w.start + i) % Week : i \in 0..(Length(w) - 1)}

Windows(s) == UNION {{<<k, i>> : i \in DOMAIN s[k]} : k \in Key}

CoveredBy(s, x) == Covered(x[1], s[x[1]][x[2]])

\* At every minute of the week the user is blocked exactly when some accepted
\* window covers it: around midnight, from the last day of the week into the
\* first, at both ends of a window, and under a second window.  So for day keys
\* in the plain spelling; a window under "01" validates and never blocks.
BlockedExactly ==
    isInDowntime(schedule, day, minute) <=>
        \E x \in Windows(schedule) : day * MinutesPerDay + minute \in CoveredBy(schedule, x)

\* The minutes of the clock, whatever the day, that a window covers.
ClockOf(w) == {(w.start + n) % MinutesPerDay : n \in 0..(Length(w) - 1)}

\* In an accepted schedule no two windows of a day share a minute of the clock,
\* although the code compares only neighbours after sorting.
AcceptedDisjoint ==
    \A k \in Key : \A i, j \in DOMAIN schedule[k] :
        i # j => ClockOf(schedule[k][i]) \cap ClockOf(schedule[k][j]) = {}
=============================================================================
