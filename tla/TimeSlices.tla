----------------------------- MODULE TimeSlices -----------------------------
(***************************************************************************)
(* Counting the transactions of a window of time from several sources:     *)
(* getTransactionStats (whole hours from chain_stats_hourly, the edges     *)
(* live) and getAddressesActivity (whole weeks and days from the activity  *)
(* rollups, the edges live). A live slice is turned into a range of        *)
(* heights first and counted by height.                                    *)
(*                                                                         *)
(* Every block holds one transaction, of one address. Instants are those   *)
(* of the code's -1ms; a Unit is an hour or a day, a Week a number of      *)
(* units that starts on a Monday. Queries of one answer interleave with    *)
(* the blocks that the indexer adds.                                       *)
(***************************************************************************)
EXTENDS Integers, Sequences, FiniteSets

CONSTANTS
    Unit,           \* instants of an hour (stats) or of a day (activity)
    Week,           \* days of a week
    Monday,         \* the first unit that is a Monday
    LiveUpTo,       \* ADDRESSES_ACTIVITY_LOW_PRECISION_AFTER, at least a day
    WeeklyAfter,    \* ADDRESSES_ACTIVITY_WEEKLY_AFTER
    DailyMin,       \* ADDRESSES_ACTIVITY_DAILY_MIN_TX_COUNT
    WeeklyMin,      \* ADDRESSES_ACTIVITY_WEEKLY_MIN_TX_COUNT
    Skew,           \* how far a block's time may lie before an earlier block's
    MaxInstant,     \* bound on instants
    MaxBlocks       \* bound on blocks

ASSUME SliceAssumption ==
    /\ Unit \in Nat \ {0} /\ Week \in Nat \ {0} /\ Monday \in 0 .. Week - 1
    /\ LiveUpTo \in Nat /\ LiveUpTo >= Unit
    /\ {WeeklyAfter, DailyMin, WeeklyMin, Skew, MaxInstant, MaxBlocks} \subseteq Nat

VARIABLES
    stamp,      \* table blocks: height -> timestamp
    query,      \* what is asked: [kind, from, to], or NoQuery
    step,       \* where the handler waits
    slices,     \* its live slices, the next one first
    ranges,     \* height ranges of slices it has resolved
    tally,      \* height -> how often the answer counts its transaction
    cut,        \* heights whose rollup rows the answer left out as too small
    present     \* history: the number of blocks when it was asked

sliceVars == <<stamp, query, step, slices, ranges, tally, cut, present>>

Instants == 0 .. MaxInstant
Heights == 1 .. MaxBlocks
NoQuery == [kind |-> "none", from |-> 0, to |-> 0]

SliceTypeOK ==
    /\ stamp \in Seq(Instants) /\ Len(stamp) <= MaxBlocks
    /\ query \in [kind : {"none", "stats", "activity"}, from : Instants, to : Instants]
    /\ step \in {"idle", "hours", "heights", "slice", "done"}
    /\ slices \in Seq([from : Instants, to : Instants])
    /\ ranges \in Seq(SUBSET Heights)
    /\ tally \in [Heights -> Nat]
    /\ cut \in SUBSET Heights
    /\ present \in 0 .. MaxBlocks

(***************************************************************************)
(* How a window is divided.                                                *)
(***************************************************************************)
Floor(t) == (t \div Unit) * Unit
Ceil(t) == Floor(t + Unit - 1)

OneIf(condition, from, to) == IF condition THEN <<[from |-> from, to |-> to]>> ELSE <<>>

\* getTransactionStats: hours that lie inside the window as a whole.
UsesHours(q) == Ceil(q.from) < Floor(q.to)

\* mutant: the slice ends with the hour that follows it.
StatsSlicesMeet(q) ==
    IF UsesHours(q)
    THEN OneIf(q.from < Ceil(q.from), q.from, Ceil(q.from))
         \o OneIf(Floor(q.to) < q.to, Floor(q.to), q.to)
    ELSE OneIf(TRUE, q.from, q.to)

StatsSlices(q) ==
    IF UsesHours(q)
    THEN OneIf(q.from < Ceil(q.from), q.from, Ceil(q.from) - 1)
         \o OneIf(Floor(q.to) < q.to, Floor(q.to), q.to)
    ELSE OneIf(TRUE, q.from, q.to)

\* getAddressesActivity: the first midnight, and the whole weeks after it.
IsShort(q) == q.to - q.from <= LiveUpTo

DayLo(q) == Ceil(q.from)

DayOfWeek(midnight) == (midnight \div Unit + Week - Monday) % Week

WeekLo(q) == DayLo(q) + ((Week - DayOfWeek(DayLo(q))) % Week) * Unit

WeekHi(q) == Floor(q.to) - DayOfWeek(Floor(q.to)) * Unit

UsesWeeks(q) ==
    /\ ~IsShort(q)
    /\ q.to - q.from > WeeklyAfter
    /\ WeekLo(q) < WeekHi(q)

ActivitySlices(q) ==
    IF IsShort(q) THEN OneIf(TRUE, q.from, q.to)
    ELSE OneIf(q.from # DayLo(q), q.from, DayLo(q) - 1)
         \o OneIf(q.to > Floor(q.to), Floor(q.to), q.to)

\* The instants of the days and of the weeks taken from the rollups.
InDays(q, t) ==
    /\ ~IsShort(q)
    /\ DayLo(q) <= t /\ t < Floor(q.to)
    /\ UsesWeeks(q) => t < WeekLo(q) \/ t >= WeekHi(q)

InWeeks(q, t) == UsesWeeks(q) /\ WeekLo(q) <= t /\ t < WeekHi(q)

(***************************************************************************)
(* The tables.                                                             *)
(***************************************************************************)
Filed == DOMAIN stamp

\* The rollup rows that block h is in: the indexer files a block by its own
\* time.
StartOfWeek(t) == Floor(t) - DayOfWeek(Floor(t)) * Unit

DayRow(h) == {g \in Filed : Floor(stamp[g]) = Floor(stamp[h])}

WeekRow(h) == {g \in Filed : StartOfWeek(stamp[g]) = StartOfWeek(stamp[h])}

\* The blocks with a time inside the slice.
Within(s) == {h \in Filed : s.from <= stamp[h] /\ stamp[h] <= s.to}

\* The heights from the lowest to the highest of those.
RangeOf(s) == {h \in Filed : \E a, b \in Within(s) : a <= h /\ h <= b}

Counting(H) == [h \in Heights |-> IF h \in H THEN tally[h] + 1 ELSE tally[h]]

(***************************************************************************)
(* Steps.                                                                  *)
(***************************************************************************)
\* The indexer adds a block. Its time may lie before an earlier block's.
FileBlock ==
    /\ Len(stamp) < MaxBlocks
    /\ step # "done"
    /\ \E t \in Instants :
        /\ \A h \in Filed : t >= stamp[h] - Skew
        /\ stamp' = Append(stamp, t)
    /\ UNCHANGED <<query, step, slices, ranges, tally, cut, present>>

Ask(kind, from, to) ==
    LET q == [kind |-> kind, from |-> from, to |-> to]
    IN  /\ step = "idle"
        /\ query' = q
        /\ present' = Len(stamp)
        /\ slices' = IF kind = "stats" THEN StatsSlices(q) ELSE ActivitySlices(q)
        /\ step' = IF kind = "stats" /\ UsesHours(q) THEN "hours" ELSE "heights"
        /\ UNCHANGED <<stamp, ranges, tally, cut>>

\* The whole hours, from chain_stats_hourly.
CountHours ==
    LET inside(h) == Ceil(query.from) <= stamp[h] /\ stamp[h] < Floor(query.to)
    IN  /\ step = "hours"
        /\ tally' = Counting({h \in Filed : inside(h)})
        /\ step' = "heights"
        /\ UNCHANGED <<stamp, query, slices, ranges, cut, present>>

\* The heights of the next slice. A slice without blocks is passed over.
ResolveSlice ==
    LET H == RangeOf(Head(slices))
    IN  /\ step = "heights"
        /\ slices # <<>>
        /\ slices' = Tail(slices)
        /\ ranges' = IF H = {} THEN ranges ELSE Append(ranges, H)
        /\ step' = IF H # {} /\ query.kind = "stats" THEN "slice" ELSE "heights"
        /\ UNCHANGED <<stamp, query, tally, cut, present>>

\* stats: the transactions of those heights.
CountSlice ==
    /\ step = "slice"
    /\ tally' = Counting(ranges[Len(ranges)])
    /\ step' = "heights"
    /\ UNCHANGED <<stamp, query, slices, ranges, cut, present>>

\* activity: one statement sums the live slices and the rollup rows that are
\* large enough.
RankAddresses ==
    LET days == {h \in Filed : InDays(query, stamp[h])}
        weeks == {h \in Filed : InWeeks(query, stamp[h])}
        small == {h \in days : Cardinality(DayRow(h)) <= DailyMin}
                 \cup {h \in weeks : Cardinality(WeekRow(h)) <= WeeklyMin}
        times(h) == Cardinality({n \in DOMAIN ranges : h \in ranges[n]})
                    + Cardinality({s \in {days, weeks} : h \in s \ small})
    IN  /\ tally' = [h \in Heights |-> times(h)]
        /\ cut' = small

Answer ==
    /\ step = "heights"
    /\ slices = <<>>
    /\ step' = "done"
    /\ \/ query.kind = "activity" /\ RankAddresses
       \/ query.kind = "stats" /\ UNCHANGED <<tally, cut>>
    /\ UNCHANGED <<stamp, query, slices, ranges, present>>

SliceInit ==
    /\ stamp = <<>>
    /\ query = NoQuery
    /\ step = "idle"
    /\ slices = <<>>
    /\ ranges = <<>>
    /\ tally = [h \in Heights |-> 0]
    /\ cut = {}
    /\ present = 0

SliceNext ==
    \/ FileBlock
    \/ \E kind \in {"stats", "activity"}, from, to \in Instants :
           from <= to /\ Ask(kind, from, to)
    \/ CountHours
    \/ ResolveSlice
    \/ CountSlice
    \/ Answer

SliceSpec == SliceInit /\ [][SliceNext]_sliceVars

(***************************************************************************)
(* Properties.                                                             *)
(***************************************************************************)
\* A block whose time lies before that of a lower block, or after that of a
\* higher one.
OutOfOrder(h) ==
    \E g \in Filed : (g < h /\ stamp[g] > stamp[h]) \/ (g > h /\ stamp[g] < stamp[h])

\* A window is counted exactly although it is stitched together: a transaction
\* inside it that was indexed when the question came is counted, unless its
\* rollup row is below the minimum; none is counted twice, where two sources
\* meet or when it arrives between two queries; and none outside it is. Only
\* a block out of order may be counted too often, never too seldom. (The last
\* instant belongs to the window or not, depending on the source.)
WindowIsExact ==
    step = "done" =>
        \A h \in Filed :
            LET inside == query.from <= stamp[h] /\ stamp[h] < query.to
                outside == stamp[h] < query.from \/ stamp[h] > query.to
            IN  /\ inside /\ h <= present /\ h \notin cut => tally[h] >= 1
                /\ ~OutOfOrder(h) => tally[h] <= (IF outside THEN 0 ELSE 1)
=============================================================================
