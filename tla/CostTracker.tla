---------------------------- MODULE CostTracker ----------------------------
(***************************************************************************)
(* cost.Tracker (src/cost/tracker.go): a CSV file with a row per model     *)
(* call, and the budget check that adds the file up.                       *)
(*                                                                         *)
(* Record and CheckBudget each hold the tracker's mutex from end to end,   *)
(* so that they are atomic to each other; between a check and the record   *)
(* of the call it allowed anything may happen.  Record's deferred Flush    *)
(* drops its error: a write that stops half way leaves a prefix of the row *)
(* and is acknowledged all the same.  The next row goes on where it ended. *)
(* Costs are whole units, days are local days.                             *)
(***************************************************************************)
EXTENDS Pricing, SequencesExt

CONSTANTS
    Tokens,         \* a token count, as a number of cost units
    DailyLimit,     \* 0: no limit
    MonthlyLimit,   \* 0: no limit
    MonthLength,    \* days in a month
    MaxDay,         \* bound: the last day
    Cuts,           \* columns in which a row may be cut short
    MaxTears        \* bound: rows that are not written whole

ASSUME CostBounds ==
    /\ Tokens \in Nat
    /\ DailyLimit \in Nat /\ MonthlyLimit \in Nat
    /\ Cuts \subseteq 1..7
    /\ MonthLength \in Nat \ {0} /\ MaxDay \in Nat /\ MaxTears \in Nat

VARIABLES
    log,        \* the rows of cost_log.csv, torn ones too; <<>>: no file yet
    today,
    tears       \* rows that were not written whole

costVars == <<log, today, tears>>

Width == 7      \* columns of a row: time, provider, model, in, out, cost, session

(* What is left of a row: its first columns, the last one cut short if the *)
(* newline is missing.                                                     *)
WholeRow(cost) == [cost |-> cost, day |-> today, columns |-> Width, eol |-> TRUE]

CostInit == log = <<>> /\ today = 0 /\ tears = 0

-----------------------------------------------------------------------------
(* readRecords.  A line runs to the next newline: where a row was cut the  *)
(* column is joined to the first one of the row that follows.              *)

Column(row, i) ==
    [kind  |-> CASE i = 1 -> "time" [] i \in {4, 5} -> "tokens" [] i = 6 -> "cost"
                 [] OTHER -> "text",
     value |-> CASE i \in {4, 5} -> Tokens [] i = 6 -> row.cost [] OTHER -> 0,
     day   |-> row.day]
Columns(row) == [i \in 1..row.columns |-> Column(row, i)]

Joined(line, row) ==
    IF line = <<>> THEN Columns(row)
    ELSE Front(line) \o <<[kind |-> "junk", value |-> 0, day |-> 0]>> \o Tail(Columns(row))

LineEnds == {i \in DOMAIN log : log[i].eol \/ i = Len(log)}
LineStart(e) ==
    1 + Max({0} \cup {i \in LineEnds : i < e})
LineAt(e) == FoldLeft(Joined, <<>>, SubSeq(log, LineStart(e), e))

(* csv.Reader: every line has as many columns as the first.                *)
ReadFails == \E e, f \in LineEnds : Len(LineAt(e)) # Len(LineAt(f))

(* Lines that are too short or have no time are left out; a cost that is   *)
(* no number counts as 0.                                                  *)
Records == {e \in LineEnds : Len(LineAt(e)) >= Width /\ LineAt(e)[1].kind = "time"}
DayOf(e) == LineAt(e)[1].day
CostOf(e) == LineAt(e)[6].value

Month(day) == day \div MonthLength
Sum(lines) == MapThenSumSet(CostOf, lines)

DailyTotal == Sum({e \in Records : DayOf(e) = today})

MonthlyTotalOfAll == Sum(Records)       \* variant for RefusalIsEarned
MonthlyTotal == Sum({e \in Records : Month(DayOf(e)) = Month(today)})

OverLate(limit, total) == limit > 0 /\ total > limit    \* variant for OvershootBounded
Over(limit, total) == limit > 0 /\ total >= limit

(* CheckBudget: a log that cannot be read allows everything.               *)
Allowed == ReadFails \/ ~(Over(DailyLimit, DailyTotal) \/ Over(MonthlyLimit, MonthlyTotal))

-----------------------------------------------------------------------------
Record(cost) ==
    /\ log' = Append(log, WholeRow(cost))
    /\ UNCHANGED <<today, tears>>

(* The write fails: some, or none, of the row is in the file.              *)
RecordTears(cost) ==
    /\ tears < MaxTears
    /\ tears' = tears + 1
    /\ \/ UNCHANGED log
       \/ \E n \in Cuts :
            log' = Append(log, [WholeRow(cost) EXCEPT !.columns = n, !.eol = FALSE])
    /\ UNCHANGED today

Midnight ==
    /\ today < MaxDay
    /\ today' = today + 1
    /\ UNCHANGED <<log, tears>>
=============================================================================
