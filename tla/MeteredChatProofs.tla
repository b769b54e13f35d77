------------------------- MODULE MeteredChatProofs -------------------------
(***************************************************************************)
(* How far a budget is overspent and what a refusal rests on, for any      *)
(* number of callers, calls, days, models and prices, any limits, and rows *)
(* cut short in any column.                                                *)
(***************************************************************************)
EXTENDS MeteredChat, Sums, FiniteSetTheorems, SequenceTheorems, TLAPS

Rows == [cost : Nat, day : Nat, columns : 1..Width, eol : BOOLEAN]

LEMMA RowFacts ==
    ASSUME NEW l \in Seq(Rows), NEW i \in DOMAIN l
    PROVE  /\ l[i] \in Rows /\ l[i].cost \in Nat /\ l[i].day \in Nat
           /\ l[i].columns \in 1..7 /\ l[i].eol \in BOOLEAN
           /\ DOMAIN l = 1..Len(l) /\ Len(l) \in Nat
<1>1. l[i] \in Rows /\ DOMAIN l = 1..Len(l) /\ Len(l) \in Nat
  OBVIOUS
<1> QED  BY <1>1 DEF Rows, Width

-----------------------------------------------------------------------------
(* FoldLeft over the one or two rows of a line.                            *)

LEMMA FoldOne ==
    ASSUME NEW row
    PROVE  FoldLeft(Joined, <<>>, <<row>>) = Joined(<<>>, row)
<1> DEFINE seq == <<row>>
      Fold(it) == it = [s \in SUBSET DOMAIN seq |->
                          IF s = {} THEN <<>> ELSE Joined(it[s \ {Max(s)}], seq[Max(s)])]
      f == CHOOSE it : Fold(it)
<1>1. DOMAIN seq = {1} /\ seq[1] = row
  OBVIOUS
<1> HIDE DEF seq
<1>2. Max({1}) = 1 /\ {1} \ {1} = {}
  BY MaxIs
<1>3. \A s \in SUBSET {1} : s = {} \/ s = {1}
  OBVIOUS
<1>4. \E it : Fold(it)
  <2> DEFINE g == [s \in SUBSET {1} |-> IF s = {} THEN <<>> ELSE Joined(<<>>, row)]
  <2>1. \A s \in SUBSET {1} :
           g[s] = IF s = {} THEN <<>> ELSE Joined(g[s \ {Max(s)}], seq[Max(s)])
    BY <1>1, <1>2, <1>3
  <2>2. Fold(g)
    BY <1>1, <2>1
  <2> QED  BY <2>2
<1>5. Fold(f)
  BY <1>4
<1> HIDE DEF f
<1>6. f[{}] = <<>> /\ f[{1}] = Joined(f[{1} \ {Max({1})}], seq[Max({1})])
  BY <1>1, <1>5
<1>7. FoldLeft(Joined, <<>>, seq) = f[DOMAIN seq]
  BY DEF FoldLeft, MapThenFoldSet, f
<1> QED  BY <1>1, <1>2, <1>6, <1>7 DEF seq

LEMMA SetsOfTwo ==
    /\ \A s \in SUBSET {1, 2} : s = {} \/ s = {1} \/ s = {2} \/ s = {1, 2}
    /\ {} \in SUBSET {1, 2} /\ {1} \in SUBSET {1, 2}
    /\ {2} \in SUBSET {1, 2} /\ {1, 2} \in SUBSET {1, 2}
    /\ {1} # {} /\ {2} # {} /\ {1, 2} # {}
    /\ {2} # {1} /\ {1, 2} # {1} /\ {1, 2} # {2}
<1>1. \A s \in SUBSET {1, 2} : s = {} \/ s = {1} \/ s = {2} \/ s = {1, 2}
  OBVIOUS
<1>2. /\ {} \in SUBSET {1, 2} /\ {1} \in SUBSET {1, 2}
      /\ {2} \in SUBSET {1, 2} /\ {1, 2} \in SUBSET {1, 2}
  OBVIOUS
<1>3. 1 \in {1} /\ 2 \in {2} /\ 2 \in {1, 2} /\ 1 \notin {2} /\ 2 \notin {1} /\ 1 \in {1, 2}
  OBVIOUS
<1>4. {1} # {}
  BY <1>3
<1>5. {2} # {}
  BY <1>3
<1>6. {1, 2} # {}
  BY <1>3
<1>7. {2} # {1}
  BY <1>3
<1>8. {1, 2} # {1}
  BY <1>3
<1>9. {1, 2} # {2}
  BY <1>3
<1> QED  BY <1>1, <1>2, <1>4, <1>5, <1>6, <1>7, <1>8, <1>9

LEMMA FoldTwo ==
    ASSUME NEW row, NEW next
    PROVE  FoldLeft(Joined, <<>>, <<row, next>>) = Joined(Joined(<<>>, row), next)
<1> DEFINE seq == <<row, next>>
      Fold(it) == it = [s \in SUBSET DOMAIN seq |->
                          IF s = {} THEN <<>> ELSE Joined(it[s \ {Max(s)}], seq[Max(s)])]
      f == CHOOSE it : Fold(it)
<1>1. DOMAIN seq = {1, 2} /\ seq[1] = row /\ seq[2] = next
  OBVIOUS
<1> HIDE DEF seq
<1>2. /\ Max({1}) = 1 /\ Max({2}) = 2 /\ Max({1, 2}) = 2
      /\ {1} \ {1} = {} /\ {2} \ {2} = {} /\ {1, 2} \ {2} = {1}
  BY MaxIs
<1>3. \A s \in SUBSET {1, 2} : s = {} \/ s = {1} \/ s = {2} \/ s = {1, 2}
  BY SetsOfTwo
<1>4. \E it : Fold(it)
  <2> DEFINE g == [s \in SUBSET {1, 2} |->
                     IF s = {} THEN <<>> ELSE
                     IF s = {1} THEN Joined(<<>>, row) ELSE
                     IF s = {2} THEN Joined(<<>>, next) ELSE Joined(Joined(<<>>, row), next)]
  <2>1. /\ g[{}] = <<>> /\ g[{1}] = Joined(<<>>, row) /\ g[{2}] = Joined(<<>>, next)
        /\ g[{1, 2}] = Joined(Joined(<<>>, row), next)
    <3>1. g[{}] = <<>>
      BY SetsOfTwo
    <3>2. g[{1}] = Joined(<<>>, row)
      BY SetsOfTwo
    <3>3. g[{2}] = Joined(<<>>, next)
      BY SetsOfTwo
    <3>4. g[{1, 2}] = Joined(Joined(<<>>, row), next)
      BY SetsOfTwo
    <3> HIDE DEF g
    <3> QED  BY <3>1, <3>2, <3>3, <3>4
  <2> HIDE DEF g
  <2>2. \A s \in SUBSET {1, 2} :
           g[s] = IF s = {} THEN <<>> ELSE Joined(g[s \ {Max(s)}], seq[Max(s)])
    <3> DEFINE Value(s) == IF s = {} THEN <<>> ELSE Joined(g[s \ {Max(s)}], seq[Max(s)])
    <3>1. {1} # {} /\ {2} # {} /\ {1, 2} # {}
      BY SetsOfTwo
    <3>2. g[{}] = Value({})
      BY <2>1
    <3>3. g[{1}] = Value({1})
      BY <1>1, <1>2, <2>1, <3>1
    <3>4. g[{2}] = Value({2})
      BY <1>1, <1>2, <2>1, <3>1
    <3>5. g[{1, 2}] = Value({1, 2})
      BY <1>1, <1>2, <2>1, <3>1
    <3> HIDE DEF Value
    <3>6. \A s \in SUBSET {1, 2} : g[s] = Value(s)
      BY <1>3, <3>2, <3>3, <3>4, <3>5
    <3> QED  BY <3>6 DEF Value
  <2>3. g = [s \in SUBSET {1, 2} |-> g[s]]
    BY DEF g
  <2>4. Fold(g)
    BY <1>1, <2>2, <2>3
  <2> QED  BY <2>4
<1>5. Fold(f)
  BY <1>4
<1> HIDE DEF f
<1>6. /\ f[{}] = <<>> /\ f[{1}] = Joined(f[{1} \ {Max({1})}], seq[Max({1})])
      /\ f[{1, 2}] = Joined(f[{1, 2} \ {Max({1, 2})}], seq[Max({1, 2})])
  BY <1>1, <1>5
<1>7. FoldLeft(Joined, <<>>, seq) = f[DOMAIN seq]
  BY DEF FoldLeft, MapThenFoldSet, f
<1> QED  BY <1>1, <1>2, <1>6, <1>7 DEF seq

-----------------------------------------------------------------------------
(* What readRecords makes of rows whose tears are apart.                   *)

Kinds == {"time", "tokens", "cost", "text", "junk"}
Cells == [kind : Kinds, value : Nat, day : Nat]

LEMMA ColumnFacts ==
    ASSUME NEW row \in Rows
    PROVE  /\ DOMAIN Columns(row) = 1..row.columns /\ Len(Columns(row)) = row.columns
           /\ Columns(row) \in Seq(Cells)
           /\ row.columns \in 1..7
           /\ Columns(row)[1].kind = "time" /\ Columns(row)[1].day = row.day
           /\ row.columns >= 6 => Columns(row)[6].value = row.cost
           /\ Joined(<<>>, row) = Columns(row)
<1>1. row.columns \in 1..7 /\ row.cost \in Nat /\ row.day \in Nat
  BY DEF Rows, Width
<1>2. \A i \in 1..7 : Column(row, i) \in Cells
  <2> SUFFICES ASSUME NEW i \in 1..7
               PROVE  Column(row, i) \in Cells
    OBVIOUS
  <2> DEFINE k == CASE i = 1 -> "time" [] i \in {4, 5} -> "tokens" [] i = 6 -> "cost"
                    [] OTHER -> "text"
             v == CASE i \in {4, 5} -> Tokens [] i = 6 -> row.cost [] OTHER -> 0
  <2>1. k \in Kinds
    BY DEF Kinds
  <2>2. v \in Nat
    BY <1>1, CostBounds
  <2>3. Column(row, i) = [kind |-> k, value |-> v, day |-> row.day]
    BY DEF Column
  <2> HIDE DEF k, v
  <2> QED  BY <1>1, <2>1, <2>2, <2>3 DEF Cells
<1>3. Column(row, 1).kind = "time" /\ Column(row, 1).day = row.day /\ Column(row, 6).value = row.cost
  BY DEF Column
<1>4. Columns(row) = [i \in 1..row.columns |-> Column(row, i)] /\ row.columns \in Nat
  BY <1>1 DEF Columns
<1>5. Columns(row) \in Seq(Cells)
  BY <1>1, <1>2, <1>4
<1>6. DOMAIN Columns(row) = 1..row.columns /\ Len(Columns(row)) = row.columns
  BY <1>4, <1>5
<1>7. Joined(<<>>, row) = Columns(row)
  BY DEF Joined
<1> QED  BY <1>1, <1>3, <1>4, <1>5, <1>6, <1>7

(* A whole row that continues the line of a torn one.                      *)
LEMMA JoinedFacts ==
    ASSUME NEW row \in Rows, NEW next \in Rows, next.columns = 7
    PROVE  /\ Len(Joined(Columns(row), next)) = row.columns + 6
           /\ row.columns = 1 => Joined(Columns(row), next)[1].kind # "time"
<1> DEFINE a == Columns(row)
           b == Columns(next)
           junk == [kind |-> "junk", value |-> 0, day |-> 0]
<1>1. a \in Seq(Cells) /\ Len(a) = row.columns /\ row.columns \in 1..7 /\ a # <<>>
  BY ColumnFacts
<1>2. b \in Seq(Cells) /\ Len(b) = 7
  BY ColumnFacts
<1>3. junk \in Cells
  BY DEF Cells, Kinds
<1>4. Joined(a, next) = Front(a) \o <<junk>> \o Tail(b)
  BY <1>1 DEF Joined
<1> HIDE DEF a, b, junk
<1>5. Front(a) \in Seq(Cells) /\ Len(Front(a)) = Len(a) - 1
  <2>1. Front(a) = [i \in 1..(Len(a) - 1) |-> a[i]]
    BY DEF Front
  <2>2. Len(a) - 1 \in Nat /\ \A i \in 1..(Len(a) - 1) : a[i] \in Cells
    BY <1>1
  <2> QED  BY <2>1, <2>2
<1>6. Tail(b) \in Seq(Cells) /\ Len(Tail(b)) = 6
  BY <1>2
<1>7. /\ Front(a) \o <<junk>> \in Seq(Cells) /\ Len(Front(a) \o <<junk>>) = row.columns
      /\ row.columns = 1 => (Front(a) \o <<junk>>)[1] = junk
  BY <1>1, <1>3, <1>5
<1>8. /\ Len(Joined(a, next)) = row.columns + 6
      /\ row.columns = 1 => Joined(a, next)[1] = junk
  <2> DEFINE x == Front(a) \o <<junk>>
             y == Tail(b)
  <2>1. /\ x \in Seq(Cells) /\ y \in Seq(Cells) /\ Len(x) = row.columns /\ Len(y) = 6
        /\ row.columns = 1 => x[1] = junk
    BY <1>6, <1>7
  <2>2. Joined(a, next) = x \o y
    BY <1>4
  <2> HIDE DEF x, y
  <2>3. Len(x \o y) = row.columns + 6 /\ (row.columns = 1 => (x \o y)[1] = x[1])
    <3>1. Len(x \o y) = Len(x) + Len(y) /\ \A i \in 1..Len(x) : (x \o y)[i] = x[i]
      <4>1. x \in Seq(Cells) /\ y \in Seq(Cells)
        BY <2>1
      <4>2. Len(x) \in Nat /\ Len(y) \in Nat
        BY <4>1
      <4> QED  BY <4>1, <4>2, ConcatProperties
    <3>2. row.columns \in Nat
      BY <1>1
    <3> QED  BY <2>1, <3>1, <3>2
  <2> QED  BY <2>1, <2>2, <2>3
<1> QED  BY <1>8 DEF a, junk

LogTypes ==
    /\ log \in Seq(Rows)
    /\ \A i \in DOMAIN log : log[i].eol => log[i].columns = 7

LEMMA LineOfOne ==
    ASSUME LogTypes, NEW e \in LineEnds, e = 1 \/ log[e - 1].eol
    PROVE  LineAt(e) = Columns(log[e])
<1>1. /\ DOMAIN log = 1..Len(log) /\ Len(log) \in Nat /\ e \in 1..Len(log) /\ log[e] \in Rows
      /\ LineEnds \subseteq 1..Len(log)
  BY DEF LogTypes, LineEnds
<1>2. e - 1 \in {0} \cup {i \in LineEnds : i < e}
  BY <1>1 DEF LineEnds
<1>3. Max({0} \cup {i \in LineEnds : i < e}) = e - 1
  <2>1. \A i \in {0} \cup {i \in LineEnds : i < e} : i \in Nat /\ i <= e - 1
    BY <1>1
  <2> QED  BY <1>2, <2>1, MaxIs
<1>4. LineStart(e) = e
  BY <1>1, <1>3 DEF LineStart
<1>5. PICK row \in Rows : row = log[e]
  BY <1>1
<1>6. SubSeq(log, e, e) = <<row>>
  <2>1. \A i \in e..e : log[i] \in Rows
    BY <1>1
  <2>2. /\ SubSeq(log, e, e) \in Seq(Rows) /\ Len(SubSeq(log, e, e)) = 1
        /\ SubSeq(log, e, e)[1] = row
    BY <1>1, <1>5, <2>1, SubSeqProperties
  <2>3. <<row>> \in Seq(Rows) /\ Len(<<row>>) = 1
    OBVIOUS
  <2>4. \A i \in 1..1 : SubSeq(log, e, e)[i] = <<row>>[i]
    BY <2>2
  <2> QED  BY <2>2, <2>3, <2>4, SeqEqual
<1>7. LineAt(e) = Joined(<<>>, row)
  BY <1>4, <1>6, FoldOne DEF LineAt
<1> QED  BY <1>5, <1>7, ColumnFacts

LEMMA LineOfTwo ==
    ASSUME LogTypes, NEW e \in LineEnds, e # 1, ~log[e - 1].eol, log[e].eol,
           e = 2 \/ log[e - 2].eol
    PROVE  /\ Len(LineAt(e)) = log[e - 1].columns + 6
           /\ log[e - 1].columns = 1 => LineAt(e)[1].kind # "time"
<1>1. /\ DOMAIN log = 1..Len(log) /\ Len(log) \in Nat /\ e \in 2..Len(log)
      /\ e - 1 \in DOMAIN log /\ log[e] \in Rows /\ log[e - 1] \in Rows
      /\ LineEnds \subseteq 1..Len(log) /\ log[e].columns = 7
  BY DEF LogTypes, LineEnds
<1>2. e - 1 \notin LineEnds
  BY <1>1 DEF LineEnds
<1>3. e - 2 \in {0} \cup {i \in LineEnds : i < e}
  BY <1>1 DEF LineEnds
<1>4. \A i \in {0} \cup {i \in LineEnds : i < e} : i \in Nat /\ i <= e - 2
  BY <1>1, <1>2
<1>5. Max({0} \cup {i \in LineEnds : i < e}) = e - 2
  BY <1>3, <1>4, MaxIs
<1>6. LineStart(e) = e - 1
  BY <1>1, <1>5 DEF LineStart
<1>7. PICK row \in Rows, next \in Rows : row = log[e - 1] /\ next = log[e] /\ next.columns = 7
  BY <1>1
<1>8. SubSeq(log, e - 1, e) = <<row, next>>
  <2>1. \A i \in (e - 1)..e : log[i] \in Rows
    BY <1>1
  <2>2. /\ SubSeq(log, e - 1, e) \in Seq(Rows) /\ Len(SubSeq(log, e - 1, e)) = 2
        /\ SubSeq(log, e - 1, e)[1] = row /\ SubSeq(log, e - 1, e)[2] = next
    BY <1>1, <1>7, <2>1, SubSeqProperties
  <2>3. <<row, next>> \in Seq(Rows) /\ Len(<<row, next>>) = 2
    OBVIOUS
  <2>4. \A i \in 1..2 : SubSeq(log, e - 1, e)[i] = <<row, next>>[i]
    BY <2>2
  <2> QED  BY <2>2, <2>3, <2>4, SeqEqual
<1>9. LineAt(e) = Joined(Columns(row), next)
  BY <1>6, <1>8, FoldTwo, ColumnFacts DEF LineAt
<1> QED  BY <1>7, <1>9, JoinedFacts

(* If the file can be read its records are whole rows.                     *)
LEMMA RecordsAreRows ==
    ASSUME LogTypes, ~ReadFails, log[1].eol, TearsApart, NEW e \in Records
    PROVE  e \in DOMAIN log /\ DayOf(e) = log[e].day /\ CostOf(e) = log[e].cost
<1>1. e \in LineEnds /\ e \in DOMAIN log /\ log \in Seq(Rows)
  BY DEF Records, LineEnds, LogTypes
<1>2. /\ DOMAIN log = 1..Len(log) /\ Len(log) \in Nat /\ e \in 1..Len(log) /\ 1 \in LineEnds
      /\ log[1] \in Rows /\ log[1].columns = 7 /\ log[e] \in Rows
  BY <1>1 DEF LineEnds, LogTypes
<1>3. LineAt(1) = Columns(log[1])
  BY <1>2, LineOfOne
<1>4. Len(LineAt(1)) = 7
  <2>1. PICK row \in Rows : row = log[1]
    BY <1>2
  <2> QED  BY <1>2, <1>3, <2>1, ColumnFacts
<1>5. Len(LineAt(e)) = 7
  BY <1>1, <1>2, <1>4 DEF ReadFails
<1>6. e = 1 \/ log[e - 1].eol
  <2> SUFFICES ASSUME e # 1, ~log[e - 1].eol
               PROVE  FALSE
    OBVIOUS
  <2>1. log[e].eol /\ (e = 2 \/ log[e - 2].eol)
    <3>1. e \in 2..Len(log) /\ (e # 2 => e - 1 \in 2..Len(log) /\ (e - 1) - 1 = e - 2)
      BY <1>2
    <3> QED  BY <3>1 DEF TearsApart
  <2>2. Len(LineAt(e)) = log[e - 1].columns + 6 /\ LineAt(e)[1].kind = "time"
    BY <1>1, <2>1, LineOfTwo DEF Records
  <2>3. log[e - 1].columns \in 1..7
    <3>1. e - 1 \in DOMAIN log
      BY <1>2
    <3> QED  BY <1>1, <3>1, RowFacts
  <2>4. log[e - 1].columns = 1
    BY <1>5, <2>2, <2>3
  <2> QED  BY <1>1, <2>1, <2>2, <2>4, LineOfTwo
<1>7. PICK row \in Rows : row = log[e]
  BY <1>2
<1>8. LineAt(e) = Columns(row)
  BY <1>1, <1>6, <1>7, LineOfOne
<1>9. row.columns = 7
  BY <1>5, <1>8, ColumnFacts
<1>10. Columns(row)[1].day = row.day /\ Columns(row)[6].value = row.cost
  BY <1>9, ColumnFacts
<1> QED  BY <1>1, <1>7, <1>8, <1>10 DEF DayOf, CostOf

-----------------------------------------------------------------------------
(* What the rows add up to.                                                *)

CostsOf(l) == [i \in DOMAIN l |-> l[i].cost]

LEMMA SpentIsASum ==
    ASSUME NEW days
    PROVE  Spent(days) = SumOver(CostsOf(log), {i \in DOMAIN log : log[i].day \in days})
<1> DEFINE Total(l, S) ==
      (CHOOSE it : it = [s \in SUBSET S |->
                           IF s = {} THEN 0
                           ELSE l[CHOOSE x \in s : TRUE].cost
                                + it[s \ {CHOOSE x \in s : TRUE}]])[S]
<1>1. PICK l, S : l = log /\ S = {i \in DOMAIN log : log[i].day \in days}
  OBVIOUS
<1>2. Spent(days) = Total(log, {i \in DOMAIN log : log[i].day \in days})
  BY DEF Spent, MapThenSumSet, MapThenFoldSet
<1>3. Total(l, S) = SumOver(CostsOf(l), S)
  <2> DEFINE Costs(it) ==
        it = [s \in SUBSET S |->
                IF s = {} THEN 0
                ELSE l[CHOOSE x \in s : TRUE].cost + it[s \ {CHOOSE x \in s : TRUE}]]
  <2>1. \A s \in SUBSET S : s # {} => CostsOf(l)[First(s)] = l[CHOOSE x \in s : TRUE].cost
    <3>1. \A s \in SUBSET S : s # {} => First(s) \in DOMAIN l
      BY <1>1, FirstIsIn
    <3> QED  BY <3>1 DEF CostsOf, First
  <2>2. ASSUME NEW it, NEW s \in SUBSET S
        PROVE  (IF s = {} THEN 0
                ELSE l[CHOOSE x \in s : TRUE].cost + it[s \ {CHOOSE x \in s : TRUE}])
               = IF s = {} THEN 0 ELSE CostsOf(l)[First(s)] + it[s \ {First(s)}]
    BY <2>1 DEF First
  <2>3. \A it : Costs(it) <=> Adds(it, CostsOf(l), SUBSET S)
    BY <2>2 DEF Adds
  <2>4. (CHOOSE it : Costs(it)) = (CHOOSE it : Adds(it, CostsOf(l), SUBSET S))
    <3> HIDE DEF Costs
    <3> QED  BY <2>3, Zenon
  <2>5. Total(l, S) = (CHOOSE it : Costs(it))[S]
    OBVIOUS
  <2> HIDE DEF Costs, Total
  <2> QED  BY <2>4, <2>5 DEF SumOver
<1> HIDE DEF Total
<1> QED  BY <1>1, <1>2, <1>3

LEMMA SumOfRecords ==
    ASSUME NEW lines, NEW h, \A e \in lines : CostOf(e) = h[e]
    PROVE  Sum(lines) = SumOver(h, lines)
<1> DEFINE Costs(it) ==
      it = [s \in SUBSET lines |->
              IF s = {} THEN 0
              ELSE CostOf(CHOOSE x \in s : TRUE) + it[s \ {CHOOSE x \in s : TRUE}]]
<1>1. \A s \in SUBSET lines : s # {} => CostOf(CHOOSE x \in s : TRUE) = h[First(s)]
  <2>1. \A s \in SUBSET lines : s # {} => First(s) \in lines
    BY FirstIsIn
  <2> QED  BY <2>1 DEF First
<1>2. ASSUME NEW it, NEW s \in SUBSET lines
      PROVE  (IF s = {} THEN 0
              ELSE CostOf(CHOOSE x \in s : TRUE) + it[s \ {CHOOSE x \in s : TRUE}])
             = IF s = {} THEN 0 ELSE h[First(s)] + it[s \ {First(s)}]
  BY <1>1 DEF First
<1>3. \A it : Costs(it) <=> Adds(it, h, SUBSET lines)
  BY <1>2 DEF Adds
<1>4. (CHOOSE it : Costs(it)) = (CHOOSE it : Adds(it, h, SUBSET lines))
  <2> HIDE DEF Costs
  <2> QED  BY <1>3, Zenon
<1>5. Sum(lines) = (CHOOSE it : Costs(it))[lines]
  BY DEF Sum, MapThenSumSet, MapThenFoldSet
<1> HIDE DEF Costs
<1> QED  BY <1>4, <1>5 DEF SumOver

LEMMA CostFacts ==
    ASSUME NEW l \in Seq(Rows)
    PROVE  /\ IsFiniteSet(DOMAIN l) /\ \A i \in DOMAIN l : CostsOf(l)[i] \in Nat
           /\ \A S \in SUBSET DOMAIN l : IsFiniteSet(S) /\ SumOver(CostsOf(l), S) \in Nat
<1>1. DOMAIN l = 1..Len(l) /\ Len(l) \in Nat
  OBVIOUS
<1>2. IsFiniteSet(DOMAIN l)
  BY <1>1, FS_Interval
<1>3. \A i \in DOMAIN l : CostsOf(l)[i] \in Nat
  BY RowFacts DEF CostsOf
<1>4. \A S \in SUBSET DOMAIN l : IsFiniteSet(S) /\ SumOver(CostsOf(l), S) \in Nat
  BY <1>2, <1>3, FS_Subset, SumIsNat
<1> QED  BY <1>2, <1>3, <1>4

(* What is read of some days was spent on these.                           *)
LEMMA ReadWasSpent ==
    ASSUME LogTypes, ~ReadFails, log[1].eol, TearsApart,
           NEW R, R \subseteq Records, NEW days, \A e \in R : log[e].day \in days
    PROVE  /\ Sum(R) \in Nat /\ Spent(days) \in Nat /\ Sum(R) <= Spent(days)
           /\ R = {i \in DOMAIN log : log[i].day \in days} => Sum(R) = Spent(days)
<1>1. PICK l, S : l \in Seq(Rows) /\ l = log /\ S = {i \in DOMAIN log : log[i].day \in days}
  BY DEF LogTypes
<1>2. \A e \in R : e \in S /\ CostOf(e) = CostsOf(l)[e]
  BY <1>1, RecordsAreRows DEF CostsOf
<1>3. Sum(R) = SumOver(CostsOf(l), R)
  BY <1>2, SumOfRecords
<1>4. Spent(days) = SumOver(CostsOf(l), S)
  BY <1>1, SpentIsASum
<1>5. R \subseteq S /\ S \subseteq DOMAIN l
  BY <1>1, <1>2
<1>6. SumOver(CostsOf(l), R) <= SumOver(CostsOf(l), S)
  BY <1>1, <1>5, CostFacts, SumGrows
<1>7. SumOver(CostsOf(l), R) \in Nat /\ SumOver(CostsOf(l), S) \in Nat
  BY <1>1, <1>5, CostFacts
<1> QED  BY <1>1, <1>3, <1>4, <1>6, <1>7

(* A log without torn rows is read as it is.                               *)
LEMMA WholeLogIsRead ==
    ASSUME LogTypes, \A i \in DOMAIN log : log[i].eol
    PROVE  ~ReadFails /\ Records = DOMAIN log /\ TearsApart
           /\ \A e \in DOMAIN log : DayOf(e) = log[e].day
<1>1. DOMAIN log = 1..Len(log) /\ Len(log) \in Nat /\ LineEnds = DOMAIN log
  <2>1. log \in Seq(Rows)
    BY DEF LogTypes
  <2>2. DOMAIN log = 1..Len(log) /\ Len(log) \in Nat
    BY <2>1
  <2>3. LineEnds = DOMAIN log
    BY DEF LineEnds
  <2> QED  BY <2>2, <2>3
<1>2. ASSUME NEW e \in DOMAIN log
      PROVE  /\ Len(LineAt(e)) = 7 /\ LineAt(e)[1].kind = "time"
             /\ LineAt(e)[1].day = log[e].day
  <2>1. e = 1 \/ log[e - 1].eol
    <3>1. e # 1 => e - 1 \in DOMAIN log
      BY <1>1
    <3> QED  BY <3>1
  <2>2. PICK row \in Rows : row = log[e] /\ row.columns = 7
    BY DEF LogTypes
  <2>3. LineAt(e) = Columns(row)
    BY <1>1, <2>1, <2>2, LineOfOne
  <2> QED  BY <2>2, <2>3, ColumnFacts
<1>3. ~ReadFails
  BY <1>1, <1>2 DEF ReadFails
<1>4. Records = DOMAIN log
  <2>1. 7 >= Width
    BY DEF Width
  <2> QED  BY <1>1, <1>2, <2>1 DEF Records
<1>5. TearsApart
  BY <1>1 DEF TearsApart
<1> QED  BY <1>2, <1>3, <1>4, <1>5 DEF DayOf

LEMMA LogStart ==
    ASSUME LogTypes, NEW e \in DOMAIN log
    PROVE  1 \in DOMAIN log
  BY DEF LogTypes

(* A call that is allowed has found less spent than the limit.             *)
LEMMA AllowedMeansLess ==
    ASSUME LogTypes, today \in Nat, \A i \in DOMAIN log : log[i].eol, DailyLimit > 0, Allowed
    PROVE  Spent({today}) < DailyLimit /\ Spent({today}) \in Nat
<1>1. ~ReadFails /\ Records = DOMAIN log /\ TearsApart
      /\ \A e \in DOMAIN log : DayOf(e) = log[e].day
  BY WholeLogIsRead
<1>2. PICK R : R = {e \in Records : DayOf(e) = today}
  OBVIOUS
<1>3. R = {i \in DOMAIN log : log[i].day \in {today}}
  BY <1>1, <1>2
<1>4. Sum(R) = Spent({today}) /\ Spent({today}) \in Nat
  <2>1. CASE DOMAIN log = {}
    <3>1. R = {}
      BY <1>3, <2>1
    <3>2. Sum({}) = 0
      BY SumOfRecords, SumEmpty
    <3>3. Spent({today}) = SumOver(CostsOf(log), {})
      BY <1>3, <3>1, SpentIsASum
    <3> QED  BY <3>1, <3>2, <3>3, SumEmpty
  <2>2. CASE DOMAIN log # {}
    <3>1. log[1].eol
      BY <2>2, LogStart
    <3>2. R \subseteq Records /\ \A e \in R : log[e].day \in {today}
      BY <1>2, <1>3
    <3>3. PICK days : days = {today}
      OBVIOUS
    <3> QED  BY <1>1, <1>3, <3>1, <3>2, <3>3, ReadWasSpent
  <2> QED  BY <2>1, <2>2
<1>5. ~Over(DailyLimit, DailyTotal)
  BY <1>1 DEF Allowed
<1>6. DailyTotal = Sum(R)
  BY <1>2 DEF DailyTotal
<1> QED  BY <1>4, <1>5, <1>6, CostBounds DEF Over

(* A check that refuses has read no more than was spent.                   *)
LEMMA RefusalRead ==
    ASSUME LogTypes, today \in Nat, \A i \in DOMAIN log : log[i].day \in 0..today
    PROVE  RefusalIsEarned
<1> SUFFICES ASSUME ~Allowed, log[1].eol, TearsApart
             PROVE  \/ Over(DailyLimit, Spent({today}))
                    \/ Over(MonthlyLimit, Spent({d \in 0..today : Month(d) = Month(today)}))
  BY DEF RefusalIsEarned
<1>1. ~ReadFails /\ (Over(DailyLimit, DailyTotal) \/ Over(MonthlyLimit, MonthlyTotal))
  BY DEF Allowed
<1>2. \A e \in Records : DayOf(e) = log[e].day /\ log[e].day \in 0..today
  BY <1>1, RecordsAreRows
<1>3. DailyTotal \in Nat /\ Spent({today}) \in Nat /\ DailyTotal <= Spent({today})
  <2>1. PICK R, days : R = {e \in Records : DayOf(e) = today} /\ days = {today}
    OBVIOUS
  <2>2. R \subseteq Records /\ \A e \in R : log[e].day \in days
    BY <1>2, <2>1
  <2> QED  BY <1>1, <2>1, <2>2, ReadWasSpent DEF DailyTotal
<1> DEFINE month == {d \in 0..today : Month(d) = Month(today)}
<1>4. MonthlyTotal \in Nat /\ Spent(month) \in Nat /\ MonthlyTotal <= Spent(month)
  <2>1. PICK R, days :
           R = {e \in Records : Month(DayOf(e)) = Month(today)} /\ days = month
    OBVIOUS
  <2>2. R \subseteq Records /\ \A e \in R : log[e].day \in days
    BY <1>2, <2>1
  <2> HIDE DEF month
  <2> QED  BY <1>1, <2>1, <2>2, ReadWasSpent DEF MonthlyTotal
<1> HIDE DEF month
<1>5. Over(DailyLimit, Spent({today})) \/ Over(MonthlyLimit, Spent(month))
  BY <1>1, <1>3, <1>4, CostBounds DEF Over
<1> QED  BY <1>5 DEF month

-----------------------------------------------------------------------------
(* The dearest call.                                                       *)

LEMMA PriceFacts ==
    /\ MaxCost \in Nat
    /\ \A model \in Models : \A cost \in LookupPrice(model) : cost \in Nat /\ cost <= MaxCost
<1> DEFINE Prices == UNION {LookupPrice(m) : m \in Models}
           Of(f) == {f[k] : k \in DOMAIN f}
<1>1. ASSUME NEW f, IsFiniteSet(DOMAIN f)
      PROVE  IsFiniteSet(Of(f))
  <2> DEFINE g == [k \in DOMAIN f |-> f[k]]
  <2>1. g \in Surjection(DOMAIN f, Of(f))
    BY DEF Surjection
  <2> HIDE DEF g, Of
  <2> QED  BY <1>1, <2>1, FS_Surjection
<1>2. IsFiniteSet(Of(pricingOverrides) \cup Of(defaultPricing))
  <2>1. IsFiniteSet(Of(pricingOverrides)) /\ IsFiniteSet(Of(defaultPricing))
    BY <1>1, PricingBounds
  <2> HIDE DEF Of
  <2> QED  BY <2>1, FS_Union
<1>3. Of(pricingOverrides) \cup Of(defaultPricing) \subseteq Nat
  BY PricingBounds
<1>4. \A m \in Models :
         /\ LookupPrice(m) \subseteq Of(pricingOverrides) \cup Of(defaultPricing)
         /\ LookupPrice(m) # {}
  BY PricingBounds DEF LookupPrice, Near
<1>5. Prices \subseteq Nat /\ IsFiniteSet(Prices) /\ Prices # {}
  <2>1. Prices \subseteq Of(pricingOverrides) \cup Of(defaultPricing)
    BY <1>4
  <2>2. Prices # {}
    BY <1>4, PricingBounds
  <2> HIDE DEF Prices, Of
  <2> QED  BY <1>2, <1>3, <2>1, <2>2, FS_Subset
<1>6. PICK n \in Prices : \A m \in Prices : m <= n
  <2> HIDE DEF Prices
  <2> QED  BY <1>5, MaxExists
<1>7. Max(Prices) = n
  <2> HIDE DEF Prices
  <2> QED  BY <1>5, <1>6, MaxIs
<1>8. MaxCost = n /\ n \in Nat
  BY <1>5, <1>7 DEF MaxCost
<1> QED  BY <1>5, <1>6, <1>8

-----------------------------------------------------------------------------
(* What a row more changes.                                                *)

SpentIn(l, days) == SumOver(CostsOf(l), {i \in DOMAIN l : l[i].day \in days})

LEMMA SpentIsSpentIn == \A days : Spent(days) = SpentIn(log, days)
  BY SpentIsASum DEF SpentIn

LEMMA SpentInFacts ==
    ASSUME NEW l \in Seq(Rows), NEW days
    PROVE  /\ SpentIn(l, days) \in Nat
           /\ (\A i \in DOMAIN l : l[i].day \notin days) => SpentIn(l, days) = 0
<1> DEFINE S == {i \in DOMAIN l : l[i].day \in days}
<1>1. SpentIn(l, days) = SumOver(CostsOf(l), S)
  BY DEF SpentIn
<1>2. S \in SUBSET DOMAIN l /\ ((\A i \in DOMAIN l : l[i].day \notin days) => S = {})
  OBVIOUS
<1> HIDE DEF S
<1> QED  BY <1>1, <1>2, CostFacts, SumEmpty

LEMMA SpentMore ==
    ASSUME NEW l \in Seq(Rows), NEW row \in Rows, NEW days
    PROVE  SpentIn(Append(l, row), days)
           = SpentIn(l, days) + IF row.day \in days THEN row.cost ELSE 0
<1> DEFINE n == Len(l) + 1
           m == Append(l, row)
           S == {i \in DOMAIN l : l[i].day \in days}
           T == {i \in DOMAIN m : m[i].day \in days}
<1>1. /\ DOMAIN l = 1..Len(l) /\ Len(l) \in Nat /\ m \in Seq(Rows)
      /\ DOMAIN m = DOMAIN l \cup {n} /\ n \notin DOMAIN l
      /\ m[n] = row /\ \A i \in DOMAIN l : m[i] = l[i]
  OBVIOUS
<1>2. row.cost \in Nat
  BY DEF Rows
<1>3. SpentIn(l, days) = SumOver(CostsOf(l), S) /\ SpentIn(m, days) = SumOver(CostsOf(m), T)
  BY DEF SpentIn
<1>4. S \subseteq DOMAIN l /\ T = IF row.day \in days THEN S \cup {n} ELSE S
  <2> HIDE DEF m, n
  <2> QED  BY <1>1
<1>5. CostsOf(m)[n] = row.cost /\ \A i \in DOMAIN l : CostsOf(m)[i] = CostsOf(l)[i]
  <2> HIDE DEF m, n
  <2> QED  BY <1>1 DEF CostsOf
<1> HIDE DEF m, n, S, T
<1>6. SumOver(CostsOf(m), S) = SumOver(CostsOf(l), S)
  BY <1>4, <1>5, SumSame
<1>7. SumOver(CostsOf(l), S) \in Nat /\ IsFiniteSet(S)
  BY <1>4, CostFacts
<1>8. n \notin S /\ \A i \in S \cup {n} : CostsOf(m)[i] \in Nat
  BY <1>1, <1>4, CostFacts
<1>9. SumOver(CostsOf(m), S \cup {n}) = SumOver(CostsOf(l), S) + row.cost
  BY <1>5, <1>6, <1>7, <1>8, SumAdds
<1>10. SpentIn(m, days) = SpentIn(l, days) + IF row.day \in days THEN row.cost ELSE 0
  BY <1>2, <1>3, <1>4, <1>6, <1>7, <1>9
<1> QED  BY <1>10 DEF m

LEMMA TimesMonotone ==
    ASSUME NEW m \in Nat, NEW a \in Nat, NEW b \in Nat
    PROVE  /\ m * a \in Nat
           /\ a <= b => m * a <= m * b
           /\ m * (a + 1) = m * a + m
<1>1. m * a \in Nat /\ m * (a + 1) = m * a + m
  OBVIOUS
<1>2. ASSUME a <= b
      PROVE  m * a <= m * b
  <2>1. PICK d \in Nat : b = a + d
    <3>1. b - a \in Nat /\ b = a + (b - a)
      BY <1>2
    <3> QED  BY <3>1
  <2>2. m * b = m * a + m * d /\ m * d \in Nat
    BY <2>1
  <2> QED  BY <1>1, <2>2
<1> QED  BY <1>1, <1>2

-----------------------------------------------------------------------------
(* The inductive invariant.  A caller that is not idle was allowed when    *)
(* less than the limit was spent; it adds one cost at most.  What is spent *)
(* today and what those callers may still add stay under the limit and one *)
(* dearest call for each caller.                                           *)

Spending == {c \in Callers : chat[c] # "idle"}

SpentAtMost == DailyLimit + MaxCost * Cardinality(Callers)

BudgetKept ==
    /\ \A day \in 0..today : Spent({day}) < SpentAtMost
    /\ Spent({today}) + MaxCost * Cardinality(Spending) < SpentAtMost

LogInv ==
    /\ LogTypes
    /\ today \in Nat /\ tears \in Nat
    /\ \A i \in DOMAIN log : log[i].day \in 0..today
    /\ tears = 0 => \A i \in DOMAIN log : log[i].eol

MeterInv ==
    /\ LogInv
    /\ chat = [c \in Callers |-> chat[c]]
    /\ tears = 0 /\ DailyLimit > 0 => BudgetKept

LEMMA SpentNext == \A days : Spent(days)' = SpentIn(log', days)
<1>1. (\A days : Spent(days) = SpentIn(log, days))'
  BY SpentIsSpentIn, PTL
<1> QED  BY <1>1

(* The row that Record or RecordTears adds, if any.                        *)
LEMMA RowAdded ==
    ASSUME LogInv, NEW cost \in Nat, cost <= MaxCost, Record(cost) \/ RecordTears(cost)
    PROVE  /\ UNCHANGED today /\ tears' \in Nat /\ tears' >= tears
           /\ \/ UNCHANGED log /\ tears' # 0
              \/ \E row \in Rows :
                    /\ log' = Append(log, row)
                    /\ row.day = today /\ row.cost = cost
                    /\ row.eol => row.columns = 7
                    /\ tears' = 0 => row.eol
<1>1. today \in Nat /\ tears \in Nat
  BY DEF LogInv
<1>2. CASE Record(cost)
  <2>1. WholeRow(cost) \in Rows /\ WholeRow(cost).eol /\ WholeRow(cost).columns = 7
        /\ WholeRow(cost).day = today /\ WholeRow(cost).cost = cost
    BY <1>1 DEF WholeRow, Rows, Width
  <2> QED  BY <1>1, <1>2, <2>1 DEF Record
<1>3. CASE RecordTears(cost)
  <2>1. UNCHANGED today /\ tears' = tears + 1
    BY <1>3 DEF RecordTears
  <2>2. CASE UNCHANGED log
    BY <1>1, <2>1, <2>2
  <2>3. CASE \E n \in Cuts :
                log' = Append(log, [WholeRow(cost) EXCEPT !.columns = n, !.eol = FALSE])
    <3>1. PICK n \in Cuts :
                log' = Append(log, [WholeRow(cost) EXCEPT !.columns = n, !.eol = FALSE])
      BY <2>3
    <3>2. PICK row : row = [WholeRow(cost) EXCEPT !.columns = n, !.eol = FALSE]
      OBVIOUS
    <3>3. row \in Rows /\ row.day = today /\ row.cost = cost /\ ~row.eol
      <4>1. row = [cost |-> cost, day |-> today, columns |-> n, eol |-> FALSE]
        BY <3>2 DEF WholeRow
      <4>2. n \in 1..7
        BY CostBounds
      <4> QED  BY <1>1, <4>1, <4>2 DEF Rows, Width
    <3>4. log' = Append(log, row)
      BY <3>1, <3>2
    <3> QED  BY <1>1, <2>1, <3>3, <3>4
  <2> QED  BY <1>3, <2>2, <2>3 DEF RecordTears
<1> QED  BY <1>2, <1>3

LEMMA LogStep ==
    ASSUME LogInv, [Next]_vars
    PROVE  LogInv'
<1>1. /\ log \in Seq(Rows) /\ today \in Nat /\ tears \in Nat
      /\ \A i \in DOMAIN log : log[i].eol => log[i].columns = 7
      /\ \A i \in DOMAIN log : log[i].day \in 0..today
      /\ tears = 0 => \A i \in DOMAIN log : log[i].eol
  BY DEF LogInv, LogTypes
<1>2. CASE UNCHANGED costVars
  BY <1>1, <1>2 DEF LogInv, LogTypes, costVars
<1>3. ASSUME NEW c \in Callers, RecordUsage(c)
      PROVE  LogInv'
  <2>1. PICK model \in Models : \E cost \in LookupPrice(model) : Record(cost) \/ RecordTears(cost)
    BY <1>3 DEF RecordUsage
  <2>2. PICK cost \in LookupPrice(model) : Record(cost) \/ RecordTears(cost)
    BY <2>1
  <2>3. cost \in Nat /\ cost <= MaxCost
    BY PriceFacts
  <2>4. UNCHANGED today /\ tears' \in Nat /\ tears' >= tears
    BY <2>2, <2>3, RowAdded
  <2>5. CASE UNCHANGED log
    <3>1. tears' = 0 => tears = 0
      BY <1>1, <2>4
    <3> QED  BY <1>1, <2>4, <2>5, <3>1 DEF LogInv, LogTypes
  <2>6. ASSUME NEW row \in Rows, log' = Append(log, row), row.day = today,
               row.eol => row.columns = 7, tears' = 0 => row.eol
        PROVE  LogInv'
    <3>1. /\ log' \in Seq(Rows) /\ DOMAIN log' = 1..(Len(log) + 1) /\ Len(log) \in Nat
          /\ DOMAIN log = 1..Len(log)
          /\ \A i \in DOMAIN log' : log'[i] = IF i \in DOMAIN log THEN log[i] ELSE row
      BY <1>1, <2>6
    <3>2. \A i \in DOMAIN log' : log'[i].eol => log'[i].columns = 7
      BY <1>1, <2>6, <3>1
    <3>3. \A i \in DOMAIN log' : log'[i].day \in 0..today
      BY <1>1, <2>6, <3>1
    <3>4. tears' = 0 => \A i \in DOMAIN log' : log'[i].eol
      <4>1. tears' = 0 => tears = 0
        BY <1>1, <2>4
      <4> QED  BY <1>1, <2>6, <3>1, <4>1
    <3> QED  BY <1>1, <2>4, <3>1, <3>2, <3>3, <3>4 DEF LogInv, LogTypes
  <2>7. UNCHANGED log \/ \E row \in Rows :
            /\ log' = Append(log, row) /\ row.day = today
            /\ row.eol => row.columns = 7
            /\ tears' = 0 => row.eol
    BY <2>2, <2>3, RowAdded
  <2> QED  BY <2>5, <2>6, <2>7
<1>4. CASE Midnight
  <2>1. UNCHANGED <<log, tears>> /\ today' = today + 1
    BY <1>4 DEF Midnight
  <2>2. \A i \in DOMAIN log : log[i].day \in 0..(today + 1)
    BY <1>1
  <2> QED  BY <1>1, <2>1, <2>2 DEF LogInv, LogTypes
<1>5. UNCHANGED costVars \/ (\E c \in Callers : RecordUsage(c)) \/ Midnight
  BY DEF Next, vars, CheckThenChat, Chatting, GiveUp
<1> QED  BY <1>2, <1>3, <1>4, <1>5

(* What is spent, and by whom more may be, from one step to the next.      *)
LEMMA BudgetStep ==
    ASSUME MeterInv, [Next]_vars, tears' = 0, DailyLimit > 0
    PROVE  BudgetKept'
<1>1. /\ log \in Seq(Rows) /\ today \in Nat /\ tears \in Nat /\ LogTypes
      /\ \A i \in DOMAIN log : log[i].day \in 0..today
      /\ tears = 0 => \A i \in DOMAIN log : log[i].eol
      /\ DOMAIN chat = Callers
  BY DEF MeterInv, LogInv, LogTypes
<1>2. IsFiniteSet(Callers) /\ Cardinality(Callers) \in Nat /\ MaxCost \in Nat /\ DailyLimit \in Nat
  BY CallBounds, FS_CardinalityType, PriceFacts, CostBounds
<1>3. \A S \in SUBSET Callers :
         /\ Cardinality(S) \in Nat /\ MaxCost * Cardinality(S) \in Nat
         /\ MaxCost * Cardinality(S) <= MaxCost * Cardinality(Callers)
  <2> SUFFICES ASSUME NEW S \in SUBSET Callers
               PROVE  /\ Cardinality(S) \in Nat /\ MaxCost * Cardinality(S) \in Nat
                      /\ MaxCost * Cardinality(S) <= MaxCost * Cardinality(Callers)
    OBVIOUS
  <2>1. Cardinality(S) \in Nat /\ Cardinality(S) <= Cardinality(Callers)
    BY <1>2, FS_Subset, FS_CardinalityType
  <2> QED  BY <1>2, <2>1, TimesMonotone
<1>4. MaxCost * Cardinality(Callers) \in Nat /\ SpentAtMost \in Nat
  BY <1>2, <1>3 DEF SpentAtMost
<1>5. \A days : /\ Spent(days) = SpentIn(log, days) /\ Spent(days) \in Nat
                /\ Spent(days)' = SpentIn(log', days)
  BY <1>1, SpentIsSpentIn, SpentNext, SpentInFacts
<1>6. Spending \in SUBSET Callers /\ Spending' \in SUBSET Callers
  BY DEF Spending
<1>7. ASSUME NEW c \in Callers, CheckThenChat(c)
      PROVE  BudgetKept'
  <2>1. UNCHANGED costVars /\ Allowed /\ tears = 0
    BY <1>7 DEF CheckThenChat, costVars
  <2>2. BudgetKept
    BY <2>1 DEF MeterInv
  <2>3. Spent({today}) < DailyLimit
    BY <1>1, <2>1, AllowedMeansLess
  <2>4. Spent({today}) + MaxCost * Cardinality(Spending') < SpentAtMost
    <3>1. PICK k \in Nat : k = MaxCost * Cardinality(Spending')
      BY <1>3, <1>6
    <3>2. k <= MaxCost * Cardinality(Callers)
      BY <1>3, <1>6, <3>1
    <3> QED  BY <1>2, <1>4, <1>5, <2>3, <3>1, <3>2 DEF SpentAtMost
  <2>5. \A days : Spent(days)' = Spent(days)
    BY <1>5, <2>1 DEF costVars
  <2>6. today' = today
    BY <2>1 DEF costVars
  <2> QED  BY <2>2, <2>4, <2>5, <2>6 DEF BudgetKept, SpentAtMost
<1>8. ASSUME UNCHANGED costVars, Spending' \subseteq Spending
      PROVE  BudgetKept'
  <2>1. BudgetKept /\ today' = today
    BY <1>8 DEF MeterInv, costVars
  <2>2. \A days : Spent(days)' = Spent(days)
    BY <1>5, <1>8 DEF costVars
  <2>3. MaxCost * Cardinality(Spending') <= MaxCost * Cardinality(Spending)
    <3>1. Cardinality(Spending') <= Cardinality(Spending)
      BY <1>2, <1>6, <1>8, FS_Subset
    <3> QED  BY <1>2, <1>3, <1>6, <3>1, TimesMonotone
  <2>4. Spent({today}) + MaxCost * Cardinality(Spending') < SpentAtMost
    <3>1. PICK k \in Nat, n \in Nat :
             k = MaxCost * Cardinality(Spending) /\ n = MaxCost * Cardinality(Spending')
      BY <1>3, <1>6
    <3>2. n <= k /\ Spent({today}) + k < SpentAtMost
      BY <2>1, <2>3, <3>1 DEF BudgetKept
    <3> QED  BY <1>4, <1>5, <3>1, <3>2
  <2> QED  BY <2>1, <2>2, <2>4 DEF BudgetKept, SpentAtMost
<1>9. ASSUME NEW c \in Callers, RecordUsage(c)
      PROVE  BudgetKept'
  <2>1. PICK model \in Models : \E cost \in LookupPrice(model) : Record(cost) \/ RecordTears(cost)
    BY <1>9 DEF RecordUsage
  <2>2. PICK cost \in LookupPrice(model) : Record(cost) \/ RecordTears(cost)
    BY <2>1
  <2>3. cost \in Nat /\ cost <= MaxCost
    BY PriceFacts
  <2>4. LogInv
    BY DEF MeterInv
  <2>5. PICK row \in Rows : log' = Append(log, row) /\ row.day = today /\ row.cost = cost
    BY <2>2, <2>3, <2>4, RowAdded
  <2>6. today' = today /\ tears = 0
    BY <1>1, <2>2, <2>3, <2>4, RowAdded
  <2>7. BudgetKept
    BY <2>6 DEF MeterInv
  <2>8. \A days : Spent(days)' = Spent(days) + IF today \in days THEN cost ELSE 0
    <3>1. PICK l \in Seq(Rows) : l = log
      BY <1>1
    <3>2. \A days : SpentIn(Append(l, row), days)
                    = SpentIn(l, days) + IF row.day \in days THEN row.cost ELSE 0
      BY SpentMore
    <3> QED  BY <1>5, <2>5, <3>1, <3>2
  <2>9. Spending = Spending' \cup {c} /\ c \notin Spending'
    BY <1>1, <1>9 DEF RecordUsage, Become, Spending
  <2>10. Cardinality(Spending) = Cardinality(Spending') + 1
    BY <1>2, <1>6, <2>9, FS_AddElement, FS_Subset
  <2>11. PICK k \in Nat : k = MaxCost * Cardinality(Spending')
    BY <1>3, <1>6
  <2>12. MaxCost * Cardinality(Spending) = k + MaxCost
    BY <1>2, <1>3, <1>6, <2>10, <2>11, TimesMonotone
  <2>13. Spent({today}) + (k + MaxCost) < SpentAtMost
    BY <2>7, <2>12 DEF BudgetKept
  <2>14. PICK now : now = today
    OBVIOUS
  <2>15. /\ Spent({now})' = Spent({now}) + cost
         /\ Spent({now}) + cost + k < SpentAtMost /\ Spent({now}) + cost < SpentAtMost
    <3>1. Spent({now})' = Spent({now}) + cost
      BY <2>8, <2>14
    <3>2. Spent({now}) + (k + MaxCost) < SpentAtMost /\ Spent({now}) \in Nat
      BY <1>5, <2>13, <2>14
    <3> QED  BY <1>2, <1>4, <2>3, <2>11, <3>1, <3>2
  <2>16. \A day \in 0..now : day # now => Spent({day})' = Spent({day})
    BY <1>5, <2>8, <2>14
  <2>17. \A day \in 0..now : Spent({day}) < SpentAtMost
    BY <2>7, <2>14 DEF BudgetKept
  <2>18. \A day \in 0..now : Spent({day})' < SpentAtMost
    BY <2>15, <2>16, <2>17
  <2>19. today' = now
    BY <2>6, <2>14
  <2> QED  BY <2>11, <2>15, <2>18, <2>19 DEF BudgetKept, SpentAtMost
<1>10. CASE Midnight /\ UNCHANGED <<chatVars, calls>>
  <2>1. /\ today' = today + 1 /\ log' = log /\ tears = 0 /\ chat' = chat
        /\ \A days : Spent(days)' = Spent(days)
    BY <1>5, <1>10 DEF Midnight, chatVars
  <2>2. BudgetKept /\ Spending' = Spending
    BY <2>1 DEF MeterInv, Spending
  <2>3. Spent({today + 1}) = 0
    <3>1. PICK l, days : l \in Seq(Rows) /\ l = log /\ days = {today + 1}
      BY <1>1
    <3>2. \A i \in DOMAIN l : l[i].day \notin days
      BY <1>1, <3>1
    <3> QED  BY <1>5, <3>1, <3>2, SpentInFacts
  <2>4. 0 + MaxCost * Cardinality(Spending) < SpentAtMost
    <3>1. PICK k \in Nat : k = MaxCost * Cardinality(Spending)
      BY <1>3, <1>6
    <3>2. k <= MaxCost * Cardinality(Callers)
      BY <1>3, <1>6, <3>1
    <3> QED  BY <1>2, <1>4, <3>1, <3>2 DEF SpentAtMost
  <2>5. 0 < SpentAtMost
    BY <1>2, <1>4 DEF SpentAtMost
  <2>6. \A day \in 0..(today + 1) : Spent({day}) < SpentAtMost
    BY <1>1, <2>2, <2>3, <2>5 DEF BudgetKept
  <2> QED  BY <2>1, <2>2, <2>3, <2>4, <2>6 DEF BudgetKept, SpentAtMost
<1>11. ASSUME NEW c \in Callers, Chatting(c) \/ GiveUp(c)
       PROVE  BudgetKept'
  <2>1. UNCHANGED costVars
    BY <1>11 DEF Chatting, GiveUp
  <2>2. chat' = chat \/ \E state : chat' = [chat EXCEPT ![c] = state] /\ chat[c] # "idle"
    BY <1>11 DEF Chatting, GiveUp, ChatStep, BackoffOver, BackoffCancelled, NoRequest, Send, SendFails,
                 ReplyLost, Busy, Refused, Answered, Again, Cancel, Become
  <2>3. Spending' \subseteq Spending
    BY <1>1, <2>2 DEF Spending
  <2> QED  BY <1>8, <2>1, <2>3
<1>12. CASE UNCHANGED vars
  <2>1. UNCHANGED costVars /\ chat' = chat
    BY <1>12 DEF vars, chatVars
  <2>2. Spending' \subseteq Spending
    BY <2>1 DEF Spending
  <2> QED  BY <1>8, <2>1, <2>2
<1> QED  BY <1>7, <1>9, <1>10, <1>11, <1>12 DEF Next

LEMMA MeterStart == Init => MeterInv
<1> SUFFICES ASSUME Init
             PROVE  MeterInv
  OBVIOUS
<1>1. /\ log = <<>> /\ today = 0 /\ tears = 0
      /\ chat = [c \in Callers |-> "idle"]
  BY DEF Init, CostInit, ChatInit
<1>2. log \in Seq(Rows) /\ DOMAIN log = {}
  BY <1>1
<1>3. LogInv
  BY <1>1, <1>2 DEF LogInv, LogTypes
<1>4. \A days : Spent(days) = 0
  <2>1. PICK l \in Seq(Rows) : l = log /\ DOMAIN l = {}
    BY <1>2
  <2> QED  BY <2>1, SpentIsSpentIn, SpentInFacts
<1>5. ASSUME DailyLimit > 0
      PROVE  BudgetKept
  <2>1. Cardinality(Callers) \in Nat /\ MaxCost \in Nat /\ DailyLimit \in Nat
    BY CallBounds, FS_CardinalityType, PriceFacts, CostBounds
  <2>2. MaxCost * Cardinality(Callers) \in Nat /\ MaxCost * 0 = 0
    BY <2>1, TimesMonotone
  <2>3. Spending = {} /\ Cardinality(Spending) = 0
    BY <1>1, FS_EmptySet DEF Spending
  <2>4. SpentAtMost \in Nat /\ 0 < SpentAtMost
    BY <1>5, <2>1, <2>2 DEF SpentAtMost
  <2>5. \A day \in 0..today : Spent({day}) < SpentAtMost
    BY <1>4, <2>4
  <2>6. Spent({today}) + MaxCost * Cardinality(Spending) < SpentAtMost
    <3>1. Spent({today}) = 0 /\ MaxCost * Cardinality(Spending) = 0
      BY <1>4, <2>2, <2>3
    <3> QED  BY <2>4, <3>1
  <2> QED  BY <2>5, <2>6 DEF BudgetKept
<1> QED  BY <1>1, <1>3, <1>5 DEF MeterInv

LEMMA MeterStep == MeterInv /\ [Next]_vars => MeterInv'
<1> SUFFICES ASSUME MeterInv, [Next]_vars
             PROVE  MeterInv'
  OBVIOUS
<1>1. LogInv'
  BY LogStep DEF MeterInv
<1>2. (chat = [c \in Callers |-> chat[c]])'
  <2>1. chat = [c \in Callers |-> chat[c]]
    BY DEF MeterInv
  <2>2. chat' = chat \/ \E c \in Callers : \E state : chat' = [chat EXCEPT ![c] = state]
    BY DEF Next, vars, chatVars, CheckThenChat, Call, RecordUsage, Chatting, GiveUp, ChatStep,
           BackoffOver, BackoffCancelled, NoRequest, Send, SendFails, ReplyLost, Busy, Refused, Answered,
           Again, Cancel, Become
  <2>3. DOMAIN chat' = Callers /\ chat' = [c \in DOMAIN chat' |-> chat'[c]]
    BY <2>1, <2>2
  <2> QED  BY <2>3
<1>3. tears' = 0 /\ DailyLimit > 0 => BudgetKept'
  BY BudgetStep
<1> QED  BY <1>1, <1>2, <1>3 DEF MeterInv

(* The rows of the cost log, whole and torn, are well formed and of days   *)
(* up to today; until a write has failed no more was spent or is about to  *)
(* be spent than the limit and one call for each caller                    *)
(* (src/cost/tracker.go, Record and CheckBudget).                          *)
THEOREM Invariance == Spec => []MeterInv
<1>1. Init => MeterInv
  BY MeterStart
<1>2. MeterInv /\ [Next]_vars => MeterInv'
  BY MeterStep
<1> QED  BY <1>1, <1>2, PTL DEF Spec

(* The check and the record of what it allowed are two steps, so that a    *)
(* day may be overspent, but by less than one call of the dearest model    *)
(* for each goroutine that calls (src/cost/tracker.go, CheckBudget; the    *)
(* prices are those of src/cost/pricing.go).                               *)
THEOREM OvershootIsBounded == Spec => []OvershootBounded
<1>1. MeterInv => OvershootBounded
  BY DEF MeterInv, BudgetKept, SpentAtMost, OvershootBounded
<1> QED  BY <1>1, Invariance, PTL

(* When CheckBudget refuses, the limit was really reached by what Record   *)
(* was given, however many rows were torn, if no two in a row were and the *)
(* first was not (src/cost/tracker.go, readRecords).                       *)
THEOREM RefusalsAreEarned == Spec => []RefusalIsEarned
<1>1. MeterInv => RefusalIsEarned
  BY RefusalRead DEF MeterInv, LogInv
<1> QED  BY <1>1, Invariance, PTL
=============================================================================
