----------------------------- MODULE SelectRows -----------------------------
(***************************************************************************)
(* One SELECT over one table (select_handler.ts and its helpers): pages of *)
(* rows are pulled through the WHERE filter, grouping, the result columns, *)
(* ORDER BY and LIMIT; the columns are described to the client after the   *)
(* first batch that has rows, and its values are cast by that description. *)
(*                                                                         *)
(* A raw table comes in pages of any size, empty ones among them, as       *)
(* DynamoDB's Limit counts items before the filter; a memory table is one  *)
(* page.  Joins are in JoinStream, references to columns in ColumnRefs.    *)
(***************************************************************************)
EXTENDS Expressions, Bitwise

CONSTANTS
    Selects,    \* the queries: records columns, where, group, order, limit
    Sources,    \* the tables: records engine ("raw", "memory") and pages
    Names,      \* the columns of the table, a sequence of <<table, column>>
    Readers     \* "query" (the client) and "internal" (INSERT ... SELECT)

VARIABLE sel

Width == 8      \* of the 64 bits BIT_AND, BIT_OR and BIT_XOR work on
Frac(p, q) == <<"fraction", p, q>>
Root(p, q) == <<"root", p, q>>

-----------------------------------------------------------------------------
(* Aggregates over what their argument is in each row of a group.          *)

NotNull(results) == SelectSeq(results, LAMBDA r : r.val # Nul)
Numbers(known) == [i \in DOMAIN known |-> convertNum(known[i].val)[2]]
Total(numbers) == FoldLeft(LAMBDA a, b : a + b, 0, numbers)

\* mutant: MIN starts from zero.
MinFromZero(known) ==
    FoldLeft(LAMBDA best, r : IF convertNum(r.val)[2] < convertNum(best.val)[2] THEN r ELSE best,
             Res("longlong", NumV(0)), known)

\* JavaScript's < : two texts by code units, anything else as numbers.
JsLess(a, b) == IF {Kind(a), Kind(b)} = {"text"} THEN CodeRank(a[2]) < CodeRank(b[2])
                ELSE convertNum(a)[2] < convertNum(b)[2]
min(known) == FoldLeft(LAMBDA best, r : IF best.val = Nul \/ JsLess(r.val, best.val)
                                        THEN r ELSE best, Res("null", Nul), known)
max(known) == FoldLeft(LAMBDA best, r : IF best.val = Nul \/ JsLess(best.val, r.val)
                                        THEN r ELSE best, Res("null", Nul), known)

count(known) == Res("longlong", NumV(Len(known)))

\* SUM ends at the first NULL; an untyped NULL, or a text before it, makes it
\* a double.
sum(results, numbers) ==
    LET nulls == {i \in DOMAIN results : results[i].val = Nul}
        upto == IF nulls = {} THEN Len(results) ELSE Min(nulls)
        floats == {i \in 1..upto : results[i].type = "null"
                                    \/ (results[i].type = "string" /\ results[i].val # Nul)}
    IN  Res(IF floats # {} THEN "double" ELSE "number",
            IF nulls # {} THEN Nul ELSE NumV(Total(numbers)))

avg(known, numbers) ==
    IF known = <<>> THEN Res("double", Nul)
    ELSE Res(IF \E r \in Range(known) : r.type = "string" THEN "double" ELSE "number",
             Frac(Total(numbers), Len(known)))

\* The squared distances from the mean, times the number of values squared.
Spread(numbers) ==
    FoldLeft(LAMBDA acc, v : acc + (Len(numbers) * v - Total(numbers)) ^ 2, 0, numbers)
Deviation(numbers, least, Of(_, _)) ==
    LET n == Len(numbers)
    IN  Res("double", IF n < least THEN Nul
                      ELSE Of(Spread(numbers), n * n * (n + 1 - least)))
var_pop(numbers) == Deviation(numbers, 1, Frac)
var_samp(numbers) == Deviation(numbers, 2, Frac)
stddev_pop(numbers) == Deviation(numbers, 1, Root)
stddev_samp(numbers) == Deviation(numbers, 2, Root)

\* Negative numbers are taken in two's complement.
Bits(n) == IF n < 0 THEN 2 ^ Width + n ELSE n
FoldBits(Op(_, _), start, numbers) ==
    Res("longlong", NumV(FoldLeft(LAMBDA a, n : Op(a, Bits(n)), start, numbers)))
bit_and(numbers) == FoldBits(LAMBDA a, b : a & b, 2 ^ Width - 1, numbers)
bit_or(numbers) == FoldBits(LAMBDA a, b : a | b, 0, numbers)
bit_xor(numbers) == FoldBits(LAMBDA a, b : a ^^ b, 0, numbers)

Aggregates == {"count", "sum", "avg", "min", "max", "var_pop", "var_samp", "stddev_pop",
               "stddev_samp", "bit_and", "bit_or", "bit_xor"}
Aggregated(name, results, known, numbers) ==
    CASE name = "count" -> count(known)
      [] name = "sum" -> sum(results, numbers)     [] name = "avg" -> avg(known, numbers)
      [] name = "min" -> min(known)                [] name = "max" -> max(known)
      [] name = "var_pop" -> var_pop(numbers)      [] name = "var_samp" -> var_samp(numbers)
      [] name = "stddev_pop" -> stddev_pop(numbers)
      [] name = "stddev_samp" -> stddev_samp(numbers)
      [] name = "bit_and" -> bit_and(numbers)      [] name = "bit_or" -> bit_or(numbers)
      [] name = "bit_xor" -> bit_xor(numbers)
aggregateValue(name, results) ==
    Aggregated(name, results, NotNull(results), Numbers(NotNull(results)))

\* What an aggregate is over; "-" in front of an aggregate is one too.
Inner(e) == IF e[1] = "neg" THEN e[2] ELSE e
IsAggregate(e) == e[1] \in Aggregates \/ (e[1] = "neg" /\ e[2][1] \in Aggregates)
Argument(e) == IF IsAggregate(e) THEN Inner(e)[2] ELSE e

\* getValue of an expression in a row; COUNT( * ) counts each row as a value.
Evaluate(e, row) == IF e = <<"star">> THEN Bool(NumV(1)) ELSE getValue(e, row)

\* A source row stands for itself, a group for its rows; what is not an
\* aggregate is evaluated on the first.  values holds what each expression is
\* in each row.
rowValue(e, group, values) ==
    LET results == [i \in DOMAIN group |-> values[Argument(e)][group[i]]]
    IN  IF ~IsAggregate(e) THEN results[1]
        ELSE IF e[1] = "neg" THEN neg(aggregateValue(Inner(e)[1], results))
        ELSE aggregateValue(e[1], results)

-----------------------------------------------------------------------------
(* Grouping.                                                               *)

\* An aggregate in the select list, or right under a unary operator, makes one
\* group of all rows.
hasAggregate(q) == \E e \in Range(q.columns) : IsAggregate(e)

\* An ordinal stands for the column as written, and for nothing if there is none.
GroupExprs(q) ==
    FoldLeft(LAMBDA acc, g : IF g[1] # "ordinal" THEN Append(acc, g)
                             ELSE IF g[2] \in DOMAIN q.columns
                             THEN Append(acc, q.columns[g[2]]) ELSE acc,
             <<>>, q.group)

\* The keys of a level in the order an object lists them: numerals by their
\* number, then the others as they came.
Numerals == {"0", "1", "2", "3", "9", "10"}
KeysInOrder(keys) ==
    LET distinct == FoldLeft(LAMBDA acc, k : IF k \in Range(acc) THEN acc ELSE Append(acc, k),
                             <<>>, keys)
        numerals == SelectSeq(distinct, LAMBDA k : k \in Numerals)
    IN  SortSeq(numerals, LAMBDA a, b : ParseFloat(a) < ParseFloat(b))
        \o SelectSeq(distinct, LAMBDA k : k \notin Numerals)

\* Nested objects, one level per expression, keyed by String(value); no level
\* at all takes no row.
RECURSIVE Unroll(_, _, _)
Unroll(rows, exprs, values) ==
    IF exprs = <<>> THEN <<rows>>
    ELSE LET keyOf(row) == StringOf(values[Head(exprs)][row].val)
             keys == KeysInOrder([i \in DOMAIN rows |-> keyOf(rows[i])])
         IN  FlattenSeq([i \in DOMAIN keys |->
                 Unroll(SelectSeq(rows, LAMBDA row : keyOf(row) = keys[i]), Tail(exprs), values)])

formGroup(q, rows, values) ==
    IF GroupExprs(q) = <<>> THEN <<>> ELSE Unroll(rows, GroupExprs(q), values)
formImplicitGroup(rows) == IF rows = <<>> THEN <<>> ELSE <<rows>>

-----------------------------------------------------------------------------
(* ORDER BY: a stable sort whose comparison goes by the type of its left   *)
(* operand and, for texts, by one collation for all rows.                  *)

asc(a, b, type, collation) ==
    CASE a.val = b.val -> 0
      [] a.val = Nul -> -1
      [] b.val = Nul -> 1
      [] Kind(a.val) \in {"number", "bigint"} /\ Kind(b.val) = Kind(a.val) ->
             Sign(a.val[2] - b.val[2])
      [] Kind(a.val) = "fraction" -> Sign(a.val[2] * b.val[3] - b.val[2] * a.val[3])
      [] type = "number" -> Sign(convertNum(a.val)[2] - convertNum(b.val)[2])
      [] OTHER -> stringCompare(StringOf(a.val), StringOf(b.val), collation)

OrderValue(by, entry, values) ==
    IF by[1] # "ordinal" THEN rowValue(by, entry.group, values)
    ELSE IF by[2] \in DOMAIN entry.result THEN entry.result[by[2]]
    ELSE Res("null", Undef)

OrderCollation(by, exprs) ==
    IF by[1] # "ordinal" THEN getExprCollation(<<by>>)
    ELSE IF by[2] \in DOMAIN exprs THEN getExprCollation(<<exprs[by[2]]>>) ELSE "none"

\* The first ORDER BY term that tells two entries with these keys apart decides.
Delta(order, collations, a, b) ==
    LET Compared(t, x, y) == asc(x, y, x.type, collations[t])
    IN  FoldLeftDomain(LAMBDA acc, t :
            IF acc # 0 THEN acc
            ELSE Compared(t, IF order[t].desc THEN b[t] ELSE a[t],
                             IF order[t].desc THEN a[t] ELSE b[t]), 0, order)

\* mutant: rows that compare equal change places.
SortUnstable(order, collations, keyed) ==
    FoldLeft(LAMBDA done, e :
        LET before == {i \in DOMAIN done : Delta(order, collations, done[i].keys, e.keys) < 0}
        IN  InsertAt(done, Cardinality(before) + 1, e), <<>>, keyed)

sort(order, collations, keyed) ==
    FoldLeft(LAMBDA done, e :
        LET before == {i \in DOMAIN done : Delta(order, collations, done[i].keys, e.keys) <= 0}
        IN  InsertAt(done, Cardinality(before) + 1, e), <<>>, keyed)

\* The entries in the order of the query's terms.
Sorted(q, exprs, entries, values) ==
    IF q.order = <<>> THEN entries
    ELSE LET ordered == sort(q.order,
                 [t \in DOMAIN q.order |-> OrderCollation(q.order[t].by, exprs)],
                 [i \in DOMAIN entries |-> [entry |-> entries[i],
                     keys |-> [t \in DOMAIN q.order |->
                                  OrderValue(q.order[t].by, entries[i], values)]]])
         IN  [i \in DOMAIN ordered |-> ordered[i].entry]

-----------------------------------------------------------------------------
(* Result columns.                                                         *)

Untyped == [type |-> "none", mysqlType |-> ""]

\* SELECT *: the columns of a memory table; of a raw table those the items of
\* the first page have.
RawColumns(page) ==
    SelectSeq(Names, LAMBDA c : \E i \in DOMAIN page : page[i][c] # <<"MISSING">>)
expandStarColumns(q, names) ==
    FlattenSeq([i \in DOMAIN q.columns |->
        IF q.columns[i] = <<"star">> THEN [j \in DOMAIN names |-> <<"col", names[j]>>]
        ELSE <<q.columns[i]>>])

\* A column of a memory table brings its declared type.
StartColumn(engine, e) ==
    IF engine = "memory" /\ e[1] = "col"
    THEN [Untyped EXCEPT !.mysqlType = IF ColumnCollation[e[2]] = "none" THEN "INT" ELSE "VARCHAR"]
    ELSE Untyped

\* mutant: the type of the last row wins.
LastTypeWins(old, new) == new

unionColumnType(old, new) ==
    IF old \in {"none", "null"} THEN new
    ELSE IF new = "null" THEN old
    ELSE IF {old, new} = {"double", "number"} THEN "double"
    ELSE IF old = new THEN old ELSE "string"

WidenColumns(cols, entries) ==
    FoldLeft(LAMBDA acc, e : [i \in DOMAIN acc |->
        [acc[i] EXCEPT !.type = unionColumnType(@, e.result[i].type)]], cols, entries)

convertType(col) ==
    CASE col.mysqlType = "INT" -> "LONG"
      [] col.mysqlType = "VARCHAR" -> "VAR_STRING"
      [] col.type = "double" -> "DOUBLE"
      [] col.type = "number" -> "NEWDECIMAL"
      [] col.type \in {"longlong", "bool"} -> "LONGLONG"
      [] col.type = "null" -> "NULL"
      [] OTHER -> "VAR_STRING"

\* The columns as the client gets them, and what it makes of a value.
calcColumns(cols) == [i \in DOMAIN cols |-> convertType(cols[i])]
typeCast(v, type) ==
    CASE v = Nul \/ type = "NULL" -> Nul
      [] Kind(v) \in {"fraction", "root"} -> v
      [] type = "VAR_STRING" -> TextV(StringOf(v))
      [] OTHER -> convertNum(v)

-----------------------------------------------------------------------------
(* The statement.                                                          *)

\* The expressions the query evaluates row by row, and the rows of a table.
Evaluations(q) ==
    {<<"star">>} \cup Range(q.where)
        \cup {Argument(e) : e \in Range(q.columns) \cup Range(GroupExprs(q))}
        \cup {Argument(t.by) : t \in {t \in Range(q.order) : t.by[1] # "ordinal"}}
        \cup {<<"col", name>> : name \in Range(Names)}
AllRows(source) == UNION {Range(page) : page \in Range(source.pages)}

SelectInit ==
    \E q \in Selects, source \in Sources, reader \in Readers :
        sel = [pc |-> "open", q |-> q, reader |-> reader, engine |-> source.engine,
               pages |-> source.pages,
               values |-> [e \in Evaluations(q) |-> [row \in AllRows(source) |-> Evaluate(e, row)]],
               next |-> 1, reads |-> 0, exprs |-> <<>>,
               cols |-> <<>>, buffer |-> <<>>, skip |-> 0, send |-> 0,
               out |-> <<>>, columns |-> <<>>]

RequestAll(q) == <<"star">> \in Range(q.columns)
Buffered(q) == q.group # <<>> \/ hasAggregate(q) \/ q.order # <<>>

\* SELECT * of a raw table needs its first page to know the columns.
Open ==
    /\ sel.pc = "open"
    /\ LET early == sel.engine = "raw" /\ RequestAll(sel.q)
           exprs == expandStarColumns(sel.q, IF early THEN RawColumns(sel.pages[1]) ELSE Names)
       IN  sel' = [sel EXCEPT !.pc = "rows", !.reads = IF early THEN 1 ELSE 0,
                      !.exprs = exprs,
                      !.cols = [i \in DOMAIN exprs |-> StartColumn(sel.engine, exprs[i])],
                      !.skip = IF sel.q.limit = <<>> THEN 0 ELSE sel.q.limit[1],
                      !.send = IF sel.q.limit = <<>> THEN 0 ELSE sel.q.limit[2]]

makeResults(s, groups) ==
    [i \in DOMAIN groups |->
        [group |-> groups[i],
         result |-> [j \in DOMAIN s.exprs |-> rowValue(s.exprs[j], groups[i], s.values)]]]

\* mutant: the rows skipped are not taken off what is still to skip.
LimitKeepsSkip(s, batch) ==
    IF s.skip >= Len(batch) THEN s
    ELSE LET rest == SubSeq(batch, s.skip + 1, Len(batch))
             taken == Min({s.send, Len(rest)})
         IN  [s EXCEPT !.send = @ - taken, !.out = @ \o SubSeq(rest, 1, taken),
                       !.pc = IF s.send = taken THEN "done" ELSE @]

\* LIMIT on one batch: skip, cut, and stop as soon as enough was sent.
makeLimit(s, batch) ==
    IF s.q.limit = <<>> THEN [s EXCEPT !.out = @ \o batch]
    ELSE IF s.skip >= Len(batch) THEN [s EXCEPT !.skip = @ - Len(batch)]
    ELSE LET rest == SubSeq(batch, s.skip + 1, Len(batch))
             taken == Min({s.send, Len(rest)})
         IN  [s EXCEPT !.skip = 0, !.send = @ - taken, !.out = @ \o SubSeq(rest, 1, taken),
                       !.pc = IF s.send = taken THEN "done" ELSE @]

\* A batch of results widens the columns and goes to the reader.
Deliver(s, entries) == [s EXCEPT !.cols = WidenColumns(@, entries)]

\* The client is told the columns before it pulls another batch.
Described == sel.reader = "internal" \/ sel.out = <<>> \/ sel.columns # <<>>

Singles(rows) == [i \in DOMAIN rows |-> <<rows[i]>>]
ReadPage ==
    /\ sel.pc = "rows" /\ Described
    /\ sel.next \in DOMAIN sel.pages
    /\ LET kept == SelectSeq(sel.pages[sel.next], LAMBDA row :
                       sel.q.where = <<>> \/ Truthy(sel.values[sel.q.where[1]][row].val))
           read == [sel EXCEPT !.next = @ + 1, !.reads = Max({@, sel.next})]
       IN  \E entries \in {makeResults(sel, Singles(kept))} :
               sel' = IF Buffered(sel.q) THEN [read EXCEPT !.buffer = @ \o kept]
                      ELSE IF kept = <<>> THEN read
                      ELSE makeLimit(Deliver(read, entries), entries)

\* The rows are all there: group, compute, sort, cut.
EndOfRows ==
    /\ sel.pc = "rows" /\ Described
    /\ sel.next \notin DOMAIN sel.pages
    /\ LET q == sel.q
           groups == IF q.group # <<>> THEN formGroup(q, sel.buffer, sel.values)
                     ELSE IF hasAggregate(q) THEN formImplicitGroup(sel.buffer)
                     ELSE Singles(sel.buffer)
       IN  \E entries \in {makeResults(sel, groups)} :
               sel' = [IF Buffered(q)
                       THEN makeLimit(Deliver(sel, entries),
                                      Sorted(q, sel.exprs, entries, sel.values))
                       ELSE sel EXCEPT !.pc = "done"]

\* calcColumns: after the first batch with rows for a client, at the end
\* otherwise.
Describe ==
    /\ sel.columns = <<>>
    /\ sel.pc = "done" \/ (sel.reader = "query" /\ sel.out # <<>>)
    /\ sel' = [sel EXCEPT !.columns = <<[cols |-> calcColumns(sel.cols), type |-> sel.cols,
                                         rows |-> Len(sel.out)]>>]

SelectNext == Open \/ ReadPage \/ EndOfRows \/ Describe

-----------------------------------------------------------------------------
(* Properties.                                                             *)

\* The rows the query is about, and its result rows without order: one for a
\* row, or one for the rows with the same keys.
Matching(s) == SelectSeq(FlattenSeq(s.pages), LAMBDA row :
    s.q.where = <<>> \/ Truthy(s.values[s.q.where[1]][row].val))
Classes(s, rows, exprs) ==
    LET all == DOMAIN rows
        KeyOf(row) == [i \in DOMAIN exprs |-> StringOf(s.values[exprs[i]][row].val)]
    IN  IF s.q.group # <<>>
        THEN IF exprs = <<>> THEN {}
             ELSE {{j \in all : KeyOf(rows[j]) = KeyOf(rows[i])} : i \in all}
        ELSE IF hasAggregate(s.q) THEN {all} \ {{}}
        ELSE {{i} : i \in all}

\* What each aggregate is to return, from the numbers of a class alone: vals
\* has its argument's value for each member.
ClassValue(e, class, vals) ==
    LET known == {i \in class : vals[i] # Nul}
        number(i) == convertNum(vals[i])[2]
        n == Cardinality(known)
        total == MapThenSumSet(number, known)
        squares == n * MapThenSumSet(LAMBDA i : number(i) * number(i), known) - total * total
        bit(k, i) == (Bits(number(i)) \div 2 ^ k) % 2
        ofBits(Has(_)) == MapThenSumSet(LAMBDA k : 2 ^ k, {k \in 0..(Width - 1) : Has(k)})
    IN  CASE e[1] \notin Aggregates -> vals[Min(class)]
          [] e[1] = "count" -> NumV(n)
          [] e[1] = "sum" -> IF known # class THEN Nul ELSE NumV(total)
          [] e[1] = "avg" -> IF n = 0 THEN Nul ELSE Frac(total, n)
          [] e[1] \in {"min", "max"} ->
                 IF n = 0 THEN Nul
                 ELSE vals[CHOOSE i \in known : \A j \in known :
                          IF e[1] = "min" THEN number(i) <= number(j) ELSE number(j) <= number(i)]
          [] e[1] = "var_pop" -> IF n = 0 THEN Nul ELSE Frac(n * squares, n * n * n)
          [] e[1] = "stddev_pop" -> IF n = 0 THEN Nul ELSE Root(n * squares, n * n * n)
          [] e[1] = "var_samp" -> IF n < 2 THEN Nul ELSE Frac(n * squares, n * n * (n - 1))
          [] e[1] = "stddev_samp" -> IF n < 2 THEN Nul ELSE Root(n * squares, n * n * (n - 1))
          [] e[1] = "bit_and" -> NumV(ofBits(LAMBDA k : \A i \in known : bit(k, i) = 1))
          [] e[1] = "bit_or" -> NumV(ofBits(LAMBDA k : \E i \in known : bit(k, i) = 1))
          [] e[1] = "bit_xor" -> NumV(ofBits(LAMBDA k : MapThenSumSet(LAMBDA i : bit(k, i), known) % 2 = 1))

\* A class by the values of expressions: those of the columns (its reference
\* row) and those of the ORDER BY terms.
ClassValues(s, rows, class, exprs) ==
    [j \in DOMAIN exprs |->
        LET e == exprs[j]
            value == ClassValue(IF IsAggregate(e) THEN Inner(e) ELSE e, class,
                                [i \in class |-> s.values[Argument(e)][rows[i]].val])
        IN  IF e[1] = "neg" /\ IsAggregate(e) THEN NumV(-value[2]) ELSE value]
TermExprs(s) ==
    [t \in DOMAIN s.q.order |->
        LET by == s.q.order[t].by IN IF by[1] = "ordinal" THEN s.exprs[by[2]] ELSE by]
Info(s, rows, class) ==
    [row |-> ClassValues(s, rows, class, s.exprs),
     keys |-> ClassValues(s, rows, class, TermExprs(s))]

\* NULL comes first, numbers and numerals by their number, texts by the
\* collation.
SqlBelow(v, w, ci) ==
    LET Fold(x) == CodeRank(IF ci THEN CaseFold(x[2]) ELSE x[2])
        IsNumber(x) == Kind(x) = "number" \/ (Kind(x) = "text" /\ x[2] \in Numerals \cup {"-1"})
    IN  CASE v = Nul -> w # Nul
          [] w = Nul -> FALSE
          [] Kind(v) = "fraction" -> v[2] * w[3] < w[2] * v[3]
          [] IsNumber(v) -> convertNum(v)[2] < convertNum(w)[2]
          [] OTHER -> Fold(v) < Fold(w)
TermCi(s, t) == LET e == TermExprs(s)[t] IN e[1] = "col" /\ ColumnCollation[e[2]] = "ci"

\* Class a has to come before class b, by their keys: the first term that tells
\* them apart, and where none does rows stay as they were read.
Before(s, a, b, x, y) ==
    LET order == s.q.order
        sooner(t) == SqlBelow(x[t], y[t], TermCi(s, t))
        later(t) == SqlBelow(y[t], x[t], TermCi(s, t))
        differ == {t \in DOMAIN order : sooner(t) \/ later(t)}
    IN  IF differ # {}
        THEN \E t \in differ : t = Min(differ) /\ IF order[t].desc THEN later(t) ELSE sooner(t)
        ELSE s.q.group = <<>> /\ Min(a) < Min(b)

\* The i-th row sent has the values of a class that belongs at that place (as
\* many classes come before it as before the row, give or take those it ties
\* with), and no class is sent twice.
RightRows(s, info, ahead) ==
    LET classes == DOMAIN info
        rank(c) == Cardinality({d \in classes : <<d, c>> \in ahead})
        after(c) == Cardinality({d \in classes : <<c, d>> \in ahead})
        skip == IF s.q.limit = <<>> THEN 0 ELSE s.q.limit[1]
        values(i) == [j \in DOMAIN s.exprs |-> s.out[i].result[j].val]
        total == Max({0, Cardinality(classes) - skip})
    IN  /\ Len(s.out) = IF s.q.limit = <<>> THEN total ELSE Min({total, s.q.limit[2]})
        /\ \A i \in DOMAIN s.out :
               LET equals == {c \in classes : info[c].row = values(i)}
               IN  /\ Cardinality({j \in DOMAIN s.out : values(j) = values(i)})
                          <= Cardinality(equals)
                   /\ \E c \in equals : /\ rank(c) <= skip + i - 1
                                        /\ skip + i - 1 < Cardinality(classes) - after(c)
RightOrder(s, info) ==
    RightRows(s, info, {p \in (DOMAIN info) \X (DOMAIN info) :
                           Before(s, p[1], p[2], info[p[1]].keys, info[p[2]].keys)})
RightResult(s, rows) ==
    RightOrder(s, [c \in Classes(s, rows, GroupExprs(s.q)) |-> Info(s, rows, c)])

\* A query that can stop early reads no page after the one its LIMIT ends in.
LimitStops(s) ==
    LET enough(p) == Len(Matching([s EXCEPT !.pages = SubSeq(@, 1, p)]))
                         >= Max({s.q.limit[1] + s.q.limit[2], s.q.limit[1] + 1})
    IN  (~Buffered(s.q) /\ s.q.limit # <<>>)
            => \A p \in 1..(s.reads - 1) : ~enough(p)

\* A SELECT sends what SQL says over all rows of the table, however they are
\* paged: the rows or groups WHERE, GROUP BY and the aggregates make, in the
\* order of ORDER BY, cut by LIMIT, reading no more pages than LIMIT needs
\* (select_handler.ts, group.ts, sort.ts, aggregate_functions.ts; README.md:43-45).
SelectIsSql == sel.pc = "done" => RightResult(sel, Matching(sel)) /\ LimitStops(sel)

\* By the description of the columns, made from the first rows alone, the
\* client sees the value of every cell of a type the description covers, and
\* NULL only where it is NULL
\* (select_handler.ts:71-96, column_type_helper.ts, type_cast_helper.ts).
ClientSeesValues ==
    (sel.pc \in {"rows", "done"} /\ sel.columns # <<>>) =>
        LET told == Head(sel.columns)
            Covered(i, r, j) == i <= told.rows \/ unionColumnType(told.type[j].type, r.type)
                                                     = told.type[j].type
            Seen(v, type) == IF Kind(v) \in {"fraction", "root"} THEN typeCast(v, type) = v
                             ELSE StringOf(typeCast(v, type)) = StringOf(v)
        IN  \A i \in DOMAIN sel.out : \A j \in DOMAIN sel.exprs :
                Covered(i, sel.out[i].result[j], j)
                    => Seen(sel.out[i].result[j].val, told.cols[j])
=============================================================================
