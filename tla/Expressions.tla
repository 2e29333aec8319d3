----------------------------- MODULE Expressions -----------------------------
(***************************************************************************)
(* getValue (expression/evaluate.ts) and the operators and functions it    *)
(* dispatches to, over the values of Values: comparison, logic, arithmetic,*)
(* CASE, IF and their kind, CAST, and the collation a comparison uses.     *)
(*                                                                         *)
(* An expression is a tuple that starts with its operator.  The columns of *)
(* the row come as DynamoDB attributes (raw tables) or as typed cells      *)
(* (memory tables); without a row a column is an error.                    *)
(***************************************************************************)
EXTENDS Values, FiniteSetsExt

CONSTANT
    ColumnCollation   \* of each <<table, column>>: "ci", "bin" or "none"

ConnectionCollation == "ci"
NoRow == [none |-> TRUE]

\* A literal is kept as it is written; the backslash in front of a letter goes.
UnescapeLiteral(raw) == IF raw = "\\a" THEN "a" ELSE raw

Res(type, val) == [err |-> "", type |-> type, val |-> val]
Err(e) == [err |-> e, type |-> "null", val |-> Undef]
Bool(val) == Res("bool", val)
Fails(results) == \E i \in DOMAIN results : results[i].err # ""
FirstErr(results) == results[CHOOSE i \in DOMAIN results :
    /\ results[i].err # ""
    /\ \A j \in 1..(i - 1) : results[j].err = ""]

-----------------------------------------------------------------------------
(* Collation: the operand of the strongest coercibility decides; two       *)
(* columns, or two COLLATE clauses, that disagree are an error.            *)

RECURSIVE collationOf(_)
aggregateCollation(exprs) ==
    LET found == {collationOf(e) : e \in exprs}
        best == {c \in found : \A d \in found : c.coercibility <= d.coercibility}
    IN  IF found = {} THEN [collation |-> "none", coercibility |-> 6]
        ELSE IF Cardinality(best) > 1
             THEN [collation |-> "conflict",
                   coercibility |-> (CHOOSE c \in best : TRUE).coercibility]
             ELSE CHOOSE c \in best : TRUE

collationOf(e) ==
    CASE e[1] = "str" /\ e[3] # "" -> [collation |-> e[3], coercibility |-> 0]
      [] e[1] = "str" -> [collation |-> ConnectionCollation, coercibility |-> 4]
      [] e[1] = "char" -> [collation |-> ConnectionCollation, coercibility |-> 4]
      [] e[1] = "col" /\ ColumnCollation[e[2]] # "none" ->
             [collation |-> ColumnCollation[e[2]], coercibility |-> 2]
      [] e[1] \in {"not", "neg"} -> collationOf(e[2])
      [] e[1] \in {"in", "not in", "between", "not between", "is", "is not"} ->
             collationOf(e[2])
      [] e[1] \in {"=", "<=>", "!=", ">", "<", ">=", "<=", "and", "or", "xor",
                   "+", "-", "*", "%", "div"} ->
             aggregateCollation({e[2], e[3]})
      [] OTHER -> [collation |-> "none", coercibility |-> 6]

getExprCollation(exprs) == aggregateCollation(Range(exprs)).collation
getExprCoercibility(exprs) == aggregateCollation(Range(exprs)).coercibility

-----------------------------------------------------------------------------
(* Comparison.                                                             *)

\* The two values as they are compared: both numbers or both texts.
convertCompare(l, r) ==
    IF Nul \in {l.val, r.val} THEN <<Nul, Nul>>
    ELSE IF l.val = r.val /\ Kind(l.val) # "number"
    THEN <<TextV(StringOf(l.val)), TextV(StringOf(r.val))>>
    ELSE IF "number" \in {Kind(l.val), Kind(r.val), l.type, r.type}
    THEN <<convertNum(l.val), convertNum(r.val)>>
    ELSE <<TextV(TrimEnd(StringOf(l.val))), TextV(TrimEnd(StringOf(r.val)))>>

\* Their order as -1, 0 or 1, and an error where two collations conflict.
Order(pair, collation) ==
    IF pair[1] = pair[2] THEN 0
    ELSE IF Kind(pair[1]) = "number" THEN Sign(pair[1][2] - pair[2][2])
    ELSE stringCompare(pair[1][2], pair[2][2], collation)
Conflict(pair, collation) ==
    /\ collation = "conflict"
    /\ pair[1] # pair[2]
    /\ Kind(pair[1]) = "text"

Compare(l, r, exprs, Test(_)) ==
    LET pair == convertCompare(l, r)
        collation == getExprCollation(exprs)
    IN  IF Fails(<<l, r>>) THEN FirstErr(<<l, r>>)
        ELSE IF pair[1] = Nul THEN Bool(Nul)
        ELSE IF Conflict(pair, collation) THEN Err("ER_CANT_AGGREGATE_2COLLATIONS")
        ELSE Bool(Bit(Test(Order(pair, collation))))

IsZero(n) == n = 0
IsPositive(n) == n > 0
NotNegative(n) == n >= 0

equal(l, r, exprs) == Compare(l, r, exprs, IsZero)
nullSafeEqual(l, r, exprs) ==
    IF ~Fails(<<l, r>>) /\ Nul \in {l.val, r.val} THEN Bool(Bit(l.val = r.val))
    ELSE equal(l, r, exprs)

\* A truth value turned round, an error or NULL left as it is.
Negated(res) == IF res.err # "" \/ res.val = Nul THEN res
                ELSE Bool(Bit(~Truthy(res.val)))

gt(l, r, exprs) == Compare(l, r, exprs, IsPositive)
gte(l, r, exprs) == Compare(l, r, exprs, NotNegative)
\* a < b and a <= b are evaluated as b > a and b >= a.
lt(l, r, exprs) == gt(r, l, exprs)
lte(l, r, exprs) == gte(r, l, exprs)

\* One item of an IN list: sets NULL, sets 1 and ends the list, or neither.
InStep(l, collation, items) ==
    LET Step(acc, i) ==
            LET r == items[i]
                pair == convertCompare(l, r)
            IN  IF acc.stop THEN acc
                ELSE IF r.err # "" THEN [res |-> r, stop |-> TRUE]
                ELSE IF r.val = Nul THEN [res |-> Bool(Nul), stop |-> FALSE]
                ELSE IF Order(pair, collation) = 0
                THEN [res |-> Bool(NumV(1)), stop |-> TRUE]
                ELSE acc
    IN  FoldLeftDomain(Step, [res |-> Bool(NumV(0)), stop |-> FALSE], items).res

inOp(l, items, exprs) ==
    IF l.err # "" THEN l
    ELSE IF l.val = Nul THEN Bool(Nul)
    ELSE IF getExprCollation(exprs) = "conflict"
    THEN Err("ER_CANT_AGGREGATE_2COLLATIONS")
    ELSE InStep(l, getExprCollation(exprs), items)

between(v, min, max, exprs) ==
    LET low == gte(v, min, <<exprs[1], exprs[2]>>)
        high == lte(v, max, <<exprs[1], exprs[3]>>)
    IN  IF Fails(<<v, min, max>>) THEN FirstErr(<<v, min, max>>)
        ELSE IF Nul \in {v.val, min.val, max.val} THEN Bool(Nul)
        ELSE IF Fails(<<low, high>>) THEN FirstErr(<<low, high>>)
        ELSE Bool(Bit(Truthy(low.val) /\ Truthy(high.val)))

nullif(a, b) ==
    LET pair == convertCompare(a, b)
    IN  IF Fails(<<a, b>>) THEN FirstErr(<<a, b>>)
        ELSE Res(a.type, IF pair[1] # Nul /\ pair[1] = pair[2] THEN Nul ELSE a.val)

-----------------------------------------------------------------------------
(* Logic: the right side of AND and OR is only evaluated if it matters.    *)

\* mutant: FALSE on the right no longer wins over NULL on the left.
AndLeftNull(l, r) ==
    LET a == convertBooleanValue(l.val)
        b == convertBooleanValue(r.val)
    IN  IF l.err # "" THEN l
        ELSE IF a = NumV(0) THEN Bool(a)
        ELSE IF r.err # "" THEN r
        ELSE IF Nul \in {a, b} THEN Bool(Nul)
        ELSE Bool(b)

and(l, r) ==
    LET a == convertBooleanValue(l.val)
        b == convertBooleanValue(r.val)
    IN  IF l.err # "" THEN l
        ELSE IF a = NumV(0) THEN Bool(a)
        ELSE IF r.err # "" THEN r
        ELSE IF b = NumV(0) THEN Bool(b)
        ELSE Bool(IF Nul \in {a, b} THEN Nul ELSE NumV(1))

or(l, r) ==
    LET a == convertBooleanValue(l.val)
        b == convertBooleanValue(r.val)
    IN  IF l.err # "" THEN l
        ELSE IF a = NumV(1) THEN Bool(a)
        ELSE IF r.err # "" THEN r
        ELSE IF b = NumV(1) THEN Bool(b)
        ELSE Bool(IF a = Nul THEN a ELSE b)

xor(l, r) ==
    LET a == convertBooleanValue(l.val)
        b == convertBooleanValue(r.val)
    IN  IF Fails(<<l, r>>) THEN FirstErr(<<l, r>>)
        ELSE Bool(IF Nul \in {a, b} THEN Nul ELSE Bit(a # b))

\* IS NULL, IS TRUE, IS FALSE; anything else on the right is an error.
is(l, right) ==
    IF l.err # "" THEN l
    ELSE CASE right = <<"null">> -> Bool(Bit(l.val = Nul))
           [] right = <<"bool", TRUE>> -> Bool(Bit(convertBooleanValue(l.val) = NumV(1)))
           [] right = <<"bool", FALSE>> -> Bool(Bit(convertBooleanValue(l.val) = NumV(0)))
           [] OTHER -> Err("syntax_err")

not(v) == IF v.err # "" \/ v.val = Nul THEN [v EXCEPT !.type = "bool"]
          ELSE Bool(Bit(~Truthy(convertNum(v.val))))

-----------------------------------------------------------------------------
(* Arithmetic.  A bigint on either side makes the result one.              *)

TruncDiv(a, b) == Sign(a) * Sign(b) * ((a * Sign(a)) \div (b * Sign(b)))
\* The remainder has the sign of the dividend.
Remainder(a, b) == a - b * TruncDiv(a, b)

unionNumberType(type1, type2, default) ==
    LET types == {IF t \in {"year", "bool"} THEN "longlong" ELSE t : t \in {type1, type2}}
    IN  IF types \cap {"string", "text"} # {} THEN "double"
        ELSE IF Cardinality(types) = 1 THEN CHOOSE t \in types : TRUE
        ELSE IF "double" \in types THEN "double"
        ELSE IF "number" \in types THEN "number"
        ELSE default

NumBothSides(l, r, Op(_, _)) ==
    LET big == "bigint" \in {Kind(l.val), Kind(r.val)}
    IN  IF Fails(<<l, r>>) THEN FirstErr(<<l, r>>)
        ELSE IF Nul \in {l.val, r.val}
        THEN Res(IF "null" \in {l.type, r.type} THEN "double"
                 ELSE unionNumberType(l.type, r.type, "number"), Nul)
        ELSE Res(unionNumberType(l.type, r.type, IF big THEN "longlong" ELSE "number"),
                 LET n == Op(convertNum(l.val)[2], convertNum(r.val)[2])
                 IN  IF big THEN BigV(n) ELSE NumV(n))

plus(l, r) == NumBothSides(l, r, LAMBDA a, b : a + b)
minus(l, r) == NumBothSides(l, r, LAMBDA a, b : a - b)
mul(l, r) == NumBothSides(l, r, LAMBDA a, b : a * b)

\* DIV and % of nothing or by zero are NULL.
DivisorFails(l, r) ==
    \/ Nul \in {l.val, r.val}
    \/ convertNum(r.val) = NumV(0)

intDiv(l, r) ==
    IF Fails(<<l, r>>) THEN FirstErr(<<l, r>>)
    ELSE Res("longlong", IF DivisorFails(l, r) THEN Nul
                         ELSE NumV(TruncDiv(convertNum(l.val)[2], convertNum(r.val)[2])))

mod(l, r) ==
    LET types == {l.type, r.type}
    IN  IF Fails(<<l, r>>) THEN FirstErr(<<l, r>>)
        ELSE Res(IF types \cap {"double", "null", "string", "text"} # {} THEN "double"
                 ELSE IF "number" \in types THEN "number" ELSE "longlong",
                 IF DivisorFails(l, r) THEN Nul
                 ELSE NumV(Remainder(convertNum(l.val)[2], convertNum(r.val)[2])))

neg(v) == IF v.err # "" THEN v
          ELSE IF v.val = Nul THEN Res("double", Nul)
          ELSE Res(IF v.type = "string" THEN "double" ELSE v.type,
                   NumV(-convertNum(v.val)[2]))

-----------------------------------------------------------------------------
(* The type of a result chosen among several, and the functions that       *)
(* choose.                                                                 *)

unionType(results) ==
    LET types == {IF r.type = "bool" THEN "longlong" ELSE r.type : r \in Range(results)}
        strongest == SelectSeq(<<"string", "double", "number">>, LAMBDA t : t \in types)
    IN  IF types \cap {"datetime", "date", "time"} # {}
        THEN IF types \subseteq {"time", "null"} THEN "time"
             ELSE IF ~(types \subseteq {"datetime", "date", "time", "null"}) THEN "string"
             ELSE IF "datetime" \in types \/ "time" \in types THEN "datetime"
             ELSE "date"
        ELSE IF strongest # <<>> THEN Head(strongest)
        ELSE IF types \ {"null"} = {"year"} THEN "year"
        ELSE IF types \cap {"longlong", "year"} # {} THEN "longlong"
        ELSE IF types \subseteq {"null"} THEN "null"
        ELSE "string"

unionValue(v, type) == IF type = "number" /\ Kind(v) = "bigint" THEN NumV(v[2]) ELSE v

Chosen(v, results) == Res(unionType(results), unionValue(v, unionType(results)))

coalesce(results) ==
    LET known == SelectSeq(results, LAMBDA r : r.val # Nul)
    IN  IF Fails(results) THEN FirstErr(results)
        ELSE Chosen(IF known = <<>> THEN Nul ELSE Head(known).val, results)

ifnull(a, b) == IF Fails(<<a, b>>) THEN FirstErr(<<a, b>>)
                ELSE Chosen(IF a.val # Nul THEN a.val ELSE b.val, <<a, b>>)

ifFunc(cond, a, b) ==
    IF Fails(<<cond, a, b>>) THEN FirstErr(<<cond, a, b>>)
    ELSE Chosen(IF convertNum(cond.val) \in {Nul, NumV(0)} THEN b.val ELSE a.val, <<a, b>>)

\* GREATEST (way 1) and LEAST (way -1): NULL as soon as one argument is.
Extreme(results, exprs, way) ==
    LET type == unionType(results)
        collation == getExprCollation(exprs)
        As(v) == IF type \in {"longlong", "year", "double", "number"} THEN convertNum(v)
                 ELSE TextV(StringOf(v))
        Better(v, best) == Order(<<As(v), best>>, collation) = way
    IN  IF collation = "conflict" THEN Err("ER_CANT_AGGREGATE_2COLLATIONS")
        ELSE IF Fails(results) THEN FirstErr(results)
        ELSE IF \E r \in Range(results) : r.val = Nul THEN Res(type, Nul)
        ELSE Res(type, FoldLeft(LAMBDA best, r : IF Better(r.val, best) THEN As(r.val) ELSE best,
                                As(results[1].val), results))

\* Every result is evaluated, a condition only while none has matched; the
\* type is that of all results together.
caseExpr(operand, conds, results, elseResult, exprs) ==
    LET collation == getExprCollation(exprs)
        Matches(c) ==
            IF operand = <<>> THEN convertBooleanValue(c.val) = NumV(1)
            ELSE LET pair == convertCompare(operand[1], c)
                 IN  pair[1] # Nul /\ Order(pair, collation) = 0
        hits == {i \in DOMAIN conds : conds[i].err = "" /\ Matches(conds[i])}
        first == IF hits = {} THEN Len(conds) + 1 ELSE Min(hits)
        all == results \o (IF elseResult = <<>> THEN <<Res("null", Nul)>> ELSE elseResult)
    IN  IF Fails(operand) THEN FirstErr(operand)
        ELSE IF operand # <<>> /\ collation = "conflict"
        THEN Err("ER_CANT_AGGREGATE_2COLLATIONS")
        ELSE IF \E i \in DOMAIN conds : i < first /\ conds[i].err # ""
        THEN FirstErr(conds)
        ELSE IF Fails(all) THEN FirstErr(all)
        ELSE Chosen(all[first].val, all)

\* CAST: SIGNED makes a bigint, CHAR a text, DECIMAL and DOUBLE a number.
castAs(target, v) ==
    LET type == CASE target = "signed" -> "longlong" [] target = "char" -> "string"
                  [] target = "decimal" -> "number" [] OTHER -> "double"
    IN  IF v.err # "" THEN v
        ELSE IF v.val = Nul THEN Res(type, Nul)
        ELSE Res(type, CASE target = "signed" -> convertBigInt(v.val)
                         [] target = "char" -> TextV(StringOf(v.val))
                         [] OTHER -> convertNum(v.val))

-----------------------------------------------------------------------------
\* The value of a cell: a typed one of a memory table, or an attribute.
decodeCell(cell) ==
    CASE cell[1] = "cell" -> Res(cell[2], cell[3])
      [] cell[1] = "S" -> Res("string", TextV(cell[2]))
      [] cell[1] = "N" -> Res("number", TextV(cell[2]))
      [] OTHER -> Res("null", Nul)

columnValue(column, row) ==
    IF row = NoRow THEN Err("no_row_list") ELSE decodeCell(row[column])

RECURSIVE getValue(_, _)
Values2(e, row) == <<getValue(e[2], row), getValue(e[3], row)>>
ValuesOf(exprs, row) == [i \in DOMAIN exprs |-> getValue(exprs[i], row)]
Apply(Op(_, _), e, row) == Op(getValue(e[2], row), getValue(e[3], row))
ApplyComparison(Op(_, _, _), e, row) ==
    Op(getValue(e[2], row), getValue(e[3], row), <<e[2], e[3]>>)

\* A CASE is <<"case", operand, conditions, results, else>>, the operand and
\* the else sequences of none or one.
CaseOf(e, row) ==
    caseExpr(ValuesOf(e[2], row), ValuesOf(e[3], row), ValuesOf(e[4], row),
             ValuesOf(e[5], row), e[2] \o e[3])

comparisonValue(e, row) ==
    CASE e[1] = "=" -> ApplyComparison(equal, e, row)
      [] e[1] = "<=>" -> ApplyComparison(nullSafeEqual, e, row)
      [] e[1] = "!=" -> Negated(ApplyComparison(equal, e, row))
      [] e[1] = ">" -> ApplyComparison(gt, e, row)
      [] e[1] = "<" -> ApplyComparison(lt, e, row)
      [] e[1] = ">=" -> ApplyComparison(gte, e, row)
      [] e[1] = "<=" -> ApplyComparison(lte, e, row)
      [] e[1] = "in" -> inOp(getValue(e[2], row), ValuesOf(e[3], row), <<e[2]>> \o e[3])
      [] e[1] = "not in" -> Negated(getValue(<<"in", e[2], e[3]>>, row))
      [] e[1] = "between" ->
             between(getValue(e[2], row), getValue(e[3], row), getValue(e[4], row), Tail(e))
      [] e[1] = "not between" -> Negated(getValue(<<"between", e[2], e[3], e[4]>>, row))

functionValue(e, row) ==
    CASE e[1] = "coalesce" -> coalesce(ValuesOf(e[2], row))
      [] e[1] = "ifnull" -> Apply(ifnull, e, row)
      [] e[1] = "if" -> ifFunc(getValue(e[2], row), getValue(e[3], row), getValue(e[4], row))
      [] e[1] = "nullif" -> Apply(nullif, e, row)
      [] e[1] = "greatest" -> Extreme(ValuesOf(e[2], row), e[2], 1)
      [] e[1] = "least" -> Extreme(ValuesOf(e[2], row), e[2], -1)
      [] e[1] = "case" -> CaseOf(e, row)
      [] e[1] \in {"signed", "char", "decimal", "double"} -> castAs(e[1], getValue(e[2], row))

operatorValue(e, row) ==
    CASE e[1] = "and" -> Apply(and, e, row)
      [] e[1] = "or" -> Apply(or, e, row)
      [] e[1] = "xor" -> Apply(xor, e, row)
      [] e[1] = "not" -> not(getValue(e[2], row))
      [] e[1] = "is" -> is(getValue(e[2], row), e[3])
      [] e[1] = "is not" -> Negated(is(getValue(e[2], row), e[3]))
      [] e[1] = "+" -> Apply(plus, e, row)
      [] e[1] = "-" -> Apply(minus, e, row)
      [] e[1] = "*" -> Apply(mul, e, row)
      [] e[1] = "div" -> Apply(intDiv, e, row)
      [] e[1] = "%" -> Apply(mod, e, row)
      [] e[1] = "neg" -> neg(getValue(e[2], row))

Comparisons == {"=", "<=>", "!=", ">", "<", ">=", "<=", "in", "not in", "between", "not between"}
Operators == {"and", "or", "xor", "not", "is", "is not", "+", "-", "*", "div", "%", "neg"}

getValue(e, row) ==
    CASE e[1] = "num" -> Res("longlong", NumV(e[2]))
      [] e[1] = "dec" -> Res("number", NumV(e[2]))
      [] e[1] = "str" -> Res("string", TextV(UnescapeLiteral(e[2])))
      [] e[1] = "null" -> Res("null", Nul)
      [] e[1] = "bool" -> Bool(Bit(e[2]))
      [] e[1] = "col" -> columnValue(e[2], row)
      [] e[1] \in Comparisons -> comparisonValue(e, row)
      [] e[1] \in Operators -> operatorValue(e, row)
      [] OTHER -> functionValue(e, row)

\* The expressions directly in an expression, and all there are in it.
Operands(e) ==
    CASE e[1] \in {"num", "dec", "str", "null", "bool", "col"} -> <<>>
      [] e[1] \in {"coalesce", "greatest", "least"} -> e[2]
      [] e[1] \in {"in", "not in"} -> <<e[2]>> \o e[3]
      [] e[1] = "case" -> e[2] \o e[3] \o e[4] \o e[5]
      [] OTHER -> Tail(e)
RECURSIVE SubExprs(_)
SubExprs(e) == {e} \cup UNION {SubExprs(part) : part \in Range(Operands(e))}
=============================================================================
