----------------------------- MODULE Conditions -----------------------------
(***************************************************************************)
(* A WHERE clause on a raw table: convertWhere translates what it can into *)
(* a PartiQL condition, DynamoDB applies that, and a SELECT applies the    *)
(* whole clause again to the rows that come back.  A single-statement      *)
(* UPDATE or DELETE applies the PartiQL condition only.                    *)
(*                                                                         *)
(* One row stands for the table, as no row's fate depends on another.      *)
(* DynamoDB's side (external) compares values of one type only: where the  *)
(* types differ or the attribute is absent only != may hold.               *)
(***************************************************************************)
EXTENDS Expressions

CONSTANTS
    Where,    \* the WHERE clauses
    Rows,     \* the rows: functions from <<table, column>> to cells
    Pushed    \* the table the condition is sent for

VARIABLE cond
\* purpose "select" or "single"; values what each part of the clause evaluates
\* to; sent the condition DynamoDB got ("none": no WHERE, "refused": no single
\* statement); served whether the row came back; kept whether the statement
\* works on it.

Purposes == {"select", "single"}
Idle == [pc |-> "idle"]

-----------------------------------------------------------------------------
(* Translation.  The value is null, a number, a boolean, a literal, an     *)
(* attribute or a condition; err is "", "unsupported" or "syntax_err".     *)

Ok(value) == [err |-> "", value |-> value]
Not_(err) == [err |-> err, value |-> Nul]
Unsupported == Not_("unsupported")
Set(value) == ~(value \in {Nul, NumV(0), <<"bool", FALSE>>})   \* as JavaScript tests it
One == NumV(1)

hasExplicitCaseInsensitiveCollation(exprs) ==
    /\ getExprCoercibility(exprs) = 0
    /\ isCaseInsensitive(getExprCollation(exprs))

\* "NOT " goes in front of the text: of (a) AND (b) it negates a only.
RECURSIVE PrefixNot(_)
PrefixNot(value) == IF value[1] \in {"and", "or"}
                    THEN <<value[1], PrefixNot(value[2]), value[3]>>
                    ELSE <<"not", value>>

\* A literal goes in as it is written, its escapes with it.
\* A sub-expression that needs no row is evaluated on the spot; a text goes
\* in without quotes, so DynamoDB takes it for the name of an attribute.
IsConstant(e, values) == values[e].none.err = ""
Constant(v) == IF Kind(v) = "text" THEN <<"attribute", <<"?", v[2]>>>>
               ELSE IF v = Nul THEN v ELSE NumV(v[2])

\* mutant: a single statement also leaves out what cannot be translated.
WeakenAlways(part, default_true) == IF part.err = "unsupported" THEN Ok(One) ELSE part

\* What cannot be translated counts as true, so AND keeps its other side.
Weaken(part, default_true) ==
    IF part.err = "unsupported" /\ default_true THEN Ok(One) ELSE part

convertAnd(l0, r0, default_true) ==
    LET l == Weaken(l0, default_true)
        r == Weaken(r0, default_true)
    IN  [err |-> IF l.err # "" THEN l.err ELSE r.err,
         value |-> IF ~Set(l.value) \/ ~Set(r.value) THEN NumV(0)
                   ELSE IF r.value = One THEN l.value
                   ELSE IF l.value = One THEN r.value
                   ELSE <<"and", l.value, r.value>>]

\* mutant: OR drops the side that cannot be translated, as AND does.
OrKeepsOther(l, r, default_true) ==
    IF l.err = "unsupported" /\ default_true THEN r
    ELSE IF r.err = "unsupported" /\ default_true THEN l
    ELSE [err |-> IF l.err # "" THEN l.err ELSE r.err, value |-> <<"or", l.value, r.value>>]

convertOr(l, r, default_true) ==
    LET err == IF l.err # "" THEN l.err ELSE r.err
    IN  IF err = "unsupported" /\ default_true THEN Ok(One)
        ELSE [err |-> err,
              value |-> IF ~Set(l.value) /\ ~Set(r.value) THEN NumV(0)
                        ELSE IF One \in {l.value, r.value} THEN One
                        ELSE IF ~Set(r.value) THEN l.value
                        ELSE IF ~Set(l.value) THEN r.value
                        ELSE <<"or", l.value, r.value>>]

\* The list ends before its first NULL: ??= takes the null for "not set yet".
convertIn(l, items, exprs) ==
    LET nulls == {i \in DOMAIN items : items[i].err = "" /\ items[i].value = Nul}
        fails == {i \in DOMAIN items : items[i].err # ""}
        last == Min({Len(items) + 1} \cup nulls \cup fails) - 1
    IN  IF l.err # "" THEN l
        ELSE IF l.value = Nul THEN Ok(Nul)
        ELSE IF hasExplicitCaseInsensitiveCollation(exprs) THEN Unsupported
        ELSE [err |-> IF last + 1 \in fails THEN items[last + 1].err ELSE "",
              value |-> <<"in", l.value, [i \in 1..last |-> items[i].value]>>]

convertNullSafe(l, r, lConstant, rConstant) ==
    LET absent(v) == <<"absent", v>>
    IN  IF l.err # "" THEN l
        ELSE IF r.err # "" THEN r
        ELSE Ok(IF l.value = Nul THEN absent(r.value)
                ELSE IF r.value = Nul THEN absent(l.value)
                ELSE IF lConstant \/ rConstant THEN <<"=", l.value, r.value>>
                ELSE <<"or", <<"=", l.value, r.value>>,
                             <<"and", absent(l.value), absent(r.value)>>>>)

convertIs(l, op, right) ==
    IF l.err # "" THEN l
    ELSE IF right[1] \notin {"null", "bool"} THEN Not_("syntax_err")
    ELSE Ok(CASE right = <<"null">> /\ op = "is" -> <<"absent", l.value>>
              [] right = <<"null">> -> <<"present", l.value>>
              [] op = "is" -> <<"=", l.value, right>>
              [] OTHER -> <<"not", <<"=", l.value, right>>>>)

RECURSIVE convertWhere(_, _, _)
convertExpression(e, default_true, values) ==
    LET l == convertWhere(e[2], default_true, values)
        r == convertWhere(e[3], default_true, values)
    IN  CASE e[1] = "and" -> convertAnd(l, r, default_true)
          [] e[1] = "or" -> convertOr(l, r, default_true)
          [] e[1] \in {"=", "!=", ">", "<", ">=", "<=", "<=>"} ->
                 IF hasExplicitCaseInsensitiveCollation(<<e[2], e[3]>>) THEN Unsupported
                 ELSE IF e[1] = "<=>"
                 THEN convertNullSafe(l, r, IsConstant(e[2], values), IsConstant(e[3], values))
                 ELSE [err |-> IF l.err # "" THEN l.err ELSE r.err,
                       value |-> <<e[1], l.value, r.value>>]
          [] e[1] = "in" ->
                 convertIn(l, [i \in DOMAIN e[3] |-> convertWhere(e[3][i], default_true, values)],
                           <<e[2]>> \o e[3])
          [] e[1] \in {"is", "is not"} -> convertIs(l, e[1], e[3])
          [] e[1] = "not" -> IF l.err # "" THEN l ELSE Ok(PrefixNot(l.value))
          [] e[1] = "neg" -> IF l.err # "" THEN l ELSE Ok(<<"neg", l.value>>)
          [] e[1] = "-" -> Not_("syntax_err")     \* found under the unary minus
          [] OTHER -> Unsupported

Translated == {"and", "or", "=", "<=>", "!=", ">", "<", ">=", "<=", "in", "is", "is not",
               "between", "not", "neg", "-"}
Converted == Translated \cup {"case", "signed", "char", "decimal", "double"}
Calls == {"coalesce", "ifnull", "if", "nullif", "greatest", "least"}

convertWhere(e, default_true, values) ==
    CASE e[1] \in {"num", "dec"} -> Ok(NumV(e[2]))
      [] e[1] = "str" -> Ok(<<"literal", e[2]>>)
      [] e[1] = "null" -> Ok(Nul)
      [] e[1] = "bool" -> Ok(e)
      [] e[1] = "col" -> IF e[2][1] = Pushed THEN Ok(<<"attribute", e[2]>>) ELSE Unsupported
      [] e[1] \in Calls -> Unsupported
      [] e[1] \in Converted /\ IsConstant(e, values) -> Ok(Constant(values[e].none.val))
      [] e[1] \in Translated -> convertExpression(e, default_true, values)
      [] OTHER -> Unsupported

-----------------------------------------------------------------------------
(* DynamoDB.                                                               *)

Absent == <<"MISSING">>
Attribute(v, row) ==
    CASE v[1] = "attribute" /\ v[2] \in DOMAIN row -> row[v[2]]
      [] v[1] = "attribute" -> Absent
      [] v[1] = "literal" -> <<"S", v[2]>>
      [] v[1] = "number" -> <<"N", ToString(v[2])>>
      [] v[1] = "bool" -> <<"BOOL", ToString(v[2])>>
      [] OTHER -> <<"NULL">>

\* A condition where DynamoDB wants a value, or the reverse: it refuses.
Terms == {"attribute", "literal", "number", "bool", "null"}
RECURSIVE WellFormed(_)
WellFormed(p) ==
    CASE p[1] \in {"and", "or"} -> WellFormed(p[2]) /\ WellFormed(p[3])
      [] p[1] = "not" -> WellFormed(p[2])
      [] p[1] \in {"absent", "present"} -> p[2][1] = "attribute"
      [] p[1] = "in" -> p[3] # <<>> /\ \A v \in Range(p[3]) \cup {p[2]} : v[1] \in Terms
      [] p[1] \in Terms \cup {"neg"} -> FALSE
      [] OTHER -> p[2][1] \in Terms /\ p[3][1] \in Terms

Alike(a, b, op) ==
    /\ a[1] = b[1]
    /\ a[1] \in {"N", "S"}
    /\ LET delta == IF a[1] = "N" THEN ParseFloat(a[2]) - ParseFloat(b[2])
                    ELSE CodeRank(a[2]) - CodeRank(b[2])
       IN  CASE op = "=" -> delta = 0 [] op = "!=" -> delta # 0 [] op = ">" -> delta > 0
             [] op = "<" -> delta < 0 [] op = ">=" -> delta >= 0 [] op = "<=" -> delta <= 0

RECURSIVE Holds(_, _)
Holds(p, row) ==
    CASE p[1] = "and" -> Holds(p[2], row) /\ Holds(p[3], row)
      [] p[1] = "or" -> Holds(p[2], row) \/ Holds(p[3], row)
      [] p[1] = "not" -> ~Holds(p[2], row)
      [] p[1] = "absent" -> Attribute(p[2], row) \in {Absent, <<"NULL">>}
      [] p[1] = "present" -> Attribute(p[2], row) # <<"NULL">>
      [] p[1] = "in" -> \E v \in Range(p[3]) : Alike(Attribute(p[2], row), Attribute(v, row), "=")
      [] OTHER -> LET a == Attribute(p[2], row)
                      b == Attribute(p[3], row)
                  IN  Alike(a, b, p[1]) \/ (p[1] = "!=" /\ a[1] # b[1])

-----------------------------------------------------------------------------
(* The statement.                                                          *)

\* What getValue returns with the row, and with none at hand.
Both(e, row) == [has \in {"row", "none"} |-> getValue(e, IF has = "row" THEN row ELSE NoRow)]

CondInit ==
    \E e \in Where, row \in Rows, purpose \in Purposes :
        cond = [pc |-> "send", purpose |-> purpose, e |-> e, row |-> row,
                values |-> [part \in SubExprs(e) |-> Both(part, row)],
                sent |-> <<"none">>, served |-> FALSE, kept |-> FALSE]

\* The table's rows are asked for, with the condition if there is one; a
\* single statement needs one.
Send ==
    /\ cond.pc = "send"
    /\ LET result == convertWhere(cond.e, cond.purpose = "select", cond.values)
       IN  IF cond.purpose = "single" /\ (result.err # "" \/ ~Set(result.value))
           THEN cond' = [cond EXCEPT !.pc = "done", !.sent = <<"refused">>]
           ELSE cond' = [cond EXCEPT !.pc = "serve",
                    !.sent = IF cond.purpose = "select" /\
                                (result.err # "" \/ ~Set(result.value) \/ result.value = One)
                             THEN <<"none">> ELSE result.value]

\* DynamoDB refuses the statement, leaves the row out, or returns it (a
\* single statement has then modified it).
Serve ==
    /\ cond.pc = "serve"
    /\ LET filters == cond.sent # <<"none">>
           holds == ~filters \/ Holds(cond.sent, cond.row)
       IN  cond' = IF filters /\ ~WellFormed(cond.sent)
                   THEN [cond EXCEPT !.pc = "done", !.sent = <<"refused">>]
                   ELSE [cond EXCEPT !.served = holds,
                            !.kept = holds /\ cond.purpose = "single",
                            !.pc = IF holds /\ cond.purpose = "select" THEN "filter" ELSE "done"]

\* A SELECT evaluates the whole clause on what came back.
Filter ==
    /\ cond.pc = "filter"
    /\ LET result == cond.values[cond.e].row
       IN  cond' = [cond EXCEPT !.pc = "done",
                       !.sent = IF result.err # "" THEN <<"refused">> ELSE @,
                       !.kept = result.err = "" /\ Truthy(result.val)]

CondNext == Send \/ Serve \/ Filter

-----------------------------------------------------------------------------
(* Properties.                                                             *)

\* What the clause asks of the row, evaluated where the row is.
Satisfied(res) == res.err = "" /\ Truthy(res.val)

\* Whether a cell and an operand of the pushed condition have one type, and a
\* literal no escape, so that DynamoDB compares them as the evaluator does.
AttributeType(v, row) == Attribute(v, row)[1]
RECURSIVE Faithful(_, _)
Faithful(p, row) ==
    CASE p[1] \in {"and", "or"} -> Faithful(p[2], row) /\ Faithful(p[3], row)
      [] p[1] \in {"absent", "present"} -> TRUE
      [] p[1] = "in" -> \A v \in Range(p[3]) : Faithful(<<"=", p[2], v>>, row)
      [] p[1] = "not" -> p[2][1] \notin {"and", "or", "not"} /\ Faithful(p[2], row)
      [] p[1] \in {"=", "!=", ">", "<", ">=", "<="} ->
             \A v \in {p[2], p[3]} :
                 /\ v[1] = "attribute" => v[2] \in DOMAIN row
                 /\ v[1] # "bool"
                 /\ \/ AttributeType(p[2], row) = AttributeType(p[3], row)
                    \/ AttributeType(v, row) \in {"MISSING", "NULL"}
                 /\ Attribute(v, row) # <<"S", "a ">>
                 /\ v[1] = "literal" => UnescapeLiteral(v[2]) = v[2]
      [] OTHER -> FALSE

\* NOT over AND, OR, IN or IS NOT NULL, AND or OR inside a comparison, where a part
\* that cannot be said still counts as true, and NULL in an IN list are translated
\* wrongly (see README); clauses without them are the plain ones.
Logical == {"and", "or", "not"}
RECURSIVE Plain(_)
Plain(e) ==
    CASE e[1] = "not" -> e[2][1] \notin {"and", "or", "in", "is not", "not"} /\ Plain(e[2])
      [] e[1] \in {"and", "or"} -> Plain(e[2]) /\ Plain(e[3])
      [] e[1] = "in" -> <<"null">> \notin Range(e[3])
      [] e[1] \in {"=", "!=", ">", "<", ">=", "<=", "<=>"} -> {e[2][1], e[3][1]} \cap Logical = {}
      [] e[1] \in {"is", "is not"} -> e[2][1] \notin Logical
      [] OTHER -> TRUE

\* The rows a SELECT returns are those its WHERE clause is true of: what
\* DynamoDB filters is only what the clause would have dropped, whatever part
\* of it could be translated (convert_expression.ts, select.ts:57-67).  This is of
\* Plain clauses whose operands DynamoDB compares as the evaluator does (Faithful).
PushdownKeepsRows ==
    \/ cond.pc # "done" \/ cond.purpose = "single" \/ cond.sent = <<"refused">>
    \/ Plain(cond.e) /\ (cond.sent = <<"none">> \/ Faithful(cond.sent, cond.row)) =>
           (cond.kept <=> Satisfied(cond.values[cond.e].row))

\* A single-statement UPDATE or DELETE never works on a row its WHERE clause
\* is not true of, although DynamoDB knows no third truth value; clauses that
\* negate an absent value (!=, NOT, IS NOT NULL) are left out.
RECURSIVE Positive(_)
Positive(e) ==
    CASE e[1] \in {"not", "!=", "is not"} -> FALSE
      [] e[1] \in {"and", "or"} -> Positive(e[2]) /\ Positive(e[3])
      [] OTHER -> TRUE
SingleIsExact ==
    \/ cond.pc # "done" \/ cond.purpose = "select" \/ cond.sent = <<"refused">>
    \/ Plain(cond.e) /\ Positive(cond.e) /\ Faithful(cond.sent, cond.row) =>
           (cond.kept <=> Satisfied(cond.values[cond.e].row))

\* Both statements work on the rows the clause is true of, with the exceptions
\* named above.
WhereIsApplied == PushdownKeepsRows /\ SingleIsExact

\* The three truth values as 0, 1 and 2, and what SQL says of a clause from
\* those of its parts; every comparison is reduced to <.
Three(v) == IF v = Nul THEN 1 ELSE IF Truthy(convertNum(v)) THEN 2 ELSE 0
RECURSIVE Truth(_, _)
Less(a, b, values) == Three(lt(values[a].row, values[b].row, <<a, b>>).val)
Same(a, b, values) == LET ways == {Less(a, b, values), Less(b, a, values)}
                   IN  IF 1 \in ways THEN 1 ELSE 2 - Max(ways)
Truth(e, values) ==
    CASE e[1] = "and" -> Min({Truth(e[2], values), Truth(e[3], values)})
      [] e[1] = "or" -> Max({Truth(e[2], values), Truth(e[3], values)})
      [] e[1] = "xor" -> LET ways == {Truth(e[2], values), Truth(e[3], values)}
                         IN  IF 1 \in ways THEN 1 ELSE IF Cardinality(ways) = 2 THEN 2 ELSE 0
      [] e[1] = "not" -> 2 - Truth(e[2], values)
      [] e[1] = "=" -> Same(e[2], e[3], values)
      [] e[1] = "!=" -> 2 - Same(e[2], e[3], values)
      [] e[1] = "<=>" -> LET nulls == {Nul} \cap {values[e[2]].row.val, values[e[3]].row.val}
                             both == values[e[2]].row.val = values[e[3]].row.val
                         IN  IF nulls = {} THEN Same(e[2], e[3], values) ELSE IF both THEN 2 ELSE 0
      [] e[1] = ">=" -> 2 - Less(e[2], e[3], values)
      [] e[1] = "<=" -> 2 - Less(e[3], e[2], values)
      [] e[1] = ">" -> Less(e[3], e[2], values)
      [] e[1] = "in" -> Max({Same(e[2], item, values) : item \in Range(e[3])})
      [] e[1] = "between" -> Min({2 - Less(e[2], e[3], values), 2 - Less(e[4], e[2], values)})
      [] e[1] = "is" /\ e[3] = <<"null">> -> IF Truth(e[2], values) = 1 THEN 2 ELSE 0
      [] e[1] = "is" -> IF Truth(e[2], values) = (IF e[3][2] THEN 2 ELSE 0) THEN 2 ELSE 0
      [] e[1] = "is not" -> 2 - Truth(<<"is", e[2], e[3]>>, values)
      [] e[1] = "if" -> IF Truth(e[2], values) = 2 THEN Truth(e[3], values) ELSE Truth(e[4], values)
      [] e[1] = "ifnull" -> IF Truth(e[2], values) = 1 THEN Truth(e[3], values) ELSE Truth(e[2], values)
      [] e[1] = "coalesce" ->
             LET known == {i \in DOMAIN e[2] : Truth(e[2][i], values) # 1}
             IN  IF known = {} THEN 1 ELSE Truth(e[2][Min(known)], values)
      [] e[1] = "case" ->
             LET hits == {i \in DOMAIN e[3] :
                     IF e[2] = <<>> THEN Truth(e[3][i], values) = 2
                     ELSE Same(e[2][1], e[3][i], values) = 2}
             IN  IF hits # {} THEN Truth(e[4][Min(hits)], values)
                 ELSE IF e[5] = <<>> THEN 1 ELSE Truth(e[5][1], values)
      [] OTHER -> Three(values[e].row.val)

\* Evaluation is SQL's three-valued logic: the comparison operators agree with
\* each other, with IN, BETWEEN and CASE, NULL spreads as AND, OR and NOT have
\* it, and what is not evaluated does not matter (compare.ts,
\* binary_expression.ts, func_comp.ts, case.ts).
LogicIsSql ==
    cond.pc = "send" /\ cond.values[cond.e].row.err = "" =>
        Three(cond.values[cond.e].row.val) = Truth(cond.e, cond.values)
=============================================================================
