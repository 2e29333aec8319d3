------------------------------- MODULE Values -------------------------------
(***************************************************************************)
(* The JavaScript values SQL expressions evaluate to, and the conversions  *)
(* between them (helpers/sql_conversion.ts, helpers/collation.ts).         *)
(*                                                                         *)
(* A value is a tuple that starts with its kind: null, undefined, a        *)
(* number, a bigint or a text.  The texts are a few strings that the       *)
(* conversions tell apart: numerals, letters of two cases, the empty text, *)
(* one with a trailing space and one with a backslash; tables say what     *)
(* JavaScript makes of each.                                               *)
(***************************************************************************)
EXTENDS Integers, Sequences, FiniteSets, TLC, SequencesExt

Nul == <<"null">>
Undef == <<"undefined">>
NumV(n) == <<"number", n>>
BigV(n) == <<"bigint", n>>
TextV(s) == <<"text", s>>

Kind(v) == v[1]
Bit(b) == NumV(IF b THEN 1 ELSE 0)

\* The texts in the order of their code units, and what parseFloat reads
\* (NaN of the letters is 0 to every caller).
Texts == <<"", "-1", "0", "1", "10", "2", "3", "9", "A", "\\a", "a", "a ", "b">>
CodeRank(s) == CHOOSE i \in DOMAIN Texts : Texts[i] = s
ParseFloat(s) ==
    CASE s = "-1" -> -1 [] s = "1" -> 1 [] s = "10" -> 10 [] s = "2" -> 2
      [] s = "3" -> 3 [] s = "9" -> 9 [] OTHER -> 0

\* trimEnd, and the text an accent- and case-insensitive collation compares.
TrimEnd(s) == IF s = "a " THEN "a" ELSE s
CaseFold(s) == IF s = "A" THEN "a" ELSE s

\* String(value)
StringOf(v) == CASE Kind(v) = "text" -> v[2]
                 [] Kind(v) \in {"number", "bigint"} -> ToString(v[2])
                 [] OTHER -> Kind(v)

convertString(v) == IF v = Nul THEN Nul ELSE TextV(StringOf(v))

convertNum(v) == CASE Kind(v) \in {"number", "bigint"} -> NumV(v[2])
                   [] Kind(v) = "text" -> NumV(ParseFloat(v[2]))
                   [] OTHER -> Nul

convertBigInt(v) == CASE Kind(v) \in {"number", "bigint"} -> BigV(v[2])
                      [] Kind(v) = "text" -> BigV(ParseFloat(v[2]))
                      [] OTHER -> Nul

\* What JavaScript takes as true.
Truthy(v) == CASE Kind(v) \in {"number", "bigint"} -> v[2] # 0
               [] Kind(v) = "text" -> v[2] # ""
               [] OTHER -> FALSE

convertBooleanValue(v) ==
    IF v = Nul THEN Nul ELSE Bit(Truthy(convertNum(v)))

-----------------------------------------------------------------------------
\* Collations: "ci" stands for the case-insensitive ones, "bin" for the
\* binary ones, "none" for no collation.
isCaseInsensitive(collation) == collation = "ci"

Sign(n) == IF n > 0 THEN 1 ELSE IF n < 0 THEN -1 ELSE 0

\* localeCompare ignores the case; the others compare code units.
stringCompare(s1, s2, collation) ==
    IF isCaseInsensitive(collation)
    THEN Sign(CodeRank(CaseFold(s1)) - CodeRank(CaseFold(s2)))
    ELSE Sign(CodeRank(s1) - CodeRank(s2))
=============================================================================
