---------------------------- MODULE MCFunctions ----------------------------
EXTENDS Conditions, SelectRows, ColumnRefs, Dates, Json
X == <<"col", <<"t", "x">>>>
Y == <<"col", <<"t", "y">>>>
Z == <<"col", <<"u", "z">>>>
N(n) == <<"num", n>>
S(s) == <<"str", s, "">>
MCColumnCollation == [c \in {<<"t", "x">>, <<"t", "y">>, <<"u", "z">>, <<"s", "k">>, <<"s", "v">>} |->
    IF c[1] = "u" THEN "ci" ELSE "bin"]
Simple == {<<"=", X, N(1)>>, <<"=", X, S("a")>>, <<">", X, S("A")>>, <<"<", N(2), X>>,
           <<"<=>", X, Null>>, <<"=", Z, S("a")>>, <<"!=", X, N(1)>>,
           <<"is", X, Null>>, <<"in", X, <<N(1), N(10)>>>>, <<"=", Y, X>>}
Atoms == Simple \cup
    {<<"<=>", X, N(1)>>, <<"<=>", X, Y>>, <<"is not", X, Null>>, <<"is", X, <<"bool", TRUE>>>>,
     <<"in", X, <<N(1), Null, N(10)>>>>, <<"not in", X, <<S("a"), Null>>>>,
     <<"between", X, N(1), N(9)>>, <<"not between", X, Y, S("b")>>,
     <<"=", X, <<"str", "a", "ci">>>>, <<"=", X, S("a ")>>, <<"=", X, S("\\a")>>, <<"in", X, <<S("\\a"), N(1)>>>>,
     <<"=", <<"and", <<"=", Z, S("a")>>, N(1)>>, N(0)>>, <<"<=>", <<"or", <<"=", Z, S("a")>>, Y>>, N(0)>>,
     <<">=", X, Y>>, <<"<=", Z, X>>,
     <<"=", S("a"), S("A")>>, <<"and", Null, N(0)>>, Null, N(1),
     <<"if", <<"=", X, N(1)>>, X, Null>>, <<"ifnull", X, Y>>, <<"coalesce", <<Null, X, N(1)>>>>,
     <<"=", <<"nullif", X, N(1)>>, N(10)>>, <<"=", <<"neg", X>>, <<"neg", N(1)>>>>,
     <<"=", <<"greatest", <<X, Y>>>>, X>>, <<"<", <<"least", <<X, N(2)>>>>, N(2)>>,
     <<"=", <<"+", <<"*", <<"div", X, N(3)>>, N(3)>>, <<"%", X, N(3)>>>>, X>>,
     <<"=", <<"signed", X>>, N(1)>>, <<"=", <<"char", <<"-", X, N(1)>>>>, S("0")>>,
     <<"=", X, <<"char", S("a")>>>>,
     <<"case", <<>>, <<<<"=", X, N(1)>>, <<"=", X, S("a")>>>>, <<N(0), N(1)>>, <<Y>>>>,
     <<"case", <<X>>, <<N(10), S("a"), Z>>, <<N(0), Null, N(1)>>, <<>>>>}
MCWhere == Atoms \cup {<<"not", e>> : e \in Atoms}
    \cup {<<op, a, b>> : op \in {"and", "or", "xor"}, a, b \in Simple \cup {Null}}
    \cup {<<"not", <<op, a, b>>>> : op \in {"and", "or"}, a, b \in Simple}
MCRows == {[c \in {<<"t", "x">>, <<"t", "y">>, <<"u", "z">>} |->
              CASE c = <<"t", "x">> -> x [] c = <<"t", "y">> -> y [] OTHER -> z] :
           x \in {<<"MISSING">>, <<"NULL">>, <<"N", "1">>, <<"N", "10">>, <<"S", "a">>, <<"S", "A">>},
           y \in {<<"N", "1">>, <<"S", "a">>},
           z \in {<<"cell", "string", TextV("A")>>, <<"cell", "null", Nul>>}}

K == <<"col", <<"s", "k">>>>
V == <<"col", <<"s", "v">>>>
MCNames == <<<<"s", "k">>, <<"s", "v">>>>
By(e) == [by |-> e, desc |-> FALSE]
Down(e) == [by |-> e, desc |-> TRUE]
Query(columns, where, group, order, limit) ==
    [columns |-> columns, where |-> where, group |-> group, order |-> order, limit |-> limit]
All == <<"star">>
MCSelects ==
    {Query(<<All>>, <<>>, <<>>, <<>>, <<>>),
     Query(<<K, V>>, <<<<">", V, N(1)>>>>, <<>>, <<>>, <<1, 1>>),
     Query(<<V, K>>, <<>>, <<>>, <<>>, <<0, 0>>),
     Query(<<All>>, <<<<"=", K, S("a")>>>>, <<>>, <<>>, <<0, 2>>),
     Query(<<<<"+", V, N(1)>>, K>>, <<>>, <<>>, <<By(K), Down(V)>>, <<1, 2>>),
     Query(<<K, V>>, <<>>, <<>>, <<Down(<<"ordinal", 2>>), By(K)>>, <<>>),
     Query(<<V>>, <<>>, <<>>, <<Down(K)>>, <<0, 2>>),
     Query(<<K, <<"count", All>>, <<"sum", V>>, <<"neg", <<"count", V>>>>>>, <<>>, <<K>>,
           <<By(<<"ordinal", 2>>), Down(K)>>, <<>>),
     Query(<<K, V, <<"avg", V>>>>, <<>>, <<<<"ordinal", 1>>, V>>, <<>>, <<0, 2>>),
     Query(<<<<"count", V>>, <<"min", V>>, <<"max", V>>, <<"bit_and", V>>, <<"bit_or", V>>,
             <<"bit_xor", V>>>>, <<>>, <<>>, <<>>, <<>>),
     Query(<<<<"var_pop", V>>, <<"var_samp", V>>, <<"stddev_pop", V>>, <<"stddev_samp", V>>,
             <<"avg", V>>>>, <<>>, <<>>, <<>>, <<>>),
     Query(<<<<"avg", V>>, K>>, <<>>, <<K>>, <<By(<<"avg", V>>), By(K)>>, <<1, 2>>)}

Rec(k, v) == [c \in Range(MCNames) |-> IF c[2] = "k" THEN k ELSE v]
RawRecs == {Rec(k, v) : k \in {<<"S", "a">>, <<"S", "A">>, <<"NULL">>},
                        v \in {<<"N", "2">>, <<"N", "-1">>, <<"NULL">>}}
MemRecs == {Rec(<<"cell", "string", TextV(k)>>, v) : k \in {"a", "A", "b"},
                v \in {<<"cell", "longlong", NumV(3)>>, <<"cell", "longlong", NumV(1)>>,
                       <<"cell", "null", Nul>>}}
MCSources ==
    {[engine |-> "raw", pages |-> pages] :
        pages \in {<<<<>>, <<a>>, <<b>>>> : a, b \in RawRecs}
            \cup {<<<<a, b>>, <<>>, <<c>>>> : a, b, c \in RawRecs}}
    \cup {[engine |-> "memory", pages |-> <<rows>>] :
        rows \in {<<>>} \cup {<<a, b, c>> : a, b, c \in MemRecs}}
MCReaders == {"query", "internal"}

MCColumnsOf == <<"d", "a">> :> <<"id", "x">> @@ <<"d", "b">> :> <<"id", "y">>
    @@ <<"d", "c">> :> <<"id", "y">> @@ <<"e", "a">> :> <<"id", "z">>
From(table, as) == [db |-> "", table |-> table, as |-> as, join |-> "", on |-> <<>>, using |-> <<>>]
Join(entry, join, on, using) == [entry EXCEPT !.join = join, !.on = on, !.using = using]
Id(table) == Ref(table, "id")
Froms ==
    {<<From("a", "")>>, <<From("a", "p")>>,
     <<From("a", ""), Join(From("b", ""), "INNER", <<Id("a"), Id("b")>>, <<>>)>>,
     <<From("a", ""), Join(From("b", ""), "LEFT", <<>>, <<"id">>)>>,
     <<From("a", "p"), Join(From("a", "a"), "LEFT", <<Id("p"), Ref("a", "x")>>, <<>>)>>,
     <<From("a", ""), Join([From("a", "") EXCEPT !.db = "e"], "INNER", <<Id("a")>>, <<>>)>>,
     <<From("a", ""), Join(From("b", ""), "NATURAL LEFT", <<>>, <<>>)>>,
     <<From("a", ""), Join(From("b", ""), "INNER", <<>>, <<"id">>),
       Join(From("c", "p"), "LEFT", <<>>, <<"id">>)>>,
     <<From("a", ""), Join(From("b", ""), "LEFT", <<Id("a"), Id("b")>>, <<>>),
       Join(From("c", "p"), "INNER", <<>>, <<"y">>)>>}
Refs == {Ref("", "id"), Ref("", "x"), Ref("", "y"), Ref("a", "id"), Ref("b", "id"), Ref("b", "y"),
         Ref("p", "x"), <<"e", "a", "z">>, Ref("p", "y")}
Stars == {Ref("", "*"), Ref("b", "*"), <<"e", "a", "*">>}
Column(ref, as) == [ref |-> ref, as |-> as]
Nothing == [database |-> "d", from |-> <<>>, columns |-> <<>>, targets |-> <<>>, set |-> <<>>,
            where |-> <<>>, group |-> <<>>, order |-> <<>>]
MCStatements ==
    {[Nothing EXCEPT !.from = from, !.columns = columns, !.where = where, !.order = order] :
        from \in Froms,
        columns \in {<<Column(r, "")>> : r \in Refs \cup Stars}
            \cup {<<Column(r, as), Column(q, "")>> : r \in {Ref("", "id"), Ref("b", "y")},
                                                     as \in {"", "k"}, q \in Refs \cup Stars},
        where \in {<<>>, <<Ref("b", "y")>>, <<Ref("", "y")>>},
        order \in {<<Ref("", "id")>>, <<Ref("", "k")>>, <<Ref("", "y"), Ref("a", "x")>>}}
    \cup {[Nothing EXCEPT !.from = from, !.columns = <<Column(r, "")>>, !.group = <<r>>] :
        from \in Froms, r \in Refs}
    \cup {[Nothing EXCEPT !.from = from, !.targets = <<target>>, !.where = <<r>>] :
        from \in Froms, target \in {<<"", "a">>, <<"", "b">>, <<"e", "a">>}, r \in Refs}
    \cup {[Nothing EXCEPT !.database = database, !.from = from, !.where = <<r>>,
                          !.set = <<[ref |-> q, reads |-> <<r, Ref("", "id")>>]>>] :
        database \in {"", "d"}, from \in Froms, r \in Refs, q \in {Ref("", "x"), Ref("b", "y")}}

Lit(y, mo, d, h) == <<"text", [short |-> FALSE, y |-> y, m |-> mo, d |-> d, h |-> h]>>
Short(y, mo, d, h) == <<"text", [short |-> TRUE, y |-> y, m |-> mo, d |-> d, h |-> h]>>
Days == {<<2024, 2, 29>>, <<2024, 1, 31>>, <<2023, 12, 31>>, <<2023, 1, 1>>, <<2024, 12, 30>>,
         <<2021, 1, 3>>, <<2021, 1, 7>>, <<2000, 3, 1>>, <<1969, 7, 20>>, <<1900, 2, 28>>, <<9999, 12, 31>>,
         <<2023, 10, 30>>}
MCLiterals == {Lit(day[1], day[2], day[3], h) : day \in Days, h \in {-1, 0, 20}}
    \cup {Short(24, 3, 31, 3), Short(69, 12, 31, -1), Short(70, 1, 1, 5), Lit(2023, 13, 1, -1),
          Lit(2024, 2, 30, -1), Lit(2023, 1, 32, 4)}
\* A call: what it is called, and what there is beside the date.
Fn(name) == [name |-> name, by |-> <<"int", 0>>, unit |-> "day", to |-> <<"int", 0>>, extra |-> 0]
Add(name, n, unit) == [Fn(name) EXCEPT !.by = <<"int", n>>, !.unit = unit]
With(name, extra) == [Fn(name) EXCEPT !.extra = extra]
Until(name, unit, to) == [Fn(name) EXCEPT !.unit = unit, !.to = to]
Adds == {Add(name, n, unit) : name \in {"date_add", "date_sub"}, n \in {1, 13},
                              unit \in DOMAIN SingleTime \cup DOMAIN Month}
    \cup {Add("date_add", 5, "day_hour"), Add("date_sub", 14, "year_month"),
          [Fn("date_add") EXCEPT !.by = <<"pair", 1, 2>>, !.unit = "day_hour"]}
Reads == {With(name, 0) : name \in (Accessors \ {"date_format"}) \cup {"to_days", "hour", "time_to_sec"}}
    \cup {With("week", 1)} \cup {With("date_format", part) : part \in {"Y", "m", "d", "w"}}
Spans == {Until("datediff", "datediff", to) : to \in {Lit(2024, 3, 1, 3), Lit(1970, 1, 1, -1)}}
    \cup {Until("timestampdiff", unit, to) : unit \in DOMAIN SingleTime \cup DOMAIN Month,
                                             to \in {Lit(2024, 2, 29, 21), Lit(2025, 12, 31, 22)}}
Casts == {Fn("datetime"), Fn("date"), Fn("time")}
Program(zone, start, calls) ==
    [zone |-> zone, now |-> 24 * 19782 + 20, start |-> start, calls |-> calls]
MCPrograms ==
    {Program(zone, lit, <<call>>) : zone \in {-5, 0, 9}, lit \in MCLiterals,
        call \in Reads \cup Spans \cup Casts \cup {Fn("last_day")}}
    \cup {Program(zone, lit, calls) : zone \in {0, 9}, lit \in MCLiterals,
            calls \in {<<call>> : call \in Adds}
                \cup {<<a, b>> : a \in Casts \cup {Fn("last_day")},
                                 b \in {Add("date_add", 1, "month"), Add("date_sub", 1, "hour"),
                                        With("weekday", 0), Fn("to_days"), Fn("hour"), Fn("date")}}
                \cup {<<Fn("to_days"), Fn("from_days")>>, <<Fn("unix_timestamp"), Fn("from_unixtime")>>,
                      <<Add("date_add", 1, "month"), Add("date_sub", 1, "month")>>}}
    \cup {Program(zone, <<"int", y>>, <<With("makedate", n)>>) : zone \in {-5, 0, 9},
            y \in {2023, 2024}, n \in {-1, 1, 60, 366}}
    \cup {Program(zone, <<"int", n>>, <<Fn(name)>>) : zone \in {0, 9}, n \in {5, 400},
            name \in {"maketime", "sec_to_time", "from_days", "from_unixtime"}}
    \cup {Program(zone, Null, <<Fn(name)>>) : zone \in {-5, 0, 9},
            name \in Clocks \cup {"from_days", "from_unixtime", "makedate", "maketime", "year", "date"}}

W1 == Whole(1)
A == <<"key", "a">>
B == <<"key", "b">>
At(n) == <<"index", <<n, FALSE>>>>
LastBut(n) == <<"index", <<n, TRUE>>>>
Path(legs) == <<"path", legs>>
Doc == Obj("a" :> Arr(<<W1, Obj("b" :> <<"null">>), <<"text", "x">>>>) @@ "b" :> Obj("a" :> W1))
List == Arr(<<Arr(<<W1, Whole(2)>>), <<"bool", TRUE>>, Obj("a" :> W1), W1>>)
Docs == {Doc, List, Arr(<<>>), Obj(<<>>), W1, <<"null">>, <<"bool", TRUE>>, Obj("a" :> W1 @@ "b" :> <<"null">>),
         Arr(<<W1>>), Obj("b" :> Obj("a" :> <<"null">> @@ "b" :> Arr(<<>>))), Arr(<<Arr(<<W1>>)>>)}
Givens == Docs \cup {SqlNull, NotJson}
Legs1 == {A, B, At(0), At(1), At(4), LastBut(0), LastBut(1), LastBut(4)}
MCPaths == {Path(<<>>), SqlNull, Path(<<<<"wild">>>>), Path(<<A, <<"bad">>>>)}
    \cup {Path(<<a>>) : a \in Legs1} \cup {Path(<<a, b>>) : a, b \in Legs1}
    \cup {Path(<<A, At(1), B>>), Path(<<A, At(0), LastBut(0)>>), Path(<<LastBut(1), A, At(0)>>)}
Ranges == {Path(<<<<"range", <<0, FALSE>>, <<1, FALSE>>>>>>), Path(<<A, <<"range", <<1, FALSE>>, <<0, TRUE>>>>>>),
           Path(<<<<"range", <<2, TRUE>>, <<1, TRUE>>>>, A>>), Path(<<<<"range", <<1, FALSE>>, <<0, FALSE>>>>>>)}
Ask(name, paths, values) == [name |-> name, paths |-> paths, values |-> values, mode |-> "one"]
Changers == {"json_set", "json_insert", "json_replace", "json_array_append", "json_array_insert"}
Finders == {"json_extract", "json_length", "json_keys", "json_value"}
Arguments == {SqlNull, <<"boolean", 1>>, Obj("b" :> W1)}
Asks ==
    {Ask(name, <<path>>, <<value>>) : name \in Changers, path \in MCPaths, value \in Arguments}
    \cup {Ask("json_remove", <<path>>, <<SqlNull>>) : path \in MCPaths}
    \cup {Ask(name, <<path>>, <<>>) : name \in Finders, path \in MCPaths \cup Ranges}
    \cup {[Ask("json_contains_path", <<p, q>>, <<>>) EXCEPT !.mode = mode] :
            p, q \in {Path(<<a>>) : a \in Legs1} \cup {SqlNull, Path(<<<<"wild">>>>)}, mode \in {"one", "all"}}
    \cup {Ask("json_contains", <<path>>, <<doc>>) : path \in {Path(<<>>), Path(<<A>>), Path(<<At(0)>>)},
                                                      doc \in Givens}
    \cup {Ask(name, <<>>, <<doc>>) : doc \in Givens,
            name \in {"json_contains", "json_overlaps", "json_merge_preserve", "json_merge_patch"}}
    \cup {Ask(name, <<>>, <<>>) : name \in {"json_length", "json_depth", "json_keys", "json_valid", "json_type"}}
    \cup {Ask("member_of", <<>>, <<value>>) : value \in Arguments \cup {W1, Arr(<<W1>>)}}
Twice == {Ask(name, <<p, q>>, <<W1, Arr(<<W1>>)>>) : name \in Changers \cup {"json_remove"},
            p, q \in {Path(<<A>>), Path(<<A, At(1)>>), Path(<<At(0), LastBut(0)>>), Path(<<A, B>>)}}
Built == {Ask("json_array", <<>>, values) : values \in {<<>>, <<SqlNull, W1>>, <<<<"boolean", 0>>>>}}
    \cup {Ask("json_object", <<>>, values) : values \in
            {<<>>, <<SqlNull, W1>>, <<<<"text", "a">>, SqlNull, <<"text", "a">>, W1>>}}
MCScripts == {[doc |-> doc, calls |-> <<made>>] : doc \in Givens, made \in Asks}
    \cup {[doc |-> doc, calls |-> <<twice, merge>>] : doc \in Docs, twice \in Twice,
            merge \in {Ask("json_merge_patch", <<>>, <<Obj("a" :> <<"null">>), Doc>>),
                       Ask("json_merge_preserve", <<>>, <<Doc, List>>)}}
    \cup {[doc |-> SqlNull, calls |-> <<made>>] : made \in Built}

Vars == <<cond, sel, names, dates, json>>
FnInit ==
    \/ CondInit /\ sel = Idle /\ names = Idle /\ dates = Idle /\ json = Idle
    \/ cond = Idle /\ SelectInit /\ names = Idle /\ dates = Idle /\ json = Idle
    \/ cond = Idle /\ sel = Idle /\ NamesInit /\ dates = Idle /\ json = Idle
    \/ cond = Idle /\ sel = Idle /\ names = Idle /\ DatesInit /\ json = Idle
    \/ cond = Idle /\ sel = Idle /\ names = Idle /\ dates = Idle /\ JsonInit
FnNext ==
    \/ cond # Idle /\ CondNext /\ UNCHANGED <<sel, names, dates, json>>
    \/ sel # Idle /\ SelectNext /\ UNCHANGED <<cond, names, dates, json>>
    \/ names # Idle /\ NamesNext /\ UNCHANGED <<cond, sel, dates, json>>
    \/ dates # Idle /\ DatesNext /\ UNCHANGED <<cond, sel, names, json>>
    \/ json # Idle /\ JsonNext /\ UNCHANGED <<cond, sel, names, dates>>
FnSpec == FnInit /\ [][FnNext]_Vars
=============================================================================
