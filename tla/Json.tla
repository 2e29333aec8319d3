-------------------------------- MODULE Json --------------------------------
(***************************************************************************)
(* JSON documents (types/sql_json.ts) and the functions that read and      *)
(* change them by path (expression/func_json_*.ts).  A document is null, a *)
(* boolean, a number, a text, an array or an object; the order of an       *)
(* object's keys and the writing of documents as texts are left out, but a *)
(* text that is no document is.                                            *)
(*                                                                         *)
(* A path is a sequence of legs: <<"key", k>>, <<"index", b>>,             *)
(* <<"range", b, c>>, <<"wild">> and <<"bad">>, which is no leg; a bound is  *)
(* <<n, TRUE>> for "last-n" and <<n, FALSE>> for n.                         *)
(***************************************************************************)
EXTENDS Integers, Sequences, FiniteSets, TLC, SequencesExt, FiniteSetsExt

CONSTANT Scripts     \* records document and calls, a sequence of calls around it

VARIABLE json        \* script; done, the calls made; of the last call its document,
                     \* its result, its err and trail, the documents in between

SqlNull == <<"sql null">>
NotJson == <<"not json">>
Whole(n) == <<"int", n>>
Flag(b) == Whole(IF b THEN 1 ELSE 0)
Arr(items) == <<"arr", items>>
Obj(fields) == <<"obj", fields>>
IsArr(node) == node[1] = "arr"
IsObj(node) == node[1] = "obj"
HasKey(node, key) == IsObj(node) /\ key \in DOMAIN node[2]
Put(node, key, value) == Obj((key :> value) @@ node[2])
Drop(node, key) == Obj([k \in DOMAIN node[2] \ {key} |-> node[2][k]])
Items(node) == IF IsArr(node) THEN node[2] ELSE <<node>>

\* The document a value of SQL stands for.
toNode(arg) ==
    CASE arg = SqlNull -> <<"null">>
      [] arg[1] = "boolean" -> <<"bool", arg[2] = 1>>
      [] OTHER -> arg

-----------------------------------------------------------------------------
(* Paths.                                                                  *)

\* mutant: "last" is one behind the end.
LastOffByOne(bound, length) == IF bound[2] THEN length - bound[1] ELSE bound[1]
arrayIndex(bound, length) == IF bound[2] THEN length - 1 - bound[1] ELSE bound[1]

\* Only JSON_EXTRACT takes ranges, none takes a wildcard; the first leg that is
\* wrong decides.
LegErr(leg, ranges) ==
    CASE leg[1] = "bad" -> "ER_INVALID_JSON_PATH"
      [] leg[1] = "wild" \/ (leg[1] = "range" /\ ~ranges) -> "ER_INVALID_JSON_PATH_WILDCARD"
      [] leg[1] = "range" /\ ranges /\ ~leg[2][2] /\ ~leg[3][2] /\ leg[2][1] > leg[3][1] ->
             "ER_INVALID_JSON_PATH"
      [] OTHER -> ""
parsePath(path, ranges) ==
    FoldLeft(LAMBDA err, leg : IF err # "" THEN err ELSE LegErr(leg, ranges), "", path)

\* The nodes of a path.  What is no array counts as an array of one, if wrap.
RECURSIVE select(_, _, _)
select(node, path, wrap) ==
    IF path = <<>> THEN <<node>>
    ELSE LET leg == Head(path)
             items == IF IsArr(node) \/ wrap THEN Items(node) ELSE <<>>
             start == Max({0, arrayIndex(leg[2], Len(items))})
             end == Min({Len(items) - 1, arrayIndex(Last(leg), Len(items))})
         IN  IF leg[1] # "key"
             THEN FlattenSeq([k \in 1..(end - start + 1) |->
                                 select(items[start + k], Tail(path), wrap)])
             ELSE IF HasKey(node, leg[2]) THEN select(node[2][leg[2]], Tail(path), wrap)
             ELSE <<>>

-----------------------------------------------------------------------------
(* Changes at a path.                                                      *)

Place(index, length) == Min({Max({index, 0}), length})

RECURSIVE assignAt(_, _, _, _)
assignAt(node, path, value, mode) ==
    LET leg == Head(path)
        list == Items(node)
        index == arrayIndex(leg[2], Len(list))
        child == assignAt(list[index + 1], Tail(path), value, mode)
        adds == Len(path) = 1 /\ mode # "json_replace"
    IN  CASE path = <<>> -> IF mode = "json_insert" THEN node ELSE value
          [] path # <<>> /\ leg[1] = "key" ->
                 IF HasKey(node, leg[2])
                 THEN Put(node, leg[2], assignAt(node[2][leg[2]], Tail(path), value, mode))
                 ELSE IF IsObj(node) /\ adds THEN Put(node, leg[2], value)
                 ELSE node
          [] path # <<>> /\ leg[1] = "index" ->
                 IF index \in 0..(Len(list) - 1)
                 THEN IF IsArr(node) THEN Arr([list EXCEPT ![index + 1] = child]) ELSE child
                 ELSE IF adds THEN Arr(InsertAt(list, Place(index, Len(list)) + 1, value))
                 ELSE node

Removed == <<"removed">>
RECURSIVE removeAt(_, _)
removeAt(node, path) ==
    LET leg == Head(path)
        index == arrayIndex(leg[2], Len(node[2]))
        Below(child) == IF Len(path) = 1 THEN Removed ELSE removeAt(child, Tail(path))
    IN  CASE leg[1] = "key" ->
                 IF ~HasKey(node, leg[2]) THEN node
                 ELSE IF Below(node[2][leg[2]]) = Removed THEN Drop(node, leg[2])
                 ELSE Put(node, leg[2], Below(node[2][leg[2]]))
          [] leg[1] = "index" /\ IsArr(node) ->
                 IF index \notin 0..(Len(node[2]) - 1) THEN node
                 ELSE IF Below(node[2][index + 1]) = Removed THEN Arr(RemoveAt(node[2], index + 1))
                 ELSE Arr([node[2] EXCEPT ![index + 1] = Below(@)])
          [] OTHER -> IF leg[2][1] # 0 THEN node ELSE Below(node)

RECURSIVE appendAt(_, _, _)
appendAt(node, path, value) ==
    LET leg == Head(path)
        index == arrayIndex(leg[2], Len(node[2]))
    IN  CASE path = <<>> -> Arr(Append(Items(node), value))
          [] path # <<>> /\ leg[1] = "key" ->
                 IF ~HasKey(node, leg[2]) THEN node
                 ELSE Put(node, leg[2], appendAt(node[2][leg[2]], Tail(path), value))
          [] path # <<>> /\ leg[1] = "index" /\ IsArr(node) ->
                 IF index \notin 0..(Len(node[2]) - 1) THEN node
                 ELSE Arr([node[2] EXCEPT ![index + 1] = appendAt(@, Tail(path), value)])
          [] OTHER -> IF leg[2][1] = 0 THEN appendAt(node, Tail(path), value) ELSE node

RECURSIVE insertAt(_, _, _)
insertAt(node, path, value) ==
    LET leg == Head(path)
        index == arrayIndex(leg[2], Len(node[2]))
    IN  CASE leg[1] = "key" ->
                 IF ~HasKey(node, leg[2]) THEN node
                 ELSE Put(node, leg[2], insertAt(node[2][leg[2]], Tail(path), value))
          [] leg[1] = "index" /\ ~IsArr(node) -> node
          [] leg[1] = "index" /\ IsArr(node) ->
                 IF Len(path) = 1
                 THEN Arr(InsertAt(node[2], Place(index, Len(node[2])) + 1, value))
                 ELSE IF index \notin 0..(Len(node[2]) - 1) THEN node
                 ELSE Arr([node[2] EXCEPT ![index + 1] = insertAt(@, Tail(path), value)])

-----------------------------------------------------------------------------
(* Comparison and merging.                                                 *)

RECURSIVE contains(_, _)
contains(target, candidate) ==
    CASE IsArr(candidate) ->
             IsArr(target) /\ \A item \in Range(candidate[2]) :
                 \E element \in Range(target[2]) : contains(element, item)
      [] ~IsArr(candidate) /\ IsArr(target) ->
             \E element \in Range(target[2]) : contains(element, candidate)
      [] IsObj(candidate) /\ ~IsArr(target) ->
             IsObj(target) /\ \A key \in DOMAIN candidate[2] :
                 HasKey(target, key) /\ contains(target[2][key], candidate[2][key])
      [] OTHER -> target = candidate

overlaps(left, right) ==
    IF IsObj(left) /\ IsObj(right)
    THEN \E key \in DOMAIN left[2] : HasKey(right, key) /\ left[2][key] = right[2][key]
    ELSE Range(Items(left)) \cap Range(Items(right)) # {}

RECURSIVE depthOf(_)
depthOf(node) ==
    1 + CASE IsArr(node) -> Max({0} \cup {depthOf(item) : item \in Range(node[2])})
          [] IsObj(node) -> Max({0} \cup {depthOf(node[2][key]) : key \in DOMAIN node[2]})
          [] OTHER -> 0
countOf(node) == CASE IsArr(node) -> Len(node[2])
                  [] IsObj(node) -> Cardinality(DOMAIN node[2]) [] OTHER -> 1

\* mutant: a null of the patch stays in the document.
RECURSIVE mergePatch(_, _)
PatchKeepsNull(target, patch) ==
    IF ~IsObj(patch) THEN patch
    ELSE Obj([k \in DOMAIN patch[2] |->
                 mergePatch(IF HasKey(target, k) THEN target[2][k] ELSE NotJson, patch[2][k])]
             @@ (IF IsObj(target) THEN target[2] ELSE <<>>))
mergePatch(target, patch) ==
    IF ~IsObj(patch) THEN patch
    ELSE LET old == IF IsObj(target) THEN target[2] ELSE <<>>
             gone == {k \in DOMAIN patch[2] : patch[2][k] = <<"null">>}
         IN  Obj([k \in (DOMAIN old \cup DOMAIN patch[2]) \ gone |->
                 IF k \notin DOMAIN patch[2] THEN old[k]
                 ELSE mergePatch(IF k \in DOMAIN old THEN old[k] ELSE NotJson, patch[2][k])])

RECURSIVE mergePreserve(_, _)
mergePreserve(left, right) ==
    IF IsObj(left) /\ IsObj(right)
    THEN Obj([k \in DOMAIN left[2] \cup DOMAIN right[2] |->
                 IF ~HasKey(left, k) THEN right[2][k] ELSE IF ~HasKey(right, k) THEN left[2][k]
                 ELSE mergePreserve(left[2][k], right[2][k])])
    ELSE Arr(Items(left) \o Items(right))

-----------------------------------------------------------------------------
(* The calls.  A call has a name, paths (NULL or a path), values and, for  *)
(* JSON_CONTAINS_PATH, a mode.                                             *)

Legs(path) == path[2]
asked == json.script.calls[json.done + 1]
Called(name) == json.done < Len(json.script.calls) /\ json.err = "" /\ asked.name = name
DocErr(doc) == IF doc = NotJson THEN "ER_INVALID_JSON_TEXT_IN_PARAM" ELSE ""
PathErrs(ranges) == [i \in DOMAIN asked.paths |-> parsePath(Legs(asked.paths[i]), ranges)]
FirstOf(errs) == FoldRight(LAMBDA err, later : IF err # "" THEN err ELSE later, errs, "")

\* NULL for a NULL argument; else the error, or the last document of the trail.
Answer(args, err, trail, value) ==
    LET null == SqlNull \in Range(args)
        failed == ~null /\ err # ""
    IN  json' = [json EXCEPT !.pc = "done", !.done = @ + 1, !.doc = json.value,
                             !.err = IF failed THEN err ELSE "",
                             !.trail = IF null \/ failed THEN <<>> ELSE trail,
                             !.value = IF null \/ failed THEN SqlNull ELSE value]
Reply(args, errs, value) ==
    Answer(<<json.value>> \o args, FirstOf(<<DocErr(json.value)>> \o errs), <<>>, value)

\* One pair after the other; the first path that is illegal stops the asked.
Changes(illegal(_), change(_, _, _)) ==
    LET Changed(run, pair) ==
            LET err == FirstOf(<<parsePath(pair[1], FALSE), illegal(pair[1])>>)
            IN  IF run.err # "" \/ err # "" THEN [run EXCEPT !.err = FirstOf(<<@, err>>)]
                ELSE [run EXCEPT !.trail = Append(@, change(Last(@), pair[1], pair[2]))]
        pairs == [i \in DOMAIN asked.paths |-> <<Legs(asked.paths[i]), toNode(asked.values[i])>>]
        run == FoldLeft(Changed, [err |-> DocErr(json.value), trail |-> <<json.value>>], pairs)
    IN  Answer(<<json.value>> \o asked.paths, run.err, run.trail, Last(run.trail))

Modify(mode) == Called(mode) /\ Changes(LAMBDA path : "",
    LAMBDA node, path, value : assignAt(node, path, value, mode))
json_set == Modify("json_set")
json_insert == Modify("json_insert")
json_replace == Modify("json_replace")

json_remove ==
    LET Without(node, path, value) ==
            LET result == removeAt(node, path) IN IF result = Removed THEN node ELSE result
    IN  /\ Called("json_remove")
        /\ Changes(LAMBDA path : IF path = <<>> THEN "ER_JSON_VACUOUS_PATH" ELSE "", Without)

json_array_append == Called("json_array_append") /\ Changes(LAMBDA path : "", appendAt)
json_array_insert ==
    /\ Called("json_array_insert")
    /\ Changes(LAMBDA path : IF path = <<>> \/ Last(path)[1] # "index"
                             THEN "ER_INVALID_JSON_PATH_ARRAY_CELL" ELSE "", insertAt)

\* The first match, or NULL; without a path the document itself.
Target(wrap) ==
    IF asked.paths = <<>> THEN <<json.value>> ELSE select(json.value, Legs(asked.paths[1]), wrap)

json_extract ==
    LET matches == FlattenSeq([i \in DOMAIN asked.paths |->
                       select(json.value, Legs(asked.paths[i]), TRUE)])
        many == \/ Len(asked.paths) > 1
                \/ \E i \in DOMAIN asked.paths :
                       \E leg \in Range(Legs(asked.paths[i])) : leg[1] = "range"
    IN  /\ Called("json_extract")
        /\ Reply(asked.paths, PathErrs(TRUE), IF matches = <<>> THEN SqlNull
                                             ELSE IF many THEN Arr(matches) ELSE Head(matches))

\* The paths are looked at until one decides.
json_contains_path ==
    LET found(path) == select(json.value, Legs(path), TRUE) # <<>>
        Decides(path) == \/ path = SqlNull
                         \/ parsePath(Legs(path), FALSE) # ""
                         \/ found(path) = (asked.mode = "one")
        deciding == SelectSeq(asked.paths, Decides)
    IN  /\ Called("json_contains_path")
        /\ CASE deciding = <<>> -> Reply(<<>>, <<>>, Flag(asked.mode = "all"))
             [] deciding # <<>> ->
                    Reply(<<deciding[1]>>, <<parsePath(Legs(deciding[1]), FALSE)>>,
                          Flag(asked.mode = "one"))

json_contains ==
    /\ Called("json_contains")
    /\ Reply(asked.paths \o asked.values, <<DocErr(asked.values[1])>> \o PathErrs(FALSE),
             IF Target(TRUE) = <<>> THEN SqlNull
             ELSE Flag(contains(Target(TRUE)[1], asked.values[1])))

json_overlaps ==
    /\ Called("json_overlaps")
    /\ Reply(asked.values, <<DocErr(asked.values[1])>>, Flag(overlaps(json.value, asked.values[1])))

\* value MEMBER OF (document)
member_of ==
    /\ Called("member_of")
    /\ Reply(asked.values, <<>>, Flag(toNode(asked.values[1]) \in Range(Items(json.value))))

json_length ==
    /\ Called("json_length")
    /\ Reply(asked.paths, PathErrs(FALSE),
             IF Target(TRUE) = <<>> THEN SqlNull ELSE Whole(countOf(Target(TRUE)[1])))

json_depth == Called("json_depth") /\ Reply(<<>>, <<>>, Whole(depthOf(json.value)))

json_valid ==
    Called("json_valid") /\ Answer(<<json.value>>, "", <<>>, Flag(json.value # NotJson))
json_type == Called("json_type") /\ Reply(<<>>, <<>>, <<"type", json.value[1]>>)

json_keys ==
    /\ Called("json_keys")
    /\ Reply(asked.paths, PathErrs(FALSE),
             IF Target(FALSE) = <<>> \/ ~IsObj(Target(FALSE)[1]) THEN SqlNull
             ELSE <<"keys", DOMAIN Target(FALSE)[1][2]>>)

\* The path is read before the document, and a text that is none is NULL.
json_value ==
    /\ Called("json_value")
    /\ Answer(<<json.value>> \o asked.paths, FirstOf(PathErrs(FALSE)), <<>>,
              IF json.value = NotJson \/ Target(TRUE) = <<>> THEN SqlNull
              ELSE IF Target(TRUE)[1] = <<"null">> THEN SqlNull ELSE Target(TRUE)[1])

Merge(step(_, _)) ==
    LET errs == [i \in DOMAIN asked.values |-> DocErr(asked.values[i])]
        Merged(trail, doc) == Append(trail, step(Last(trail), doc))
        trail == FoldLeft(Merged, <<json.value>>, asked.values)
    IN  Answer(<<json.value>> \o asked.values, FirstOf(<<DocErr(json.value)>> \o errs),
               trail, Last(trail))
json_merge_preserve == Called("json_merge_preserve") /\ Merge(mergePreserve)
json_merge_patch == Called("json_merge_patch") /\ Merge(mergePatch)

\* From a list of values; the keys of JSON_OBJECT are texts, later ones win.
json_array ==
    /\ Called("json_array")
    /\ Answer(<<>>, "", <<>>, Arr([i \in DOMAIN asked.values |-> toNode(asked.values[i])]))
json_object ==
    LET Added(node, i) == Put(node, asked.values[i][2], toNode(asked.values[i + 1]))
        keys == {i \in DOMAIN asked.values : i % 2 = 1}
    IN  /\ Called("json_object")
        /\ Answer(<<>>,
                  IF SqlNull \in {asked.values[i] : i \in keys}
                  THEN "ER_JSON_DOCUMENT_NULL_KEY" ELSE "",
                  <<>>, FoldLeft(Added, Obj(<<>>), SetToSortSeq(keys, <)))

JsonInit == \E script \in Scripts :
    json = [pc |-> "ready", script |-> script, done |-> 0, doc |-> SqlNull, value |-> script.doc,
            trail |-> <<>>, err |-> ""]
JsonNext ==
    \/ json_set \/ json_insert \/ json_replace \/ json_remove \/ json_array_append
    \/ json_array_insert \/ json_extract \/ json_contains_path \/ json_contains \/ json_overlaps
    \/ member_of \/ json_length \/ json_depth \/ json_valid \/ json_type \/ json_keys
    \/ json_value \/ json_merge_preserve \/ json_merge_patch \/ json_array \/ json_object

-----------------------------------------------------------------------------
(* What the functions are to do, said of locations: a location is the      *)
(* sequence of steps, keys and positions, to a part of the document.       *)

Steps(node) == CASE IsArr(node) -> {<<"at", n>> : n \in 0..(Len(node[2]) - 1)}
                 [] IsObj(node) -> {<<"key", key>> : key \in DOMAIN node[2]}
                 [] OTHER -> {}
Child(node, step) == IF IsArr(node) THEN node[2][step[2] + 1] ELSE node[2][step[2]]
Part(node, loc) == FoldLeft(Child, node, loc)
RECURSIVE Locs(_)
Locs(node) == {<<>>} \cup UNION {{<<step>> \o loc : loc \in Locs(Child(node, step))} :
                                step \in Steps(node)}
Shape(node) == IF IsArr(node) \/ IsObj(node) THEN <<node[1]>> ELSE node
Around(node, loc) ==
    [other \in {l \in Locs(node) : ~IsPrefix(loc, l)} |-> Shape(Part(node, other))]

\* Position n of an array of length is behind the bound from, before the bound to.
Within(n, length, from, to) ==
    /\ IF from[2] THEN length <= n + 1 + from[1] ELSE from[1] <= n
    /\ IF to[2] THEN n + 1 + to[1] <= length ELSE n <= to[1]
\* Where a path leads to; what is no array is the only item of one, if wrap.
Matches(node, path, wrap) ==
    LET Along(locs, leg) == UNION {
            LET here == Part(node, loc)
                length == IF IsArr(here) THEN Len(here[2]) ELSE 1
                hits == {n \in 0..(length - 1) : Within(n, length, leg[2], Last(leg))}
            IN  CASE leg[1] = "key" -> {Append(loc, <<"key", leg[2]>>)}
                  [] leg[1] # "key" /\ IsArr(here) -> {Append(loc, <<"at", n>>) : n \in hits}
                  [] OTHER -> IF wrap /\ hits # {} THEN {loc} ELSE {}
            : loc \in locs}
    IN  FoldLeft(LAMBDA locs, leg : Along(locs, leg) \cap Locs(node), {<<>>}, path)

\* The part at loc has become value, and nothing around it has changed.
Became(old, new, loc, value) == Around(new, loc) = Around(old, loc) /\ loc \in Locs(new)
    /\ Part(new, loc) = value
\* value is in the array at loc, at the place of the bound or as near as there is.
Entered(old, new, loc, bound, value) ==
    LET items == Items(Part(old, loc)) IN
    \E n \in 0..Len(items) :
        /\ \/ Within(n, Len(items), bound, bound)
           \/ bound[2] /\ bound[1] >= Len(items) /\ n = 0
           \/ ~bound[2] /\ bound[1] >= Len(items) /\ n = Len(items)
        /\ Became(old, new, loc, Arr(InsertAt(items, n + 1, value)))

RightChange(name, old, new, path, value) ==
    LET matches == Matches(old, path, TRUE)
        loc == CHOOSE l \in matches : TRUE
        leg == Last(path)
        above == Matches(old, Front(path), name # "json_array_insert")
        place == CHOOSE l \in above : TRUE
    IN  CASE name \in {"json_set", "json_replace"} /\ matches # {} -> Became(old, new, loc, value)
          [] name \in {"json_set", "json_insert"} /\ matches = {} /\ above # {} ->
                 CASE leg[1] = "index" -> Entered(old, new, place, leg[2], value)
                   [] leg[1] = "key" /\ IsObj(Part(old, place)) ->
                          Became(old, new, Append(place, leg), value)
                   [] OTHER -> new = old
          [] name = "json_array_append" /\ matches # {} ->
                 Became(old, new, loc, Arr(Append(Items(Part(old, loc)), value)))
          [] name = "json_array_insert" /\ above # {} /\ IsArr(Part(old, place)) ->
                 Entered(old, new, place, leg[2], value)
          [] name = "json_remove" /\ matches \ {<<>>} # {} ->
                 LET step == Last(loc) IN
                 CASE step[1] = "key" -> Around(new, loc) = Around(old, loc) /\ loc \notin Locs(new)
                   [] OTHER -> Became(old, new, Front(loc),
                                      Arr(RemoveAt(Part(old, Front(loc))[2], step[2] + 1)))
          [] OTHER -> new = old

Keyed(node) == {loc \in Locs(node) : \A i \in DOMAIN loc : loc[i][1] = "key"}
\* A patch decides where it has a value, a null or an array; the rest is kept.
RightPatch(target, patch, new) ==
    LET decided == {loc \in Keyed(patch) : ~IsObj(Part(patch, loc))}
        kept == {loc \in Keyed(target) \ Keyed(patch) : \A l \in Keyed(patch) :
                    IsPrefix(l, loc) => IsObj(Part(patch, l))}
    IN  /\ \A loc \in decided :
               IF Part(patch, loc) = <<"null">> /\ loc # <<>> THEN loc \notin Locs(new)
               ELSE loc \in Locs(new) /\ Part(new, loc) = Part(patch, loc)
        /\ \A loc \in Keyed(patch) \ decided : loc \in Locs(new) /\ IsObj(Part(new, loc))
        /\ \A loc \in kept :
               loc \in Locs(new) /\ Shape(Part(new, loc)) = Shape(Part(target, loc))
        /\ Keyed(new) \subseteq Keyed(patch) \cup kept

Scalars(node) == {loc \in Locs(node) : ~IsArr(Part(node, loc)) /\ ~IsObj(Part(node, loc))}
\* The keys on the way to a scalar, and the scalar.
Trails(node) == {<<SelectSeq(loc, LAMBDA step : step[1] = "key"), Part(node, loc)>> :
                 loc \in Scalars(node)}
RightMerge(left, right, new) ==
    /\ Cardinality(Scalars(new)) = Cardinality(Scalars(left)) + Cardinality(Scalars(right))
    /\ Trails(new) = Trails(left) \cup Trails(right)
    /\ IsObj(left) /\ IsObj(right) => IsObj(new)

Illegal == {"bad", "wild"}
Tops(node) == {Part(node, loc) : loc \in {l \in Locs(node) : Len(l) = IF IsArr(node) THEN 1 ELSE 0}}
RightAnswer(doc, made, value) ==
    LET Found(path) == IF \E leg \in Range(Legs(path)) : leg[1] \in Illegal THEN {}
                       ELSE Matches(doc, Legs(path), made.name # "json_keys")
        found == IF made.paths = <<>> THEN {<<>>} ELSE Found(made.paths[1])
        node == Part(doc, CHOOSE loc \in found : TRUE)
        other == toNode(made.values[1])
        hits == {i \in DOMAIN made.paths : Found(made.paths[i]) # {}}
        many == \/ Len(made.paths) > 1
                \/ \E leg \in Range(Legs(made.paths[1])) : leg[1] = "range"
    IN  CASE made.name = "json_extract" /\ hits # {} /\ many ->
                 /\ value[1] = "arr"
                 /\ Range(value[2]) = UNION {{Part(doc, loc) : loc \in Found(made.paths[i])} :
                                            i \in hits}
                 /\ Len(value[2]) = MapThenSumSet(LAMBDA i : Cardinality(Found(made.paths[i])), hits)
          [] made.name = "json_contains_path" ->
                 value = Flag(IF made.mode = "one" THEN hits # {} ELSE hits = DOMAIN made.paths)
          [] made.name = "json_overlaps" ->
                 value = Flag(IF IsObj(doc) /\ IsObj(other)
                              THEN \E step \in Steps(doc) \cap Steps(other) :
                                       Child(doc, step) = Child(other, step)
                              ELSE Tops(doc) \cap Tops(other) # {})
          [] made.name = "json_valid" -> value = Flag(TRUE)
          [] made.name = "json_type" -> (value[2] \in {"arr", "obj"}) = (Shape(doc) # doc)
          [] made.name = "member_of" -> value = Flag(other \in Tops(doc))
          [] made.name = "json_depth" -> value = Whole(1 + Max({Len(loc) : loc \in Locs(doc)}))
          [] made.name = "json_array" ->
                 value = Arr(<<>>) \/ Items(value)[Len(made.values)] = toNode(Last(made.values))
          [] made.name = "json_object" -> value = Obj(<<>>)
                 \/ value[2][made.values[Len(made.values) - 1][2]] = toNode(Last(made.values))
          [] found = {} -> value = SqlNull
          [] made.name = "json_extract" /\ found # {} -> value = node
          [] made.name = "json_value" -> value = (IF node = <<"null">> THEN SqlNull ELSE node)
          [] made.name = "json_keys" ->
                 value = (IF IsObj(node) THEN <<"keys", {step[2] : step \in Steps(node)}>>
                          ELSE SqlNull)
          [] made.name = "json_length" ->
                 value = Whole(IF IsArr(node) \/ IsObj(node) THEN Cardinality(Steps(node)) ELSE 1)
          [] made.name = "json_contains" /\ found # {} ->
                 /\ value = Flag(TRUE) => Trails(other) \subseteq Trails(node)
                 /\ other = node \/ (other \in Tops(node) /\ ~IsArr(other)) => value = Flag(TRUE)

MayFail(made) ==
    \/ NotJson \in {json.doc} \cup Range(made.values)
    \/ made.name = "json_object"
    \/ \E i \in DOMAIN made.paths :
           LET legs == Legs(made.paths[i]) IN
           \/ \E leg \in Range(legs) : leg[1] \in Illegal \cup {"range"}
           \/ made.name = "json_remove" /\ legs = <<>>
           \/ made.name = "json_array_insert" /\ (legs = <<>> \/ Last(legs)[1] = "key")

\* A function of JSON does with the parts of its document what MySQL says of its
\* paths (func_json_modify.ts, func_json_array.ts, func_json_query.ts,
\* func_json_inspect.ts, func_json_build.ts): it changes the part a path leads to
\* and nothing around it, it finds what is there, a merge keeps every scalar, a
\* patch removes its nulls; and it fails for an illegal path or text only.
JsonIsSql ==
    json.pc = "done" =>
        LET made == json.script.calls[json.done]
            trail == json.trail
            nulls == SqlNull \in Range(made.paths) \cup {json.doc} \cup Range(made.values)
        IN  /\ json.err # "" => MayFail(made)
            /\ \A i \in 1..(Len(trail) - 1) :
                   CASE made.name = "json_merge_patch" ->
                            RightPatch(trail[i], made.values[i], trail[i + 1])
                     [] made.name = "json_merge_preserve" ->
                            RightMerge(trail[i], made.values[i], trail[i + 1])
                     [] OTHER -> RightChange(made.name, trail[i], trail[i + 1],
                                             Legs(made.paths[i]), toNode(made.values[i]))
            /\ json.err = "" /\ trail = <<>> =>
                   IF nulls \/ json.doc = NotJson
                   THEN json.value = SqlNull \/ made.name \in
                       {"json_contains_path", "json_array", "json_object", "json_valid"}
                   ELSE RightAnswer(json.doc, made, json.value)
=============================================================================
