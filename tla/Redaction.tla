----------------------------- MODULE Redaction ------------------------------
(***************************************************************************)
(* The path walkers of the engine: redaction (redactPath), labels and body *)
(* criteria (FirstString), meters (sumNumeric) and the segment globs of    *)
(* rules (matchSegments), each checked against one declarative notion of a *)
(* pattern matching a sequence of names.  The walkers are pure, so the     *)
(* module has no state: what emit does with one captured body, the paths   *)
(* of its policy and the path of a label or a meter is an operator of them.*)
(*                                                                         *)
(* A JSON value is a scalar [t |-> "str" or "num", v], a map               *)
(* [t |-> "map", fields] from names, or an array [t |-> "arr", items].     *)
(* A pattern is a sequence of names, "*" and "**".                         *)
(***************************************************************************)
EXTENDS Integers, Sequences, FiniteSets, Functions, SequencesExt

CONSTANTS
    Bodies,      \* the JSON bodies of the instance
    Policies,    \* the RedactJSONPaths of the policies: sequences of patterns
    Patterns     \* the patterns of labels, meters and globs

RedactedPlaceholder == [t |-> "str", v |-> -1]
IsScalar(node) == node.t \in {"str", "num"}
Nothing == [sum |-> 0, found |-> FALSE]
-----------------------------------------------------------------------------
(* The walkers                                                             *)

(* Mutant: "*" is taken for a name.                                        *)
SelectsName(seg, name) == seg = name

Selects(seg, name) == seg \in {"*", name}

(* redactPath: the addressed values are replaced; arrays are transparent;  *)
(* "**" is tried here and at every deeper level.                           *)
RECURSIVE redactPath(_, _)
redactPath(node, path) ==
    IF path = <<>> \/ IsScalar(node) THEN node
    ELSE IF node.t = "arr"
    THEN [node EXCEPT !.items = [i \in DOMAIN @ |-> redactPath(@[i], path)]]
    ELSE LET rest == Tail(path) IN
        IF Head(path) = "**"
        THEN LET here == redactPath(node, rest) IN
             [here EXCEPT !.fields = [k \in DOMAIN @ |-> redactPath(@[k], path)]]
        ELSE [node EXCEPT !.fields = [k \in DOMAIN @ |->
                 IF ~Selects(Head(path), k) THEN @[k]
                 ELSE IF rest = <<>> THEN RedactedPlaceholder
                 ELSE redactPath(@[k], rest)]]

AddMeters(a, b) == [sum |-> a.sum + b.sum, found |-> a.found \/ b.found]
MeterOver(f) == FoldFunction(AddMeters, Nothing, f)

(* sumNumeric                                                              *)
RECURSIVE sumNumeric(_, _)
sumNumeric(node, path) ==
    CASE node.t = "arr" /\ path # <<>> ->
            MeterOver([i \in DOMAIN node.items |-> sumNumeric(node.items[i], path)])
      [] node.t = "map" /\ path # <<>> /\ Head(path) = "**" ->
            AddMeters(IF Tail(path) = <<>> THEN Nothing ELSE sumNumeric(node, Tail(path)),
                      MeterOver([k \in DOMAIN node.fields |-> sumNumeric(node.fields[k], path)]))
      [] node.t = "map" /\ path # <<>> /\ Head(path) # "**" ->
            MeterOver([k \in {k \in DOMAIN node.fields : Selects(Head(path), k)} |->
                          sumNumeric(node.fields[k], Tail(path))])
      [] node.t = "num" /\ path = <<>> -> [sum |-> node.v, found |-> TRUE]
      [] OTHER -> Nothing

(* FirstString: the values it may return, none when it finds none.  Go     *)
(* iterates over a map in any order, so every entry that has a value can   *)
(* be the first.                                                           *)
RECURSIVE FirstString(_, _)
FirstString(node, path) ==
    CASE node.t = "arr" /\ path # <<>> ->
            LET found == {i \in DOMAIN node.items : FirstString(node.items[i], path) # {}}
            IN  IF found = {} THEN {}
                ELSE FirstString(node.items[CHOOSE i \in found : \A j \in found : i <= j], path)
      [] node.t = "map" /\ path # <<>> /\ Head(path) = "**" ->
            LET here == IF Tail(path) = <<>> THEN {} ELSE FirstString(node, Tail(path))
            IN  IF here # {} THEN here
                ELSE UNION {FirstString(node.fields[k], path) : k \in DOMAIN node.fields}
      [] node.t = "map" /\ path # <<>> /\ Head(path) # "**" ->
            UNION {FirstString(node.fields[k], Tail(path)) :
                      k \in {k \in DOMAIN node.fields : Selects(Head(path), k)}}
      [] IsScalar(node) /\ path = <<>> -> {node.v}
      [] OTHER -> {}

(* matchSegments: "**" stands for zero or more segments.                   *)
RECURSIVE matchSegments(_, _)
matchSegments(pattern, segs) ==
    IF pattern = <<>> THEN segs = <<>>
    ELSE IF Head(pattern) = "**"
    THEN \E i \in 0..Len(segs) :
            matchSegments(Tail(pattern), SubSeq(segs, i + 1, Len(segs)))
    ELSE /\ segs # <<>>
         /\ Selects(Head(pattern), Head(segs))
         /\ matchSegments(Tail(pattern), Tail(segs))
-----------------------------------------------------------------------------
(* One exchange, as emit takes it: RedactJSONBody applies the paths of the *)
(* policy one after another, the label is read from what they left, the    *)
(* meters from the captured body.                                          *)

RedactJSONBody(body, paths) == FoldLeft(redactPath, body, paths)

(* Mutant: the label is read before governance.                            *)
RawLabel(body, paths, p) == FirstString(body, p)

(* ValueFromBody: the values a label may take, none when it is missing.    *)
ReadLabel(body, paths, p) == FirstString(RedactJSONBody(body, paths), p)
-----------------------------------------------------------------------------
(* The reference                                                           *)

(* A pattern matches names when they can be dealt out to its segments in   *)
(* order: one to each name and "*", any number to each "**".               *)
Fits(pattern, names) ==
    \E f \in [DOMAIN names -> DOMAIN pattern] :
        /\ \A i \in DOMAIN names : pattern[f[i]] \in {"*", "**", names[i]}
        /\ \A i, j \in DOMAIN names : i < j => f[i] <= f[j]
        /\ \A s \in DOMAIN pattern :
              pattern[s] = "**" \/ Cardinality({i \in DOMAIN names : f[i] = s}) = 1

(* The walkers stop at a map, and find nothing, when "**" ends the pattern.*)
Addresses(pattern, names) == Last(pattern) # "**" /\ Fits(pattern, names)

(* Every scalar and every empty container of a value, with the steps that  *)
(* lead to it.                                                             *)
RECURSIVE Leaves(_)
Leaves(node) ==
    IF node.t = "map" /\ node.fields # <<>>
    THEN UNION {{[at |-> <<<<"key", k>>>> \o l.at, node |-> l.node] :
                    l \in Leaves(node.fields[k])} : k \in DOMAIN node.fields}
    ELSE IF node.t = "arr" /\ node.items # <<>>
    THEN UNION {{[at |-> <<<<"index", i>>>> \o l.at, node |-> l.node] :
                    l \in Leaves(node.items[i])} : i \in DOMAIN node.items}
    ELSE {[at |-> <<>>, node |-> node]}

IsKey(step) == step[1] = "key"
Names(at) == LET keys == SelectSeq(at, IsKey) IN [i \in DOMAIN keys |-> keys[i][2]]

(* The prefixes of a position that end in a name some path addresses.      *)
Covered(paths, at) ==
    {q \in 1..Len(at) : /\ IsKey(at[q])
                        /\ \E i \in DOMAIN paths :
                              Addresses(paths[i], Names(SubSeq(at, 1, q)))}

Bare(paths, leaves) == {l \in leaves : Covered(paths, l.at) = {}}

(* What stands in the place of a covered leaf: the outermost value around  *)
(* it that is addressed, masked.                                           *)
Masked(paths, l) ==
    [at |-> SubSeq(l.at, 1, CHOOSE q \in Covered(paths, l.at) :
                               \A r \in Covered(paths, l.at) : q <= r),
     node |-> RedactedPlaceholder]

(* The scalars a label or a meter reads: the path ends at the entry of a   *)
(* map, since an array of scalars is not looked into.                      *)
Read(p, leaves) ==
    {l \in leaves : /\ IsScalar(l.node) /\ l.at # <<>>
                    /\ IsKey(Last(l.at)) /\ Addresses(p, Names(l.at))}

(* Redaction is exact and independent of the order of the paths: a value   *)
(* survives just when neither it nor anything around it is addressed, and  *)
(* the outermost addressed value is replaced as a whole (redactPath:       *)
(* wildcards, recursive descent, transparent arrays).                      *)
RedactionExact ==
    \A body \in Bodies, paths \in Policies :
        LET leaves == Leaves(body)
            bare == Bare(paths, leaves)
        IN  Leaves(RedactJSONBody(body, paths)) =
                bare \cup {Masked(paths, l) : l \in leaves \ bare}

RECURSIVE Total(_)
Total(S) == IF S = {} THEN 0 ELSE LET l == CHOOSE l \in S : TRUE
                                  IN  l.node.v + Total(S \ {l})

(* A label never routes around a redaction, in whatever other form its own *)
(* path is written: what it reads is the placeholder or a value no path    *)
(* covers, and it is missing only when its path leads to no scalar.        *)
LabelExact(body, paths, p) ==
    LET label == ReadLabel(body, paths, p) IN
    /\ label \subseteq {RedactedPlaceholder.v} \cup
          {l.node.v : l \in Bare(paths, Read(p, Leaves(body)))}
    /\ label = {} <=> Read(p, Leaves(RedactJSONBody(body, paths))) = {}

(* A meter counts every number its path addresses, masked or not, and each *)
(* once unless the path holds more than one "**".                          *)
MeterExact(body, p) ==
    LET hit == {l \in Read(p, Leaves(body)) : l.node.t = "num"}
        meter == sumNumeric(body, p)
    IN  /\ meter.found <=> hit # {}
        /\ \/ meter.sum = Total(hit)
           \/ /\ Cardinality({i \in DOMAIN p : p[i] = "**"}) > 1
              /\ meter.sum >= Total(hit)

(* The globs of rules read the same wildcards as the paths of redaction.   *)
GlobsAgree(body, p) ==
    \A l \in Leaves(body) : matchSegments(p, Names(l.at)) <=> Fits(p, Names(l.at))

(* Everything that reads a path by a walker of its own agrees with what    *)
(* redaction masks by that path: labels (ValueFromBody: "post-redaction    *)
(* ... deliberate and load-bearing"), meters (ExtractMeters: "Every        *)
(* numeric match on a path is summed") and rule globs (matchSegments).     *)
WalkersAgree ==
    \A body \in Bodies, p \in Patterns :
        /\ \A paths \in Policies : LabelExact(body, paths, p)
        /\ MeterExact(body, p)
        /\ GlobsAgree(body, p)
=============================================================================
