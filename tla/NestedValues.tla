---------------------------- MODULE NestedValues ----------------------------
(***************************************************************************)
(* The values that getNested and setNested (core/src/common/utils) walk    *)
(* through, and what a reading returns of them.                            *)
(*                                                                         *)
(* A value is a tuple headed by its kind.  A path is the sequence of the   *)
(* parts between its dots; the name of a property is a sequence of parts   *)
(* too, of one part unless the name itself holds dots.  An object is a     *)
(* function from names to values: a property set to undefined is left out, *)
(* which no reader tells from one that is not there.                       *)
(***************************************************************************)
EXTENDS Integers, SequencesExt

CONSTANTS Opening,  \* each part beginning with "$", with the text behind it
          Closing   \* each part ending with "$", with the text before it

Undefined == <<"undefined">>
Null      == <<"null">>
Text(t)   == <<"text", t>>
Object(f) == <<"object", f>>
Array(s)  == <<"array", s>>

Kind(v)     == v[1]
IsArray(v)  == Kind(v) = "array"
HasProperties(v) == Kind(v) \in {"object", "array"}

\* The parts that parse as an index, with the place each stands for (bound: 4).
Indexes == [part \in {ToString(i) : i \in 0 .. 3} |-> CHOOSE i \in 1 .. 4 : ToString(i - 1) = part]
IsIndex(part) == part \in DOMAIN Indexes

\* One value for all that a path leads to.
UnifiedValue(found) ==
    IF Len(found.paths) > 1 \/ Len(found.values) > 1 THEN Array(found.values)
    ELSE IF found.values = <<>> THEN Undefined ELSE found.values[1]

HasBracket(path) == \E i \in DOMAIN path : path[i] \in DOMAIN Opening

\* Whether one path continues another, by itself or with the indexes left out.
Bare(path)  == SelectSeq(path, LAMBDA part : ~IsIndex(part))
Leads(p, q) == IsPrefix(p, q) \/ IsPrefix(Bare(p), Bare(q))

\* Paths that may lead to the same place: one continues the other.
Related(p, q) == Leads(p, q) \/ Leads(q, p)
=============================================================================
