------------------------------- MODULE Types --------------------------------
(***************************************************************************)
(* Reflection (type): values that are written to nodes of a document and   *)
(* read back, directed by a description of their type. A behaviour has one *)
(* attribute of one type: rep.place is the value in the object, rep.node a *)
(* node. ref.value is the value the object should have, ref.saved the one  *)
(* the node should stand for. A value or node is a tuple, its kind first.  *)
(* A number in a document has the width of int64, here Wide bits.          *)
(*                                                                         *)
(* RegistryInit and RegistryNext are for the TypeRegistry.                 *)
(***************************************************************************)
EXTENDS SequencesExt, Integers

CONSTANTS Tested,           \* the types of values
          Numbers, Texts,   \* contents of scalar nodes
          MapKeys,          \* keys of maps, in their order
          Wide,
          Classes, NameOf(_), Super(_)  \* for the registry; a class without a base has Object
VARIABLES rep, ref, fault

vars == <<rep, ref, fault>>

Nil == <<"nil">>
None == [k \in {} |-> 0]
IsNumber(node) == node[1] \in {"int", "float"}
With(f, k, v) == [x \in DOMAIN f \cup {k} |-> IF x = k THEN v ELSE f[x]]

(* Is there a tag in a value, or in the elements of one?                    *)
RECURSIVE Holds(_, _)
Holds(v, tag) ==
    \/ v[1] = tag
    \/ v[1] = "just" /\ Holds(v[2], tag)
    \/ v[1] \in {"array", "map"} /\ \E i \in DOMAIN v[2] : Holds(v[2][i], tag)

(* Signed numbers take one bit for the sign.                               *)
Wrap(bits, signed, n) ==
    LET rest == n % 2^bits
    IN  IF signed /\ rest >= 2^(bits - 1) THEN rest - 2^bits ELSE rest

(* A float is counted in halves.                                           *)
Whole(node) == IF node[1] = "float" THEN node[2] \div 2 ELSE node[2]
Halves(node) == IF node[1] = "float" THEN node[2] ELSE 2 * node[2]

Components(T) == IF T[1] = "color" THEN <<"r", "g", "b", "a">> ELSE SubSeq(<<"x", "y", "z", "w">>, 1, T[2])
Pink == <<"color", <<2, 0, 2, 2>>>>

(* A value above the bound has a name, by which it is only found.           *)
EnumEntries == <<[name |-> "off", value |-> 0], [name |-> "on", value |-> 1], [name |-> "far", value |-> 2]>>
EnumMax == 1
value_for_name(name) == {e.value : e \in {f \in ToSet(EnumEntries) : f.name = name}}
name_for_value(value) == {e.name : e \in {f \in ToSet(EnumEntries) : f.value = value /\ value <= EnumMax}}
contains(value) == name_for_value(value) # {}

ObjectNames == {"a"}
get_object(name) == IF name \in ObjectNames THEN <<"object", name>> ELSE <<"null">>

-----------------------------------------------------------------------------
(* What construct leaves in a place. The simple types fill it with zeroes.  *)
construct(T) ==
    CASE T[1] \in {"integer", "enum"} -> <<"int", 0>>
      [] T[1] = "float"  -> <<"float", 0>>
      [] T[1] = "bool"   -> <<"uninitialised">>
      [] T[1] = "string" -> <<"string", "">>
      [] T[1] = "array"  -> <<"array", <<>>>>
      [] T[1] = "map"    -> <<"map", None>>
      [] T[1] \in {"maybe", "any"} -> <<"nothing">>
      [] T[1] = "vector" -> <<"vector", [i \in 1..T[2] |-> 0]>>
      [] T[1] = "matrix" -> <<"matrix", [r \in 1..T[3] |-> [c \in 1..T[2] |-> 0]]>>
      [] T[1] = "color"  -> <<"color", <<0, 0, 0, 0>>>>
      [] OTHER           -> <<"null">>

(* A variable of the type as C++ declares it.                              *)
declare(T) == IF T[1] \in {"integer", "enum", "float", "bool"} THEN <<"uninitialised">> ELSE construct(T)
IsClass(T) == T[1] \in {"string", "array", "map", "maybe", "any"}
moved_from(T, v) == IF IsClass(T) THEN construct(T) ELSE v

(* IType::deserialize_raw. A node of another kind leaves the place alone.   *)
(* A matrix is larger than its type says, so that one element of an array   *)
(* does not fit in the memory for it.                                      *)
RECURSIVE deserialize(_, _, _)

deserialize_array(T, place, node) ==
    LET Push(a, child) ==
          LET v == deserialize(T, a.element, child)
          IN  [element |-> moved_from(T, v), elements |-> Append(a.elements, v)]
    IN  IF node[1] # "array" THEN place
        ELSE IF T[1] = "matrix" /\ node[2] # <<>> THEN <<"overrun">>
        ELSE <<"array", FoldLeft(Push, [element |-> construct(T), elements |-> place[2]], node[2]).elements>>

deserialize_map(T, place, node) ==
    LET Put(m, key) ==
          LET v == deserialize(T, m.value, node[2][key])
          IN  [value |-> moved_from(T, v), pairs |-> With(m.pairs, key, v)]
    IN  IF node[1] # "map" THEN place
        ELSE <<"map", FoldLeft(Put, [value |-> construct(T), pairs |-> place[2]],
                               SelectSeq(MapKeys, LAMBDA k : k \in DOMAIN node[2])).pairs>>

deserialize_enum(T, place, node) ==
    IF node[1] = "string" THEN
      IF value_for_name(node[2]) = {} THEN place ELSE <<"int", CHOOSE n \in value_for_name(node[2]) : TRUE>>
    ELSE IF IsNumber(node) /\ (T[2] \/ contains(Whole(node))) THEN <<"int", Whole(node)>>
    ELSE place

deserialize_components(T, place, node) ==
    LET Child(i) == IF node[1] = "map" /\ Components(T)[i] \in DOMAIN node[2]
                    THEN node[2][Components(T)[i]] ELSE Nil
        Read(i)  == IF T[1] = "color" THEN Halves(Child(i)) ELSE Whole(Child(i))
    IN  <<T[1], [i \in DOMAIN place[2] |->
                   IF IsNumber(Child(i)) THEN Read(i)
                   ELSE IF T[1] = "color" /\ i = 4 THEN 2 ELSE place[2][i]]>>

(* The width of a row is compared with the number of rows.                  *)
deserialize_matrix(T, place, node) ==
    LET Element(r, c) == IF c \in DOMAIN node[2][r][2] THEN node[2][r][2][c] ELSE Nil
    IN  IF node[1] = "array" /\ Len(node[2]) >= T[3]
        THEN <<"matrix", [r \in 1..T[3] |-> [c \in 1..T[2] |->
                IF node[2][r][1] = "array" /\ Len(node[2]) >= T[2] /\ IsNumber(Element(r, c))
                THEN Whole(Element(r, c)) ELSE place[2][r][c]]]>>
        ELSE place

(* Read a node of any kind. Text traps, and a float is read as an integer.  *)
AnyValue == <<"any">>
deserialize_any(node) ==
    CASE node = Nil         -> <<"nothing">>
      [] IsNumber(node)     -> <<"int", Whole(node)>>
      [] node[1] = "array"  -> <<"array", [i \in DOMAIN node[2] |-> deserialize(AnyValue, <<"nothing">>, node[2][i])]>>
      [] node[1] = "map"    -> <<"map", [k \in DOMAIN node[2] |-> deserialize(AnyValue, <<"nothing">>, node[2][k])]>>
      [] OTHER              -> <<"trap">>

deserialize_color(T, place, node) == IF node[1] = "map" THEN deserialize_components(T, place, node) ELSE Pink
deserialize_integer(T, place, node) == IF IsNumber(node) THEN <<"int", Wrap(T[2], T[3], Whole(node))>> ELSE place
deserialize_float(place, node) == IF IsNumber(node) THEN <<"float", Halves(node)>> ELSE place
deserialize_bool(place, node) == IF node[1] = "string" THEN <<"bool", node[2] # "false">> ELSE place
deserialize_string(place, node) == IF node[1] = "string" THEN node ELSE place
deserialize_maybe(T, place, node) ==
    IF node = Nil THEN place ELSE <<"just", deserialize(T, declare(T), node)>>
deserialize_reference(place, node) == IF node[1] = "string" THEN get_object(node[2]) ELSE place

deserialize(T, place, node) ==
    CASE T[1] = "integer"   -> deserialize_integer(T, place, node)
      [] T[1] = "float"     -> deserialize_float(place, node)
      [] T[1] = "bool"      -> deserialize_bool(place, node)
      [] T[1] = "string"    -> deserialize_string(place, node)
      [] T[1] = "enum"      -> deserialize_enum(T, place, node)
      [] T[1] = "array"     -> deserialize_array(T[2], place, node)
      [] T[1] = "map"       -> deserialize_map(T[2], place, node)
      [] T[1] = "maybe"     -> deserialize_maybe(T[2], place, node)
      [] T[1] = "vector"    -> deserialize_components(T, place, node)
      [] T[1] = "color"     -> deserialize_color(T, place, node)
      [] T[1] = "matrix"    -> deserialize_matrix(T, place, node)
      [] T[1] = "any"       -> deserialize_any(node)
      [] T[1] = "reference" -> deserialize_reference(place, node)
      [] OTHER              -> <<"trap">>

-----------------------------------------------------------------------------
(* IType::serialize_raw: what is made of a node. FloatType ends in an       *)
(* ASSERT(false) whatever its width.                                       *)
as_array(node) == IF node[1] = "array" THEN node[2] ELSE <<>>
as_map(node) == IF node[1] = "map" THEN node[2] ELSE None

TypeOf(any) ==
    CASE any[1] = "int"   -> <<"integer", Wide, TRUE>>
      [] any[1] = "array" -> <<"array", AnyValue>>
      [] any[1] = "map"   -> <<"map", AnyValue>>
      [] OTHER            -> <<any[1]>>

serialize_components(T, place, node) ==
    LET Name == Components(T)
        Number(n) == IF T[1] = "color" THEN <<"float", n>> ELSE <<"int", n>>
    IN  <<"map", FoldLeft(LAMBDA m, i : With(m, Name[i], Number(place[2][i])), as_map(node),
                          [i \in DOMAIN Name |-> i])>>

serialize_matrix(T, place, node) ==
    <<"array", as_array(node) \o [r \in DOMAIN place[2] |->
                  <<"array", [c \in 1..T[2] |-> <<"int", place[2][r][c]>>]>>]>>

RECURSIVE serialize(_, _, _)

serialize_array(T, elements, node) ==
    IF elements = <<>> THEN node
    ELSE <<"array", as_array(node) \o [i \in DOMAIN elements |-> serialize(T, elements[i], Nil)]>>

serialize_map(T, pairs, node) ==
    LET old == as_map(node)
    IN  IF DOMAIN pairs = {} THEN node
        ELSE <<"map", [k \in DOMAIN old \cup DOMAIN pairs |->
                         IF k \notin DOMAIN pairs THEN old[k]
                         ELSE serialize(T, pairs[k], IF k \in DOMAIN old THEN old[k] ELSE Nil)]>>

serialize_enum(T, value, node) ==
    IF contains(value) THEN <<"string", CHOOSE name \in name_for_value(value) : TRUE>>
    ELSE IF T[2] THEN <<"int", value>> ELSE node

serialize_integer(place) == <<"int", Wrap(Wide, TRUE, place[2])>>
serialize_bool(place) == <<"string", IF place[2] THEN "true" ELSE "false">>
serialize_maybe(T, place, node) == IF place[1] = "just" THEN serialize(T, place[2], node) ELSE node
serialize_any(place, node) == IF place[1] = "nothing" THEN Nil ELSE serialize(TypeOf(place), place, node)
serialize_reference(place) == IF place[1] = "object" THEN <<"string", place[2]>> ELSE Nil

serialize(T, place, node) ==
    CASE T[1] = "integer"   -> serialize_integer(place)
      [] T[1] = "bool"      -> serialize_bool(place)
      [] T[1] = "string"    -> place
      [] T[1] = "enum"      -> serialize_enum(T, place[2], node)
      [] T[1] = "array"     -> serialize_array(T[2], place[2], node)
      [] T[1] = "map"       -> serialize_map(T[2], place[2], node)
      [] T[1] = "maybe"     -> serialize_maybe(T[2], place, node)
      [] T[1] = "vector"    -> serialize_components(T, place, node)
      [] T[1] = "color"     -> serialize_components(T, place, node)
      [] T[1] = "matrix"    -> serialize_matrix(T, place, node)
      [] T[1] = "any"       -> serialize_any(place, node)
      [] T[1] = "reference" -> serialize_reference(place)
      [] OTHER              -> <<"trap">>

-----------------------------------------------------------------------------
(* Values a program has of a type, and nodes it did not write.             *)
Seqs(S) == {<<>>} \cup {<<x>> : x \in S} \cup {<<x, y>> : x \in S, y \in S}

RECURSIVE ValuesOf(_)
ValuesOf(T) ==
    CASE T[1] = "integer" -> {<<"int", Wrap(T[2], T[3], n)>> : n \in Numbers}
      [] T[1] = "float"   -> {<<"float", n>> : n \in Numbers}
      [] T[1] = "bool"    -> {<<"bool", b>> : b \in BOOLEAN}
      [] T[1] = "string"  -> {<<"string", t>> : t \in Texts}
      [] T[1] = "array"   -> {<<"array", s>> : s \in Seqs(ValuesOf(T[2]))}
      [] T[1] = "map"     -> {<<"map", f>> : f \in UNION {[K -> ValuesOf(T[2])] : K \in SUBSET ToSet(MapKeys)}}
      [] T[1] = "maybe"   -> {<<"nothing">>} \cup {<<"just", v>> : v \in ValuesOf(T[2])}
      [] T[1] = "enum"    -> {<<"int", n>> : n \in {0, 1, 2}}
      [] T[1] = "vector"  -> {<<"vector", v>> : v \in [1..T[2] -> Numbers]}
      [] T[1] = "matrix"  -> {<<"matrix", [r \in 1..T[3] |-> [c \in 1..T[2] |-> r * n + c]]>> : n \in {0, 3}}
      [] T[1] = "color"   -> {<<"color", <<r, 1, 0, a>>>> : r \in {0, 1}, a \in {1, 2}}
      [] T[1] = "any"     -> {<<"nothing">>, <<"int", 1>>, <<"float", 3>>, <<"array", <<<<"int", 1>>, <<"nothing">>>>>>,
                              <<"map", [k \in {"p"} |-> <<"int", 2>>]>>} \cup {<<"string", t>> : t \in Texts}
      [] T[1] = "pointer" -> {<<"null">>}
      [] OTHER            -> {<<"null">>} \cup {<<"object", n>> : n \in ObjectNames}

ForeignNodes ==
    {Nil, <<"int", 1>>, <<"float", 3>>, <<"array", <<>>>>, <<"array", <<<<"int", 1>>, <<"string", "a">>>>>>,
     <<"map", [k \in {"p"} |-> <<"array", <<>>>>]>>} \cup {<<"string", t>> : t \in Texts}

(* A node that a value of the type could have been written to.             *)
RECURSIVE Fits(_, _)
Fits(T, node) ==
    CASE T[1] \in {"integer", "float"} -> IsNumber(node)
      [] T[1] = "bool"   -> node \in {<<"string", "true">>, <<"string", "false">>}
      [] T[1] = "string" -> node[1] = "string"
      [] T[1] \in {"array", "map"} -> node[1] = T[1] /\ \A i \in DOMAIN node[2] : Fits(T[2], node[2][i])
      [] T[1] = "maybe"  -> node = Nil \/ Fits(T[2], node)
      [] T[1] = "enum"   -> \/ node[1] = "string" /\ value_for_name(node[2]) # {}
                            \/ IsNumber(node) /\ (T[2] \/ contains(Whole(node)))
      [] T[1] = "any"    -> /\ node[1] \notin {"string", "float"}
                            /\ (node[1] \in {"array", "map"} => \A i \in DOMAIN node[2] : Fits(T, node[2][i]))
      [] T[1] = "reference" -> node[1] = "string"
      [] OTHER           -> FALSE

(* The variable for the elements of a collection keeps the last value when   *)
(* the next node does not replace it.                                      *)
RECURSIVE CarriesOver(_, _)
CarriesOver(T, node) ==
    /\ T[1] \in {"array", "map"} /\ node[1] = T[1]
    /\ \E i \in DOMAIN node[2] :
         \/ T[2][1] \in {"integer", "float", "bool", "enum", "reference"} /\ ~Fits(T[2], node[2][i])
         \/ CarriesOver(T[2], node[2][i])

(* Types that leave nothing in a node for some of their values, or add to   *)
(* what is there.                                                          *)
LeavesNode(T) == T[1] \in {"array", "map", "maybe", "matrix", "any"} \/ T = <<"enum", FALSE>>

(* Types that take something from nodes that do not fit.                    *)
TakesAnyway(T, node) ==
    \/ T[1] \in {"array", "map"} /\ node[1] = T[1]
    \/ T[1] = "bool" /\ node[1] = "string"
    \/ T[1] \in {"maybe", "any", "color"}

-----------------------------------------------------------------------------
Foreign == <<"foreign">>
Blank(T) == IF T = AnyValue THEN <<"nothing">> ELSE Foreign
First(faults) == IF \E f \in ToSet(faults) : f[1]
                 THEN SelectSeq(faults, LAMBDA f : f[1])[1][2] ELSE fault

Init ==
    /\ \E T \in Tested, a \in {"member", "method", "read only", "opaque"}, v \in UNION {ValuesOf(t) : t \in Tested} :
         /\ v \in ValuesOf(T)
         /\ rep = [type |-> T, attribute |-> a, place |-> v, node |-> Nil]
         /\ ref = [value |-> v, saved |-> Blank(T)]
    /\ fault = "none"

Set ==
    \E v \in ValuesOf(rep.type) \cup {construct(rep.type)} :
      /\ v[1] # "uninitialised"
      /\ rep' = [rep EXCEPT !.place = v]
      /\ ref' = [ref EXCEPT !.value = v]
      /\ UNCHANGED fault

NewNode ==
    /\ rep' = [rep EXCEPT !.node = Nil]
    /\ ref' = [ref EXCEPT !.saved = Blank(rep.type)]
    /\ UNCHANGED fault

EditNode ==
    \E n \in ForeignNodes :
      /\ ~Fits(rep.type, n)
      /\ rep' = [rep EXCEPT !.node = n]
      /\ ref' = [ref EXCEPT !.saved = Foreign]
      /\ UNCHANGED fault

(* An opaque attribute raises before anything is written.                   *)
serialize_attribute ==
    LET node == serialize(rep.type, rep.place, rep.node)
    IN  /\ rep.attribute # "opaque"
        /\ rep' = [rep EXCEPT !.node = node]
        /\ ref' = [ref EXCEPT !.saved = ref.value]
        /\ fault' = First(<<<<Holds(node, "trap"), "written through an ASSERT">>,
                            <<rep.node # Nil /\ LeavesNode(rep.type), "written over another value">>>>)

(* A member is read in place; otherwise a variable is, unless the node is   *)
(* empty, and given to the setter, which raises if there is none.           *)
deserialize_attribute ==
    LET T == rep.type
        member == rep.attribute = "member"
        value == IF rep.node = Nil /\ ~member THEN rep.place
                 ELSE deserialize(T, IF member THEN rep.place ELSE declare(T), rep.node)
        fits == ref.saved # Foreign
        raises == rep.attribute \in {"read only", "opaque"}
    IN  /\ rep' = [rep EXCEPT !.place = IF raises THEN @ ELSE value]
        /\ ref' = [ref EXCEPT !.value = IF fits /\ ~raises THEN ref.saved ELSE @]
        /\ fault' = First(<<
             <<Holds(value, "trap"), "read through an ASSERT">>,
             <<Holds(value, "overrun"), "matrix wider than its type says">>,
             <<raises, fault>>,
             <<rep.node = Nil /\ fits /\ ref.saved # rep.place, "nothing was written">>,
             <<CarriesOver(T, rep.node), "element keeps the value before it">>,
             <<~fits /\ TakesAnyway(T, rep.node), "taken from a wrong node">>,
             <<~fits /\ rep.node # Nil /\ ~member, "setter called for a wrong node">>,
             <<T[1] \in {"array", "map"} /\ member /\ rep.place # construct(T), "added to the old value">>,
             <<T[1] = "matrix" /\ T[2] > T[3], "matrix wider than high">>>>)

Next ==
    /\ fault = "none"
    /\ Set \/ NewNode \/ EditNode \/ serialize_attribute \/ deserialize_attribute

(* What an attribute is written as is what it is when it is read, and nodes *)
(* of other kinds leave it alone.                                          *)
Represents == fault = "none" => rep.place = ref.value

-----------------------------------------------------------------------------
(* TypeRegistry: rep maps names to classes, ref is what was registered.     *)
RegistryInit == rep = [n \in {} |-> "none"] /\ ref = {} /\ fault = "none"

get(name) == IF name \in DOMAIN rep THEN rep[name] ELSE "none"

add(class) ==
    /\ rep' = With(rep, NameOf(class), class)
    /\ ref' = ref \cup {class}
    /\ fault' = IF get(NameOf(class)) \notin {"none", class} THEN "two classes of one name" ELSE fault

clear == rep' = [n \in {} |-> "none"] /\ ref' = {} /\ UNCHANGED fault

RECURSIVE Bases(_)
Bases(class) == IF class = "Object" THEN {} ELSE {class} \cup Bases(Super(class))

add_missing_types ==
    LET missing == {c \in UNION {Bases(rep[n]) : n \in DOMAIN rep} \cup {"Object"} : NameOf(c) \notin DOMAIN rep}
    IN  /\ rep' = [n \in DOMAIN rep \cup {NameOf(c) : c \in missing} |->
                     IF n \in DOMAIN rep THEN rep[n] ELSE CHOOSE c \in missing : NameOf(c) = n]
        /\ ref' = UNION {Bases(c) : c \in ref} \cup ref \cup {"Object"}
        /\ fault' = IF \E c \in ref' : get(NameOf(c)) \notin {"none", c} \/ \E d \in missing \ {c} : NameOf(c) = NameOf(d)
                    THEN "two classes of one name" ELSE fault

RegistryNext ==
    /\ fault = "none"
    /\ (\E c \in Classes : add(c)) \/ clear \/ add_missing_types

(* Every class that was registered is found by its name.                   *)
RegistryRepresents == fault = "none" => \A c \in ref : get(NameOf(c)) = c
=============================================================================
