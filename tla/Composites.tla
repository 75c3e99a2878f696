----------------------------- MODULE Composites -----------------------------
(***************************************************************************)
(* Composite types (object/composite_type.cpp), the objects made of them,  *)
(* and the search for an aspect (object/aspect_cast.hpp). rep.types has the *)
(* composite types; rep.memory the object that was constructed, a set of   *)
(* cells: where an Object lies, its type, and its offset_ within its       *)
(* composite. An object of a plain type takes one unit of memory. ref is   *)
(* the sequence of the classes the object consists of, in their order.     *)
(***************************************************************************)
EXTENDS SequencesExt, Integers

CONSTANTS Plain,          \* classes
          Composite,      \* composite types
          Base(_),        \* the class at the start of each composite
          Implementers,   \* the classes that implement the interface
          MaxAspects
VARIABLES rep, ref, fault

vars == <<rep, ref, fault>>

NoType == [aspects |-> <<>>, frozen |-> FALSE, size |-> 1, exposed |-> <<>>]

Init ==
    /\ rep = [types |-> [c \in Composite |-> NoType], memory |-> {}]
    /\ ref = <<>>
    /\ fault = "none"

size(types, t) == IF t \in Plain THEN 1 ELSE types[t].size
Class(t) == IF t \in Plain THEN t ELSE Base(t)

offset_of_element(types, c, i) ==
    1 + FoldLeft(LAMBDA sum, t : sum + size(types, t), 0, SubSeq(types[c].aspects, 1, i - 1))

(* The composites that a type is made of.                                  *)
RECURSIVE Parts(_, _)
Parts(types, t) ==
    IF t \in Plain THEN {}
    ELSE {t} \cup UNION {Parts(types, types[t].aspects[i]) : i \in DOMAIN types[t].aspects}

RECURSIVE construct(_, _, _, _)
construct(types, t, place, offset) ==
    {[at |-> place, type |-> t, offset |-> offset]} \cup
    IF t \in Plain THEN {}
    ELSE UNION {LET o == offset_of_element(types, t, i)
                IN  construct(types, types[t].aspects[i], place + o, o) : i \in DOMAIN types[t].aspects}

(* The sizes the aspects had when they were added are those they have now.  *)
SizeIsTrue(types, t) ==
    \A c \in Parts(types, t) :
      types[c].size = offset_of_element(types, c, Len(types[c].aspects) + 1)

RECURSIVE Classes(_, _)
Classes(types, t) ==
    IF t \in Plain THEN <<t>>
    ELSE <<Base(t)>> \o FlattenSeq([i \in DOMAIN types[t].aspects |-> Classes(types, types[t].aspects[i])])

-----------------------------------------------------------------------------
Nowhere == [at |-> -1, type |-> "none", offset |-> -1]
CellAt(place, t) == CHOOSE c \in rep.memory : c.at = place /\ c.type = t

get_aspect_in_object(c, i) ==
    CellAt(c.at + offset_of_element(rep.types, c.type, i), rep.types[c.type].aspects[i])

IsAspect(c) == c.offset # 0
find_parent(c) ==
    IF IsAspect(c) THEN CHOOSE p \in rep.memory : p.at = c.at - c.offset /\ p.type \in Composite
                                /\ \E i \in DOMAIN rep.types[p.type].aspects : get_aspect_in_object(p, i) = c
    ELSE Nowhere

RECURSIVE find_aspect_of_type(_, _, _)
find_aspect_of_type(c, type, skip) ==
    LET aspects == rep.types[c.type].aspects
        Found(i) == find_aspect_of_type(get_aspect_in_object(c, i), type, "none")
        breadth == {i \in DOMAIN aspects : aspects[i] = type}
        depth   == {i \in DOMAIN aspects : aspects[i] \in Composite \ {skip} /\ Found(i) # Nowhere}
    IN  IF breadth # {}    THEN get_aspect_in_object(c, Min(breadth))
        ELSE IF depth # {} THEN Found(Min(depth))
        ELSE Nowhere

(* The loop over the composites an aspect is in.                            *)
RECURSIVE SearchParents(_, _, _)
SearchParents(parent, type, skip) ==
    IF parent = Nowhere THEN Nowhere
    ELSE IF Class(parent.type) = type THEN parent
    ELSE LET found == find_aspect_of_type(parent, type, skip)
         IN  IF found # Nowhere THEN found ELSE SearchParents(find_parent(parent), type, parent.type)

aspect_composite_cast(c, type) ==
    LET below == IF c.type \in Composite THEN find_aspect_of_type(c, type, "none") ELSE Nowhere
    IN  IF below # Nowhere THEN below ELSE SearchParents(find_parent(c), type, c.type)

aspect_cast(c, type) == IF Class(c.type) = type THEN c ELSE aspect_composite_cast(c, type)

(* The cast to a class without reflection looks at the aspects of the       *)
(* object, at its composite and at the aspects in that, over and over.      *)
InterfaceInReach(c) ==
    LET Aspects(p) == IF p.type \in Composite
                      THEN {get_aspect_in_object(p, i) : i \in DOMAIN rep.types[p.type].aspects} ELSE {}
        near == {c, find_parent(c)} \cup Aspects(c) \cup Aspects(find_parent(c))
    IN  \E x \in near \ {Nowhere} : Class(x.type) \in Implementers

-----------------------------------------------------------------------------
(* An attribute of a class is named as the class is; one that a composite   *)
(* exposes is of one of its aspects, and may be exposed there in turn.      *)
attributes(c) == rep.types[c].exposed
find_attribute_by_name(t, name) ==
    LET own == IF t \in Plain THEN {} ELSE {k \in DOMAIN attributes(t) : attributes(t)[k].name = name}
    IN  IF own # {} THEN attributes(t)[Min(own)] @@ [in |-> t]
        ELSE [name |-> IF Class(t) = name THEN name ELSE "none", aspect |-> 0, in |-> t]

(* The cell and the class that an attribute of an object ends at.           *)
RECURSIVE resolve_exposed_attribute(_, _)
resolve_exposed_attribute(attr, c) ==
    IF attr.aspect = 0 THEN c
    ELSE LET inner == get_aspect_in_object(c, attr.aspect)
         IN  resolve_exposed_attribute(find_attribute_by_name(inner.type, attr.name), inner)

-----------------------------------------------------------------------------
(* A composite within itself has no end, which add_aspect does not check;   *)
(* one that grows after it was added to another makes that one too small.   *)
add_aspect(c, t) ==
    /\ ~rep.types[c].frozen /\ rep.memory = {}
    /\ Len(rep.types[c].aspects) < MaxAspects
    /\ rep' = [rep EXCEPT !.types[c].aspects = Append(@, t),
                          !.types[c].size = @ + size(rep.types, t)]
    /\ fault' = IF t \in Composite /\ c \in Parts(rep.types, t) THEN "composite in itself" ELSE fault
    /\ UNCHANGED ref

expose_attribute(c, i, name) ==
    /\ ~rep.types[c].frozen /\ rep.memory = {}
    /\ i \in DOMAIN rep.types[c].aspects
    /\ attributes(c) = <<>>
    /\ find_attribute_by_name(rep.types[c].aspects[i], name).name = name
    /\ rep' = [rep EXCEPT !.types[c].exposed = Append(@, [name |-> name, aspect |-> i])]
    /\ UNCHANGED <<ref, fault>>

freeze(c) ==
    /\ ~rep.types[c].frozen /\ rep.memory = {}
    /\ rep' = [rep EXCEPT !.types[c].frozen = TRUE]
    /\ UNCHANGED <<ref, fault>>

(* The type of an object in a document of an editor: an aspect of a class   *)
(* that is not known is left out, and what an aspect exposes is looked up   *)
(* one place behind it.                                                     *)
get_or_create_object_type(c) ==
    \E known \in Plain, unknown, exposes \in BOOLEAN :
      /\ rep.types[c] = NoType /\ rep.memory = {}
      /\ rep' = [rep EXCEPT !.types[c] = [NoType EXCEPT !.aspects = <<known>>, !.size = 2, !.frozen = TRUE]]
      /\ fault' = CASE exposes -> "trap" [] unknown -> "aspects out of step" [] OTHER -> fault
      /\ UNCHANGED ref

Construct(c) ==
    /\ rep.memory = {}
    /\ rep' = [rep EXCEPT !.memory = construct(rep.types, c, 0, 0)]
    /\ ref' = Classes(rep.types, c)
    /\ fault' = IF SizeIsTrue(rep.types, c) THEN fault ELSE "trap"

(* A document with more aspects than the type has, or with fewer, and any   *)
(* document for an object of a type that is not frozen.                     *)
deserialize_raw ==
    \E n \in 0 .. MaxAspects + 1, c \in rep.memory :
      LET type == rep.types[c.type]
      IN  /\ c.type \in Composite
          /\ n # Len(type.aspects) \/ ~type.frozen
          /\ fault' = IF type.frozen /\ n > Len(type.aspects) THEN "read past the end" ELSE "trap"
      /\ UNCHANGED <<rep, ref>>

CastToInterface ==
    \E c \in rep.memory :
      /\ IsAspect(c) /\ ~InterfaceInReach(c)
      /\ fault' = "never returns" /\ UNCHANGED <<rep, ref>>

destruct ==
    /\ rep.memory # {}
    /\ rep' = [rep EXCEPT !.memory = {}]
    /\ ref' = <<>> /\ UNCHANGED fault

Next ==
    /\ fault = "none"
    /\ \/ \E c \in Composite :
            \/ \E t \in Plain \cup Composite : add_aspect(c, t)
            \/ \E i \in 1 .. MaxAspects, name \in Plain : expose_attribute(c, i, name)
            \/ freeze(c) \/ get_or_create_object_type(c) \/ Construct(c)
       \/ deserialize_raw \/ CastToInterface \/ destruct

Spec == Init /\ [][Next]_vars

-----------------------------------------------------------------------------
(* The objects that make up a composite lie one behind the other, in the    *)
(* order of the aspects, and each finds the composite it is in.             *)
ObjectsSound ==
    fault = "none" =>
      /\ {c.at : c \in rep.memory} = 0 .. Len(ref) - 1
      /\ \A c \in rep.memory : Class(c.type) = ref[c.at + 1]
      /\ \A c \in rep.memory : c.at # 0 => c.offset > 0

(* What a search passes over: the class at the start of a composite that is *)
(* an aspect, and what is in an aspect of the type that it came from.       *)
Within(c, p) == p.at <= c.at /\ c.at < p.at + size(rep.types, p.type)
PassedOver(from, c) ==
    \/ IsAspect(c) /\ c.type \in Composite
    \/ \E p \in rep.memory : p # c /\ Within(c, p) /\ ~Within(from, p)
                             /\ \E q \in rep.memory : Within(from, q) /\ q.type = p.type

(* A cast gives an object of the class that was asked for, of the same      *)
(* composite, and null only if there is none but those it passes over. An   *)
(* exposed attribute ends at an object of its class.                        *)
Represents ==
    fault = "none" =>
      /\ \A from \in rep.memory, type \in Plain :
           LET c == aspect_cast(from, type)
           IN  IF c # Nowhere THEN c \in rep.memory /\ Class(c.type) = type
               ELSE \A x \in rep.memory : Class(x.type) = type => PassedOver(from, x)
      /\ \A c \in {x \in rep.memory : x.type \in Composite} :
           \A k \in DOMAIN attributes(c.type) :
             Class(resolve_exposed_attribute(attributes(c.type)[k], c).type) = attributes(c.type)[k].name
=============================================================================
