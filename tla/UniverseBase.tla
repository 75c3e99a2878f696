---------------------------- MODULE UniverseBase ----------------------------
(***************************************************************************)
(* The state of a universe and its operations, each a function of that     *)
(* state: what BasicUniverse (object/universe_base.cpp) and EditorUniverse *)
(* (object/editor_universe.cpp) share, and what each has of its own. An    *)
(* object is a pair of a place in memory and a number: 0 for the object, 1 *)
(* for the aspect within a composite. u.map and u.name are object_map_ and *)
(* reverse_object_map_.                                                    *)
(*                                                                         *)
(* There are three types of objects: a node has a reference to an object,  *)
(* an actor inherits that from node and wants updates, and a group is a    *)
(* composite of a node and an aspect, a part, with a reference of its own. *)
(* A name is a base and a number, 0 for none; "a02" is <<"a", 2>>.         *)
(***************************************************************************)
EXTENDS SequencesExt, Integers

CONSTANTS Places,      \* addresses for objects
          Wanted,      \* the names the program asks for
          Defined,     \* of these, the ones in documents
          TooShort,    \* a name of less than two characters
          Roots,       \* references outside of objects
          Room         \* capacity of the update set

ASSUME PlacesAssumption == Places \subseteq Nat \ {0}

ASSUME NamesAssumption == Defined \subseteq Wanted /\ Wanted \subseteq STRING \X Nat /\ TooShort \in STRING \X {0}

Null == <<0, 0>>
NotARoot == <<0, 1>>
Types == {"node", "actor", "group"}
Ids == Places \X {0, 1}

NoNames == [x \in {} |-> Null]
EmptyUniverse(kind) ==
    [kind |-> kind, type |-> [p \in Places |-> "none"], ref |-> [o \in Ids |-> Null],
     map |-> NoNames, name |-> NoNames, root |-> Null, updates |-> <<>>,
     deferred |-> <<>>, external |-> [r \in Roots |-> NotARoot]]

Alive(u) == {o \in Ids : u.type[o[1]] # "none" /\ (o[2] = 1 => u.type[o[1]] = "group")}

FreePlaces(u) == {p \in Places : u.type[p] = "none"}

wants_game_update(type) == type = "actor"
get_object(u, name) == IF name \in DOMAIN u.map THEN u.map[name] ELSE Null
get_id(u, o) == IF o \in DOMAIN u.name THEN u.name[o] ELSE TooShort

WithoutNames(map, names) == [n \in DOMAIN map \ names |-> map[n]]
Rebind(map, key, value) == [n \in DOMAIN map \cup {key} |-> IF n = key THEN value ELSE map[n]]

(* The first name with this base that is not taken, counting from n.       *)
FirstFree(map, base, n) ==
    LET taken == {k \in n .. n + Cardinality(DOMAIN map) : <<base, k>> \in DOMAIN map}
    IN  <<base, Min((n .. n + Cardinality(DOMAIN map)) \ taken)>>

NameOfType(u, o) == IF o[2] = 1 THEN "part"
                    ELSE IF u.type[o[1]] = "group" THEN "Composite" ELSE u.type[o[1]]

(* The set of objects to update is an array sorted by address.             *)
lower_bound(s, o) == Cardinality({i \in DOMAIN s : s[i][1] * 2 + s[i][2] < o[1] * 2 + o[2]})

register_object_for_update(u, o) ==
    [u EXCEPT !.updates = InsertAt(@, lower_bound(@, o) + 1, o)]

unregister_object_for_update(u, o) ==
    [u EXCEPT !.updates = RemoveFirst(@, o)]

defer_attribute_deserialization(u, o, target) ==
    [u EXCEPT !.deferred = Append(@, [object |-> o, target |-> target])]

(* They are performed in the order in which they were deferred, so that the *)
(* last one for an object counts. An attribute that the document does not   *)
(* have stays as it is; a name that no object has makes it null.            *)
Pending(u, o) == {i \in DOMAIN u.deferred : u.deferred[i].object = o /\ u.deferred[i].target # TooShort}

perform(u, o) ==
    IF Pending(u, o) = {} THEN u.ref[o] ELSE get_object(u, u.deferred[Max(Pending(u, o))].target)

PerformDeferred(u) == [u EXCEPT !.ref = [o \in Ids |-> perform(u, o)], !.deferred = <<>>]

-----------------------------------------------------------------------------
(* BasicUniverse. A rename forgets the name the object had before it looks  *)
(* for a new one.                                                           *)
BasicFree(u, o) == WithoutNames(u.map, {get_id(u, o)})

BasicIsExact(u, o, wanted) == wanted # TooShort /\ wanted \notin DOMAIN BasicFree(u, o)

BasicNewName(u, o, wanted) ==
    LET map == BasicFree(u, o)
    IN  IF BasicIsExact(u, o, wanted) THEN wanted
        ELSE IF wanted = TooShort THEN FirstFree(map, NameOfType(u, o), 1)
        ELSE FirstFree(map, wanted[1], 2)

\* Mutant: the old name is not forgotten.
basic_rename_object_KeepOld(u, o, wanted) ==
    LET name == BasicNewName(u, o, wanted)
    IN  [u EXCEPT !.map = Rebind(@, name, o), !.name = Rebind(@, o, name)]

basic_rename_object(u, o, wanted) ==
    LET name == BasicNewName(u, o, wanted)
    IN  [u EXCEPT !.map = Rebind(BasicFree(u, o), name, o), !.name = Rebind(@, o, name)]

(* UniverseBase::clear and the maps. The root is not reset, nor what is    *)
(* deferred.                                                               *)
basic_clear(u) ==
    [EmptyUniverse(u.kind) EXCEPT !.root = u.root, !.deferred = u.deferred]

-----------------------------------------------------------------------------
(* EditorUniverse. A rename looks for a new name while the object still has *)
(* its old one.                                                             *)
\* Mutant: the name the object already has counts as taken.
EditorIsExact_Own(u, o, wanted) == wanted # TooShort /\ wanted \notin DOMAIN u.map

EditorIsExact(u, o, wanted) ==
    wanted # TooShort /\ (wanted \in DOMAIN u.map => u.map[wanted] = o)

EditorNewName(u, o, wanted) ==
    IF EditorIsExact(u, o, wanted) THEN wanted
    ELSE IF wanted = TooShort THEN FirstFree(u.map, NameOfType(u, o), 1)
    ELSE FirstFree(u.map, wanted[1], IF wanted[2] = 0 THEN 1 ELSE wanted[2])

unregister_object(u, o) ==
    [u EXCEPT !.map = WithoutNames(@, {get_id(u, o)}), !.name = WithoutNames(@, {o})]

editor_rename_object(u, o, wanted) ==
    LET name == EditorNewName(u, o, wanted)
        gone == unregister_object(u, o)
    IN  [gone EXCEPT !.map = Rebind(@, name, o), !.name = Rebind(@, o, name)]

(* The objects and their names go; what is to be updated stays, and so do  *)
(* the references from outside.                                            *)
editor_clear(u) ==
    [EmptyUniverse(u.kind) EXCEPT !.updates = u.updates, !.deferred = u.deferred,
                                  !.external = u.external]

(* The objects whose references are looked through: those with a name, and *)
(* of these the attributes of their own type. An actor inherits its own    *)
(* from node, and a group does not expose that of the node in it.          *)
Walked(u) == {o \in DOMAIN u.name \cap Alive(u) : o[2] = 1 \/ u.type[o[1]] = "node"}

\* Mutant: only the references from outside.
for_each_object_reference_Roots(u, old, new) ==
    [u EXCEPT !.external = [r \in Roots |-> IF @[r] = old THEN new ELSE @[r]]]

for_each_object_reference(u, old, new) ==
    LET rewired(x) == IF x = old THEN new ELSE x
    IN  [u EXCEPT !.external = [r \in Roots |-> rewired(@[r])],
                  !.ref      = [o \in Ids |-> IF o \in Walked(u) THEN rewired(@[o]) ELSE @[o]]]

(* The names in the object map that the object took along.                 *)
destruct(u, o) ==
    [u EXCEPT !.type[o[1]] = "none",
              !.ref = [x \in Ids |-> IF x[1] = o[1] THEN Null ELSE @[x]]]
=============================================================================
