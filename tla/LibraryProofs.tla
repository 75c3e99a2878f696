--------------------------- MODULE LibraryProofs ---------------------------
(***************************************************************************)
(* Proofs about the parts of Library, for any values of their constants:   *)
(* part by part, and in the end for the bench. The theorems say that a     *)
(* part is sound unless a call met one of its faults: a behaviour ends     *)
(* there.                                                                  *)
(***************************************************************************)
EXTENDS Library, SequenceLemmas, FiniteSetTheorems

-----------------------------------------------------------------------------
(* Maybe. Between calls no object is one that was moved from: whoever       *)
(* moves out of a Maybe clears it in the same call.                         *)
MaybeCells == [memory : Int, is_set : BOOLEAN]

MaybeOf(m, value) ==
    /\ m \in MaybeCells
    /\ m.memory = value
    /\ IF m.is_set THEN value \in Data ELSE value = Maybe!Raw

MaybeInv ==
    fault = "none" =>
      /\ rep \in [a : MaybeCells, b : MaybeCells, type : Maybe!Types]
      /\ ref \in [a : Int, b : Int]
      /\ MaybeOf(rep.a, ref.a) /\ MaybeOf(rep.b, ref.b)

(* Whichever way the type has, assigning an object makes it the value. *)
LEMMA MaybeAssign ==
  ASSUME Data \subseteq Nat, rep.type \in Maybe!Types, NEW m, NEW old, MaybeOf(m, old), NEW value \in Data
  PROVE  MaybeOf(Maybe!assign(m, value), value)
<1> DEFINE default == IF m.is_set THEN m.memory ELSE Maybe!Construct(m.memory, 0)
           built == Maybe!Construct(Maybe!clear(m).memory, value)
           assigned == Maybe!Assign(default, value)
           either == IF m.is_set THEN Maybe!Assign(m.memory, value) ELSE Maybe!Construct(m.memory, value)
<1>1. built = value /\ assigned = value /\ either = value
  BY DEF Maybe!clear, Maybe!Construct, Maybe!Destroy, Maybe!Assign, Maybe!IsObject,
         Maybe!Raw, Maybe!Moved, MaybeOf, MaybeCells
<1> HIDE DEF built, assigned, either
<1>2. Maybe!assign(m, value) \in {[memory |-> built, is_set |-> TRUE], [memory |-> assigned, is_set |-> TRUE],
                                  [memory |-> either, is_set |-> TRUE]}
  BY Zenon DEF Maybe!assign, built, assigned, either
<1>3. Maybe!assign(m, value) = [memory |-> value, is_set |-> TRUE]
  BY <1>1, <1>2
<1> QED BY <1>3 DEF MaybeOf, MaybeCells

(* clear leaves raw memory, also when the object was moved from. *)
LEMMA MaybeClear ==
  ASSUME Data \subseteq Nat, NEW m, NEW old, MaybeOf(m, old)
  PROVE  /\ MaybeOf(Maybe!clear(m), Maybe!Raw)
         /\ MaybeOf(Maybe!clear(Maybe!moved_from(m)), Maybe!Raw)
BY DEF Maybe!clear, Maybe!moved_from, Maybe!Leave, Maybe!Destroy, Maybe!IsObject, Maybe!Raw, Maybe!Moved, MaybeOf, MaybeCells

(* An assignment or a clear changes one of the two and its value. *)
LEMMA MaybePut ==
  ASSUME MaybeInv, fault = "none", NEW x \in Maybe!Names, NEW m, NEW value, MaybeOf(m, value),
         rep' = [rep EXCEPT ![x] = m], ref' = [ref EXCEPT ![x] = value]
  PROVE  MaybeInv'
BY DEF MaybeInv, MaybeOf, MaybeCells, Maybe!Names

(* A move changes both: what was in y is in x, and nothing in y. *)
LEMMA MaybePutBoth ==
  ASSUME MaybeInv, fault = "none", NEW x \in Maybe!Names, NEW m, NEW value, MaybeOf(m, value),
         NEW n, NEW rest, MaybeOf(n, rest),
         rep' = [rep EXCEPT ![x] = m, ![Maybe!Other(x)] = n],
         ref' = [ref EXCEPT ![x] = value, ![Maybe!Other(x)] = rest]
  PROVE  MaybeInv'
BY DEF MaybeInv, MaybeOf, MaybeCells, Maybe!Names, Maybe!Other

(* Every call keeps the invariant: the value is the one given last. *)
LEMMA MaybeStep ==
  ASSUME Data \subseteq Nat, MaybeInv, Maybe!Next
  PROVE  MaybeInv'
<1>1. fault = "none"
  BY DEF Maybe!Next
<1>2. PICK x \in Maybe!Names :
        \/ Maybe!AssignValue(x) \/ Maybe!AssignCopy(x) \/ Maybe!AssignMove(x)
        \/ Maybe!AssignSelf(x) \/ Maybe!Clear(x) \/ Maybe!Reconstruct(x)
  BY DEF Maybe!Next
<1>3. /\ rep.type \in Maybe!Types
      /\ \A z \in Maybe!Names : MaybeOf(rep[z], ref[z])
  BY <1>1 DEF MaybeInv, Maybe!Names
<1>4. Maybe!Other(x) \in Maybe!Names
  BY DEF Maybe!Other, Maybe!Names
<1>5. \A z \in Maybe!Names : rep[z].is_set => rep[z].memory = ref[z] /\ ref[z] \in Data
  BY <1>3 DEF MaybeOf
<1>6. \A z \in Maybe!Names : ~rep[z].is_set => ref[z] = Maybe!Raw
  BY <1>3 DEF MaybeOf
<1>7. CASE Maybe!AssignValue(x)
  <2>1. PICK v \in Data : /\ rep' = [rep EXCEPT ![x] = Maybe!assign(rep[x], v)]
                          /\ ref' = [ref EXCEPT ![x] = v]
    BY <1>7 DEF Maybe!AssignValue
  <2>2. MaybeOf(Maybe!assign(rep[x], v), v)
    BY <1>3, MaybeAssign
  <2> QED BY <1>1, <2>1, <2>2, MaybePut
<1>8. CASE Maybe!AssignCopy(x)
  <2>1. PICK y \in Maybe!Names :
          /\ rep' = [rep EXCEPT ![x] = IF rep[y].is_set THEN Maybe!assign(rep[x], rep[y].memory)
                                                        ELSE Maybe!clear(rep[x])]
          /\ ref' = [ref EXCEPT ![x] = ref[y]]
    BY <1>8 DEF Maybe!AssignCopy
  <2>2. CASE rep[y].is_set
    <3>1. MaybeOf(Maybe!assign(rep[x], ref[y]), ref[y])
      BY <1>3, <1>5, <2>2, MaybeAssign
    <3>2. rep' = [rep EXCEPT ![x] = Maybe!assign(rep[x], ref[y])]
      BY <1>5, <2>1, <2>2
    <3> QED BY <1>1, <2>1, <3>1, <3>2, MaybePut
  <2>3. CASE ~rep[y].is_set
    <3>1. MaybeOf(Maybe!clear(rep[x]), ref[y])
      BY <1>3, <1>6, <2>3, MaybeClear
    <3> QED BY <1>1, <2>1, <2>3, <3>1, MaybePut
  <2> QED BY <2>2, <2>3
<1>9. CASE Maybe!AssignMove(x)
  <2> DEFINE y == Maybe!Other(x)
  <2>1. ref' = [ref EXCEPT ![x] = ref[y], ![y] = Maybe!Raw]
    BY <1>9 DEF Maybe!AssignMove
  <2>2. CASE rep[y].is_set
    <3> DEFINE left == Maybe!clear(Maybe!moved_from(rep[y]))
    <3>1. MaybeOf(Maybe!assign(rep[x], ref[y]), ref[y])
      BY <1>3, <1>4, <1>5, <2>2, MaybeAssign
    <3>2. MaybeOf(left, Maybe!Raw)
      BY <1>3, <1>4, MaybeClear
    <3>3. rep' = [rep EXCEPT ![x] = Maybe!assign(rep[x], rep[y].memory), ![y] = left]
      BY <1>1, <1>9, <2>2 DEF Maybe!AssignMove, Maybe!Other, Maybe!Names, MaybeInv
    <3>4. rep' = [rep EXCEPT ![x] = Maybe!assign(rep[x], ref[y]), ![y] = left]
      BY <1>4, <1>5, <2>2, <3>3
    <3> HIDE DEF left
    <3> QED BY <1>1, <2>1, <3>1, <3>2, <3>4, MaybePutBoth
  <2>3. CASE ~rep[y].is_set
    <3>1. rep' = [rep EXCEPT ![x] = Maybe!clear(rep[x]), ![y] = rep[y]]
      BY <1>1, <1>9, <2>3 DEF Maybe!AssignMove, Maybe!Other, Maybe!Names, MaybeInv
    <3>2. MaybeOf(Maybe!clear(rep[x]), ref[y]) /\ MaybeOf(rep[y], Maybe!Raw)
      BY <1>3, <1>4, <1>6, <2>3, MaybeClear
    <3> QED BY <1>1, <2>1, <3>1, <3>2, MaybePutBoth
  <2> QED BY <2>2, <2>3
<1>10. CASE Maybe!AssignSelf(x)
  BY <1>10 DEF Maybe!AssignSelf, MaybeInv
<1>11. CASE Maybe!Clear(x)
  <2>1. MaybeOf(Maybe!clear(rep[x]), Maybe!Raw)
    BY <1>3, MaybeClear
  <2>2. rep' = [rep EXCEPT ![x] = Maybe!clear(rep[x])] /\ ref' = [ref EXCEPT ![x] = Maybe!Raw]
    BY <1>11 DEF Maybe!Clear
  <2> QED BY <1>1, <2>1, <2>2, MaybePut
<1>12. CASE Maybe!Reconstruct(x)
  <2> DEFINE y == Maybe!Other(x)
             fresh == [memory |-> Maybe!clear(rep[x]).memory, is_set |-> FALSE]
             made == IF rep[y].is_set THEN Maybe!assign(fresh, rep[y].memory) ELSE fresh
             left == Maybe!clear(Maybe!moved_from(rep[y]))
  <2>1. PICK moving \in BOOLEAN :
          /\ rep' = [rep EXCEPT ![x] = made, ![y] = IF moving THEN left ELSE rep[y]]
          /\ ref' = [ref EXCEPT ![x] = ref[y], ![y] = IF moving THEN Maybe!Raw ELSE ref[y]]
    BY <1>1, <1>12 DEF Maybe!Reconstruct, Maybe!Other, Maybe!Names, MaybeInv
  <2>2. MaybeOf(fresh, Maybe!Raw)
    <3>1. MaybeOf(Maybe!clear(rep[x]), Maybe!Raw)
      BY <1>3, MaybeClear
    <3> QED BY <3>1 DEF MaybeOf, MaybeCells
  <2>3. MaybeOf(made, ref[y])
    <3> HIDE DEF fresh
    <3>1. CASE rep[y].is_set
      <4>1. MaybeOf(Maybe!assign(fresh, ref[y]), ref[y])
        BY <1>3, <1>4, <1>5, <2>2, <3>1, MaybeAssign
      <4> QED BY <1>4, <1>5, <3>1, <4>1
    <3>2. CASE ~rep[y].is_set
      BY <1>4, <1>6, <2>2, <3>2
    <3> QED BY <3>1, <3>2
  <2>4. MaybeOf(left, Maybe!Raw) /\ MaybeOf(rep[y], ref[y])
    BY <1>3, <1>4, MaybeClear
  <2> HIDE DEF left, made
  <2>5. MaybeOf(IF moving THEN left ELSE rep[y], IF moving THEN Maybe!Raw ELSE ref[y])
    BY <2>4
  <2> QED BY <1>1, <2>1, <2>3, <2>5, MaybePutBoth
<1> QED BY <1>2, <1>7, <1>8, <1>9, <1>10, <1>11, <1>12

(* After any calls that meet no fault, a Maybe says that it has an object   *)
(* exactly if it has one, nothing was built over an object or assigned to   *)
(* raw memory, and the value is the one that was given last. This is what   *)
(* ObjectsSound and Represents of MCLibrary say of its instance.            *)
THEOREM MaybeHolds ==
  Data \subseteq Nat => (Maybe!Spec => [](Maybe!ObjectsSound /\ Maybe!Represents))
<1> SUFFICES ASSUME Data \subseteq Nat
             PROVE  Maybe!Spec => [](Maybe!ObjectsSound /\ Maybe!Represents)
  OBVIOUS
<1>1. Maybe!Init => MaybeInv
  BY DEF Maybe!Init, Maybe!Nothing, Maybe!Raw, MaybeInv, MaybeOf, MaybeCells
<1>2. MaybeInv /\ [Maybe!Next]_Maybe!vars => MaybeInv'
  <2>1. CASE Maybe!Next
    BY <2>1, MaybeStep
  <2>2. CASE UNCHANGED Maybe!vars
    BY <2>2 DEF Maybe!vars, MaybeInv, MaybeOf
  <2> QED BY <2>1, <2>2
<1>3. MaybeInv => Maybe!ObjectsSound /\ Maybe!Represents
  BY DEF MaybeInv, MaybeOf, MaybeCells, Maybe!ObjectsSound, Maybe!Represents, Maybe!Names,
         Maybe!get_or, Maybe!IsObject, Maybe!Raw, Maybe!Moved, Maybe!Bad
<1> QED
  BY <1>1, <1>2, <1>3, PTL DEF Maybe!Spec
-----------------------------------------------------------------------------
(* Either. An object that was moved from stays in its place, with its type. *)
EitherCells == [memory : Data \cup {Either!Moved}, type_index : Alternatives]

EitherInv ==
    fault = "none" =>
      /\ rep \in [Either!Names -> EitherCells]
      /\ ref = [x \in Either!Names |-> <<rep[x].type_index, rep[x].memory>>]

(* The type is no mark for nothing, and values are objects. *)
EitherTypes == Alternatives \subseteq Nat \ {Either!NoType} /\ Data \subseteq Nat

(* What the cells hold, in numbers. *)
LEMMA EitherCell ==
  ASSUME EitherTypes, NEW e \in EitherCells
  PROVE  /\ e.memory \in Int /\ (e.memory >= 0 \/ e.memory = -2)
         /\ e.type_index \in Int /\ e.type_index # 255
         /\ e = [memory |-> e.memory, type_index |-> e.type_index]
<1>1. e.memory \in Data \cup {-2} /\ e.type_index \in Alternatives
  BY DEF EitherCells, Either!Moved
<1>2. e = [memory |-> e.memory, type_index |-> e.type_index]
  BY DEF EitherCells
<1> QED BY <1>1, <1>2 DEF EitherTypes, Either!NoType

(* The destructor leaves raw memory without a type, where a constructor     *)
(* makes what it is given.                                                  *)
LEMMA EitherDestruct ==
  ASSUME EitherTypes, NEW e \in EitherCells
  PROVE  Either!destruct(e) = Either!Unconstructed
BY EitherCell DEF Either!destruct, Either!Destroy, Either!IsObject, Either!Unconstructed, Either!NoType,
                  Either!Moved

(* Building an object where none is gives that object and its index; *)
LEMMA EitherConstruct ==
  ASSUME EitherTypes, NEW t \in Alternatives, NEW v \in Data
  PROVE  Either!construct(Either!Unconstructed, t, v) = [memory |-> v, type_index |-> t]
BY DEF Either!construct, Either!Construct, Either!IsObject, Either!Unconstructed, EitherTypes, Either!Raw

(* built from another Either, the object of that one. *)
LEMMA EitherConstructOpaque ==
  ASSUME EitherTypes, NEW o \in EitherCells
  PROVE  Either!construct_opaque(Either!Unconstructed, o) = o
BY EitherCell DEF Either!construct_opaque, Either!Construct, Either!IsObject, Either!Unconstructed, Either!Raw,
                  Either!Moved

(* To assign an object of the same type or of another leaves that object. *)
LEMMA EitherAssign ==
  ASSUME EitherTypes, NEW e \in EitherCells, NEW t \in Alternatives, NEW v \in Data
  PROVE  Either!assign(e, t, v) = [memory |-> v, type_index |-> t]
<1>1. CASE e.type_index = t
  BY <1>1, EitherCell DEF Either!assign, Either!Assign, Either!IsObject, EitherTypes, Either!Moved
<1>2. CASE e.type_index # t
  BY <1>2, EitherDestruct, EitherConstruct DEF Either!assign
<1> QED BY <1>1, <1>2

(* To assign another Either leaves what that one held. *)
LEMMA EitherAssignOpaque ==
  ASSUME EitherTypes, NEW e \in EitherCells, NEW o \in EitherCells
  PROVE  Either!assign_opaque(e, o) = o
<1>1. CASE e.type_index = o.type_index
  BY <1>1, EitherCell DEF Either!assign_opaque, Either!Assign, Either!IsObject, Either!Moved
<1>2. CASE e.type_index # o.type_index
  BY <1>2, EitherDestruct, EitherConstructOpaque DEF Either!assign_opaque
<1> QED BY <1>1, <1>2

(* One that was moved from keeps its index and an object to destroy. *)
LEMMA EitherLeft ==
  ASSUME EitherTypes, NEW e \in EitherCells, NEW moving \in BOOLEAN
  PROVE  /\ Either!left(e, moving) \in EitherCells
         /\ Either!left(e, moving).type_index = e.type_index
         /\ Either!left(e, moving).memory = Either!Leave(e.memory, moving)
BY DEF Either!left, Either!Leave, EitherCells

(* A call gives one of the two another object, and may leave the other      *)
(* moved from.                                                              *)
LEMMA EitherPut ==
  ASSUME EitherInv, fault = "none", NEW x \in Either!Names, NEW e \in EitherCells, NEW n \in EitherCells,
         rep' = [rep EXCEPT ![x] = e, ![Either!Other(x)] = n],
         ref' = [ref EXCEPT ![x] = <<e.type_index, e.memory>>,
                            ![Either!Other(x)] = <<n.type_index, n.memory>>]
  PROVE  EitherInv'
BY DEF EitherInv, Either!Names, Either!Other

(* Every operation that meets no fault leaves index and object as given. *)
LEMMA EitherStep ==
  ASSUME EitherTypes, EitherInv, Either!Next
  PROVE  EitherInv'
<1>1. fault = "none"
  BY DEF Either!Next
<1>2. PICK x \in Either!Names :
        \/ Either!AssignValue(x) \/ Either!AssignOther(x) \/ Either!AssignSelf(x)
        \/ Either!Reconstruct(x) \/ Either!ConstructorThrows(x)
  BY DEF Either!Next
<1> DEFINE y == Either!Other(x)
<1>3. /\ y \in Either!Names /\ y # x
      /\ rep \in [Either!Names -> EitherCells]
      /\ ref = [z \in Either!Names |-> <<rep[z].type_index, rep[z].memory>>]
  BY <1>1 DEF EitherInv, Either!Other, Either!Names
<1>4. /\ rep[x] \in EitherCells /\ rep[y] \in EitherCells
      /\ ref[x] = <<rep[x].type_index, rep[x].memory>>
      /\ ref[y] = <<rep[y].type_index, rep[y].memory>>
  BY <1>3
<1>5. \A moving \in BOOLEAN :
        /\ Either!left(rep[y], moving) \in EitherCells
        /\ <<ref[y][1], Either!Leave(ref[y][2], moving)>>
             = <<Either!left(rep[y], moving).type_index, Either!left(rep[y], moving).memory>>
  BY <1>4, EitherLeft
<1> HIDE DEF y
<1>6. ASSUME NEW t \in Alternatives, NEW v \in Data,
             rep' = [rep EXCEPT ![x] = [memory |-> v, type_index |-> t]],
             ref' = [ref EXCEPT ![x] = <<t, v>>]
      PROVE  EitherInv'
  <2> DEFINE e == [memory |-> v, type_index |-> t]
  <2>1. e \in EitherCells /\ e.type_index = t /\ e.memory = v
    BY DEF EitherCells
  <2>2. rep' = [rep EXCEPT ![x] = e, ![y] = rep[y]] /\ ref' = [ref EXCEPT ![x] = <<t, v>>, ![y] = ref[y]]
    BY <1>3, <1>6
  <2> HIDE DEF e
  <2>3. ref' = [ref EXCEPT ![x] = <<e.type_index, e.memory>>, ![y] = <<rep[y].type_index, rep[y].memory>>]
    BY <1>4, <2>1, <2>2
  <2> QED BY <1>1, <1>4, <2>1, <2>2, <2>3, EitherPut DEF y
<1>7. ASSUME NEW moving \in BOOLEAN,
             rep' = [rep EXCEPT ![x] = rep[y], ![y] = Either!left(rep[y], moving)],
             ref' = [ref EXCEPT ![x] = ref[y], ![y] = <<ref[y][1], Either!Leave(ref[y][2], moving)>>]
      PROVE  EitherInv'
  <2> DEFINE n == Either!left(rep[y], moving)
  <2>1. n \in EitherCells /\ <<ref[y][1], Either!Leave(ref[y][2], moving)>> = <<n.type_index, n.memory>>
    BY <1>5
  <2>2. rep' = [rep EXCEPT ![x] = rep[y], ![y] = n]
    BY <1>7
  <2> HIDE DEF n
  <2>3. ref' = [ref EXCEPT ![x] = <<rep[y].type_index, rep[y].memory>>, ![y] = <<n.type_index, n.memory>>]
    BY <1>4, <1>7, <2>1
  <2> QED BY <1>1, <1>4, <2>1, <2>2, <2>3, EitherPut DEF y
<1>8. CASE Either!AssignValue(x)
  <2>1. PICK t \in Alternatives, v \in Data : /\ rep' = [rep EXCEPT ![x] = Either!assign(rep[x], t, v)]
                                       /\ ref' = [ref EXCEPT ![x] = <<t, v>>]
    BY <1>8 DEF Either!AssignValue
  <2>2. Either!assign(rep[x], t, v) = [memory |-> v, type_index |-> t]
    BY <1>4, EitherAssign
  <2> QED BY <1>6, <2>1, <2>2
<1>9. CASE Either!AssignOther(x)
  <2>1. PICK moving \in BOOLEAN :
          /\ rep' = [rep EXCEPT ![x] = Either!assign_opaque(rep[x], rep[y]), ![y] = Either!left(rep[y], moving)]
          /\ ref' = [ref EXCEPT ![x] = ref[y], ![y] = <<ref[y][1], Either!Leave(ref[y][2], moving)>>]
    BY <1>3, <1>9 DEF Either!AssignOther, y
  <2>2. Either!assign_opaque(rep[x], rep[y]) = rep[y]
    BY <1>4, EitherAssignOpaque
  <2> QED BY <1>7, <2>1, <2>2
<1>10. CASE Either!AssignSelf(x)
  <2>1. Either!assign_opaque(rep[x], rep[x]) = rep[x]
    BY <1>4, EitherAssignOpaque
  <2>2. rep' = [rep EXCEPT ![x] = Either!assign_opaque(rep[x], rep[x])] /\ ref' = ref
    BY <1>10 DEF Either!AssignSelf
  <2>3. rep' = rep
    BY <1>3, <2>1, <2>2
  <2> QED BY <1>3, <2>2, <2>3 DEF EitherInv
<1>11. CASE Either!Reconstruct(x)
  <2>1. [memory |-> Either!destruct(rep[x]).memory, type_index |-> Either!NoType] = Either!Unconstructed
    BY <1>4, EitherDestruct DEF Either!Unconstructed
  <2>2. \/ \E t \in Alternatives, v \in Data :
             /\ rep' = [rep EXCEPT ![x] = Either!construct(Either!Unconstructed, t, v)]
             /\ ref' = [ref EXCEPT ![x] = <<t, v>>]
        \/ \E moving \in BOOLEAN :
             /\ rep' = [rep EXCEPT ![x] = Either!construct_opaque(Either!Unconstructed, rep[y]),
                                   ![y] = Either!left(rep[y], moving)]
             /\ ref' = [ref EXCEPT ![x] = ref[y], ![y] = <<ref[y][1], Either!Leave(ref[y][2], moving)>>]
    BY <1>3, <1>11, <2>1 DEF Either!Reconstruct, y
  <2>3. /\ \A t \in Alternatives, v \in Data :
             Either!construct(Either!Unconstructed, t, v) = [memory |-> v, type_index |-> t]
        /\ Either!construct_opaque(Either!Unconstructed, rep[y]) = rep[y]
    BY <1>4, EitherConstruct, EitherConstructOpaque
  <2> QED BY <1>6, <1>7, <2>2, <2>3
<1>12. CASE Either!ConstructorThrows(x)
  BY <1>12 DEF Either!ConstructorThrows, EitherInv
<1> QED BY <1>2, <1>8, <1>9, <1>10, <1>11, <1>12

(* After any calls that meet no fault, an Either holds exactly one object,  *)
(* of the type of its index, with the value given last, and exactly one     *)
(* branch of a visit sees it.                                               *)
THEOREM EitherHolds ==
  EitherTypes => (Either!Spec => [](Either!ObjectsSound /\ Either!Represents))
<1> SUFFICES ASSUME EitherTypes
             PROVE  Either!Spec => [](Either!ObjectsSound /\ Either!Represents)
  OBVIOUS
<1>1. Either!Init => EitherInv
  BY EitherConstruct DEF Either!Init, EitherInv, EitherCells
<1>2. EitherInv /\ [Either!Next]_Either!vars => EitherInv'
  <2>1. CASE Either!Next
    BY <2>1, EitherStep
  <2>2. CASE UNCHANGED Either!vars
    BY <2>2 DEF Either!vars, EitherInv
  <2> QED BY <2>1, <2>2
<1>3. ASSUME EitherInv, fault = "none"
      PROVE  \A x \in Either!Names : /\ Either!IsObject(rep[x].memory) /\ rep[x].type_index # Either!NoType
                                     /\ <<rep[x].type_index, rep[x].memory>> = ref[x]
                                     /\ Either!visit(rep[x]) = {ref[x][1]}
  <2> TAKE x \in Either!Names
  <2>1. rep[x] \in EitherCells /\ <<rep[x].type_index, rep[x].memory>> = ref[x]
    BY <1>3 DEF EitherInv
  <2>2. rep[x].type_index \in Alternatives
    BY <2>1 DEF EitherCells
  <2>3. Either!visit(rep[x]) = {ref[x][1]}
    BY <2>1, <2>2 DEF Either!visit
  <2> QED BY <2>1, <2>3, EitherCell DEF Either!IsObject, Either!NoType, Either!Moved
<1>4. EitherInv => Either!ObjectsSound /\ Either!Represents
  BY <1>3 DEF Either!ObjectsSound, Either!Represents
<1> QED
  BY <1>1, <1>2, <1>4, PTL DEF Either!Spec
-----------------------------------------------------------------------------
(* Any. One that is empty has no object, no block and no debug information; *)
(* information may be missing of an object that came from memory.           *)
AnyCells == [stored_type : {"none", "small", "big"}, memory : Int, block : BOOLEAN, info : BOOLEAN]

(* The two of them are the fields a and b of what is kept. *)
AnyReps == [a : AnyCells, b : AnyCells, debug : BOOLEAN, lost : Int]

AnyOf(a, value) ==
    /\ a \in AnyCells
    /\ value = <<a.stored_type, a.memory>>
    /\ IF a.stored_type = "none" THEN a.memory = Holder!Raw /\ ~a.block /\ ~a.info
                                  ELSE a.memory \in Data /\ (a.block <=> a.stored_type = "big")

AnyInv ==
    fault = "none" =>
      /\ rep \in AnyReps
      /\ ref = [x \in Holder!Names |-> ref[x]]
      /\ rep.lost = 0
      /\ \A x \in Holder!Names : AnyOf(rep[x], ref[x])

(* clear leaves nothing, also of an object that was moved from. *)
LEMMA AnyClear ==
  ASSUME Data \subseteq Nat, NEW a, NEW value, AnyOf(a, value)
  PROVE  Holder!clear(a) = Holder!Empty /\ Holder!clear(Holder!moved_from(a)) = Holder!Empty
<1> DEFINE m == Holder!moved_from(a)
<1>1. a \in AnyCells
  BY DEF AnyOf
<1>2. /\ m \in AnyCells /\ m.stored_type = a.stored_type /\ m.memory = Holder!Leave(a.memory, TRUE)
      /\ m.block = a.block /\ ~m.info
  BY <1>1 DEF Holder!moved_from, Holder!Leave, AnyCells, Holder!Moved
<1> HIDE DEF m
<1>3. CASE a.stored_type = "none"
  <2>1. a.memory = -1 /\ Holder!Leave(-1, TRUE) = -1 /\ ~a.block /\ ~a.info
    BY <1>3 DEF AnyOf, Holder!Leave, Holder!IsObject, Holder!Raw, Holder!Moved
  <2>2. a = Holder!Empty /\ m = Holder!Empty
    BY <1>1, <1>2, <1>3, <2>1 DEF AnyCells, Holder!Empty, Holder!Raw
  <2> QED BY <2>2 DEF Holder!clear, Holder!is_empty, Holder!Empty, m
<1>4. CASE a.stored_type # "none"
  <2>1. a.memory \in Nat
    BY <1>4 DEF AnyOf
  <2>2. Holder!Destroy(a.memory) = -1 /\ Holder!Destroy(m.memory) = -1
    BY <1>2, <2>1 DEF Holder!Leave, Holder!Destroy, Holder!IsObject, Holder!Moved, Holder!Raw
  <2>3. [Holder!Empty EXCEPT !.memory = -1] = Holder!Empty
    BY DEF Holder!Empty, Holder!Raw
  <2> QED BY <1>2, <1>4, <2>2, <2>3 DEF Holder!clear, Holder!is_empty, m
<1> QED BY <1>3, <1>4

(* An object is stored alone, in a block if it is big. *)
LEMMA AnyStored ==
  ASSUME Data \subseteq Nat, NEW a, NEW old, AnyOf(a, old), NEW t \in Holder!Types, NEW v \in Data,
         NEW info \in BOOLEAN
  PROVE  AnyOf(Holder!Stored(a, t, v, info), <<t, v>>)
<1>1. Holder!clear(a).memory = -1
  BY AnyClear DEF Holder!Empty, Holder!Raw
<1>2. Holder!Construct(-1, v) = v
  BY DEF Holder!Construct, Holder!IsObject, Holder!Raw
<1>3. Holder!Stored(a, t, v, info) = [stored_type |-> t, memory |-> v, block |-> (t = "big"), info |-> info]
  BY <1>1, <1>2 DEF Holder!Stored, Holder!allocate_storage
<1> DEFINE s == Holder!Stored(a, t, v, info)
           big == t = "big"
<1>4. s = [stored_type |-> t, memory |-> v, block |-> big, info |-> info] /\ big \in BOOLEAN
  BY <1>3
<1>5. t \in {"none", "small", "big"} /\ t # "none" /\ v \in Int
  BY DEF Holder!Types
<1> HIDE DEF s
<1>6. s \in AnyCells
  <2> HIDE DEF big
  <2> QED BY <1>4, <1>5 DEF AnyCells
<1>7. s.stored_type = t /\ s.memory = v /\ s.block = big
  <2> HIDE DEF big
  <2> QED BY <1>4, Zenon
<1>8. AnyOf(s, <<t, v>>)
  BY <1>5, <1>6, <1>7 DEF AnyOf
<1> QED BY <1>8 DEF s

(* An empty Any holds nothing that could be lost. *)
LEMMA AnyEmpty ==
  /\ AnyOf(Holder!Empty, Holder!None)
  /\ Holder!Held(Holder!Empty) = 0 /\ Holder!is_empty(Holder!Empty)
BY DEF AnyOf, AnyCells, Holder!Empty, Holder!None, Holder!Raw, Holder!Held, Holder!is_empty

(* What is assigned from another is what that one holds. *)
LEMMA AnyAssign ==
  ASSUME Data \subseteq Nat, NEW a, NEW old, AnyOf(a, old), NEW o, NEW value, AnyOf(o, value),
         rep.debug \in BOOLEAN
  PROVE  AnyOf(Holder!assign_copy(a, o), value) /\ AnyOf(Holder!assign_move(a, o), value)
<1>1. CASE Holder!is_empty(o)
  <2>1. value = Holder!None
    BY <1>1 DEF AnyOf, Holder!None, Holder!is_empty
  <2> QED BY <1>1, <2>1, AnyClear, AnyEmpty DEF Holder!assign_copy, Holder!assign_move
<1>2. CASE ~Holder!is_empty(o)
  <2>1. o.stored_type \in Holder!Types /\ o.memory \in Data /\ o.info \in BOOLEAN /\ value = <<o.stored_type, o.memory>>
    BY <1>2 DEF AnyOf, AnyCells, Holder!Types, Holder!is_empty
  <2> QED BY <1>2, <2>1, AnyStored DEF Holder!assign_copy, Holder!assign_move
<1> QED BY <1>1, <1>2

(* A call changes one of the two, or moves from one to the other. *)
LEMMA AnyPut ==
  ASSUME AnyInv, fault = "none", NEW x \in Holder!Names, NEW a, NEW value, AnyOf(a, value),
         NEW n, NEW rest, AnyOf(n, rest), rep' \in AnyReps,
         rep'[x] = a, rep'[Holder!Other(x)] = n, rep'.lost = 0,
         ref' = [ref EXCEPT ![x] = value, ![Holder!Other(x)] = rest]
  PROVE  AnyInv'
<1> DEFINE y == Holder!Other(x)
<1>1. x \in {"a", "b"} /\ y \in {"a", "b"} /\ x # y /\ Holder!Names = {x, y}
  BY DEF Holder!Names, Holder!Other
<1>2. ref = [z \in Holder!Names |-> ref[z]]
  BY DEF AnyInv
<1>3. ref' = [z \in Holder!Names |-> ref'[z]] /\ ref'[x] = value /\ ref'[y] = rest
  BY <1>1, <1>2
<1>4. \A z \in Holder!Names : AnyOf(rep'[z], ref'[z])
  BY <1>1, <1>3
<1>5. (rep \in AnyReps)'
  BY DEF AnyReps, AnyCells
<1>6. (\A z \in Holder!Names : AnyOf(rep[z], ref[z]))'
  BY <1>4 DEF AnyOf, AnyCells, Holder!Names, Holder!Raw
<1> QED BY <1>3, <1>5, <1>6 DEF AnyInv, Holder!Names

(* What a call makes of the two of them. *)
AnyRep(r, x, a, n, k) == [r EXCEPT ![x] = a, ![Holder!Other(x)] = n, !.lost = k]

(* x is updated, and with it the other, or what is lost, or both. *)
LEMMA AnyUpdate ==
  ASSUME NEW r \in AnyReps, NEW x \in Holder!Names, NEW a \in AnyCells, NEW n \in AnyCells, NEW k \in Int
  PROVE  LET s == AnyRep(r, x, a, n, k)
         IN  s \in AnyReps /\ s[x] = a /\ s[Holder!Other(x)] = n /\ s.lost = k
<1>1. CASE x = "a"
  BY <1>1 DEF AnyRep, AnyReps, Holder!Other
<1>2. CASE x = "b"
  BY <1>2 DEF AnyRep, AnyReps, Holder!Other
<1> QED BY <1>1, <1>2 DEF Holder!Names

(* What is not mentioned stays: one is updated, *)
LEMMA AnyKept ==
  ASSUME NEW r \in AnyReps, NEW x \in Holder!Names, NEW a \in AnyCells
  PROVE  [r EXCEPT ![x] = a] = AnyRep(r, x, a, r[Holder!Other(x)], r.lost)
<1>1. CASE x = "a"
  BY <1>1 DEF AnyRep, AnyReps, Holder!Other
<1>2. CASE x = "b"
  BY <1>2 DEF AnyRep, AnyReps, Holder!Other
<1> QED BY <1>1, <1>2 DEF Holder!Names

(* or both. *)
LEMMA AnyKeptOther ==
  ASSUME NEW r \in AnyReps, NEW x \in Holder!Names, NEW a \in AnyCells, NEW n \in AnyCells
  PROVE  [r EXCEPT ![x] = a, ![Holder!Other(x)] = n] = AnyRep(r, x, a, n, r.lost)
<1>1. CASE x = "a"
  BY <1>1 DEF AnyRep, AnyReps, Holder!Other
<1>2. CASE x = "b"
  BY <1>2 DEF AnyRep, AnyReps, Holder!Other
<1> QED BY <1>1, <1>2 DEF Holder!Names

(* Every operation that meets no fault leaves type and value as given. *)
LEMMA AnyStep ==
  ASSUME Data \subseteq Nat, AnyInv, Holder!Next
  PROVE  AnyInv'
<1>1. fault = "none" /\ rep \in AnyReps /\ rep.lost = 0 /\ rep.debug \in BOOLEAN
      /\ ref = [z \in Holder!Names |-> ref[z]]
  BY DEF Holder!Next, AnyInv, AnyReps
<1>2. PICK x \in Holder!Names :
        \/ Holder!AssignValue(x) \/ Holder!Clear(x) \/ Holder!AssignCopy(x) \/ Holder!AssignMove(x)
        \/ Holder!AssignSelf(x) \/ Holder!CopyConstruct(x) \/ Holder!MoveConstruct(x) \/ Holder!FromMemory(x)
  BY DEF Holder!Next
<1> DEFINE y == Holder!Other(x)
<1>3. y \in Holder!Names /\ x # y
  BY DEF Holder!Names, Holder!Other
<1>4. AnyOf(rep[x], ref[x]) /\ AnyOf(rep[y], ref[y])
  BY <1>1, <1>3 DEF AnyInv
<1>5. \A a, value : AnyOf(a, value) => a \in AnyCells
  BY DEF AnyOf
<1>6. ASSUME NEW a, NEW value, AnyOf(a, value), Holder!Set(x, a, value)
      PROVE  AnyInv'
  <2>1. rep' = [rep EXCEPT ![x] = a] /\ ref' = [ref EXCEPT ![x] = value]
    BY <1>6 DEF Holder!Set
  <2>2. ref' = [ref EXCEPT ![x] = value, ![y] = ref[y]]
    BY <1>1, <1>3, <2>1
  <2>3. a \in AnyCells /\ rep[y] \in AnyCells
    BY <1>4, <1>5, <1>6
  <2>4. rep' = AnyRep(rep, x, a, rep[y], 0)
    BY <1>1, <2>1, <2>3, AnyKept, Zenon
  <2>5. rep' \in AnyReps /\ rep'[x] = a /\ rep'[y] = rep[y] /\ rep'.lost = 0
    BY <1>1, <2>3, <2>4, AnyUpdate
  <2> QED BY <1>1, <1>4, <1>6, <2>2, <2>5, AnyPut
<1>7. CASE Holder!AssignValue(x)
  <2>1. PICK t \in Holder!Types, v \in Data : Holder!Set(x, Holder!Stored(rep[x], t, v, rep.debug), <<t, v>>)
    BY <1>7 DEF Holder!AssignValue
  <2> QED BY <1>1, <1>4, <1>6, <2>1, AnyStored
<1>8. CASE Holder!FromMemory(x)
  <2>1. PICK t \in Holder!Types, v \in Data : Holder!Set(x, Holder!Stored(rep[x], t, v, FALSE), <<t, v>>)
    BY <1>8 DEF Holder!FromMemory
  <2> QED BY <1>4, <1>6, <2>1, AnyStored
<1>9. CASE Holder!Clear(x)
  <2>1. AnyOf(Holder!clear(rep[x]), Holder!None)
    BY <1>4, AnyClear, AnyEmpty
  <2> QED BY <1>6, <1>9, <2>1 DEF Holder!Clear
<1>10. ASSUME fault' # "none"
       PROVE  AnyInv'
  BY <1>10 DEF AnyInv
<1>11. CASE Holder!AssignCopy(x)
  <2>1. AnyOf(Holder!assign_copy(rep[x], rep[y]), ref[y])
    BY <1>1, <1>4, AnyAssign
  <2>2. \/ Holder!Set(x, Holder!assign_copy(rep[x], rep[y]), ref[y])
        \/ fault' = "no debug information to copy"
    BY <1>11 DEF Holder!AssignCopy
  <2> QED BY <1>6, <1>10, <2>1, <2>2
<1>12. CASE Holder!AssignSelf(x)
  BY <1>10, <1>12 DEF Holder!AssignSelf
<1>13. CASE Holder!AssignMove(x)
  <2> DEFINE a == Holder!assign_move(rep[x], rep[y])
             n == Holder!clear(Holder!moved_from(rep[y]))
  <2>1. AnyOf(a, ref[y]) /\ n = Holder!Empty
    BY <1>1, <1>4, AnyAssign, AnyClear
  <2>2. rep' = [rep EXCEPT ![x] = a, ![y] = n] /\ ref' = [ref EXCEPT ![x] = ref[y], ![y] = Holder!None]
    BY <1>3, <1>13 DEF Holder!AssignMove
  <2> HIDE DEF a, n
  <2>3. AnyOf(n, Holder!None) /\ a \in AnyCells /\ n \in AnyCells
    BY <1>5, <2>1, AnyEmpty
  <2>4. rep' = AnyRep(rep, x, a, n, 0)
    <3>1. [rep EXCEPT ![x] = a, ![y] = n] = AnyRep(rep, x, a, n, rep.lost)
      BY <1>1, <2>3, AnyKeptOther, Zenon
    <3> QED BY <1>1, <2>2, <3>1
  <2>5. rep' \in AnyReps /\ rep'[x] = a /\ rep'[y] = n /\ rep'.lost = 0
    BY <1>1, <2>3, <2>4, AnyUpdate
  <2> QED BY <1>1, <2>1, <2>2, <2>3, <2>5, AnyPut
<1>14. CASE Holder!CopyConstruct(x)
  <2> DEFINE once == Holder!assign_copy(Holder!Empty, rep[y])
  <2>1. AnyOf(once, ref[y])
    BY <1>1, <1>4, AnyAssign, AnyEmpty
  <2>2. CASE Holder!Copyable(rep[y])
    <3>1. PICK alloc \in BOOLEAN :
            /\ rep' = [rep EXCEPT ![x] = once, !.lost = @ + IF alloc THEN 0 ELSE Holder!Held(once)]
            /\ ref' = [ref EXCEPT ![x] = ref[y]]
            /\ fault' = IF alloc \/ Holder!is_empty(rep[y]) THEN fault ELSE "constructed twice"
      BY <1>14, <2>2 DEF Holder!CopyConstruct
    <3> DEFINE k == rep.lost + IF alloc THEN 0 ELSE Holder!Held(once)
    <3>2. SUFFICES ASSUME fault' = "none"
                   PROVE  AnyInv'
      BY <1>10
    <3>3. alloc \/ once = Holder!Empty
      <4>1. alloc \/ Holder!is_empty(rep[y])
        BY <3>1, <3>2
      <4> QED BY <4>1, AnyClear, AnyEmpty DEF Holder!assign_copy
    <3>4. k = 0 /\ k \in Int
      BY <1>1, <3>3, AnyEmpty
    <3>5. rep' = [rep EXCEPT ![x] = once, !.lost = k]
      BY <3>1
    <3> HIDE DEF k, once
    <3>6. once \in AnyCells /\ rep[y] \in AnyCells
      BY <1>4, <1>5, <2>1
    <3>7. rep' = AnyRep(rep, x, once, rep[y], 0)
      <4> k \in Int
        BY <3>4
      <4> rep \in AnyReps /\ once \in AnyCells
        BY <1>1, <3>6
      <4>1. [rep EXCEPT ![x] = once, !.lost = k] = AnyRep(rep, x, once, rep[y], k)
        <5>1. CASE x = "a"
          BY <5>1 DEF AnyRep, AnyReps, Holder!Other
        <5>2. CASE x = "b"
          BY <5>2 DEF AnyRep, AnyReps, Holder!Other
        <5> QED BY <5>1, <5>2 DEF Holder!Names
      <4> QED BY <3>4, <3>5, <4>1
    <3>8. rep' \in AnyReps /\ rep'[x] = once /\ rep'[y] = rep[y] /\ rep'.lost = 0
      BY <1>1, <3>6, <3>7, AnyUpdate
    <3>9. ref' = [ref EXCEPT ![x] = ref[y], ![y] = ref[y]]
      BY <1>1, <1>3, <3>1
    <3> QED BY <1>1, <1>4, <2>1, <3>8, <3>9, AnyPut
  <2>3. CASE ~Holder!Copyable(rep[y])
    BY <1>10, <1>14, <2>3 DEF Holder!CopyConstruct
  <2> QED BY <2>2, <2>3
<1>15. CASE Holder!MoveConstruct(x)
  <2> DEFINE a == Holder!assign_move(Holder!Empty, rep[y])
             n == IF Holder!is_empty(rep[y]) THEN rep[y] ELSE Holder!Dropped
             k == rep.lost + Holder!Held(Holder!clear(rep[x]))
  <2>1. AnyOf(a, ref[y])
    BY <1>1, <1>4, AnyAssign, AnyEmpty
  <2>2. n = Holder!Empty
    <3>1. Holder!is_empty(rep[y]) => rep[y] = Holder!Empty
      BY <1>4, AnyClear DEF Holder!clear
    <3> QED BY <3>1 DEF Holder!Dropped
  <2>3. k = 0
    BY <1>1, <1>4, AnyClear, AnyEmpty
  <2>4. /\ rep' = [rep EXCEPT ![x] = a, ![y] = n, !.lost = k]
        /\ ref' = [ref EXCEPT ![x] = ref[y], ![y] = Holder!None]
    BY <1>3, <1>15 DEF Holder!MoveConstruct
  <2> HIDE DEF a, n, k
  <2>5. AnyOf(n, Holder!None) /\ a \in AnyCells /\ n \in AnyCells
    BY <1>5, <2>1, <2>2, AnyEmpty
  <2>6. rep' = AnyRep(rep, x, a, n, 0)
    BY <2>3, <2>4 DEF AnyRep
  <2>7. rep' \in AnyReps /\ rep'[x] = a /\ rep'[y] = n /\ rep'.lost = 0
    BY <1>1, <2>5, <2>6, AnyUpdate
  <2> QED BY <1>1, <2>1, <2>4, <2>5, <2>7, AnyPut
<1> QED BY <1>2, <1>7, <1>8, <1>9, <1>11, <1>12, <1>13, <1>14, <1>15

(* After any calls that meet no fault, an Any holds an object exactly under *)
(* a type, a block exactly under a big one and debug information only under *)
(* a type, nothing was lost, and type and value are those given last.       *)
THEOREM AnyHolds ==
  Data \subseteq Nat => (Holder!Spec => [](Holder!ObjectsSound /\ Holder!Represents))
<1> SUFFICES ASSUME Data \subseteq Nat
             PROVE  Holder!Spec => [](Holder!ObjectsSound /\ Holder!Represents)
  OBVIOUS
<1>1. Holder!Init => AnyInv
  <2> SUFFICES ASSUME Holder!Init
               PROVE  AnyInv
    OBVIOUS
  <2>1. Holder!Empty \in AnyCells
    BY DEF AnyCells, Holder!Empty, Holder!Raw
  <2>2. rep \in AnyReps /\ rep.lost = 0 /\ rep.a = Holder!Empty /\ rep.b = Holder!Empty
    BY <2>1 DEF Holder!Init, AnyReps
  <2>3. ref = [x \in Holder!Names |-> Holder!None]
    BY DEF Holder!Init
  <2>4. \A x \in Holder!Names : AnyOf(rep[x], ref[x])
    BY <2>2, <2>3, AnyEmpty DEF Holder!Names
  <2> QED BY <2>2, <2>3, <2>4 DEF AnyInv
<1>2. AnyInv /\ [Holder!Next]_Holder!vars => AnyInv'
  <2>1. CASE Holder!Next
    BY <2>1, AnyStep
  <2>2. CASE UNCHANGED Holder!vars
    BY <2>2 DEF Holder!vars, AnyInv, AnyOf, AnyCells, AnyReps
  <2> QED BY <2>1, <2>2
<1>3. ASSUME AnyInv, fault = "none"
      PROVE  /\ rep.lost = 0
             /\ \A x \in Holder!Names :
                  /\ rep[x].memory # Holder!Bad
                  /\ Holder!IsObject(rep[x].memory) <=> ~Holder!is_empty(rep[x])
                  /\ rep[x].block <=> rep[x].stored_type = "big"
                  /\ rep[x].info => ~Holder!is_empty(rep[x])
                  /\ <<rep[x].stored_type, rep[x].memory>> = ref[x]
  <2>1. rep.lost = 0 /\ \A x \in Holder!Names : AnyOf(rep[x], ref[x])
    BY <1>3 DEF AnyInv
  <2> SUFFICES ASSUME NEW x \in Holder!Names
               PROVE  /\ rep[x].memory # Holder!Bad
                      /\ Holder!IsObject(rep[x].memory) <=> ~Holder!is_empty(rep[x])
                      /\ rep[x].block <=> rep[x].stored_type = "big"
                      /\ rep[x].info => ~Holder!is_empty(rep[x])
                      /\ <<rep[x].stored_type, rep[x].memory>> = ref[x]
    BY <2>1
  <2>2. AnyOf(rep[x], ref[x])
    BY <2>1
  <2>3. CASE rep[x].stored_type = "none"
    BY <2>2, <2>3 DEF AnyOf, AnyCells, Holder!Bad, Holder!Raw, Holder!Moved, Holder!IsObject, Holder!is_empty
  <2>4. CASE rep[x].stored_type # "none"
    BY <2>2, <2>4 DEF AnyOf, AnyCells, Holder!Bad, Holder!Raw, Holder!Moved, Holder!IsObject, Holder!is_empty
  <2> QED BY <2>3, <2>4
<1>4. AnyInv => Holder!ObjectsSound /\ Holder!Represents
  BY <1>3 DEF Holder!ObjectsSound, Holder!Represents
<1> QED
  BY <1>1, <1>2, <1>4, PTL DEF Holder!Spec
-----------------------------------------------------------------------------
(* UniquePtr. Some objects are loose: released to the caller, or made and   *)
(* not yet given to a pointer. Every other living object has one pointer,   *)
(* which knows its allocator.                                               *)
UniqueTypes == 0 \notin Objects /\ 0 \notin Allocators

UniqueCells == [ptr : Objects \cup {0}, alloc : Allocators \cup {0}]
UniqueHeaps == [Objects -> Allocators \cup {0}]
UniqueReps  == [ptr : [Pointers -> UniqueCells], heap : UniqueHeaps, lost : SUBSET Objects]

UniqueSound(p, heap, loose) ==
    /\ p \in [Pointers -> UniqueCells] /\ heap \in UniqueHeaps /\ loose \subseteq Objects
    /\ \A x \in Pointers : p[x].ptr # 0 =>
         p[x].alloc # 0 /\ heap[p[x].ptr] = p[x].alloc /\ p[x].ptr \notin loose
    /\ \A x, y \in Pointers : p[x].ptr = p[y].ptr /\ p[x].ptr # 0 => x = y
    /\ \A o \in Objects : heap[o] # 0 => o \in loose \/ \E x \in Pointers : p[x].ptr = o
    /\ \A o \in loose : heap[o] # 0

UniqueInv ==
    fault = "none" =>
      /\ rep \in UniqueReps /\ rep.lost = {}
      /\ ref \in [owns : [Pointers -> Objects \cup {0}], released : SUBSET Objects]
      /\ UniqueSound(rep.ptr, rep.heap, ref.released)
      /\ \A x \in Pointers : ref.owns[x] = rep.ptr[x].ptr

(* A pointer takes a loose object, or none, and what it had is destroyed. *)
LEMMA UniqueGive ==
  ASSUME UniqueTypes, NEW p, NEW heap, NEW loose, UniqueSound(p, heap, loose), NEW x \in Pointers,
         NEW o \in loose \cup {0}, NEW alloc \in Allocators \cup {0}, o # 0 => heap[o] = alloc
  PROVE  UniqueSound([p EXCEPT ![x] = [ptr |-> o, alloc |-> alloc]],
                     [q \in Objects |-> IF q = p[x].ptr THEN 0 ELSE heap[q]], loose \ {o})
<1> DEFINE n == [p EXCEPT ![x] = [ptr |-> o, alloc |-> alloc]]
           h == [q \in Objects |-> IF q = p[x].ptr THEN 0 ELSE heap[q]]
<1>1. /\ p \in [Pointers -> UniqueCells] /\ heap \in UniqueHeaps /\ loose \subseteq Objects
      /\ \A y \in Pointers : p[y].ptr # 0 =>
           p[y].alloc # 0 /\ heap[p[y].ptr] = p[y].alloc /\ p[y].ptr \notin loose
      /\ \A y, z \in Pointers : p[y].ptr = p[z].ptr /\ p[y].ptr # 0 => y = z
      /\ \A q \in Objects : heap[q] # 0 => q \in loose \/ \E y \in Pointers : p[y].ptr = q
      /\ \A q \in loose : heap[q] # 0
  BY DEF UniqueSound
<1>2. n \in [Pointers -> UniqueCells] /\ h \in UniqueHeaps
  BY <1>1 DEF UniqueCells, UniqueHeaps
<1>3. \A y \in Pointers : p[y].ptr \in Objects \cup {0}
  BY <1>1 DEF UniqueCells
<1>4. /\ n[x].ptr = o /\ n[x].alloc = alloc
      /\ \A y \in Pointers \ {x} : n[y] = p[y]
      /\ \A q \in Objects : h[q] = IF q = p[x].ptr THEN 0 ELSE heap[q]
  BY <1>1
<1> HIDE DEF n, h
<1>5. \A y \in Pointers : n[y].ptr # 0 =>
         n[y].alloc # 0 /\ h[n[y].ptr] = n[y].alloc /\ n[y].ptr \notin loose \ {o}
  <2> SUFFICES ASSUME NEW y \in Pointers, n[y].ptr # 0
               PROVE  n[y].alloc # 0 /\ h[n[y].ptr] = n[y].alloc /\ n[y].ptr \notin loose \ {o}
    OBVIOUS
  <2>1. CASE y = x
    BY <1>1, <1>4, <2>1
  <2>2. CASE y # x
    BY <1>1, <1>3, <1>4, <2>2
  <2> QED BY <2>1, <2>2
<1>6. \A y, z \in Pointers : n[y].ptr = n[z].ptr /\ n[y].ptr # 0 => y = z
  BY <1>1, <1>4
<1>7. \A q \in Objects : h[q] # 0 => q \in loose \ {o} \/ \E y \in Pointers : n[y].ptr = q
  <2> SUFFICES ASSUME NEW q \in Objects, h[q] # 0, q \notin loose \ {o}
               PROVE  \E y \in Pointers : n[y].ptr = q
    OBVIOUS
  <2>1. q # p[x].ptr /\ heap[q] # 0
    BY <1>4
  <2>2. CASE q = o
    BY <1>4, <2>2
  <2>3. CASE q # o
    BY <1>1, <1>4, <2>1, <2>3
  <2> QED BY <2>2, <2>3
<1>8. \A q \in loose \ {o} : h[q] # 0
  BY <1>1, <1>4 DEF UniqueTypes
<1> QED BY <1>1, <1>2, <1>5, <1>6, <1>7, <1>8 DEF UniqueSound, n, h

(* release makes what the pointer had loose. *)
LEMMA UniqueLoosen ==
  ASSUME UniqueTypes, NEW p, NEW heap, NEW loose, UniqueSound(p, heap, loose), NEW x \in Pointers
  PROVE  UniqueSound([p EXCEPT ![x] = Unique!Empty], heap, loose \cup ({p[x].ptr} \ {0}))
<1> DEFINE n == [p EXCEPT ![x] = Unique!Empty]
<1>1. p \in [Pointers -> UniqueCells] /\ p[x].ptr \in Objects \cup {0}
  BY DEF UniqueSound, UniqueCells
<1>2. /\ n \in [Pointers -> UniqueCells] /\ n[x].ptr = 0
      /\ \A y \in Pointers \ {x} : n[y] = p[y]
  BY <1>1 DEF UniqueCells, Unique!Empty, Unique!None
<1> HIDE DEF n
<1>3. UniqueSound(n, heap, loose \cup ({p[x].ptr} \ {0}))
  BY <1>1, <1>2 DEF UniqueSound, UniqueTypes
<1> QED BY <1>3 DEF n

(* A new object is loose until a pointer takes it. *)
LEMMA UniqueCreate ==
  ASSUME UniqueTypes, NEW p, NEW heap, NEW loose, UniqueSound(p, heap, loose),
         NEW o \in Objects, heap[o] = 0, NEW alloc \in Allocators
  PROVE  UniqueSound(p, [heap EXCEPT ![o] = alloc], loose \cup {o})
<1>1. p \in [Pointers -> UniqueCells] /\ \A y \in Pointers : p[y].ptr \in Objects \cup {0}
  BY DEF UniqueSound, UniqueCells
<1> QED BY <1>1 DEF UniqueSound, UniqueTypes, UniqueHeaps

(* swap gives each of the two what the other had. *)
LEMMA UniqueSwap ==
  ASSUME UniqueTypes, NEW p, NEW heap, NEW loose, UniqueSound(p, heap, loose),
         NEW x \in Pointers, NEW y \in Pointers
  PROVE  UniqueSound([p EXCEPT ![x] = p[y], ![y] = p[x]], heap, loose)
<1> DEFINE n == [p EXCEPT ![x] = p[y], ![y] = p[x]]
<1>1. p \in [Pointers -> UniqueCells]
  BY DEF UniqueSound
<1>2. n \in [Pointers -> UniqueCells] /\ \A z \in Pointers : n[z] = p[IF z = x THEN y ELSE IF z = y THEN x ELSE z]
  BY <1>1
<1> HIDE DEF n
<1>3. \A o \in Objects : heap[o] # 0 => o \in loose \/ \E z \in Pointers : n[z].ptr = o
  <2> SUFFICES ASSUME NEW o \in Objects, heap[o] # 0, o \notin loose
               PROVE  \E z \in Pointers : n[z].ptr = o
    OBVIOUS
  <2>1. PICK z \in Pointers : p[z].ptr = o
    BY DEF UniqueSound
  <2>2. n[IF z = x THEN y ELSE IF z = y THEN x ELSE z] = p[z]
    BY <1>2
  <2> QED BY <2>1, <2>2
<1>4. UniqueSound(n, heap, loose)
  BY <1>2, <1>3 DEF UniqueSound
<1> QED BY <1>4 DEF n

(* reset gives the pointer a loose object, or none, and destroys what it    *)
(* had, with the right allocator.                                           *)
LEMMA UniqueReset ==
  ASSUME UniqueTypes, NEW r \in UniqueReps, r.lost = {}, NEW loose, UniqueSound(r.ptr, r.heap, loose),
         NEW x \in Pointers, NEW alloc \in Allocators \cup {0}, NEW o \in loose \cup {0},
         o # 0 => r.heap[o] = alloc
  PROVE  LET s == Unique!reset(r, x, alloc, o)
         IN  /\ s \in UniqueReps /\ s.lost = {}
             /\ s.ptr = [r.ptr EXCEPT ![x] = [ptr |-> o, alloc |-> alloc]]
             /\ UniqueSound(s.ptr, s.heap, loose \ {o})
<1> DEFINE s == Unique!reset(r, x, alloc, o)
           n == [r.ptr EXCEPT ![x] = [ptr |-> o, alloc |-> alloc]]
           h == [q \in Objects |-> IF q = r.ptr[x].ptr THEN 0 ELSE r.heap[q]]
           gone == IF r.ptr[x].ptr # 0 /\ o # r.ptr[x].ptr
                   THEN Unique!destroy(r, r.ptr[x].ptr, r.ptr[x].alloc) ELSE r
<1>1. r.ptr \in [Pointers -> UniqueCells] /\ r.heap \in UniqueHeaps /\ r.ptr[x].ptr \in Objects \cup {0}
  BY DEF UniqueReps, UniqueCells
<1>2. s = [gone EXCEPT !.ptr[x] = [ptr |-> o, alloc |-> alloc]]
  BY DEF Unique!reset, Unique!None
<1>3. gone = [ptr |-> r.ptr, heap |-> h, lost |-> {}]
  <2>1. r = [ptr |-> r.ptr, heap |-> r.heap, lost |-> {}]
    BY DEF UniqueReps
  <2>2. CASE r.ptr[x].ptr = 0
    <3>1. h = r.heap
      BY <1>1, <2>2 DEF UniqueTypes, UniqueHeaps
    <3> QED BY <2>1, <2>2, <3>1
  <2>3. CASE r.ptr[x].ptr # 0
    <3>1. o # r.ptr[x].ptr /\ r.heap[r.ptr[x].ptr] = r.ptr[x].alloc /\ r.ptr[x].ptr \in Objects
      BY <1>1, <2>3 DEF UniqueSound
    <3>2. gone = Unique!destroy(r, r.ptr[x].ptr, r.ptr[x].alloc)
      BY <2>3, <3>1
    <3>3. gone = [r EXCEPT !.heap[r.ptr[x].ptr] = 0, !.lost = {}]
      BY <2>1, <3>1, <3>2 DEF Unique!destroy, Unique!None
    <3>4. h = [r.heap EXCEPT ![r.ptr[x].ptr] = 0]
      BY <1>1 DEF UniqueHeaps
    <3> HIDE DEF gone, h
    <3> QED BY <2>1, <3>3, <3>4
  <2> QED BY <2>2, <2>3
<1> HIDE DEF gone
<1>4. s = [ptr |-> n, heap |-> h, lost |-> {}]
  BY <1>2, <1>3
<1>5. n \in [Pointers -> UniqueCells] /\ h \in UniqueHeaps
  BY <1>1 DEF UniqueCells, UniqueHeaps, UniqueSound
<1>6. UniqueSound(n, h, loose \ {o})
  BY UniqueGive
<1> HIDE DEF s, n, h
<1>7. s \in UniqueReps /\ s.lost = {} /\ s.ptr = n /\ s.heap = h
  BY <1>4, <1>5 DEF UniqueReps
<1> QED BY <1>6, <1>7 DEF s, n

(* So does a call that ends in reset. *)
LEMMA UniqueAfter ==
  ASSUME UniqueTypes, NEW r \in UniqueReps, r.lost = {}, NEW loose, UniqueSound(r.ptr, r.heap, loose),
         NEW x \in Pointers, NEW alloc \in Allocators \cup {0}, NEW o \in loose \cup {0},
         o # 0 => r.heap[o] = alloc, Unique!Reset(r, x, alloc, o),
         ref' = [owns |-> [z \in Pointers |-> IF z = x THEN o ELSE r.ptr[z].ptr], released |-> loose \ {o}]
  PROVE  UniqueInv'
<1>1. /\ rep' \in UniqueReps /\ rep'.lost = {}
      /\ rep'.ptr = [r.ptr EXCEPT ![x] = [ptr |-> o, alloc |-> alloc]]
      /\ UniqueSound(rep'.ptr, rep'.heap, loose \ {o})
  <2>1. rep' = Unique!reset(r, x, alloc, o)
    BY DEF Unique!Reset
  <2>2. LET s == Unique!reset(r, x, alloc, o)
        IN  /\ s \in UniqueReps /\ s.lost = {}
            /\ s.ptr = [r.ptr EXCEPT ![x] = [ptr |-> o, alloc |-> alloc]]
            /\ UniqueSound(s.ptr, s.heap, loose \ {o})
    BY UniqueReset
  <2> QED BY <2>1, <2>2
<1>2. r.ptr \in [Pointers -> UniqueCells] /\ loose \subseteq Objects /\ \A z \in Pointers : r.ptr[z].ptr \in Objects \cup {0}
  BY DEF UniqueSound, UniqueCells
<1>3. \A z \in Pointers : rep'.ptr[z].ptr = IF z = x THEN o ELSE r.ptr[z].ptr
  BY <1>1, <1>2
<1>4. /\ ref' \in [owns : [Pointers -> Objects \cup {0}], released : SUBSET Objects]
      /\ ref'.released = loose \ {o}
      /\ \A z \in Pointers : ref'.owns[z] = IF z = x THEN o ELSE r.ptr[z].ptr
  BY <1>2
<1>5. (UniqueSound(rep.ptr, rep.heap, ref.released))'
  BY <1>1, <1>4 DEF UniqueSound, UniqueHeaps, UniqueCells
<1>6. (rep \in UniqueReps)'
  BY <1>1 DEF UniqueReps, UniqueHeaps, UniqueCells
<1> QED BY <1>1, <1>3, <1>4, <1>5, <1>6 DEF UniqueInv

(* Every operation that meets no fault keeps the ownership. *)
LEMMA UniqueStep ==
  ASSUME UniqueTypes, UniqueInv, Unique!Next
  PROVE  UniqueInv'
<1>1. /\ fault = "none" /\ rep \in UniqueReps /\ rep.lost = {}
      /\ ref \in [owns : [Pointers -> Objects \cup {0}], released : SUBSET Objects]
      /\ UniqueSound(rep.ptr, rep.heap, ref.released)
      /\ \A z \in Pointers : ref.owns[z] = rep.ptr[z].ptr
  BY DEF Unique!Next, UniqueInv
<1>2. PICK x \in Pointers, y \in Pointers :
        \/ Unique!MakeUnique(x) \/ Unique!CopyUnique(x, y) \/ Unique!Move(x, y) \/ Unique!Swap(x, y)
        \/ Unique!Release(x) \/ Unique!Adopt(x) \/ Unique!ResetToNull(x) \/ Unique!Destruct(x)
  BY DEF Unique!Next
<1>3. /\ rep.ptr \in [Pointers -> UniqueCells] /\ rep.heap \in UniqueHeaps /\ ref.released \subseteq Objects
      /\ \A z \in Pointers : rep.ptr[z] \in UniqueCells
      /\ \A z \in Pointers : rep.ptr[z].ptr \in Objects \cup {0} /\ rep.ptr[z].alloc \in Allocators \cup {0}
      /\ \A z \in Pointers : rep.ptr[z].ptr # 0 =>
           rep.ptr[z].alloc # 0 /\ rep.heap[rep.ptr[z].ptr] = rep.ptr[z].alloc /\ rep.ptr[z].ptr \notin ref.released
      /\ \A o \in ref.released : rep.heap[o] # 0
  BY <1>1 DEF UniqueSound, UniqueCells
<1>4. ref = [owns |-> [z \in Pointers |-> rep.ptr[z].ptr], released |-> ref.released]
  BY <1>1
<1>5. 0 \notin Objects /\ 0 \notin ref.released
  BY <1>3 DEF UniqueTypes
<1>6. ASSUME fault' # "none"
      PROVE  UniqueInv'
  BY <1>6 DEF UniqueInv
(* A new object goes to x. *)
<1>7. ASSUME NEW o \in Unique!Unused, NEW alloc \in Allocators,
             Unique!Reset([rep EXCEPT !.heap[o] = alloc], x, alloc, o),
             ref' = [ref EXCEPT !.owns[x] = o]
      PROVE  UniqueInv'
  <2> DEFINE r == [rep EXCEPT !.heap[o] = alloc]
             loose == ref.released \cup {o}
  <2>1. o \in Objects /\ rep.heap[o] = 0 /\ o # 0
    BY <1>5 DEF Unique!Unused, Unique!None
  <2>2. r \in UniqueReps /\ r.lost = {} /\ r.ptr = rep.ptr /\ r.heap = [rep.heap EXCEPT ![o] = alloc] /\ r.heap[o] = alloc
    BY <1>1, <2>1 DEF UniqueReps, UniqueHeaps
  <2>3. UniqueSound(r.ptr, r.heap, loose)
    <3>1. UniqueSound(rep.ptr, [rep.heap EXCEPT ![o] = alloc], loose)
      BY <1>1, <2>1, UniqueCreate
    <3> QED BY <2>2, <3>1
  <2>4. o \notin ref.released /\ loose \ {o} = ref.released
    BY <1>3, <2>1
  <2>5. ref' = [owns |-> [z \in Pointers |-> IF z = x THEN o ELSE rep.ptr[z].ptr], released |-> ref.released]
    BY <1>4, <1>7
  <2>6. Unique!Reset(r, x, alloc, o)
    BY <1>7
  <2> HIDE DEF r
  <2>7. ref' = [owns |-> [z \in Pointers |-> IF z = x THEN o ELSE r.ptr[z].ptr], released |-> loose \ {o}]
    BY <2>2, <2>4, <2>5
  <2> HIDE DEF loose
  <2>8. o \in loose \cup {0} /\ alloc \in Allocators \cup {0}
    BY DEF loose
  <2> QED BY <2>2, <2>3, <2>6, <2>7, <2>8, UniqueAfter
(* x is left without an object. *)
<1>8. ASSUME NEW alloc \in Allocators \cup {0}, Unique!Reset(rep, x, alloc, 0), ref' = [ref EXCEPT !.owns[x] = 0]
      PROVE  UniqueInv'
  <2>1. ref' = [owns |-> [z \in Pointers |-> IF z = x THEN 0 ELSE rep.ptr[z].ptr], released |-> ref.released \ {0}]
    <3>1. ref' = [owns |-> [z \in Pointers |-> IF z = x THEN 0 ELSE rep.ptr[z].ptr], released |-> ref.released]
      BY <1>4, <1>8
    <3>2. ref.released \ {0} = ref.released
      BY <1>5
    <3> QED BY <3>1, <3>2
  <2>2. 0 \in ref.released \cup {0} /\ (0 # 0 => rep.heap[0] = alloc)
    OBVIOUS
  <2> QED BY <1>1, <1>8, <2>1, <2>2, UniqueAfter
<1>9. CASE Unique!MakeUnique(x)
  BY <1>7, <1>9 DEF Unique!MakeUnique
<1>10. CASE Unique!CopyUnique(x, y)
  <2>1. CASE rep.ptr[y].ptr # 0
    <3>1. rep.ptr[y].alloc \in Allocators
      BY <1>3, <2>1
    <3>2. PICK o \in Unique!Unused : /\ Unique!Reset([rep EXCEPT !.heap[o] = rep.ptr[y].alloc], x, rep.ptr[y].alloc, o)
                                     /\ ref' = [ref EXCEPT !.owns[x] = o]
      BY <1>10, <2>1 DEF Unique!CopyUnique, Unique!None
    <3> QED BY <1>7, <3>1, <3>2
  <2>2. CASE rep.ptr[y].ptr = 0
    <3>1. Unique!Reset(rep, x, 0, 0) /\ ref' = [ref EXCEPT !.owns[x] = 0]
      BY <1>10, <2>2 DEF Unique!CopyUnique, Unique!None
    <3> QED BY <1>8, <3>1
  <2> QED BY <2>1, <2>2
<1>11. CASE Unique!ResetToNull(x)
  <2>1. PICK alloc \in Allocators : Unique!Reset(rep, x, alloc, 0) /\ ref' = [ref EXCEPT !.owns[x] = 0]
    BY <1>11 DEF Unique!ResetToNull, Unique!None
  <2> QED BY <1>8, <2>1
<1>12. CASE Unique!Destruct(x)
  <2>1. Unique!Reset(rep, x, 0, 0) /\ ref' = [ref EXCEPT !.owns[x] = 0]
    BY <1>12 DEF Unique!Destruct, Unique!None
  <2> QED BY <1>8, <2>1
<1>13. CASE Unique!Adopt(x)
  <2>1. PICK o \in ref.released :
          /\ Unique!Reset(rep, x, rep.heap[o], o)
          /\ ref' = [owns |-> [ref.owns EXCEPT ![x] = o], released |-> ref.released \ {o}]
    BY <1>13 DEF Unique!Adopt
  <2>2. ref' = [owns |-> [z \in Pointers |-> IF z = x THEN o ELSE rep.ptr[z].ptr], released |-> ref.released \ {o}]
    BY <1>1, <2>1
  <2>3. rep.heap[o] \in Allocators \cup {0} /\ o \in ref.released \cup {0}
    BY <1>3 DEF UniqueHeaps
  <2> QED BY <1>1, <2>1, <2>2, <2>3, UniqueAfter
<1> DEFINE n(z) == [rep.ptr EXCEPT ![z] = Unique!Empty]
           loosened(z) == ref.released \cup ({rep.ptr[z].ptr} \ {0})
<1>14. \A z \in Pointers :
         /\ Unique!release(rep, z) \in UniqueReps
         /\ Unique!release(rep, z).ptr = n(z) /\ Unique!release(rep, z).heap = rep.heap
         /\ Unique!release(rep, z).lost = {}
         /\ UniqueSound(n(z), rep.heap, loosened(z))
         /\ n(z) \in [Pointers -> UniqueCells]
         /\ \A u \in Pointers : n(z)[u].ptr = IF u = z THEN 0 ELSE rep.ptr[u].ptr
  <2> SUFFICES ASSUME NEW z \in Pointers
               PROVE  /\ Unique!release(rep, z) \in UniqueReps
                      /\ Unique!release(rep, z).ptr = n(z) /\ Unique!release(rep, z).heap = rep.heap
                      /\ Unique!release(rep, z).lost = {}
                      /\ UniqueSound(n(z), rep.heap, loosened(z))
                      /\ n(z) \in [Pointers -> UniqueCells]
                      /\ \A u \in Pointers : n(z)[u].ptr = IF u = z THEN 0 ELSE rep.ptr[u].ptr
    OBVIOUS
  <2>1. UniqueSound(n(z), rep.heap, loosened(z))
    BY <1>1, UniqueLoosen
  <2>2. Unique!Empty \in UniqueCells /\ Unique!Empty.ptr = 0
    BY DEF Unique!Empty, Unique!None, UniqueCells
  <2>3. n(z) \in [Pointers -> UniqueCells] /\ \A u \in Pointers : n(z)[u].ptr = IF u = z THEN 0 ELSE rep.ptr[u].ptr
    BY <1>3, <2>2
  <2>4. Unique!release(rep, z) = [rep EXCEPT !.ptr = n(z)]
    BY <1>1 DEF Unique!release, UniqueReps
  <2> HIDE DEF n
  <2>5. Unique!release(rep, z) \in UniqueReps /\ Unique!release(rep, z).ptr = n(z)
        /\ Unique!release(rep, z).heap = rep.heap /\ Unique!release(rep, z).lost = {}
    BY <1>1, <2>3, <2>4 DEF UniqueReps
  <2> QED BY <2>1, <2>3, <2>5
<1>15. CASE Unique!Release(x)
  <2>1. /\ rep' = Unique!release(rep, x)
        /\ ref' = [owns |-> [ref.owns EXCEPT ![x] = 0],
                   released |-> ref.released \cup ({ref.owns[x]} \ {0})]
    BY <1>15 DEF Unique!Release, Unique!None
  <2>2. /\ ref'.released = loosened(x) /\ loosened(x) \subseteq Objects
        /\ ref' \in [owns : [Pointers -> Objects \cup {0}], released : SUBSET Objects]
        /\ \A u \in Pointers : ref'.owns[u] = IF u = x THEN 0 ELSE rep.ptr[u].ptr
    BY <1>1, <1>3, <2>1
  <2> HIDE DEF n, loosened
  <2>3. rep' \in UniqueReps /\ rep'.ptr = n(x) /\ rep'.heap = rep.heap /\ rep'.lost = {}
    BY <1>14, <2>1
  <2>4. UniqueSound(rep'.ptr, rep'.heap, ref'.released)
    BY <1>14, <2>2, <2>3
  <2>5. \A u \in Pointers : ref'.owns[u] = rep'.ptr[u].ptr
    BY <1>14, <2>2, <2>3
  <2>6. (UniqueSound(rep.ptr, rep.heap, ref.released))' /\ (rep \in UniqueReps)'
    BY <2>3, <2>4 DEF UniqueSound, UniqueHeaps, UniqueCells, UniqueReps
  <2> QED BY <2>2, <2>3, <2>5, <2>6 DEF UniqueInv
<1>16. CASE Unique!Move(x, y)
  <2> DEFINE r == Unique!release(rep, y)
             o == rep.ptr[y].ptr
             loose == loosened(y)
  <2>1. PICK allocFirst \in BOOLEAN :
          /\ Unique!Reset(r, x, IF allocFirst THEN rep.ptr[y].alloc ELSE 0, o)
          /\ ref' = [ref EXCEPT !.owns = [@ EXCEPT ![y] = 0, ![x] = ref.owns[y]]]
    BY <1>16 DEF Unique!Move, Unique!None
  <2> DEFINE alloc == IF allocFirst THEN rep.ptr[y].alloc ELSE 0
  <2>2. alloc \in Allocators \cup {0} /\ o \in loose \cup {0} /\ loose \ {o} = ref.released
    BY <1>3, <1>5
  <2>3. SUFFICES ASSUME fault' = "none"
                 PROVE  UniqueInv'
    BY <1>6
  <2>4. Unique!ResetPasses(r, x, alloc, o)
    BY <2>1, <2>3 DEF Unique!Reset
  <2>5. o # 0 => rep.heap[o] = alloc
    <3>1. o = 0 \/ alloc # 0
      BY <2>4 DEF Unique!ResetPasses, Unique!check_invariant, Unique!None
    <3> QED BY <1>3, <3>1
  <2>6. Unique!Reset(r, x, alloc, o)
    BY <2>1
  <2>7. ref' = [owns |-> [z \in Pointers |-> IF z = x THEN o ELSE IF z = y THEN 0 ELSE rep.ptr[z].ptr],
                released |-> ref.released]
    BY <1>4, <2>1
  <2> HIDE DEF n, alloc, loosened
  <2>8. /\ r \in UniqueReps /\ r.lost = {} /\ r.heap = rep.heap /\ UniqueSound(r.ptr, r.heap, loose)
        /\ \A u \in Pointers : r.ptr[u].ptr = IF u = y THEN 0 ELSE rep.ptr[u].ptr
    BY <1>14
  <2> HIDE DEF r, o, loose
  <2>9. ref' = [owns |-> [z \in Pointers |-> IF z = x THEN o ELSE r.ptr[z].ptr], released |-> loose \ {o}]
    BY <2>2, <2>7, <2>8
  <2> QED BY <2>2, <2>5, <2>6, <2>8, <2>9, UniqueAfter
<1>17. CASE Unique!Swap(x, y)
  <2> DEFINE p == [rep.ptr EXCEPT ![x] = rep.ptr[y], ![y] = rep.ptr[x]]
  <2>1. /\ rep' = [rep EXCEPT !.ptr[x] = rep.ptr[y], !.ptr[y] = rep.ptr[x]]
        /\ ref' = [ref EXCEPT !.owns[x] = ref.owns[y], !.owns[y] = ref.owns[x]]
    BY <1>17 DEF Unique!Swap
  <2>2. UniqueSound(p, rep.heap, ref.released)
    BY <1>1, UniqueSwap
  <2>3. rep' = [rep EXCEPT !.ptr = p]
    BY <1>1, <2>1 DEF UniqueReps
  <2>4. /\ ref'.released = ref.released /\ ref' \in [owns : [Pointers -> Objects \cup {0}], released : SUBSET Objects]
        /\ \A u \in Pointers : ref'.owns[u] = p[u].ptr
    BY <1>1, <1>3, <2>1
  <2> HIDE DEF p
  <2>5. p \in [Pointers -> UniqueCells]
    BY <2>2 DEF UniqueSound
  <2>6. rep' \in UniqueReps /\ rep'.ptr = p /\ rep'.heap = rep.heap /\ rep'.lost = {}
    BY <1>1, <2>3, <2>5 DEF UniqueReps
  <2>7. (UniqueSound(rep.ptr, rep.heap, ref.released))' /\ (rep \in UniqueReps)'
    BY <2>2, <2>4, <2>6 DEF UniqueSound, UniqueHeaps, UniqueCells, UniqueReps
  <2> QED BY <2>4, <2>6, <2>7 DEF UniqueInv
<1> QED BY <1>2, <1>9, <1>10, <1>11, <1>12, <1>13, <1>15, <1>16, <1>17

(* After any calls that meet no fault, every living object is owned by one  *)
(* pointer or was released, each pointer knows the allocator of its object, *)
(* nothing was destroyed twice or by another allocator, and each pointer    *)
(* has the object it should have.                                           *)
THEOREM UniquePtrHolds ==
  UniqueTypes => (Unique!Spec => [](Unique!ObjectsSound /\ Unique!Represents))
<1> SUFFICES ASSUME UniqueTypes
             PROVE  Unique!Spec => [](Unique!ObjectsSound /\ Unique!Represents)
  OBVIOUS
<1>1. Unique!Init => UniqueInv
  BY DEF Unique!Init, Unique!Empty, Unique!None, UniqueInv, UniqueReps, UniqueSound, UniqueHeaps, UniqueCells
<1>2. UniqueInv /\ [Unique!Next]_Unique!vars => UniqueInv'
  <2>1. CASE Unique!Next
    BY <2>1, UniqueStep
  <2>2. CASE UNCHANGED Unique!vars
    BY <2>2 DEF Unique!vars, UniqueInv, UniqueReps, UniqueSound, UniqueHeaps, UniqueCells
  <2> QED BY <2>1, <2>2
<1>3. ASSUME UniqueInv, fault = "none"
      PROVE  /\ rep.lost = {}
             /\ \A x \in Pointers : rep.ptr[x].ptr # 0 => rep.heap[rep.ptr[x].ptr] = rep.ptr[x].alloc
             /\ \A o \in Objects \ ref.released :
                  rep.heap[o] # 0 <=> \E x \in Pointers : \A y \in Pointers : rep.ptr[y].ptr = o <=> y = x
             /\ \A o \in ref.released : rep.heap[o] # 0 /\ \A x \in Pointers : rep.ptr[x].ptr # o
             /\ \A x \in Pointers : rep.ptr[x].ptr = ref.owns[x]
  <2>1. /\ rep.lost = {} /\ UniqueSound(rep.ptr, rep.heap, ref.released)
        /\ \A x \in Pointers : ref.owns[x] = rep.ptr[x].ptr
    BY <1>3 DEF UniqueInv
  <2>2. ASSUME NEW o \in Objects \ ref.released
        PROVE  rep.heap[o] # 0 <=> \E x \in Pointers : \A y \in Pointers : rep.ptr[y].ptr = o <=> y = x
    <3>1. o # 0
      BY DEF UniqueTypes
    <3>2. CASE rep.heap[o] # 0
      BY <2>1, <3>1, <3>2 DEF UniqueSound
    <3>3. CASE rep.heap[o] = 0
      BY <2>1, <3>1, <3>3 DEF UniqueSound
    <3> QED BY <3>2, <3>3
  <2>3. \A o \in ref.released : rep.heap[o] # 0 /\ \A x \in Pointers : rep.ptr[x].ptr # o
    BY <2>1 DEF UniqueSound, UniqueTypes
  <2> QED BY <2>1, <2>2, <2>3 DEF UniqueSound
<1>4. UniqueInv => Unique!ObjectsSound /\ Unique!Represents
  <2>1. UniqueInv => Unique!ObjectsSound
    BY <1>3, Zenon DEF Unique!ObjectsSound, Unique!None
  <2>2. UniqueInv => Unique!Represents
    BY <1>3, Zenon DEF Unique!Represents
  <2> QED BY <2>1, <2>2
<1> QED
  BY <1>1, <1>2, <1>4, PTL DEF Unique!Spec
-----------------------------------------------------------------------------
(* SystemAllocator and MemoryTracker. An address is found in its bucket, in *)
(* one slot at most; while it tracks, the tracker has those that ref names, *)
(* and these are alive, so that malloc gives none of them out.              *)
TrackerConstants ==
    /\ Buckets \in Nat \ {0} /\ BucketSlots \in Nat
    /\ LastAddress \in Nat /\ Addresses \subseteq 1 .. LastAddress
    /\ PageSize \in Nat \ {0} /\ MaxSize \in Nat /\ MallocSizeKnown \in BOOLEAN

TrackerTables == [0 .. Buckets - 1 -> [1 .. BucketSlots -> Addresses \cup {0}]]
TrackerHeaps  == [Addresses -> [size : Int, mapped : BOOLEAN]]
TrackerReps   == [heap : TrackerHeaps, usage : Int, impl : BOOLEAN, table : TrackerTables,
                  live : Int, is_tracking : BOOLEAN, is_paused : BOOLEAN]

Has(table, a) == \E i \in 1 .. BucketSlots : table[a % Buckets][i] = a

TableSound(table) ==
    /\ table \in TrackerTables
    /\ \A b \in 0 .. Buckets - 1, i \in 1 .. BucketSlots : table[b][i] # 0 => table[b][i] % Buckets = b
    /\ \A b \in 0 .. Buckets - 1 : \A i, j \in 1 .. BucketSlots :
         table[b][i] = table[b][j] /\ table[b][i] # 0 => i = j

(* What is recorded in the table is what is tracked, and counted at least, *)
Books(r, tracked) ==
    /\ r \in TrackerReps /\ TableSound(r.table)
    /\ Cardinality(Tracker!Entries(r)) <= r.live
    /\ tracked \subseteq Addresses
    /\ r.is_tracking => r.impl /\ \A a \in Addresses : Has(r.table, a) <=> a \in tracked
    /\ ~r.is_tracking => tracked = {}

(* that is allocated, *)
Alive(r, tracked) == \A a \in tracked : r.heap[a] # Tracker!NoMemory

(* and what is allocated is in use. *)
Used(r) == r.usage = Tracker!Sizes(r)

TrackerInv ==
    fault = "none" =>
      /\ ref \in [tracked : SUBSET Addresses]
      /\ Books(rep, ref.tracked) /\ Alive(rep, ref.tracked) /\ Used(rep)

(* Every address has a bucket. *)
LEMMA BucketFacts ==
  ASSUME TrackerConstants
  PROVE  \A a \in Addresses : a \in Nat \ {0} /\ a % Buckets \in 0 .. Buckets - 1
<1> TAKE a \in Addresses
<1>1. a \in Nat \ {0} /\ Buckets \in Nat /\ Buckets > 0
  BY DEF TrackerConstants
<1>2. \A n \in Nat : n % Buckets \in 0 .. Buckets - 1
  BY <1>1
<1> QED BY <1>1, <1>2

(* Writing an address into a free slot of its bucket adds it. *)
LEMMA TableAdd ==
  ASSUME TrackerConstants, NEW t, TableSound(t), NEW a \in Addresses, ~Has(t, a),
         NEW i \in 1 .. BucketSlots, t[a % Buckets][i] = 0
  PROVE  LET n == [t EXCEPT ![a % Buckets][i] = a]
         IN  TableSound(n) /\ \A c \in Addresses : Has(n, c) <=> Has(t, c) \/ c = a
<1> DEFINE b == a % Buckets
           n == [t EXCEPT ![b][i] = a]
<1>1. a \in Nat \ {0} /\ b \in 0 .. Buckets - 1 /\ \A c \in Addresses : c \in Nat \ {0} /\ c % Buckets \in 0 .. Buckets - 1
  BY BucketFacts
<1>2. b = a % Buckets
  OBVIOUS
<1> HIDE DEF b
<1>3. /\ n \in TrackerTables
      /\ \A d \in 0 .. Buckets - 1, j \in 1 .. BucketSlots : n[d][j] = IF d = b /\ j = i THEN a ELSE t[d][j]
  <2>1. t \in TrackerTables
    BY DEF TableSound
  <2> QED BY ONLY <1>1, <2>1, i \in 1 .. BucketSlots, a \in Addresses DEF TrackerTables
<1> HIDE DEF n
<1>4. \A j \in 1 .. BucketSlots : t[b][j] # a
  BY <1>2 DEF Has
<1>5. TableSound(n)
  <2>1. ASSUME NEW d \in 0 .. Buckets - 1, NEW j \in 1 .. BucketSlots, n[d][j] # 0
        PROVE  n[d][j] % Buckets = d
    BY <1>2, <1>3, <2>1 DEF TableSound
  <2>2. ASSUME NEW d \in 0 .. Buckets - 1, NEW j \in 1 .. BucketSlots, NEW k \in 1 .. BucketSlots,
               n[d][j] = n[d][k], n[d][j] # 0
        PROVE  j = k
    BY <1>3, <1>4, <2>2 DEF TableSound
  <2> QED BY <1>3, <2>1, <2>2 DEF TableSound
<1>6. ASSUME NEW c \in Addresses
      PROVE  Has(n, c) <=> Has(t, c) \/ c = a
  <2>1. Has(n, c) => Has(t, c) \/ c = a
    BY <1>1, <1>3 DEF Has
  <2>2. c = a => Has(n, c)
    BY <1>1, <1>2, <1>3 DEF Has
  <2>3. Has(t, c) => Has(n, c)
    <3>1. SUFFICES ASSUME NEW j \in 1 .. BucketSlots, t[c % Buckets][j] = c
                   PROVE  Has(n, c)
      BY DEF Has
    <3>2. ~(c % Buckets = b /\ j = i)
      BY <1>1, <1>2, <3>1
    <3> QED BY <1>1, <1>3, <3>1, <3>2 DEF Has
  <2> QED BY <2>1, <2>2, <2>3
<1> QED BY <1>2, <1>5, <1>6 DEF n

(* Clearing the slot of an address removes it and nothing else. *)
LEMMA TableRemove ==
  ASSUME TrackerConstants, NEW t, TableSound(t), NEW a \in Addresses,
         NEW i \in 1 .. BucketSlots, t[a % Buckets][i] = a
  PROVE  LET n == [t EXCEPT ![a % Buckets][i] = 0]
         IN  TableSound(n) /\ \A c \in Addresses : Has(n, c) <=> Has(t, c) /\ c # a
<1> DEFINE b == a % Buckets
           n == [t EXCEPT ![b][i] = 0]
<1>1. a \in Nat \ {0} /\ b \in 0 .. Buckets - 1 /\ \A c \in Addresses : c \in Nat \ {0} /\ c % Buckets \in 0 .. Buckets - 1
  BY BucketFacts
<1>2. b = a % Buckets
  OBVIOUS
<1> HIDE DEF b
<1>3. /\ n \in TrackerTables
      /\ \A d \in 0 .. Buckets - 1, j \in 1 .. BucketSlots : n[d][j] = IF d = b /\ j = i THEN 0 ELSE t[d][j]
  <2>1. t \in TrackerTables
    BY DEF TableSound
  <2> QED BY ONLY <1>1, <2>1, i \in 1 .. BucketSlots DEF TrackerTables
<1> HIDE DEF n
<1>4. \A j \in 1 .. BucketSlots : t[b][j] = a => j = i
  BY <1>1, <1>2 DEF TableSound
<1>5. TableSound(n)
  <2>1. ASSUME NEW d \in 0 .. Buckets - 1, NEW j \in 1 .. BucketSlots, n[d][j] # 0
        PROVE  n[d][j] % Buckets = d
    BY <1>3, <2>1 DEF TableSound
  <2>2. ASSUME NEW d \in 0 .. Buckets - 1, NEW j \in 1 .. BucketSlots, NEW k \in 1 .. BucketSlots,
               n[d][j] = n[d][k], n[d][j] # 0
        PROVE  j = k
    BY <1>3, <2>2 DEF TableSound
  <2> QED BY <1>3, <2>1, <2>2 DEF TableSound
<1>6. ASSUME NEW c \in Addresses
      PROVE  Has(n, c) <=> Has(t, c) /\ c # a
  <2>1. Has(n, c) => Has(t, c) /\ c # a
    <3>1. SUFFICES ASSUME NEW j \in 1 .. BucketSlots, n[c % Buckets][j] = c
                   PROVE  Has(t, c) /\ c # a
      BY DEF Has
    <3>2. ~(c % Buckets = b /\ j = i) /\ t[c % Buckets][j] = c
      BY <1>1, <1>3, <3>1
    <3>3. c # a
      BY <1>2, <1>4, <3>2
    <3> QED BY <3>2, <3>3 DEF Has
  <2>2. Has(t, c) /\ c # a => Has(n, c)
    <3>1. SUFFICES ASSUME NEW j \in 1 .. BucketSlots, t[c % Buckets][j] = c, c # a
                   PROVE  Has(n, c)
      BY DEF Has
    <3>2. ~(c % Buckets = b /\ j = i)
      BY <1>2, <3>1
    <3> QED BY <1>1, <1>3, <3>1, <3>2 DEF Has
  <2> QED BY <2>1, <2>2
<1> QED BY <1>2, <1>5, <1>6 DEF n

(* The first slot of a kind is one of them. *)
LEMMA FirstSlot ==
  ASSUME TrackerConstants, NEW S, S \subseteq 1 .. BucketSlots, S # {}
  PROVE  (CHOOSE i \in S : \A j \in S : i <= j) \in S
<1>1. S \in SUBSET Nat
  BY DEF TrackerConstants
<1>2. \E i \in S : \A j \in S : i <= j
  BY <1>1, MinFacts, Zenon
<1> QED BY <1>2, Zenon

(* A call to the tracker leaves the allocator as it is. *)
SameButTable(s, r) ==
    /\ s.heap = r.heap /\ s.usage = r.usage /\ s.impl = r.impl
    /\ s.is_tracking = r.is_tracking /\ s.is_paused = r.is_paused

(* track_allocation adds the address, if it records and has room. *)
LEMMA TrackFacts ==
  ASSUME TrackerConstants, NEW r \in TrackerReps, TableSound(r.table), NEW a \in Addresses,
         Tracker!Recording(r) => ~Has(r.table, a), ~Tracker!IsFull(r, a)
  PROVE  LET s == Tracker!track_allocation(r, a)
         IN  /\ s \in TrackerReps /\ TableSound(s.table) /\ SameButTable(s, r)
             /\ s.live = IF Tracker!Recording(r) THEN r.live + 1 ELSE r.live
             /\ \A c \in Addresses : Has(s.table, c) <=> Has(r.table, c) \/ (Tracker!Recording(r) /\ c = a)
<1>1. CASE ~Tracker!Recording(r)
  BY <1>1 DEF Tracker!track_allocation, SameButTable
<1>2. CASE Tracker!Recording(r)
  <2> DEFINE F == Tracker!Fitting(r, a)
             i == CHOOSE k \in F : \A j \in F : k <= j
             b == a % Buckets
             live == IF Tracker!Slots(r, a)[i] = 0 THEN r.live + 1 ELSE r.live
             n == [r.table EXCEPT ![b][i] = a]
             s == Tracker!track_allocation(r, a)
  <2>1. F # {} /\ F \subseteq 1 .. BucketSlots /\ Tracker!Slots(r, a) = r.table[b]
    BY <1>2 DEF Tracker!IsFull, Tracker!Fitting, Tracker!Slots, Tracker!get_bucket_for_address
  <2>2. i \in F
    BY <2>1, FirstSlot
  <2>3. s = [r EXCEPT !.table[b][i] = a, !.live = live]
    BY <1>2, <2>1 DEF Tracker!track_allocation, Tracker!get_bucket_for_address, Tracker!Hole
  <2>4. b \in 0 .. Buckets - 1 /\ a # 0
    BY BucketFacts
  <2>5. i \in 1 .. BucketSlots /\ r.table[b][i] = 0
    <3> HIDE DEF i
    <3>1. r.table[b][i] \in {0, a} /\ i \in 1 .. BucketSlots
      BY <2>1, <2>2 DEF Tracker!Fitting, Tracker!Hole
    <3> QED BY <1>2, <3>1 DEF Has
  <2> HIDE DEF i
  <2>6. TableSound(n) /\ \A c \in Addresses : Has(n, c) <=> Has(r.table, c) \/ c = a
    BY <1>2, <2>5, TableAdd
  <2>7. live \in Int /\ live = r.live + 1
    <3>1. Tracker!Slots(r, a)[i] = 0 /\ r.live \in Int
      BY <2>1, <2>5 DEF TrackerReps
    <3> QED BY <3>1
  <2> HIDE DEF b, live
  <2>8. s = [r EXCEPT !.table = n, !.live = live]
    BY <2>3 DEF TrackerReps
  <2>9. n \in TrackerTables
    BY <2>6 DEF TableSound
  <2> HIDE DEF n, s
  <2>10. s \in TrackerReps /\ s.table = n /\ s.live = r.live + 1 /\ SameButTable(s, r)
    BY <2>7, <2>8, <2>9 DEF TrackerReps, SameButTable
  <2>11. TableSound(s.table) /\ \A c \in Addresses : Has(s.table, c) <=> Has(r.table, c) \/ (Tracker!Recording(r) /\ c = a)
    BY <1>2, <2>6, <2>10
  <2> QED BY <1>2, <2>10, <2>11 DEF s
<1> QED BY <1>1, <1>2

(* track_free removes the address, if it records, and of null nothing. *)
LEMMA FreeFacts ==
  ASSUME TrackerConstants, NEW r \in TrackerReps, TableSound(r.table), NEW a \in Addresses \cup {0}
  PROVE  LET s == Tracker!track_free(r, a)
         IN  /\ s \in TrackerReps /\ TableSound(s.table) /\ SameButTable(s, r)
             /\ s.live = IF a # 0 /\ Tracker!Recording(r) /\ Has(r.table, a) THEN r.live - 1 ELSE r.live
             /\ \A c \in Addresses : Has(s.table, c) <=> Has(r.table, c) /\ ~(Tracker!Recording(r) /\ c = a)
<1>1. CASE a = 0 \/ ~Tracker!Recording(r)
  BY <1>1, BucketFacts DEF Tracker!track_free, Tracker!Hole, SameButTable
<1>2. CASE a # 0 /\ Tracker!Recording(r)
  <2> DEFINE F == {k \in 1 .. BucketSlots : Tracker!Slots(r, a)[k] = a}
             i == CHOOSE k \in F : \A j \in F : k <= j
             b == a % Buckets
             n == [r.table EXCEPT ![b][i] = 0]
             s == Tracker!track_free(r, a)
  <2>1. a \in Addresses /\ F \subseteq 1 .. BucketSlots /\ Tracker!Slots(r, a) = r.table[b]
    BY <1>2 DEF Tracker!Slots, Tracker!get_bucket_for_address
  <2>2. CASE F = {}
    <3>1. s = r
      BY <2>2 DEF Tracker!track_free
    <3>2. ~Has(r.table, a)
      BY <2>1, <2>2 DEF Has
    <3> QED BY <3>1, <3>2 DEF SameButTable
  <2>3. CASE F # {}
    <3>1. i \in F
      BY <2>1, <2>3, FirstSlot
    <3>2. s = [r EXCEPT !.table[b][i] = 0, !.live = r.live - 1]
      BY <1>2, <2>3 DEF Tracker!track_free, Tracker!get_bucket_for_address, Tracker!Hole
    <3> HIDE DEF i
    <3>3. i \in 1 .. BucketSlots /\ r.table[b][i] = a
      BY <2>1, <3>1
    <3>4. TableSound(n) /\ \A c \in Addresses : Has(n, c) <=> Has(r.table, c) /\ c # a
      BY <2>1, <3>3, TableRemove
    <3> HIDE DEF b
    <3> DEFINE live == r.live - 1
    <3>5. s = [r EXCEPT !.table = n, !.live = live]
      BY <3>2 DEF TrackerReps
    <3>6. n \in TrackerTables /\ live \in Int
      BY <3>4 DEF TableSound, TrackerReps
    <3> HIDE DEF n, s, live
    <3>7. s \in TrackerReps /\ s.table = n /\ s.live = live /\ SameButTable(s, r)
      BY <3>5, <3>6 DEF TrackerReps, SameButTable
    <3>8. TableSound(s.table) /\ \A c \in Addresses : Has(s.table, c) <=> Has(r.table, c) /\ ~(Tracker!Recording(r) /\ c = a)
      BY <1>2, <3>4, <3>7
    <3>9. Has(r.table, a)
      BY <3>3 DEF Has, b
    <3> QED BY <1>2, <3>7, <3>8, <3>9 DEF s, live
  <2> QED BY <2>2, <2>3
<1> QED BY <1>1, <1>2

(* The allocations that are reported are those that have a slot. *)
LEMMA EntriesFacts ==
  ASSUME TrackerConstants, NEW r \in TrackerReps, TableSound(r.table)
  PROVE  /\ Tracker!Entries(r) = {a \in Addresses : Has(r.table, a)}
         /\ \A a \in Addresses : Tracker!get_allocation(r, a) <=> Has(r.table, a)
         /\ IsFiniteSet(Tracker!Entries(r)) /\ Cardinality(Tracker!Entries(r)) \in Nat
<1> DEFINE t == r.table
<1>1. /\ t \in TrackerTables
      /\ \A b \in 0 .. Buckets - 1, i \in 1 .. BucketSlots :
           t[b][i] \in Addresses \cup {0} /\ (t[b][i] # 0 => t[b][i] % Buckets = b)
  <2>1. t \in TrackerTables /\ \A b \in 0 .. Buckets - 1, i \in 1 .. BucketSlots : t[b][i] # 0 => t[b][i] % Buckets = b
    BY DEF TableSound
  <2> HIDE DEF t
  <2>2. \A b \in 0 .. Buckets - 1, i \in 1 .. BucketSlots : t[b][i] \in Addresses \cup {0}
    BY ONLY <2>1 DEF TrackerTables
  <2> QED BY <2>1, <2>2
<1>2. DOMAIN t = 0 .. Buckets - 1 /\ \A b \in 0 .. Buckets - 1 : DOMAIN t[b] = 1 .. BucketSlots
  BY <1>1 DEF TrackerTables
<1>3. \A b \in 0 .. Buckets - 1 : Tracker!Range(t[b]) = {t[b][i] : i \in 1 .. BucketSlots}
  BY <1>2 DEF Tracker!Range
<1> HIDE DEF t
<1>4. \A a : a \in Tracker!Entries(r) <=> a # 0 /\ \E b \in 0 .. Buckets - 1, i \in 1 .. BucketSlots : t[b][i] = a
  <2>1. \A a : a \in Tracker!Entries(r) <=> a # 0 /\ \E b \in DOMAIN t : a \in Tracker!Range(t[b])
    BY DEF Tracker!Entries, Tracker!Hole, t
  <2> TAKE a
  <2>2. (\E b \in DOMAIN t : a \in Tracker!Range(t[b])) <=> \E b \in 0 .. Buckets - 1, i \in 1 .. BucketSlots : t[b][i] = a
    BY <1>2, <1>3
  <2> QED BY <2>1, <2>2
<1>5. \A a \in Tracker!Entries(r) : a \in Addresses /\ Has(t, a)
  BY <1>1, <1>4 DEF Has
<1>6. \A a \in Addresses : Has(t, a) => a \in Tracker!Entries(r)
  BY <1>4, BucketFacts DEF Has
<1>7. ASSUME NEW a \in Addresses
      PROVE  Tracker!get_allocation(r, a) <=> Has(t, a)
  <2>1. a % Buckets \in 0 .. Buckets - 1
    BY BucketFacts
  <2>2. Tracker!get_allocation(r, a) <=> a \in Tracker!Range(t[a % Buckets])
    BY DEF Tracker!get_allocation, Tracker!Slots, Tracker!get_bucket_for_address, t
  <2> QED BY <1>3, <2>1, <2>2 DEF Has
<1>8. IsFiniteSet(Tracker!Entries(r)) /\ Cardinality(Tracker!Entries(r)) \in Nat
  <2>1. IsFiniteSet(1 .. LastAddress)
    BY FS_Interval DEF TrackerConstants
  <2>2. Tracker!Entries(r) \subseteq 1 .. LastAddress
    BY <1>5 DEF TrackerConstants
  <2> QED BY <2>1, <2>2, FS_Subset, FS_CardinalityType
<1> QED BY <1>5, <1>6, <1>7, <1>8 DEF t

(* The counter goes along with what is entered *)
LEMMA CountGains ==
  ASSUME TrackerConstants, NEW r \in TrackerReps, TableSound(r.table), NEW s \in TrackerReps, TableSound(s.table),
         NEW a \in Addresses, NEW recording \in BOOLEAN,
         \A c \in Addresses : Has(s.table, c) <=> Has(r.table, c) \/ (recording /\ c = a),
         s.live = IF recording THEN r.live + 1 ELSE r.live, Cardinality(Tracker!Entries(r)) <= r.live
  PROVE  Cardinality(Tracker!Entries(s)) <= s.live
<1>1. /\ Tracker!Entries(r) = {c \in Addresses : Has(r.table, c)}
      /\ Tracker!Entries(s) = {c \in Addresses : Has(s.table, c)}
      /\ IsFiniteSet(Tracker!Entries(r)) /\ Cardinality(Tracker!Entries(r)) \in Nat /\ r.live \in Int
  BY EntriesFacts DEF TrackerReps
<1>2. Tracker!Entries(s) = IF recording THEN Tracker!Entries(r) \cup {a} ELSE Tracker!Entries(r)
  BY <1>1
<1> DEFINE E == Tracker!Entries(r)
           n == Cardinality(E)
<1>3. Cardinality(E \cup {a}) = IF a \in E THEN n ELSE n + 1
  <2> HIDE DEF E
  <2>1. IsFiniteSet(E)
    BY <1>1 DEF E
  <2> QED BY <2>1, FS_AddElement
<1>4. Cardinality(Tracker!Entries(s)) = IF recording /\ a \notin E THEN n + 1 ELSE n
  <2> HIDE DEF n
  <2>1. CASE recording
    <3>1. Tracker!Entries(s) = E \cup {a}
      BY <1>2, <2>1
    <3> HIDE DEF E
    <3> QED BY <1>3, <2>1, <3>1
  <2>2. CASE ~recording
    BY <1>2, <2>2 DEF n
  <2> QED BY <2>1, <2>2
<1>5. n \in Nat /\ n <= r.live /\ r.live \in Int
  BY <1>1
<1> HIDE DEF n, E
<1> QED BY <1>4, <1>5

(* and with what is erased. *)
LEMMA CountLoses ==
  ASSUME TrackerConstants, NEW r \in TrackerReps, TableSound(r.table), NEW s \in TrackerReps, TableSound(s.table),
         NEW a \in Addresses \cup {0}, NEW recording \in BOOLEAN,
         \A c \in Addresses : Has(s.table, c) <=> Has(r.table, c) /\ ~(recording /\ c = a),
         s.live = IF a # 0 /\ recording /\ Has(r.table, a) THEN r.live - 1 ELSE r.live,
         Cardinality(Tracker!Entries(r)) <= r.live
  PROVE  Cardinality(Tracker!Entries(s)) <= s.live
<1>1. /\ Tracker!Entries(r) = {c \in Addresses : Has(r.table, c)}
      /\ Tracker!Entries(s) = {c \in Addresses : Has(s.table, c)}
      /\ IsFiniteSet(Tracker!Entries(r)) /\ Cardinality(Tracker!Entries(r)) \in Nat /\ r.live \in Int
  BY EntriesFacts DEF TrackerReps
<1>2. CASE a # 0 /\ recording /\ Has(r.table, a)
  <2>1. Tracker!Entries(s) = Tracker!Entries(r) \ {a} /\ a \in Tracker!Entries(r)
    BY <1>1, <1>2
  <2>2. Cardinality(Tracker!Entries(s)) = Cardinality(Tracker!Entries(r)) - 1
    <3> DEFINE E == Tracker!Entries(r)
    <3>1. IsFiniteSet(E) /\ a \in E
      BY <1>1, <2>1
    <3> HIDE DEF E
    <3>2. Cardinality(E \ {a}) = Cardinality(E) - 1
      BY ONLY <3>1, FS_RemoveElement
    <3> QED BY <2>1, <3>2 DEF E
  <2> QED BY <1>1, <1>2, <2>2
<1>3. CASE ~(a # 0 /\ recording /\ Has(r.table, a))
  <2>1. \A c \in Addresses : c # 0
    BY BucketFacts
  <2>2. Tracker!Entries(s) = Tracker!Entries(r)
    BY <1>1, <1>3, <2>1
  <2> QED BY <1>3, <2>2
<1> QED BY <1>2, <1>3

(* How much is in use depends on the heap alone *)
Weights(heap) == [a \in Addresses |-> Tracker!Weight(heap[a])]
HeapSum(heap) == SumUpTo(Addresses, LastAddress, Weights(heap))

(* and on what it has at each address: *)
LEMMA WeightsFacts ==
  ASSUME TrackerConstants, NEW heap \in TrackerHeaps
  PROVE  /\ Weighed(Addresses, LastAddress, Weights(heap))
         /\ \A a \in Addresses : Weights(heap)[a] = Tracker!Weight(heap[a]) /\ Tracker!Weight(heap[a]) \in Int
<1>1. \A a \in Addresses : Tracker!Weight(heap[a]) \in Int
  BY DEF Tracker!Weight, TrackerHeaps
<1> QED BY <1>1 DEF Weights, Weighed, TrackerConstants

(* of two heaps that differ at one address, so do the sums. *)
LEMMA SizesChange ==
  ASSUME TrackerConstants, NEW old \in TrackerHeaps, NEW new \in TrackerHeaps, NEW a \in Addresses,
         \A c \in Addresses : c # a => new[c] = old[c]
  PROVE  /\ HeapSum(old) \in Int
         /\ HeapSum(new) = HeapSum(old) - Tracker!Weight(old[a]) + Tracker!Weight(new[a])
<1> DEFINE v == Weights(old)
           w == Weights(new)
<1>1. /\ Weighed(Addresses, LastAddress, v) /\ Weighed(Addresses, LastAddress, w)
      /\ \A c \in Addresses : c # a => w[c] = v[c]
      /\ v[a] = Tracker!Weight(old[a]) /\ w[a] = Tracker!Weight(new[a])
  <2>1. \A c \in Addresses : c # a => Tracker!Weight(new[c]) = Tracker!Weight(old[c])
    OBVIOUS
  <2> QED BY <2>1, WeightsFacts
<1> HIDE DEF v, w
<1>2. /\ SumUpTo(Addresses, LastAddress, v) \in Int
      /\ SumUpTo(Addresses, LastAddress, w) = SumUpTo(Addresses, LastAddress, v) - v[a] + w[a]
  BY <1>1, SumChange
<1> QED BY <1>1, <1>2 DEF v, w, HeapSum

(* Nothing is in use at first. *)
LEMMA SizesNone ==
  ASSUME TrackerConstants, NEW heap \in TrackerHeaps, \A a \in Addresses : heap[a] = Tracker!NoMemory
  PROVE  HeapSum(heap) = 0
<1>1. Weighed(Addresses, LastAddress, Weights(heap)) /\ \A a \in Addresses : Weights(heap)[a] = 0
  BY WeightsFacts DEF Tracker!Weight, Tracker!NoMemory
<1> QED BY <1>1, SumNone DEF HeapSum

(* The sum is that of the model. *)
LEMMA SizesSum == \A r : Tracker!Sizes(r) = HeapSum(r.heap)
BY Zenon DEF Tracker!Sizes, HeapSum, SumUpTo, Weights

(* What is in use changes with the heap. *)
LEMMA UsedSame ==
  ASSUME NEW r, NEW s, Used(r), s.heap = r.heap, s.usage = r.usage
  PROVE  Used(s)
BY SizesSum DEF Used

(* A block more *)
LEMMA UsedMore ==
  ASSUME TrackerConstants, NEW r, NEW s, r.heap \in TrackerHeaps, s.heap \in TrackerHeaps, Used(r),
         NEW a \in Addresses, NEW block, r.heap[a] = Tracker!NoMemory, s.heap = [r.heap EXCEPT ![a] = block],
         s.usage = r.usage + Tracker!Weight(block)
  PROVE  Used(s)
<1>1. s.heap[a] = block /\ \A c \in Addresses : c # a => s.heap[c] = r.heap[c]
  BY DEF TrackerHeaps
<1>2. /\ HeapSum(r.heap) \in Int
      /\ HeapSum(s.heap) = HeapSum(r.heap) - Tracker!Weight(r.heap[a]) + Tracker!Weight(s.heap[a])
  BY ONLY <1>1, r.heap \in TrackerHeaps, s.heap \in TrackerHeaps, a \in Addresses, TrackerConstants, SizesChange
<1>3. Tracker!Weight(r.heap[a]) = 0
  BY DEF Tracker!Weight, Tracker!NoMemory
<1>4. HeapSum(s.heap) = HeapSum(r.heap) + Tracker!Weight(block)
  BY <1>1, <1>2, <1>3
<1> QED BY <1>4, SizesSum DEF Used

(* and a block less. *)
LEMMA UsedLess ==
  ASSUME TrackerConstants, NEW r, NEW s, r.heap \in TrackerHeaps, s.heap \in TrackerHeaps, Used(r),
         NEW a \in Addresses \cup {0},
         s.heap = [x \in Addresses |-> IF x = a THEN Tracker!NoMemory ELSE r.heap[x]],
         s.usage = r.usage - IF a = 0 THEN 0 ELSE Tracker!Weight(r.heap[a])
  PROVE  Used(s)
<1>1. CASE a = 0
  <2>1. \A x \in Addresses : x # a
    BY <1>1, BucketFacts
  <2>2. s.heap = [x \in Addresses |-> r.heap[x]]
    BY <2>1
  <2>3. s.heap = r.heap
    BY <2>2 DEF TrackerHeaps
  <2>4. HeapSum(r.heap) \in Int
    BY WeightsFacts, SumInteger DEF HeapSum
  <2>5. s.usage = r.usage
    BY <1>1, <2>4, SizesSum DEF Used
  <2> QED BY <2>3, <2>5, UsedSame
<1>2. CASE a # 0
  <2>1. a \in Addresses
    BY <1>2
  <2>2. s.heap[a] = Tracker!NoMemory /\ \A c \in Addresses : c # a => s.heap[c] = r.heap[c]
    BY <2>1
  <2>3. /\ HeapSum(r.heap) \in Int
        /\ HeapSum(s.heap) = HeapSum(r.heap) - Tracker!Weight(r.heap[a]) + Tracker!Weight(s.heap[a])
    BY <2>1, <2>2, SizesChange
  <2>4. Tracker!Weight(s.heap[a]) = 0 /\ Tracker!Weight(r.heap[a]) \in Int
    BY <2>1, <2>2 DEF Tracker!Weight, Tracker!NoMemory, TrackerHeaps
  <2>5. HeapSum(s.heap) = HeapSum(r.heap) - Tracker!Weight(r.heap[a])
    BY <2>3, <2>4
  <2> QED BY <1>2, <2>5, SizesSum DEF Used
<1> QED BY <1>1, <1>2

(* An allocation is tracked where nothing tracked lives. *)
LEMMA TrackStep ==
  ASSUME TrackerConstants, NEW r, NEW a \in Addresses, NEW old,
         Books(r, ref.tracked \ {old}), Alive(r, ref.tracked \ {old}),
         a \notin ref.tracked \ {old}, r.heap[a] # Tracker!NoMemory,
         Tracker!Recording(r) = Tracker!Recording(rep), Tracker!Track(r, a, old), fault' = "none"
  PROVE  /\ Books(rep', ref'.tracked) /\ Alive(rep', ref'.tracked) /\ ref' \in [tracked : SUBSET Addresses]
         /\ rep'.heap = r.heap /\ rep'.usage = r.usage
<1> DEFINE rest == ref.tracked \ {old}
<1>1. /\ r \in TrackerReps /\ TableSound(r.table) /\ rest \subseteq Addresses
      /\ Cardinality(Tracker!Entries(r)) <= r.live
      /\ r.is_tracking => r.impl /\ \A c \in Addresses : Has(r.table, c) <=> c \in rest
      /\ ~r.is_tracking => rest = {}
      /\ \A c \in rest : r.heap[c] # Tracker!NoMemory
  BY DEF Books, Alive
<1>2. rep' = Tracker!track_allocation(r, a) /\ ref' = [tracked |-> IF Tracker!Recording(rep) THEN rest \cup {a} ELSE rest \ {a}]
  BY DEF Tracker!Track, Tracker!RefAllocated
<1>3. ~Tracker!IsFull(r, a)
  BY Zenon DEF Tracker!Track
<1>4. a \notin rest
  OBVIOUS
<1> HIDE DEF rest
<1>5. Tracker!Recording(r) => r.is_tracking
  BY DEF Tracker!Recording
<1>6. LET s == Tracker!track_allocation(r, a)
      IN  /\ s \in TrackerReps /\ TableSound(s.table) /\ SameButTable(s, r)
          /\ s.live = IF Tracker!Recording(r) THEN r.live + 1 ELSE r.live
          /\ \A c \in Addresses : Has(s.table, c) <=> Has(r.table, c) \/ (Tracker!Recording(r) /\ c = a)
  BY <1>1, <1>3, <1>4, <1>5, TrackFacts
<1>7. /\ rep' \in TrackerReps /\ TableSound(rep'.table) /\ SameButTable(rep', r)
      /\ rep'.live = IF Tracker!Recording(r) THEN r.live + 1 ELSE r.live
      /\ \A c \in Addresses : Has(rep'.table, c) <=> Has(r.table, c) \/ (Tracker!Recording(r) /\ c = a)
  BY <1>2, <1>6
<1>8. ref'.tracked = IF Tracker!Recording(r) THEN rest \cup {a} ELSE rest
  BY <1>2, <1>4
<1>9. ref'.tracked \subseteq Addresses /\ ref' \in [tracked : SUBSET Addresses]
  BY <1>1, <1>2
<1>10. r.is_tracking => \A c \in Addresses : Has(rep'.table, c) <=> c \in ref'.tracked
  BY <1>1, <1>7, <1>8
<1>11. ~r.is_tracking => ref'.tracked = {}
  BY <1>1, <1>5, <1>8
<1>12. \A c \in ref'.tracked : rep'.heap[c] # Tracker!NoMemory
  BY <1>1, <1>7, <1>8 DEF SameButTable
<1>13. Cardinality(Tracker!Entries(rep')) <= rep'.live
  <2>1. Tracker!Recording(r) \in BOOLEAN
    BY DEF Tracker!Recording
  <2> QED BY <1>1, <1>7, <2>1, CountGains
<1> QED BY <1>1, <1>7, <1>9, <1>10, <1>11, <1>12, <1>13 DEF Books, Alive, SameButTable

(* What is freed is no longer tracked, unless the tracker was paused. *)
LEMMA FreeStep ==
  ASSUME TrackerConstants, NEW r, NEW tracked, Books(r, tracked), NEW a \in Addresses \cup {0},
         ~(r.is_tracking /\ r.is_paused /\ a \in Tracker!Entries(r))
  PROVE  Books(Tracker!track_free(r, a), tracked \ {a}) /\ SameButTable(Tracker!track_free(r, a), r)
<1> DEFINE s == Tracker!track_free(r, a)
<1>1. /\ r \in TrackerReps /\ TableSound(r.table) /\ tracked \subseteq Addresses
      /\ Cardinality(Tracker!Entries(r)) <= r.live
      /\ r.is_tracking => r.impl /\ \A c \in Addresses : Has(r.table, c) <=> c \in tracked
      /\ ~r.is_tracking => tracked = {}
  BY DEF Books
<1>2. /\ s \in TrackerReps /\ TableSound(s.table) /\ SameButTable(s, r)
      /\ s.live = IF a # 0 /\ Tracker!Recording(r) /\ Has(r.table, a) THEN r.live - 1 ELSE r.live
      /\ \A c \in Addresses : Has(s.table, c) <=> Has(r.table, c) /\ ~(Tracker!Recording(r) /\ c = a)
  BY <1>1, FreeFacts
<1> HIDE DEF s
<1>3. r.is_tracking => \A c \in Addresses : Has(s.table, c) <=> c \in tracked \ {a}
  <2>1. CASE Tracker!Recording(r)
    BY <1>1, <1>2, <2>1
  <2>2. CASE ~Tracker!Recording(r)
    <3>1. SUFFICES ASSUME r.is_tracking
                   PROVE  \A c \in Addresses : Has(s.table, c) <=> c \in tracked \ {a}
      OBVIOUS
    <3>2. r.is_paused /\ a \notin Tracker!Entries(r)
      BY <1>1, <2>2, <3>1 DEF Tracker!Recording
    <3>3. a \notin tracked
      BY <1>1, <3>1, <3>2, EntriesFacts
    <3> QED BY <1>1, <1>2, <2>2, <3>1, <3>3
  <2> QED BY <2>1, <2>2
<1>4. Cardinality(Tracker!Entries(s)) <= s.live
  <2>1. Tracker!Recording(r) \in BOOLEAN
    BY DEF Tracker!Recording
  <2> QED BY <1>1, <1>2, <2>1, CountLoses
<1>5. Books(s, tracked \ {a})
  BY <1>1, <1>2, <1>3, <1>4 DEF Books, SameButTable
<1> QED BY <1>2, <1>5 DEF s

(* What is entered is a matter of the table. *)
LEMMA SameEntries == \A r, s : s.table = r.table => Tracker!Entries(s) = Tracker!Entries(r)
BY DEF Tracker!Entries

(* malloc, free, mmap and munmap change the heap and nothing of the tracker.*)
HeapOnly(s, r) ==
    /\ s \in TrackerReps /\ s.table = r.table /\ s.live = r.live
    /\ s.impl = r.impl /\ s.is_tracking = r.is_tracking /\ s.is_paused = r.is_paused

(* What leaves the tracker alone leaves the books as they are. *)
LEMMA BooksKept ==
  ASSUME NEW r, NEW tracked, Books(r, tracked), NEW s, HeapOnly(s, r)
  PROVE  Books(s, tracked) /\ Tracker!Recording(s) = Tracker!Recording(r)
<1>1. Tracker!Entries(s) = Tracker!Entries(r)
  BY DEF HeapOnly, Tracker!Entries
<1> QED BY <1>1 DEF Books, HeapOnly, Tracker!Recording

(* malloc makes a block at the address, *)
LEMMA AllocFacts ==
  ASSUME NEW r \in TrackerReps, NEW a \in Addresses, NEW size \in Int
  PROVE  /\ HeapOnly(Tracker!system_alloc(r, a, size), r)
         /\ Tracker!system_alloc(r, a, size).usage = r.usage
         /\ Tracker!system_alloc(r, a, size).heap = [r.heap EXCEPT ![a] = [size |-> size, mapped |-> FALSE]]
<1> DEFINE block == [size |-> size, mapped |-> FALSE]
           heap == [r.heap EXCEPT ![a] = block]
<1>1. block \in [size : Int, mapped : BOOLEAN]
  OBVIOUS
<1>2. Tracker!system_alloc(r, a, size) = [r EXCEPT !.heap = heap]
  BY DEF Tracker!system_alloc, TrackerReps
<1> HIDE DEF block
<1>3. heap \in TrackerHeaps
  BY <1>1 DEF TrackerReps, TrackerHeaps
<1> HIDE DEF heap
<1>4. /\ [r EXCEPT !.heap = heap].heap = heap /\ [r EXCEPT !.heap = heap].usage = r.usage
      /\ HeapOnly([r EXCEPT !.heap = heap], r)
  BY <1>3 DEF TrackerReps, HeapOnly
<1> QED BY <1>2, <1>4 DEF heap, block

(* mmap a mapped one, *)
LEMMA LargeFacts ==
  ASSUME NEW r \in TrackerReps, NEW a \in Addresses, NEW size \in Int
  PROVE  /\ HeapOnly(Tracker!system_alloc_large(r, a, size), r)
         /\ Tracker!system_alloc_large(r, a, size).usage = r.usage
         /\ Tracker!system_alloc_large(r, a, size).heap = [r.heap EXCEPT ![a] = [size |-> size, mapped |-> TRUE]]
<1> DEFINE block == [size |-> size, mapped |-> TRUE]
           heap == [r.heap EXCEPT ![a] = block]
<1>1. block \in [size : Int, mapped : BOOLEAN]
  OBVIOUS
<1>2. Tracker!system_alloc_large(r, a, size) = [r EXCEPT !.heap = heap]
  BY DEF Tracker!system_alloc_large, TrackerReps
<1> HIDE DEF block
<1>3. heap \in TrackerHeaps
  BY <1>1 DEF TrackerReps, TrackerHeaps
<1> HIDE DEF heap
<1>4. /\ [r EXCEPT !.heap = heap].heap = heap /\ [r EXCEPT !.heap = heap].usage = r.usage
      /\ HeapOnly([r EXCEPT !.heap = heap], r)
  BY <1>3 DEF TrackerReps, HeapOnly
<1> QED BY <1>2, <1>4 DEF heap, block

(* and free and munmap leave nothing there; of null, nothing changes. *)
LEMMA FreedFacts ==
  ASSUME NEW r \in TrackerReps, NEW a
  PROVE  /\ HeapOnly(Tracker!system_free(r, a), r)
         /\ Tracker!system_free(r, a).usage = r.usage
         /\ Tracker!system_free(r, a).heap = [x \in Addresses |-> IF x = a THEN Tracker!NoMemory ELSE r.heap[x]]
<1> DEFINE heap == [x \in Addresses |-> IF x = a THEN Tracker!NoMemory ELSE r.heap[x]]
<1>1. Tracker!NoMemory \in [size : Int, mapped : BOOLEAN]
  BY DEF Tracker!NoMemory
<1>2. Tracker!system_free(r, a) = [r EXCEPT !.heap = heap]
  BY DEF Tracker!system_free
<1>3. heap \in TrackerHeaps
  BY <1>1 DEF TrackerReps, TrackerHeaps
<1> HIDE DEF heap
<1>4. /\ [r EXCEPT !.heap = heap].heap = heap /\ [r EXCEPT !.heap = heap].usage = r.usage
      /\ HeapOnly([r EXCEPT !.heap = heap], r)
  BY <1>3 DEF TrackerReps, HeapOnly
<1> QED BY <1>2, <1>4 DEF heap

(* The usage is counted apart from that. *)
Charged(r, usage) == [r EXCEPT !.usage = usage]

(* Counting changes neither heap nor table. *)
LEMMA ChargedFacts ==
  ASSUME NEW r \in TrackerReps, NEW usage \in Int
  PROVE  /\ HeapOnly(Charged(r, usage), r)
         /\ Charged(r, usage).heap = r.heap /\ Charged(r, usage).usage = usage
BY DEF Charged, TrackerReps, HeapOnly

(* The table as it is made, and as start leaves it, has no allocation. *)
LEMMA EmptyTableFacts ==
  ASSUME TrackerConstants
  PROVE  /\ TableSound(Tracker!EmptyTable) /\ \A a \in Addresses : ~Has(Tracker!EmptyTable, a)
         /\ \A r \in TrackerReps : r.table = Tracker!EmptyTable => Cardinality(Tracker!Entries(r)) = 0
<1> DEFINE t == Tracker!EmptyTable
<1>1. t \in TrackerTables /\ \A b \in 0 .. Buckets - 1, i \in 1 .. BucketSlots : t[b][i] = 0
  BY DEF Tracker!EmptyTable, TrackerTables, Tracker!Hole
<1> HIDE DEF t
<1>2. TableSound(t)
  BY <1>1 DEF TableSound
<1>3. \A a \in Addresses : ~Has(t, a)
  BY <1>1, BucketFacts DEF Has
<1>4. ASSUME NEW r \in TrackerReps, r.table = t
      PROVE  Cardinality(Tracker!Entries(r)) = 0
  <2>1. Tracker!Entries(r) = {}
    BY <1>2, <1>3, <1>4, EntriesFacts
  <2> QED BY <2>1, FS_EmptySet
<1> QED BY <1>2, <1>3, <1>4 DEF t

(* The heap and what is counted stay as they are. *)
KeepsHeap(s, r) == s.heap = r.heap /\ s.usage = r.usage /\ s.live = r.live

(* What start, pause, unpause and stop leave of what they were given. *)
LEMMA SwitchFacts ==
  ASSUME TrackerConstants, NEW r \in TrackerReps
  PROVE  /\ Tracker!start(r) \in TrackerReps /\ Tracker!pause(r) \in TrackerReps
         /\ Tracker!unpause(r) \in TrackerReps /\ Tracker!stop(r) \in TrackerReps
         /\ Tracker!start(r).impl /\ Tracker!start(r).is_tracking /\ KeepsHeap(Tracker!start(r), r)
         /\ Tracker!start(r).table = IF r.is_paused THEN r.table ELSE Tracker!EmptyTable
         /\ KeepsHeap(Tracker!pause(r), r) /\ Tracker!pause(r).table = r.table
         /\ Tracker!pause(r).impl = r.impl /\ Tracker!pause(r).is_tracking = r.is_tracking
         /\ KeepsHeap(Tracker!unpause(r), r) /\ Tracker!unpause(r).table = r.table
         /\ Tracker!unpause(r).impl = r.impl /\ Tracker!unpause(r).is_tracking = r.is_tracking
         /\ KeepsHeap(Tracker!stop(r), r) /\ Tracker!stop(r).table = r.table /\ ~Tracker!stop(r).is_tracking
<1> DEFINE table == IF r.is_paused THEN r.table ELSE Tracker!EmptyTable
<1>1. table \in TrackerTables
  BY EmptyTableFacts DEF TableSound, TrackerReps
<1>2. Tracker!start(r) = [r EXCEPT !.impl = TRUE, !.is_tracking = TRUE, !.is_paused = FALSE, !.table = table]
  BY DEF Tracker!start
<1> HIDE DEF table
<1>3. /\ Tracker!start(r) \in TrackerReps /\ Tracker!start(r).impl /\ Tracker!start(r).is_tracking
      /\ KeepsHeap(Tracker!start(r), r) /\ Tracker!start(r).table = table
  BY <1>1, <1>2 DEF TrackerReps, KeepsHeap
<1>4. /\ Tracker!pause(r) \in TrackerReps
      /\ KeepsHeap(Tracker!pause(r), r) /\ Tracker!pause(r).table = r.table
      /\ Tracker!pause(r).impl = r.impl /\ Tracker!pause(r).is_tracking = r.is_tracking
  BY DEF Tracker!pause, TrackerReps, KeepsHeap
<1>5. /\ Tracker!unpause(r) \in TrackerReps
      /\ KeepsHeap(Tracker!unpause(r), r) /\ Tracker!unpause(r).table = r.table
      /\ Tracker!unpause(r).impl = r.impl /\ Tracker!unpause(r).is_tracking = r.is_tracking
  BY DEF Tracker!unpause, TrackerReps, KeepsHeap
<1>6. /\ Tracker!stop(r) \in TrackerReps /\ ~Tracker!stop(r).is_tracking
      /\ KeepsHeap(Tracker!stop(r), r) /\ Tracker!stop(r).table = r.table
  BY DEF Tracker!stop, TrackerReps, KeepsHeap
<1> QED BY <1>3, <1>4, <1>5, <1>6 DEF table

(* Every operation that meets no fault keeps the books. *)
LEMMA TrackerStep ==
  ASSUME TrackerConstants, TrackerInv, Tracker!Next, fault' = "none"
  PROVE  /\ ref' \in [tracked : SUBSET Addresses]
         /\ Books(rep', ref'.tracked) /\ Alive(rep', ref'.tracked) /\ Used(rep')
<1>1. /\ fault = "none" /\ ref \in [tracked : SUBSET Addresses]
      /\ Books(rep, ref.tracked) /\ Alive(rep, ref.tracked) /\ Used(rep)
  BY DEF Tracker!Next, TrackerInv
<1>2. /\ rep \in TrackerReps /\ TableSound(rep.table) /\ ref.tracked \subseteq Addresses /\ 0 \notin Addresses
      /\ rep.heap \in TrackerHeaps /\ rep.usage \in Int
      /\ Cardinality(Tracker!Entries(rep)) \in Nat /\ Cardinality(Tracker!Entries(rep)) <= rep.live
      /\ rep.is_tracking => rep.impl /\ \A a \in Addresses : Has(rep.table, a) <=> a \in ref.tracked
      /\ ~rep.is_tracking => ref.tracked = {}
      /\ \A a \in ref.tracked : rep.heap[a] # Tracker!NoMemory
  BY <1>1, BucketFacts, EntriesFacts DEF Books, Alive, TrackerReps
<1>3. \A a \in Tracker!Free(rep) : a \in Addresses /\ a \notin ref.tracked
  BY <1>2 DEF Tracker!Free
<1>4. \A r \in TrackerReps, a \in Addresses \cup {0} : Tracker!system_alloc_size(r, a) \in Int
  BY DEF Tracker!system_alloc_size, Tracker!Hole, TrackerReps, TrackerHeaps
<1>5. ref.tracked \ {0} = ref.tracked
  BY <1>2
<1>6. CASE Tracker!allocate
  <2>1. PICK size \in 1 .. MaxSize, a \in Tracker!Free(rep) :
          LET r == Tracker!system_alloc(rep, a, size)
          IN  Tracker!Track([r EXCEPT !.usage = @ + Tracker!system_alloc_size(r, a)], a, 0)
    BY <1>6 DEF Tracker!allocate, Tracker!Hole
  <2> DEFINE r == Tracker!system_alloc(rep, a, size)
             usage == r.usage + Tracker!system_alloc_size(r, a)
             s == Charged(r, usage)
  <2>2. a \in Addresses /\ a \notin ref.tracked /\ size \in Int /\ size # 0
    BY <1>3
  <2>3. HeapOnly(r, rep) /\ r.usage = rep.usage /\ r.heap = [rep.heap EXCEPT ![a] = [size |-> size, mapped |-> FALSE]]
    BY <1>2, <2>2, AllocFacts
  <2>4. Tracker!Track(s, a, 0)
    BY <2>1 DEF Charged
  <2>5. usage = rep.usage + Tracker!Weight([size |-> size, mapped |-> FALSE])
    BY <1>2, <2>2, <2>3, BucketFacts DEF Tracker!system_alloc_size, Tracker!Weight, Tracker!Hole, TrackerHeaps
  <2> HIDE DEF r
  <2>6. r \in TrackerReps /\ usage \in Int
    <3>1. r \in TrackerReps /\ r.usage \in Int
      BY <2>3 DEF HeapOnly, TrackerReps
    <3> QED BY <1>4, <2>2, <3>1
  <2> HIDE DEF usage
  <2>7. HeapOnly(s, r) /\ s.heap = r.heap /\ s.usage = usage
    BY <2>6, ChargedFacts
  <2> HIDE DEF s
  <2>8. Books(s, ref.tracked) /\ Tracker!Recording(s) = Tracker!Recording(rep)
    BY <1>1, <2>3, <2>7, BooksKept
  <2>9. Alive(s, ref.tracked) /\ s.heap[a] # Tracker!NoMemory
    BY <1>2, <2>2, <2>3, <2>7 DEF Alive, TrackerHeaps, Tracker!NoMemory
  <2>10. Books(s, ref.tracked \ {0}) /\ Alive(s, ref.tracked \ {0}) /\ a \notin ref.tracked \ {0}
    BY <1>5, <2>2, <2>8, <2>9
  <2>11. Used(s)
    <3>1. rep.heap[a] = Tracker!NoMemory
      BY DEF Tracker!Free
    <3>2. s.heap \in TrackerHeaps
      BY <2>7 DEF HeapOnly, TrackerReps
    <3> QED BY <1>1, <1>2, <2>2, <2>3, <2>7, <2>5, <3>1, <3>2, UsedMore
  <2>12. /\ Books(rep', ref'.tracked) /\ Alive(rep', ref'.tracked) /\ ref' \in [tracked : SUBSET Addresses]
         /\ rep'.heap = s.heap /\ rep'.usage = s.usage
    BY <2>2, <2>4, <2>8, <2>9, <2>10, TrackStep
  <2> QED BY <2>11, <2>12, UsedSame
<1>7. CASE Tracker!allocate_large
  <2>1. PICK nbytes \in 1 .. MaxSize, a \in Tracker!Free(rep) :
          Tracker!Track([Tracker!system_alloc_large(rep, a, Tracker!Pages(nbytes))
                           EXCEPT !.usage = @ + Tracker!Pages(nbytes)], a, 0)
    BY <1>7 DEF Tracker!allocate_large, Tracker!Hole
  <2> DEFINE actual == Tracker!Pages(nbytes)
             r == Tracker!system_alloc_large(rep, a, actual)
             usage == r.usage + actual
             s == Charged(r, usage)
  <2>2. a \in Addresses /\ a \notin ref.tracked
    BY <1>3
  <2>3. actual \in Int
    <3>1. PageSize \in Nat /\ PageSize > 0 /\ nbytes \in Int
      BY DEF TrackerConstants
    <3>2. (nbytes + PageSize - 1) \div PageSize \in Int
      BY <3>1
    <3> QED BY <3>1, <3>2 DEF Tracker!Pages
  <2>4. Tracker!Track(s, a, 0)
    BY <2>1 DEF Charged
  <2> HIDE DEF actual
  <2>5. HeapOnly(r, rep) /\ r.usage = rep.usage /\ r.heap = [rep.heap EXCEPT ![a] = [size |-> actual, mapped |-> TRUE]]
    BY <1>2, <2>2, <2>3, LargeFacts
  <2> HIDE DEF r
  <2>6. r \in TrackerReps /\ usage \in Int
    BY <2>3, <2>5 DEF HeapOnly, TrackerReps
  <2>7. usage = rep.usage + Tracker!Weight([size |-> actual, mapped |-> TRUE])
    BY <2>5 DEF Tracker!Weight
  <2> HIDE DEF usage
  <2>8. HeapOnly(s, r) /\ s.heap = r.heap /\ s.usage = usage
    BY <2>6, ChargedFacts
  <2> HIDE DEF s
  <2>9. Books(s, ref.tracked) /\ Tracker!Recording(s) = Tracker!Recording(rep)
    BY <1>1, <2>5, <2>8, BooksKept
  <2>10. Alive(s, ref.tracked) /\ s.heap[a] # Tracker!NoMemory
    BY <1>2, <2>2, <2>5, <2>8 DEF Alive, TrackerHeaps, Tracker!NoMemory
  <2>11. Books(s, ref.tracked \ {0}) /\ Alive(s, ref.tracked \ {0}) /\ a \notin ref.tracked \ {0}
    BY <1>5, <2>2, <2>9, <2>10
  <2>12. Used(s)
    <3>1. rep.heap[a] = Tracker!NoMemory
      BY DEF Tracker!Free
    <3>2. s.heap \in TrackerHeaps
      BY <2>8 DEF HeapOnly, TrackerReps
    <3> QED BY <1>1, <1>2, <2>2, <2>5, <2>8, <2>7, <3>1, <3>2, UsedMore
  <2>13. /\ Books(rep', ref'.tracked) /\ Alive(rep', ref'.tracked) /\ ref' \in [tracked : SUBSET Addresses]
         /\ rep'.heap = s.heap /\ rep'.usage = s.usage
    BY <2>2, <2>4, <2>9, <2>10, <2>11, TrackStep
  <2> QED BY <2>12, <2>13, UsedSame
<1>8. CASE Tracker!reallocate
  <2>1. PICK old \in {a \in Addresses : ~rep.heap[a].mapped /\ rep.heap[a].size > 0} \cup {0} :
          LET off == Tracker!track_free([rep EXCEPT !.usage = @ - Tracker!system_alloc_size(rep, old)], old)
          IN  \/ \E size \in 1 .. MaxSize, a \in Tracker!Free(rep) \cup ({old} \ {0}) :
                   LET r == Tracker!system_alloc(Tracker!system_free(off, old), a, size)
                   IN  Tracker!Track([r EXCEPT !.usage = @ + Tracker!system_alloc_size(r, a)], a, old)
              \/ fault' = "out of memory"
    BY <1>8 DEF Tracker!reallocate, Tracker!Hole
  <2> DEFINE less == rep.usage - Tracker!system_alloc_size(rep, old)
             off == Tracker!track_free(Charged(rep, less), old)
             freed == Tracker!system_free(off, old)
             rest == ref.tracked \ {old}
  <2>2. old \in Addresses \cup {0}
    OBVIOUS
  <2>3. PICK size \in 1 .. MaxSize, a \in Tracker!Free(rep) \cup ({old} \ {0}) :
          LET r == Tracker!system_alloc(freed, a, size)
          IN  Tracker!Track([r EXCEPT !.usage = @ + Tracker!system_alloc_size(r, a)], a, old)
    BY <2>1 DEF Charged
  <2> DEFINE r == Tracker!system_alloc(freed, a, size)
             usage == r.usage + Tracker!system_alloc_size(r, a)
             s == Charged(r, usage)
  <2>4. Tracker!Track(s, a, old)
    BY <2>3 DEF Charged
  <2>5. a \in Addresses /\ a \notin rest /\ size \in Int /\ size # 0
    BY <1>3, <2>2
  <2>6. ~Tracker!FreeIsLost(old)
    BY <2>4, Zenon DEF Tracker!Track
  <2>7. less \in Int
    BY <1>2, <1>4, <2>2
  <2>8. less = rep.usage - IF old = 0 THEN 0 ELSE Tracker!Weight(rep.heap[old])
    <3>1. CASE old = 0
      BY <1>2, <3>1 DEF Tracker!system_alloc_size, Tracker!Hole
    <3>2. CASE old # 0
      <4>1. old \in Addresses /\ ~rep.heap[old].mapped
        BY <3>2
      <4> QED BY <3>2, <4>1 DEF Tracker!system_alloc_size, Tracker!Hole, Tracker!Weight
    <3> QED BY <3>1, <3>2
  <2> HIDE DEF less
  <2>9. HeapOnly(Charged(rep, less), rep) /\ Charged(rep, less).heap = rep.heap /\ Charged(rep, less).usage = less
    BY <1>2, <2>7, ChargedFacts
  <2>10. Books(Charged(rep, less), ref.tracked) /\ Tracker!Recording(Charged(rep, less)) = Tracker!Recording(rep)
    BY <1>1, <2>9, BooksKept
  <2>11. Tracker!Entries(Charged(rep, less)) = Tracker!Entries(rep)
    BY <2>9 DEF HeapOnly, Tracker!Entries
  <2>12. ~(rep.is_tracking /\ rep.is_paused /\ old \in Tracker!Entries(rep))
    BY <2>6 DEF Tracker!FreeIsLost
  <2>13. Books(off, rest) /\ SameButTable(off, Charged(rep, less))
    BY <2>2, <2>9, <2>10, <2>11, <2>12, FreeStep DEF HeapOnly
  <2> HIDE DEF off, rest
  <2>14. off \in TrackerReps /\ Tracker!Recording(off) = Tracker!Recording(rep)
    BY <2>9, <2>13 DEF Books, SameButTable, HeapOnly, Tracker!Recording
  <2>15. HeapOnly(freed, off) /\ freed.usage = less /\ freed.heap = [x \in Addresses |-> IF x = old THEN Tracker!NoMemory ELSE rep.heap[x]]
    BY <2>9, <2>13, <2>14, FreedFacts DEF SameButTable
  <2> HIDE DEF freed
  <2>16. Used(freed)
    <3>1. freed.heap \in TrackerHeaps
      BY <2>15 DEF HeapOnly, TrackerReps
    <3> QED BY <1>1, <1>2, <2>2, <2>15, <2>8, <3>1, UsedLess
  <2>17. HeapOnly(r, freed) /\ r.usage = less /\ r.heap = [freed.heap EXCEPT ![a] = [size |-> size, mapped |-> FALSE]]
    BY <2>5, <2>15, AllocFacts DEF HeapOnly
  <2>18. usage = less + Tracker!Weight([size |-> size, mapped |-> FALSE])
    <3>1. a # 0 /\ r.heap[a] = [size |-> size, mapped |-> FALSE]
      <4>1. freed.heap \in [Addresses -> {freed.heap[x] : x \in Addresses}]
        BY <2>15
      <4> QED BY <1>2, <2>5, <2>17, <4>1
    <3> HIDE DEF r
    <3> QED BY <2>17, <3>1 DEF Tracker!system_alloc_size, Tracker!Weight, Tracker!Hole
  <2> HIDE DEF r
  <2>19. r \in TrackerReps /\ r.usage \in Int
    BY <2>17 DEF HeapOnly, TrackerReps
  <2>20. usage \in Int
    BY <1>4, <2>5, <2>19
  <2> HIDE DEF usage
  <2>21. HeapOnly(s, r) /\ s.heap = r.heap /\ s.usage = usage
    BY <2>19, <2>20, ChargedFacts
  <2> HIDE DEF s
  <2>22. Books(freed, rest) /\ Tracker!Recording(freed) = Tracker!Recording(rep)
    BY <2>13, <2>14, <2>15, BooksKept
  <2>23. Books(r, rest) /\ Tracker!Recording(r) = Tracker!Recording(rep)
    BY <2>17, <2>22, BooksKept
  <2>24. Books(s, rest) /\ Tracker!Recording(s) = Tracker!Recording(rep)
    BY <2>21, <2>23, BooksKept
  <2>25. Alive(s, rest) /\ s.heap[a] # Tracker!NoMemory
    <3>1. \A c \in rest : c \in Addresses /\ c # old /\ c # a /\ rep.heap[c] # Tracker!NoMemory
      BY <1>2, <2>5 DEF rest
    <3>2. s.heap[a] = [size |-> size, mapped |-> FALSE] /\ \A c \in rest : s.heap[c] = rep.heap[c]
      BY <2>5, <2>15, <2>17, <2>21, <3>1
    <3> QED BY <2>5, <3>1, <3>2 DEF Alive, Tracker!NoMemory
  <2>26. Books(s, ref.tracked \ {old}) /\ Alive(s, ref.tracked \ {old}) /\ a \notin ref.tracked \ {old}
    BY <2>5, <2>24, <2>25 DEF rest
  <2>27. a \in Addresses /\ s.heap[a] # Tracker!NoMemory /\ Tracker!Recording(s) = Tracker!Recording(rep)
    BY <2>5, <2>24, <2>25
  <2>28. Used(s)
    <3>1. freed.heap[a] = Tracker!NoMemory
      BY <1>2, <2>5, <2>15 DEF Tracker!Free
    <3>2. s.heap \in TrackerHeaps /\ freed.heap \in TrackerHeaps
      BY <2>15, <2>21 DEF HeapOnly, TrackerReps
    <3> QED BY <2>5, <2>15, <2>17, <2>21, <2>16, <2>18, <3>1, <3>2, UsedMore
  <2>29. /\ Books(rep', ref'.tracked) /\ Alive(rep', ref'.tracked) /\ ref' \in [tracked : SUBSET Addresses]
         /\ rep'.heap = s.heap /\ rep'.usage = s.usage
    BY <2>4, <2>26, <2>27, TrackStep
  <2> QED BY <2>28, <2>29, UsedSame
<1>9. CASE Tracker!free
  <2>1. PICK a \in Addresses :
          /\ ~rep.heap[a].mapped
          /\ rep' = Tracker!system_free(
               Tracker!track_free([rep EXCEPT !.usage = @ - Tracker!system_alloc_size(rep, a)], a), a)
          /\ ref' = [tracked |-> ref.tracked \ {a}]
          /\ fault' = IF Tracker!FreeIsLost(a) THEN "free while paused" ELSE fault
    BY <1>9 DEF Tracker!free
  <2> DEFINE less == rep.usage - Tracker!system_alloc_size(rep, a)
             off == Tracker!track_free(Charged(rep, less), a)
             rest == ref.tracked \ {a}
  <2>2. rep' = Tracker!system_free(off, a)
    BY <2>1 DEF Charged
  <2>3. ~(rep.is_tracking /\ rep.is_paused /\ a \in Tracker!Entries(rep))
    BY <2>1 DEF Tracker!FreeIsLost
  <2>4. less \in Int
    BY <1>2, <1>4
  <2>5. less = rep.usage - Tracker!Weight(rep.heap[a]) /\ a # 0
    BY <1>2, <2>1 DEF Tracker!system_alloc_size, Tracker!Hole, Tracker!Weight
  <2> HIDE DEF less
  <2>6. HeapOnly(Charged(rep, less), rep) /\ Charged(rep, less).heap = rep.heap /\ Charged(rep, less).usage = less
    BY <1>2, <2>4, ChargedFacts
  <2>7. Books(Charged(rep, less), ref.tracked)
    BY <1>1, <2>6, BooksKept
  <2>8. Tracker!Entries(Charged(rep, less)) = Tracker!Entries(rep)
    BY <2>6 DEF HeapOnly, Tracker!Entries
  <2>9. Books(off, rest) /\ SameButTable(off, Charged(rep, less))
    BY <2>3, <2>6, <2>7, <2>8, FreeStep DEF HeapOnly
  <2> HIDE DEF off
  <2>10. HeapOnly(rep', off) /\ rep'.usage = off.usage /\ rep'.heap = [x \in Addresses |-> IF x = a THEN Tracker!NoMemory ELSE off.heap[x]]
    BY <2>2, <2>9, FreedFacts DEF Books
  <2>11. Books(rep', rest)
    BY <2>9, <2>10, BooksKept
  <2>12. Alive(rep', rest)
    BY <1>2, <2>6, <2>9, <2>10 DEF Alive, SameButTable
  <2>13. ref'.tracked = rest /\ ref' \in [tracked : SUBSET Addresses]
    BY <1>2, <2>1
  <2>14. Used(rep')
    <3>1. rep'.heap \in TrackerHeaps /\ rep'.usage = less
          /\ rep'.heap = [x \in Addresses |-> IF x = a THEN Tracker!NoMemory ELSE rep.heap[x]]
      BY <2>6, <2>9, <2>10 DEF HeapOnly, TrackerReps, SameButTable
    <3> QED BY <1>1, <1>2, <2>5, <3>1, UsedLess
  <2> HIDE DEF rest
  <2> QED BY <2>11, <2>12, <2>13, <2>14
<1>10. CASE Tracker!free_large
  <2>1. PICK a \in Addresses :
          /\ rep.heap[a].mapped
          /\ rep' = Tracker!track_free(Tracker!system_free([rep EXCEPT !.usage = @ - rep.heap[a].size], a), a)
          /\ ref' = [tracked |-> ref.tracked \ {a}]
          /\ fault' = IF Tracker!FreeIsLost(a) THEN "free while paused" ELSE fault
    BY <1>10 DEF Tracker!free_large
  <2> DEFINE less == rep.usage - rep.heap[a].size
             freed == Tracker!system_free(Charged(rep, less), a)
             rest == ref.tracked \ {a}
  <2>2. rep' = Tracker!track_free(freed, a)
    BY <2>1 DEF Charged
  <2>3. ~(rep.is_tracking /\ rep.is_paused /\ a \in Tracker!Entries(rep))
    BY <2>1 DEF Tracker!FreeIsLost
  <2>4. less \in Int
    BY <1>2 DEF TrackerHeaps
  <2>5. less = rep.usage - Tracker!Weight(rep.heap[a]) /\ a # 0
    BY <1>2, <2>1 DEF Tracker!Weight
  <2> HIDE DEF less
  <2>6. HeapOnly(Charged(rep, less), rep) /\ Charged(rep, less).heap = rep.heap /\ Charged(rep, less).usage = less
    BY <1>2, <2>4, ChargedFacts
  <2>7. HeapOnly(freed, Charged(rep, less)) /\ freed.usage = less
        /\ freed.heap = [x \in Addresses |-> IF x = a THEN Tracker!NoMemory ELSE rep.heap[x]]
    BY <2>6, FreedFacts DEF HeapOnly
  <2> HIDE DEF freed
  <2>8. Books(freed, ref.tracked)
    BY <1>1, <2>6, <2>7, BooksKept
  <2>9. Tracker!Entries(freed) = Tracker!Entries(rep) /\ freed.is_tracking = rep.is_tracking
        /\ freed.is_paused = rep.is_paused
    BY <2>6, <2>7 DEF HeapOnly, Tracker!Entries
  <2>10. Books(rep', rest) /\ SameButTable(rep', freed)
    <3>1. Books(Tracker!track_free(freed, a), ref.tracked \ {a}) /\ SameButTable(Tracker!track_free(freed, a), freed)
      BY <2>3, <2>8, <2>9, FreeStep
    <3> QED BY <2>2, <3>1
  <2>11. Alive(rep', rest)
    BY <1>2, <2>7, <2>10 DEF Alive, SameButTable
  <2>12. ref'.tracked = rest /\ ref' \in [tracked : SUBSET Addresses]
    BY <1>2, <2>1
  <2>13. Used(rep')
    <3>1. rep'.heap \in TrackerHeaps /\ rep'.usage = less
          /\ rep'.heap = [x \in Addresses |-> IF x = a THEN Tracker!NoMemory ELSE rep.heap[x]]
      BY <2>7, <2>10 DEF Books, TrackerReps, SameButTable
    <3> QED BY <1>1, <1>2, <2>5, <3>1, UsedLess
  <2> HIDE DEF rest
  <2> QED BY <2>10, <2>11, <2>12, <2>13
<1>11. CASE Tracker!start_allocation_tracking
  <2>1. /\ rep' = Tracker!start(rep)
        /\ ref' = IF rep.is_paused THEN ref ELSE [tracked |-> {}]
        /\ ~(rep.is_paused /\ ~rep.is_tracking)
    BY <1>11 DEF Tracker!start_allocation_tracking
  <2>2. /\ rep' \in TrackerReps /\ rep'.impl /\ rep'.is_tracking /\ KeepsHeap(rep', rep)
        /\ rep'.table = IF rep.is_paused THEN rep.table ELSE Tracker!EmptyTable
    BY <1>2, <2>1, SwitchFacts
  <2>3. Used(rep')
    BY <1>1, <2>2, UsedSame DEF KeepsHeap
  <2>4. CASE rep.is_paused
    <3>1. rep'.table = rep.table /\ ref' = ref /\ rep.is_tracking
      BY <2>1, <2>2, <2>4
    <3>2. Tracker!Entries(rep') = Tracker!Entries(rep)
      BY <3>1, SameEntries
    <3>3. rep'.heap = rep.heap /\ rep'.live = rep.live
      BY <2>2 DEF KeepsHeap
    <3>4. Books(rep', ref.tracked) /\ Alive(rep', ref.tracked)
      BY <1>2, <2>2, <3>1, <3>2, <3>3 DEF Books, Alive
    <3> QED BY <1>1, <2>3, <3>1, <3>4
  <2>5. CASE ~rep.is_paused
    <3>1. rep'.table = Tracker!EmptyTable /\ ref'.tracked = {} /\ ref' \in [tracked : SUBSET Addresses]
      BY <2>1, <2>2, <2>5
    <3>2. Cardinality(Tracker!Entries(rep')) <= rep'.live
      <4>1. Cardinality(Tracker!Entries(rep')) = 0 /\ rep'.live = rep.live
        BY <2>2, <3>1, EmptyTableFacts DEF KeepsHeap
      <4>2. rep.live \in Int
        BY <1>2 DEF TrackerReps
      <4> QED BY <1>2, <4>1, <4>2
    <3>3. TableSound(rep'.table) /\ \A a \in Addresses : ~Has(rep'.table, a)
      BY <3>1, EmptyTableFacts
    <3>4. Books(rep', {}) /\ Alive(rep', {})
      BY <2>2, <3>2, <3>3 DEF Books, Alive
    <3> QED BY <2>3, <3>1, <3>4
  <2> QED BY <2>4, <2>5
<1>12. CASE Tracker!pause_allocation_tracking \/ Tracker!unpause_allocation_tracking
  <2>1. (rep' = Tracker!pause(rep) \/ rep' = Tracker!unpause(rep)) /\ ref' = ref
    BY <1>12 DEF Tracker!pause_allocation_tracking, Tracker!unpause_allocation_tracking
  <2>2. /\ rep' \in TrackerReps /\ KeepsHeap(rep', rep) /\ rep'.table = rep.table /\ rep'.impl = rep.impl
        /\ rep'.is_tracking = rep.is_tracking
    <3>1. CASE rep' = Tracker!pause(rep)
      BY <1>2, <3>1, SwitchFacts, Zenon
    <3>2. CASE rep' = Tracker!unpause(rep)
      BY <1>2, <3>2, SwitchFacts, Zenon
    <3> QED BY <2>1, <3>1, <3>2
  <2>3. Used(rep')
    BY <1>1, <2>2, UsedSame DEF KeepsHeap
  <2> QED BY <1>1, <1>2, <2>1, <2>2, <2>3, SameEntries DEF Books, Alive, KeepsHeap
<1>13. CASE Tracker!finish_allocation_tracking
  <2>1. rep' = Tracker!stop(rep) /\ ref' = [tracked |-> {}]
    BY <1>13 DEF Tracker!finish_allocation_tracking
  <2>2. rep' \in TrackerReps /\ KeepsHeap(rep', rep) /\ rep'.table = rep.table /\ ~rep'.is_tracking
    BY <1>2, <2>1, SwitchFacts
  <2>3. ref'.tracked = {} /\ ref' \in [tracked : SUBSET Addresses]
    BY <2>1
  <2>4. Used(rep')
    BY <1>1, <2>2, UsedSame DEF KeepsHeap
  <2> QED BY <1>2, <2>2, <2>3, <2>4, SameEntries DEF Books, Alive, KeepsHeap
<1>14. CASE Tracker!display_backtrace_for_allocation
  BY <1>14 DEF Tracker!display_backtrace_for_allocation
<1> QED BY <1>6, <1>7, <1>8, <1>9, <1>10, <1>11, <1>12, <1>13, <1>14 DEF Tracker!Next

(* The usage is the size of what is allocated, no address has two slots,    *)
(* and the counter of the tracker never falls below the number of entries,  *)
(* so that it is not negative, though start does not reset it.              *)
(* While it is tracking and until a call meets a fault, the tracker has     *)
(* exactly the allocations that were made under its eyes and are alive,     *)
(* whatever was allocated, moved, freed, paused and started in between.     *)
THEOREM TrackerHolds ==
  TrackerConstants => (Tracker!Spec => [](Tracker!ObjectsSound /\ Tracker!Represents))
<1> SUFFICES ASSUME TrackerConstants
             PROVE  Tracker!Spec => [](Tracker!ObjectsSound /\ Tracker!Represents)
  OBVIOUS
<1>1. Tracker!Init => TrackerInv
  <2> SUFFICES ASSUME Tracker!Init
               PROVE  TrackerInv
    OBVIOUS
  <2>1. TableSound(Tracker!EmptyTable) /\ Tracker!NoMemory \in [size : Int, mapped : BOOLEAN]
    BY EmptyTableFacts DEF Tracker!NoMemory
  <2>2. Tracker!EmptyTable \in TrackerTables
    BY <2>1 DEF TableSound
  <2>3. rep \in TrackerReps /\ rep.table = Tracker!EmptyTable /\ ~rep.is_tracking
    BY <2>1, <2>2 DEF Tracker!Init, TrackerReps, TrackerHeaps
  <2>4. ref.tracked = {} /\ ref \in [tracked : SUBSET Addresses]
    BY DEF Tracker!Init
  <2>5. Cardinality(Tracker!Entries(rep)) <= rep.live
    BY <2>3, EmptyTableFacts DEF Tracker!Init
  <2>6. Used(rep)
    <3>1. rep.usage = 0 /\ rep.heap \in TrackerHeaps /\ \A a \in Addresses : rep.heap[a] = Tracker!NoMemory
      BY <2>3 DEF Tracker!Init, TrackerReps
    <3> QED BY <3>1, SizesNone, SizesSum DEF Used
  <2> QED BY <2>1, <2>3, <2>4, <2>5, <2>6 DEF TrackerInv, Books, Alive
<1>2. TrackerInv /\ [Tracker!Next]_Tracker!vars => TrackerInv'
  <2>1. ASSUME TrackerInv, Tracker!Next
        PROVE  TrackerInv'
    <3>1. CASE fault' = "none"
      <4>1. ref' \in [tracked : SUBSET Addresses] /\ Books(rep', ref'.tracked) /\ Alive(rep', ref'.tracked) /\ Used(rep')
        BY <2>1, <3>1, TrackerStep
      <4> QED
        BY <4>1 DEF TrackerInv, Books, Alive, TrackerReps, TrackerHeaps, TrackerTables, TableSound, Has, Tracker!NoMemory
    <3>2. CASE fault' # "none"
      BY <3>2 DEF TrackerInv
    <3> QED BY <3>1, <3>2
  <2>2. CASE UNCHANGED Tracker!vars
    BY <2>2 DEF Tracker!vars, TrackerInv, Books, Alive, TrackerReps, TrackerHeaps, TrackerTables, TableSound, Has,
                Tracker!NoMemory
  <2> QED BY <2>1, <2>2
<1>3. ASSUME TrackerInv, fault = "none", rep.is_tracking
      PROVE  /\ Tracker!get_results(rep) = ref.tracked
             /\ \A a \in Addresses : Tracker!get_allocation(rep, a) <=> a \in ref.tracked
  <2>1. /\ rep \in TrackerReps /\ TableSound(rep.table) /\ ref.tracked \subseteq Addresses
        /\ rep.impl /\ \A a \in Addresses : Has(rep.table, a) <=> a \in ref.tracked
    BY <1>3 DEF TrackerInv, Books
  <2>2. /\ Tracker!Entries(rep) = {a \in Addresses : Has(rep.table, a)}
        /\ \A a \in Addresses : Tracker!get_allocation(rep, a) <=> Has(rep.table, a)
    BY <2>1, EntriesFacts
  <2>3. Tracker!Entries(rep) = ref.tracked
    BY <2>1, <2>2
  <2> QED BY <2>1, <2>2, <2>3 DEF Tracker!get_results
<1>4. TrackerInv => Tracker!Represents
  BY <1>3 DEF Tracker!Represents
<1>5. TrackerInv => Tracker!ObjectsSound
  <2> SUFFICES ASSUME TrackerInv, fault = "none"
               PROVE  /\ rep.usage = Tracker!Sizes(rep)
                      /\ Tracker!Cardinality(Tracker!Entries(rep)) <= rep.live
                      /\ \A b \in DOMAIN rep.table : \A i, j \in 1 .. BucketSlots :
                            rep.table[b][i] = rep.table[b][j] /\ rep.table[b][i] # Tracker!Hole => i = j
    BY DEF Tracker!ObjectsSound
  <2>1. /\ rep \in TrackerReps /\ TableSound(rep.table) /\ Used(rep)
        /\ Cardinality(Tracker!Entries(rep)) <= rep.live
    BY DEF TrackerInv, Books
  <2>2. Tracker!Cardinality(Tracker!Entries(rep)) = Cardinality(Tracker!Entries(rep))
    BY Zenon DEF Tracker!Cardinality, Cardinality
  <2>3. \A b \in DOMAIN rep.table : \A i, j \in 1 .. BucketSlots :
            rep.table[b][i] = rep.table[b][j] /\ rep.table[b][i] # Tracker!Hole => i = j
    <3>1. DOMAIN rep.table = 0 .. Buckets - 1
      BY <2>1 DEF TableSound, TrackerTables
    <3> QED BY <2>1, <3>1 DEF TableSound, Tracker!Hole
  <2> QED BY <2>1, <2>2, <2>3 DEF Used
<1>6. TrackerInv => Tracker!ObjectsSound /\ Tracker!Represents
  BY <1>4, <1>5
<1> QED
  BY <1>1, <1>2, <1>6, PTL DEF Tracker!Spec
-----------------------------------------------------------------------------
(* FixedAllocator and Bag. The free list is a sequence of blocks, none of   *)
(* them twice and none of them in the bag.                                  *)
FixedConstants == IsFiniteSet(Blocks) /\ 0 \notin Blocks

FixedReps == [free_list : Blocks \cup {0}, next : [Blocks -> Blocks \cup {0}], usage : Int, elements : Seq(Blocks)]

Listed(r, c) == Single(c, Blocks) /\ LinkedFrom(r.free_list, r.next, c)

FixedOf(r, c) ==
    /\ r \in FixedReps /\ Listed(r, c) /\ Single(r.elements, Blocks)
    /\ Members(c) \cap Members(r.elements) = {} /\ r.usage = Len(r.elements)

Accounted(r, c, a) ==
    \E lost : /\ a = [bag |-> Members(r.elements), base |-> Members(c) \cup Members(r.elements) \cup lost, lost |-> lost]
              /\ lost \cap (Members(c) \cup Members(r.elements)) = {}

FixedInv == fault = "none" => \E c : FixedOf(rep, c) /\ Accounted(rep, c, ref)

(* Link by link the walk meets them all. *)
LEMMA ChainMembers ==
  ASSUME FixedConstants, NEW r, NEW c, Listed(r, c)
  PROVE  FixedAllocator!Chain(r) = Members(c)
<1> DEFINE N == FixedAllocator!Cardinality(Blocks)
<1>1. FixedAllocator!Chain(r) = Walk(r.free_list, r.next, N)
  BY Zenon DEF FixedAllocator!Chain, FixedAllocator!Null, Walk
<1>2. N = Cardinality(Blocks)
  BY Zenon DEF FixedAllocator!Cardinality, Cardinality
<1>3. N \in Nat /\ Len(c) <= N
  <2> HIDE DEF N
  <2> QED BY <1>2, SingleFacts DEF Listed, FixedConstants
<1> HIDE DEF N
<1>4. Walk(r.free_list, r.next, N) = Members(c)
  BY <1>3, WalkFacts DEF Listed, FixedConstants
<1> QED BY <1>1, <1>4

(* free puts a block in front of the list. *)
LEMMA FreedBlock ==
  ASSUME FixedConstants, NEW r \in FixedReps, NEW c, Listed(r, c), NEW b \in Blocks, b \notin Members(c)
  PROVE  /\ FixedAllocator!free(r, b) \in FixedReps /\ Listed(FixedAllocator!free(r, b), <<b>> \o c)
         /\ Members(<<b>> \o c) = Members(c) \cup {b}
         /\ FixedAllocator!free(r, b).usage = r.usage - 1 /\ FixedAllocator!free(r, b).elements = r.elements
<1> DEFINE s == FixedAllocator!free(r, b)
           then == [r.next EXCEPT ![b] = r.free_list]
<1>1. s = [r EXCEPT !.usage = @ - 1, !.next[b] = r.free_list, !.free_list = b]
  BY DEF FixedAllocator!free
<1>2. /\ r.next \in [Blocks -> Blocks \cup {0}] /\ r.free_list \in Blocks \cup {0}
      /\ r.usage \in Int /\ r.usage - 1 \in Int /\ r.elements \in Seq(Blocks)
  BY DEF FixedReps
<1> HIDE DEF s
<1>3. s = [free_list |-> b, next |-> then, usage |-> r.usage - 1, elements |-> r.elements]
  BY <1>1 DEF FixedReps
<1>4. then \in [Blocks -> Blocks \cup {0}] /\ then[b] = r.free_list /\ \A x \in Blocks : x # b => then[x] = r.next[x]
  BY <1>2
<1> HIDE DEF then
<1>5. /\ s \in FixedReps /\ s.free_list = b /\ s.next = then /\ s.usage = r.usage - 1 /\ s.elements = r.elements
  BY <1>2, <1>3, <1>4 DEF FixedReps
<1>6. Single(<<b>> \o c, Blocks) /\ LinkedFrom(b, then, <<b>> \o c) /\ Members(<<b>> \o c) = Members(c) \cup {b}
  BY <1>4, LinkedInFront DEF Listed
<1>7. Listed(s, <<b>> \o c)
  BY <1>5, <1>6 DEF Listed
<1> QED BY <1>5, <1>6, <1>7 DEF s

(* clear frees the blocks of the bag one by one: after n of them the list   *)
(* has these too.                                                           *)
Emptied(r, c, n) ==
    {s \in FixedReps : /\ s.elements = r.elements /\ s.usage = r.usage - n
                       /\ \E d : Listed(s, d) /\ Members(d) = Members(c) \cup {r.elements[i] : i \in 1 .. n}}

LEMMA EmptiedNext ==
  ASSUME FixedConstants, NEW r, NEW c, FixedOf(r, c), NEW n \in 1 .. Len(r.elements), NEW s \in Emptied(r, c, n - 1)
  PROVE  FixedAllocator!free(s, r.elements[n]) \in Emptied(r, c, n)
<1> DEFINE e == r.elements
           t == FixedAllocator!free(s, e[n])
<1>1. /\ e \in Seq(Blocks) /\ Len(e) \in Nat /\ \A i, j \in 1 .. Len(e) : e[i] = e[j] => i = j
      /\ Members(c) \cap Members(e) = {} /\ r.usage = Len(e) /\ e[n] \in Blocks
  BY DEF FixedOf, Single
<1>2. s \in FixedReps /\ s.elements = e /\ s.usage = r.usage - (n - 1)
  BY DEF Emptied
<1>3. PICK d : Listed(s, d) /\ Members(d) = Members(c) \cup {e[i] : i \in 1 .. n - 1}
  BY DEF Emptied
<1> HIDE DEF e
<1>4. e[n] \notin Members(d)
  <2>1. e[n] \notin Members(c)
    BY <1>1 DEF Members, e
  <2>2. \A i \in 1 .. n - 1 : i \in 1 .. Len(e) /\ i # n /\ n \in 1 .. Len(e)
    BY <1>1 DEF e
  <2>3. \A i \in 1 .. n - 1 : e[i] # e[n]
    BY <1>1, <2>2
  <2> QED BY <1>3, <2>1, <2>3
<1>5. /\ t \in FixedReps /\ Listed(t, <<e[n]>> \o d) /\ Members(<<e[n]>> \o d) = Members(d) \cup {e[n]}
      /\ t.usage = s.usage - 1 /\ t.elements = s.elements
  BY <1>1, <1>2, <1>3, <1>4, FreedBlock
<1> HIDE DEF t
<1>6. {e[i] : i \in 1 .. n - 1} \cup {e[n]} = {e[i] : i \in 1 .. n}
  <2>1. \A i : i \in 1 .. n <=> i \in 1 .. n - 1 \/ i = n
    BY <1>1 DEF e
  <2> QED BY <2>1
<1>7. t.usage = r.usage - n
  BY <1>1, <1>2, <1>5
<1>8. Members(<<e[n]>> \o d) = Members(c) \cup {e[i] : i \in 1 .. n}
  BY <1>3, <1>5, <1>6
<1>9. t \in Emptied(r, c, n)
  BY <1>2, <1>5, <1>7, <1>8 DEF Emptied, e
<1> QED BY <1>9 DEF t, e

LEMMA ClearedFacts ==
  ASSUME FixedConstants, NEW r, NEW c, FixedOf(r, c)
  PROVE  \E d : /\ FixedOf(FixedAllocator!clear(r), d) /\ FixedAllocator!clear(r).elements = <<>>
                /\ Members(d) = Members(c) \cup Members(r.elements)
<1> DEFINE e == r.elements
           N == Len(e)
           G == [n \in 0 .. N |-> Emptied(r, c, n)]
           step == [x \in (1 .. N) \X FixedReps |-> FixedAllocator!free(x[2], e[x[1]])]
           freed[n \in 0 .. N] == IF n = 0 THEN r ELSE FixedAllocator!free(freed[n - 1], e[n])
<1>1. FixedAllocator!clear(r) = [freed[N] EXCEPT !.elements = <<>>]
  BY Zenon DEF FixedAllocator!clear
<1> HIDE DEF freed
<1>2. r \in FixedReps /\ Listed(r, c) /\ e \in Seq(Blocks) /\ N \in Nat /\ r.usage = N
  BY DEF FixedOf, Single
<1>3. \A n \in 0 .. N : G[n] = Emptied(r, c, n) /\ G[n] \subseteq FixedReps
  BY DEF Emptied
<1>4. \A n \in 1 .. N : n \in 0 .. N /\ n - 1 \in 0 .. N /\ n # 0
  BY <1>2
<1>5. \A n \in 1 .. N, s \in FixedReps : step[<<n, s>>] = FixedAllocator!free(s, e[n])
  OBVIOUS
<1> HIDE DEF step
<1>6. r \in G[0]
  <2>1. 0 \in 0 .. N /\ {e[i] : i \in 1 .. 0} = {} /\ r.usage - 0 = r.usage
    BY <1>2
  <2> QED BY <1>2, <1>3, <2>1 DEF Emptied
<1> HIDE DEF G
<1>7. ASSUME NEW n \in 1 .. N, NEW s \in G[n - 1]
      PROVE  s \in FixedReps /\ FixedAllocator!free(s, e[n]) \in G[n]
  <2>1. s \in Emptied(r, c, n - 1) /\ s \in FixedReps
    BY <1>3, <1>4, <1>7
  <2> QED BY <1>3, <1>4, <2>1, EmptiedNext
<1>8. LoopSteps(N, FixedReps, G, r, step)
  BY <1>2, <1>3, <1>5, <1>6, <1>7 DEF LoopSteps
<1>9. PICK f \in [0 .. N -> FixedReps] : f[0] = r /\ \A n \in 1 .. N : f[n] = step[<<n, f[n - 1]>>]
  BY <1>8, Recursion DEF LoopRuns
<1>10. freed = [n \in 0 .. N |-> IF n = 0 THEN r ELSE FixedAllocator!free(freed[n - 1], e[n])]
  <2>1. \A n \in 1 .. N : f[n] = FixedAllocator!free(f[n - 1], e[n])
    BY <1>4, <1>5, <1>9
  <2>2. \A n \in 0 .. N : n = 0 \/ n \in 1 .. N
    BY <1>2
  <2>3. \A n \in 0 .. N : f[n] = IF n = 0 THEN r ELSE FixedAllocator!free(f[n - 1], e[n])
    BY <1>4, <1>9, <2>1, <2>2
  <2>4. f = [n \in 0 .. N |-> f[n]]
    BY <1>9
  <2>5. f = [n \in 0 .. N |-> IF n = 0 THEN r ELSE FixedAllocator!free(f[n - 1], e[n])]
    BY <2>3, <2>4
  <2> QED BY <2>5, Zenon DEF freed
<1>11. freed[N] \in G[N]
  <2>1. freed[0] \in G[0]
    BY <1>2, <1>6, <1>10
  <2>2. ASSUME NEW n \in 0 .. N - 1, freed[n] \in G[n]
        PROVE  freed[n + 1] \in G[n + 1]
    <3>1. n + 1 \in 1 .. N /\ n + 1 \in 0 .. N /\ (n + 1) - 1 = n /\ n + 1 # 0
      BY <1>2
    <3>2. freed[n + 1] = FixedAllocator!free(freed[n], e[n + 1])
      BY <1>10, <3>1
    <3> QED BY <1>7, <2>2, <3>1, <3>2
  <2>3. \A n \in 0 .. N : freed[n] \in G[n]
    BY <1>2, <2>1, <2>2, LoopInduction
  <2> QED BY <1>2, <2>3
<1> DEFINE t == freed[N]
           u == [t EXCEPT !.elements = <<>>]
<1>12. t \in FixedReps /\ t.usage = r.usage - N
  BY <1>2, <1>3, <1>11 DEF Emptied
<1>13. PICK d : Listed(t, d) /\ Members(d) = Members(c) \cup Members(e)
  <2>1. N \in 0 .. N
    BY <1>2
  <2>2. t \in Emptied(r, c, N)
    BY <1>3, <1>11, <2>1
  <2> QED BY <2>2 DEF Emptied, Members
<1> HIDE DEF t
<1>14. u \in FixedReps /\ u.elements = <<>> /\ u.usage = 0 /\ u.free_list = t.free_list /\ u.next = t.next
  <2>1. t = [free_list |-> t.free_list, next |-> t.next, usage |-> 0, elements |-> t.elements]
        /\ t.free_list \in Blocks \cup {0} /\ t.next \in [Blocks -> Blocks \cup {0}] /\ t.usage = 0
    BY <1>2, <1>12 DEF FixedReps
  <2>2. u = [free_list |-> t.free_list, next |-> t.next, usage |-> 0, elements |-> <<>>] /\ <<>> \in Seq(Blocks)
    BY <2>1
  <2> HIDE DEF u
  <2> QED BY <2>1, <2>2 DEF FixedReps
<1> HIDE DEF u
<1>15. Single(<<>>, Blocks) /\ Members(<<>>) = {} /\ Len(<<>>) = 0
  BY DEF Single, Members
<1>16. Listed(u, d)
  BY <1>13, <1>14 DEF Listed
<1>17. FixedOf(u, d)
  BY <1>14, <1>15, <1>16 DEF FixedOf
<1> QED BY <1>1, <1>13, <1>14, <1>17 DEF t, u

(* allocate with an empty list takes a block from the base allocator; else  *)
(* it hands out the second block and the first is nobody's.                 *)
Kept(c) == IF Len(c) = 0 THEN c ELSE SubSeq(c, 3, Len(c))

LEMMA AllocatedFacts ==
  ASSUME FixedConstants, NEW r, NEW c, FixedOf(r, c), NEW b \in Blocks,
         IF Len(c) = 0 THEN b \notin Members(r.elements) ELSE Len(c) > 1 /\ b = c[2]
  PROVE  LET s == FixedAllocator!Allocated(r, b)
         IN  /\ s \in FixedReps /\ s.usage = r.usage + 1 /\ s.elements = r.elements /\ Listed(s, Kept(c))
             /\ Len(c) # 0 => Members(c) = Members(Kept(c)) \cup {c[1], b} /\ c[1] # b /\ c[1] \notin Members(Kept(c))
             /\ b \notin Members(Kept(c))
<1> DEFINE s == FixedAllocator!Allocated(r, b)
           head == IF r.free_list = 0 THEN 0 ELSE r.next[b]
<1>1. /\ r \in FixedReps /\ c \in Seq(Blocks) /\ Single(c, Blocks) /\ LinkedFrom(r.free_list, r.next, c)
      /\ r.next \in [Blocks -> Blocks \cup {0}] /\ r.free_list \in Blocks \cup {0}
      /\ r.usage \in Int /\ r.usage + 1 \in Int /\ r.elements \in Seq(Blocks) /\ head \in Blocks \cup {0}
  BY DEF FixedOf, Listed, Single, FixedReps
<1>2. s = [r EXCEPT !.usage = @ + 1, !.free_list = IF @ = 0 THEN 0 ELSE r.next[b]]
  BY DEF FixedAllocator!Allocated, FixedAllocator!Null
<1>3. s = [free_list |-> head, next |-> r.next, usage |-> r.usage + 1, elements |-> r.elements]
  BY <1>1, <1>2 DEF FixedReps
<1> HIDE DEF s, head
<1>4. s \in FixedReps /\ s.usage = r.usage + 1 /\ s.elements = r.elements /\ s.next = r.next /\ s.free_list = head
  BY <1>1, <1>3 DEF FixedReps
<1>5. head = IF Len(c) = 0 THEN 0 ELSE r.next[b]
  <2>1. Len(c) # 0 => 1 \in 1 .. Len(c)
    BY <1>1
  <2>2. Len(c) # 0 => c[1] \in Blocks /\ r.free_list = c[1]
    BY <1>1, <2>1 DEF LinkedFrom
  <2>3. Len(c) = 0 => r.free_list = 0
    BY <1>1 DEF LinkedFrom
  <2> QED BY <2>2, <2>3 DEF head, FixedConstants
<1>6. CASE Len(c) = 0
  <2>1. Kept(c) = c /\ Members(c) = {} /\ head = 0
    BY <1>5, <1>6 DEF Kept, Members
  <2>2. Listed(s, c)
    BY <1>1, <1>4, <1>6, <2>1 DEF Listed, LinkedFrom
  <2> QED BY <1>4, <1>6, <2>1, <2>2 DEF s
<1>7. CASE Len(c) # 0
  <2>1. Kept(c) = SubSeq(c, 3, Len(c)) /\ Len(c) > 1 /\ b = c[2] /\ head = r.next[c[2]]
    BY <1>5, <1>7 DEF Kept
  <2>2. /\ Single(Kept(c), Blocks) /\ LinkedFrom(head, r.next, Kept(c)) /\ Members(c) = Members(Kept(c)) \cup {c[1], b}
        /\ c[1] # b /\ c[1] \notin Members(Kept(c)) /\ b \notin Members(Kept(c))
    <3> DEFINE d == SubSeq(c, 3, Len(c))
    <3>1. /\ Single(d, Blocks) /\ LinkedFrom(r.next[c[2]], r.next, d) /\ Members(c) = Members(d) \cup {c[1], c[2]}
          /\ c[1] # c[2] /\ c[1] \notin Members(d) /\ c[2] \notin Members(d)
      BY <1>1, <2>1, LinkedWithoutTwo
    <3> HIDE DEF d
    <3> QED BY <2>1, <3>1 DEF d
  <2>3. Listed(s, Kept(c))
    BY <1>4, <2>2 DEF Listed
  <2> QED BY <1>4, <2>2, <2>3 DEF s
<1> QED BY <1>6, <1>7

(* The bag's array takes no part in the list. *)
LEMMA WithElements ==
  ASSUME NEW s \in FixedReps, NEW d, Listed(s, d), NEW u, Single(u, Blocks), Members(d) \cap Members(u) = {},
         s.usage = Len(u)
  PROVE  LET t == [s EXCEPT !.elements = u] IN FixedOf(t, d) /\ t.elements = u
<1> DEFINE t == [s EXCEPT !.elements = u]
<1>1. u \in Seq(Blocks)
  BY DEF Single
<1>2. t = [free_list |-> s.free_list, next |-> s.next, usage |-> s.usage, elements |-> u]
      /\ s.free_list \in Blocks \cup {0} /\ s.next \in [Blocks -> Blocks \cup {0}] /\ s.usage \in Int
  BY DEF FixedReps
<1> HIDE DEF t
<1>3. t \in FixedReps /\ t.free_list = s.free_list /\ t.next = s.next /\ t.usage = s.usage /\ t.elements = u
  BY <1>1, <1>2 DEF FixedReps
<1>4. FixedOf(t, d)
  BY <1>3 DEF FixedOf, Listed, LinkedFrom
<1> QED BY <1>3, <1>4 DEF t

LEMMA FixedAllocateStep ==
  ASSUME FixedConstants, NEW c, FixedOf(rep, c), Accounted(rep, c, ref), FixedAllocator!Allocate
  PROVE  \E d : FixedOf(rep', d) /\ Accounted(rep', d, ref')
<1> DEFINE e == rep.elements
           L == Len(c)
           d == Kept(c)
<1>1. PICK b \in Blocks :
        /\ FixedAllocator!Taken(rep, b)
        /\ rep' = [FixedAllocator!Allocated(rep, b) EXCEPT !.elements = Append(@, b)]
        /\ ref' = [FixedAllocator!Account(b) EXCEPT !.bag = @ \cup {b}]
  BY DEF FixedAllocator!Allocate
<1>2. /\ c \in Seq(Blocks) /\ L \in Nat /\ Single(e, Blocks) /\ Members(c) \cap Members(e) = {} /\ rep.usage = Len(e)
      /\ rep.free_list = IF L = 0 THEN 0 ELSE c[1]
      /\ \A i \in 1 .. L : c[i] \in Blocks /\ c[i] # 0 /\ rep.next[c[i]] = IF i = L THEN 0 ELSE c[i + 1]
  BY DEF FixedOf, Listed, LinkedFrom, Single, FixedConstants
<1> DEFINE base(g) == Members(c) \cup Members(e) \cup g
<1>3. PICK gone : ref = [bag |-> Members(e), base |-> base(gone), lost |-> gone] /\ gone \cap (Members(c) \cup Members(e)) = {}
  BY DEF Accounted
<1> DEFINE lost == IF L = 0 THEN gone ELSE gone \cup {c[1]}
<1>4. L # 0 => 1 \in 1 .. L
  BY <1>2
<1>5. L = 0 <=> rep.free_list = 0
  BY <1>2, <1>4
<1>6. IF L = 0 THEN b \notin base(gone) ELSE L > 1 /\ b = c[2]
  <2>1. IF rep.free_list = 0 THEN b \in Blocks \ base(gone) ELSE b = rep.next[rep.free_list] /\ b # 0
    <3>1. ref.base = base(gone)
      BY <1>3
    <3> QED BY <1>1, <3>1 DEF FixedAllocator!Taken, FixedAllocator!FromList, FixedAllocator!Null
  <2>2. ASSUME L # 0
        PROVE  rep.next[c[1]] = IF L = 1 THEN 0 ELSE c[2]
    <3>1. 1 \in 1 .. L /\ 1 + 1 = 2
      BY <1>4, <2>2
    <3>2. rep.next[c[1]] = IF 1 = L THEN 0 ELSE c[1 + 1]
      BY <1>2, <3>1
    <3> QED BY <3>1, <3>2
  <2> QED BY <1>2, <1>5, <2>1, <2>2
<1> DEFINE s == FixedAllocator!Allocated(rep, b)
<1>7. /\ s \in FixedReps /\ s.usage = rep.usage + 1 /\ s.elements = e /\ Listed(s, d)
      /\ L # 0 => Members(c) = Members(d) \cup {c[1], b} /\ c[1] # b /\ c[1] \notin Members(d)
      /\ b \notin Members(d)
  <2>1. IF L = 0 THEN b \notin Members(e) ELSE L > 1 /\ b = c[2]
    BY <1>3, <1>6
  <2> QED BY <2>1, AllocatedFacts
<1>8. rep' = [s EXCEPT !.elements = Append(e, b)]
  BY <1>1, <1>7
<1>9. Members(d) = {} \/ L # 0
  BY <1>2 DEF Kept, Members
<1>10. ref' = [bag |-> Members(e) \cup {b}, base |-> base(gone) \cup {b}, lost |-> lost]
  <2>1. FixedAllocator!Account(b)
          = [ref EXCEPT !.base = @ \cup {b}, !.lost = IF rep.free_list = 0 THEN @ ELSE @ \cup {rep.free_list}]
    BY DEF FixedAllocator!Account, FixedAllocator!Null
  <2> HIDE DEF base
  <2>2. FixedAllocator!Account(b) = [bag |-> Members(e), base |-> base(gone) \cup {b}, lost |-> lost]
    BY <1>2, <1>3, <1>5, <2>1
  <2> HIDE DEF base, lost
  <2>3. ref' = [FixedAllocator!Account(b) EXCEPT !.bag = @ \cup {b}]
    BY <1>1
  <2> QED BY <2>2, <2>3
<1> HIDE DEF s, d
<1>11. b \notin Members(e) /\ b \notin gone /\ (L # 0 => c[1] \notin Members(e))
  BY <1>3, <1>2, <1>6, <1>7
<1>12. /\ Single(Append(e, b), Blocks) /\ Members(Append(e, b)) = Members(e) \cup {b}
       /\ Len(Append(e, b)) = Len(e) + 1
  BY <1>2, <1>11, SingleAppend
<1>13. Members(d) \cap (Members(e) \cup {b}) = {}
  BY <1>2, <1>7, <1>9
<1>14. FixedOf(rep', d) /\ rep'.elements = Append(e, b)
  <2>1. s.usage = Len(Append(e, b)) /\ Members(d) \cap Members(Append(e, b)) = {}
    BY <1>2, <1>7, <1>12, <1>13
  <2> HIDE DEF e
  <2> QED BY <1>7, <1>8, <1>12, <2>1, WithElements
<1>15. /\ base(gone) \cup {b} = Members(d) \cup (Members(e) \cup {b}) \cup lost
       /\ lost \cap (Members(d) \cup (Members(e) \cup {b})) = {}
  <2>1. CASE L = 0
    <3>1. Members(c) = {} /\ Members(d) = {}
      BY <1>2, <2>1 DEF d, Kept, Members
    <3> QED BY <1>3, <1>11, <2>1, <3>1
  <2>2. CASE L # 0
    BY <1>3, <1>7, <1>11, <2>2
  <2> QED BY <2>1, <2>2
<1>16. Accounted(rep', d, ref')
  <2> HIDE DEF lost
  <2> QED BY <1>10, <1>12, <1>14, <1>15 DEF Accounted
<1> QED BY <1>14, <1>16

LEMMA FixedDeallocateStep ==
  ASSUME FixedConstants, NEW c, FixedOf(rep, c), Accounted(rep, c, ref), FixedAllocator!Deallocate
  PROVE  \E d : FixedOf(rep', d) /\ Accounted(rep', d, ref')
<1> DEFINE e == rep.elements
<1>1. /\ rep \in FixedReps /\ Listed(rep, c) /\ Single(e, Blocks) /\ e \in Seq(Blocks)
      /\ Members(c) \cap Members(e) = {} /\ rep.usage = Len(e) /\ DOMAIN e = 1 .. Len(e) /\ Len(e) \in Nat
  BY DEF FixedOf, Single
<1>2. PICK i \in 1 .. Len(e) :
        /\ rep' = [FixedAllocator!free(rep, e[i]) EXCEPT !.elements = FixedAllocator!RemoveAt(@, i)]
        /\ ref' = [ref EXCEPT !.bag = @ \ {e[i]}]
  BY <1>1 DEF FixedAllocator!Deallocate
<1> DEFINE b == e[i]
           s == FixedAllocator!free(rep, b)
           d == <<b>> \o c
           u == RemoveAt(e, i)
<1>3. b \in Blocks /\ b \in Members(e) /\ b \notin Members(c)
  <2> HIDE DEF e
  <2>1. b \in Blocks /\ b \in Members(e)
    BY ONLY <1>1, i \in 1 .. Len(e) DEF Members
  <2> QED BY ONLY <1>1, <2>1
<1>4. /\ s \in FixedReps /\ Listed(s, d) /\ Members(d) = Members(c) \cup {b}
      /\ s.usage = rep.usage - 1 /\ s.elements = e
  BY <1>1, <1>3, FreedBlock
<1>5. FixedAllocator!RemoveAt(e, i) = u
  BY Zenon DEF FixedAllocator!RemoveAt, RemoveAt
<1>6. Single(u, Blocks) /\ Members(u) = Members(e) \ {b} /\ Len(u) = Len(e) - 1
  BY <1>1, SingleRemove
<1> HIDE DEF s, d, u
<1>7. rep' = [s EXCEPT !.elements = u]
  BY <1>2, <1>4, <1>5 DEF s
<1>8. FixedOf(rep', d) /\ rep'.elements = u
  <2>1. Members(d) \cap Members(u) = {} /\ s.usage = Len(u)
    BY <1>1, <1>4, <1>6
  <2> QED BY <1>4, <1>6, <1>7, <2>1, WithElements
<1>9. PICK lost : /\ ref = [bag |-> Members(e), base |-> Members(c) \cup Members(e) \cup lost, lost |-> lost]
                   /\ lost \cap (Members(c) \cup Members(e)) = {}
  BY DEF Accounted
<1>10. ref' = [bag |-> Members(e) \ {b}, base |-> Members(c) \cup Members(e) \cup lost, lost |-> lost]
  BY <1>2, <1>9
<1>11. /\ Members(c) \cup Members(e) = Members(d) \cup Members(u)
  BY <1>3, <1>4, <1>6
<1> HIDE DEF b, e
<1>12. Accounted(rep', d, ref')
  BY <1>6, <1>8, <1>9, <1>10, <1>11 DEF Accounted
<1> QED BY <1>8, <1>12

LEMMA FixedClearStep ==
  ASSUME FixedConstants, NEW c, FixedOf(rep, c), Accounted(rep, c, ref),
         FixedAllocator!Clear \/ FixedAllocator!Destruct
  PROVE  \E d : FixedOf(rep', d) /\ Accounted(rep', d, ref')
<1> DEFINE s == FixedAllocator!clear(rep)
<1>1. PICK d : FixedOf(s, d) /\ s.elements = <<>> /\ Members(d) = Members(c) \cup Members(rep.elements)
  BY ClearedFacts
<1>2. PICK lost :
      /\ ref = [bag |-> Members(rep.elements), base |-> Members(c) \cup Members(rep.elements) \cup lost, lost |-> lost]
      /\ lost \cap (Members(c) \cup Members(rep.elements)) = {}
  BY DEF Accounted
<1>3. Members(<<>>) = {} /\ Single(<<>>, Blocks) /\ Len(<<>>) = 0
  BY DEF Members, Single
<1>4. CASE FixedAllocator!Clear
  <2>1. rep' = s /\ ref' = [ref EXCEPT !.bag = {}]
    BY <1>4 DEF FixedAllocator!Clear
  <2> HIDE DEF s
  <2>2. ref' = [bag |-> {}, base |-> Members(d) \cup lost, lost |-> lost]
    BY <1>1, <1>2, <2>1
  <2>3. Accounted(rep', d, ref')
    BY <1>1, <1>2, <1>3, <2>1, <2>2 DEF Accounted
  <2> QED BY <1>1, <2>1, <2>3
<1>5. CASE FixedAllocator!Destruct
  <2>1. rep' = [s EXCEPT !.free_list = 0] /\ ref' = [ref EXCEPT !.bag = {}, !.base = @ \ FixedAllocator!Chain(s)]
    BY <1>5 DEF FixedAllocator!Destruct, FixedAllocator!Null
  <2> HIDE DEF s
  <2>2. s \in FixedReps /\ Listed(s, d) /\ s.usage = 0
    BY <1>1, <1>3 DEF FixedOf
  <2>3. FixedAllocator!Chain(s) = Members(d)
    BY <2>2, ChainMembers
  <2>4. /\ rep' = [free_list |-> 0, next |-> s.next, usage |-> 0, elements |-> <<>>]
        /\ s.next \in [Blocks -> Blocks \cup {0}]
    BY <1>1, <2>1, <2>2 DEF FixedReps
  <2>5. rep' \in FixedReps /\ rep'.free_list = 0 /\ rep'.usage = 0 /\ rep'.elements = <<>>
    BY <2>4 DEF FixedReps
  <2>6. FixedOf(rep', <<>>)
    BY <1>3, <2>5 DEF FixedOf, Listed, LinkedFrom
  <2>7. ref' = [bag |-> {}, base |-> lost, lost |-> lost]
    BY <1>1, <1>2, <2>1, <2>3
  <2>8. Accounted(rep', <<>>, ref')
    BY <1>3, <2>5, <2>7 DEF Accounted
  <2> QED BY <2>6, <2>8
<1> QED BY <1>4, <1>5

(* FixedAllocator and ContainedBag: as long as no constructor throws and    *)
(* nothing reads through the end of the list, every block that was taken    *)
(* from the base allocator is in the free list, in the bag or lost, in one  *)
(* place only, and the bag has the blocks it should, each of them once.     *)
THEOREM FixedHolds ==
  FixedConstants => (FixedAllocator!Spec => [](FixedAllocator!ObjectsSound /\ FixedAllocator!Represents))
<1> SUFFICES ASSUME FixedConstants
             PROVE  FixedAllocator!Spec => [](FixedAllocator!ObjectsSound /\ FixedAllocator!Represents)
  OBVIOUS
<1>1. FixedAllocator!Init => FixedInv
  <2> SUFFICES ASSUME FixedAllocator!Init
               PROVE  FixedOf(rep, <<>>) /\ Accounted(rep, <<>>, ref)
    BY DEF FixedInv
  <2>1. /\ rep = [free_list |-> 0, next |-> [b \in Blocks |-> 0], usage |-> 0, elements |-> <<>>]
        /\ ref = [bag |-> {}, base |-> {}, lost |-> {}]
    BY DEF FixedAllocator!Init, FixedAllocator!Null
  <2>2. Members(<<>>) = {} /\ Single(<<>>, Blocks) /\ Len(<<>>) = 0
    BY DEF Members, Single
  <2>3. rep \in FixedReps /\ rep.free_list = 0 /\ rep.usage = 0 /\ rep.elements = <<>>
    BY <2>1 DEF FixedReps
  <2>4. FixedOf(rep, <<>>)
    BY <2>2, <2>3 DEF FixedOf, Listed, LinkedFrom
  <2> QED BY <2>1, <2>2, <2>3, <2>4 DEF Accounted
<1>2. FixedInv /\ [FixedAllocator!Next]_FixedAllocator!vars => FixedInv'
  <2> SUFFICES ASSUME FixedInv, [FixedAllocator!Next]_FixedAllocator!vars, fault' = "none"
               PROVE  \E c : FixedOf(rep', c) /\ Accounted(rep', c, ref')
    BY DEF FixedInv
  <2>1. CASE UNCHANGED FixedAllocator!vars
    BY <2>1 DEF FixedAllocator!vars, FixedInv
  <2>2. CASE FixedAllocator!Next
    <3>1. PICK c : FixedOf(rep, c) /\ Accounted(rep, c, ref)
      BY <2>2 DEF FixedInv, FixedAllocator!Next
    <3>2. ~FixedAllocator!AllocateThrows /\ ~FixedAllocator!AllocateNull
      BY DEF FixedAllocator!AllocateThrows, FixedAllocator!AllocateNull
    <3> QED
      BY <2>2, <3>1, <3>2, FixedAllocateStep, FixedDeallocateStep, FixedClearStep DEF FixedAllocator!Next
  <2> QED BY <2>1, <2>2
<1>3. FixedInv => FixedAllocator!ObjectsSound /\ FixedAllocator!Represents
  <2> SUFFICES ASSUME FixedInv, fault = "none"
               PROVE  FixedAllocator!ObjectsSound /\ FixedAllocator!Represents
    BY DEF FixedAllocator!ObjectsSound, FixedAllocator!Represents
  <2>1. PICK c : FixedOf(rep, c) /\ Accounted(rep, c, ref)
    BY DEF FixedInv
  <2> DEFINE e == rep.elements
  <2>2. rep \in FixedReps /\ Listed(rep, c) /\ Single(e, Blocks) /\ Members(c) \cap Members(e) = {} /\ rep.usage = Len(e)
    BY <2>1 DEF FixedOf
  <2>3. FixedAllocator!Chain(rep) = Members(c)
    BY <2>2, ChainMembers
  <2>4. FixedAllocator!ToSet(e) = Members(e)
    <3>1. FixedAllocator!ToSet(e) = {e[i] : i \in DOMAIN e}
      BY Zenon DEF FixedAllocator!ToSet
    <3> QED BY <2>2, <3>1 DEF Members, Single
  <2>5. FixedAllocator!Cardinality(Members(e)) = Len(e)
    <3>1. FixedAllocator!Cardinality(Members(e)) = Cardinality(Members(e))
      BY Zenon DEF FixedAllocator!Cardinality, Cardinality
    <3> QED BY <2>2, <3>1, SingleFacts DEF FixedConstants
  <2>6. /\ ref.bag = Members(e) /\ ref.base = Members(c) \cup Members(e) \cup ref.lost
        /\ ref.lost \cap (Members(c) \cup Members(e)) = {}
    BY <2>1 DEF Accounted
  <2> QED BY <2>2, <2>3, <2>4, <2>5, <2>6 DEF FixedAllocator!ObjectsSound, FixedAllocator!Represents
<1> QED BY <1>1, <1>2, <1>3, PTL DEF FixedAllocator!Spec

-----------------------------------------------------------------------------
(* Function. The two of them with the callers on the heap: each is empty,   *)
(* has a pointer or has a live caller of its own, and no caller is without  *)
(* one.                                                                     *)
FunctionConstants == "null" \notin Code /\ "null" \notin Callers

FunctionCells == [type : {"Empty", "Thin", "Fat"}, payload : Code \cup Callers \cup {"null"},
                  invoke : {"empty_invoker_pad", "fptr_invoker_pad", "cptr_invoker_pad"}]
FunctionHeaps == [Callers -> [object : Code \cup {"null"}, allocator : Allocators \cup {"null"}]]
FunctionReps  == [f : FunctionCells, g : FunctionCells, heap : FunctionHeaps]

Calls(a, heap, code) ==
    \/ a = Callable!Empty /\ code = "null"
    \/ code \in Code /\ a = Callable!Thin(code)
    \/ code \in Code /\ \E c \in Callers, alloc \in Allocators :
          a = Callable!Fat(c) /\ heap[c] = [object |-> code, allocator |-> alloc]

FunctionsSound(a, b, heap, first, second) ==
    /\ a \in FunctionCells /\ b \in FunctionCells /\ heap \in FunctionHeaps
    /\ Calls(a, heap, first) /\ Calls(b, heap, second)
    /\ ~(a.type = "Fat" /\ b.type = "Fat" /\ a.payload = b.payload)
    /\ \A c \in Callers : heap[c] # Callable!Free =>
         (a.type = "Fat" /\ a.payload = c) \/ (b.type = "Fat" /\ b.payload = c)

FunctionInv ==
    fault = "none" =>
      /\ rep \in FunctionReps
      /\ ref \in [Callable!Names -> Code \cup {"null"}]
      /\ FunctionsSound(rep.f, rep.g, rep.heap, ref["f"], ref["g"])

(* It does not matter which of the two is the first. *)
LEMMA FunctionsSwap ==
  ASSUME NEW a, NEW b, NEW heap, NEW first, NEW second, FunctionsSound(a, b, heap, first, second)
  PROVE  FunctionsSound(b, a, heap, second, first)
BY DEF FunctionsSound

(* The fields of the three kinds. *)
LEMMA FunctionKinds ==
  ASSUME FunctionConstants
  PROVE  /\ Callable!Empty \in FunctionCells /\ Callable!Empty.type = "Empty" /\ Callable!Empty.payload = "null"
         /\ Callable!Empty.invoke = "empty_invoker_pad"
         /\ \A p \in Code : /\ Callable!Thin(p) \in FunctionCells /\ Callable!Thin(p).type = "Thin"
                            /\ Callable!Thin(p).payload = p /\ Callable!Thin(p).invoke = "fptr_invoker_pad"
         /\ \A c \in Callers : /\ Callable!Fat(c) \in FunctionCells /\ Callable!Fat(c).type = "Fat"
                               /\ Callable!Fat(c).payload = c /\ Callable!Fat(c).invoke = "cptr_invoker_pad"
<1>1. /\ Callable!Empty \in FunctionCells /\ Callable!Empty.type = "Empty" /\ Callable!Empty.payload = "null"
      /\ Callable!Empty.invoke = "empty_invoker_pad"
  BY DEF Callable!Empty, Callable!Null, FunctionCells
<1>2. \A p \in Code : /\ Callable!Thin(p) \in FunctionCells /\ Callable!Thin(p).type = "Thin"
                      /\ Callable!Thin(p).payload = p /\ Callable!Thin(p).invoke = "fptr_invoker_pad"
  BY DEF Callable!Thin, FunctionCells
<1>3. \A c \in Callers : /\ Callable!Fat(c) \in FunctionCells /\ Callable!Fat(c).type = "Fat"
                         /\ Callable!Fat(c).payload = c /\ Callable!Fat(c).invoke = "cptr_invoker_pad"
  BY DEF Callable!Fat, FunctionCells
<1> QED BY <1>1, <1>2, <1>3

(* A Function that is fat has a caller. *)
LEMMA FatPayload ==
  ASSUME FunctionConstants, NEW a, NEW heap, NEW code, Calls(a, heap, code), a.type = "Fat"
  PROVE  a.payload \in Callers
<1>1. CASE a = Callable!Empty /\ code = "null"
  BY <1>1, FunctionKinds
<1>2. CASE code \in Code /\ a = Callable!Thin(code)
  <2>1. Callable!Thin(code).type = "Thin"
    BY <1>2, FunctionKinds
  <2> QED BY <1>2, <2>1
<1>3. ASSUME NEW c \in Callers, a = Callable!Fat(c)
      PROVE  a.payload \in Callers
  <2>1. Callable!Fat(c).payload = c
    BY FunctionKinds
  <2> QED BY <1>3, <2>1
<1> QED BY <1>1, <1>2, <1>3 DEF Calls

(* The heap without the caller of a. *)
ClearedHeap(a, heap) == IF a.type = "Fat" THEN [heap EXCEPT ![a.payload] = Callable!Free] ELSE heap

(* clear gives the caller back and leaves the other Function sound. *)
LEMMA FunctionsClear ==
  ASSUME FunctionConstants, NEW a, NEW b, NEW heap, NEW first, NEW second,
         FunctionsSound(a, b, heap, first, second)
  PROVE  /\ FunctionsSound(Callable!Empty, b, ClearedHeap(a, heap), "null", second)
         /\ \A c \in Callers : heap[c] = Callable!Free => ClearedHeap(a, heap)[c] = Callable!Free
<1>1. /\ a \in FunctionCells /\ b \in FunctionCells /\ heap \in FunctionHeaps
      /\ Calls(a, heap, first) /\ Calls(b, heap, second)
  BY DEF FunctionsSound
<1>2. Callable!Free \in [object : Code \cup {"null"}, allocator : Allocators \cup {"null"}]
  BY DEF Callable!Free, Callable!Null
<1>3. Calls(Callable!Empty, ClearedHeap(a, heap), "null")
  BY DEF Calls
<1>4. CASE a.type = "Fat"
  <2>1. a.payload \in Callers
    BY <1>1, <1>4, FatPayload
  <2> DEFINE h == ClearedHeap(a, heap)
  <2>2. h \in FunctionHeaps /\ \A c \in Callers : h[c] = IF c = a.payload THEN Callable!Free ELSE heap[c]
    BY <1>1, <1>2, <1>4, <2>1 DEF ClearedHeap, FunctionHeaps
  <2> HIDE DEF h
  <2>3. Calls(b, h, second)
    BY <1>1, <1>4, <2>2, FunctionKinds DEF Calls, FunctionsSound
  <2>4. \A c \in Callers : h[c] # Callable!Free => b.type = "Fat" /\ b.payload = c
    BY <2>2 DEF FunctionsSound
  <2> QED BY <1>1, <1>3, <2>2, <2>3, <2>4, FunctionKinds DEF FunctionsSound, h
<1>5. CASE a.type # "Fat"
  BY <1>1, <1>3, <1>5, FunctionKinds DEF FunctionsSound, ClearedHeap
<1> QED BY <1>4, <1>5

(* An empty Function takes a pointer, *)
LEMMA FunctionsThin ==
  ASSUME FunctionConstants, NEW b, NEW heap, NEW second, NEW p \in Code,
         FunctionsSound(Callable!Empty, b, heap, "null", second)
  PROVE  FunctionsSound(Callable!Thin(p), b, heap, p, second)
BY FunctionKinds DEF FunctionsSound, Calls

(* or a new caller. *)
LEMMA FunctionsFat ==
  ASSUME FunctionConstants, NEW b, NEW heap, NEW second, NEW p \in Code, NEW alloc \in Allocators,
         FunctionsSound(Callable!Empty, b, heap, "null", second), NEW c \in Callers, heap[c] = Callable!Free
  PROVE  FunctionsSound(Callable!Fat(c), b, [heap EXCEPT ![c] = [object |-> p, allocator |-> alloc]], p, second)
<1> DEFINE h == [heap EXCEPT ![c] = [object |-> p, allocator |-> alloc]]
<1>1. b \in FunctionCells /\ heap \in FunctionHeaps /\ Calls(b, heap, second)
  BY DEF FunctionsSound
<1>2. /\ h \in FunctionHeaps /\ h[c] = [object |-> p, allocator |-> alloc]
      /\ \A d \in Callers \ {c} : h[d] = heap[d]
  BY <1>1 DEF FunctionHeaps
<1> HIDE DEF h
<1>3. b.type = "Fat" => b.payload \in Callers /\ b.payload # c
  <2> SUFFICES ASSUME b.type = "Fat"
               PROVE  b.payload \in Callers /\ b.payload # c
    OBVIOUS
  <2>1. PICK d \in Callers, own \in Allocators :
          second \in Code /\ b = Callable!Fat(d) /\ heap[d] = [object |-> second, allocator |-> own]
    BY <1>1, FunctionKinds DEF Calls
  <2>2. heap[d].object = second /\ Callable!Free.object = "null"
    BY <2>1 DEF Callable!Free, Callable!Null
  <2>3. d # c
    BY <2>1, <2>2 DEF FunctionConstants
  <2> QED BY <2>1, <2>3, FunctionKinds
<1>4. Calls(b, h, second)
  BY <1>1, <1>2, <1>3, FunctionKinds DEF Calls
<1>5. Calls(Callable!Fat(c), h, p)
  BY <1>2 DEF Calls
<1>6. \A d \in Callers : h[d] # Callable!Free => d = c \/ (b.type = "Fat" /\ b.payload = d)
  BY <1>2, FunctionKinds DEF FunctionsSound
<1> QED BY <1>1, <1>2, <1>3, <1>4, <1>5, <1>6, FunctionKinds DEF FunctionsSound, h

(* What a call makes of the two and the heap, x first. *)
FunctionRep(r, x, a, b, heap) == [r EXCEPT ![x] = a, ![Callable!Other(x)] = b, !.heap = heap]

(* It sets these three and nothing else. *)
LEMMA FunctionRepFacts ==
  ASSUME NEW r \in FunctionReps, NEW x \in Callable!Names, NEW a \in FunctionCells, NEW b \in FunctionCells,
         NEW heap \in FunctionHeaps
  PROVE  LET s == FunctionRep(r, x, a, b, heap)
         IN  s \in FunctionReps /\ s[x] = a /\ s[Callable!Other(x)] = b /\ s.heap = heap
<1>1. CASE x = "f"
  BY <1>1 DEF FunctionRep, FunctionReps, Callable!Other
<1>2. CASE x = "g"
  BY <1>2 DEF FunctionRep, FunctionReps, Callable!Other
<1> QED BY <1>1, <1>2 DEF Callable!Names

(* A call ends with both sound and with what they should call. *)
LEMMA FunctionPut ==
  ASSUME FunctionInv, fault = "none", NEW x \in Callable!Names, NEW a, NEW b, NEW heap, NEW first, NEW second,
         FunctionsSound(a, b, heap, first, second), rep' = FunctionRep(rep, x, a, b, heap),
         ref' = [ref EXCEPT ![x] = first, ![Callable!Other(x)] = second]
  PROVE  FunctionInv'
<1> DEFINE y == Callable!Other(x)
<1>1. /\ x \in {"f", "g"} /\ y \in {"f", "g"} /\ x # y /\ (x = "f" => y = "g") /\ (x = "g" => y = "f")
  BY DEF Callable!Names, Callable!Other
<1>2. /\ rep \in FunctionReps /\ ref \in [Callable!Names -> Code \cup {"null"}]
      /\ a \in FunctionCells /\ b \in FunctionCells /\ heap \in FunctionHeaps
      /\ first \in Code \cup {"null"} /\ second \in Code \cup {"null"}
  BY DEF FunctionInv, FunctionsSound, Calls
<1>3. rep' \in FunctionReps /\ rep'[x] = a /\ rep'[y] = b /\ rep'.heap = heap
  BY <1>2, FunctionRepFacts
<1>4. /\ ref' \in [Callable!Names -> Code \cup {"null"}] /\ ref'[x] = first /\ ref'[y] = second
  BY <1>1, <1>2 DEF Callable!Names
<1>5. FunctionsSound(rep'["f"], rep'["g"], rep'.heap, ref'["f"], ref'["g"])
  BY <1>1, <1>3, <1>4, FunctionsSwap
<1>6. rep'.f = rep'["f"] /\ rep'.g = rep'["g"]
  BY <1>3 DEF FunctionReps
<1>7. FunctionsSound(rep'.f, rep'.g, rep'.heap, ref'["f"], ref'["g"])
  BY <1>5, <1>6
<1> QED
  BY <1>3, <1>4, <1>7 DEF FunctionInv, FunctionsSound, FunctionReps, FunctionCells, FunctionHeaps, Calls,
                          Callable!Names, Callable!Free, Callable!Empty, Callable!Thin, Callable!Fat, Callable!Null

(* What Cleared and New are in these terms. *)
LEMMA FunctionOps ==
  ASSUME FunctionConstants, FunctionInv, fault = "none", NEW x \in Callable!Names
  PROVE  LET y == Callable!Other(x)
             h == ClearedHeap(rep[x], rep.heap)
             cleared == FunctionRep(rep, x, Callable!Empty, rep[y], h)
         IN  /\ Callable!Cleared(x) = cleared
             /\ FunctionsSound(rep[x], rep[y], rep.heap, ref[x], ref[y])
             /\ \A p \in Code : [cleared EXCEPT ![x] = Callable!Thin(p)]
                                  = FunctionRep(rep, x, Callable!Thin(p), rep[y], h)
             /\ [cleared EXCEPT ![x] = rep[y], ![y] = Callable!Empty]
                  = FunctionRep(rep, x, rep[y], Callable!Empty, h)
             /\ Callable!Unused # {} => \A p \in Code, alloc \in Allocators :
                  \E c \in Callers :
                    /\ rep.heap[c] = Callable!Free
                    /\ Callable!New(cleared, x, p, alloc)
                         = FunctionRep(rep, x, Callable!Fat(c), rep[y],
                                       [h EXCEPT ![c] = [object |-> p, allocator |-> alloc]])
<1> DEFINE y == Callable!Other(x)
           h == ClearedHeap(rep[x], rep.heap)
           cleared == FunctionRep(rep, x, Callable!Empty, rep[y], h)
<1>1. rep \in FunctionReps /\ FunctionsSound(rep.f, rep.g, rep.heap, ref["f"], ref["g"])
  BY DEF FunctionInv
<1>2. x \in {"f", "g"} /\ y = (IF x = "f" THEN "g" ELSE "f")
  BY DEF Callable!Names, Callable!Other
<1>3. FunctionsSound(rep[x], rep[y], rep.heap, ref[x], ref[y])
  <2>1. rep["f"] = rep.f /\ rep["g"] = rep.g
    BY <1>1 DEF FunctionReps
  <2> QED BY <1>1, <1>2, <2>1, FunctionsSwap
<1>4. rep[x] \in FunctionCells /\ rep[y] \in FunctionCells /\ rep.heap \in FunctionHeaps
      /\ h \in FunctionHeaps
  <2>1. FunctionsSound(Callable!Empty, rep[y], h, "null", ref[y])
    BY <1>3, FunctionsClear
  <2> HIDE DEF h
  <2> QED BY <1>3, <2>1 DEF FunctionsSound
<1>5. rep[x].type = "Fat" => rep[x].payload \in Callers
  <2> DEFINE a == rep[x]
  <2>1. Calls(a, rep.heap, ref[x])
    BY <1>3 DEF FunctionsSound
  <2> HIDE DEF a
  <2>2. a.type = "Fat" => a.payload \in Callers
    BY <2>1, FatPayload
  <2> QED BY <2>2 DEF a
<1>6. Callable!Cleared(x) = cleared
  <2>1. CASE rep[x].type = "Fat"
    <3>1. rep[x].payload # "null" /\ h = [rep.heap EXCEPT ![rep[x].payload] = Callable!Free]
      BY <1>5, <2>1 DEF FunctionConstants, ClearedHeap
    <3>2. Callable!Cleared(x) = [rep EXCEPT !.heap[rep[x].payload] = Callable!Free, ![x] = Callable!Empty]
      BY <2>1, <3>1 DEF Callable!Cleared, Callable!IsFat, Callable!Null
    <3> HIDE DEF h
    <3>3. CASE x = "f"
      BY <1>1, <1>2, <3>1, <3>2, <3>3 DEF FunctionRep, FunctionReps, Callable!Other
    <3>4. CASE x = "g"
      BY <1>1, <1>2, <3>1, <3>2, <3>4 DEF FunctionRep, FunctionReps, Callable!Other
    <3> QED BY <1>2, <3>3, <3>4
  <2>2. CASE rep[x].type # "Fat"
    <3>1. h = rep.heap /\ Callable!Cleared(x) = [rep EXCEPT ![x] = Callable!Empty]
      BY <2>2 DEF ClearedHeap, Callable!Cleared, Callable!IsFat
    <3> HIDE DEF h
    <3>2. CASE x = "f"
      BY <1>1, <1>2, <3>1, <3>2 DEF FunctionRep, FunctionReps, Callable!Other
    <3>3. CASE x = "g"
      BY <1>1, <1>2, <3>1, <3>3 DEF FunctionRep, FunctionReps, Callable!Other
    <3> QED BY <1>2, <3>2, <3>3
  <2> QED BY <2>1, <2>2
<1> HIDE DEF h
<1>7. \A p \in Code : [cleared EXCEPT ![x] = Callable!Thin(p)] = FunctionRep(rep, x, Callable!Thin(p), rep[y], h)
  <2>1. CASE x = "f"
    BY <1>1, <1>2, <2>1 DEF FunctionRep, FunctionReps, Callable!Other
  <2>2. CASE x = "g"
    BY <1>1, <1>2, <2>2 DEF FunctionRep, FunctionReps, Callable!Other
  <2> QED BY <1>2, <2>1, <2>2
<1>8. [cleared EXCEPT ![x] = rep[y], ![y] = Callable!Empty] = FunctionRep(rep, x, rep[y], Callable!Empty, h)
  <2>1. CASE x = "f"
    BY <1>1, <1>2, <2>1 DEF FunctionRep, FunctionReps, Callable!Other
  <2>2. CASE x = "g"
    BY <1>1, <1>2, <2>2 DEF FunctionRep, FunctionReps, Callable!Other
  <2> QED BY <1>2, <2>1, <2>2
<1>9. ASSUME Callable!Unused # {}, NEW p \in Code, NEW alloc \in Allocators
      PROVE  \E c \in Callers :
               /\ rep.heap[c] = Callable!Free
               /\ Callable!New(cleared, x, p, alloc)
                    = FunctionRep(rep, x, Callable!Fat(c), rep[y],
                                  [h EXCEPT ![c] = [object |-> p, allocator |-> alloc]])
  <2> DEFINE c == CHOOSE d \in Callable!Unused : TRUE
             object == [object |-> p, allocator |-> alloc]
  <2>1. c \in Callers /\ rep.heap[c] = Callable!Free
    BY <1>9 DEF Callable!Unused
  <2>2. Callable!New(cleared, x, p, alloc) = [cleared EXCEPT !.heap[c] = object, ![x] = Callable!Fat(c)]
    BY DEF Callable!New
  <2> HIDE DEF c, object
  <2>3. [cleared EXCEPT !.heap[c] = object, ![x] = Callable!Fat(c)]
          = FunctionRep(rep, x, Callable!Fat(c), rep[y], [h EXCEPT ![c] = object])
    <3>1. CASE x = "f"
      BY <1>1, <1>2, <3>1 DEF FunctionRep, FunctionReps, Callable!Other
    <3>2. CASE x = "g"
      BY <1>1, <1>2, <3>2 DEF FunctionRep, FunctionReps, Callable!Other
    <3> QED BY <1>2, <3>1, <3>2
  <2> QED BY <2>1, <2>2, <2>3 DEF object
<1> QED BY <1>3, <1>6, <1>7, <1>8, <1>9 DEF h

(* Every operation that meets no fault keeps both sound. *)
LEMMA FunctionStep ==
  ASSUME FunctionConstants, FunctionInv, Callable!Next
  PROVE  FunctionInv'
<1>1. fault = "none" /\ rep \in FunctionReps /\ ref \in [Callable!Names -> Code \cup {"null"}]
  BY DEF Callable!Next, FunctionInv
<1>2. PICK x \in Callable!Names :
        \/ Callable!Clear(x) \/ Callable!AssignPointer(x) \/ Callable!AssignObject(x)
        \/ Callable!AssignCopy(x) \/ Callable!AssignMove(x) \/ Callable!AssignMoveTo(x)
  BY DEF Callable!Next
<1> DEFINE y == Callable!Other(x)
           a == rep[x]
           b == rep[y]
           h == ClearedHeap(a, rep.heap)
           cleared == FunctionRep(rep, x, Callable!Empty, b, h)
<1>3. x # y /\ y \in Callable!Names
  BY DEF Callable!Names, Callable!Other
<1>4. /\ Callable!Cleared(x) = cleared
      /\ FunctionsSound(a, b, rep.heap, ref[x], ref[y])
      /\ \A p \in Code : [cleared EXCEPT ![x] = Callable!Thin(p)] = FunctionRep(rep, x, Callable!Thin(p), b, h)
      /\ [cleared EXCEPT ![x] = b, ![y] = Callable!Empty] = FunctionRep(rep, x, b, Callable!Empty, h)
      /\ Callable!Unused # {} => \A p \in Code, alloc \in Allocators :
           \E c \in Callers :
             /\ rep.heap[c] = Callable!Free
             /\ Callable!New(cleared, x, p, alloc)
                  = FunctionRep(rep, x, Callable!Fat(c), b, [h EXCEPT ![c] = [object |-> p, allocator |-> alloc]])
  BY <1>1, FunctionOps
<1>5. /\ FunctionsSound(Callable!Empty, b, h, "null", ref[y])
      /\ \A c \in Callers : rep.heap[c] = Callable!Free => h[c] = Callable!Free
  BY <1>4, FunctionsClear
<1>6. Calls(b, rep.heap, ref[y]) /\ Calls(b, h, ref[y])
  <2> HIDE DEF b, h
  <2> QED BY <1>4, <1>5 DEF FunctionsSound
<1>7. \/ ref[y] = "null" /\ b = Callable!Empty /\ b.type = "Empty"
      \/ ref[y] \in Code /\ b = Callable!Thin(ref[y]) /\ b.type = "Thin" /\ b.payload = ref[y]
      \/ /\ ref[y] \in Code /\ b.type = "Fat" /\ b.payload \in Callers
         /\ rep.heap[b.payload].object = ref[y] /\ rep.heap[b.payload].allocator \in Allocators
  <2> HIDE DEF b
  <2>1. CASE b = Callable!Empty /\ ref[y] = "null"
    BY <2>1, FunctionKinds
  <2>2. CASE ref[y] \in Code /\ b = Callable!Thin(ref[y])
    BY <2>2, FunctionKinds
  <2>3. ASSUME NEW c \in Callers, NEW alloc \in Allocators, ref[y] \in Code,
               b = Callable!Fat(c), rep.heap[c] = [object |-> ref[y], allocator |-> alloc]
        PROVE  /\ ref[y] \in Code /\ b.type = "Fat" /\ b.payload \in Callers
               /\ rep.heap[b.payload].object = ref[y] /\ rep.heap[b.payload].allocator \in Allocators
    <3>1. b.type = "Fat" /\ b.payload = c
      BY <2>3, FunctionKinds
    <3>2. rep.heap[c].object = ref[y] /\ rep.heap[c].allocator = alloc
      BY <2>3
    <3> QED BY <2>3, <3>1, <3>2
  <2> QED BY <1>6, <2>1, <2>2, <2>3 DEF Calls
<1>8. Callable!IsFat(y) <=> b.type = "Fat"
  BY DEF Callable!IsFat
<1>9. Callable!CallerOf(y) = rep.heap[b.payload]
  BY DEF Callable!CallerOf
<1> HIDE DEF a, b, h, cleared
(* The three ways to give x something to call. *)
<1>10. ASSUME NEW n, NEW m, NEW heap, NEW first, NEW second, FunctionsSound(n, m, heap, first, second),
              rep' = FunctionRep(rep, x, n, m, heap), ref' = [ref EXCEPT ![x] = first, ![y] = second]
       PROVE  FunctionInv'
  BY <1>1, <1>10, FunctionPut
<1>11. ASSUME NEW code, ref' = [ref EXCEPT ![x] = code]
       PROVE  ref' = [ref EXCEPT ![x] = code, ![y] = ref[y]]
  BY <1>1, <1>3, <1>11
<1>12. ASSUME rep' = cleared, ref' = [ref EXCEPT ![x] = "null"]
       PROVE  FunctionInv'
  BY <1>5, <1>10, <1>11, <1>12 DEF cleared
<1>13. ASSUME NEW p \in Code, rep' = [cleared EXCEPT ![x] = Callable!Thin(p)], ref' = [ref EXCEPT ![x] = p]
       PROVE  FunctionInv'
  <2>1. FunctionsSound(Callable!Thin(p), b, h, p, ref[y])
    BY <1>5, FunctionsThin
  <2>2. rep' = FunctionRep(rep, x, Callable!Thin(p), b, h)
    BY <1>4, <1>13
  <2>3. ref' = [ref EXCEPT ![x] = p, ![y] = ref[y]]
    BY <1>11, <1>13
  <2> QED BY <1>10, <2>1, <2>2, <2>3
<1>14. ASSUME NEW p \in Code, NEW alloc \in Allocators, Callable!Unused # {},
              rep' = Callable!New(cleared, x, p, alloc), ref' = [ref EXCEPT ![x] = p]
       PROVE  FunctionInv'
  <2>1. PICK c \in Callers :
          /\ rep.heap[c] = Callable!Free
          /\ rep' = FunctionRep(rep, x, Callable!Fat(c), b, [h EXCEPT ![c] = [object |-> p, allocator |-> alloc]])
    BY <1>4, <1>14
  <2>2. FunctionsSound(Callable!Fat(c), b, [h EXCEPT ![c] = [object |-> p, allocator |-> alloc]], p, ref[y])
    BY <1>5, <2>1, FunctionsFat
  <2>3. ref' = [ref EXCEPT ![x] = p, ![y] = ref[y]]
    BY <1>11, <1>14
  <2> QED BY <1>10, <2>1, <2>2, <2>3
<1>15. ASSUME rep' = [cleared EXCEPT ![x] = b, ![y] = Callable!Empty],
              ref' = [ref EXCEPT ![x] = ref[y], ![y] = "null"]
       PROVE  FunctionInv'
  <2>1. FunctionsSound(b, Callable!Empty, h, ref[y], "null")
    BY <1>5, FunctionsSwap
  <2>2. rep' = FunctionRep(rep, x, b, Callable!Empty, h)
    BY <1>4, <1>15
  <2> QED BY <1>10, <1>15, <2>1, <2>2
<1>16. CASE Callable!Clear(x)
  BY <1>4, <1>12, <1>16 DEF Callable!Clear, Callable!Becomes, Callable!Null
<1>17. CASE Callable!AssignPointer(x)
  BY <1>4, <1>13, <1>17 DEF Callable!AssignPointer, Callable!Becomes
<1>18. CASE Callable!AssignObject(x)
  BY <1>4, <1>14, <1>18 DEF Callable!AssignObject, Callable!Becomes
<1>19. CASE Callable!AssignCopy(x)
  <2>1. PICK alloc \in Allocators \cup IF Callable!IsFat(y) THEN {Callable!CallerOf(y).allocator} ELSE {} :
          /\ Callable!IsFat(y) => Callable!Unused # {}
          /\ rep' = IF Callable!IsFat(y) THEN Callable!New(Callable!Cleared(x), x, Callable!CallerOf(y).object, alloc)
                    ELSE IF rep[y].type = "Thin"
                    THEN [Callable!Cleared(x) EXCEPT ![x] = Callable!Thin(rep[y].payload)]
                    ELSE Callable!Cleared(x)
          /\ ref' = [ref EXCEPT ![x] = ref[y]]
    BY <1>19 DEF Callable!AssignCopy, Callable!Becomes
  <2>2. CASE b.type = "Fat"
    <3>1. alloc \in Allocators /\ ref[y] \in Code /\ Callable!CallerOf(y).object = ref[y]
      BY <1>7, <1>8, <1>9, <2>1, <2>2
    <3>2. rep' = Callable!New(cleared, x, ref[y], alloc) /\ Callable!Unused # {}
      <4>1. rep' = Callable!New(Callable!Cleared(x), x, Callable!CallerOf(y).object, alloc)
        BY <1>8, <2>1, <2>2
      <4> QED BY <1>4, <1>8, <2>1, <2>2, <3>1, <4>1
    <3> QED BY <1>14, <2>1, <3>1, <3>2
  <2>3. CASE b.type = "Thin"
    <3>1. ref[y] \in Code /\ b.payload = ref[y] /\ ~Callable!IsFat(y)
      BY <1>7, <1>8, <2>3
    <3>2. rep' = [Callable!Cleared(x) EXCEPT ![x] = Callable!Thin(b.payload)]
      BY <2>1, <2>3, <3>1 DEF b
    <3> QED BY <1>4, <1>13, <2>1, <3>1, <3>2
  <2>4. CASE b.type = "Empty"
    <3>1. ref[y] = "null" /\ ~Callable!IsFat(y) /\ b.type # "Thin"
      BY <1>7, <1>8, <2>4
    <3>2. rep' = Callable!Cleared(x)
      BY <2>1, <3>1 DEF b
    <3> QED BY <1>4, <1>12, <2>1, <3>1, <3>2
  <2> QED BY <1>7, <2>2, <2>3, <2>4
<1>20. CASE Callable!AssignMove(x)
  <2>1. /\ rep' = [Callable!Cleared(x) EXCEPT ![x] = rep[y], ![y] = Callable!Empty]
        /\ ref' = [ref EXCEPT ![x] = ref[y], ![y] = "null"]
    BY <1>20 DEF Callable!AssignMove, Callable!Null
  <2> QED BY <1>4, <1>15, <2>1 DEF b
<1>21. CASE Callable!AssignMoveTo(x)
  <2>1. PICK alloc \in Allocators :
          /\ Callable!IsFat(y) /\ Callable!CallerOf(y).allocator # alloc => Callable!Unused # {}
          /\ rep' = IF ~Callable!IsFat(y) THEN [Callable!Cleared(x) EXCEPT ![x] = rep[y], ![y] = Callable!Empty]
                    ELSE IF Callable!CallerOf(y).allocator = alloc
                    THEN [Callable!Cleared(x) EXCEPT ![x] = rep[y],
                                            ![y] = [Callable!Empty EXCEPT !.type = "Fat"]]
                    ELSE [Callable!New(Callable!Cleared(x), x, Callable!CallerOf(y).object, alloc)
                            EXCEPT !.heap[rep[y].payload] = Callable!Free, ![y] = Callable!Empty]
          /\ ref' = [ref EXCEPT ![x] = ref[y], ![y] = "null"]
          /\ fault' = IF Callable!IsFat(y) /\ Callable!CallerOf(y).allocator = alloc
                      THEN "type without a caller" ELSE fault
    BY <1>21 DEF Callable!AssignMoveTo, Callable!Null
  <2>2. CASE ~Callable!IsFat(y)
    BY <1>4, <1>15, <2>1, <2>2 DEF b
  <2>3. CASE Callable!IsFat(y) /\ Callable!CallerOf(y).allocator = alloc
    <3>1. fault' # "none"
      BY <2>1, <2>3
    <3> QED BY <3>1 DEF FunctionInv
  <2>4. CASE Callable!IsFat(y) /\ Callable!CallerOf(y).allocator # alloc
    <3>1. ref[y] \in Code /\ Callable!CallerOf(y).object = ref[y] /\ b.payload \in Callers /\ b.type = "Fat"
      BY <1>7, <1>8, <1>9, <2>4
    <3>2. rep' = [Callable!New(cleared, x, ref[y], alloc) EXCEPT !.heap[b.payload] = Callable!Free, ![y] = Callable!Empty]
      BY <1>4, <2>1, <2>4, <3>1 DEF b
    <3>3. PICK c \in Callers :
            /\ rep.heap[c] = Callable!Free
            /\ Callable!New(cleared, x, ref[y], alloc)
                 = FunctionRep(rep, x, Callable!Fat(c), b, [h EXCEPT ![c] = [object |-> ref[y], allocator |-> alloc]])
      BY <1>4, <2>1, <2>4, <3>1
    <3> DEFINE full == [h EXCEPT ![c] = [object |-> ref[y], allocator |-> alloc]]
               heap == ClearedHeap(b, full)
    <3>4. FunctionsSound(Callable!Fat(c), b, full, ref[y], ref[y])
      BY <1>5, <3>1, <3>3, FunctionsFat
    <3> HIDE DEF full
    <3>5. FunctionsSound(b, Callable!Fat(c), full, ref[y], ref[y])
      BY <3>4, FunctionsSwap
    <3>6. FunctionsSound(Callable!Empty, Callable!Fat(c), heap, "null", ref[y])
      BY <3>5, FunctionsClear
    <3>7. FunctionsSound(Callable!Fat(c), Callable!Empty, heap, ref[y], "null")
      BY <3>6, FunctionsSwap
    <3>8. heap = [full EXCEPT ![b.payload] = Callable!Free]
      BY <3>1 DEF ClearedHeap
    <3> HIDE DEF heap
    <3>9. rep' = [FunctionRep(rep, x, Callable!Fat(c), b, full) EXCEPT !.heap[b.payload] = Callable!Free, ![y] = Callable!Empty]
      BY <3>2, <3>3 DEF full
    <3>10. rep' = FunctionRep(rep, x, Callable!Fat(c), Callable!Empty, heap)
      <4>1. x \in {"f", "g"} /\ y = (IF x = "f" THEN "g" ELSE "f")
        BY DEF Callable!Names, Callable!Other
      <4>2. CASE x = "f"
        BY <1>1, <3>8, <3>9, <4>1, <4>2 DEF FunctionRep, FunctionReps, Callable!Other
      <4>3. CASE x = "g"
        BY <1>1, <3>8, <3>9, <4>1, <4>3 DEF FunctionRep, FunctionReps, Callable!Other
      <4> QED BY <4>1, <4>2, <4>3
    <3>11. ref' = [ref EXCEPT ![x] = ref[y], ![y] = "null"]
      BY <2>1
    <3> QED BY <1>10, <3>7, <3>10, <3>11
  <2> QED BY <2>2, <2>3, <2>4
<1> QED BY <1>2, <1>16, <1>17, <1>18, <1>19, <1>20, <1>21

(* What FunctionInv says of each of the two. *)
LEMMA FunctionReads ==
  ASSUME FunctionConstants, FunctionInv, fault = "none", NEW x \in Callable!Names
  PROVE  /\ Callable!invoke(x) = ref[x]
         /\ rep[x].type = "Empty" <=> ref[x] = "null"
         /\ Callable!IsFat(x) => rep[x].payload \in Callers /\ rep.heap[rep[x].payload] # Callable!Free
<1> DEFINE a == rep[x]
<1>1. Calls(a, rep.heap, ref[x])
  BY DEF FunctionInv, FunctionsSound, Callable!Names
<1>2. Callable!Free.object = "null"
  BY DEF Callable!Free, Callable!Null
<1>3. Callable!IsFat(x) <=> a.type = "Fat"
  BY DEF Callable!IsFat
<1>4. Callable!invoke(x) = IF a.invoke = "cptr_invoker_pad" THEN rep.heap[a.payload].object
                           ELSE IF a.invoke = "fptr_invoker_pad" THEN a.payload ELSE "null"
  BY DEF Callable!invoke, Callable!CallerOf, Callable!Null
<1> HIDE DEF a
<1>5. CASE a = Callable!Empty /\ ref[x] = "null"
  BY <1>3, <1>4, <1>5, FunctionKinds DEF a
<1>6. CASE ref[x] \in Code /\ a = Callable!Thin(ref[x])
  BY <1>3, <1>4, <1>6, FunctionKinds DEF a, FunctionConstants
<1>7. ASSUME NEW c \in Callers, NEW alloc \in Allocators, ref[x] \in Code,
             a = Callable!Fat(c), rep.heap[c] = [object |-> ref[x], allocator |-> alloc]
      PROVE  /\ Callable!invoke(x) = ref[x]
             /\ rep[x].type = "Empty" <=> ref[x] = "null"
             /\ Callable!IsFat(x) => rep[x].payload \in Callers /\ rep.heap[rep[x].payload] # Callable!Free
  <2>1. a.type = "Fat" /\ a.payload = c /\ a.invoke = "cptr_invoker_pad"
    BY <1>7, FunctionKinds
  <2>2. rep.heap[c].object = ref[x]
    BY <1>7
  <2>3. ref[x] # "null"
    BY <1>7 DEF FunctionConstants
  <2>4. rep.heap[c] # Callable!Free
    BY <1>2, <2>2, <2>3
  <2> QED BY <1>3, <1>4, <2>1, <2>2, <2>3, <2>4 DEF a
<1> QED BY <1>1, <1>5, <1>6, <1>7 DEF Calls

(* Of two Functions in any number of callers and code: a call reaches what  *)
(* was assigned last, and the live callers are theirs, each of one.         *)
THEOREM FunctionHolds ==
  FunctionConstants => (Callable!Spec => [](Callable!ObjectsSound /\ Callable!Represents))
<1> SUFFICES ASSUME FunctionConstants
             PROVE  Callable!Spec => [](Callable!ObjectsSound /\ Callable!Represents)
  OBVIOUS
<1>1. Callable!Init => FunctionInv
  <2> SUFFICES ASSUME Callable!Init
               PROVE  FunctionInv
    OBVIOUS
  <2>1. /\ rep = [f |-> Callable!Empty, g |-> Callable!Empty, heap |-> [c \in Callers |-> Callable!Free]]
        /\ ref = [x \in Callable!Names |-> "null"]
    BY DEF Callable!Init, Callable!Null
  <2>2. [c \in Callers |-> Callable!Free] \in FunctionHeaps
    BY DEF FunctionHeaps, Callable!Free, Callable!Null
  <2>3. rep \in FunctionReps
    BY <2>1, <2>2, FunctionKinds DEF FunctionReps
  <2>4. rep.f = Callable!Empty /\ rep.g = Callable!Empty /\ \A c \in Callers : rep.heap[c] = Callable!Free
    BY <2>1
  <2>5. ref["f"] = "null" /\ ref["g"] = "null"
    BY <2>1 DEF Callable!Names
  <2>6. FunctionsSound(rep.f, rep.g, rep.heap, ref["f"], ref["g"])
    BY <2>1, <2>2, <2>4, <2>5, FunctionKinds DEF FunctionsSound, Calls
  <2> QED BY <2>1, <2>3, <2>6 DEF FunctionInv
<1>2. FunctionInv /\ [Callable!Next]_Callable!vars => FunctionInv'
  <2>1. ASSUME FunctionInv, UNCHANGED Callable!vars
        PROVE  FunctionInv'
    BY <2>1 DEF Callable!vars, FunctionInv
  <2> QED BY <2>1, FunctionStep
<1>3. ASSUME FunctionInv, fault = "none"
      PROVE  /\ {c \in Callers : rep.heap[c] # Callable!Free}
                   = {rep[x].payload : x \in {y \in Callable!Names : Callable!IsFat(y)}}
             /\ Callable!IsFat("f") /\ Callable!IsFat("g") => rep.f.payload # rep.g.payload
  <2>1. Callable!Names = {"f", "g"} /\ \A x \in Callable!Names : Callable!IsFat(x) <=> rep[x].type = "Fat"
    BY DEF Callable!Names, Callable!IsFat
  <2>2. \A x \in Callable!Names : Callable!IsFat(x) =>
           rep[x].payload \in Callers /\ rep.heap[rep[x].payload] # Callable!Free
    BY <1>3, FunctionReads
  <2>3. FunctionsSound(rep["f"], rep["g"], rep.heap, ref["f"], ref["g"])
    BY <1>3 DEF FunctionInv
  <2>4. \A c \in Callers : rep.heap[c] # Callable!Free =>
           \E x \in Callable!Names : Callable!IsFat(x) /\ rep[x].payload = c
    BY <2>1, <2>3 DEF FunctionsSound
  <2>5. Callable!IsFat("f") /\ Callable!IsFat("g") => rep["f"].payload # rep["g"].payload
    BY <2>1, <2>3 DEF FunctionsSound
  <2> HIDE DEF Callable!IsFat
  <2> QED BY <2>2, <2>4, <2>5
<1>4. FunctionInv => Callable!ObjectsSound
  BY <1>3 DEF Callable!ObjectsSound
<1>5. FunctionInv => Callable!Represents
  BY FunctionReads DEF Callable!Represents, Callable!Null
<1> QED
  BY <1>1, <1>2, <1>4, <1>5, PTL DEF Callable!Spec
-----------------------------------------------------------------------------
(* Timers and standard input. What is pending exists and is expected, and   *)
(* what is expected is pending; whoever is called exists.                   *)
EventCells == [exists : BOOLEAN, pending : BOOLEAN, persist : BOOLEAN]
EventReps  == [event : [Event!Handles -> EventCells], calling : Event!Handles \cup {"nobody"},
               is_running : BOOLEAN, stdin : BOOLEAN]

Expected(r, armed) ==
    /\ \A h \in Event!Handles : r.event[h].pending <=> h \in armed
    /\ \A h \in Event!Handles : r.event[h].pending => r.event[h].exists
    /\ r.calling # "nobody" => r.event[r.calling].exists

EventInv ==
    fault = "none" => rep \in EventReps /\ ref \in [armed : SUBSET Event!Handles] /\ Expected(rep, ref.armed)

(* A call sets the event of one handle, and what else it sets of rep is     *)
(* whether input is open and who is called.                                 *)
LEMMA EventPut ==
  ASSUME EventInv, fault = "none", NEW h \in Event!Handles, NEW cell \in EventCells, NEW armed,
         rep' \in EventReps, rep'.event = [rep.event EXCEPT ![h] = cell],
         ref' = [armed |-> armed], armed \in {ref.armed \cup {h}, ref.armed \ {h}, ref.armed},
         cell.pending <=> h \in armed, cell.pending => cell.exists,
         \/ rep'.calling = rep.calling /\ (rep.calling = h /\ h # "nobody" => cell.exists)
         \/ rep'.calling = h /\ cell.exists
  PROVE  EventInv'
<1>1. /\ rep \in EventReps /\ ref \in [armed : SUBSET Event!Handles]
      /\ \A k \in Event!Handles : rep.event[k].pending <=> k \in ref.armed
      /\ \A k \in Event!Handles : rep.event[k].pending => rep.event[k].exists
      /\ rep.calling # "nobody" => rep.event[rep.calling].exists
  BY DEF EventInv, Expected
<1>2. rep'.event[h] = cell /\ \A k \in Event!Handles : k # h => rep'.event[k] = rep.event[k]
  BY <1>1 DEF EventReps
<1>3. ref'.armed = armed /\ ref' \in [armed : SUBSET Event!Handles]
  BY <1>1
<1>4. \A k \in Event!Handles : k # h => (k \in armed <=> k \in ref.armed)
  OBVIOUS
<1>5. ASSUME NEW k \in Event!Handles
      PROVE  /\ rep'.event[k].pending <=> k \in armed
             /\ rep'.event[k].pending => rep'.event[k].exists
  <2>1. CASE k = h
    BY <1>2, <2>1, Zenon
  <2>2. CASE k # h
    BY <1>1, <1>2, <1>4, <2>2, Zenon
  <2> QED BY <2>1, <2>2
<1>6. rep'.calling # "nobody" => rep'.event[rep'.calling].exists
  <2>1. CASE rep'.calling = h /\ cell.exists
    BY <1>2, <2>1, Zenon
  <2>2. CASE rep'.calling = rep.calling /\ (rep.calling = h /\ h # "nobody" => cell.exists)
    <3>1. CASE rep.calling = h
      BY <1>2, <2>2, <3>1, Zenon
    <3>2. CASE rep.calling # h
      <4>1. rep.calling # "nobody" => rep.calling \in Event!Handles
        BY <1>1 DEF EventReps
      <4> QED BY <1>1, <1>2, <2>2, <3>2, <4>1, Zenon
    <3> QED BY <3>1, <3>2
  <2> QED BY <2>1, <2>2
<1> QED BY <1>3, <1>5, <1>6, Zenon DEF EventInv, Expected

(* The same handle's event with one field set anew. *)
LEMMA EventRecords ==
  ASSUME NEW r \in EventReps, NEW h \in Event!Handles
  PROVE  /\ \A b \in BOOLEAN :
              /\ [r.event[h] EXCEPT !.pending = b] \in EventCells
              /\ [r.event[h] EXCEPT !.pending = b].pending = b
              /\ [r.event[h] EXCEPT !.pending = b].exists = r.event[h].exists
              /\ [r EXCEPT !.event[h].pending = b] \in EventReps
              /\ [r EXCEPT !.event[h].pending = b].event = [r.event EXCEPT ![h] = [r.event[h] EXCEPT !.pending = b]]
              /\ [r EXCEPT !.event[h].pending = b].calling = r.calling
         /\ \A cell \in EventCells :
              /\ [r EXCEPT !.event[h] = cell] \in EventReps
              /\ [r EXCEPT !.event[h] = cell].event = [r.event EXCEPT ![h] = cell]
              /\ [r EXCEPT !.event[h] = cell].calling = r.calling
<1>1. r.event[h] \in EventCells /\ r.event \in [Event!Handles -> EventCells]
  BY DEF EventReps
<1>2. ASSUME NEW cell \in EventCells
      PROVE  /\ [r EXCEPT !.event[h] = cell] \in EventReps
             /\ [r EXCEPT !.event[h] = cell].event = [r.event EXCEPT ![h] = cell]
             /\ [r EXCEPT !.event[h] = cell].calling = r.calling
  BY <1>1 DEF EventReps
<1>3. ASSUME NEW b \in BOOLEAN
      PROVE  /\ [r.event[h] EXCEPT !.pending = b] \in EventCells
             /\ [r.event[h] EXCEPT !.pending = b].pending = b
             /\ [r.event[h] EXCEPT !.pending = b].exists = r.event[h].exists
  BY <1>1 DEF EventCells
<1>4. ASSUME NEW b \in BOOLEAN
      PROVE  [r EXCEPT !.event[h].pending = b] = [r EXCEPT !.event[h] = [r.event[h] EXCEPT !.pending = b]]
  BY <1>1 DEF EventReps
<1> QED BY <1>2, <1>3, <1>4

(* Every call, and every event that libevent dispatches. *)
LEMMA EventStep ==
  ASSUME EventInv, Event!Next
  PROVE  EventInv'
<1>1. /\ fault = "none" /\ rep \in EventReps /\ ref \in [armed : SUBSET Event!Handles]
      /\ \A h \in Event!Handles : rep.event[h].pending <=> h \in ref.armed
      /\ \A h \in Event!Handles : rep.event[h].pending => rep.event[h].exists
      /\ rep.calling # "nobody" => rep.event[rep.calling].exists
  BY DEF Event!Next, EventInv, Expected
<1>2. ASSUME rep' \in EventReps, rep'.event = rep.event, rep'.calling \in {rep.calling, "nobody"}, ref' = ref
      PROVE  EventInv'
  BY <1>1, <1>2 DEF EventInv, Expected
(* A handle is made, with its event pending. *)
<1>3. ASSUME NEW h \in Event!Handles, NEW persist \in BOOLEAN,
             rep' = Event!activate(Event!Created(h, persist), h), ref' = [armed |-> ref.armed \cup {h}]
      PROVE  EventInv'
  <2> DEFINE new == [exists |-> TRUE, pending |-> FALSE, persist |-> persist]
             r == [rep EXCEPT !.event[h] = new]
             cell == [r.event[h] EXCEPT !.pending = TRUE]
  <2>1. new \in EventCells /\ new.exists = TRUE
    BY DEF EventCells
  <2>2. rep' = [r EXCEPT !.event[h].pending = TRUE]
    BY <1>3 DEF Event!activate, Event!Created
  <2> HIDE DEF new
  <2>3. r \in EventReps /\ r.event = [rep.event EXCEPT ![h] = new] /\ r.calling = rep.calling
    BY <1>1, <2>1, EventRecords
  <2> HIDE DEF r
  <2>4. /\ cell \in EventCells /\ cell.pending = TRUE /\ cell.exists = r.event[h].exists
        /\ rep' \in EventReps /\ rep'.event = [r.event EXCEPT ![h] = cell] /\ rep'.calling = r.calling
    <3>1. r.event[h] \in EventCells
      BY ONLY <2>3, h \in Event!Handles DEF EventReps
    <3>2. cell \in EventCells /\ cell.pending = TRUE /\ cell.exists = r.event[h].exists
      BY ONLY <3>1 DEF EventCells
    <3>3. rep' = [r EXCEPT !.event[h] = cell]
      BY ONLY <2>2, <2>3, h \in Event!Handles DEF EventReps
    <3> HIDE DEF cell
    <3> QED BY ONLY <2>3, <3>2, <3>3, h \in Event!Handles, EventRecords
  <2> HIDE DEF cell
  <2>5. r.event[h] = new
    BY <1>1, <2>3 DEF EventReps
  <2>6. rep'.event = [rep.event EXCEPT ![h] = cell]
    BY <2>3, <2>4
  <2>7. cell.exists /\ cell.pending
    BY <2>1, <2>4, <2>5, Zenon
  <2> QED BY <1>1, <1>3, <2>3, <2>4, <2>6, <2>7, EventPut
(* Its event is added or taken off. *)
<1>4. ASSUME NEW h \in Event!Handles, NEW b \in BOOLEAN, NEW armed, b => rep.event[h].exists,
             rep' = [rep EXCEPT !.event[h].pending = b], ref' = [armed |-> armed],
             armed \in {ref.armed \cup {h}, ref.armed \ {h}, ref.armed}, b <=> h \in armed
      PROVE  EventInv'
  <2> DEFINE cell == [rep.event[h] EXCEPT !.pending = b]
  <2>1. /\ cell \in EventCells /\ cell.pending = b /\ cell.exists = rep.event[h].exists
        /\ rep' \in EventReps /\ rep'.event = [rep.event EXCEPT ![h] = cell] /\ rep'.calling = rep.calling
    BY <1>1, <1>4, EventRecords
  <2> HIDE DEF cell
  <2>2. (cell.pending <=> h \in armed) /\ (cell.pending => cell.exists)
    BY <1>4, <2>1, Zenon
  <2>3. rep.calling = h /\ h # "nobody" => cell.exists
    BY <1>1, <2>1, Zenon
  <2> QED BY <1>1, <1>4, <2>1, <2>2, <2>3, EventPut
<1>5. ASSUME NEW t \in Timers, Event!schedule(t) \/ Event!call_repeatedly(t)
      PROVE  EventInv'
  BY <1>3, <1>5 DEF Event!schedule, Event!call_repeatedly, Event!Handles
<1>6. CASE Event!stdin
  BY <1>3, <1>6 DEF Event!stdin, Event!Handles
<1>7. ASSUME NEW h \in Event!Handles, Event!Activate(h)
      PROVE  EventInv'
  <2>1. /\ rep.event[h].exists
        /\ rep' = [rep EXCEPT !.event[h].pending = TRUE] /\ ref' = [armed |-> ref.armed \cup {h}]
    BY <1>7 DEF Event!Activate, Event!activate
  <2>2. TRUE \in BOOLEAN /\ (TRUE <=> h \in ref.armed \cup {h})
    OBVIOUS
  <2> QED BY <1>4, <2>1, <2>2
<1>8. ASSUME NEW h \in Event!Handles, Event!Cancel(h)
      PROVE  EventInv'
  BY <1>4, <1>8 DEF Event!Cancel, Event!cancel
<1>9. ASSUME NEW h \in Event!Handles, Event!set_timeout(h)
      PROVE  EventInv'
  <2>1. CASE rep.event[h].pending
    <3>1. rep' = [rep EXCEPT !.event[h].pending = TRUE] /\ ref' = ref
      BY <1>9, <2>1 DEF Event!set_timeout, Event!is_active, Event!activate
    <3>2. ref = [armed |-> ref.armed] /\ h \in ref.armed /\ rep.event[h].exists
      BY <1>1, <2>1
    <3> QED BY <1>4, <3>1, <3>2
  <2>2. CASE ~rep.event[h].pending
    <3>1. rep' = rep /\ ref' = ref
      BY <1>9, <2>2 DEF Event!set_timeout, Event!is_active
    <3> QED BY <1>1, <1>2, <3>1
  <2> QED BY <2>1, <2>2
<1>10. ASSUME NEW h \in Event!Handles, Event!Destroy(h)
       PROVE  EventInv'
  <2> DEFINE r == [rep EXCEPT !.event[h].pending = FALSE]
             cell == Event!NoEvent
  <2>1. /\ rep' = [r EXCEPT !.event[h] = cell, !.stdin = @ /\ h # StdIn]
        /\ ref' = [armed |-> ref.armed \ {h}]
        /\ fault' = IF rep.calling = h THEN "destroyed by its callback" ELSE fault
    BY <1>10 DEF Event!Destroy, Event!cancel
  <2>2. cell \in EventCells /\ cell.pending = FALSE
    BY DEF Event!NoEvent, EventCells
  <2>3. r \in EventReps /\ r.event = [rep.event EXCEPT ![h] = [rep.event[h] EXCEPT !.pending = FALSE]] /\ r.calling = rep.calling
    BY <1>1, EventRecords
  <2> HIDE DEF r, cell
  <2>4. rep' \in EventReps /\ rep'.event = [r.event EXCEPT ![h] = cell] /\ rep'.calling = r.calling
    BY <2>1, <2>2, <2>3 DEF EventReps
  <2>5. rep'.event = [rep.event EXCEPT ![h] = cell]
    BY <2>3, <2>4
  <2>6. CASE rep.calling = h
    BY <2>1, <2>6 DEF EventInv
  <2>7. CASE rep.calling # h
    <3>1. (cell.pending <=> h \in ref.armed \ {h}) /\ (cell.pending => cell.exists)
      BY <2>2, Zenon
    <3> QED BY <1>1, <2>1, <2>2, <2>3, <2>4, <2>5, <2>7, <3>1, EventPut
  <2> QED BY <2>6, <2>7
<1>11. ASSUME NEW h \in Event!Handles, Event!Dispatch(h)
       PROVE  EventInv'
  <2>1. CASE h = StdIn
    BY <1>11, <2>1 DEF Event!Dispatch, EventInv
  <2>2. CASE h # StdIn
    <3> DEFINE b == rep.event[h].persist
               r == [rep EXCEPT !.event[h].pending = b]
               cell == [rep.event[h] EXCEPT !.pending = b]
               armed == IF b THEN ref.armed ELSE ref.armed \ {h}
    <3>1. /\ rep.event[h].pending
          /\ rep' = [rep EXCEPT !.event[h].pending = b, !.calling = h] /\ ref' = [armed |-> armed]
      BY <1>11, <2>2 DEF Event!Dispatch, Event!is_active, Event!is_repeating
    <3>2. b \in BOOLEAN
      BY <1>1 DEF EventReps, EventCells
    <3>3. rep' = [r EXCEPT !.calling = h]
      BY <1>1, <3>1 DEF EventReps
    <3>4. h \in ref.armed /\ rep.event[h].exists
      BY <1>1, <3>1
    <3>5. armed \in {ref.armed \cup {h}, ref.armed \ {h}, ref.armed} /\ (b <=> h \in armed)
      <4> HIDE DEF b
      <4> QED BY <3>2, <3>4
    <3> HIDE DEF b, armed
    <3>6. /\ cell \in EventCells /\ cell.pending = b /\ cell.exists = rep.event[h].exists
          /\ r \in EventReps /\ r.event = [rep.event EXCEPT ![h] = cell]
      BY <1>1, <3>2, EventRecords
    <3> HIDE DEF r, cell
    <3>7. rep' \in EventReps /\ rep'.event = r.event /\ rep'.calling = h
      BY <3>3, <3>6 DEF EventReps
    <3>8. (cell.pending <=> h \in armed) /\ (cell.pending => cell.exists) /\ cell.exists
      BY <3>4, <3>5, <3>6, Zenon
    <3> QED BY <1>1, <3>1, <3>5, <3>6, <3>7, <3>8, EventPut
  <2> QED BY <2>1, <2>2
<1>12. CASE Event!quit
  <2>1. rep' = [rep EXCEPT !.is_running = FALSE] /\ ref' = ref
    BY <1>12 DEF Event!quit
  <2>2. rep' \in EventReps /\ rep'.event = rep.event /\ rep'.calling = rep.calling
    BY <1>1, <2>1 DEF EventReps
  <2> QED BY <1>2, <2>1, <2>2
<1>13. CASE Event!DispatchLate
  BY <1>13 DEF Event!DispatchLate, EventInv
<1>14. CASE Event!CallbackReturns
  <2>1. rep' = [rep EXCEPT !.calling = "nobody"] /\ ref' = ref
    BY <1>14 DEF Event!CallbackReturns, Event!Nobody
  <2>2. rep' \in EventReps /\ rep'.event = rep.event /\ rep'.calling = "nobody"
    BY <1>1, <2>1 DEF EventReps
  <2> QED BY <1>2, <2>1, <2>2
<1> QED BY <1>5, <1>6, <1>7, <1>8, <1>9, <1>10, <1>11, <1>12, <1>13, <1>14 DEF Event!Next

(* Of any timers: the events that are pending are those of the handles from *)
(* which a callback is to be expected, also when callbacks schedule, cancel *)
(* and destroy, and a callback only runs on a handle that is alive.         *)
THEOREM EventsHold ==
  Event!Spec => [](Event!ObjectsSound /\ Event!Represents)
<1>1. Event!Init => EventInv
  <2> SUFFICES ASSUME Event!Init
               PROVE  EventInv
    OBVIOUS
  <2>1. /\ rep = [event |-> [h \in Event!Handles |-> Event!NoEvent], calling |-> "nobody",
                  is_running |-> TRUE, stdin |-> TRUE]
        /\ ref = [armed |-> {}]
    BY DEF Event!Init, Event!Nobody
  <2>2. Event!NoEvent \in EventCells /\ Event!NoEvent.pending = FALSE
    BY DEF Event!NoEvent, EventCells
  <2>3. rep \in EventReps /\ rep.calling = "nobody" /\ \A h \in Event!Handles : rep.event[h] = Event!NoEvent
    BY <2>1, <2>2 DEF EventReps
  <2>4. ref.armed = {} /\ ref \in [armed : SUBSET Event!Handles]
    BY <2>1
  <2>5. \A h \in Event!Handles : rep.event[h].pending = FALSE
    BY <2>2, <2>3
  <2> QED BY <2>3, <2>4, <2>5 DEF EventInv, Expected
<1>2. EventInv /\ [Event!Next]_Event!vars => EventInv'
  <2>1. ASSUME EventInv, UNCHANGED Event!vars
        PROVE  EventInv'
    BY <2>1 DEF Event!vars, EventInv, Expected
  <2> QED BY <2>1, EventStep
<1>3. EventInv => Event!ObjectsSound
  BY DEF EventInv, Expected, Event!ObjectsSound, Event!Nobody
<1>4. EventInv => Event!Represents
  BY DEF EventInv, Expected, Event!Represents, Event!is_active
<1> QED BY <1>1, <1>2, <1>3, <1>4, PTL DEF Event!Spec

-----------------------------------------------------------------------------
(* Array. Each array holds its sequence in the first places of its memory. *)
ArrayRecs == [cells : Seq(Int), size : Nat]

ArrayOf(array, values) ==
    array \in ArrayRecs /\ array.size = Len(values) /\ Holds(array.cells, values)

ArrayInv ==
    fault = "none" =>
      /\ rep \in [a : ArrayRecs, b : ArrayRecs, shared : BOOLEAN, lost : {0}]
      /\ ref \in [a : Seq(Objs), b : Seq(Objs)]
      /\ ArrayOf(rep.a, ref.a) /\ ArrayOf(rep.b, ref.b)

(* Grown memory has room for what is asked for, up to the page and beyond. *)
LEMMA GrowFacts ==
  ASSUME NEW n, n \in Nat
  PROVE  Array!Grow(n) \in Nat /\ n <= Array!Grow(n)
BY DEF Array!Grow

(* reserve keeps the elements and makes room for as many as it is asked for. *)
LEMMA ArrayReserve ==
  ASSUME NEW array, NEW values, NEW n, ArrayOf(array, values), n \in Nat
  PROVE  /\ ArrayOf(Array!reserve(array, n), values)
         /\ n <= Len(Array!reserve(array, n).cells)
<1> DEFINE old == array.cells
           new == Array!resize_allocation(old, array.size, n)
           s == Len(values)
<1>1. Array!reserve(array, n) = [cells |-> new, size |-> array.size]
  BY DEF Array!reserve, ArrayOf, ArrayRecs
<1>2. /\ old \in Seq(Int) /\ s \in Nat /\ array.size = s /\ s <= Len(old) /\ values \in Seq(Objs) /\ Len(old) \in Nat
      /\ \A i \in 1 .. Len(old) : old[i] = IF i <= s THEN values[i] ELSE Memory!Raw
  BY DEF ArrayOf, ArrayRecs, Holds
<1>3. new \in Seq(Int) /\ Holds(new, values) /\ n <= Len(new)
  <2>1. CASE n <= Len(old)
    <3>1. new = old
      BY <2>1 DEF Array!resize_allocation
    <3> QED BY <1>2, <2>1, <3>1 DEF ArrayOf
  <2>2. CASE ~(n <= Len(old))
    <3> DEFINE g == Array!Grow(n)
    <3>1. g \in Nat /\ n <= g /\ s <= g
      <4>1. g \in Nat /\ n <= g
        BY GrowFacts
      <4> QED BY <1>2, <2>2, <4>1
    <3>2. new = [i \in 1 .. g |-> IF i <= s THEN Array!Construct(Array!Raw, old[i]) ELSE Array!Raw]
      BY <1>2, <2>2 DEF Array!resize_allocation
    <3> HIDE DEF g, new, old, s
    <3>3. ASSUME NEW i \in 1 .. g
          PROVE  new[i] = (IF i <= s THEN values[i] ELSE Memory!Raw) /\ new[i] \in Int
      <4>1. CASE i <= s
        <5>1. i \in 1 .. s /\ i \in 1 .. Len(old)
          BY ONLY <1>2, <4>1, i \in 1 .. g, <3>1
        <5>2. old[i] = values[i] /\ values[i] \in Objs
          BY <1>2, <4>1, <5>1 DEF s
        <5>3. Array!Construct(Array!Raw, old[i]) = old[i] /\ old[i] \in Int
          <6>1. old[i] \in Int /\ Memory!IsObject(old[i])
            BY <5>2, ObjectFacts
          <6>2. Array!IsObject(old[i])
            BY <6>1 DEF Array!IsObject, Memory!IsObject, Array!Moved, Memory!Moved
          <6> QED BY <6>1, <6>2 DEF Array!Construct
        <5> QED BY <3>2, <4>1, <5>2, <5>3
      <4>2. CASE ~(i <= s)
        BY <3>2, <4>2 DEF Array!Raw, Memory!Raw
      <4> QED BY <4>1, <4>2
    <3>4. new \in Seq(Int) /\ Len(new) = g
      <4>1. new \in [1 .. g -> Int]
        BY <3>2, <3>3
      <4> QED BY <3>1, <4>1
    <3> QED BY <1>2, <3>1, <3>3, <3>4 DEF Holds, s
  <2> QED BY <2>1, <2>2
<1> HIDE DEF new
<1> QED BY <1>1, <1>2, <1>3 DEF ArrayOf, ArrayRecs

(* The operators on memory are those of ObjectMemory. *)
LEMMA ArrayMemory ==
  ASSUME NEW memory, NEW size, NEW at, NEW add, NEW items, NEW value, NEW place
  PROVE  /\ Array!ShiftUp(memory, size, at, add) = Memory!ShiftUp(memory, size, at, add)
         /\ Array!Fill(memory, size, at, items) = Memory!Fill(memory, size, at, items)
         /\ Array!ShiftDown(memory, size, at) = Memory!ShiftDown(memory, size, at)
         /\ Array!Inserted(memory, at, items) = Memory!Inserted(memory, at, items)
         /\ Array!destruct_range(memory, 1, size) = Memory!destruct_range(memory, 1, size)
         /\ Array!Occupied(memory) = Memory!Occupied(memory)
         /\ Array!Values(memory, size) = Memory!Values(memory, size)
         /\ Array!Construct(place, value) = Memory!Construct(place, value)
         /\ Array!Destroy(place) = Memory!Destroy(place)
         /\ Array!IsObject(place) = Memory!IsObject(place)
         /\ Array!Raw = Memory!Raw /\ Array!Moved = Memory!Moved
<1> USE DEF Array!Leave, Memory!Leave, Array!Construct, Memory!Construct, Array!Assign, Memory!Assign,
     Array!IsObject, Memory!IsObject, Array!Raw, Memory!Raw, Array!Moved, Memory!Moved, Array!Bad, Memory!Bad,
     Array!Destroy, Memory!Destroy
<1>1. Array!ShiftUp(memory, size, at, add) = Memory!ShiftUp(memory, size, at, add)
  BY Zenon DEF Array!ShiftUp, Memory!ShiftUp, Array!move_or_copy, Memory!move_or_copy,
     Array!move_or_copy_construct, Memory!move_or_copy_construct
<1>2. Array!Fill(memory, size, at, items) = Memory!Fill(memory, size, at, items)
  BY Zenon DEF Array!Fill, Memory!Fill
<1>3. Array!ShiftDown(memory, size, at) = Memory!ShiftDown(memory, size, at)
  BY Zenon DEF Array!ShiftDown, Memory!ShiftDown, Array!move_or_copy, Memory!move_or_copy
<1>4. /\ Array!Inserted(memory, at, items) = Memory!Inserted(memory, at, items)
      /\ Array!Values(memory, size) = Memory!Values(memory, size)
      /\ Array!Occupied(memory) = Memory!Occupied(memory)
      /\ Array!destruct_range(memory, 1, size) = Memory!destruct_range(memory, 1, size)
  BY Zenon DEF Array!Inserted, Memory!Inserted, Array!Values, Memory!Values, Array!Occupied, Memory!Occupied,
     Array!destruct_range, Memory!destruct_range
<1>5. /\ Array!Construct(place, value) = Memory!Construct(place, value)
      /\ Array!Destroy(place) = Memory!Destroy(place)
      /\ Array!IsObject(place) = Memory!IsObject(place)
      /\ Array!Raw = Memory!Raw /\ Array!Moved = Memory!Moved
  BY Zenon
<1> QED BY <1>1, <1>2, <1>3, <1>4, <1>5

(* insert, in place or after a growth. *)
LEMMA ArrayInsert ==
  ASSUME NEW array, NEW values, NEW items, NEW at, ArrayOf(array, values), items \in Seq(Objs), at \in 0 .. Len(values)
  PROVE  ArrayOf(Array!insert(array, items, at), Array!Inserted(values, at, items))
<1> DEFINE room == Array!reserve(array, array.size + Len(items)).cells
           cells == Memory!Fill(Memory!ShiftUp(room, Len(values), at, Len(items)), Len(values), at, items)
           w == Memory!Inserted(values, at, items)
<1>1. /\ array.size = Len(values) /\ Len(values) \in Nat /\ Len(items) \in Nat /\ values \in Seq(Objs)
      /\ array.size + Len(items) \in Nat
  BY DEF ArrayOf, Holds
<1>2. Holds(room, values) /\ Len(values) + Len(items) <= Len(room)
  <2>1. /\ ArrayOf(Array!reserve(array, array.size + Len(items)), values)
        /\ array.size + Len(items) <= Len(Array!reserve(array, array.size + Len(items)).cells)
    BY <1>1, ArrayReserve
  <2> QED BY <1>1, <2>1 DEF ArrayOf
<1> HIDE DEF room
<1>3. Holds(cells, w)
  BY <1>2, InsertFacts
<1>4. w \in Seq(Objs) /\ Len(w) = Len(values) + Len(items)
  BY <1>1, InsertedFacts
<1>5. /\ Array!Inserted(values, at, items) = w
      /\ Array!insert(array, items, at) = [cells |-> cells, size |-> array.size + Len(items)]
  <2>1. Array!Inserted(values, at, items) = w
    BY ONLY ArrayMemory DEF w
  <2>2. Array!Fill(Array!ShiftUp(room, Len(values), at, Len(items)), Len(values), at, items) = cells
    <3>1. Array!ShiftUp(room, Len(values), at, Len(items)) = Memory!ShiftUp(room, Len(values), at, Len(items))
      BY ONLY ArrayMemory
    <3> DEFINE up == Memory!ShiftUp(room, Len(values), at, Len(items))
    <3> HIDE DEF up
    <3>2. Array!Fill(up, Len(values), at, items) = Memory!Fill(up, Len(values), at, items)
      BY ONLY ArrayMemory
    <3> QED BY ONLY <3>1, <3>2 DEF up, cells
  <2> HIDE DEF cells
  <2> QED BY <1>1, <2>1, <2>2 DEF Array!insert, room
<1> HIDE DEF cells, w
<1>6. cells \in Seq(Int)
  BY <1>3 DEF Holds
<1> QED BY <1>1, <1>3, <1>4, <1>5, <1>6 DEF ArrayOf, ArrayRecs

(* push_back, with room for one more or after growing. *)
LEMMA ArrayPush ==
  ASSUME NEW array, NEW values, NEW value, ArrayOf(array, values), value \in Objs
  PROVE  ArrayOf(Array!push_back(array, value), Append(values, value))
<1> DEFINE room == Array!reserve(array, array.size + 1).cells
           n == Len(values)
           cells == [room EXCEPT ![n + 1] = Memory!Construct(@, value)]
           w == Append(values, value)
<1>1. array.size = n /\ n \in Nat /\ values \in Seq(Objs) /\ array.size + 1 \in Nat
  BY DEF ArrayOf, Holds
<1>2. Holds(room, values) /\ n + 1 <= Len(room)
  <2>1. ArrayOf(Array!reserve(array, array.size + 1), values) /\ array.size + 1 <= Len(room)
    BY <1>1, ArrayReserve
  <2> QED BY <1>1, <2>1 DEF ArrayOf
<1>3. Array!push_back(array, value) = [cells |-> cells, size |-> n + 1]
  <2>1. Array!Construct(room[n + 1], value) = Memory!Construct(room[n + 1], value)
    BY ONLY ArrayMemory
  <2>2. Array!push_back(array, value)
          = [cells |-> [room EXCEPT ![n + 1] = Array!Construct(room[n + 1], value)], size |-> n + 1]
    BY <1>1 DEF Array!push_back
  <2> HIDE DEF room
  <2> QED BY <2>1, <2>2
<1> HIDE DEF room
<1>4. Holds(cells, w)
  BY <1>2, BehindFacts
<1>5. w \in Seq(Objs) /\ Len(w) = n + 1
  BY <1>1
<1> HIDE DEF cells, w, n
<1>6. cells \in Seq(Int)
  BY <1>4 DEF Holds
<1> QED BY <1>1, <1>3, <1>4, <1>5, <1>6 DEF ArrayOf, ArrayRecs, w

(* resize: a loop of push_back, after one growth. *)
LEMMA ArrayResize ==
  ASSUME NEW array, NEW values, NEW n, NEW value, ArrayOf(array, values), n \in Nat, value \in Objs
  PROVE  ArrayOf(Array!resize(array, n, value), Longer(values, n, value))
<1> DEFINE S == ArrayRecs
           first == Array!reserve(array, n)
           G == [k \in 0 .. n |-> {r \in S : ArrayOf(r, Longer(values, k, value))}]
           Push(r, k) == IF k <= array.size THEN first ELSE Array!push_back(r, value)
           longer[k \in 0 .. n] == IF k <= array.size THEN first ELSE Array!push_back(longer[k - 1], value)
<1>1. Array!resize(array, n, value) = longer[n]
  BY DEF Array!resize
<1> HIDE DEF longer
<1>2. array.size = Len(values) /\ Len(values) \in Nat /\ values \in Seq(Objs)
  BY DEF ArrayOf, Holds
<1>3. ArrayOf(first, values) /\ first \in S
  BY ArrayReserve DEF ArrayOf
<1> HIDE DEF S, first
<1>4. \A k \in 0 .. n : k <= array.size => first \in G[k]
  <2> SUFFICES ASSUME NEW k \in 0 .. n, k <= array.size
               PROVE  ArrayOf(first, Longer(values, k, value))
    BY <1>3
  <2>1. Longer(values, k, value) = values
    BY <1>2, LongerFacts
  <2> QED BY <1>3, <2>1
<1>5. \A k \in 0 .. n : G[k] \subseteq S
  OBVIOUS
<1>6. ASSUME NEW k \in 1 .. n, NEW r \in G[k - 1]
      PROVE  Push(r, k) \in G[k]
  <2>1. k \in 0 .. n /\ k - 1 \in 0 .. n /\ k - 1 \in Nat /\ (k - 1) + 1 = k
    OBVIOUS
  <2>2. CASE k <= array.size
    BY <1>4, <2>1, <2>2
  <2>3. CASE ~(k <= array.size)
    <3>1. k - 1 >= Len(values)
      BY <1>2, <2>3
    <3>2. ArrayOf(r, Longer(values, k - 1, value))
      BY <1>6, <2>1
    <3>3. ArrayOf(Array!push_back(r, value), Append(Longer(values, k - 1, value), value))
      BY <3>2, ArrayPush
    <3>4. Longer(values, k, value) = Append(Longer(values, k - 1, value), value)
      <4>1. Longer(values, (k - 1) + 1, value) = Append(Longer(values, k - 1, value), value)
        BY <1>2, <2>1, <3>1, LongerFacts
      <4> QED BY <2>1, <4>1
    <3>5. ArrayOf(Array!push_back(r, value), Longer(values, k, value)) /\ Array!push_back(r, value) \in S
      BY <3>3, <3>4 DEF ArrayOf, S
    <3> QED BY <2>1, <2>3, <3>5
  <2> QED BY <2>2, <2>3
<1>7. 0 \in 0 .. n /\ n \in 0 .. n /\ 0 <= array.size
  BY <1>2
<1> HIDE DEF G, Push
<1>8. longer = [k \in 0 .. n |-> IF k <= array.size THEN first ELSE Array!push_back(longer[k - 1], value)]
  <2> DEFINE step == [x \in (1 .. n) \X S |-> Push(x[2], x[1])]
  <2>1. \A k \in 1 .. n, r \in S : step[<<k, r>>] = Push(r, k)
    OBVIOUS
  <2> HIDE DEF step
  <2>2. \A k \in 1 .. n : k \in 0 .. n /\ k - 1 \in 0 .. n
    OBVIOUS
  <2>3. LoopSteps(n, S, G, first, step)
    BY <1>4, <1>5, <1>6, <1>7, <2>1, <2>2 DEF LoopSteps
  <2>4. PICK f \in [0 .. n -> S] : f[0] = first /\ \A k \in 1 .. n : f[k] = step[<<k, f[k - 1]>>]
    <3>1. LoopRuns(n, S, G, first, step)
      BY ONLY <2>3, Recursion
    <3> QED BY ONLY <3>1 DEF LoopRuns
  <2>5. ASSUME NEW k \in 1 .. n
        PROVE  f[k] = IF k <= array.size THEN first ELSE Array!push_back(f[k - 1], value)
    <3>1. f[k - 1] \in S
      BY <2>2, <2>4
    <3>2. f[k] = Push(f[k - 1], k)
      BY <2>1, <2>4, <3>1
    <3> QED BY ONLY <3>2 DEF Push
  <2>6. f = [k \in 0 .. n |-> IF k <= array.size THEN first ELSE Array!push_back(f[k - 1], value)]
    <3>1. \A k \in 0 .. n : k = 0 \/ k \in 1 .. n
      OBVIOUS
    <3> QED BY <1>7, <2>4, <2>5, <3>1
  <2> QED BY <2>6, Zenon DEF longer
<1>9. longer[0] = first /\ \A k \in 0 .. n - 1 : longer[k + 1] = Push(longer[k], k + 1)
  <2>1. \A k \in 0 .. n - 1 : k + 1 \in 0 .. n /\ (k + 1) - 1 = k
    OBVIOUS
  <2> QED BY <1>7, <1>8, <2>1 DEF Push
<1>10. \A k \in 0 .. n - 1 : longer[k] \in G[k] => longer[k + 1] \in G[k + 1]
  <2> SUFFICES ASSUME NEW k \in 0 .. n - 1, longer[k] \in G[k]
               PROVE  Push(longer[k], k + 1) \in G[k + 1]
    BY <1>9
  <2>1. k + 1 \in 1 .. n /\ (k + 1) - 1 = k
    OBVIOUS
  <2> QED BY <1>6, <2>1
<1>11. \A k \in 0 .. n : longer[k] \in G[k]
  BY <1>4, <1>7, <1>9, <1>10, LoopInduction
<1> QED BY <1>1, <1>7, <1>11 DEF G

(* clear destroys every element, and leaves the memory or gives it back. *)
LEMMA ArrayClear ==
  ASSUME NEW array, NEW values, NEW deallocate, ArrayOf(array, values), deallocate \in BOOLEAN
  PROVE  ArrayOf(Array!clear(array, deallocate), <<>>) /\ Array!Lost(array) = 0
<1> DEFINE rest == Memory!destruct_range(array.cells, 1, array.size)
           cells == IF deallocate THEN <<>> ELSE rest
<1>1. Array!destruct_range(array.cells, 1, array.size) = rest
  BY ONLY ArrayMemory
<1>2. Holds(rest, <<>>) /\ Memory!Occupied(rest) = {}
  BY DestructFacts DEF ArrayOf
<1>3. Array!Lost(array) = Cardinality({})
  <2>1. Array!Occupied(rest) = Memory!Occupied(rest)
    BY ONLY ArrayMemory
  <2>2. Array!Cardinality({}) = Cardinality({})
    BY ONLY Zenon DEF Array!Cardinality, Cardinality
  <2> HIDE DEF rest
  <2> QED BY <1>1, <1>2, <2>1, <2>2 DEF Array!Lost
<1>4. Cardinality({}) = 0
  BY FS_EmptySet
<1> HIDE DEF rest
<1>5. Array!clear(array, deallocate) = [cells |-> cells, size |-> 0]
  BY <1>1 DEF Array!clear
<1>6. Holds(<<>>, <<>>)
  <2>1. <<>> \in Seq(Objs) /\ <<>> \in Seq(Int) /\ Len(<<>>) = 0
    OBVIOUS
  <2> QED BY <2>1 DEF Holds
<1>7. Holds(cells, <<>>)
  BY <1>2, <1>6
<1> HIDE DEF cells
<1>8. cells \in Seq(Int) /\ Len(<<>>) = 0
  BY <1>7 DEF Holds
<1> QED BY <1>3, <1>4, <1>5, <1>7, <1>8 DEF ArrayOf, ArrayRecs

(* erase, with and without elements behind it. *)
LEMMA ArrayErase ==
  ASSUME NEW array, NEW values, NEW idx, ArrayOf(array, values), idx \in 1 .. Len(values)
  PROVE  ArrayOf(Array!erase(array, idx), RemoveAt(values, idx))
<1> DEFINE n == Len(values)
           old == array.cells
           last == [old EXCEPT ![n] = Memory!Destroy(@)]
           down == Memory!ShiftDown(old, n, idx)
<1>1. array.size = n /\ n \in Nat /\ n > 0 /\ values \in Seq(Objs) /\ Holds(old, values) /\ idx \in 1 .. n
  BY DEF ArrayOf, Holds
<1>2. /\ RemoveAt(values, idx) \in Seq(Objs) /\ Len(RemoveAt(values, idx)) = n - 1
      /\ \A j \in 1 .. n - 1 : RemoveAt(values, idx)[j] = IF j < idx THEN values[j] ELSE values[j + 1]
  BY <1>1, RemoveAtFacts
<1>3. Front(values) \in Seq(Objs) /\ Len(Front(values)) = n - 1 /\ \A j \in 1 .. n - 1 : Front(values)[j] = values[j]
  BY <1>1, FrontFacts
<1>4. Holds(last, Front(values)) /\ Holds(down, RemoveAt(values, idx))
  BY <1>1, LastFacts, ShiftDownFacts
<1>5. last \in Seq(Int) /\ down \in Seq(Int)
  BY <1>4 DEF Holds
<1>6. Array!erase(array, idx) = [cells |-> IF idx = n THEN last ELSE down, size |-> n - 1]
  <2>1. Array!ShiftDown(old, n, idx) = down
    BY ONLY ArrayMemory
  <2>2. Array!Destroy(old[n]) = Memory!Destroy(old[n])
    BY ONLY ArrayMemory
  <2>3. [old EXCEPT ![n] = Array!Destroy(@)] = last
    BY <2>2
  <2>4. Array!erase(array, idx)
          = [cells |-> IF idx = n THEN [old EXCEPT ![idx] = Array!Destroy(@)] ELSE Array!ShiftDown(old, n, idx),
             size |-> n - 1]
    BY <1>1 DEF Array!erase
  <2> HIDE DEF last, down
  <2>5. CASE idx = n
    BY <2>3, <2>4, <2>5
  <2>6. CASE idx # n
    BY <2>1, <2>4, <2>6
  <2> QED BY <2>5, <2>6
<1> HIDE DEF last, down, old, n
<1>7. CASE idx = n
  <2>1. ArrayOf(Array!erase(array, idx), Front(values))
    BY <1>1, <1>3, <1>4, <1>5, <1>6, <1>7 DEF ArrayOf, ArrayRecs
  <2>2. Front(values) = RemoveAt(values, idx)
    BY <1>1, <1>7, RemoveLast DEF n
  <2> QED BY <2>1, <2>2
<1>8. CASE idx # n
  BY <1>1, <1>2, <1>4, <1>5, <1>6, <1>8 DEF ArrayOf, ArrayRecs, n
<1> QED BY <1>7, <1>8

(* A block whose objects are copied or moved from. *)
LEMMA LeftFacts ==
  ASSUME NEW cells, NEW values, NEW moving, Holds(cells, values), moving \in BOOLEAN
  PROVE  Holds([i \in DOMAIN cells |-> Array!Leave(cells[i], moving)],
               [i \in DOMAIN values |-> Array!Leave(values[i], moving)])
<1> DEFINE n == Len(values)
           u == [i \in DOMAIN cells |-> Array!Leave(cells[i], moving)]
           w == [i \in DOMAIN values |-> Array!Leave(values[i], moving)]
<1>1. /\ n \in Nat /\ Len(cells) \in Nat /\ n <= Len(cells) /\ cells \in Seq(Int) /\ values \in Seq(Objs)
      /\ DOMAIN cells = 1 .. Len(cells) /\ DOMAIN values = 1 .. n
      /\ \A i \in 1 .. Len(cells) : cells[i] = IF i <= n THEN values[i] ELSE Memory!Raw
  BY DEF Holds
<1>2. \A o \in Objs : Array!Leave(o, moving) \in Objs
  BY Zenon DEF Array!Leave, Objs, Array!Moved, Memory!Moved
<1>3. Array!Leave(Memory!Raw, moving) = Memory!Raw
  <2>1. ~Array!IsObject(Memory!Raw)
    BY DEF Array!IsObject, Array!Moved, Memory!Raw
  <2> QED BY <2>1, Zenon DEF Array!Leave
<1>4. \A o \in Objs : o \in Int
  BY ObjectFacts
<1>5. Memory!Raw \in Int
  BY DEF Memory!Raw
<1>6. w \in Seq(Objs) /\ Len(w) = n /\ \A i \in 1 .. n : w[i] = Array!Leave(values[i], moving)
  <2>1. \A i \in 1 .. n : Array!Leave(values[i], moving) \in Objs
    BY <1>1, <1>2
  <2>2. w \in [1 .. n -> Objs]
    BY <1>1, <2>1
  <2> QED BY <1>1, <2>2
<1>7. u = [i \in 1 .. Len(cells) |-> Array!Leave(cells[i], moving)]
  BY <1>1
<1> HIDE DEF u, w, n
<1>8. ASSUME NEW i \in 1 .. Len(cells)
      PROVE  u[i] = (IF i <= n THEN w[i] ELSE Memory!Raw) /\ u[i] \in Int
  <2>1. CASE i <= n
    <3>1. i \in 1 .. n
      BY ONLY <1>1, <2>1, i \in 1 .. Len(cells)
    <3>2. values[i] \in Objs
      BY <1>1, <3>1 DEF n
    <3> QED BY <1>1, <1>2, <1>4, <1>6, <1>7, <2>1, <3>1, <3>2
  <2>2. CASE ~(i <= n)
    BY <1>1, <1>3, <1>5, <1>7, <2>2
  <2> QED BY <2>1, <2>2
<1>9. u \in Seq(Int) /\ Len(u) = Len(cells)
  <2>1. u \in [1 .. Len(cells) -> Int]
    BY <1>7, <1>8
  <2>2. Len(cells) \in Nat
    BY <1>1
  <2> QED BY ONLY <2>1, <2>2
<1>10. Holds(u, w)
  BY <1>1, <1>6, <1>8, <1>9 DEF Holds
<1> QED BY <1>10 DEF u, w

(* One array changes. *)
LEMMA ArrayPut ==
  ASSUME ArrayInv, fault = "none", NEW x, x \in Array!Names, NEW array, NEW values, ArrayOf(array, values),
         rep' = [rep EXCEPT ![x] = array, !.lost = 0], ref' = [ref EXCEPT ![x] = values]
  PROVE  ArrayInv'
<1>1. values \in Seq(Objs) /\ array \in ArrayRecs
  BY DEF ArrayOf, Holds
<1>2. /\ rep \in [a : ArrayRecs, b : ArrayRecs, shared : BOOLEAN, lost : {0}]
      /\ ref \in [a : Seq(Objs), b : Seq(Objs)]
      /\ ArrayOf(rep.a, ref.a) /\ ArrayOf(rep.b, ref.b)
  BY DEF ArrayInv
<1>3. CASE x = "a"
  BY <1>1, <1>2, <1>3 DEF ArrayInv
<1>4. CASE x = "b"
  BY <1>1, <1>2, <1>4 DEF ArrayInv
<1> QED BY <1>3, <1>4 DEF Array!Names

(* A call that changes both arrays. *)
LEMMA ArrayPutBoth ==
  ASSUME NEW x, NEW y, NEW array, NEW values, NEW other, NEW rest, NEW shared,
         x \in Array!Names, y \in Array!Names, x # y, ArrayOf(array, values), ArrayOf(other, rest),
         rep \in [a : ArrayRecs, b : ArrayRecs, shared : BOOLEAN, lost : {0}],
         ref \in [a : Seq(Objs), b : Seq(Objs)], shared \in BOOLEAN,
         rep' = [rep EXCEPT ![x] = array, ![y] = other, !.lost = 0, !.shared = shared],
         ref' = [ref EXCEPT ![x] = values, ![y] = rest]
  PROVE  ArrayInv'
<1>1. values \in Seq(Objs) /\ array \in ArrayRecs /\ rest \in Seq(Objs) /\ other \in ArrayRecs
  BY DEF ArrayOf, Holds
<1>2. CASE x = "a" /\ y = "b"
  <2>1. rep' = [a |-> array, b |-> other, shared |-> shared, lost |-> 0] /\ ref' = [a |-> values, b |-> rest]
    BY <1>2
  <2>2. /\ rep'.a = array /\ rep'.b = other /\ ref'.a = values /\ ref'.b = rest
        /\ rep' \in [a : ArrayRecs, b : ArrayRecs, shared : BOOLEAN, lost : {0}]
        /\ ref' \in [a : Seq(Objs), b : Seq(Objs)]
    BY ONLY <1>1, <2>1, shared \in BOOLEAN
  <2> QED BY ONLY <2>2, ArrayOf(array, values), ArrayOf(other, rest) DEF ArrayInv
<1>3. CASE x = "b" /\ y = "a"
  <2>1. rep' = [a |-> other, b |-> array, shared |-> shared, lost |-> 0] /\ ref' = [a |-> rest, b |-> values]
    BY <1>3
  <2>2. /\ rep'.a = other /\ rep'.b = array /\ ref'.a = rest /\ ref'.b = values
        /\ rep' \in [a : ArrayRecs, b : ArrayRecs, shared : BOOLEAN, lost : {0}]
        /\ ref' \in [a : Seq(Objs), b : Seq(Objs)]
    BY ONLY <1>1, <2>1, shared \in BOOLEAN
  <2> QED BY ONLY <2>2, ArrayOf(array, values), ArrayOf(other, rest) DEF ArrayInv
<1>4. (x = "a" /\ y = "b") \/ (x = "b" /\ y = "a")
  BY ONLY x \in Array!Names, y \in Array!Names, x # y DEF Array!Names
<1> QED BY <1>2, <1>3, <1>4

(* Every call keeps the invariant. *)
LEMMA ArrayStep ==
  ASSUME Data \subseteq Nat, Room \in Nat, ArrayInv, Array!Next
  PROVE  ArrayInv'
<1>1. fault = "none"
  BY DEF Array!Next
<1>2. PICK x \in Array!Names :
        \/ Array!InsertList(x) \/ Array!InsertOther(x) \/ Array!PushBack(x) \/ Array!PopBack(x)
        \/ Array!EmplaceOwn(x) \/ Array!Reserve(x) \/ Array!Resize(x) \/ Array!Erase(x) \/ Array!Clear(x)
        \/ Array!AssignList(x) \/ Array!AssignCopy(x) \/ Array!AssignMove(x) \/ Array!Reconstruct(x)
  BY DEF Array!Next
<1> DEFINE y == Array!Other(x)
<1>3. x \in Array!Names /\ y \in Array!Names /\ x # y
  BY DEF Array!Other, Array!Names
<1> HIDE DEF y
<1>4. /\ rep.lost = 0 /\ rep.shared \in BOOLEAN
      /\ rep \in [a : ArrayRecs, b : ArrayRecs, shared : BOOLEAN, lost : {0}]
      /\ ref \in [a : Seq(Objs), b : Seq(Objs)]
      /\ \A z \in Array!Names : ArrayOf(rep[z], ref[z])
  BY <1>1 DEF ArrayInv, Array!Names
<1>5. Data \subseteq Objs /\ \A v \in Data : v + 1 \in Objs
  BY DEF Objs
<1>6. \A z \in Array!Names : /\ rep[z].size = Len(ref[z]) /\ ref[z] \in Seq(Objs) /\ Len(ref[z]) \in Nat
                             /\ Holds(rep[z].cells, ref[z])
  BY <1>4 DEF ArrayOf, Holds
<1>7. ASSUME NEW array, NEW values, NEW freed \in BOOLEAN, Array!Replace(x, array, values, freed), ArrayOf(array, values)
      PROVE  ArrayInv'
  <2>1. Array!Lost(rep[x]) = 0
    BY <1>3, <1>4, ArrayClear
  <2>2. rep.lost + (IF freed THEN Array!Lost(rep[x]) ELSE 0) = 0
    BY <1>4, <2>1
  <2>3. /\ rep' = [rep EXCEPT ![x] = array, !.lost = rep.lost + (IF freed THEN Array!Lost(rep[x]) ELSE 0)]
        /\ ref' = [ref EXCEPT ![x] = values]
    BY <1>7 DEF Array!Replace
  <2>4. rep' = [rep EXCEPT ![x] = array, !.lost = 0]
    BY <2>2, <2>3
  <2> QED BY ONLY <1>1, <1>3, <1>7, <2>3, <2>4, ArrayInv, ArrayPut
<1>8. ASSUME NEW array, NEW values, Array!Put(x, array, values), ArrayOf(array, values)
      PROVE  ArrayInv'
  <2> DEFINE freed == FALSE
  <2>1. Array!Replace(x, array, values, freed) /\ freed \in BOOLEAN
    BY <1>8 DEF Array!Put
  <2> HIDE DEF freed
  <2> QED BY ONLY <1>7, <1>8, <2>1
<1>9. \A items \in Array!Lists : items \in Seq(Objs)
  <2> SUFFICES ASSUME NEW items \in Array!Lists
               PROVE  items \in Seq(Objs)
    OBVIOUS
  <2>1. items = <<>> \/ (\E v \in Data : items = <<v>>) \/ \E v \in Data : items = <<v, v + 1>>
    BY DEF Array!Lists
  <2>2. CASE items = <<>>
    BY <2>2
  <2>3. CASE \E v \in Data : items = <<v>>
    <3>1. PICK v \in Objs : items = <<v>>
      BY <1>5, <2>3
    <3> QED BY <3>1
  <2>4. CASE \E v \in Data : items = <<v, v + 1>>
    <3>1. PICK v \in Objs, w \in Objs : items = <<v, w>>
      BY <1>5, <2>4
    <3> QED BY <3>1
  <2> QED BY <2>1, <2>2, <2>3, <2>4
<1>10. CASE Array!InsertList(x)
  <2>1. PICK items \in Array!Lists, at \in 0 .. rep[x].size :
          Array!Put(x, Array!insert(rep[x], items, at), Array!Inserted(ref[x], at, items))
    BY <1>10 DEF Array!InsertList
  <2>2. ArrayOf(Array!insert(rep[x], items, at), Array!Inserted(ref[x], at, items))
    BY <1>3, <1>4, <1>6, <1>9, ArrayInsert
  <2> QED BY ONLY <1>8, <2>1, <2>2
<1>11. Array!Values(rep[y].cells, rep[y].size) = ref[y]
  <2>1. Memory!Values(rep[y].cells, Len(ref[y])) = ref[y]
    BY <1>3, <1>6, ValuesFacts
  <2>2. Array!Values(rep[y].cells, rep[y].size) = Memory!Values(rep[y].cells, rep[y].size)
    BY ONLY ArrayMemory
  <2> QED BY <1>3, <1>6, <2>1, <2>2

<1>12. \A values \in Seq(Objs) : Memory!Inserted(<<>>, 0, values) = values
  BY InsertedInNone
<1>13. ASSUME NEW array, ArrayOf(array, <<>>), NEW values \in Seq(Objs)
       PROVE  ArrayOf(Array!insert(array, values, 0), values)
  <2>1. ArrayOf(Array!insert(array, values, 0), Array!Inserted(<<>>, 0, values))
    <3>1. 0 \in 0 .. Len(<<>>)
      OBVIOUS
    <3> QED BY <1>13, <3>1, ArrayInsert
  <2>2. Array!Inserted(<<>>, 0, values) = Memory!Inserted(<<>>, 0, values)
    BY ONLY ArrayMemory
  <2> QED BY <1>12, <2>1, <2>2
<1>14. ASSUME NEW array, ArrayOf(array, <<>>), NEW values \in Seq(Objs)
       PROVE  ArrayOf(Array!insert(Array!reserve(array, Len(values)), values, 0), values)
  <2>1. ArrayOf(Array!reserve(array, Len(values)), <<>>)
    BY <1>14, ArrayReserve
  <2> QED BY <1>13, <2>1
<1>15. CASE Array!InsertOther(x)
  <2> DEFINE items == Array!Values(rep[y].cells, rep[y].size)
  <2>1. PICK at \in 0 .. rep[x].size, moving \in BOOLEAN :
          /\ rep' = [rep EXCEPT ![x] = Array!insert(@, items, at),
                                ![y].cells = [i \in DOMAIN @ |-> Array!Leave(@[i], moving)]]
          /\ ref' = [ref EXCEPT ![x] = Array!Inserted(@, at, ref[y]),
                                ![y] = [i \in DOMAIN @ |-> Array!Leave(@[i], moving)]]
    BY <1>15 DEF Array!InsertOther, y
  <2>2. items = ref[y] /\ ref[y] \in Seq(Objs)
    BY <1>3, <1>6, <1>11
  <2> DEFINE array == Array!insert(rep[x], ref[y], at)
             values == Array!Inserted(ref[x], at, ref[y])
             cells == [i \in DOMAIN rep[y].cells |-> Array!Leave(rep[y].cells[i], moving)]
             other == [cells |-> cells, size |-> rep[y].size]
             rest == [i \in DOMAIN ref[y] |-> Array!Leave(ref[y][i], moving)]
  <2> HIDE DEF items
  <2>3. ArrayOf(array, values)
    BY <1>3, <1>4, <1>6, <2>2, ArrayInsert
  <2>4. ArrayOf(other, rest)
    <3>1. Holds(cells, rest)
      BY <1>3, <1>6, LeftFacts
    <3>2. Len(rest) = Len(ref[y])
      BY <1>3, <1>6
    <3> HIDE DEF cells, rest
    <3>3. cells \in Seq(Int)
      BY <3>1 DEF Holds
    <3> QED BY <1>3, <1>6, <3>1, <3>2, <3>3 DEF ArrayOf, ArrayRecs
  <2>5. /\ rep' = [rep EXCEPT ![x] = array, ![y] = [rep[y] EXCEPT !.cells = cells]]
        /\ ref' = [ref EXCEPT ![x] = values, ![y] = rest]
    BY <1>3, <2>1, <2>2
  <2>6. [rep[y] EXCEPT !.cells = cells] = other
    <3> HIDE DEF cells
    <3>1. rep[y] \in ArrayRecs
      BY <1>3, <1>4 DEF ArrayOf
    <3> DEFINE r == rep[y]
    <3> HIDE DEF r
    <3>2. [r EXCEPT !.cells = cells] = [cells |-> cells, size |-> r.size]
      BY <3>1 DEF ArrayRecs, r
    <3> QED BY <3>2 DEF r
  <2> HIDE DEF array, values, cells, other, rest
  <2> DEFINE shared == rep.shared
  <2>7. rep' = [rep EXCEPT ![x] = array, ![y] = other, !.lost = 0, !.shared = shared]
    <3>1. rep.lost = 0 /\ rep' = [rep EXCEPT ![x] = array, ![y] = other]
      BY <1>4, <2>5, <2>6
    <3> QED BY ONLY <1>3, <1>4, <3>1 DEF Array!Names
  <2>8. shared \in BOOLEAN
    BY <1>4
  <2> HIDE DEF shared
  <2> QED BY ONLY <1>3, <1>4, <2>3, <2>4, <2>5, <2>7, <2>8, ArrayPutBoth
<1>16. CASE Array!PushBack(x)
  <2>1. PICK v \in Data : Array!Put(x, Array!push_back(rep[x], v), Append(ref[x], v))
    BY <1>16 DEF Array!PushBack
  <2>2. ArrayOf(Array!push_back(rep[x], v), Append(ref[x], v))
    BY <1>3, <1>4, <1>5, ArrayPush
  <2> QED BY ONLY <1>8, <2>1, <2>2
<1>18. \A s, i : Array!Removed(s, i) = RemoveAt(s, i)
  BY Zenon DEF Array!Removed, RemoveAt
<1>19. CASE Array!PopBack(x)
  <2>1. rep[x].size > 0 /\ Array!Put(x, Array!erase(rep[x], rep[x].size), RemoveAt(ref[x], Len(ref[x])))
    BY <1>18, <1>19 DEF Array!PopBack
  <2>2. ArrayOf(Array!erase(rep[x], rep[x].size), RemoveAt(ref[x], Len(ref[x])))
    <3>1. rep[x].size \in 1 .. Len(ref[x]) /\ rep[x].size = Len(ref[x]) /\ ArrayOf(rep[x], ref[x])
      BY <1>3, <1>4, <1>6, <2>1
    <3> QED BY ONLY <3>1, ArrayErase
  <2> QED BY ONLY <1>8, <2>1, <2>2
<1>20. CASE Array!EmplaceOwn(x)
  <2>1. PICK i \in 1 .. rep[x].size :
          \/ fault' = "argument freed by the growth"
          \/ Array!Put(x, Array!push_back(rep[x], rep[x].cells[i]), Append(ref[x], ref[x][i]))
    BY <1>20 DEF Array!EmplaceOwn
  <2>2. rep[x].cells[i] = ref[x][i] /\ ref[x][i] \in Objs
    <3>1. Holds(rep[x].cells, ref[x]) /\ i \in 1 .. Len(ref[x])
      BY <1>3, <1>6
    <3> QED BY ONLY <3>1 DEF Holds
  <2>3. ArrayOf(Array!push_back(rep[x], rep[x].cells[i]), Append(ref[x], ref[x][i]))
    BY <1>3, <1>4, <2>2, ArrayPush
  <2>4. CASE fault' = "argument freed by the growth"
    BY <2>4 DEF ArrayInv
  <2>5. CASE Array!Put(x, Array!push_back(rep[x], rep[x].cells[i]), Append(ref[x], ref[x][i]))
    BY ONLY <1>8, <2>3, <2>5
  <2> QED BY <2>1, <2>4, <2>5
<1>21. CASE Array!Reserve(x)
  <2>1. PICK n \in 1 .. Room : Array!Put(x, Array!reserve(rep[x], n), ref[x])
    BY <1>21 DEF Array!Reserve
  <2>2. ArrayOf(Array!reserve(rep[x], n), ref[x])
    <3>1. n \in Nat
      OBVIOUS
    <3> QED BY <1>3, <1>4, <3>1, ArrayReserve
  <2> QED BY ONLY <1>8, <2>1, <2>2
<1>22. CASE Array!Resize(x)
  <2>1. PICK n \in 0 .. Room, v \in Data :
          Array!Put(x, Array!resize(rep[x], n, v), Longer(ref[x], n, v))
    BY <1>22 DEF Array!Resize, Longer
  <2>2. ArrayOf(Array!resize(rep[x], n, v), Longer(ref[x], n, v))
    <3>1. n \in Nat
      OBVIOUS
    <3> QED BY <1>3, <1>4, <1>5, <3>1, ArrayResize
  <2> QED BY ONLY <1>8, <2>1, <2>2
<1>23. CASE Array!Erase(x)
  <2>1. PICK idx \in 1 .. rep[x].size : Array!Put(x, Array!erase(rep[x], idx), RemoveAt(ref[x], idx))
    BY <1>18, <1>23 DEF Array!Erase
  <2>2. ArrayOf(Array!erase(rep[x], idx), RemoveAt(ref[x], idx))
    <3>1. idx \in 1 .. Len(ref[x]) /\ ArrayOf(rep[x], ref[x])
      BY <1>3, <1>4, <1>6
    <3> QED BY ONLY <3>1, ArrayErase
  <2> QED BY ONLY <1>8, <2>1, <2>2
<1>24. CASE Array!Clear(x)
  <2>1. PICK deallocate \in BOOLEAN : Array!Replace(x, Array!clear(rep[x], deallocate), <<>>, deallocate)
    BY <1>24 DEF Array!Clear
  <2>2. ArrayOf(Array!clear(rep[x], deallocate), <<>>)
    BY <1>3, <1>4, ArrayClear
  <2> QED BY ONLY <1>7, <2>1, <2>2, deallocate \in BOOLEAN
<1>25. CASE Array!AssignList(x)
  <2>1. PICK items \in Array!Lists, deallocate \in BOOLEAN :
          Array!Replace(x, Array!insert(Array!clear(rep[x], deallocate), items, 0), items, deallocate)
    <3>1. \A items : (Len(items) < Len(rep[x].cells)) \in BOOLEAN
      OBVIOUS
    <3> QED BY <1>25, <3>1, Zenon DEF Array!AssignList
  <2>2. ArrayOf(Array!insert(Array!clear(rep[x], deallocate), items, 0), items)
    <3>1. ArrayOf(Array!clear(rep[x], deallocate), <<>>)
      BY <1>3, <1>4, ArrayClear
    <3> QED BY <1>9, <1>13, <3>1
  <2> DEFINE array == Array!insert(Array!clear(rep[x], deallocate), items, 0)
  <2>3. Array!Replace(x, array, items, deallocate) /\ ArrayOf(array, items)
    BY <2>1, <2>2
  <2> HIDE DEF array
  <2> QED BY ONLY <1>7, <2>3, deallocate \in BOOLEAN

<1> DEFINE items == Array!Values(rep[y].cells, rep[y].size)
<1>26. items = ref[y] /\ ref[y] \in Seq(Objs) /\ Len(ref[y]) \in Nat
  BY <1>3, <1>6, <1>11
<1> HIDE DEF items
<1> DEFINE yes == TRUE
<1>27. /\ yes \in BOOLEAN
       /\ \A array : Array!clear(array, TRUE) = Array!clear(array, yes)
       /\ \A array, values : Array!Replace(x, array, values, TRUE) = Array!Replace(x, array, values, yes)
  BY Zenon
<1>28. \A z \in Array!Names : ArrayOf(Array!clear(rep[z], yes), <<>>) /\ Array!Lost(rep[z]) = 0
  <2> HIDE DEF yes
  <2> QED BY <1>4, <1>27, ArrayClear
<1> HIDE DEF yes
<1>29. ArrayOf(Array!Empty, <<>>)
  <2>1. Holds(<<>>, <<>>) /\ <<>> \in Seq(Int) /\ Len(<<>>) = 0
    <3>1. <<>> \in Seq(Objs) /\ <<>> \in Seq(Int) /\ Len(<<>>) = 0
      OBVIOUS
    <3> QED BY <3>1 DEF Holds
  <2> QED BY <2>1 DEF Array!Empty, ArrayOf, ArrayRecs
<1>30. CASE Array!AssignCopy(x)
  <2> DEFINE array == Array!insert(Array!reserve(Array!clear(rep[x], yes), Len(items)), items, 0)
  <2>1. \/ Array!Replace(x, array, ref[y], yes)
        \/ fault' = "assigned to itself"
    BY <1>27, <1>30, Zenon DEF Array!AssignCopy, items, y
  <2>2. ArrayOf(array, ref[y])
    BY <1>3, <1>14, <1>26, <1>28
  <2> HIDE DEF array
  <2>3. CASE fault' = "assigned to itself"
    BY <2>3 DEF ArrayInv
  <2>4. CASE Array!Replace(x, array, ref[y], yes)
    BY ONLY <1>7, <1>27, <2>2, <2>4
  <2> QED BY <2>1, <2>3, <2>4
<1>31. CASE Array!AssignMove(x)
  <2>1. CASE fault' # "none"
    BY <2>1 DEF ArrayInv
  <2>2. CASE fault' = "none"
    <3> DEFINE copied == Array!insert(Array!reserve(Array!clear(rep[x], yes), Len(items)), items, 0)
               array == IF rep.shared THEN rep[y] ELSE copied
               other == IF rep.shared THEN Array!Empty ELSE Array!clear(rep[y], yes)
               gone == rep.lost + IF rep.shared THEN Array!Cardinality(Array!Occupied(rep[x].cells)) ELSE Array!Lost(rep[x])
               none == <<>>
    <3>1. /\ rep' = [rep EXCEPT ![x] = array, ![y] = other, !.lost = gone]
          /\ ref' = [ref EXCEPT ![x] = ref[y], ![y] = none]
          /\ fault' = IF rep.shared /\ rep[x].size > 0 THEN "elements forgotten" ELSE fault
      <4>1. /\ rep' = [rep EXCEPT
                  ![x] = IF rep.shared THEN rep[y]
                         ELSE Array!insert(Array!reserve(Array!clear(@, yes), Len(items)), items, 0),
                  ![y] = IF rep.shared THEN Array!Empty ELSE Array!clear(@, yes),
                  !.lost = @ + IF rep.shared THEN Array!Cardinality(Array!Occupied(rep[x].cells)) ELSE Array!Lost(rep[x])]
            /\ ref' = [ref EXCEPT ![x] = ref[y], ![y] = none]
            /\ fault' = IF rep.shared /\ rep[x].size > 0 THEN "elements forgotten" ELSE fault
        BY <1>31, Zenon DEF Array!AssignMove, items, y, yes
      <4> QED BY <4>1, Zenon
    <3> HIDE DEF copied, none
    <3>2. ArrayOf(copied, ref[y])
      BY <1>3, <1>14, <1>26, <1>28 DEF copied
    <3>3. ArrayOf(array, ref[y]) /\ ArrayOf(other, none)
      BY <1>3, <1>4, <1>28, <1>29, <3>2 DEF none
    <3>4. gone = 0
      <4>1. CASE rep.shared
        <5>1. rep[x].size = 0
          <6>1. ~(rep[x].size > 0)
            BY <2>2, <3>1, <4>1
          <6>2. rep[x].size \in Nat
            BY <1>3, <1>6
          <6> QED BY ONLY <6>1, <6>2
        <5>2. ref[x] = <<>> /\ Holds(rep[x].cells, <<>>)
          BY <1>3, <1>6, <5>1
        <5>3. Array!Occupied(rep[x].cells) = {}
          BY <5>2 DEF Holds, Array!Occupied, Array!Raw, Memory!Raw
        <5>4. Array!Cardinality({}) = 0
          <6>1. Array!Cardinality({}) = Cardinality({})
            BY ONLY Zenon DEF Array!Cardinality, Cardinality
          <6> QED BY <6>1, FS_EmptySet
        <5> QED BY <1>4, <4>1, <5>3, <5>4
      <4>2. CASE ~rep.shared
        BY <1>3, <1>4, <1>28, <4>2
      <4> QED BY <4>1, <4>2
    <3> HIDE DEF array, other, gone
    <3> DEFINE shared == rep.shared
    <3>5. rep' = [rep EXCEPT ![x] = array, ![y] = other, !.lost = 0, !.shared = shared] /\ shared \in BOOLEAN
      BY ONLY <1>3, <1>4, <3>1, <3>4 DEF Array!Names
    <3> HIDE DEF shared
    <3> QED BY ONLY <1>3, <1>4, <3>1, <3>3, <3>5, ArrayPutBoth
  <2> QED BY <2>1, <2>2
<1>32. CASE Array!Reconstruct(x)
  <2> DEFINE array == Array!insert(Array!reserve(Array!Empty, Len(items)), items, 0)
             gone == rep.lost + Array!Lost(rep[x])
             none == <<>>
             other == Array!Empty
             same == rep[y]
  <2>1. \/ Array!Replace(x, array, ref[y], yes)
        \/ /\ rep' = [rep EXCEPT ![x] = same, ![y] = other, !.lost = gone, !.shared = yes]
           /\ ref' = [ref EXCEPT ![x] = ref[y], ![y] = none]
    <3>1. \/ Array!Replace(x, array, ref[y], yes)
          \/ /\ rep' = [rep EXCEPT ![x] = rep[y], ![y] = Array!Empty, !.lost = @ + Array!Lost(rep[x]), !.shared = yes]
             /\ ref' = [ref EXCEPT ![x] = ref[y], ![y] = none]
      BY <1>32, Zenon DEF Array!Reconstruct, Array!CopyOf, items, y, yes
    <3> QED BY <3>1, Zenon
  <2>2. ArrayOf(array, ref[y])
    BY <1>3, <1>14, <1>26, <1>29
  <2>3. gone = 0
    BY <1>3, <1>4, <1>28
  <2>4. ArrayOf(same, ref[y]) /\ ArrayOf(other, none)
    BY <1>3, <1>4, <1>29
  <2> HIDE DEF array, gone, none, other, same
  <2>5. CASE Array!Replace(x, array, ref[y], yes)
    BY ONLY <1>7, <1>27, <2>2, <2>5
  <2>6. CASE /\ rep' = [rep EXCEPT ![x] = same, ![y] = other, !.lost = gone, !.shared = yes]
             /\ ref' = [ref EXCEPT ![x] = ref[y], ![y] = none]
    <3>1. rep' = [rep EXCEPT ![x] = same, ![y] = other, !.lost = 0, !.shared = yes]
      BY ONLY <2>3, <2>6
    <3> QED BY ONLY <1>3, <1>4, <1>27, <2>4, <2>6, <3>1, ArrayPutBoth
  <2> QED BY <2>1, <2>5, <2>6
<1> QED BY <1>2, <1>10, <1>15, <1>16, <1>19, <1>20, <1>21, <1>22, <1>23, <1>24, <1>25, <1>30, <1>31, <1>32

(* Array, of any values, any room and any size of a page: the places before  *)
(* the size hold objects and those behind it do not, nothing is lost, and    *)
(* the values are those of the sequence that the same calls make, whatever   *)
(* is inserted, erased, copied, moved and grown; until a call meets a fault. *)
THEOREM ArrayHolds ==
  ASSUME Data \subseteq Nat, Room \in Nat
  PROVE  Array!Spec => [](Array!ObjectsSound /\ Array!Represents)
<1>1. ASSUME Array!Init
      PROVE  ArrayInv
  <2>1. /\ rep \in [a : {Array!Empty}, b : {Array!Empty}, shared : BOOLEAN, lost : {0}]
        /\ ref = [a |-> <<>>, b |-> <<>>]
    BY <1>1 DEF Array!Init
  <2>2. Holds(<<>>, <<>>) /\ <<>> \in Seq(Int) /\ Len(<<>>) = 0 /\ <<>> \in Seq(Objs)
    <3>1. <<>> \in Seq(Objs) /\ <<>> \in Seq(Int) /\ Len(<<>>) = 0
      OBVIOUS
    <3> QED BY <3>1 DEF Holds
  <2>3. ArrayOf(Array!Empty, <<>>) /\ Array!Empty \in ArrayRecs
    BY <2>2 DEF Array!Empty, ArrayOf, ArrayRecs
  <2> QED BY <2>1, <2>2, <2>3 DEF ArrayInv
<1>2. ASSUME ArrayInv, UNCHANGED Array!vars
      PROVE  ArrayInv'
  <2>1. rep' = rep /\ ref' = ref /\ fault' = fault
    BY <1>2 DEF Array!vars
  <2> QED BY <1>2, <2>1 DEF ArrayInv, ArrayOf, Holds
<1>3. ASSUME ArrayInv
      PROVE  Array!ObjectsSound /\ Array!Represents
  <2>1. SUFFICES ASSUME fault = "none"
                 PROVE  /\ rep.lost = 0
                        /\ \A x \in Array!Names : \A i \in DOMAIN rep[x].cells :
                              IF i <= rep[x].size THEN Array!IsObject(rep[x].cells[i])
                              ELSE rep[x].cells[i] = Array!Raw
                        /\ \A x \in Array!Names : Array!Values(rep[x].cells, rep[x].size) = ref[x]
                        /\ Array!Equal(rep.a, rep.b) <=> ref.a = ref.b
    BY DEF Array!ObjectsSound, Array!Represents
  <2>2. /\ rep.lost = 0 /\ \A x \in Array!Names : ArrayOf(rep[x], ref[x])
        /\ ArrayOf(rep.a, ref.a) /\ ArrayOf(rep.b, ref.b)
    BY <1>3, <2>1 DEF ArrayInv, Array!Names
  <2>3. ASSUME NEW x \in Array!Names
        PROVE  /\ \A i \in DOMAIN rep[x].cells :
                     IF i <= rep[x].size THEN Array!IsObject(rep[x].cells[i]) ELSE rep[x].cells[i] = Array!Raw
               /\ Array!Values(rep[x].cells, rep[x].size) = ref[x]
    <3>1. rep[x].size = Len(ref[x]) /\ Holds(rep[x].cells, ref[x])
      BY <2>2 DEF ArrayOf
    <3>2. Memory!Values(rep[x].cells, rep[x].size) = ref[x]
      BY <3>1, ValuesFacts
    <3>3. Array!Values(rep[x].cells, rep[x].size) = Memory!Values(rep[x].cells, rep[x].size) /\ Array!Raw = Memory!Raw
      BY ONLY ArrayMemory
    <3>4. ASSUME NEW i \in DOMAIN rep[x].cells
          PROVE  IF i <= rep[x].size THEN Array!IsObject(rep[x].cells[i]) ELSE rep[x].cells[i] = Array!Raw
      <4>1. i \in 1 .. Len(rep[x].cells) /\ ref[x] \in Seq(Objs)
        BY <3>1, <3>4 DEF Holds
      <4>2. rep[x].cells[i] = IF i <= rep[x].size THEN ref[x][i] ELSE Memory!Raw
        BY <3>1, <4>1 DEF Holds
      <4>3. CASE i <= rep[x].size
        <5>1. ref[x][i] \in Objs
          BY <3>1, <4>1, <4>3
        <5>2. Memory!IsObject(ref[x][i])
          BY <5>1, ObjectFacts
        <5>3. Array!IsObject(ref[x][i]) = Memory!IsObject(ref[x][i])
          BY ONLY ArrayMemory
        <5> QED BY <4>2, <4>3, <5>2, <5>3
      <4>4. CASE ~(i <= rep[x].size)
        BY <3>3, <4>2, <4>4
      <4> QED BY <4>3, <4>4
    <3> QED BY <3>2, <3>3, <3>4
  <2>4. Array!Equal(rep.a, rep.b) <=> ref.a = ref.b
    <3>1. ASSUME NEW p, NEW q, NEW u, NEW w, ArrayOf(p, u), ArrayOf(q, w)
          PROVE  Array!Equal(p, q) <=> u = w
      <4>1. /\ u \in Seq(Objs) /\ w \in Seq(Objs) /\ p.size = Len(u) /\ q.size = Len(w)
            /\ \A i \in 1 .. Len(u) : p.cells[i] = u[i]
            /\ \A i \in 1 .. Len(w) : q.cells[i] = w[i]
        <5>1. ASSUME NEW r, NEW v, ArrayOf(r, v)
              PROVE  v \in Seq(Objs) /\ r.size = Len(v) /\ \A i \in 1 .. Len(v) : r.cells[i] = v[i]
          <6>1. /\ v \in Seq(Objs) /\ r.size = Len(v) /\ r.cells \in Seq(Int) /\ Len(v) <= Len(r.cells)
                /\ \A i \in 1 .. Len(r.cells) : r.cells[i] = IF i <= Len(v) THEN v[i] ELSE Memory!Raw
            BY <5>1 DEF ArrayOf, Holds
          <6>2. \A i \in 1 .. Len(v) : i \in 1 .. Len(r.cells) /\ i <= Len(v)
            BY ONLY <6>1
          <6> QED BY <6>1, <6>2
        <5> QED BY <3>1, <5>1
      <4>2. (Len(u) = Len(w) /\ \A i \in 1 .. Len(u) : u[i] = w[i]) <=> u = w
        BY ONLY <4>1
      <4> QED BY <4>1, <4>2 DEF Array!Equal
    <3> QED BY <2>2, <3>1
  <2> QED BY <2>2, <2>3, <2>4
<1>4. ASSUME ArrayInv, [Array!Next]_Array!vars
      PROVE  ArrayInv'
  BY <1>2, <1>4, ArrayStep
<1> QED BY <1>1, <1>3, <1>4, PTL DEF Array!Spec

-----------------------------------------------------------------------------
(* MaxArray. The memory is in place: its size stays what it is. *)
MaxArrayOf(array, values) == ArrayOf(array, values) /\ Len(array.cells) = Capacity

MaxArrayInv == fault = "none" => MaxArrayOf(rep, ref)

(* The operators on memory are those of ObjectMemory. *)
LEMMA MaxArrayMemory ==
  ASSUME NEW memory, NEW size, NEW at, NEW add, NEW items, NEW value, NEW place
  PROVE  /\ MaxArray!ShiftUp(memory, size, at, add) = Memory!ShiftUp(memory, size, at, add)
         /\ MaxArray!Fill(memory, size, at, items) = Memory!Fill(memory, size, at, items)
         /\ MaxArray!ShiftDown(memory, size, at) = Memory!ShiftDown(memory, size, at)
         /\ MaxArray!Inserted(memory, at, items) = Memory!Inserted(memory, at, items)
         /\ MaxArray!destruct_range(memory, 1, size) = Memory!destruct_range(memory, 1, size)
         /\ MaxArray!Occupied(memory) = Memory!Occupied(memory)
         /\ MaxArray!Values(memory, size) = Memory!Values(memory, size)
         /\ MaxArray!Construct(place, value) = Memory!Construct(place, value)
         /\ MaxArray!Destroy(place) = Memory!Destroy(place)
         /\ MaxArray!IsObject(place) = Memory!IsObject(place)
         /\ MaxArray!Raw = Memory!Raw /\ MaxArray!Moved = Memory!Moved
<1> USE DEF MaxArray!Leave, Memory!Leave, MaxArray!Construct, Memory!Construct, MaxArray!Assign, Memory!Assign,
     MaxArray!IsObject, Memory!IsObject, MaxArray!Raw, Memory!Raw, MaxArray!Moved, Memory!Moved, MaxArray!Bad, Memory!Bad,
     MaxArray!Destroy, Memory!Destroy
<1>1. MaxArray!ShiftUp(memory, size, at, add) = Memory!ShiftUp(memory, size, at, add)
  BY Zenon DEF MaxArray!ShiftUp, Memory!ShiftUp, MaxArray!move_or_copy, Memory!move_or_copy,
     MaxArray!move_or_copy_construct, Memory!move_or_copy_construct
<1>2. MaxArray!Fill(memory, size, at, items) = Memory!Fill(memory, size, at, items)
  BY Zenon DEF MaxArray!Fill, Memory!Fill
<1>3. MaxArray!ShiftDown(memory, size, at) = Memory!ShiftDown(memory, size, at)
  BY Zenon DEF MaxArray!ShiftDown, Memory!ShiftDown, MaxArray!move_or_copy, Memory!move_or_copy
<1>4. /\ MaxArray!Inserted(memory, at, items) = Memory!Inserted(memory, at, items)
      /\ MaxArray!Values(memory, size) = Memory!Values(memory, size)
      /\ MaxArray!Occupied(memory) = Memory!Occupied(memory)
      /\ MaxArray!destruct_range(memory, 1, size) = Memory!destruct_range(memory, 1, size)
  BY Zenon DEF MaxArray!Inserted, Memory!Inserted, MaxArray!Values, Memory!Values, MaxArray!Occupied, Memory!Occupied,
     MaxArray!destruct_range, Memory!destruct_range
<1>5. /\ MaxArray!Construct(place, value) = Memory!Construct(place, value)
      /\ MaxArray!Destroy(place) = Memory!Destroy(place)
      /\ MaxArray!IsObject(place) = Memory!IsObject(place)
      /\ MaxArray!Raw = Memory!Raw /\ MaxArray!Moved = Memory!Moved
  BY Zenon
<1> QED BY <1>1, <1>2, <1>3, <1>4, <1>5


(* push_back below the capacity. *)
LEMMA MaxArrayPush ==
  ASSUME NEW array, NEW values, NEW value, MaxArrayOf(array, values), value \in Objs, Len(values) + 1 <= Capacity
  PROVE  MaxArrayOf(MaxArray!push_back(array, value), Append(values, value))
<1> DEFINE n == Len(values)
           old == array.cells
           cells == [old EXCEPT ![n + 1] = Memory!Construct(@, value)]
           w == Append(values, value)
<1>1. array.size = n /\ n \in Nat /\ values \in Seq(Objs) /\ Holds(old, values) /\ Len(old) = Capacity
      /\ old \in Seq(Int)
  BY DEF MaxArrayOf, ArrayOf, Holds
<1>2. MaxArray!push_back(array, value) = [cells |-> cells, size |-> n + 1]
  <2>1. MaxArray!Construct(old[n + 1], value) = Memory!Construct(old[n + 1], value)
    BY ONLY MaxArrayMemory
  <2>2. MaxArray!push_back(array, value)
          = [cells |-> [old EXCEPT ![n + 1] = MaxArray!Construct(old[n + 1], value)], size |-> n + 1]
    BY <1>1 DEF MaxArray!push_back
  <2> HIDE DEF old
  <2> QED BY <2>1, <2>2
<1>3. Len(cells) = Capacity
  BY <1>1
<1> HIDE DEF old
<1>4. Holds(cells, w)
  BY <1>1, BehindFacts
<1>5. w \in Seq(Objs) /\ Len(w) = n + 1
  BY <1>1
<1> HIDE DEF cells, w, n
<1>6. cells \in Seq(Int)
  BY <1>4 DEF Holds
<1> QED BY <1>1, <1>2, <1>3, <1>4, <1>5, <1>6 DEF MaxArrayOf, ArrayOf, ArrayRecs, w

(* resize to a larger size: a loop of push_back. *)
LEMMA MaxArrayResize ==
  ASSUME NEW array, NEW values, NEW n, NEW value, MaxArrayOf(array, values), n \in Nat, value \in Objs, n <= Capacity
  PROVE  MaxArrayOf(MaxArray!resize(array, n, value), Longer(values, n, value))
<1> DEFINE S == ArrayRecs
           first == array
           G == [k \in 0 .. n |-> {r \in S : MaxArrayOf(r, Longer(values, k, value))}]
           Push(r, k) == IF k <= array.size THEN first ELSE MaxArray!push_back(r, value)
           longer[k \in 0 .. n] == IF k <= array.size THEN first ELSE MaxArray!push_back(longer[k - 1], value)
<1>1. MaxArray!resize(array, n, value) = longer[n]
  BY DEF MaxArray!resize
<1> HIDE DEF longer
<1>2. array.size = Len(values) /\ Len(values) \in Nat /\ values \in Seq(Objs)
  BY DEF MaxArrayOf, ArrayOf, Holds
<1>3. MaxArrayOf(first, values) /\ first \in S
  BY DEF MaxArrayOf, ArrayOf
<1> HIDE DEF S, first
<1>4. \A k \in 0 .. n : k <= array.size => first \in G[k]
  <2> SUFFICES ASSUME NEW k \in 0 .. n, k <= array.size
               PROVE  MaxArrayOf(first, Longer(values, k, value))
    BY <1>3
  <2>1. Longer(values, k, value) = values
    BY <1>2, LongerFacts
  <2> QED BY <1>3, <2>1
<1>5. \A k \in 0 .. n : G[k] \subseteq S
  OBVIOUS
<1>6. ASSUME NEW k \in 1 .. n, NEW r \in G[k - 1]
      PROVE  Push(r, k) \in G[k]
  <2>1. k \in 0 .. n /\ k - 1 \in 0 .. n /\ k - 1 \in Nat /\ (k - 1) + 1 = k
    OBVIOUS
  <2>2. CASE k <= array.size
    BY <1>4, <2>1, <2>2
  <2>3. CASE ~(k <= array.size)
    <3>1. k - 1 >= Len(values)
      BY <1>2, <2>3
    <3>2. MaxArrayOf(r, Longer(values, k - 1, value))
      BY <1>6, <2>1
    <3>3. MaxArrayOf(MaxArray!push_back(r, value), Append(Longer(values, k - 1, value), value))
      BY <3>2, MaxArrayPush
    <3>4. Longer(values, k, value) = Append(Longer(values, k - 1, value), value)
      <4>1. Longer(values, (k - 1) + 1, value) = Append(Longer(values, k - 1, value), value)
        BY <1>2, <2>1, <3>1, LongerFacts
      <4> QED BY <2>1, <4>1
    <3>5. MaxArrayOf(MaxArray!push_back(r, value), Longer(values, k, value)) /\ MaxArray!push_back(r, value) \in S
      BY <3>3, <3>4 DEF MaxArrayOf, ArrayOf, S
    <3> QED BY <2>1, <2>3, <3>5
  <2> QED BY <2>2, <2>3
<1>7. 0 \in 0 .. n /\ n \in 0 .. n /\ 0 <= array.size
  BY <1>2
<1> HIDE DEF G, Push
<1>8. longer = [k \in 0 .. n |-> IF k <= array.size THEN first ELSE MaxArray!push_back(longer[k - 1], value)]
  <2> DEFINE step == [x \in (1 .. n) \X S |-> Push(x[2], x[1])]
  <2>1. \A k \in 1 .. n, r \in S : step[<<k, r>>] = Push(r, k)
    OBVIOUS
  <2> HIDE DEF step
  <2>2. \A k \in 1 .. n : k \in 0 .. n /\ k - 1 \in 0 .. n
    OBVIOUS
  <2>3. LoopSteps(n, S, G, first, step)
    BY <1>4, <1>5, <1>6, <1>7, <2>1, <2>2 DEF LoopSteps
  <2>4. PICK f \in [0 .. n -> S] : f[0] = first /\ \A k \in 1 .. n : f[k] = step[<<k, f[k - 1]>>]
    <3>1. LoopRuns(n, S, G, first, step)
      BY ONLY <2>3, Recursion
    <3> QED BY ONLY <3>1 DEF LoopRuns
  <2>5. ASSUME NEW k \in 1 .. n
        PROVE  f[k] = IF k <= array.size THEN first ELSE MaxArray!push_back(f[k - 1], value)
    <3>1. f[k - 1] \in S
      BY <2>2, <2>4
    <3>2. f[k] = Push(f[k - 1], k)
      BY <2>1, <2>4, <3>1
    <3> QED BY ONLY <3>2 DEF Push
  <2>6. f = [k \in 0 .. n |-> IF k <= array.size THEN first ELSE MaxArray!push_back(f[k - 1], value)]
    <3>1. \A k \in 0 .. n : k = 0 \/ k \in 1 .. n
      OBVIOUS
    <3> QED BY <1>7, <2>4, <2>5, <3>1
  <2> QED BY <2>6, Zenon DEF longer
<1>9. longer[0] = first /\ \A k \in 0 .. n - 1 : longer[k + 1] = Push(longer[k], k + 1)
  <2>1. \A k \in 0 .. n - 1 : k + 1 \in 0 .. n /\ (k + 1) - 1 = k
    OBVIOUS
  <2> QED BY <1>7, <1>8, <2>1 DEF Push
<1>10. \A k \in 0 .. n - 1 : longer[k] \in G[k] => longer[k + 1] \in G[k + 1]
  <2> SUFFICES ASSUME NEW k \in 0 .. n - 1, longer[k] \in G[k]
               PROVE  Push(longer[k], k + 1) \in G[k + 1]
    BY <1>9
  <2>1. k + 1 \in 1 .. n /\ (k + 1) - 1 = k
    OBVIOUS
  <2> QED BY <1>6, <2>1
<1>11. \A k \in 0 .. n : longer[k] \in G[k]
  BY <1>4, <1>7, <1>9, <1>10, LoopInduction
<1> QED BY <1>1, <1>7, <1>11 DEF G


(* insert_impl below the capacity. *)
LEMMA MaxArrayInsert ==
  ASSUME NEW array, NEW values, NEW items, NEW at, MaxArrayOf(array, values), items \in Seq(Objs),
         at \in 0 .. Len(values), Len(values) + Len(items) <= Capacity
  PROVE  MaxArrayOf(MaxArray!insert_impl(array, items, at), Memory!Inserted(values, at, items))
<1> DEFINE old == array.cells
           cells == Memory!Fill(Memory!ShiftUp(old, Len(values), at, Len(items)), Len(values), at, items)
           w == Memory!Inserted(values, at, items)
<1>1. /\ array.size = Len(values) /\ Len(values) \in Nat /\ Len(items) \in Nat /\ values \in Seq(Objs)
      /\ Holds(old, values) /\ Len(old) = Capacity
  BY DEF MaxArrayOf, ArrayOf, Holds
<1>2. MaxArray!insert_impl(array, items, at) = [cells |-> cells, size |-> Len(values) + Len(items)]
  <2>1. MaxArray!ShiftUp(old, Len(values), at, Len(items)) = Memory!ShiftUp(old, Len(values), at, Len(items))
    BY ONLY MaxArrayMemory
  <2> DEFINE up == Memory!ShiftUp(old, Len(values), at, Len(items))
  <2> HIDE DEF up
  <2>2. MaxArray!Fill(up, Len(values), at, items) = Memory!Fill(up, Len(values), at, items)
    BY ONLY MaxArrayMemory
  <2>3. MaxArray!Fill(MaxArray!ShiftUp(old, Len(values), at, Len(items)), Len(values), at, items) = cells
    BY ONLY <2>1, <2>2 DEF up, cells
  <2> HIDE DEF cells
  <2> QED BY <1>1, <2>3 DEF MaxArray!insert_impl
<1> HIDE DEF old
<1>3. Holds(cells, w) /\ Len(cells) = Capacity
  BY <1>1, InsertFacts
<1>4. w \in Seq(Objs) /\ Len(w) = Len(values) + Len(items)
  BY <1>1, InsertedFacts
<1> HIDE DEF cells, w
<1>5. cells \in Seq(Int)
  BY <1>3 DEF Holds
<1>6. MaxArrayOf(MaxArray!insert_impl(array, items, at), w)
  BY <1>1, <1>2, <1>3, <1>4, <1>5 DEF MaxArrayOf, ArrayOf, ArrayRecs
<1> QED BY <1>6 DEF w

(* erase, with and without elements behind it. *)
LEMMA MaxArrayErase ==
  ASSUME NEW array, NEW values, NEW idx, MaxArrayOf(array, values), idx \in 1 .. Len(values)
  PROVE  MaxArrayOf(MaxArray!erase(array, idx), RemoveAt(values, idx))
<1> DEFINE n == Len(values)
           old == array.cells
           last == [old EXCEPT ![n] = Memory!Destroy(@)]
           down == Memory!ShiftDown(old, n, idx)
<1>1. array.size = n /\ n \in Nat /\ n > 0 /\ values \in Seq(Objs) /\ Holds(old, values) /\ idx \in 1 .. n
      /\ Len(old) = Capacity /\ old \in Seq(Int)
  BY DEF MaxArrayOf, ArrayOf, Holds
<1>2. /\ RemoveAt(values, idx) \in Seq(Objs) /\ Len(RemoveAt(values, idx)) = n - 1
      /\ \A j \in 1 .. n - 1 : RemoveAt(values, idx)[j] = IF j < idx THEN values[j] ELSE values[j + 1]
  BY <1>1, RemoveAtFacts
<1>3. Front(values) \in Seq(Objs) /\ Len(Front(values)) = n - 1 /\ \A j \in 1 .. n - 1 : Front(values)[j] = values[j]
  BY <1>1, FrontFacts
<1>4. Holds(last, Front(values)) /\ Holds(down, RemoveAt(values, idx)) /\ Len(down) = Capacity
  BY <1>1, LastFacts, ShiftDownFacts
<1>5. Len(last) = Capacity
  BY <1>1
<1>6. last \in Seq(Int) /\ down \in Seq(Int)
  BY <1>4 DEF Holds
<1>7. MaxArray!erase(array, idx) = [cells |-> IF idx = n THEN last ELSE down, size |-> n - 1]
  <2>1. MaxArray!ShiftDown(old, n, idx) = down
    BY ONLY MaxArrayMemory
  <2>2. MaxArray!Destroy(old[n]) = Memory!Destroy(old[n])
    BY ONLY MaxArrayMemory
  <2>3. [old EXCEPT ![n] = MaxArray!Destroy(@)] = last
    BY <2>2
  <2>4. MaxArray!erase(array, idx)
          = [cells |-> IF idx = n THEN [old EXCEPT ![idx] = MaxArray!Destroy(@)] ELSE MaxArray!ShiftDown(old, n, idx),
             size |-> n - 1]
    BY <1>1 DEF MaxArray!erase
  <2> HIDE DEF last, down
  <2>5. CASE idx = n
    BY <2>3, <2>4, <2>5
  <2>6. CASE idx # n
    BY <2>1, <2>4, <2>6
  <2> QED BY <2>5, <2>6
<1> HIDE DEF last, down, old, n
<1>8. CASE idx = n
  <2>1. Front(values) = RemoveAt(values, idx)
    BY <1>1, <1>8, RemoveLast DEF n
  <2> QED BY <1>1, <1>2, <1>4, <1>5, <1>6, <1>7, <1>8, <2>1 DEF MaxArrayOf, ArrayOf, ArrayRecs, n
<1>9. CASE idx # n
  BY <1>1, <1>2, <1>4, <1>6, <1>7, <1>9 DEF MaxArrayOf, ArrayOf, ArrayRecs, n
<1> QED BY <1>8, <1>9

(* clear destroys every element. *)
LEMMA MaxArrayClear ==
  ASSUME NEW array, NEW values, MaxArrayOf(array, values)
  PROVE  MaxArrayOf(MaxArray!clear(array), <<>>)
<1> DEFINE rest == Memory!destruct_range(array.cells, 1, array.size)
<1>1. MaxArray!destruct_range(array.cells, 1, array.size) = rest
  BY ONLY MaxArrayMemory
<1>2. Holds(rest, <<>>) /\ Len(rest) = Capacity
  BY DestructFacts DEF MaxArrayOf, ArrayOf
<1> HIDE DEF rest
<1>3. MaxArray!clear(array) = [cells |-> rest, size |-> 0]
  BY <1>1 DEF MaxArray!clear
<1>4. rest \in Seq(Int) /\ Len(<<>>) = 0
  BY <1>2 DEF Holds
<1> QED BY <1>2, <1>3, <1>4 DEF MaxArrayOf, ArrayOf, ArrayRecs

(* The lists that are given hold objects. *)
LEMMA MaxArrayLists ==
  ASSUME Data \subseteq Nat, NEW items, items \in MaxArray!Lists
  PROVE  items \in Seq(Objs)
<1>1. items = <<>> \/ (\E v \in Data : items = <<v>>) \/ \E v \in Data : items = <<v, v + 1>>
  BY DEF MaxArray!Lists
<1>2. Data \subseteq Objs /\ \A v \in Data : v + 1 \in Objs
  BY DEF Objs
<1>3. CASE items = <<>>
  BY <1>3
<1>4. CASE \E v \in Data : items = <<v>>
  <2>1. PICK v \in Objs : items = <<v>>
    BY <1>2, <1>4
  <2> QED BY <2>1
<1>5. CASE \E v \in Data : items = <<v, v + 1>>
  <2>1. PICK v \in Objs, w \in Objs : items = <<v, w>>
    BY <1>2, <1>5
  <2> QED BY <2>1
<1> QED BY <1>1, <1>3, <1>4, <1>5

(* The constructors. *)
LEMMA MaxArrayStart ==
  ASSUME Data \subseteq Nat, Capacity \in Nat, MaxArray!Init
  PROVE  MaxArrayInv
<1>1. PICK items \in MaxArray!Lists :
        /\ Len(items) <= Capacity
        /\ rep = MaxArray!insert_impl([cells |-> MaxArray!Fresh(Capacity), size |-> 0], items, 0)
        /\ ref = items
  BY DEF MaxArray!Init
<1>2. items \in Seq(Objs)
  BY MaxArrayLists
<1> DEFINE fresh == MaxArray!Fresh(Capacity)
           array == [cells |-> fresh, size |-> 0]
           none == <<>>
<1>3. fresh = [i \in 1 .. Capacity |-> Memory!Raw] /\ Memory!Raw \in Int
  BY DEF MaxArray!Fresh, MaxArray!Raw, Memory!Raw
<1> HIDE DEF fresh
<1>4. fresh \in Seq(Int) /\ Len(fresh) = Capacity /\ \A i \in 1 .. Capacity : fresh[i] = Memory!Raw
  BY <1>3
<1>5. none \in Seq(Objs) /\ Len(none) = 0 /\ 0 \in 0 .. Len(none) /\ Len(items) \in Nat
  BY <1>2
<1> HIDE DEF none
<1>6. Holds(fresh, none)
  BY <1>4, <1>5 DEF Holds
<1>7. MaxArrayOf(array, none)
  BY <1>4, <1>5, <1>6 DEF MaxArrayOf, ArrayOf, ArrayRecs
<1> HIDE DEF array
<1>8. MaxArrayOf(MaxArray!insert_impl(array, items, 0), Memory!Inserted(none, 0, items))
  <2>1. Len(none) + Len(items) <= Capacity
    BY <1>1, <1>5
  <2> QED BY <1>2, <1>5, <1>7, <2>1, MaxArrayInsert
<1>9. Memory!Inserted(none, 0, items) = items
  BY <1>2, InsertedInNone DEF none
<1> QED BY <1>1, <1>8, <1>9 DEF MaxArrayInv, array, fresh

(* Every call keeps the invariant. *)
LEMMA MaxArrayStep ==
  ASSUME Data \subseteq Nat, Capacity \in Nat, MaxArrayInv, MaxArray!Next
  PROVE  MaxArrayInv'
<1>1. /\ fault = "none" /\ MaxArrayOf(rep, ref) /\ rep.size = Len(ref) /\ Len(ref) \in Nat /\ ref \in Seq(Objs)
  BY DEF MaxArray!Next, MaxArrayInv, MaxArrayOf, ArrayOf, Holds
<1>2. \/ MaxArray!PushBack \/ MaxArray!Insert \/ MaxArray!PopBack \/ MaxArray!Resize \/ MaxArray!AssignList
      \/ MaxArray!Clear \/ MaxArray!Erase
  BY DEF MaxArray!Next
<1>3. ASSUME NEW array, NEW values, MaxArray!Put(array, values), MaxArrayOf(array, values)
      PROVE  MaxArrayInv'
  BY <1>3 DEF MaxArray!Put, MaxArrayInv
<1>4. ASSUME MaxArray!Raise
      PROVE  MaxArrayInv'
  BY <1>4 DEF MaxArray!Raise, MaxArray!vars, MaxArrayInv
<1>5. Data \subseteq Objs
  BY DEF Objs
<1>6. CASE MaxArray!PushBack
  <2>1. PICK v \in Data : IF rep.size + 1 > Capacity THEN MaxArray!Raise
                          ELSE MaxArray!Put(MaxArray!push_back(rep, v), Append(ref, v))
    BY <1>6 DEF MaxArray!PushBack
  <2>2. CASE rep.size + 1 > Capacity
    BY <1>4, <2>1, <2>2
  <2>3. CASE ~(rep.size + 1 > Capacity)
    <3>1. Len(ref) + 1 <= Capacity
      BY <1>1, <2>3
    <3>2. MaxArrayOf(MaxArray!push_back(rep, v), Append(ref, v))
      BY <1>1, <1>5, <3>1, MaxArrayPush
    <3> QED BY <1>3, <2>1, <2>3, <3>2
  <2> QED BY <2>2, <2>3
<1>7. CASE MaxArray!Insert
  <2>1. PICK items \in MaxArray!Lists, at \in 0 .. rep.size :
          IF rep.size + Len(items) > Capacity THEN MaxArray!Raise
          ELSE MaxArray!Put(MaxArray!insert_impl(rep, items, at), MaxArray!Inserted(ref, at, items))
    BY <1>7 DEF MaxArray!Insert
  <2>2. items \in Seq(Objs) /\ Len(items) \in Nat
    BY MaxArrayLists
  <2>3. CASE rep.size + Len(items) > Capacity
    BY <1>4, <2>1, <2>3
  <2>4. CASE ~(rep.size + Len(items) > Capacity)
    <3>1. Len(ref) + Len(items) <= Capacity /\ at \in 0 .. Len(ref)
      BY <1>1, <2>2, <2>4
    <3>2. MaxArrayOf(MaxArray!insert_impl(rep, items, at), Memory!Inserted(ref, at, items))
      BY <1>1, <2>2, <3>1, MaxArrayInsert
    <3>3. MaxArray!Inserted(ref, at, items) = Memory!Inserted(ref, at, items)
      BY ONLY MaxArrayMemory
    <3> QED BY <1>3, <2>1, <2>4, <3>2, <3>3
  <2> QED BY <2>3, <2>4
<1>8. CASE MaxArray!PopBack
  BY <1>4, <1>8 DEF MaxArray!PopBack, MaxArrayInv
<1>9. CASE MaxArray!Resize
  <2>1. PICK n \in 0 .. Capacity + 1, v \in Data :
          IF n > Capacity THEN MaxArray!Raise
          ELSE IF rep.size <= n THEN MaxArray!Put(MaxArray!resize(rep, n, v), Longer(ref, n, v))
          ELSE fault' = "resized down"
    BY <1>9 DEF MaxArray!Resize, Longer
  <2>2. CASE n > Capacity
    BY <1>4, <2>1, <2>2
  <2>3. CASE ~(n > Capacity) /\ rep.size <= n
    <3>1. n \in Nat /\ n <= Capacity
      BY <2>3
    <3>2. MaxArrayOf(MaxArray!resize(rep, n, v), Longer(ref, n, v))
      BY <1>1, <1>5, <3>1, MaxArrayResize
    <3> QED BY <1>3, <2>1, <2>3, <3>2
  <2>4. CASE ~(n > Capacity) /\ ~(rep.size <= n)
    BY <2>1, <2>4 DEF MaxArrayInv
  <2> QED BY <2>2, <2>3, <2>4
<1>10. CASE MaxArray!AssignList
  <2>1. PICK items \in MaxArray!Lists :
          \/ MaxArray!Put(MaxArray!clear(rep), <<>>)
          \/ fault' = "no result returned"
    BY <1>10 DEF MaxArray!AssignList, MaxArray!Put
  <2>2. MaxArrayOf(MaxArray!clear(rep), <<>>)
    BY <1>1, MaxArrayClear
  <2> QED BY <1>3, <2>1, <2>2 DEF MaxArrayInv
<1>11. CASE MaxArray!Clear
  <2>1. MaxArrayOf(MaxArray!clear(rep), <<>>)
    BY <1>1, MaxArrayClear
  <2> QED BY <1>3, <1>11, <2>1 DEF MaxArray!Clear
<1>12. CASE MaxArray!Erase
  <2>1. PICK idx \in 1 .. Capacity :
          IF idx > rep.size THEN MaxArray!Raise
          ELSE MaxArray!Put(MaxArray!erase(rep, idx), MaxArray!Removed(ref, idx))
    BY <1>12 DEF MaxArray!Erase
  <2>2. CASE idx > rep.size
    BY <1>4, <2>1, <2>2
  <2>3. CASE ~(idx > rep.size)
    <3>1. idx \in 1 .. Len(ref)
      BY <1>1, <2>3
    <3>2. MaxArrayOf(MaxArray!erase(rep, idx), RemoveAt(ref, idx))
      BY <1>1, <3>1, MaxArrayErase
    <3>3. MaxArray!Removed(ref, idx) = RemoveAt(ref, idx)
      BY Zenon DEF MaxArray!Removed, RemoveAt
    <3> QED BY <1>3, <2>1, <2>3, <3>2, <3>3
  <2> QED BY <2>2, <2>3
<1> QED BY <1>2, <1>6, <1>7, <1>8, <1>9, <1>10, <1>11, <1>12

(* MaxArray, of any capacity: the same for the array that never grows and    *)
(* raises instead; until a call meets one of its faults.                     *)
THEOREM MaxArrayHolds ==
  ASSUME Data \subseteq Nat, Capacity \in Nat
  PROVE  MaxArray!Spec => [](MaxArray!ObjectsSound /\ MaxArray!Represents)
<1>1. MaxArray!Init => MaxArrayInv
  BY MaxArrayStart
<1>2. MaxArrayInv /\ [MaxArray!Next]_MaxArray!vars => MaxArrayInv'
  <2>1. CASE MaxArray!Next
    BY <2>1, MaxArrayStep
  <2>2. CASE UNCHANGED MaxArray!vars
    BY <2>2 DEF MaxArray!vars, MaxArrayInv
  <2> QED BY <2>1, <2>2
<1>3. ASSUME MaxArrayInv
      PROVE  MaxArray!ObjectsSound /\ MaxArray!Represents
  <2>1. SUFFICES ASSUME fault = "none"
                 PROVE  /\ \A i \in 1 .. Capacity : IF i <= rep.size THEN MaxArray!IsObject(rep.cells[i])
                                                    ELSE rep.cells[i] = MaxArray!Raw
                        /\ MaxArray!Values(rep.cells, rep.size) = ref
    BY DEF MaxArray!ObjectsSound, MaxArray!Represents
  <2>2. rep.size = Len(ref) /\ Holds(rep.cells, ref) /\ Len(rep.cells) = Capacity
    BY <1>3, <2>1 DEF MaxArrayInv, MaxArrayOf, ArrayOf
  <2>3. Memory!Values(rep.cells, rep.size) = ref
    BY <2>2, ValuesFacts
  <2>4. MaxArray!Values(rep.cells, rep.size) = Memory!Values(rep.cells, rep.size) /\ MaxArray!Raw = Memory!Raw
    BY ONLY MaxArrayMemory
  <2>5. ASSUME NEW i \in 1 .. Capacity
        PROVE  IF i <= rep.size THEN MaxArray!IsObject(rep.cells[i]) ELSE rep.cells[i] = MaxArray!Raw
    <3>1. ref \in Seq(Objs) /\ rep.cells[i] = IF i <= rep.size THEN ref[i] ELSE Memory!Raw
      BY <2>2 DEF Holds
    <3>2. CASE i <= rep.size
      <4>1. ref[i] \in Objs
        BY <2>2, <3>1, <3>2
      <4>2. Memory!IsObject(ref[i])
        BY <4>1, ObjectFacts
      <4>3. MaxArray!IsObject(ref[i]) = Memory!IsObject(ref[i])
        BY ONLY MaxArrayMemory
      <4> QED BY <3>1, <3>2, <4>2, <4>3
    <3>3. CASE ~(i <= rep.size)
      BY <2>4, <3>1, <3>3
    <3> QED BY <3>2, <3>3
  <2> QED BY <2>3, <2>4, <2>5
<1> QED BY <1>1, <1>2, <1>3, PTL DEF MaxArray!Spec

-----------------------------------------------------------------------------
(* Dictionary. Each text of a dictionary has a string of its own, and the   *)
(* strings that were made are those in use or freed.                        *)
DictInv ==
    fault = "none" =>
      /\ rep = [a |-> rep.a, b |-> rep.b, live |-> rep.live, next |-> rep.next]
      /\ ref = [a |-> ref.a, b |-> ref.b]
      /\ Owners(rep.a, ref.a, rep.b, ref.b, rep.live, rep.next)

(* One of the dictionaries is x, and the other y. *)
LEMMA DictPut ==
  ASSUME NEW x, NEW y, NEW p, NEW u, NEW q, NEW w, NEW live, NEW next, DictInv, fault = "none",
         x \in Dictionary!Names, y \in Dictionary!Names, x # y, Owners(p, u, q, w, live, next),
         rep' = [rep EXCEPT ![x] = p, ![y] = q, !.live = live, !.next = next],
         ref' = [ref EXCEPT ![x] = u, ![y] = w]
  PROVE  DictInv'
<1>1. CASE x = "a" /\ y = "b"
  <2>1. rep' = [a |-> p, b |-> q, live |-> live, next |-> next] /\ ref' = [a |-> u, b |-> w]
    BY <1>1 DEF DictInv
  <2> QED BY ONLY <2>1, Owners(p, u, q, w, live, next) DEF DictInv
<1>2. CASE x = "b" /\ y = "a"
  <2>1. rep' = [a |-> q, b |-> p, live |-> live, next |-> next] /\ ref' = [a |-> w, b |-> u]
    BY <1>2 DEF DictInv
  <2>2. Owners(q, w, p, u, live, next)
    BY OwnersSymmetry
  <2> QED BY ONLY <2>1, <2>2 DEF DictInv
<1>3. (x = "a" /\ y = "b") \/ (x = "b" /\ y = "a")
  BY ONLY x \in Dictionary!Names, y \in Dictionary!Names, x # y DEF Dictionary!Names
<1> QED BY <1>1, <1>2, <1>3

(* Every call keeps the invariant. *)
LEMMA DictStep ==
  ASSUME DictInv, Dictionary!Next
  PROVE  DictInv'
<1>1. fault = "none"
  BY DEF Dictionary!Next
<1>2. CASE Dictionary!Swap
  <2>1. rep' = [a |-> rep.b, b |-> rep.a, live |-> rep.live, next |-> rep.next] /\ ref' = [a |-> ref.b, b |-> ref.a]
    BY <1>1, <1>2 DEF Dictionary!Swap, DictInv
  <2>2. Owners(rep.b, ref.b, rep.a, ref.a, rep.live, rep.next)
    BY <1>1, OwnersSymmetry DEF DictInv
  <2> QED BY ONLY <2>1, <2>2 DEF DictInv
<1>3. ASSUME NEW x \in Dictionary!Names,
             Dictionary!Set(x) \/ Dictionary!Subscript(x) \/ Dictionary!Erase(x) \/ Dictionary!Clear(x)
               \/ Dictionary!CopyConstruct(x) \/ Dictionary!AssignCopy(x) \/ Dictionary!AssignMove(x)
      PROVE  DictInv'
  <2> DEFINE y == Dictionary!Other(x)
  <2>1. x \in Dictionary!Names /\ y \in Dictionary!Names /\ x # y
    BY DEF Dictionary!Names, Dictionary!Other
  <2> HIDE DEF y
  <2>2. /\ Owners(rep[x], ref[x], rep[y], ref[y], rep.live, rep.next)
        /\ DOMAIN rep = {"a", "b", "live", "next"} /\ DOMAIN ref = {"a", "b"}
        /\ rep = [rep EXCEPT ![x] = rep[x], ![y] = rep[y], !.live = rep.live, !.next = rep.next]
        /\ ref = [ref EXCEPT ![x] = ref[x], ![y] = ref[y]]
    <3>1. /\ DOMAIN rep = {"a", "b", "live", "next"} /\ DOMAIN ref = {"a", "b"}
          /\ rep = [rep EXCEPT ![x] = rep[x], ![y] = rep[y], !.live = rep.live, !.next = rep.next]
          /\ ref = [ref EXCEPT ![x] = ref[x], ![y] = ref[y]]
      BY <1>1 DEF DictInv
    <3>2. Owners(rep.a, ref.a, rep.b, ref.b, rep.live, rep.next)
      BY <1>1 DEF DictInv
    <3>3. Owners(rep.b, ref.b, rep.a, ref.a, rep.live, rep.next)
      BY <3>2, OwnersSymmetry
    <3>4. (x = "a" /\ y = "b") \/ (x = "b" /\ y = "a")
      BY ONLY <2>1 DEF Dictionary!Names
    <3>5. Owners(rep[x], ref[x], rep[y], ref[y], rep.live, rep.next)
      BY ONLY <3>2, <3>3, <3>4
    <3> QED BY <3>1, <3>5
  <2>3. DOMAIN rep[x] = ref[x] /\ DOMAIN rep[y] = ref[y]
    BY <2>2 DEF Owners, Owned
  <2>4. ASSUME NEW p, NEW u, NEW q, NEW w, NEW live, NEW next, Owners(p, u, q, w, live, next),
               rep' = [rep EXCEPT ![x] = p, ![y] = q, !.live = live, !.next = next],
               ref' = [ref EXCEPT ![x] = u, ![y] = w]
        PROVE  DictInv'
    BY ONLY <1>1, <2>1, <2>4, DictInv, DictPut
  <2>y. ASSUME NEW p, NEW u, NEW live, NEW next, Owners(p, u, rep[y], ref[y], live, next),
               rep' = [rep EXCEPT ![x] = p, !.live = live, !.next = next], ref' = [ref EXCEPT ![x] = u]
        PROVE  DictInv'
    <3>1. x \notin {"live", "next"} /\ y \notin {"live", "next"} /\ x # y
      BY ONLY <2>1 DEF Dictionary!Names
    <3>2. rep = [t \in DOMAIN rep |-> rep[t]] /\ ref = [t \in DOMAIN ref |-> ref[t]]
      BY ONLY <2>2
    <3>3. /\ [rep EXCEPT ![x] = p, ![y] = rep[y], !.live = live, !.next = next]
             = [rep EXCEPT ![x] = p, !.live = live, !.next = next]
          /\ [ref EXCEPT ![x] = u, ![y] = ref[y]] = [ref EXCEPT ![x] = u]
      BY ONLY <3>1, <3>2
    <3>4. /\ rep' = [rep EXCEPT ![x] = p, ![y] = rep[y], !.live = live, !.next = next]
          /\ ref' = [ref EXCEPT ![x] = u, ![y] = ref[y]]
      BY ONLY <2>y, <3>3, Zenon
    <3> QED BY ONLY <2>4, <2>y, <3>4
  <2>z. ASSUME NEW p, NEW u, NEW live, Owners(p, u, rep[y], ref[y], live, rep.next),
               rep' = [rep EXCEPT ![x] = p, !.live = live], ref' = [ref EXCEPT ![x] = u]
        PROVE  DictInv'
    <3>1. x # "next" /\ rep = [t \in DOMAIN rep |-> rep[t]]
      BY ONLY <2>1, <2>2 DEF Dictionary!Names
    <3>2. [rep EXCEPT ![x] = p, !.live = live] = [rep EXCEPT ![x] = p, !.live = live, !.next = rep.next]
      BY ONLY <3>1
    <3>3. rep' = [rep EXCEPT ![x] = p, !.live = live, !.next = rep.next]
      BY ONLY <2>z, <3>2, Zenon
    <3> QED BY ONLY <2>y, <2>z, <3>3
  <2>5. ASSUME fault' # "none"
        PROVE  DictInv'
    BY <2>5 DEF DictInv
  <2>6. CASE Dictionary!Set(x) \/ Dictionary!Subscript(x)
    <3>1. PICK text : Dictionary!insert_one(x, text)
      BY <2>6 DEF Dictionary!Set, Dictionary!Subscript
    <3>2. CASE text \in DOMAIN rep[x]
      BY <2>5, <3>1, <3>2 DEF Dictionary!insert_one
    <3>3. CASE text \notin DOMAIN rep[x]
      <4> DEFINE next == rep.next
                 P == WithKey(rep[x], ref[x], text, next)
      <4>1. /\ rep' = [rep EXCEPT ![x] = [t \in DOMAIN rep[x] \cup {text} |-> IF t \in DOMAIN rep[x] THEN rep[x][t] ELSE rep.next],
                                  !.live = @ \cup {rep.next}, !.next = @ + 1]
            /\ ref' = [ref EXCEPT ![x] = ref[x] \cup {text}]
        BY <3>1, Zenon DEF Dictionary!insert_one
      <4>2. Owners(P, ref[x] \cup {text}, rep[y], ref[y], rep.live \cup {next}, next + 1)
        BY <2>2, <2>3, <3>3, OwnersInsert
      <4>3. [t \in DOMAIN rep[x] \cup {text} |-> IF t \in DOMAIN rep[x] THEN rep[x][t] ELSE rep.next] = P
        BY <2>3 DEF WithKey
      <4> HIDE DEF P
      <4>4. /\ rep' = [rep EXCEPT ![x] = P, !.live = rep.live \cup {next}, !.next = next + 1]
            /\ ref' = [ref EXCEPT ![x] = ref[x] \cup {text}]
        BY <4>1, <4>3
      <4> HIDE DEF next
      <4> QED BY ONLY <2>y, <4>2, <4>4
    <3> QED BY <3>2, <3>3
  <2>7. CASE Dictionary!Erase(x)
    <3>1. PICK text \in DOMAIN rep[x] :
            /\ rep' = [rep EXCEPT ![x] = [t \in DOMAIN rep[x] \ {text} |-> rep[x][t]],
                                  !.live = rep.live \ {rep[x][text]}]
            /\ ref' = [ref EXCEPT ![x] = ref[x] \ {text}]
      BY <2>1, <2>7 DEF Dictionary!Erase, Dictionary!Names
    <3> DEFINE P == [t \in ref[x] \ {text} |-> rep[x][t]]
               live == rep.live \ {rep[x][text]}
               U == ref[x] \ {text}
    <3>2. Owners(P, U, rep[y], ref[y], live, rep.next)
      BY <2>2, <2>3, OwnersErase
    <3>3. rep' = [rep EXCEPT ![x] = P, !.live = live] /\ ref' = [ref EXCEPT ![x] = U]
      BY <2>3, <3>1
    <3> HIDE DEF P, live, U
    <3> QED BY ONLY <2>z, <3>2, <3>3
  <2>8. CASE Dictionary!Clear(x)
    <3> DEFINE P == Dictionary!NoKeys
               live == rep.live \ Image(rep[x], ref[x])
               U == {}
    <3>1. Dictionary!KeysOf(x) = Image(rep[x], ref[x])
      BY <2>3 DEF Dictionary!KeysOf, Image
    <3>2. Owners(P, U, rep[y], ref[y], live, rep.next)
      <4>1. P \in [{} -> Nat]
        BY DEF Dictionary!NoKeys
      <4> HIDE DEF P, live
      <4> QED BY ONLY <2>2, <4>1, OwnersClear DEF live, U
    <3>3. rep' = [rep EXCEPT ![x] = P, !.live = live] /\ ref' = [ref EXCEPT ![x] = U]
      BY <2>1, <2>8, <3>1 DEF Dictionary!Clear, Dictionary!Names
    <3> HIDE DEF P, live, U
    <3> QED BY ONLY <2>z, <3>2, <3>3
  <2>9. CASE Dictionary!CopyConstruct(x)
    <3> DEFINE n == Cardinality(ref[y])
    <3>1. PICK copy \in [ref[y] -> rep.next .. rep.next + n - 1] :
            /\ \A s, t \in DOMAIN copy : copy[s] = copy[t] => s = t
            /\ rep' = [rep EXCEPT ![x] = copy, !.next = rep.next + n,
                                  !.live = rep.live \cup (rep.next .. rep.next + n - 1)]
      <4>1. Dictionary!Cardinality(ref[y]) = n
        BY ONLY Zenon DEF Dictionary!Cardinality, Cardinality
      <4> HIDE DEF n
      <4> QED BY <2>1, <2>3, <2>9, <4>1 DEF Dictionary!CopyConstruct, y, Dictionary!Names
    <3>2. rep[x] = Dictionary!NoKeys /\ ref' = [ref EXCEPT ![x] = ref[y]]
      BY <2>9 DEF Dictionary!CopyConstruct, y
    <3>3. \A s, t \in ref[y] : copy[s] = copy[t] => s = t
      BY <3>1
    <3> HIDE DEF n
    <3> DEFINE live == rep.live \cup (rep.next .. rep.next + n - 1)
               next == rep.next + n
    <3>4. Owners(copy, ref[y], rep[y], ref[y], live, next)
      <4>1. ref[x] = {}
        <5>1. rep[x] \in [ref[x] -> Nat]
          BY ONLY <2>2 DEF Owners, Owned
        <5> QED BY ONLY <3>2, <5>1 DEF Dictionary!NoKeys
      <4> QED BY ONLY <2>2, <3>1, <3>3, <4>1, OwnersCopy DEF n
    <3>5. rep' = [rep EXCEPT ![x] = copy, !.next = next, !.live = live]
      BY <3>1
    <3> HIDE DEF live, next
    <3> QED BY ONLY <2>y, <3>2, <3>4, <3>5
  <2>10. CASE Dictionary!AssignCopy(x)
    <3>1. CASE rep[x] # Dictionary!NoKeys \/ rep[y] # Dictionary!NoKeys
      BY <2>5, <2>10, <3>1 DEF Dictionary!AssignCopy, y
    <3>2. CASE rep[x] = Dictionary!NoKeys /\ rep[y] = Dictionary!NoKeys
      <4>1. ref[x] = ref[y]
        BY <2>3, <3>2
      <4>2. rep' = [rep EXCEPT ![x] = rep[y]] /\ ref' = [ref EXCEPT ![x] = ref[y]]
        BY <2>10 DEF Dictionary!AssignCopy, y
      <4>3. rep' = rep /\ ref' = ref
        <5>1. rep = [t \in DOMAIN rep |-> rep[t]] /\ ref = [t \in DOMAIN ref |-> ref[t]]
          BY ONLY <2>2
        <5>2. rep[x] = rep[y] /\ ref[x] = ref[y]
          BY ONLY <3>2, <4>1
        <5> QED BY ONLY <4>2, <5>1, <5>2
      <4> QED BY ONLY <1>1, <4>3, DictInv DEF DictInv
    <3> QED BY <3>1, <3>2
  <2>11. CASE Dictionary!AssignMove(x)
    <3>1. CASE rep[x] # Dictionary!NoKeys
      BY <2>5, <2>11, <3>1 DEF Dictionary!AssignMove
    <3>2. CASE rep[x] = Dictionary!NoKeys
      <4> DEFINE none == Dictionary!NoKeys
                 empty == {}
      <4>1. ref[x] = empty
        BY <2>3, <3>2 DEF Dictionary!NoKeys
      <4>2. rep' = [rep EXCEPT ![x] = rep[y], ![y] = none] /\ ref' = [ref EXCEPT ![x] = ref[y], ![y] = empty]
        BY <2>11 DEF Dictionary!AssignMove, y
      <4>3. Owners(rep[y], ref[y], none, empty, rep.live, rep.next)
        <5>1. rep[x] = none /\ ref[x] = empty
          BY <3>2, <4>1
        <5> HIDE DEF none, empty
        <5> QED BY ONLY <2>2, <5>1, OwnersSymmetry
      <4> HIDE DEF none, empty
      <4>4. rep' = [rep EXCEPT ![x] = rep[y], ![y] = none, !.live = rep.live, !.next = rep.next]
        BY ONLY <2>1, <2>2, <4>2 DEF Dictionary!Names
      <4> QED BY ONLY <2>4, <4>2, <4>3, <4>4
    <3> QED BY <3>1, <3>2
  <2> QED BY <1>3, <2>6, <2>7, <2>8, <2>9, <2>10, <2>11
<1> QED BY <1>2, <1>3 DEF Dictionary!Next

(* Dictionary, of any texts: each text in it has one string of its own, the  *)
(* strings of the two dictionaries are apart, no string is leaked or freed   *)
(* twice, and the texts are those that should be there; until a call meets a *)
(* fault.                                                                    *)
THEOREM DictionaryHolds ==
  Dictionary!Spec => [](Dictionary!ObjectsSound /\ Dictionary!Represents)
<1>1. ASSUME Dictionary!Init
      PROVE  DictInv
  <2>1. Owned(Dictionary!NoKeys, {})
    BY FS_EmptySet DEF Owned, Dictionary!NoKeys
  <2>2. Owners(Dictionary!NoKeys, {}, Dictionary!NoKeys, {}, {}, 1)
    BY <2>1 DEF Owners, Image
  <2> QED BY <1>1, <2>2 DEF Dictionary!Init, DictInv
<1>2. DictInv /\ [Dictionary!Next]_Dictionary!vars => DictInv'
  <2>1. CASE Dictionary!Next
    BY <2>1, DictStep
  <2>2. CASE UNCHANGED Dictionary!vars
    BY <2>2 DEF Dictionary!vars, DictInv
  <2> QED BY <2>1, <2>2
<1>3. ASSUME DictInv
      PROVE  Dictionary!ObjectsSound /\ Dictionary!Represents
  <2> SUFFICES ASSUME fault = "none"
               PROVE  /\ rep.live = Dictionary!KeysOf("a") \cup Dictionary!KeysOf("b")
                      /\ Dictionary!KeysOf("a") \cap Dictionary!KeysOf("b") = {}
                      /\ \A x \in Dictionary!Names :
                            Dictionary!Cardinality(Dictionary!KeysOf(x)) = Dictionary!Cardinality(DOMAIN rep[x])
                      /\ \A x \in Dictionary!Names : DOMAIN rep[x] = ref[x]
    BY DEF Dictionary!ObjectsSound, Dictionary!Represents
  <2>1. Owners(rep.a, ref.a, rep.b, ref.b, rep.live, rep.next)
    BY <1>3 DEF DictInv
  <2>2. \A x \in Dictionary!Names : Owned(rep[x], ref[x]) /\ DOMAIN rep[x] = ref[x]
    BY <2>1 DEF Owners, Owned, Dictionary!Names
  <2>3. \A x \in Dictionary!Names : Dictionary!KeysOf(x) = Image(rep[x], ref[x])
    BY <2>2 DEF Dictionary!KeysOf, Image
  <2>4. "a" \in Dictionary!Names /\ "b" \in Dictionary!Names
    BY DEF Dictionary!Names
  <2>5. /\ rep.live = Dictionary!KeysOf("a") \cup Dictionary!KeysOf("b")
        /\ Dictionary!KeysOf("a") \cap Dictionary!KeysOf("b") = {}
    BY <2>1, <2>3, <2>4 DEF Owners, Image
  <2>6. \A S : Dictionary!Cardinality(S) = Cardinality(S)
    BY ONLY Zenon DEF Dictionary!Cardinality, Cardinality
  <2>7. \A x \in Dictionary!Names : Cardinality(Dictionary!KeysOf(x)) = Cardinality(DOMAIN rep[x])
    BY <2>2, <2>3, OwnedCardinality
  <2> QED BY <2>2, <2>5, <2>6, <2>7
<1> QED BY <1>1, <1>2, <1>3, PTL DEF Dictionary!Spec

-----------------------------------------------------------------------------
(* AutoList. The links of the sequence form the chain from the head; what a *)
(* link outside of it points to does not matter, until it is unlinked again.*)
AutoConstants == "null" \notin Nodes /\ "head" \notin Nodes

AutoCells == [next : Nodes \cup {"null"}, prev_next_ptr : Nodes \cup {"null", "head"}]
AutoReps == [head_ : Nodes \cup {"null"}, link : [Nodes -> AutoCells]]

Distinct(s) == \A i, j \in 1 .. Len(s) : s[i] = s[j] => i = j

Chained(r, s) ==
    /\ r.head_ = IF Len(s) = 0 THEN "null" ELSE s[1]
    /\ \A i \in 1 .. Len(s) :
         /\ r.link[s[i]].next = IF i = Len(s) THEN "null" ELSE s[i + 1]
         /\ r.link[s[i]].prev_next_ptr = IF i = 1 THEN "head" ELSE s[i - 1]

AutoInv ==
    fault = "none" => rep \in AutoReps /\ ref \in Seq(Nodes) /\ Distinct(ref) /\ Chained(rep, ref)

(* What each of the two operations does to every pointer. *)
LEMMA AutoLinkFacts ==
  ASSUME AutoConstants, NEW r \in AutoReps, NEW l \in Nodes, r.head_ # l
  PROVE  LET u == Linked!auto_link_head(r, l)
         IN  /\ u \in AutoReps /\ u.head_ = l
             /\ \A k \in Nodes :
                  /\ u.link[k].next = IF k = l THEN r.head_ ELSE r.link[k].next
                  /\ u.link[k].prev_next_ptr = IF k = l THEN "head" ELSE
                                               IF k = r.head_ THEN l ELSE r.link[k].prev_next_ptr
<1> DEFINE r1 == IF r.head_ = "null" THEN r ELSE [r EXCEPT !.link[r.head_].prev_next_ptr = l]
<1>1. /\ r1 \in AutoReps /\ r1.head_ = r.head_
      /\ \A k \in Nodes : /\ r1.link[k].next = r.link[k].next
                          /\ r1.link[k].prev_next_ptr = IF k = r.head_ THEN l ELSE r.link[k].prev_next_ptr
  BY DEF AutoConstants, AutoReps, AutoCells
<1>2. Linked!auto_link_head(r, l) = [r1 EXCEPT !.link[l] = [next |-> r.head_, prev_next_ptr |-> "head"], !.head_ = l]
  BY DEF Linked!auto_link_head, Linked!Null, Linked!Anchor
<1> HIDE DEF r1
<1> DEFINE new == [next |-> r.head_, prev_next_ptr |-> "head"]
           u == [r1 EXCEPT !.link[l] = new, !.head_ = l]
<1>3. new \in AutoCells /\ new.next = r.head_ /\ new.prev_next_ptr = "head"
  BY DEF AutoReps, AutoCells
<1> HIDE DEF new
<1>4. u \in AutoReps /\ u.head_ = l /\ u.link = [r1.link EXCEPT ![l] = new]
  BY <1>1, <1>3 DEF AutoReps
<1> HIDE DEF u
<1>5. \A k \in Nodes : u.link[k] = IF k = l THEN new ELSE r1.link[k]
  BY <1>1, <1>4 DEF AutoReps
<1>6. \A k \in Nodes : /\ u.link[k].next = IF k = l THEN r.head_ ELSE r.link[k].next
                       /\ u.link[k].prev_next_ptr = IF k = l THEN "head" ELSE
                                                    IF k = r.head_ THEN l ELSE r.link[k].prev_next_ptr
  BY <1>1, <1>3, <1>5
<1> QED BY <1>2, <1>4, <1>6 DEF u, new

(* The same of unlink, for which a link that points nowhere changes nothing. *)
LEMMA AutoUnlinkFacts ==
  ASSUME AutoConstants, NEW r \in AutoReps, NEW l \in Nodes
  PROVE  LET u == Linked!auto_unlink(r, l)
             n == r.link[l].next
             p == r.link[l].prev_next_ptr
         IN  /\ u \in AutoReps /\ u.head_ = IF p = "head" THEN n ELSE r.head_
             /\ \A k \in Nodes :
                  /\ u.link[k].next = IF k = p THEN n ELSE r.link[k].next
                  /\ u.link[k].prev_next_ptr = IF k = n THEN p ELSE r.link[k].prev_next_ptr
<1> DEFINE n == r.link[l].next
           p == r.link[l].prev_next_ptr
           r1 == IF n = "null" THEN r ELSE [r EXCEPT !.link[n].prev_next_ptr = p]
<1>1. n \in Nodes \cup {"null"} /\ p \in Nodes \cup {"null", "head"}
  BY DEF AutoReps, AutoCells
<1>2. Linked!auto_unlink(r, l) = IF p = "null" THEN r1
                                 ELSE IF p = "head" THEN [r1 EXCEPT !.head_ = n]
                                 ELSE [r1 EXCEPT !.link[p].next = n]
  BY DEF Linked!auto_unlink, Linked!Through, Linked!Null, Linked!Anchor
<1> HIDE DEF n, p
<1>3. /\ r1 \in AutoReps /\ r1.head_ = r.head_
      /\ \A k \in Nodes : /\ r1.link[k].next = r.link[k].next
                          /\ r1.link[k].prev_next_ptr = IF k = n THEN p ELSE r.link[k].prev_next_ptr
  BY <1>1 DEF AutoConstants, AutoReps, AutoCells
<1> HIDE DEF r1
<1>4. CASE p = "null"
  BY <1>2, <1>3, <1>4 DEF AutoConstants, n, p
<1>5. CASE p = "head"
  BY <1>1, <1>2, <1>3, <1>5 DEF AutoConstants, AutoReps, n, p
<1>6. CASE p \in Nodes
  <2> DEFINE u == [r1 EXCEPT !.link[p].next = n]
             cell == [r1.link[p] EXCEPT !.next = n]
  <2>3. cell \in AutoCells /\ cell.next = n /\ cell.prev_next_ptr = r1.link[p].prev_next_ptr
    BY <1>1, <1>3, <1>6 DEF AutoReps, AutoCells
  <2>4. u = [r1 EXCEPT !.link = [r1.link EXCEPT ![p] = cell]]
    BY <1>3, <1>6 DEF AutoReps
  <2> HIDE DEF cell
  <2>5. u \in AutoReps /\ u.head_ = r1.head_ /\ u.link = [r1.link EXCEPT ![p] = cell]
    BY <1>3, <1>6, <2>3, <2>4, SMTT(30) DEF AutoReps
  <2> HIDE DEF u
  <2>6. \A k \in Nodes : u.link[k] = IF k = p THEN cell ELSE r1.link[k]
    BY <1>3, <1>6, <2>5 DEF AutoReps
  <2>1. \A k \in Nodes : /\ u.link[k].next = IF k = p THEN n ELSE r1.link[k].next
                         /\ u.link[k].prev_next_ptr = r1.link[k].prev_next_ptr
    BY <2>3, <2>6
  <2>2. Linked!auto_unlink(r, l) = u
    BY <1>2, <1>6 DEF AutoConstants, u
  <2> QED BY <1>3, <1>6, <2>1, <2>2, <2>5 DEF AutoConstants, n, p
<1> QED BY <1>1, <1>4, <1>5, <1>6

(* Without an element, for a sequence without duplicates. *)
LEMMA TakenOut ==
  ASSUME NEW S, NEW s \in Seq(S), Distinct(s), NEW i \in 1 .. Len(s)
  PROVE  Linked!Without(s, s[i]) = RemoveAt(s, i)
<1>1. \A j : Linked!WithoutAt(s, j) = RemoveAt(s, j)
  BY Zenon DEF Linked!WithoutAt, RemoveAt
<1>2. (CHOOSE j \in DOMAIN s : s[j] = s[i]) = i
  BY DEF Distinct
<1>3. s[i] \in Linked!Range(s)
  BY DEF Linked!Range
<1>4. Linked!Without(s, s[i]) = Linked!WithoutAt(s, CHOOSE j \in DOMAIN s : s[j] = s[i])
  BY <1>3 DEF Linked!Without
<1> QED BY <1>1, <1>2, <1>4

(* A chain keeps together when one of its links is unlinked. *)
LEMMA ChainWithout ==
  ASSUME AutoConstants, NEW r \in AutoReps, NEW s \in Seq(Nodes), Distinct(s), Chained(r, s), NEW i \in 1 .. Len(s)
  PROVE  /\ RemoveAt(s, i) \in Seq(Nodes) /\ Distinct(RemoveAt(s, i))
         /\ \A j \in 1 .. Len(RemoveAt(s, i)) : RemoveAt(s, i)[j] # s[i]
         /\ Chained(Linked!auto_unlink(r, s[i]), RemoveAt(s, i))
<1> DEFINE u == Linked!auto_unlink(r, s[i])
           t == RemoveAt(s, i)
           n == r.link[s[i]].next
           p == r.link[s[i]].prev_next_ptr
<1>1. \A j \in 1 .. Len(s) : s[j] \in Nodes
  OBVIOUS
<1>2. /\ u.head_ = IF p = "head" THEN n ELSE r.head_
      /\ \A k \in Nodes : /\ u.link[k].next = IF k = p THEN n ELSE r.link[k].next
                          /\ u.link[k].prev_next_ptr = IF k = n THEN p ELSE r.link[k].prev_next_ptr
  BY <1>1, AutoUnlinkFacts
<1>3. /\ n = IF i = Len(s) THEN "null" ELSE s[i + 1]
      /\ p = IF i = 1 THEN "head" ELSE s[i - 1]
  BY DEF Chained
<1>4. /\ t \in Seq(Nodes) /\ Len(t) = Len(s) - 1
      /\ \A j \in 1 .. Len(s) - 1 : t[j] = IF j < i THEN s[j] ELSE s[j + 1]
  BY RemoveAtFacts
<1> HIDE DEF u, t, n, p
<1> DEFINE at(j) == IF j < i THEN j ELSE j + 1
<1>8. /\ \A j \in 1 .. Len(t) : at(j) \in 1 .. Len(s) /\ t[j] = s[at(j)] /\ at(j) # i
      /\ \A j, k \in 1 .. Len(t) : at(j) = at(k) => j = k
  BY <1>4
<1> HIDE DEF at
<1>5. Distinct(t) /\ \A j \in 1 .. Len(t) : t[j] # s[i]
  BY <1>4, <1>8 DEF Distinct
<1>6. u.head_ = IF Len(t) = 0 THEN "null" ELSE t[1]
  <2>1. CASE i = 1
    BY <1>2, <1>3, <1>4, <2>1
  <2>2. CASE i # 1
    <3>1. s[i - 1] # "head"
      BY <1>1, <2>2 DEF AutoConstants
    <3> QED BY <1>2, <1>3, <1>4, <2>2, <3>1 DEF Chained
  <2> QED BY <2>1, <2>2
<1>7. ASSUME NEW j \in 1 .. Len(t)
      PROVE  /\ u.link[t[j]].next = IF j = Len(t) THEN "null" ELSE t[j + 1]
             /\ u.link[t[j]].prev_next_ptr = IF j = 1 THEN "head" ELSE t[j - 1]
  <2> DEFINE m == IF j < i THEN j ELSE j + 1
  <2>1. m \in 1 .. Len(s) /\ t[j] = s[m] /\ m # i
    BY <1>8 DEF at
  <2>2. /\ r.link[s[m]].next = IF m = Len(s) THEN "null" ELSE s[m + 1]
        /\ r.link[s[m]].prev_next_ptr = IF m = 1 THEN "head" ELSE s[m - 1]
    BY <2>1 DEF Chained
  <2>3. s[m] = p <=> m + 1 = i
    <3>1. CASE i = 1
      BY <1>1, <1>3, <2>1, <3>1 DEF AutoConstants
    <3>2. CASE i # 1
      BY <1>3, <2>1, <3>2 DEF Distinct
    <3> QED BY <3>1, <3>2
  <2>4. s[m] = n <=> m = i + 1
    <3>1. CASE i = Len(s)
      BY <1>1, <1>3, <2>1, <3>1 DEF AutoConstants
    <3>2. CASE i # Len(s)
      BY <1>3, <2>1, <3>2 DEF Distinct
    <3> QED BY <3>1, <3>2
  <2>5. u.link[s[m]].next = (IF m + 1 = i THEN n ELSE r.link[s[m]].next)
        /\ u.link[s[m]].prev_next_ptr = (IF m = i + 1 THEN p ELSE r.link[s[m]].prev_next_ptr)
    BY <1>1, <1>2, <2>1, <2>3, <2>4
  <2>6. u.link[t[j]].next = IF j = Len(t) THEN "null" ELSE t[j + 1]
    BY <1>3, <1>4, <2>1, <2>2, <2>5
  <2>7. u.link[t[j]].prev_next_ptr = IF j = 1 THEN "head" ELSE t[j - 1]
    BY <1>3, <1>4, <2>1, <2>2, <2>5
  <2> QED BY <2>6, <2>7
<1> QED BY <1>4, <1>5, <1>6, <1>7 DEF Chained, u, t

(* A link outside of the sequence can be given any pointers. *)
LEMMA ChainBeside ==
  ASSUME NEW r \in AutoReps, NEW s \in Seq(Nodes), Chained(r, s), NEW l \in Nodes, NEW cell \in AutoCells,
         \A i \in 1 .. Len(s) : s[i] # l
  PROVE  [r EXCEPT !.link[l] = cell] \in AutoReps /\ Chained([r EXCEPT !.link[l] = cell], s)
<1> DEFINE u == [r EXCEPT !.link[l] = cell]
<1>1. u \in AutoReps /\ u.head_ = r.head_ /\ u.link = [r.link EXCEPT ![l] = cell]
  BY DEF AutoReps
<1> HIDE DEF u
<1>2. \A i \in 1 .. Len(s) : s[i] \in Nodes /\ u.link[s[i]] = r.link[s[i]]
  BY <1>1 DEF AutoReps
<1> QED BY <1>1, <1>2 DEF Chained, u

(* Whatever is linked, unlinked once more or destroyed. *)
LEMMA AutoStep ==
  ASSUME AutoConstants, AutoInv, Linked!AutoNext
  PROVE  AutoInv'
<1>1. fault = "none" /\ rep \in AutoReps /\ ref \in Seq(Nodes) /\ Distinct(ref) /\ Chained(rep, ref)
  BY DEF Linked!AutoNext, AutoInv
<1>2. Linked!Range(ref) = {ref[i] : i \in 1 .. Len(ref)}
  BY <1>1 DEF Linked!Range
<1>3. \A i \in 1 .. Len(ref) : ref[i] \in Nodes
  BY <1>1
<1>4. CASE Linked!AutoLinkHead
  <2>1. PICK l \in Nodes : /\ l \notin Linked!Range(ref)
                           /\ rep' = Linked!auto_link_head(rep, l) /\ ref' = <<l>> \o ref
    BY <1>4 DEF Linked!AutoLinkHead
  <2>2. \A i \in 1 .. Len(ref) : ref[i] # l
    BY <1>2, <2>1
  <2>3. rep.head_ # l /\ rep.head_ = IF Len(ref) = 0 THEN "null" ELSE ref[1]
    BY <1>1, <2>2 DEF Chained, AutoConstants
  <2>4. /\ rep' \in AutoReps /\ rep'.head_ = l
        /\ \A k \in Nodes :
             /\ rep'.link[k].next = IF k = l THEN rep.head_ ELSE rep.link[k].next
             /\ rep'.link[k].prev_next_ptr = IF k = l THEN "head" ELSE
                                             IF k = rep.head_ THEN l ELSE rep.link[k].prev_next_ptr
    BY <1>1, <2>1, <2>3, AutoLinkFacts
  <2>5. /\ ref' \in Seq(Nodes) /\ Len(ref') = Len(ref) + 1
        /\ \A i \in 1 .. Len(ref) + 1 : ref'[i] = IF i = 1 THEN l ELSE ref[i - 1]
    BY <1>1, <2>1
  <2>6. Distinct(ref')
    <3>1. \A i \in 1 .. Len(ref') : i # 1 => i - 1 \in 1 .. Len(ref) /\ ref'[i] = ref[i - 1]
      BY <1>1, <2>5
    <3>2. \A i \in 1 .. Len(ref') : i = 1 => ref'[i] = l
      BY <1>1, <2>5
    <3>3. \A i \in 1 .. Len(ref') : i # 1 => ref'[i] # l
      BY <2>2, <3>1
    <3>4. \A i, j \in 1 .. Len(ref') : i # 1 /\ j # 1 /\ ref'[i] = ref'[j] => i - 1 = j - 1
      BY <1>1, <3>1 DEF Distinct
    <3> SUFFICES ASSUME NEW i \in 1 .. Len(ref'), NEW j \in 1 .. Len(ref'), ref'[i] = ref'[j]
                 PROVE  i = j
      BY DEF Distinct
    <3>5. i = 1 <=> j = 1
      BY <3>2, <3>3
    <3>6. i # 1 => i - 1 = j - 1
      BY <3>4, <3>5
    <3> QED BY <3>5, <3>6
  <2>7. ASSUME NEW i \in 1 .. Len(ref')
        PROVE  /\ rep'.link[ref'[i]].next = IF i = Len(ref') THEN "null" ELSE ref'[i + 1]
               /\ rep'.link[ref'[i]].prev_next_ptr = IF i = 1 THEN "head" ELSE ref'[i - 1]
    <3>1. CASE i = 1
      BY <1>1, <2>1, <2>3, <2>4, <2>5, <3>1
    <3>2. CASE i # 1
      <4>1. i - 1 \in 1 .. Len(ref) /\ ref'[i] = ref[i - 1]
        BY <1>1, <2>5, <2>7, <3>2
      <4>2. ref[i - 1] = rep.head_ <=> i = 2
        BY <1>1, <2>3, <4>1 DEF Distinct
      <4>3. /\ rep.link[ref[i - 1]].next = IF i - 1 = Len(ref) THEN "null" ELSE ref[(i - 1) + 1]
            /\ rep.link[ref[i - 1]].prev_next_ptr = IF i - 1 = 1 THEN "head" ELSE ref[(i - 1) - 1]
        BY <1>1, <4>1 DEF Chained
      <4>4. ref[i - 1] \in Nodes /\ ref[i - 1] # l
        BY <1>3, <2>2, <4>1
      <4>5. /\ rep'.link[ref'[i]].next = rep.link[ref[i - 1]].next
            /\ rep'.link[ref'[i]].prev_next_ptr = IF i = 2 THEN l ELSE rep.link[ref[i - 1]].prev_next_ptr
        BY <2>4, <4>1, <4>2, <4>4
      <4>6. (i = Len(ref') <=> i - 1 = Len(ref)) /\ (i # Len(ref') => ref'[i + 1] = ref[i])
        BY <1>1, <2>5, <2>7, <3>2
      <4>7. ref'[i - 1] = IF i = 2 THEN l ELSE ref[i - 2]
        BY <1>1, <2>5, <2>7, <3>2
      <4>8. /\ (i - 1 = 1 <=> i = 2) /\ (i - 1) + 1 = i /\ (i - 1) - 1 = i - 2
        BY <2>7
      <4>9. rep'.link[ref'[i]].next = IF i = Len(ref') THEN "null" ELSE ref'[i + 1]
        <5>1. rep.link[ref[i - 1]].next = IF i - 1 = Len(ref) THEN "null" ELSE ref[i]
          BY <4>3, <4>8
        <5> QED BY ONLY <4>5, <4>6, <5>1
      <4>10. rep'.link[ref'[i]].prev_next_ptr = ref'[i - 1]
        <5>1. rep.link[ref[i - 1]].prev_next_ptr = IF i = 2 THEN "head" ELSE ref[i - 2]
          BY <4>3, <4>8
        <5> QED BY ONLY <4>5, <4>7, <5>1
      <4> QED BY ONLY <3>2, <4>9, <4>10
    <3> QED BY <3>1, <3>2
  <2>8. rep'.head_ = IF Len(ref') = 0 THEN "null" ELSE ref'[1]
    BY <1>1, <2>4, <2>5
  <2> QED BY <2>4, <2>5, <2>6, <2>7, <2>8 DEF AutoInv, Chained
(* A link that is unlinked and given any pointers after it, or its own. *)
<1>5. ASSUME NEW l \in Nodes, NEW u, NEW cell \in AutoCells,
             u = Linked!auto_unlink(rep, l),
             rep' = u \/ rep' = [u EXCEPT !.link[l] = cell], Linked!Forget(l)
      PROVE  AutoInv'
  <2>1. u \in AutoReps
    BY <1>1, <1>5, AutoUnlinkFacts
  <2>2. CASE l \in Linked!Range(ref)
    <3>1. PICK i \in 1 .. Len(ref) : ref[i] = l
      BY <1>2, <2>2
    <3>2. ref' = RemoveAt(ref, i)
      BY <1>1, <1>5, <3>1, TakenOut DEF Linked!Forget
    <3>3. /\ ref' \in Seq(Nodes) /\ Distinct(ref')
          /\ \A j \in 1 .. Len(ref') : ref'[j] # l
          /\ Chained(u, ref')
      BY <1>1, <1>5, <3>1, <3>2, ChainWithout
    <3>4. [u EXCEPT !.link[l] = cell] \in AutoReps /\ Chained([u EXCEPT !.link[l] = cell], ref')
      BY <2>1, <3>3, ChainBeside
    <3>5. rep' \in AutoReps /\ Chained(rep', ref')
      BY <1>5, <2>1, <3>3, <3>4
    <3> QED BY <3>3, <3>5 DEF AutoInv, Chained, Distinct
  <2>3. CASE l \notin Linked!Range(ref) /\ u # rep
    BY <1>5, <2>3 DEF Linked!Forget, AutoInv
  <2>4. CASE l \notin Linked!Range(ref) /\ u = rep
    <3>1. \A i \in 1 .. Len(ref) : ref[i] # l
      BY <1>2, <2>4
    <3>2. ref' = ref
      BY <1>5, <2>4 DEF Linked!Forget, Linked!Without
    <3>3. [u EXCEPT !.link[l] = cell] \in AutoReps /\ Chained([u EXCEPT !.link[l] = cell], ref)
      BY <1>1, <2>1, <2>4, <3>1, ChainBeside
    <3>4. rep' \in AutoReps /\ Chained(rep', ref)
      BY <1>1, <1>5, <2>4, <3>3
    <3> QED BY <1>1, <3>2, <3>4 DEF AutoInv, Chained, Distinct
  <2> QED BY <2>2, <2>3, <2>4
<1>6. Linked!NoAutoLink \in AutoCells
  BY DEF Linked!NoAutoLink, Linked!Null, AutoCells
<1>7. CASE Linked!AutoUnlink
  BY <1>5, <1>6, <1>7 DEF Linked!AutoUnlink
<1>8. CASE Linked!AutoDestroy
  BY <1>5, <1>6, <1>8 DEF Linked!AutoDestroy
<1> QED BY <1>4, <1>7, <1>8 DEF Linked!AutoNext

(* AutoList, of any links: from the head they are the sequence that was     *)
(* linked, and each is pointed to by the pointer it points back to, though  *)
(* links unlink and destroy themselves in any order and the list never      *)
(* looks; until one that was unlinked and has pointers to others unlinks    *)
(* again.                                                                   *)
THEOREM AutoListHolds ==
  AutoConstants => (Linked!AutoInit /\ [][Linked!AutoNext]_Linked!vars => []Linked!AutoRepresents)
<1> SUFFICES ASSUME AutoConstants
             PROVE  Linked!AutoInit /\ [][Linked!AutoNext]_Linked!vars => []Linked!AutoRepresents
  OBVIOUS
<1>1. Linked!AutoInit => AutoInv
  <2> SUFFICES ASSUME Linked!AutoInit
               PROVE  AutoInv
    OBVIOUS
  <2>1. Linked!NoAutoLink \in AutoCells
    BY DEF Linked!NoAutoLink, Linked!Null, AutoCells
  <2>2. rep = [head_ |-> "null", link |-> [l \in Nodes |-> Linked!NoAutoLink]] /\ ref = <<>>
    BY DEF Linked!AutoInit, Linked!Null
  <2>3. rep \in AutoReps /\ rep.head_ = "null"
    BY <2>1, <2>2 DEF AutoReps
  <2>4. Len(ref) = 0 /\ ref \in Seq(Nodes)
    BY <2>2
  <2> QED BY <2>3, <2>4 DEF AutoInv, Chained, Distinct
<1>2. AutoInv /\ [Linked!AutoNext]_Linked!vars => AutoInv'
  <2>1. ASSUME AutoInv, UNCHANGED Linked!vars
        PROVE  AutoInv'
    BY <2>1 DEF Linked!vars, AutoInv, Chained, Distinct
  <2> QED BY <2>1, AutoStep
<1>3. AutoInv => Linked!AutoRepresents
  <2> SUFFICES ASSUME AutoInv, fault = "none"
               PROVE  LET pointer(i) == IF i = 1 THEN "head" ELSE ref[i - 1]
                          target(i)  == IF i = Len(ref) + 1 THEN "null" ELSE ref[i]
                          read(p)    == IF p = "head" THEN rep.head_ ELSE rep.link[p].next
                      IN  \A i \in 1 .. Len(ref) + 1 :
                            /\ read(pointer(i)) = target(i)
                            /\ i <= Len(ref) => rep.link[ref[i]].prev_next_ptr = pointer(i)
    BY DEF Linked!AutoRepresents, Linked!Anchor, Linked!Null
  <2> DEFINE pointer(i) == IF i = 1 THEN "head" ELSE ref[i - 1]
             target(i)  == IF i = Len(ref) + 1 THEN "null" ELSE ref[i]
             read(p)    == IF p = "head" THEN rep.head_ ELSE rep.link[p].next
  <2>1. ref \in Seq(Nodes) /\ Chained(rep, ref)
    BY DEF AutoInv
  <2>2. ASSUME NEW i \in 1 .. Len(ref) + 1
        PROVE  read(pointer(i)) = target(i)
    <3>1. CASE i = 1
      BY <2>1, <3>1 DEF Chained
    <3>2. CASE i # 1
      <4>1. i - 1 \in 1 .. Len(ref)
        BY <2>1, <3>2
      <4>2. ref[i - 1] \in Nodes /\ ref[i - 1] # "head"
        BY <2>1, <4>1 DEF AutoConstants
      <4>3. rep.link[ref[i - 1]].next = IF i - 1 = Len(ref) THEN "null" ELSE ref[(i - 1) + 1]
        BY <2>1, <4>1 DEF Chained
      <4> QED BY <2>1, <3>2, <4>2, <4>3
    <3> QED BY <3>1, <3>2
  <2>3. ASSUME NEW i \in 1 .. Len(ref) + 1, i <= Len(ref)
        PROVE  rep.link[ref[i]].prev_next_ptr = pointer(i)
    BY <2>1, <2>3 DEF Chained
  <2> QED BY <2>2, <2>3
<1> QED
  BY <1>1, <1>2, <1>3, PTL
-----------------------------------------------------------------------------
(* BareLinkList and LinkList. A ring is its sentinel, the nodes of the      *)
(* sequence in their order, and the sentinel again.                         *)
ListConstants == Nodes \cap {"L", "M", "null"} = {}

ListCells == [next : Linked!Places \cup {"null"}, previous : Linked!Places \cup {"null"}]
ListLinks == [Linked!Places -> ListCells]

At(l, s, i) == IF i = 0 \/ i = Len(s) + 1 THEN l ELSE s[i]

Ringed(link, l, s) ==
    \A i \in 0 .. Len(s) : /\ link[At(l, s, i)].next = At(l, s, i + 1)
                           /\ link[At(l, s, i + 1)].previous = At(l, s, i)

Apart(s, t) == \A i \in 1 .. Len(s), j \in 1 .. Len(t) : s[i] # t[j]

ListInv ==
    fault = "none" =>
      /\ rep \in [link : ListLinks, owning : BOOLEAN]
      /\ ref \in [Linked!Lists -> Seq(Nodes)]
      /\ \A l \in Linked!Lists : Distinct(ref[l]) /\ Ringed(rep.link, l, ref[l])
      /\ \A l, m \in Linked!Lists : l # m => Apart(ref[l], ref[m])

(* No place is on a ring twice, except that it ends where it begins. *)
LEMMA RingPlaces ==
  ASSUME ListConstants, NEW l \in Linked!Lists, NEW s \in Seq(Nodes), Distinct(s)
  PROVE  /\ At(l, s, 0) = l /\ At(l, s, Len(s) + 1) = l
         /\ \A i \in 1 .. Len(s) : At(l, s, i) = s[i] /\ s[i] \in Nodes /\ s[i] # l
         /\ \A i \in 0 .. Len(s) + 1 : At(l, s, i) \in Linked!Places
         /\ \A i, j \in 0 .. Len(s) : At(l, s, i) = At(l, s, j) => i = j
         /\ \A i, j \in 1 .. Len(s) + 1 : At(l, s, i) = At(l, s, j) => i = j
<1>1. \A i \in 1 .. Len(s) : At(l, s, i) = s[i] /\ s[i] \in Nodes /\ s[i] # l
  BY DEF At, ListConstants, Linked!Lists
<1>2. At(l, s, 0) = l /\ At(l, s, Len(s) + 1) = l
  BY DEF At
<1>3. \A i \in 0 .. Len(s) + 1 : At(l, s, i) \in Linked!Places
  BY <1>1, <1>2 DEF Linked!Places
<1>4. \A i, j \in 0 .. Len(s) : At(l, s, i) = At(l, s, j) => i = j
  BY <1>1, <1>2 DEF Distinct
<1>5. \A i, j \in 1 .. Len(s) + 1 : At(l, s, i) = At(l, s, j) => i = j
  BY <1>1, <1>2 DEF Distinct
<1> QED BY <1>1, <1>2, <1>3, <1>4, <1>5

(* A ring stays one while the pointers along it do. *)
LEMMA RingBeside ==
  ASSUME NEW link, NEW u, NEW l, NEW s \in Seq(Nodes), Ringed(link, l, s),
         \A i \in 0 .. Len(s) + 1 : /\ u[At(l, s, i)].next = link[At(l, s, i)].next
                                    /\ u[At(l, s, i)].previous = link[At(l, s, i)].previous
  PROVE  Ringed(u, l, s)
<1> SUFFICES ASSUME NEW i \in 0 .. Len(s)
             PROVE  /\ u[At(l, s, i)].next = At(l, s, i + 1)
                    /\ u[At(l, s, i + 1)].previous = At(l, s, i)
  BY DEF Ringed
<1>1. i \in 0 .. Len(s) + 1 /\ i + 1 \in 0 .. Len(s) + 1
  OBVIOUS
<1> QED BY <1>1 DEF Ringed

(* A node linked between two neighbours: only those two change besides it. *)
Linking(link, u, p, before, after) ==
    /\ u \in ListLinks
    /\ u[p].next = after /\ u[p].previous = before
    /\ \A k \in Linked!Places : k # p =>
         /\ u[k].next = IF k = before THEN p ELSE link[k].next
         /\ u[k].previous = IF k = after THEN p ELSE link[k].previous

(* All the ways to link do that. *)
LEMMA LinkFacts ==
  ASSUME NEW link \in ListLinks, NEW p \in Linked!Places, NEW before \in Linked!Places, NEW after \in Linked!Places,
         p # before, p # after
  PROVE  Linking(link, Linked!link_in(link, p, before, after), p, before, after)
<1> DEFINE new == [next |-> after, previous |-> before]
<1>1. new \in ListCells /\ new.next = after /\ new.previous = before
  BY DEF ListCells
<1> HIDE DEF new
<1>2. CASE before # after
  <2> DEFINE first == [link EXCEPT ![p] = new]
             second == [first EXCEPT ![before].next = p]
             u == [second EXCEPT ![after].previous = p]
  <2>1. Linked!link_in(link, p, before, after) = u
    BY <1>2 DEF Linked!link_in, Linked!Between, new
  <2>2. first \in ListLinks /\ \A k \in Linked!Places : first[k] = IF k = p THEN new ELSE link[k]
    BY <1>1 DEF ListLinks
  <2> HIDE DEF first
  <2>3. /\ second \in ListLinks
        /\ \A k \in Linked!Places : /\ second[k].next = IF k = before THEN p ELSE first[k].next
                                    /\ second[k].previous = first[k].previous
    BY <2>2 DEF ListLinks, ListCells
  <2> HIDE DEF second
  <2>4. /\ u \in ListLinks
        /\ \A k \in Linked!Places : /\ u[k].next = second[k].next
                                    /\ u[k].previous = IF k = after THEN p ELSE second[k].previous
    BY <2>3 DEF ListLinks, ListCells
  <2> HIDE DEF u
  <2> QED BY <1>1, <2>1, <2>2, <2>3, <2>4 DEF Linking
<1>3. CASE before = after
  <2> DEFINE both == [next |-> p, previous |-> p]
             u == [[link EXCEPT ![p] = new] EXCEPT ![before] = both]
  <2>1. Linked!link_in(link, p, before, after) = u
    BY <1>3 DEF Linked!link_in, new
  <2>2. both \in ListCells /\ both.next = p /\ both.previous = p
    BY DEF ListCells
  <2> HIDE DEF both
  <2>3. /\ u \in ListLinks
        /\ \A k \in Linked!Places : u[k] = IF k = before THEN both ELSE IF k = p THEN new ELSE link[k]
    BY <1>1, <2>2 DEF ListLinks
  <2> HIDE DEF u
  <2> QED BY <1>1, <1>3, <2>1, <2>2, <2>3 DEF Linking
<1> QED BY <1>2, <1>3

(* A node linked at any place of a ring comes into its sequence there. *)
LEMMA RingWith ==
  ASSUME ListConstants, NEW link \in ListLinks, NEW l \in Linked!Lists, NEW s \in Seq(Nodes), Distinct(s),
         Ringed(link, l, s), NEW p \in Nodes, \A j \in 1 .. Len(s) : s[j] # p, NEW i \in 1 .. Len(s) + 1,
         NEW u, Linking(link, u, p, At(l, s, i - 1), At(l, s, i))
  PROVE  InsertAt(s, i, p) \in Seq(Nodes) /\ Distinct(InsertAt(s, i, p)) /\ Ringed(u, l, InsertAt(s, i, p))
<1>0. /\ InsertAt(s, i, p) \in Seq(Nodes) /\ Len(InsertAt(s, i, p)) = Len(s) + 1
      /\ \A j \in 1 .. Len(s) + 1 :
           InsertAt(s, i, p)[j] = IF j < i THEN s[j] ELSE IF j = i THEN p ELSE s[j - 1]
  <2>1. InsertAt(s, i, p) \in Seq(Nodes)
    BY InsertAtFacts
  <2>2. Len(InsertAt(s, i, p)) = Len(s) + 1
    BY InsertAtFacts
  <2>3. ASSUME NEW j \in 1 .. Len(s) + 1
        PROVE  InsertAt(s, i, p)[j] = IF j < i THEN s[j] ELSE IF j = i THEN p ELSE s[j - 1]
    BY ONLY InsertedPlace, s \in Seq(Nodes), p \in Nodes, i \in 1 .. Len(s) + 1, j \in 1 .. Len(s) + 1
  <2> QED BY <2>1, <2>2, <2>3
<1> DEFINE t == InsertAt(s, i, p)
           at(j) == At(l, s, j)
           n == Len(s)
<1>1. /\ t \in Seq(Nodes) /\ Len(t) = n + 1
      /\ \A j \in 1 .. n + 1 : t[j] = IF j < i THEN s[j] ELSE IF j = i THEN p ELSE s[j - 1]
  BY <1>0
<1> HIDE DEF t
<1>2. n \in Nat
  OBVIOUS
<1>3. Distinct(t)
  <2>1. \A j \in 1 .. n + 1 : j < i => j \in 1 .. n /\ t[j] = s[j]
    BY <1>1
  <2>2. \A j \in 1 .. n + 1 : j > i => j - 1 \in 1 .. n /\ t[j] = s[j - 1]
    BY <1>1
  <2>3. t[i] = p
    BY <1>1
  <2>4. \A j \in 1 .. n + 1 : j # i => t[j] # p
    BY <2>1, <2>2
  <2>5. ASSUME NEW j \in 1 .. n + 1, NEW k \in 1 .. n + 1, t[j] = t[k], j < k
        PROVE  FALSE
    <3>1. CASE j = i \/ k = i
      BY <2>3, <2>4, <2>5, <3>1
    <3>2. CASE k < i
      BY <2>1, <2>5, <3>2 DEF Distinct
    <3>3. CASE j < i /\ i < k
      BY <2>1, <2>2, <2>5, <3>3 DEF Distinct
    <3>4. CASE i < j
      BY <2>2, <2>5, <3>4 DEF Distinct
    <3> QED BY <2>5, <3>1, <3>2, <3>3, <3>4
  <2> QED BY <1>1, <2>5 DEF Distinct
<1>4. /\ at(0) = l /\ at(n + 1) = l
      /\ \A j \in 1 .. n : at(j) = s[j] /\ s[j] # l
      /\ \A j \in 0 .. n + 1 : at(j) \in Linked!Places /\ at(j) # p
      /\ \A j, k \in 0 .. n : at(j) = at(k) => j = k
      /\ \A j, k \in 1 .. n + 1 : at(j) = at(k) => j = k
  <2>1. p # l
    BY DEF ListConstants, Linked!Lists
  <2> QED BY <2>1, RingPlaces DEF At
<1>5. \A j \in 0 .. n + 2 : At(l, t, j) = IF j < i THEN at(j) ELSE IF j = i THEN p ELSE at(j - 1)
  <2> TAKE j \in 0 .. n + 2
  <2>1. CASE j = 0 \/ j = n + 2
    BY <1>1, <1>4, <2>1 DEF At
  <2>2. CASE j \in 1 .. n + 1
    BY <1>1, <1>4, <2>2 DEF At
  <2> QED BY <2>1, <2>2
<1>6. \A j \in 0 .. n : link[at(j)].next = at(j + 1) /\ link[at(j + 1)].previous = at(j)
  BY DEF Ringed
<1>7. /\ u[p].next = at(i) /\ u[p].previous = at(i - 1)
      /\ \A k \in Linked!Places : k # p =>
           /\ u[k].next = IF k = at(i - 1) THEN p ELSE link[k].next
           /\ u[k].previous = IF k = at(i) THEN p ELSE link[k].previous
  BY DEF Linking
<1> HIDE DEF at, n
<1>8. ASSUME NEW j \in 0 .. n + 1
      PROVE  u[At(l, t, j)].next = At(l, t, j + 1)
  <2>1. CASE j < i - 1
    BY <1>2, <1>4, <1>5, <1>6, <1>7, <2>1, SMTT(30) DEF n
  <2>2. CASE j = i - 1
    BY <1>2, <1>4, <1>5, <1>7, <2>2 DEF n
  <2>3. CASE j = i
    BY <1>2, <1>5, <1>7, <2>3 DEF n
  <2>4. CASE j > i
    <3>1. j - 1 \in 0 .. n /\ i - 1 \in 0 .. n /\ j - 1 # i - 1 /\ j - 1 \in 0 .. n + 1
      BY <1>2, <2>4 DEF n
    <3>2. u[at(j - 1)].next = at((j - 1) + 1)
      BY <1>4, <1>6, <1>7, <3>1
    <3>3. At(l, t, j) = at(j - 1) /\ At(l, t, j + 1) = at(j)
      BY <1>2, <1>5, <2>4 DEF n
    <3> QED BY <3>2, <3>3
  <2> QED BY <1>2, <2>1, <2>2, <2>3, <2>4 DEF n
<1>9. ASSUME NEW j \in 0 .. n + 1
      PROVE  u[At(l, t, j + 1)].previous = At(l, t, j)
  <2>1. CASE j + 1 < i
    <3>1. j \in 0 .. n /\ j + 1 \in 1 .. n + 1 /\ i \in 1 .. n + 1 /\ j + 1 # i /\ j + 1 \in 0 .. n + 1
      BY <1>2, <2>1 DEF n
    <3>2. u[at(j + 1)].previous = at(j)
      BY <1>4, <1>6, <1>7, <3>1
    <3>3. At(l, t, j + 1) = at(j + 1) /\ At(l, t, j) = at(j)
      BY <1>2, <1>5, <2>1 DEF n
    <3> QED BY <3>2, <3>3
  <2>2. CASE j + 1 = i
    BY <1>2, <1>5, <1>7, <2>2 DEF n
  <2>3. CASE j = i
    <3>1. i \in 0 .. n + 1 /\ At(l, t, j + 1) = at(i) /\ At(l, t, j) = p
      BY <1>2, <1>5, <2>3 DEF n
    <3> QED BY <1>4, <1>7, <3>1
  <2>4. CASE j > i
    <3>1. j - 1 \in 0 .. n /\ j \in 1 .. n + 1 /\ i \in 1 .. n + 1 /\ j # i /\ j \in 0 .. n + 1
      BY <1>2, <2>4 DEF n
    <3>2. u[at(j)].previous = at(j - 1)
      <4>1. link[at((j - 1) + 1)].previous = at(j - 1) /\ (j - 1) + 1 = j
        BY <1>6, <3>1
      <4> QED BY <1>4, <1>7, <3>1, <4>1
    <3>3. At(l, t, j + 1) = at(j) /\ At(l, t, j) = at(j - 1)
      BY <1>2, <1>5, <2>4 DEF n
    <3> QED BY <3>2, <3>3
  <2> QED BY <1>2, <2>1, <2>2, <2>3, <2>4 DEF n
<1> QED BY <1>1, <1>3, <1>8, <1>9 DEF Ringed, t

(* unlink joins the two neighbours, and changes nothing else. *)
LEMMA UnlinkedPlaces ==
  ASSUME NEW link \in ListLinks, NEW p \in Linked!Places,
         link[p].next \in Linked!Places, link[p].previous \in Linked!Places
  PROVE  LET u == Linked!unlink(link, p)
         IN  /\ u \in ListLinks
             /\ \A k \in Linked!Places :
                  /\ u[k].next = IF k = link[p].previous THEN link[p].next ELSE link[k].next
                  /\ u[k].previous = IF k = link[p].next THEN link[p].previous ELSE link[k].previous
<1> DEFINE n == link[p].next
           q == link[p].previous
<1>1. n \in Linked!Places /\ q \in Linked!Places
  OBVIOUS
<1>2. Linked!unlink(link, p) = IF n # q THEN [[link EXCEPT ![n].previous = q] EXCEPT ![q].next = n]
                               ELSE [link EXCEPT ![n] = [next |-> n, previous |-> q]]
  BY DEF Linked!unlink
<1> HIDE DEF n, q
<1>3. CASE n # q
  <2> DEFINE first == [link EXCEPT ![n].previous = q]
             u == [first EXCEPT ![q].next = n]
  <2>1. /\ first \in ListLinks
        /\ \A k \in Linked!Places : /\ first[k].next = link[k].next
                                    /\ first[k].previous = IF k = n THEN q ELSE link[k].previous
    BY <1>1 DEF ListLinks, ListCells
  <2> HIDE DEF first
  <2>2. /\ u \in ListLinks
        /\ \A k \in Linked!Places : /\ u[k].next = IF k = q THEN n ELSE first[k].next
                                    /\ u[k].previous = first[k].previous
    BY <1>1, <2>1 DEF ListLinks, ListCells
  <2>3. Linked!unlink(link, p) = u
    BY <1>2, <1>3 DEF first
  <2> HIDE DEF u
  <2> QED BY <2>1, <2>2, <2>3 DEF n, q
<1>4. CASE n = q
  <2> DEFINE new == [next |-> n, previous |-> q]
             u == [link EXCEPT ![n] = new]
  <2>1. new \in ListCells /\ new.next = n /\ new.previous = q
    BY <1>1 DEF ListCells
  <2>2. Linked!unlink(link, p) = u
    BY <1>2, <1>4
  <2> HIDE DEF new
  <2>3. u \in ListLinks /\ \A k \in Linked!Places : u[k] = IF k = n THEN new ELSE link[k]
    BY <1>1, <2>1 DEF ListLinks
  <2> HIDE DEF u
  <2> QED BY <1>4, <2>1, <2>2, <2>3 DEF n, q
<1> QED BY <1>3, <1>4

(* A node that is unlinked leaves the sequence. *)
LEMMA RingWithout ==
  ASSUME ListConstants, NEW link \in ListLinks, NEW l \in Linked!Lists, NEW s \in Seq(Nodes), Distinct(s),
         Ringed(link, l, s), NEW i \in 1 .. Len(s)
  PROVE  /\ Linked!unlink(link, s[i]) \in ListLinks
         /\ RemoveAt(s, i) \in Seq(Nodes) /\ Distinct(RemoveAt(s, i))
         /\ \A j \in 1 .. Len(RemoveAt(s, i)) : RemoveAt(s, i)[j] # s[i] /\ \E k \in 1 .. Len(s) : RemoveAt(s, i)[j] = s[k]
         /\ Ringed(Linked!unlink(link, s[i]), l, RemoveAt(s, i))
         /\ \A k \in Linked!Places : k # l /\ (\A j \in 1 .. Len(s) : k # s[j]) =>
              /\ Linked!unlink(link, s[i])[k].next = link[k].next
              /\ Linked!unlink(link, s[i])[k].previous = link[k].previous
<1> DEFINE t == RemoveAt(s, i)
           u == Linked!unlink(link, s[i])
           at(j) == At(l, s, j)
           n == Len(s)
<1>1. /\ t \in Seq(Nodes) /\ Len(t) = n - 1
      /\ \A j \in 1 .. n - 1 : t[j] = IF j < i THEN s[j] ELSE s[j + 1]
  BY RemoveAtFacts
<1>2. n \in Nat
  OBVIOUS
<1>3. /\ at(0) = l /\ at(n + 1) = l
      /\ \A j \in 1 .. n : at(j) = s[j] /\ s[j] # l
      /\ \A j \in 0 .. n + 1 : at(j) \in Linked!Places
      /\ \A j, k \in 0 .. n : at(j) = at(k) => j = k
      /\ \A j, k \in 1 .. n + 1 : at(j) = at(k) => j = k
  BY RingPlaces
<1>4. \A j \in 0 .. n : link[at(j)].next = at(j + 1) /\ link[at(j + 1)].previous = at(j)
  BY DEF Ringed
<1> HIDE DEF t, at, n
<1>5. link[s[i]].next = at(i + 1) /\ link[s[i]].previous = at(i - 1)
  <2>1. i \in 0 .. n /\ i - 1 \in 0 .. n /\ (i - 1) + 1 = i /\ at(i) = s[i]
    BY <1>2, <1>3 DEF n
  <2> QED BY <1>4, <2>1
<1>6. i + 1 \in 0 .. n + 1 /\ i - 1 \in 0 .. n + 1 /\ s[i] \in Linked!Places
  BY <1>2, <1>3 DEF n
<1>7. /\ u \in ListLinks
      /\ \A k \in Linked!Places : /\ u[k].next = IF k = at(i - 1) THEN at(i + 1) ELSE link[k].next
                                  /\ u[k].previous = IF k = at(i + 1) THEN at(i - 1) ELSE link[k].previous
  BY <1>3, <1>5, <1>6, UnlinkedPlaces
<1> HIDE DEF u
<1> DEFINE from(j) == IF j < i THEN j ELSE j + 1
<1>8. \A j \in 1 .. Len(t) : from(j) \in 1 .. n /\ t[j] = s[from(j)] /\ from(j) # i
  BY <1>1, <1>2 DEF n
<1>9. \A j, k \in 1 .. Len(t) : from(j) = from(k) => j = k
  BY <1>1, <1>2 DEF n
<1> HIDE DEF from
<1>10. Distinct(t) /\ \A j \in 1 .. Len(t) : t[j] # s[i] /\ \E k \in 1 .. Len(s) : t[j] = s[k]
  BY <1>8, <1>9 DEF Distinct, n
<1>11. \A j \in 0 .. n : At(l, t, j) = IF j < i THEN at(j) ELSE at(j + 1)
  <2> TAKE j \in 0 .. n
  <2>1. CASE j = 0
    BY <1>3, <2>1 DEF At
  <2>2. CASE j = n
    BY <1>1, <1>2, <1>3, <2>2 DEF At, n
  <2>3. CASE j \in 1 .. n - 1
    <3>1. At(l, t, j) = t[j] /\ t[j] = IF j < i THEN s[j] ELSE s[j + 1]
      BY <1>1, <1>2, <2>3 DEF At
    <3>2. j \in 1 .. n /\ j + 1 \in 1 .. n
      BY <1>2, <2>3
    <3> QED BY <1>3, <3>1, <3>2
  <2> QED BY <1>2, <2>1, <2>2, <2>3
<1>12. ASSUME NEW j \in 0 .. n - 1
       PROVE  u[At(l, t, j)].next = At(l, t, j + 1)
  <2>1. CASE j < i - 1
    <3>1. j \in 0 .. n /\ i - 1 \in 0 .. n /\ j \in 0 .. n + 1 /\ j # i - 1
      BY <1>2, <2>1 DEF n
    <3>2. u[at(j)].next = at(j + 1)
      BY <1>3, <1>4, <1>7, <3>1
    <3>3. At(l, t, j) = at(j) /\ At(l, t, j + 1) = at(j + 1)
      BY <1>2, <1>11, <2>1 DEF n
    <3> QED BY <3>2, <3>3
  <2>2. CASE j = i - 1
    <3>1. At(l, t, j) = at(i - 1) /\ At(l, t, j + 1) = at(i + 1)
      BY <1>2, <1>11, <2>2 DEF n
    <3> QED BY <1>3, <1>6, <1>7, <3>1
  <2>3. CASE j > i - 1
    <3>1. j + 1 \in 0 .. n /\ i - 1 \in 0 .. n /\ j + 1 \in 0 .. n + 1 /\ j + 1 # i - 1
      BY <1>2, <2>3 DEF n
    <3>2. u[at(j + 1)].next = at((j + 1) + 1)
      BY <1>3, <1>4, <1>7, <3>1
    <3>3. At(l, t, j) = at(j + 1) /\ At(l, t, j + 1) = at((j + 1) + 1)
      BY <1>2, <1>11, <2>3 DEF n
    <3> QED BY <3>2, <3>3
  <2> QED BY <1>2, <2>1, <2>2, <2>3 DEF n
<1>13. ASSUME NEW j \in 0 .. n - 1
       PROVE  u[At(l, t, j + 1)].previous = At(l, t, j)
  <2>1. CASE j + 1 < i
    <3>1. j \in 0 .. n /\ j + 1 \in 1 .. n + 1 /\ i + 1 \in 1 .. n + 1 /\ j + 1 \in 0 .. n + 1 /\ j + 1 # i + 1
      BY <1>2, <2>1 DEF n
    <3>2. u[at(j + 1)].previous = at(j)
      BY <1>3, <1>4, <1>7, <3>1
    <3>3. At(l, t, j) = at(j) /\ At(l, t, j + 1) = at(j + 1)
      BY <1>2, <1>11, <2>1 DEF n
    <3> QED BY <3>2, <3>3
  <2>2. CASE j + 1 = i
    <3>1. At(l, t, j) = at(i - 1) /\ At(l, t, j + 1) = at(i + 1)
      BY <1>2, <1>11, <2>2 DEF n
    <3> QED BY <1>3, <1>6, <1>7, <3>1
  <2>3. CASE j + 1 > i
    <3>1. j + 1 \in 0 .. n /\ (j + 1) + 1 \in 1 .. n + 1 /\ i + 1 \in 1 .. n + 1 /\ (j + 1) + 1 \in 0 .. n + 1
          /\ (j + 1) + 1 # i + 1
      BY <1>2, <2>3 DEF n
    <3>2. u[at((j + 1) + 1)].previous = at(j + 1)
      BY <1>3, <1>4, <1>7, <3>1
    <3>3. At(l, t, j) = at(j + 1) /\ At(l, t, j + 1) = at((j + 1) + 1)
      BY <1>2, <1>11, <2>3 DEF n
    <3> QED BY <3>2, <3>3
  <2> QED BY <1>2, <2>1, <2>2, <2>3 DEF n
<1>14. Ringed(u, l, t)
  BY <1>1, <1>12, <1>13 DEF Ringed
<1>15. ASSUME NEW k \in Linked!Places, k # l, \A j \in 1 .. Len(s) : k # s[j]
       PROVE  u[k].next = link[k].next /\ u[k].previous = link[k].previous
  <2>1. \A j \in 0 .. n + 1 : at(j) = l \/ \E m \in 1 .. Len(s) : at(j) = s[m]
    BY <1>2, <1>3 DEF n
  <2> QED BY <1>6, <1>7, <1>15, <2>1
<1> QED BY <1>1, <1>7, <1>10, <1>14, <1>15 DEF t, u

(* The other ring has other places. *)
LEMMA RingsApart ==
  ASSUME ListConstants, NEW l \in Linked!Lists, NEW m \in Linked!Lists, l # m,
         NEW s \in Seq(Nodes), NEW t \in Seq(Nodes), Apart(s, t)
  PROVE  \A i \in 0 .. Len(s) + 1, j \in 0 .. Len(t) + 1 : At(l, s, i) # At(m, t, j)
<1>1. \A i \in 0 .. Len(s) + 1 : At(l, s, i) = l \/ (i \in 1 .. Len(s) /\ At(l, s, i) = s[i] /\ s[i] \in Nodes)
  BY DEF At
<1>2. \A j \in 0 .. Len(t) + 1 : At(m, t, j) = m \/ (j \in 1 .. Len(t) /\ At(m, t, j) = t[j] /\ t[j] \in Nodes)
  BY DEF At
<1>3. l \notin Nodes /\ m \notin Nodes
  BY DEF ListConstants, Linked!Lists
<1> QED BY <1>1, <1>2, <1>3 DEF Apart

(* A call that gives one list another sequence and leaves the other's ring. *)
LEMMA ListPut ==
  ASSUME ListConstants, ListInv, fault = "none", NEW l \in Linked!Lists, NEW u \in ListLinks,
         NEW t \in Seq(Nodes), Distinct(t), Ringed(u, l, t),
         \A m \in Linked!Lists : m # l => Ringed(u, m, ref[m]) /\ Apart(t, ref[m]),
         rep' = [rep EXCEPT !.link = u], ref' = [ref EXCEPT ![l] = t]
  PROVE  ListInv'
<1>1. rep' \in [link : ListLinks, owning : BOOLEAN] /\ rep'.link = u
  BY DEF ListInv
<1>2. /\ ref' \in [Linked!Lists -> Seq(Nodes)]
      /\ \A m \in Linked!Lists : ref'[m] = IF m = l THEN t ELSE ref[m]
  BY DEF ListInv
<1>3. \A m \in Linked!Lists : m # l => Apart(ref[m], t)
  BY DEF Apart
<1>4. \A m \in Linked!Lists : Distinct(ref'[m]) /\ Ringed(rep'.link, m, ref'[m])
  BY <1>1, <1>2 DEF ListInv
<1>5. \A m, k \in Linked!Lists : m # k => Apart(ref'[m], ref'[k])
  BY <1>2, <1>3 DEF ListInv
<1> QED BY <1>1, <1>2, <1>4, <1>5 DEF ListInv, Distinct, Ringed, Apart, At

(* A node that is on neither list comes into one of them. *)
LEMMA ListLink ==
  ASSUME ListConstants, ListInv, fault = "none", NEW l \in Linked!Lists, NEW p \in Nodes,
         \A m \in Linked!Lists : \A j \in 1 .. Len(ref[m]) : ref[m][j] # p,
         NEW i \in 1 .. Len(ref[l]) + 1,
         rep' = [rep EXCEPT !.link = Linked!link_in(rep.link, p, At(l, ref[l], i - 1), At(l, ref[l], i))],
         ref' = [ref EXCEPT ![l] = InsertAt(ref[l], i, p)]
  PROVE  ListInv'
<1> DEFINE s == ref[l]
           before == At(l, s, i - 1)
           after == At(l, s, i)
           u == Linked!link_in(rep.link, p, before, after)
           t == InsertAt(s, i, p)
<1>1. rep.link \in ListLinks /\ s \in Seq(Nodes) /\ Distinct(s) /\ Ringed(rep.link, l, s)
  BY DEF ListInv
<1>2. p \in Linked!Places /\ p \notin Linked!Lists
  BY DEF ListConstants, Linked!Lists, Linked!Places
<1>3. i - 1 \in 0 .. Len(s) + 1 /\ i \in 0 .. Len(s) + 1
  BY <1>1
<1>4. \A j \in 0 .. Len(s) + 1 : At(l, s, j) \in Linked!Places /\ At(l, s, j) # p
  BY <1>1, <1>2, RingPlaces, SMTT(30) DEF At
<1>5. Linking(rep.link, u, p, before, after)
  <2> HIDE DEF before, after, u
  <2>1. before \in Linked!Places /\ after \in Linked!Places /\ p # before /\ p # after
    BY <1>3, <1>4 DEF before, after
  <2> QED BY <1>1, <1>2, <2>1, LinkFacts DEF u
<1>6. t \in Seq(Nodes) /\ Distinct(t) /\ Ringed(u, l, t)
  <2> HIDE DEF u
  <2> QED BY <1>1, <1>5, RingWith
<1>7. \A j \in 1 .. Len(t) : t[j] = p \/ \E k \in 1 .. Len(s) : t[j] = s[k]
  <2>1. s \in Seq(Nodes) /\ i \in 1 .. Len(s) + 1
    BY <1>1
  <2> HIDE DEF s
  <2> QED BY <2>1, InsertedElements
<1> HIDE DEF u, t
<1>8. ASSUME NEW m \in Linked!Lists, m # l
      PROVE  Ringed(u, m, ref[m]) /\ Apart(t, ref[m])
  <2>1. ref[m] \in Seq(Nodes) /\ Distinct(ref[m]) /\ Ringed(rep.link, m, ref[m]) /\ Apart(s, ref[m])
    BY <1>8 DEF ListInv
  <2>2. \A j \in 0 .. Len(ref[m]) + 1 : At(m, ref[m], j) \in Linked!Places /\ At(m, ref[m], j) # p
    BY <1>2, <2>1, RingPlaces DEF At
  <2>3. \A j \in 0 .. Len(ref[m]) + 1 : At(m, ref[m], j) # before /\ At(m, ref[m], j) # after
    BY <1>1, <1>3, <1>8, <2>1, RingsApart
  <2> HIDE DEF before, after
  <2>4. \A j \in 0 .. Len(ref[m]) + 1 : /\ u[At(m, ref[m], j)].next = rep.link[At(m, ref[m], j)].next
                                        /\ u[At(m, ref[m], j)].previous = rep.link[At(m, ref[m], j)].previous
    BY <1>5, <2>2, <2>3 DEF Linking
  <2>5. Ringed(u, m, ref[m])
    BY <2>1, <2>4, RingBeside
  <2>6. Apart(t, ref[m])
    BY <1>7, <2>1 DEF Apart
  <2> QED BY <2>5, <2>6
<1> QED BY <1>5, <1>6, <1>8, ListPut DEF u, t, Linking

(* A node leaves its ring, and may be destroyed then; the other ring stays. *)
LEMMA RingUnlink ==
  ASSUME ListConstants, NEW link \in ListLinks, NEW l \in Linked!Lists, NEW s \in Seq(Nodes), Distinct(s),
         Ringed(link, l, s), NEW i \in 1 .. Len(s), NEW u,
         \/ u = Linked!unlink(link, s[i])
         \/ u = [Linked!unlink(link, s[i]) EXCEPT ![s[i]] = Linked!NoLink]
  PROVE  /\ u \in ListLinks
         /\ RemoveAt(s, i) \in Seq(Nodes) /\ Distinct(RemoveAt(s, i)) /\ Ringed(u, l, RemoveAt(s, i))
         /\ \A m \in Linked!Lists, r \in Seq(Nodes) :
              m # l /\ Distinct(r) /\ Ringed(link, m, r) /\ Apart(s, r) =>
                Ringed(u, m, r) /\ Apart(RemoveAt(s, i), r)
<1> DEFINE p == s[i]
           v == Linked!unlink(link, p)
           t == RemoveAt(s, i)
<1>2. p \in Nodes /\ p \in Linked!Places /\ p \notin Linked!Lists
  BY DEF ListConstants, Linked!Lists, Linked!Places
<1>3. /\ v \in ListLinks
      /\ t \in Seq(Nodes) /\ Distinct(t)
      /\ \A j \in 1 .. Len(t) : t[j] # p /\ \E k \in 1 .. Len(s) : t[j] = s[k]
      /\ Ringed(v, l, t)
      /\ \A k \in Linked!Places : k # l /\ (\A j \in 1 .. Len(s) : k # s[j]) =>
           v[k].next = link[k].next /\ v[k].previous = link[k].previous
  BY RingWithout
<1>4. u = v \/ u = [v EXCEPT ![p] = Linked!NoLink]
  OBVIOUS
<1>8. \E k \in 1 .. Len(s) : s[k] = p
  OBVIOUS
<1> HIDE DEF v, t, p
<1>5. u \in ListLinks /\ \A k \in Linked!Places : k # p => u[k] = v[k]
  <2>1. Linked!NoLink \in ListCells
    BY DEF Linked!NoLink, Linked!Null, ListCells
  <2> QED BY <1>2, <1>3, <1>4, <2>1 DEF ListLinks
<1>6. Ringed(u, l, t)
  <2>1. \A j \in 0 .. Len(t) + 1 : At(l, t, j) \in Linked!Places /\ At(l, t, j) # p
    BY <1>2, <1>3, RingPlaces DEF At
  <2>2. \A j \in 0 .. Len(t) + 1 : /\ u[At(l, t, j)].next = v[At(l, t, j)].next
                                  /\ u[At(l, t, j)].previous = v[At(l, t, j)].previous
    BY <1>5, <2>1
  <2> QED BY <1>3, <2>2, RingBeside
<1>7. ASSUME NEW m \in Linked!Lists, NEW r \in Seq(Nodes), m # l, Distinct(r), Ringed(link, m, r), Apart(s, r)
      PROVE  Ringed(u, m, r) /\ Apart(t, r)
  <2>2. \A j \in 0 .. Len(r) + 1 : At(m, r, j) \in Linked!Places
    BY <1>7, RingPlaces
  <2>3. \A j \in 0 .. Len(r) + 1, k \in 0 .. Len(s) + 1 : At(m, r, j) # At(l, s, k)
    BY <1>7, RingsApart
  <2>4. At(l, s, 0) = l /\ \A k \in 1 .. Len(s) : k \in 0 .. Len(s) + 1 /\ At(l, s, k) = s[k]
    BY RingPlaces
  <2>5. \A j \in 0 .. Len(r) + 1 : /\ At(m, r, j) # l /\ At(m, r, j) # p
                                   /\ \A k \in 1 .. Len(s) : At(m, r, j) # s[k]
    BY <2>3, <2>4, <1>8
  <2>6. \A j \in 0 .. Len(r) + 1 : /\ u[At(m, r, j)].next = link[At(m, r, j)].next
                                   /\ u[At(m, r, j)].previous = link[At(m, r, j)].previous
    BY <1>3, <1>5, <2>2, <2>5
  <2>7. Ringed(u, m, r)
    BY <1>7, <2>6, RingBeside
  <2>8. Apart(t, r)
    BY <1>3, <1>7 DEF Apart
  <2> QED BY <2>7, <2>8
<1> QED BY <1>3, <1>5, <1>6, <1>7 DEF t

(* A node of one of the lists leaves it, and may be destroyed then. *)
LEMMA ListUnlink ==
  ASSUME ListConstants, ListInv, fault = "none", NEW l \in Linked!Lists, NEW i \in 1 .. Len(ref[l]), NEW u,
         \/ u = Linked!unlink(rep.link, ref[l][i])
         \/ u = [Linked!unlink(rep.link, ref[l][i]) EXCEPT ![ref[l][i]] = Linked!NoLink],
         rep' = [rep EXCEPT !.link = u], ref' = [ref EXCEPT ![l] = RemoveAt(ref[l], i)]
  PROVE  ListInv'
<1>1. rep.link \in ListLinks /\ ref[l] \in Seq(Nodes) /\ Distinct(ref[l]) /\ Ringed(rep.link, l, ref[l])
  BY DEF ListInv
<1>2. \A m \in Linked!Lists : m # l => /\ ref[m] \in Seq(Nodes) /\ Distinct(ref[m]) /\ Ringed(rep.link, m, ref[m])
                                      /\ Apart(ref[l], ref[m])
  BY DEF ListInv
<1> DEFINE t == RemoveAt(ref[l], i)
<1>3. /\ u \in ListLinks /\ t \in Seq(Nodes) /\ Distinct(t) /\ Ringed(u, l, t)
      /\ \A m \in Linked!Lists, r \in Seq(Nodes) :
           m # l /\ Distinct(r) /\ Ringed(rep.link, m, r) /\ Apart(ref[l], r) => Ringed(u, m, r) /\ Apart(t, r)
  BY <1>1, RingUnlink
<1>4. rep' = [rep EXCEPT !.link = u] /\ ref' = [ref EXCEPT ![l] = t]
  OBVIOUS
<1> HIDE DEF t
<1> QED BY <1>2, <1>3, <1>4, ListPut

(* The neighbours in a ring, and the ends of the sequence. *)
LEMMA Neighbours ==
  ASSUME ListConstants, ListInv, fault = "none", NEW l \in Linked!Lists
  PROVE  /\ ref[l] \in Seq(Nodes)
         /\ rep.link[l].next = At(l, ref[l], 1) /\ rep.link[l].previous = At(l, ref[l], Len(ref[l]))
         /\ \A i \in 1 .. Len(ref[l]) : /\ rep.link[ref[l][i]].next = At(l, ref[l], i + 1)
                                       /\ rep.link[ref[l][i]].previous = At(l, ref[l], i - 1)
<1> DEFINE s == ref[l]
<1>1. s \in Seq(Nodes) /\ Distinct(s) /\ Ringed(rep.link, l, s)
  BY DEF ListInv
<1> HIDE DEF s
<1>2. At(l, s, 0) = l /\ At(l, s, Len(s) + 1) = l /\ \A i \in 1 .. Len(s) : At(l, s, i) = s[i]
  BY <1>1, RingPlaces
<1>3. \A i \in 0 .. Len(s) : rep.link[At(l, s, i)].next = At(l, s, i + 1) /\ rep.link[At(l, s, i + 1)].previous = At(l, s, i)
  BY <1>1 DEF Ringed
<1>4. rep.link[l].next = At(l, s, 1) /\ rep.link[l].previous = At(l, s, Len(s))
  <2>1. 0 \in 0 .. Len(s) /\ Len(s) \in 0 .. Len(s)
    BY <1>1
  <2>2. rep.link[At(l, s, 0)].next = At(l, s, 0 + 1)
    BY <1>3, <2>1
  <2>3. rep.link[At(l, s, Len(s) + 1)].previous = At(l, s, Len(s))
    BY <1>3, <2>1
  <2> QED BY <1>2, <2>2, <2>3
<1>5. ASSUME NEW i \in 1 .. Len(s)
      PROVE  rep.link[s[i]].next = At(l, s, i + 1) /\ rep.link[s[i]].previous = At(l, s, i - 1)
  <2>1. i \in 0 .. Len(s) /\ i - 1 \in 0 .. Len(s) /\ (i - 1) + 1 = i
    BY <1>1
  <2>2. rep.link[At(l, s, i)].next = At(l, s, i + 1)
    BY <1>3, <2>1
  <2>3. rep.link[At(l, s, (i - 1) + 1)].previous = At(l, s, i - 1)
    BY <1>3, <2>1
  <2> QED BY <1>2, <2>1, <2>2, <2>3
<1> QED BY <1>1, <1>4, <1>5 DEF s

(* There are two lists. *)
LEMMA OtherList ==
  ASSUME NEW l \in Linked!Lists
  PROVE  LET m == CHOOSE other \in Linked!Lists : other # l
         IN  m \in Linked!Lists /\ m # l /\ Linked!Lists = {l, m}
<1> DEFINE m == CHOOSE other \in Linked!Lists : other # l
<1>1. \E other \in Linked!Lists : other # l
  BY DEF Linked!Lists
<1>2. m \in Linked!Lists /\ m # l
  BY <1>1
<1> HIDE DEF m
<1>3. Linked!Lists = {l, m}
  BY <1>2 DEF Linked!Lists
<1> QED BY <1>2, <1>3 DEF m

(* A list is no node. *)
LEMMA ListNames ==
  ASSUME ListConstants
  PROVE  \A k \in Linked!Lists : k \notin Nodes
BY DEF ListConstants, Linked!Lists

(* A sentinel that points to itself. *)
LEMMA ListSelf ==
  ASSUME NEW k \in Linked!Lists
  PROVE  /\ Linked!Self(k) \in ListCells
         /\ Linked!Self(k).next = k /\ Linked!Self(k).previous = k
BY DEF Linked!Self, ListCells, Linked!Places

(* BareLinkList's move, into an empty list. *)
LEMMA ListMove ==
  ASSUME ListConstants, ListInv, fault = "none", NEW l \in Linked!Lists, Linked!MoveInto(l)
  PROVE  ListInv'
<1> DEFINE m == CHOOSE other \in Linked!Lists : other # l
<1>1. m \in Linked!Lists /\ m # l /\ Linked!Lists = {l, m}
  BY OtherList
<1>5. /\ \A k \in Linked!Lists : /\ Linked!Self(k) \in ListCells
                                /\ Linked!Self(k).next = k /\ Linked!Self(k).previous = k
  BY ListSelf, Zenon
<1>6. l \notin Nodes /\ m \notin Nodes
  BY <1>1, ListNames
<1> DEFINE s == ref[m]
           link == rep.link
           head == link[m].next
           tail == link[m].previous
           here == [next |-> head, previous |-> tail]
           took == [link EXCEPT ![l] = here, ![m] = Linked!Self(m)]
           u == IF head = m THEN [link EXCEPT ![l] = Linked!Self(l)]
                ELSE IF head = tail THEN [took EXCEPT ![head] = [next |-> l, previous |-> l]]
                ELSE [took EXCEPT ![head].previous = l, ![tail].next = l]
<1>2. /\ rep' = [rep EXCEPT !.link = u]
      /\ ref' = [ref EXCEPT ![l] = s, ![m] = <<>>]
      /\ fault' = IF ref[l] # <<>> THEN "elements orphaned" ELSE fault
  BY ONLY Linked!MoveInto(l), ZenonT(40) DEF Linked!MoveInto
<1> HIDE DEF m
<1>3. CASE ref[l] # <<>>
  BY <1>2, <1>3 DEF ListInv
<1>4. CASE ref[l] = <<>>
  <2>1. /\ link \in ListLinks /\ s \in Seq(Nodes) /\ Distinct(s) /\ Ringed(link, m, s)
        /\ ref \in [Linked!Lists -> Seq(Nodes)] /\ rep \in [link : ListLinks, owning : BOOLEAN]
    BY <1>1 DEF ListInv
  <2>2. head = At(m, s, 1) /\ tail = At(m, s, Len(s))
    BY <1>1, Neighbours
  <2>3. /\ \A i \in 1 .. Len(s) : /\ s[i] \in Nodes /\ s[i] # m /\ s[i] # l
                                /\ link[s[i]].next = At(m, s, i + 1) /\ link[s[i]].previous = At(m, s, i - 1)
                                /\ At(m, s, i) = s[i]
        /\ At(m, s, 0) = m /\ At(m, s, Len(s) + 1) = m
    <3>1. \A i \in 1 .. Len(s) : s[i] \in Nodes /\ s[i] # m /\ s[i] # l
      BY <1>1, <2>1 DEF ListConstants, Linked!Lists
    <3>2. \A i \in 1 .. Len(s) : link[s[i]].next = At(m, s, i + 1) /\ link[s[i]].previous = At(m, s, i - 1)
      BY <1>1, Neighbours
    <3> QED BY <1>1, <2>1, <3>1, <3>2, RingPlaces
  <2>4. Linked!Places = Nodes \cup {l, m}
    BY <1>1 DEF Linked!Places
  <2>7. /\ u \in ListLinks
        /\ IF Len(s) = 0 THEN u[l].next = l /\ u[l].previous = l ELSE u[l].next = s[1] /\ u[l].previous = s[Len(s)]
        /\ u[m].next = m /\ u[m].previous = m
        /\ \A i \in 1 .. Len(s) : /\ u[s[i]].next = IF i = Len(s) THEN l ELSE link[s[i]].next
                                /\ u[s[i]].previous = IF i = 1 THEN l ELSE link[s[i]].previous
    <3>1. CASE Len(s) = 0
      <4>1. head = m /\ tail = m
        BY <2>1, <2>2, <2>3, <3>1 DEF At
      <4>2. u = [link EXCEPT ![l] = Linked!Self(l)]
        BY <4>1
      <4> HIDE DEF u
      <4>3. u \in ListLinks /\ \A k \in Linked!Places : u[k] = IF k = l THEN Linked!Self(l) ELSE link[k]
        BY <2>1, <2>4, <1>5, <4>2 DEF ListLinks
      <4> QED BY <1>1, <2>4, <1>5, <3>1, <4>1, <4>3
    <3>2. CASE Len(s) # 0
      <4>1. head = s[1] /\ tail = s[Len(s)] /\ head \in Nodes /\ tail \in Nodes
        <5>1. 1 \in 1 .. Len(s) /\ Len(s) \in 1 .. Len(s)
          BY <2>1, <3>2
        <5>2. At(m, s, 1) = s[1] /\ At(m, s, Len(s)) = s[Len(s)] /\ s[1] \in Nodes /\ s[Len(s)] \in Nodes
          BY <2>3, <5>1
        <5> QED BY <2>2, <5>2
      <4>2. head # m /\ head # l /\ tail # m /\ tail # l
        BY <1>1, <1>6, <4>1
      <4>3. here \in ListCells /\ here.next = head /\ here.previous = tail
        BY <2>4, <4>1 DEF ListCells
      <4> HIDE DEF head, tail, here
      <4>4. /\ took \in ListLinks
            /\ \A k \in Linked!Places : took[k] = IF k = m THEN Linked!Self(m) ELSE IF k = l THEN here ELSE link[k]
        BY <1>1, <2>1, <2>4, <1>5, <4>3 DEF ListLinks
      <4> HIDE DEF took
      <4>5. /\ u \in ListLinks
            /\ \A k \in Linked!Places : /\ u[k].next = IF k = tail THEN l ELSE took[k].next
                                        /\ u[k].previous = IF k = head THEN l ELSE took[k].previous
        <5>1. CASE head = tail
          <6> DEFINE both == [next |-> l, previous |-> l]
          <6>1. both \in ListCells /\ both.next = l /\ both.previous = l
            BY <2>4 DEF ListCells
          <6>2. u = [took EXCEPT ![head] = both]
            BY <4>2, <5>1
          <6> HIDE DEF u, both
          <6>3. u \in ListLinks /\ \A k \in Linked!Places : u[k] = IF k = head THEN both ELSE took[k]
            BY <2>4, <4>1, <4>4, <6>1, <6>2 DEF ListLinks
          <6> QED BY <5>1, <6>1, <6>3
        <5>2. CASE head # tail
          <6> DEFINE first == [took EXCEPT ![head].previous = l]
                     both == [first EXCEPT ![tail].next = l]
          <6>1. u = both
            BY <4>2, <5>2
          <6>2. /\ first \in ListLinks
                /\ \A k \in Linked!Places : /\ first[k].next = took[k].next
                                            /\ first[k].previous = IF k = head THEN l ELSE took[k].previous
            BY <2>4, <4>1, <4>4 DEF ListLinks, ListCells
          <6> HIDE DEF first, u
          <6>3. /\ both \in ListLinks
                /\ \A k \in Linked!Places : /\ both[k].next = IF k = tail THEN l ELSE first[k].next
                                            /\ both[k].previous = first[k].previous
            BY <2>4, <4>1, <6>2 DEF ListLinks, ListCells
          <6> HIDE DEF both
          <6> QED BY <6>1, <6>2, <6>3
        <5> QED BY <5>1, <5>2
      <4> HIDE DEF u
      <4>6. \A i \in 1 .. Len(s) : (s[i] = tail <=> i = Len(s)) /\ (s[i] = head <=> i = 1)
        BY <2>1, <3>2, <4>1 DEF Distinct
      <4>7. \A i \in 1 .. Len(s) : s[i] \in Linked!Places /\ took[s[i]] = link[s[i]]
        BY <2>3, <2>4, <4>4
      <4>8. took[l] = here /\ took[m] = Linked!Self(m)
        BY <1>1, <2>4, <4>4
      <4>9. u[l].next = s[1] /\ u[l].previous = s[Len(s)] /\ u[m].next = m /\ u[m].previous = m
        BY <1>1, <2>4, <1>5, <4>1, <4>2, <4>3, <4>5, <4>8
      <4>10. \A i \in 1 .. Len(s) : /\ u[s[i]].next = IF i = Len(s) THEN l ELSE link[s[i]].next
                                  /\ u[s[i]].previous = IF i = 1 THEN l ELSE link[s[i]].previous
        BY <4>5, <4>6, <4>7
      <4> QED BY <3>2, <4>5, <4>9, <4>10, Zenon
    <3> QED BY <3>1, <3>2, Zenon
  <2> HIDE DEF u, head, tail, here, took
  <2>8. Ringed(u, l, s)
    <3> SUFFICES ASSUME NEW i \in 0 .. Len(s)
                 PROVE  u[At(l, s, i)].next = At(l, s, i + 1) /\ u[At(l, s, i + 1)].previous = At(l, s, i)
      BY DEF Ringed
    <3>1. Len(s) \in Nat
      BY <2>1
    <3>2. u[At(l, s, i)].next = At(l, s, i + 1)
      <4>1. CASE i = 0
        BY <2>7, <3>1, <4>1 DEF At
      <4>2. CASE i \in 1 .. Len(s)
        BY <2>3, <2>7, <3>1, <4>2 DEF At
      <4> QED BY <3>1, <4>1, <4>2
    <3>3. u[At(l, s, i + 1)].previous = At(l, s, i)
      <4>1. CASE i = Len(s)
        BY <2>7, <3>1, <4>1 DEF At
      <4>2. CASE i \in 0 .. Len(s) - 1
        BY <2>3, <2>7, <3>1, <4>2 DEF At
      <4> QED BY <3>1, <4>1, <4>2
    <3> QED BY <3>2, <3>3
  <2>9. Ringed(u, m, <<>>)
    BY <2>7 DEF Ringed, At
  <2>10. rep' \in [link : ListLinks, owning : BOOLEAN] /\ rep'.link = u
    BY <1>2, <2>1, <2>7
  <2>11. /\ ref' \in [Linked!Lists -> Seq(Nodes)] /\ ref'[l] = s /\ ref'[m] = <<>>
    <3>1. <<>> \in Seq(Nodes)
      OBVIOUS
    <3> HIDE DEF s
    <3> QED BY <1>1, <1>2, <2>1, <3>1
  <2>12. Distinct(<<>>) /\ Apart(s, <<>>) /\ Apart(<<>>, s)
    BY <2>1 DEF Distinct, Apart
  <2>13. \A k \in Linked!Lists : Distinct(ref'[k]) /\ Ringed(rep'.link, k, ref'[k])
    BY <1>1, <2>1, <2>8, <2>9, <2>10, <2>11, <2>12
  <2>14. \A j, k \in Linked!Lists : j # k => Apart(ref'[j], ref'[k])
    BY <1>1, <2>11, <2>12
  <2> QED BY <2>10, <2>11, <2>13, <2>14 DEF ListInv, Distinct, Ringed, Apart, At
<1> QED BY <1>3, <1>4

(* clear takes the nodes from the front of the ring until none is left. *)
LEMMA ListClear ==
  ASSUME ListConstants, ListInv, fault = "none", NEW l \in Linked!Lists, Linked!clear(l)
  PROVE  ListInv'
<1> DEFINE s == ref[l]
           N == Len(s)
           erased[n \in 0 .. N] ==
             IF n = 0 THEN rep.link ELSE Linked!Taken(erased[n - 1], erased[n - 1][l].next)
           rest(n) == SubSeq(s, n + 1, N)
           G == [n \in 0 .. N |-> {e \in ListLinks : /\ Ringed(e, l, rest(n))
                                                     /\ \A m \in Linked!Lists : m # l => Ringed(e, m, ref[m])}]
<1>1. rep' = [rep EXCEPT !.link = erased[N]] /\ ref' = [ref EXCEPT ![l] = <<>>]
  BY DEF Linked!clear
<1> HIDE DEF erased
<1>2. rep.link \in ListLinks /\ s \in Seq(Nodes) /\ Distinct(s) /\ Ringed(rep.link, l, s) /\ N \in Nat
  BY DEF ListInv
<1>3. \A m \in Linked!Lists : m # l => /\ ref[m] \in Seq(Nodes) /\ Distinct(ref[m]) /\ Ringed(rep.link, m, ref[m])
                                      /\ Apart(s, ref[m])
  BY DEF ListInv
<1>4. \A n \in 0 .. N : /\ rest(n) \in Seq(Nodes) /\ Len(rest(n)) = N - n
                        /\ \A j \in 1 .. N - n : rest(n)[j] = s[n + j]
  BY <1>2
<1>5. rest(0) = s /\ rest(N) = <<>>
  BY <1>2
<1> HIDE DEF s, N, rest
<1>6. rep.link \in G[0]
  BY <1>2, <1>3, <1>5
<1>7. ASSUME NEW n \in 0 .. N - 1, NEW e \in G[n]
      PROVE  Linked!Taken(e, e[l].next) \in G[n + 1]
  <2> DEFINE t == rest(n)
             u == Linked!Taken(e, e[l].next)
  <2>1. n \in 0 .. N /\ n + 1 \in 0 .. N
    BY <1>2
  <2>2. e \in ListLinks /\ Ringed(e, l, t) /\ \A m \in Linked!Lists : m # l => Ringed(e, m, ref[m])
    BY <1>7, <2>1
  <2>3. /\ t \in Seq(Nodes) /\ Len(t) = N - n /\ 1 \in 1 .. Len(t)
        /\ \A j \in 1 .. Len(t) : t[j] = s[n + j] /\ n + j \in 1 .. N
    <3>1. t \in Seq(Nodes) /\ Len(t) = N - n /\ \A j \in 1 .. N - n : t[j] = s[n + j]
      BY <1>4, <2>1
    <3> HIDE DEF t
    <3>2. N \in Nat /\ n \in Nat /\ n < N
      BY <1>2
    <3> QED BY ONLY <3>1, <3>2
  <2>4. rest(n + 1) = RemoveAt(t, 1)
    <3>1. /\ rest(n + 1) \in Seq(Nodes) /\ Len(rest(n + 1)) = (N - n) - 1
          /\ \A j \in 1 .. (N - n) - 1 : rest(n + 1)[j] = s[(n + 1) + j]
      <4>1. /\ rest(n + 1) \in Seq(Nodes) /\ Len(rest(n + 1)) = N - (n + 1)
            /\ \A j \in 1 .. N - (n + 1) : rest(n + 1)[j] = s[(n + 1) + j]
        BY <1>4, <2>1
      <4>2. N - (n + 1) = (N - n) - 1
        BY <1>2
      <4> QED BY ONLY <4>1, <4>2
    <3> HIDE DEF t
    <3>2. /\ RemoveAt(t, 1) \in Seq(Nodes) /\ Len(RemoveAt(t, 1)) = Len(t) - 1
          /\ \A j \in 1 .. Len(t) - 1 : RemoveAt(t, 1)[j] = IF j < 1 THEN t[j] ELSE t[j + 1]
      BY <2>3, RemoveAtFacts
    <3>3. ASSUME NEW j \in 1 .. Len(rest(n + 1))
          PROVE  rest(n + 1)[j] = RemoveAt(t, 1)[j]
      <4>1. /\ j \in 1 .. (N - n) - 1 /\ j \in 1 .. Len(t) - 1 /\ ~(j < 1)
            /\ j + 1 \in 1 .. Len(t) /\ (n + 1) + j = n + (j + 1)
        <5>1. n \in Int /\ N \in Int /\ Len(t) = N - n /\ Len(rest(n + 1)) = (N - n) - 1 /\ j \in 1 .. Len(rest(n + 1))
          BY ONLY <1>2, <2>3, <3>1, <3>3, n \in 0 .. N - 1
        <5>2. j \in 1 .. (N - n) - 1
          BY ONLY <5>1
        <5> QED BY ONLY <5>1, <5>2
      <4>2. RemoveAt(t, 1)[j] = t[j + 1] /\ t[j + 1] = s[n + (j + 1)]
        BY ONLY <2>3, <3>2, <4>1
      <4>3. rest(n + 1)[j] = s[(n + 1) + j]
        BY ONLY <3>1, <4>1
      <4> QED BY ONLY <4>1, <4>2, <4>3
    <3>4. Len(rest(n + 1)) = Len(RemoveAt(t, 1))
      BY <2>3, <3>1, <3>2
    <3> QED BY <3>1, <3>2, <3>3, <3>4, SeqEqual
  <2> HIDE DEF t
  <2>5. Distinct(t)
    <3> SUFFICES ASSUME NEW j \in 1 .. Len(t), NEW k \in 1 .. Len(t), t[j] = t[k]
                 PROVE  j = k
      BY DEF Distinct
    <3>1. s[n + j] = s[n + k] /\ n + j \in 1 .. Len(s) /\ n + k \in 1 .. Len(s)
      BY <2>3 DEF N
    <3>2. n + j = n + k
      BY <1>2, <3>1 DEF Distinct
    <3> QED BY <3>2
  <2>6. \A m \in Linked!Lists : m # l => Apart(t, ref[m])
    BY <1>3, <2>3 DEF Apart, N
  <2>7. e[l].next = t[1]
    <3>1. 0 \in 0 .. Len(t) /\ At(l, t, 0) = l /\ At(l, t, 0 + 1) = t[1]
      BY <2>3 DEF At
    <3> QED BY <2>2, <3>1 DEF Ringed
  <2>8. u = Linked!unlink(e, t[1]) \/ u = [Linked!unlink(e, t[1]) EXCEPT ![t[1]] = Linked!NoLink]
    BY <2>7 DEF Linked!Taken
  <2> HIDE DEF u
  <2>9. /\ u \in ListLinks /\ Ringed(u, l, RemoveAt(t, 1))
        /\ \A m \in Linked!Lists, r \in Seq(Nodes) :
             m # l /\ Distinct(r) /\ Ringed(e, m, r) /\ Apart(t, r) => Ringed(u, m, r)
    BY <2>2, <2>3, <2>5, <2>8, RingUnlink
  <2>10. ASSUME NEW m \in Linked!Lists, m # l
         PROVE  Ringed(u, m, ref[m])
    <3>1. ref[m] \in Seq(Nodes) /\ Distinct(ref[m])
      BY <1>3, <2>10
    <3>2. Ringed(e, m, ref[m]) /\ Apart(t, ref[m])
      BY <2>2, <2>6, <2>10
    <3> QED BY <2>9, <2>10, <3>1, <3>2, SMTT(20)
  <2> QED BY <2>1, <2>4, <2>9, <2>10 DEF u
<1>8. erased = [n \in 0 .. N |-> IF n = 0 THEN rep.link ELSE Linked!Taken(erased[n - 1], erased[n - 1][l].next)]
  <2> DEFINE step == [x \in (1 .. N) \X ListLinks |-> Linked!Taken(x[2], x[2][l].next)]
  <2>1. \A n \in 0 .. N : G[n] \subseteq ListLinks
    OBVIOUS
  <2> HIDE DEF G
  <2>2. \A n \in 1 .. N, e \in ListLinks : step[<<n, e>>] = Linked!Taken(e, e[l].next)
    OBVIOUS
  <2> HIDE DEF step
  <2>3. \A n \in 1 .. N : n \in 0 .. N /\ n - 1 \in 0 .. N - 1 /\ n - 1 \in 0 .. N /\ (n - 1) + 1 = n
    BY <1>2
  <2>4. ASSUME NEW n \in 1 .. N, NEW e \in G[n - 1]
        PROVE  step[<<n, e>>] \in G[n]
    <3>1. Linked!Taken(e, e[l].next) \in G[(n - 1) + 1]
      BY <1>7, <2>3
    <3> QED BY <2>1, <2>2, <2>3, <3>1
  <2>5. PICK f \in [0 .. N -> ListLinks] :
          /\ f[0] = rep.link
          /\ \A n \in 0 .. N : f[n] \in G[n]
          /\ \A n \in 1 .. N : f[n] = step[<<n, f[n - 1]>>]
    <3>1. LoopSteps(N, ListLinks, G, rep.link, step)
      BY <1>2, <1>6, <2>1, <2>4 DEF LoopSteps
    <3> QED BY <3>1, Recursion DEF LoopRuns
  <2>6. \A n \in 1 .. N : f[n] = Linked!Taken(f[n - 1], f[n - 1][l].next)
    BY <2>2, <2>3, <2>5
  <2>7. f = [n \in 0 .. N |-> IF n = 0 THEN rep.link ELSE Linked!Taken(f[n - 1], f[n - 1][l].next)]
    BY <1>2, <2>5, <2>6
  <2> QED BY <2>7, Zenon DEF erased
<1> DEFINE T == {n \in Nat : n <= N => erased[n] \in G[n]}
<1>9. 0 \in T
  <2>1. erased[0] = rep.link
    BY <1>2, <1>8
  <2> QED BY <1>6, <2>1
<1>10. ASSUME NEW n \in Nat, n \in T
       PROVE  n + 1 \in T
  <2> SUFFICES ASSUME n + 1 <= N
               PROVE  erased[n + 1] \in G[n + 1]
    OBVIOUS
  <2>1. n \in 0 .. N - 1 /\ n + 1 \in 0 .. N /\ n + 1 # 0 /\ (n + 1) - 1 = n /\ n <= N
    BY <1>2
  <2>2. erased[n] \in G[n]
    BY <1>10, <2>1
  <2>3. erased[n + 1] = Linked!Taken(erased[n], erased[n][l].next)
    BY <1>8, <2>1
  <2> HIDE DEF G
  <2> QED BY <1>7, <2>1, <2>2, <2>3
<1>11. erased[N] \in G[N] /\ N \in 0 .. N
  <2>1. N \in T
    BY <1>2, <1>9, <1>10, Induction
  <2> QED BY <1>2, <2>1
<1> DEFINE last == erased[N]
<1>12. last \in ListLinks /\ Ringed(last, l, <<>>) /\ \A m \in Linked!Lists : m # l => Ringed(last, m, ref[m])
  BY <1>5, <1>11
<1>13. <<>> \in Seq(Nodes) /\ Distinct(<<>>) /\ \A m \in Linked!Lists : m # l => Apart(<<>>, ref[m])
  BY DEF Distinct, Apart
<1> HIDE DEF last
<1> QED BY <1>1, <1>12, <1>13, ListPut DEF last

(* Every call on the two lists keeps both rings. *)
LEMMA ListStep ==
  ASSUME ListConstants, ListInv, Linked!Next
  PROVE  ListInv'
<1>1. fault = "none" /\ rep \in [link : ListLinks, owning : BOOLEAN] /\ ref \in [Linked!Lists -> Seq(Nodes)]
  BY DEF ListInv, Linked!Next
<1>2. ASSUME NEW p \in Nodes, ~Linked!Linked(p)
      PROVE  \A m \in Linked!Lists : \A j \in 1 .. Len(ref[m]) : ref[m][j] # p
  BY <1>1, <1>2 DEF Linked!Linked, Linked!Range
<1>3. ASSUME NEW s \in Seq(Nodes), NEW i, NEW p
      PROVE  Linked!With(s, i, p) = InsertAt(s, i, p) /\ Linked!WithoutAt(s, i) = RemoveAt(s, i)
  BY DEF Linked!With, InsertAt, Linked!WithoutAt, RemoveAt
<1>4. ASSUME NEW l \in Linked!Lists, Linked!Push(l)
      PROVE  ListInv'
  <2>1. PICK p \in Nodes :
          /\ ~Linked!Linked(p)
          /\ \/ /\ rep' = [rep EXCEPT !.link = Linked!link_tail(rep.link, p, l)]
                /\ ref' = [ref EXCEPT ![l] = Append(ref[l], p)]
             \/ /\ rep' = [rep EXCEPT !.link = Linked!link_head(rep.link, p, l)]
                /\ ref' = [ref EXCEPT ![l] = <<p>> \o ref[l]]
    BY <1>1, <1>4 DEF Linked!Push
  <2> DEFINE s == ref[l]
  <2>2. /\ s \in Seq(Nodes) /\ rep.link[l].next = At(l, s, 1) /\ rep.link[l].previous = At(l, s, Len(s))
        /\ At(l, s, 0) = l /\ At(l, s, Len(s) + 1) = l
    BY <1>1, Neighbours DEF At
  <2>3. Append(s, p) = InsertAt(s, Len(s) + 1, p) /\ <<p>> \o s = InsertAt(s, 1, p)
    BY <2>2, InsertedAtEnds
  <2>4. Len(s) + 1 \in 1 .. Len(s) + 1 /\ 1 \in 1 .. Len(s) + 1 /\ (Len(s) + 1) - 1 = Len(s) /\ 1 - 1 = 0
    BY <2>2
  <2>5. CASE /\ rep' = [rep EXCEPT !.link = Linked!link_tail(rep.link, p, l)]
             /\ ref' = [ref EXCEPT ![l] = Append(ref[l], p)]
    <3>1. Linked!link_tail(rep.link, p, l)
            = Linked!link_in(rep.link, p, At(l, s, (Len(s) + 1) - 1), At(l, s, Len(s) + 1))
      BY <2>2, <2>4 DEF Linked!link_tail
    <3>2. /\ rep' = [rep EXCEPT !.link = Linked!link_in(rep.link, p, At(l, s, (Len(s) + 1) - 1), At(l, s, Len(s) + 1))]
          /\ ref' = [ref EXCEPT ![l] = InsertAt(s, Len(s) + 1, p)]
      BY <2>3, <2>5, <3>1
    <3> QED BY <1>1, <1>2, <2>1, <2>4, <3>2, ListLink
  <2>6. CASE /\ rep' = [rep EXCEPT !.link = Linked!link_head(rep.link, p, l)]
             /\ ref' = [ref EXCEPT ![l] = <<p>> \o ref[l]]
    <3>1. Linked!link_head(rep.link, p, l) = Linked!link_in(rep.link, p, At(l, s, 1 - 1), At(l, s, 1))
      BY <2>2, <2>4 DEF Linked!link_head
    <3>2. /\ rep' = [rep EXCEPT !.link = Linked!link_in(rep.link, p, At(l, s, 1 - 1), At(l, s, 1))]
          /\ ref' = [ref EXCEPT ![l] = InsertAt(s, 1, p)]
      BY <2>3, <2>6, <3>1
    <3> QED BY <1>1, <1>2, <2>1, <2>4, <3>2, ListLink
  <2> QED BY <2>1, <2>5, <2>6
<1>5. ASSUME NEW l \in Linked!Lists, Linked!LinkAt(l)
      PROVE  ListInv'
  <2>1. PICK p \in Nodes, i \in DOMAIN ref[l] :
          /\ ~Linked!Linked(p)
          /\ \/ /\ rep' = [rep EXCEPT !.link = Linked!link_after(rep.link, p, ref[l][i])]
                /\ ref' = [ref EXCEPT ![l] = Linked!With(ref[l], i + 1, p)]
             \/ /\ rep' = [rep EXCEPT !.link = Linked!link_before(rep.link, p, ref[l][i])]
                /\ ref' = [ref EXCEPT ![l] = Linked!With(ref[l], i, p)]
    BY <1>1, <1>5 DEF Linked!LinkAt
  <2> DEFINE s == ref[l]
  <2>2. s \in Seq(Nodes) /\ i \in 1 .. Len(s)
    BY <1>1, <2>1
  <2>3. rep.link[s[i]].next = At(l, s, i + 1) /\ rep.link[s[i]].previous = At(l, s, i - 1) /\ At(l, s, i) = s[i]
    BY <1>1, <2>2, Neighbours DEF At
  <2>4. i + 1 \in 1 .. Len(s) + 1 /\ i \in 1 .. Len(s) + 1 /\ (i + 1) - 1 = i
    BY <2>2
  <2>5. CASE /\ rep' = [rep EXCEPT !.link = Linked!link_after(rep.link, p, ref[l][i])]
             /\ ref' = [ref EXCEPT ![l] = Linked!With(ref[l], i + 1, p)]
    <3>1. Linked!link_after(rep.link, p, s[i])
            = Linked!link_in(rep.link, p, At(l, s, (i + 1) - 1), At(l, s, i + 1))
      BY <2>3, <2>4 DEF Linked!link_after
    <3>2. /\ rep' = [rep EXCEPT !.link = Linked!link_in(rep.link, p, At(l, s, (i + 1) - 1), At(l, s, i + 1))]
          /\ ref' = [ref EXCEPT ![l] = InsertAt(s, i + 1, p)]
      BY <1>3, <2>2, <2>5, <3>1
    <3> QED BY <1>1, <1>2, <2>1, <2>4, <3>2, ListLink
  <2>6. CASE /\ rep' = [rep EXCEPT !.link = Linked!link_before(rep.link, p, ref[l][i])]
             /\ ref' = [ref EXCEPT ![l] = Linked!With(ref[l], i, p)]
    <3>1. Linked!link_before(rep.link, p, s[i]) = Linked!link_in(rep.link, p, At(l, s, i - 1), At(l, s, i))
      BY <2>3 DEF Linked!link_before
    <3>2. /\ rep' = [rep EXCEPT !.link = Linked!link_in(rep.link, p, At(l, s, i - 1), At(l, s, i))]
          /\ ref' = [ref EXCEPT ![l] = InsertAt(s, i, p)]
      BY <1>3, <2>2, <2>6, <3>1
    <3> QED BY <1>1, <1>2, <2>1, <2>4, <3>2, ListLink
  <2> QED BY <2>1, <2>5, <2>6
<1>6. ASSUME NEW l \in Linked!Lists, Linked!erase(l)
      PROVE  ListInv'
  <2>1. PICK i \in DOMAIN ref[l] :
          /\ rep' = [rep EXCEPT !.link = Linked!Taken(rep.link, ref[l][i])]
          /\ ref' = [ref EXCEPT ![l] = Linked!WithoutAt(ref[l], i)]
    BY <1>1, <1>6 DEF Linked!erase
  <2> DEFINE u == Linked!Taken(rep.link, ref[l][i])
  <2>2. i \in 1 .. Len(ref[l]) /\ ref[l] \in Seq(Nodes)
    BY <1>1, <2>1
  <2>3. \/ u = Linked!unlink(rep.link, ref[l][i])
        \/ u = [Linked!unlink(rep.link, ref[l][i]) EXCEPT ![ref[l][i]] = Linked!NoLink]
    BY DEF Linked!Taken
  <2>4. ref' = [ref EXCEPT ![l] = RemoveAt(ref[l], i)] /\ rep' = [rep EXCEPT !.link = u]
    BY <1>3, <2>1, <2>2
  <2> HIDE DEF u
  <2> QED BY <1>1, <2>2, <2>3, <2>4, ListUnlink
<1>7. CASE Linked!DestroyNode
  <2>1. PICK p \in Nodes :
          IF Linked!Linked(p)
          THEN /\ rep' = [rep EXCEPT !.link = [Linked!unlink(rep.link, p) EXCEPT ![p] = Linked!NoLink]]
               /\ ref' = [l \in Linked!Lists |-> Linked!Without(ref[l], p)]
          ELSE fault' = IF rep.link[p] = Linked!NoLink THEN "null dereferenced" ELSE "unlinked twice"
    BY <1>1, <1>7 DEF Linked!DestroyNode
  <2>2. CASE ~Linked!Linked(p)
    <3>1. fault' # "none"
      BY <2>1, <2>2
    <3> QED BY <3>1 DEF ListInv
  <2>3. CASE Linked!Linked(p)
    <3>1. PICK l \in Linked!Lists : \E i \in 1 .. Len(ref[l]) : ref[l][i] = p
      BY <1>1, <2>3 DEF Linked!Linked, Linked!Range
    <3>2. PICK i \in 1 .. Len(ref[l]) : ref[l][i] = p
      BY <3>1
    <3>3. \A m \in Linked!Lists : m # l => Linked!Without(ref[m], p) = ref[m]
      <4>1. ASSUME NEW m \in Linked!Lists, m # l
            PROVE  Linked!Without(ref[m], p) = ref[m]
        <5>1. \A j \in 1 .. Len(ref[m]) : ref[m][j] # p
          BY <1>1, <3>2, <4>1 DEF ListInv, Apart
        <5>2. p \notin Linked!Range(ref[m])
          BY <1>1, <5>1 DEF Linked!Range
        <5> QED BY <5>2 DEF Linked!Without
      <4> QED BY <4>1
    <3>4. Linked!Without(ref[l], p) = RemoveAt(ref[l], i)
      <4>1. ref[l] \in Seq(Nodes) /\ Distinct(ref[l])
        BY <1>1 DEF ListInv
      <4> QED BY <3>2, <4>1, TakenOut
    <3>5. ref' = [ref EXCEPT ![l] = RemoveAt(ref[l], i)]
      <4>1. ref' = [m \in Linked!Lists |-> Linked!Without(ref[m], p)]
        BY <2>1, <2>3
      <4> QED BY <1>1, <3>3, <3>4, <4>1
    <3> DEFINE u == [Linked!unlink(rep.link, ref[l][i]) EXCEPT ![ref[l][i]] = Linked!NoLink]
    <3>6. rep' = [rep EXCEPT !.link = u]
      BY <2>1, <2>3, <3>2
    <3>7. u = [Linked!unlink(rep.link, ref[l][i]) EXCEPT ![ref[l][i]] = Linked!NoLink]
      OBVIOUS
    <3> HIDE DEF u
    <3> QED BY <1>1, <3>5, <3>6, <3>7, ListUnlink
  <2> QED BY <2>2, <2>3
<1>8. ASSUME NEW l \in Linked!Lists, Linked!DestroyList(l)
      PROVE  ListInv'
  BY <1>8 DEF Linked!DestroyList, ListInv
<1> QED BY <1>1, <1>4, <1>5, <1>6, <1>7, <1>8, ListClear, ListMove DEF Linked!Next

(* BareLinkList and LinkList, of any nodes: both rings, followed either way *)
(* from the sentinel, are the sequences that were linked, whatever is       *)
(* linked, unlinked, destroyed, cleared and moved; until a call meets a     *)
(* fault.                                                                   *)
THEOREM ListsHold ==
  ListConstants => (Linked!Spec => []Linked!Represents)
<1> SUFFICES ASSUME ListConstants
             PROVE  Linked!Spec => []Linked!Represents
  OBVIOUS
<1>1. Linked!Init => ListInv
  <2> SUFFICES ASSUME Linked!Init
               PROVE  ListInv
    OBVIOUS
  <2>1. PICK owning \in BOOLEAN :
          rep = [link |-> [p \in Linked!Places |-> IF p \in Linked!Lists THEN Linked!Self(p) ELSE Linked!NoLink],
                 owning |-> owning]
    BY DEF Linked!Init
  <2> DEFINE link == [p \in Linked!Places |-> IF p \in Linked!Lists THEN Linked!Self(p) ELSE Linked!NoLink]
  <2>2. /\ Linked!NoLink \in ListCells
        /\ \A k \in Linked!Lists : /\ Linked!Self(k) \in ListCells /\ k \in Linked!Places
                                  /\ Linked!Self(k).next = k /\ Linked!Self(k).previous = k
    BY DEF Linked!Self, Linked!NoLink, Linked!Null, ListCells, Linked!Places
  <2>3. link \in ListLinks /\ \A k \in Linked!Lists : link[k].next = k /\ link[k].previous = k
    BY <2>2 DEF ListLinks
  <2>4. rep \in [link : ListLinks, owning : BOOLEAN] /\ rep.link = link
    BY <2>1, <2>3
  <2> HIDE DEF link
  <2>5. ref \in [Linked!Lists -> Seq(Nodes)] /\ \A l \in Linked!Lists : ref[l] = <<>>
    BY DEF Linked!Init
  <2>6. \A l \in Linked!Lists : Distinct(ref[l]) /\ Ringed(rep.link, l, ref[l])
    BY <2>3, <2>4, <2>5 DEF Distinct, Ringed, At
  <2>7. \A l, m \in Linked!Lists : l # m => Apart(ref[l], ref[m])
    BY <2>5 DEF Apart
  <2> QED BY <2>4, <2>5, <2>6, <2>7 DEF ListInv
<1>2. ListInv /\ [Linked!Next]_Linked!vars => ListInv'
  <2>1. ASSUME ListInv, UNCHANGED Linked!vars
        PROVE  ListInv'
    BY <2>1 DEF Linked!vars, ListInv, Distinct, Ringed, Apart, At
  <2> QED BY <2>1, ListStep
<1>3. ListInv => Linked!Represents
  <2> SUFFICES ASSUME ListInv, fault = "none", NEW l \in Linked!Lists
               PROVE  LET ring == <<l>> \o ref[l] \o <<l>>
                      IN  \A i \in 1 .. Len(ring) - 1 :
                            /\ rep.link[ring[i]].next = ring[i + 1]
                            /\ rep.link[ring[i + 1]].previous = ring[i]
    BY DEF Linked!Represents
  <2> DEFINE s == ref[l]
             ring == <<l>> \o s \o <<l>>
  <2>1. s \in Seq(Nodes) /\ Ringed(rep.link, l, s)
    BY DEF ListInv
  <2> HIDE DEF s
  <2>2. Len(ring) = Len(s) + 2 /\ \A i \in 1 .. Len(s) + 2 : ring[i] = At(l, s, i - 1)
    <3> DEFINE front == <<l>> \o s
    <3>1. /\ front \in Seq(Nodes \cup {l}) /\ Len(front) = Len(s) + 1
          /\ \A i \in 1 .. Len(s) + 1 : front[i] = IF i = 1 THEN l ELSE s[i - 1]
      BY <2>1
    <3> HIDE DEF front
    <3>2. /\ Len(front \o <<l>>) = Len(s) + 2
          /\ \A i \in 1 .. Len(s) + 2 : (front \o <<l>>)[i] = IF i <= Len(s) + 1 THEN front[i] ELSE l
      BY <2>1, <3>1
    <3>3. ring = front \o <<l>>
      BY DEF front
    <3> HIDE DEF ring
    <3> QED BY <2>1, <3>1, <3>2, <3>3 DEF At
  <2> HIDE DEF ring
  <2>3. ASSUME NEW i \in 1 .. Len(ring) - 1
        PROVE  rep.link[ring[i]].next = ring[i + 1] /\ rep.link[ring[i + 1]].previous = ring[i]
    <3>1. i - 1 \in 0 .. Len(s) /\ i \in 1 .. Len(s) + 2 /\ i + 1 \in 1 .. Len(s) + 2
          /\ (i + 1) - 1 = i /\ (i - 1) + 1 = i
      BY <2>1, <2>2
    <3>2. ring[i] = At(l, s, i - 1) /\ ring[i + 1] = At(l, s, i)
      <4>1. ring[i + 1] = At(l, s, (i + 1) - 1)
        BY <2>2, <3>1
      <4> QED BY <2>2, <3>1, <4>1
    <3>3. /\ rep.link[At(l, s, i - 1)].next = At(l, s, (i - 1) + 1)
          /\ rep.link[At(l, s, (i - 1) + 1)].previous = At(l, s, i - 1)
      BY <2>1, <3>1 DEF Ringed
    <3> QED BY <3>1, <3>2, <3>3
  <2> QED BY <2>3 DEF ring, s
<1> QED BY <1>1, <1>2, <1>3, PTL DEF Linked!Spec

-----------------------------------------------------------------------------
(* Spatial objects. No objects are parents of each other in a circle. *)
Acyclic(parent) ==
    /\ parent \in [Spatial -> Spatial \cup {Transform!Null}]
    /\ \A S \in SUBSET Spatial : (\A o \in S : parent[o] \in S) => S = {}

SpatialInv ==
    fault = "none" =>
      /\ rep = [parent |-> rep.parent] /\ Acyclic(rep.parent)
      /\ ref = Cardinality(Spatial) - 1

(* What the walk has seen: o and its parents, each once. *)
Walked(parent, o) ==
    {c \in Seq(Spatial) :
       /\ Len(c) >= 1 /\ c[1] = o
       /\ \A i \in 1 .. Len(c) - 1 : c[i + 1] = parent[c[i]]
       /\ \A i, j \in 1 .. Len(c) : c[i] = c[j] => i = j}

WalkOn(parent, c) ==
    IF c[Len(c)] = Transform!Null \/ parent[c[Len(c)]] = Transform!Null
    THEN c ELSE Append(c, parent[c[Len(c)]])

(* One more parent: it is none of those seen. *)
LEMMA WalkStep ==
  ASSUME SpatialAssumption, NEW parent, NEW o, NEW c, Acyclic(parent), o \in Spatial, c \in Walked(parent, o)
  PROVE  /\ WalkOn(parent, c) \in Walked(parent, o)
         /\ IF parent[c[Len(c)]] = Transform!Null THEN WalkOn(parent, c) = c
            ELSE Len(WalkOn(parent, c)) = Len(c) + 1
<1> DEFINE n == Len(c)
           q == parent[c[n]]
<1>1. /\ c \in Seq(Spatial) /\ n \in Nat /\ n >= 1 /\ c[1] = o
      /\ \A i \in 1 .. n - 1 : c[i + 1] = parent[c[i]]
      /\ \A i, j \in 1 .. n : c[i] = c[j] => i = j
  BY DEF Walked
<1>2. n \in 1 .. n /\ c[n] \in Spatial
  BY <1>1
<1>3. parent \in [Spatial -> Spatial \cup {Transform!Null}]
  BY DEF Acyclic
<1>4. c[Len(c)] = c[n] /\ c[n] # Transform!Null
  BY <1>2 DEF SpatialAssumption
<1>5. CASE q = Transform!Null
  BY <1>4, <1>5 DEF WalkOn
<1>6. CASE q # Transform!Null
  <2>1. q \in Spatial
    BY <1>2, <1>3, <1>6
  <2>2. WalkOn(parent, c) = Append(c, q)
    BY <1>4, <1>6 DEF WalkOn
  <2> DEFINE d == Append(c, q)
  <2>3. /\ d \in Seq(Spatial) /\ Len(d) = n + 1 /\ d[n + 1] = q
        /\ \A i \in 1 .. n : d[i] = c[i]
    BY <1>1, <2>1
  <2>4. ASSUME NEW j \in 1 .. n, c[j] = q
        PROVE  FALSE
    <3> DEFINE S == {c[i] : i \in j .. n}
    <3>1. S \in SUBSET Spatial
      BY <1>1
    <3>2. ASSUME NEW e \in S
          PROVE  parent[e] \in S
      <4>1. PICK i \in j .. n : e = c[i]
        BY <3>2
      <4>2. CASE i = n
        <5>1. j \in j .. n
          BY <1>1
        <5> QED BY <2>4, <4>1, <4>2, <5>1
      <4>3. CASE i # n
        <5>1. i + 1 \in j .. n /\ i \in 1 .. n - 1
          BY <1>1, <4>3
        <5> QED BY <1>1, <4>1, <5>1
      <4> QED BY <4>2, <4>3
    <3>3. q \in S
      <4>1. j \in j .. n
        BY <1>1
      <4> QED BY <2>4, <4>1
    <3> HIDE DEF S
    <3> QED BY <3>1, <3>2, <3>3 DEF Acyclic
  <2> HIDE DEF d, q, n
  <2>5. \A i, j \in 1 .. n + 1 : d[i] = d[j] => i = j
    <3> SUFFICES ASSUME NEW i \in 1 .. n + 1, NEW j \in 1 .. n + 1, d[i] = d[j]
                 PROVE  i = j
      OBVIOUS
    <3>1. (i \in 1 .. n \/ i = n + 1) /\ (j \in 1 .. n \/ j = n + 1)
      BY <1>1
    <3> QED BY <1>1, <2>3, <2>4, <3>1
  <2>6. \A i \in 1 .. (n + 1) - 1 : d[i + 1] = parent[d[i]]
    <3> SUFFICES ASSUME NEW i \in 1 .. n
                 PROVE  d[i + 1] = parent[d[i]]
      BY <1>1
    <3>1. CASE i = n
      BY <2>3, <3>1 DEF q
    <3>2. CASE i # n
      <4>1. i \in 1 .. n - 1 /\ i + 1 \in 1 .. n
        BY <1>1, <3>2
      <4> QED BY <1>1, <2>3, <4>1
    <3> QED BY <3>1, <3>2
  <2>7. 1 \in 1 .. n /\ n + 1 >= 1
    BY <1>1
  <2>8. d \in Walked(parent, o)
    BY <1>1, <2>3, <2>5, <2>6, <2>7 DEF Walked
  <2> QED BY <1>6, <2>2, <2>3, <2>8 DEF d, q, n
<1> QED BY <1>5, <1>6

(* The chain of an object ends. *)
LEMMA ChainFacts ==
  ASSUME SpatialAssumption, NEW parent, NEW o, Acyclic(parent), o \in Spatial
  PROVE  /\ Transform!Chain(parent, o) \in Walked(parent, o)
         /\ LET c == Transform!Chain(parent, o) IN parent[c[Len(c)]] = Transform!Null
         /\ Len(Transform!Chain(parent, o)) <= Cardinality(Spatial)
<1> DEFINE N == Cardinality(Spatial)
           S == Walked(parent, o)
           G == [n \in 0 .. N |-> {c \in S : parent[c[Len(c)]] = Transform!Null \/ Len(c) = n + 1}]
           walk[n \in 0 .. N] == IF n = 0 THEN <<o>> ELSE WalkOn(parent, walk[n - 1])
<1>1. Transform!Chain(parent, o) = walk[N]
  <2>1. Transform!Cardinality(Spatial) = N
    BY ONLY Zenon DEF Transform!Cardinality, Cardinality
  <2> HIDE DEF N
  <2> QED BY <2>1, Zenon DEF Transform!Chain, WalkOn
<1> HIDE DEF walk
<1>2. N \in Nat
  BY FS_CardinalityType DEF SpatialAssumption
<1> DEFINE one == <<o>>
<1>3. one \in S /\ Len(one) = 1
  BY DEF Walked
<1>4. one \in G[0]
  BY <1>2, <1>3
<1>5. \A n \in 0 .. N : G[n] \subseteq S
  OBVIOUS
<1>6. ASSUME NEW n \in 1 .. N, NEW c \in G[n - 1]
      PROVE  WalkOn(parent, c) \in G[n]
  <2>1. n - 1 \in 0 .. N /\ n \in 0 .. N /\ (n - 1) + 1 = n
    BY <1>2
  <2>2. c \in S /\ (parent[c[Len(c)]] = Transform!Null \/ Len(c) = n)
    BY <1>6, <2>1
  <2>3. /\ WalkOn(parent, c) \in S
        /\ IF parent[c[Len(c)]] = Transform!Null THEN WalkOn(parent, c) = c
           ELSE Len(WalkOn(parent, c)) = Len(c) + 1
    BY <2>2, WalkStep
  <2> HIDE DEF S
  <2> QED BY <2>1, <2>2, <2>3
<1> HIDE DEF N, S, G, one
<1>7. walk = [n \in 0 .. N |-> IF n = 0 THEN one ELSE WalkOn(parent, walk[n - 1])]
  <2> DEFINE step == [x \in (1 .. N) \X S |-> WalkOn(parent, x[2])]
  <2>1. \A n \in 1 .. N, c \in S : step[<<n, c>>] = WalkOn(parent, c)
    OBVIOUS
  <2> HIDE DEF step
  <2>2. \A n \in 1 .. N : n \in 0 .. N /\ n - 1 \in 0 .. N
    BY <1>2
  <2>3. LoopSteps(N, S, G, one, step)
    BY <1>2, <1>4, <1>5, <1>6, <2>1, <2>2 DEF LoopSteps
  <2>4. PICK f \in [0 .. N -> S] : f[0] = one /\ \A n \in 1 .. N : f[n] = step[<<n, f[n - 1]>>]
    BY <2>3, Recursion DEF LoopRuns
  <2>5. \A n \in 1 .. N : f[n] = WalkOn(parent, f[n - 1])
    BY <2>1, <2>2, <2>4
  <2>6. f = [n \in 0 .. N |-> IF n = 0 THEN one ELSE WalkOn(parent, f[n - 1])]
    BY <1>2, <2>4, <2>5
  <2> QED BY <2>6, Zenon DEF walk, one
<1>8. walk[0] = one /\ \A n \in 0 .. N - 1 : walk[n + 1] = WalkOn(parent, walk[n])
  <2>1. \A n \in 0 .. N - 1 : n + 1 \in 0 .. N /\ n + 1 # 0 /\ (n + 1) - 1 = n
    BY <1>2
  <2>2. 0 \in 0 .. N
    BY <1>2
  <2> QED BY <1>7, <2>1, <2>2
<1>9. \A n \in 0 .. N - 1 : walk[n] \in G[n] => walk[n + 1] \in G[n + 1]
  <2> SUFFICES ASSUME NEW n \in 0 .. N - 1, walk[n] \in G[n]
               PROVE  WalkOn(parent, walk[n]) \in G[n + 1]
    BY <1>8
  <2>1. n + 1 \in 1 .. N /\ (n + 1) - 1 = n
    BY <1>2
  <2> QED BY <1>6, <2>1
<1>10. walk[N] \in G[N]
  <2>1. \A n \in 0 .. N : walk[n] \in G[n]
    BY <1>2, <1>4, <1>8, <1>9, LoopInduction
  <2>2. N \in 0 .. N
    BY <1>2
  <2> QED BY <2>1, <2>2
<1> DEFINE c == walk[N]
<1>11. c \in S /\ (parent[c[Len(c)]] = Transform!Null \/ Len(c) = N + 1)
  BY <1>2, <1>10 DEF G
<1> HIDE DEF c
<1>12. c \in Seq(Spatial) /\ \A i, j \in 1 .. Len(c) : c[i] = c[j] => i = j
  BY <1>11 DEF S, Walked
<1>13. Len(c) <= N
  <2> DEFINE I == 1 .. Len(c)
  <2>1. c \in Injection(I, Spatial)
    BY <1>12 DEF Injection, IsInjective
  <2>2. Cardinality(I) <= Cardinality(Spatial)
    <3> HIDE DEF I
    <3> QED BY <2>1, FS_Injection DEF SpatialAssumption
  <2>3. Cardinality(I) = Len(c)
    <3>1. 1 \in Int /\ Len(c) \in Int /\ Len(c) >= 0
      BY <1>12
    <3>2. Cardinality(1 .. Len(c)) = IF 1 > Len(c) THEN 0 ELSE Len(c) - 1 + 1
      BY ONLY <3>1, FS_Interval
    <3> QED BY ONLY <3>1, <3>2
  <2> QED BY <2>2, <2>3 DEF N
<1>14. parent[c[Len(c)]] = Transform!Null
  BY <1>2, <1>11, <1>12, <1>13
<1> QED BY <1>1, <1>11, <1>13, <1>14 DEF N, S, c

(* A parent that o does not lead to closes no circle. *)
LEMMA Attach ==
  ASSUME SpatialAssumption, NEW parent, NEW o, NEW p, Acyclic(parent), o \in Spatial, p \in Spatial \cup {Transform!Null},
         p # Transform!Null => o \notin ToSet(Transform!Chain(parent, p))
  PROVE  Acyclic([parent EXCEPT ![o] = p])
<1> DEFINE next == [parent EXCEPT ![o] = p]
<1>1. parent \in [Spatial -> Spatial \cup {Transform!Null}]
  BY DEF Acyclic
<1>2. next \in [Spatial -> Spatial \cup {Transform!Null}] /\ next[o] = p /\ \A e \in Spatial : e # o => next[e] = parent[e]
  BY <1>1
<1> HIDE DEF next
<1>3. ASSUME NEW S \in SUBSET Spatial, \A e \in S : next[e] \in S, S # {}
      PROVE  FALSE
  <2>1. CASE o \notin S
    <3>1. \A e \in S : parent[e] \in S
      BY <1>2, <1>3, <2>1
    <3> QED BY <1>3, <3>1 DEF Acyclic
  <2>2. CASE o \in S
    <3>1. p \in S /\ p \in Spatial /\ p # Transform!Null
      BY <1>2, <1>3, <2>2 DEF SpatialAssumption
    <3> DEFINE c == Transform!Chain(parent, p)
    <3>2. c \in Walked(parent, p) /\ parent[c[Len(c)]] = Transform!Null
      BY <3>1, ChainFacts
    <3>3. o \notin ToSet(c)
      BY <3>1
    <3> HIDE DEF c
    <3>4. /\ c \in Seq(Spatial) /\ Len(c) \in Nat /\ Len(c) >= 1 /\ c[1] = p
          /\ \A i \in 1 .. Len(c) - 1 : c[i + 1] = parent[c[i]]
      BY <3>2 DEF Walked
    <3>5. \A i \in 1 .. Len(c) : c[i] # o
      BY <3>3, <3>4 DEF ToSet
    <3> DEFINE T == {i \in Nat : i + 1 <= Len(c) => c[i + 1] \in S}
    <3>6. 0 \in T
      BY <3>1, <3>4
    <3>7. ASSUME NEW i \in Nat, i \in T
          PROVE  i + 1 \in T
      <4> SUFFICES ASSUME (i + 1) + 1 <= Len(c)
                   PROVE  c[(i + 1) + 1] \in S
        OBVIOUS
      <4>1. i + 1 \in 1 .. Len(c) /\ i + 1 \in 1 .. Len(c) - 1 /\ i + 1 <= Len(c)
        BY <3>4
      <4>2. c[i + 1] \in S /\ c[i + 1] # o /\ c[i + 1] \in Spatial
        BY <3>4, <3>5, <3>7, <4>1
      <4>3. parent[c[i + 1]] \in S
        BY <1>2, <1>3, <4>2
      <4> QED BY <3>4, <4>1, <4>3
    <3> HIDE DEF T
    <3>8. Nat \subseteq T
      BY <3>6, <3>7, Induction
    <3>9. c[Len(c)] \in S /\ c[Len(c)] # o
      <4>1. Len(c) - 1 \in Nat /\ (Len(c) - 1) + 1 = Len(c) /\ Len(c) \in 1 .. Len(c)
        BY <3>4
      <4>2. Len(c) - 1 \in T
        BY <3>8, <4>1
      <4> QED BY <3>5, <4>1, <4>2 DEF T
    <3>10. parent[c[Len(c)]] \in S
      BY <1>2, <1>3, <3>9
    <3> QED BY <3>2, <3>10 DEF SpatialAssumption
  <2> QED BY <2>1, <2>2
<1>4. Acyclic(next)
  BY <1>2, <1>3 DEF Acyclic
<1> QED BY <1>4 DEF next

(* Every call keeps the invariant. *)
LEMMA SpatialStep ==
  ASSUME SpatialAssumption, SpatialInv, Transform!Next
  PROVE  SpatialInv'
<1>1. /\ fault = "none" /\ rep = [parent |-> rep.parent] /\ Acyclic(rep.parent)
      /\ ref = Cardinality(Spatial) - 1
  BY DEF Transform!Next, SpatialInv
<1>2. PICK o \in Spatial :
        \/ \E p \in Spatial \cup {Transform!Null} : Transform!set_transform_parent(o, p)
        \/ Transform!reset_transform_parent(o) \/ Transform!initialize(o)
  BY DEF Transform!Next
<1>3. \A s : Transform!Range(s) = ToSet(s)
  BY Zenon DEF Transform!Range, ToSet
<1>4. ASSUME NEW p \in Spatial \cup {Transform!Null}, ~Transform!IsCyclic(o, p),
             rep' = [rep EXCEPT !.parent[o] = p], ref' = ref
      PROVE  SpatialInv'
  <2>1. p # Transform!Null => o \notin ToSet(Transform!Chain(rep.parent, p))
    BY <1>3, <1>4 DEF Transform!IsCyclic
  <2>2. Acyclic([rep.parent EXCEPT ![o] = p])
    BY <1>1, <2>1, Attach
  <2>3. rep' = [parent |-> [rep.parent EXCEPT ![o] = p]]
    BY <1>1, <1>4
  <2> QED BY <1>1, <1>4, <2>2, <2>3 DEF SpatialInv
<1>5. ASSUME NEW p \in Spatial \cup {Transform!Null}, Transform!set_transform_parent(o, p)
      PROVE  SpatialInv'
  <2>1. CASE Transform!IsCyclic(o, p)
    <3> DEFINE q == Transform!Null
    <3>1. ~Transform!IsCyclic(o, q)
      BY DEF Transform!IsCyclic
    <3>2. q \in Spatial \cup {Transform!Null} /\ rep' = [rep EXCEPT !.parent[o] = q] /\ ref' = ref
      BY <1>5, <2>1 DEF Transform!set_transform_parent
    <3> HIDE DEF q
    <3> QED BY ONLY <1>4, <3>1, <3>2
  <2>2. CASE ~Transform!IsCyclic(o, p)
    BY <1>4, <1>5, <2>2 DEF Transform!set_transform_parent
  <2> QED BY <2>1, <2>2
<1>6. ASSUME Transform!reset_transform_parent(o)
      PROVE  SpatialInv'
  <2> DEFINE p == FindParent[o]
  <2>1. p \in Spatial \cup {Transform!Null}
    BY DEF SpatialAssumption
  <2>2. CASE Transform!IsCyclic(o, p)
    BY <1>6, <2>2 DEF Transform!reset_transform_parent, SpatialInv
  <2>3. CASE ~Transform!IsCyclic(o, p)
    BY <1>4, <1>6, <2>1, <2>3 DEF Transform!reset_transform_parent
  <2> QED BY <2>2, <2>3
<1> QED BY <1>2, <1>5, <1>6 DEF Transform!initialize

(* Spatial objects, any number of them: the chain of parents of each ends,   *)
(* after at most as many steps as there are objects, whatever parents are    *)
(* set and refused; until reset_transform_parent closes a circle.            *)
THEOREM SpatialHolds ==
  SpatialAssumption => (Transform!Spec => []Transform!ObjectsSound)
<1> SUFFICES ASSUME SpatialAssumption
             PROVE  Transform!Spec => []Transform!ObjectsSound
  OBVIOUS
<1>1. ASSUME Transform!Init
      PROVE  SpatialInv
  <2> DEFINE parent == [o \in Spatial |-> Transform!Null]
  <2>1. rep = [parent |-> parent] /\ ref = Transform!Cardinality(Spatial) - 1
    BY <1>1 DEF Transform!Init
  <2>2. Transform!Cardinality(Spatial) = Cardinality(Spatial)
    BY ONLY Zenon DEF Transform!Cardinality, Cardinality
  <2>3. Acyclic(parent)
    BY DEF Acyclic, SpatialAssumption
  <2> HIDE DEF parent
  <2> QED BY <2>1, <2>2, <2>3 DEF SpatialInv
<1>2. SpatialInv /\ [Transform!Next]_Transform!vars => SpatialInv'
  <2>1. CASE Transform!Next
    BY <2>1, SpatialStep
  <2>2. CASE UNCHANGED Transform!vars
    BY <2>2 DEF Transform!vars, SpatialInv
  <2> QED BY <2>1, <2>2
<1>3. ASSUME SpatialInv
      PROVE  Transform!ObjectsSound
  <2> SUFFICES ASSUME fault = "none", NEW o \in Spatial
               PROVE  LET chain == Transform!transform(o)
                      IN  /\ rep.parent[chain[Len(chain)]] = Transform!Null
                          /\ Transform!IsInjective(chain) /\ Len(chain) <= ref + 1
    BY DEF Transform!ObjectsSound
  <2> DEFINE c == Transform!Chain(rep.parent, o)
  <2>1. Acyclic(rep.parent) /\ ref = Cardinality(Spatial) - 1
    BY <1>3 DEF SpatialInv
  <2>2. /\ c \in Walked(rep.parent, o) /\ rep.parent[c[Len(c)]] = Transform!Null
        /\ Len(c) <= Cardinality(Spatial)
    BY <2>1, ChainFacts
  <2>3. Transform!transform(o) = c
    BY DEF Transform!transform
  <2> HIDE DEF c
  <2>4. Cardinality(Spatial) \in Nat
    BY FS_CardinalityType DEF SpatialAssumption
  <2>5. Transform!IsInjective(c)
    BY <2>2 DEF Walked, Transform!IsInjective
  <2>6. Len(c) <= ref + 1
    BY <2>1, <2>2, <2>4 DEF Walked
  <2> QED BY <2>2, <2>3, <2>5, <2>6
<1> QED BY <1>1, <1>2, <1>3, PTL DEF Transform!Spec

-----------------------------------------------------------------------------
(* Sets and queues. Both are in order, a set strictly, and a queue has each *)
(* value as often as it should.                                             *)
Ordered(s) == \A i, j \in 1 .. Len(s) : i <= j => s[i] <= s[j]
Times(s, v) == {i \in 1 .. Len(s) : s[i] = v}

SetOf(s, u) ==
    /\ s \in Seq(Keys) /\ u = {s[i] : i \in 1 .. Len(s)}
    /\ \A i, j \in 1 .. Len(s) : i < j => s[i] < s[j]

QueueOf(s, count) ==
    /\ s \in Seq(Keys) /\ Ordered(s)
    /\ count \in [Keys -> Nat] /\ \A v \in Keys : count[v] = Cardinality(Times(s, v))

SortedInv ==
    fault = "none" =>
      /\ rep = [set |-> rep.set, queue |-> rep.queue]
      /\ ref = [set |-> ref.set, queue |-> ref.queue]
      /\ SetOf(rep.set, ref.set) /\ QueueOf(rep.queue, ref.queue)

(* Elements are numbers. *)
LEMMA SortedElements ==
  ASSUME Keys \subseteq Nat, NEW s, s \in Seq(Keys)
  PROVE  Len(s) \in Nat /\ \A i \in 1 .. Len(s) : s[i] \in Nat
<1>1. Len(s) \in Nat /\ \A i \in 1 .. Len(s) : s[i] \in Keys
  OBVIOUS
<1> QED BY <1>1

(* Before the range everything is less than the key, behind it nothing is. *)
Enclosed(s, key, r) ==
    /\ r[1] <= r[2]
    /\ \A i \in 1 .. r[1] : s[i] < key
    /\ \A i \in r[2] + 1 .. Len(s) : ~(s[i] < key)

(* A turn keeps that, and takes a place away if there is one. *)
LEMMA HalvedFacts ==
  ASSUME Keys \subseteq Nat, NEW s, NEW key \in Keys, NEW r, s \in Seq(Keys), Ordered(s),
         r \in (0 .. Len(s)) \X (0 .. Len(s)), Enclosed(s, key, r)
  PROVE  LET h == Sorted!Halved(s, key, r)
         IN  /\ h \in (0 .. Len(s)) \X (0 .. Len(s)) /\ Enclosed(s, key, h)
             /\ h[2] - h[1] <= IF r[1] = r[2] THEN 0 ELSE r[2] - r[1] - 1
<1> DEFINE n == Len(s)
           mid == (r[1] + r[2]) \div 2
<1>1. /\ n \in Nat /\ r[1] \in 0 .. n /\ r[2] \in 0 .. n /\ r[1] <= r[2]
      /\ \A i \in 1 .. n : s[i] \in Nat
  BY SortedElements DEF Enclosed
<1>2. CASE r[1] = r[2]
  <2>1. Sorted!Halved(s, key, r) = r
    BY <1>2, Zenon DEF Sorted!Halved
  <2> QED BY <1>1, <1>2, <2>1
<1>3. CASE r[1] # r[2]
  <2>1. mid \in Nat /\ r[1] <= mid /\ mid < r[2] /\ mid + 1 \in 1 .. n
    BY <1>1, <1>3
  <2> HIDE DEF mid
  <2>2. Sorted!Halved(s, key, r) = IF s[mid + 1] < key THEN <<mid + 1, r[2]>> ELSE <<r[1], mid>>
    BY <1>3, Zenon DEF Sorted!Halved, mid
  <2>3. \A i \in 1 .. mid + 1 : i \in 1 .. n /\ s[i] <= s[mid + 1]
    BY <1>1, <2>1 DEF Ordered
  <2>4. \A i \in mid + 1 .. n : i \in 1 .. n /\ s[mid + 1] <= s[i]
    BY <1>1, <2>1 DEF Ordered
  <2>5. key \in Nat
    OBVIOUS
  <2>6. CASE s[mid + 1] < key
    <3> DEFINE h == <<mid + 1, r[2]>>
    <3>1. h[1] = mid + 1 /\ h[2] = r[2] /\ h \in (0 .. n) \X (0 .. n)
      BY <1>1, <2>1
    <3>2. \A i \in 1 .. mid + 1 : s[i] < key
      BY <1>1, <2>1, <2>3, <2>5, <2>6
    <3>3. Enclosed(s, key, h)
      BY <1>1, <2>1, <3>1, <3>2 DEF Enclosed
    <3>4. Sorted!Halved(s, key, r) = h
      BY <2>2, <2>6
    <3>5. h[2] - h[1] <= r[2] - r[1] - 1
      BY <1>1, <2>1, <3>1
    <3> HIDE DEF h, n
    <3> QED BY <1>3, <3>1, <3>3, <3>4, <3>5 DEF n
  <2>7. CASE ~(s[mid + 1] < key)
    <3> DEFINE h == <<r[1], mid>>
    <3>1. h[1] = r[1] /\ h[2] = mid /\ h \in (0 .. n) \X (0 .. n)
      BY <1>1, <2>1
    <3>2. \A i \in mid + 1 .. n : ~(s[i] < key)
      BY <1>1, <2>1, <2>4, <2>5, <2>7
    <3>3. Enclosed(s, key, h)
      BY <1>1, <2>1, <3>1, <3>2 DEF Enclosed
    <3>4. Sorted!Halved(s, key, r) = h
      BY <2>2, <2>7
    <3>5. h[2] - h[1] <= r[2] - r[1] - 1
      BY <1>1, <2>1, <3>1
    <3> HIDE DEF h, n
    <3> QED BY <1>3, <3>1, <3>3, <3>4, <3>5 DEF n
  <2> QED BY <2>6, <2>7
<1> QED BY <1>2, <1>3

(* lower_bound finds the place: what is less lies before, the rest behind. *)
LEMMA LowerBoundFacts ==
  ASSUME Keys \subseteq Nat, NEW s, NEW key \in Keys, s \in Seq(Keys), Ordered(s)
  PROVE  /\ Sorted!lower_bound(s, key) \in 0 .. Len(s)
         /\ \A i \in 1 .. Sorted!lower_bound(s, key) : s[i] < key
         /\ \A i \in Sorted!lower_bound(s, key) + 1 .. Len(s) : ~(s[i] < key)
<1> DEFINE N == Len(s)
           S == (0 .. N) \X (0 .. N)
           G == [n \in 0 .. N |-> {r \in S : Enclosed(s, key, r) /\ r[2] - r[1] <= N - n}]
           one == <<0, N>>
           turn[n \in 0 .. N] == IF n = 0 THEN one ELSE Sorted!Halved(s, key, turn[n - 1])
<1>1. Sorted!lower_bound(s, key) = turn[N][1]
  BY Zenon DEF Sorted!lower_bound
<1> HIDE DEF turn
<1>2. N \in Nat
  OBVIOUS
<1>3. one \in S /\ one[1] = 0 /\ one[2] = N
  BY <1>2
<1>4. one \in G[0]
  BY <1>2, <1>3 DEF Enclosed
<1>5. \A n \in 0 .. N : G[n] \subseteq S
  OBVIOUS
<1>6. ASSUME NEW n \in 1 .. N, NEW r \in G[n - 1]
      PROVE  Sorted!Halved(s, key, r) \in G[n]
  <2>1. n - 1 \in 0 .. N /\ n \in 0 .. N
    BY <1>2
  <2>2. r \in S /\ Enclosed(s, key, r) /\ r[2] - r[1] <= N - (n - 1)
    BY <1>6, <2>1
  <2> DEFINE h == Sorted!Halved(s, key, r)
  <2>3. /\ h \in S /\ Enclosed(s, key, h)
        /\ h[2] - h[1] <= IF r[1] = r[2] THEN 0 ELSE r[2] - r[1] - 1
    BY <2>2, HalvedFacts
  <2> HIDE DEF h
  <2>4. h[1] \in 0 .. N /\ h[2] \in 0 .. N /\ r[1] \in 0 .. N /\ r[2] \in 0 .. N
    BY <2>2, <2>3
  <2>5. h[2] - h[1] <= N - n
    BY <1>2, <2>1, <2>2, <2>3, <2>4
  <2> HIDE DEF N, S
  <2>6. h \in G[n]
    BY <2>1, <2>3, <2>5
  <2> QED BY <2>6 DEF h
<1> HIDE DEF N, S, G, one
<1>7. turn = [n \in 0 .. N |-> IF n = 0 THEN one ELSE Sorted!Halved(s, key, turn[n - 1])]
  <2> DEFINE step == [x \in (1 .. N) \X S |-> Sorted!Halved(s, key, x[2])]
  <2>1. \A n \in 1 .. N, r \in S : step[<<n, r>>] = Sorted!Halved(s, key, r)
    OBVIOUS
  <2> HIDE DEF step
  <2>2. \A n \in 1 .. N : n \in 0 .. N /\ n - 1 \in 0 .. N
    BY <1>2
  <2>3. LoopSteps(N, S, G, one, step)
    BY <1>2, <1>4, <1>5, <1>6, <2>1, <2>2 DEF LoopSteps
  <2>4. PICK f \in [0 .. N -> S] : f[0] = one /\ \A n \in 1 .. N : f[n] = step[<<n, f[n - 1]>>]
    BY <2>3, Recursion DEF LoopRuns
  <2>5. \A n \in 1 .. N : f[n] = Sorted!Halved(s, key, f[n - 1])
    BY <2>1, <2>2, <2>4
  <2>6. f = [n \in 0 .. N |-> IF n = 0 THEN one ELSE Sorted!Halved(s, key, f[n - 1])]
    BY <1>2, <2>4, <2>5
  <2> QED BY <2>6, Zenon DEF turn
<1>8. turn[0] = one /\ \A n \in 0 .. N - 1 : turn[n + 1] = Sorted!Halved(s, key, turn[n])
  <2>1. \A n \in 0 .. N - 1 : n + 1 \in 0 .. N /\ n + 1 # 0 /\ (n + 1) - 1 = n
    BY <1>2
  <2>2. 0 \in 0 .. N
    BY <1>2
  <2> QED BY <1>7, <2>1, <2>2
<1>9. \A n \in 0 .. N - 1 : turn[n] \in G[n] => turn[n + 1] \in G[n + 1]
  <2> SUFFICES ASSUME NEW n \in 0 .. N - 1, turn[n] \in G[n]
               PROVE  Sorted!Halved(s, key, turn[n]) \in G[n + 1]
    BY <1>8
  <2>1. n + 1 \in 1 .. N /\ (n + 1) - 1 = n
    BY <1>2
  <2> QED BY <1>6, <2>1
<1>10. turn[N] \in G[N]
  <2>1. \A n \in 0 .. N : turn[n] \in G[n]
    BY <1>2, <1>4, <1>8, <1>9, LoopInduction
  <2>2. N \in 0 .. N
    BY <1>2
  <2> QED BY <2>1, <2>2
<1> DEFINE r == turn[N]
<1>11. r \in S /\ Enclosed(s, key, r) /\ r[2] - r[1] <= 0
  BY <1>2, <1>10 DEF G
<1> HIDE DEF r
<1>12. r[1] \in 0 .. N /\ r[2] = r[1]
  BY <1>2, <1>11 DEF S, Enclosed
<1> QED BY <1>1, <1>11, <1>12 DEF N, r, Enclosed

(* t is s with e in it at p. *)
OneMore(s, t, p, e) ==
    /\ s \in Seq(Keys) /\ t \in Seq(Keys) /\ Len(t) = Len(s) + 1
    /\ p \in 1 .. Len(t) /\ t[p] = e
    /\ \A i \in 1 .. Len(s) : s[i] = t[IF i < p THEN i ELSE i + 1]

(* The places of a value in one are those in the other, and p if it is e. *)
LEMMA OneMoreTimes ==
  ASSUME NEW s, NEW t, NEW p, NEW e, NEW v, OneMore(s, t, p, e)
  PROVE  /\ Cardinality(Times(s, v)) \in Nat
         /\ Cardinality(Times(t, v)) = Cardinality(Times(s, v)) + IF v = e THEN 1 ELSE 0
<1> DEFINE A == Times(s, v)
           B == Times(t, v)
           C == B \ {p}
           f == [i \in A |-> IF i < p THEN i ELSE i + 1]
<1>1. /\ Len(s) \in Nat /\ Len(t) = Len(s) + 1 /\ p \in 1 .. Len(s) + 1 /\ t[p] = e
      /\ \A i \in 1 .. Len(s) : s[i] = t[IF i < p THEN i ELSE i + 1]
  BY DEF OneMore
<1>2. \A i \in A : i \in 1 .. Len(s) /\ s[i] = v
  BY DEF Times
<1>3. \A i \in A : f[i] \in C
  BY <1>1, <1>2 DEF Times
<1>4. \A i, j \in A : f[i] = f[j] => i = j
  BY <1>1, <1>2
<1>5. ASSUME NEW j \in C
      PROVE  \E i \in A : f[i] = j
  <2>1. j \in 1 .. Len(s) + 1 /\ t[j] = v /\ j # p
    BY <1>1 DEF Times
  <2> DEFINE i == IF j < p THEN j ELSE j - 1
  <2>2. i \in 1 .. Len(s) /\ (IF i < p THEN i ELSE i + 1) = j
    BY <1>1, <2>1
  <2> HIDE DEF i
  <2>3. s[i] = v
    BY <1>1, <2>1, <2>2
  <2>4. i \in A
    BY <2>2, <2>3 DEF Times
  <2> HIDE DEF A
  <2> QED BY <2>2, <2>4
<1>6. IsFiniteSet(A) /\ IsFiniteSet(B)
  <2>1. IsFiniteSet(1 .. Len(s)) /\ IsFiniteSet(1 .. Len(t))
    <3>1. 1 \in Int /\ Len(s) \in Int /\ Len(t) \in Int
      BY <1>1
    <3> QED BY ONLY <3>1, FS_Interval
  <2>2. A \subseteq 1 .. Len(s) /\ B \subseteq 1 .. Len(t)
    BY DEF Times
  <2> HIDE DEF A, B
  <2> QED BY <2>1, <2>2, FS_Subset
<1>7. p \in B <=> v = e
  BY <1>1 DEF Times
<1> HIDE DEF A, B
<1>8. ExistsBijection(A, C)
  <2>1. f \in Bijection(A, C)
    BY <1>3, <1>4, <1>5 DEF Bijection, Injection, Surjection, IsInjective
  <2> QED BY <2>1 DEF ExistsBijection
<1>9. Cardinality(C) = Cardinality(A)
  <2> HIDE DEF C
  <2> QED BY <1>6, <1>8, FS_Bijection
<1>10. Cardinality(C) = IF p \in B THEN Cardinality(B) - 1 ELSE Cardinality(B)
  BY <1>6, FS_RemoveElement
<1>11. Cardinality(A) \in Nat /\ Cardinality(B) \in Nat
  BY <1>6, FS_CardinalityType
<1> HIDE DEF C
<1>12. Cardinality(B) = Cardinality(A) + IF v = e THEN 1 ELSE 0
  BY <1>7, <1>9, <1>10, <1>11
<1> QED BY <1>11, <1>12 DEF A, B

(* insert puts the element where it belongs. *)
LEMMA SortedInsertFacts ==
  ASSUME Keys \subseteq Nat, NEW s, NEW e \in Keys, s \in Seq(Keys), Ordered(s)
  PROVE  \E p \in 1 .. Len(s) + 1 :
           /\ OneMore(s, Sorted!insert(s, e), p, e)
           /\ \A i \in 1 .. p - 1 : s[i] < e
           /\ \A i \in p .. Len(s) : e <= s[i]
<1> DEFINE at == Sorted!lower_bound(s, e)
           one == <<e>>
           t == Memory!Inserted(s, at, one)
<1>1. /\ at \in 0 .. Len(s)
      /\ \A i \in 1 .. at : s[i] < e
      /\ \A i \in at + 1 .. Len(s) : ~(s[i] < e)
  BY LowerBoundFacts
<1>2. Sorted!insert(s, e) = t
  BY Zenon DEF Sorted!insert, Sorted!Inserted, Memory!Inserted
<1> HIDE DEF at
<1>3. one \in Seq(Keys) /\ Len(one) = 1 /\ one[1] = e
  OBVIOUS
<1> HIDE DEF one
<1>4. /\ t \in Seq(Keys) /\ Len(t) = Len(s) + 1
      /\ \A j \in 1 .. Len(s) + 1 : t[j] = IF j <= at THEN s[j] ELSE IF j <= at + 1 THEN one[j - at] ELSE s[j - 1]
  <2>1. /\ t \in Seq(Keys) /\ Len(t) = Len(s) + Len(one)
        /\ \A j \in 1 .. Len(s) + Len(one) :
             t[j] = IF j <= at THEN s[j] ELSE IF j <= at + Len(one) THEN one[j - at] ELSE s[j - Len(one)]
    <3>1. s \in Seq(Keys) /\ one \in Seq(Keys) /\ at \in 0 .. Len(s)
      BY <1>1, <1>3
    <3> QED BY ONLY <3>1, InsertedFacts
  <2> HIDE DEF t
  <2> QED BY <1>3, <2>1
<1> HIDE DEF t
<1>5. Len(s) \in Nat /\ \A i \in 1 .. Len(s) : s[i] \in Nat
  BY ONLY SortedElements, Keys \subseteq Nat, s \in Seq(Keys)
<1>6. t[at + 1] = e
  BY <1>1, <1>3, <1>4, <1>5
<1>7. \A i \in 1 .. Len(s) : s[i] = t[IF i < at + 1 THEN i ELSE i + 1]
  BY <1>1, <1>4, <1>5
<1>8. OneMore(s, t, at + 1, e)
  BY <1>1, <1>4, <1>5, <1>6, <1>7 DEF OneMore
<1>9. e \in Nat
  OBVIOUS
<1>10. (\A i \in 1 .. (at + 1) - 1 : s[i] < e) /\ (\A i \in at + 1 .. Len(s) : e <= s[i])
  BY <1>1, <1>5, <1>9
<1>11. at + 1 \in 1 .. Len(s) + 1
  BY <1>1, <1>5
<1> QED BY <1>2, <1>8, <1>10, <1>11

(* Something more in its place leaves the order, and so does less. *)
LEMMA OneMoreOrder ==
  ASSUME Keys \subseteq Nat, NEW s, NEW t, NEW p, NEW e, OneMore(s, t, p, e)
  PROVE  /\ Ordered(t) => Ordered(s)
         /\ Ordered(s) /\ (\A i \in 1 .. p - 1 : s[i] < e) /\ (\A i \in p .. Len(s) : e <= s[i]) => Ordered(t)
<1>1. /\ Len(s) \in Nat /\ Len(t) = Len(s) + 1 /\ p \in 1 .. Len(s) + 1 /\ t[p] = e
      /\ \A i \in 1 .. Len(s) : s[i] = t[IF i < p THEN i ELSE i + 1]
  BY DEF OneMore
<1>2. ASSUME Ordered(t), NEW i \in 1 .. Len(s), NEW j \in 1 .. Len(s), i <= j
      PROVE  s[i] <= s[j]
  <2> DEFINE f(k) == IF k < p THEN k ELSE k + 1
  <2>1. f(i) \in 1 .. Len(t) /\ f(j) \in 1 .. Len(t) /\ f(i) <= f(j)
    BY <1>1, <1>2
  <2>2. s[i] = t[f(i)] /\ s[j] = t[f(j)]
    BY <1>1
  <2> HIDE DEF f
  <2> QED BY <1>2, <2>1, <2>2 DEF Ordered
<1>3. \A k \in 1 .. Len(t) : t[k] = IF k < p THEN s[k] ELSE IF k = p THEN e ELSE s[k - 1]
  <2> SUFFICES ASSUME NEW k \in 1 .. Len(t)
               PROVE  t[k] = IF k < p THEN s[k] ELSE IF k = p THEN e ELSE s[k - 1]
    OBVIOUS
  <2>1. CASE k < p
    BY ONLY <1>1, <2>1, k \in 1 .. Len(t)
  <2>2. CASE k > p
    <3>1. k - 1 \in 1 .. Len(s) /\ ~(k - 1 < p) /\ (k - 1) + 1 = k
      BY ONLY <1>1, <2>2, k \in 1 .. Len(t)
    <3>2. s[k - 1] = t[IF k - 1 < p THEN k - 1 ELSE (k - 1) + 1]
      BY ONLY <1>1, <3>1
    <3> QED BY ONLY <1>1, <2>2, <3>1, <3>2
  <2> QED BY <1>1, <2>1, <2>2
<1>4. \A k \in 1 .. Len(t) : t[k] \in Nat
  <2>1. t \in Seq(Keys)
    BY DEF OneMore
  <2> QED BY ONLY SortedElements, Keys \subseteq Nat, <2>1
<1>5. ASSUME Ordered(s), \A i \in 1 .. p - 1 : s[i] < e, \A i \in p .. Len(s) : e <= s[i],
             NEW i \in 1 .. Len(t), NEW j \in 1 .. Len(t), i <= j
      PROVE  t[i] <= t[j]
  <2>1. e \in Nat /\ \A k \in 1 .. Len(s) : s[k] \in Nat
    BY <1>1, <1>4 DEF OneMore
  <2>2. CASE i < p /\ j < p
    BY <1>1, <1>3, <1>5, <2>2 DEF Ordered
  <2>3. CASE i < p /\ j = p
    BY <1>1, <1>3, <1>5, <2>1, <2>3
  <2>4. CASE i < p /\ j > p
    <3>1. i \in 1 .. Len(s) /\ j - 1 \in 1 .. Len(s) /\ i <= j - 1
      BY <1>1, <2>4
    <3> QED BY <1>1, <1>3, <1>5, <2>4, <3>1 DEF Ordered
  <2>5. CASE i = p /\ j = p
    BY <1>1, <1>4, <2>5
  <2>6. CASE i = p /\ j > p
    <3>1. j - 1 \in p .. Len(s)
      BY <1>1, <2>6
    <3> QED BY <1>1, <1>3, <1>5, <2>6, <3>1
  <2>7. CASE i > p
    <3>1. i - 1 \in 1 .. Len(s) /\ j - 1 \in 1 .. Len(s) /\ i - 1 <= j - 1 /\ j > p
      BY <1>1, <1>5, <2>7
    <3>2. s[i - 1] <= s[j - 1]
      BY <1>5, <3>1 DEF Ordered
    <3> QED BY <1>1, <1>3, <2>7, <3>1, <3>2
  <2> QED BY <1>1, <1>5, <2>2, <2>3, <2>4, <2>5, <2>6, <2>7
<1> QED BY <1>2, <1>5 DEF Ordered

(* What find returns. *)
LEMMA SortedFindFacts ==
  ASSUME Keys \subseteq Nat, NEW s, NEW v \in Keys, s \in Seq(Keys), Ordered(s)
  PROVE  /\ Sorted!find(s, v) \in 0 .. Len(s)
         /\ Sorted!find(s, v) < Len(s) => s[Sorted!find(s, v) + 1] = v
         /\ (Sorted!find(s, v) < Len(s)) <=> \E i \in 1 .. Len(s) : s[i] = v
<1> DEFINE at == Sorted!lower_bound(s, v)
<1>1. /\ at \in 0 .. Len(s)
      /\ \A i \in 1 .. at : s[i] < v
      /\ \A i \in at + 1 .. Len(s) : ~(s[i] < v)
  BY LowerBoundFacts
<1>2. Sorted!find(s, v) = IF at < Len(s) /\ s[at + 1] = v THEN at ELSE Len(s)
  BY DEF Sorted!find
<1> HIDE DEF at
<1>3. Len(s) \in Nat /\ v \in Nat /\ \A i \in 1 .. Len(s) : s[i] \in Nat
  BY ONLY SortedElements, Keys \subseteq Nat, s \in Seq(Keys), v \in Keys
<1>4. ASSUME NEW i \in 1 .. Len(s), s[i] = v
      PROVE  at < Len(s) /\ s[at + 1] = v
  <2>1. at < i
    BY <1>1, <1>3, <1>4
  <2>2. at + 1 \in 1 .. Len(s) /\ at + 1 <= i /\ at + 1 \in at + 1 .. Len(s)
    BY <1>1, <1>3, <2>1
  <2>3. s[at + 1] <= s[i]
    BY <2>2 DEF Ordered
  <2> QED BY <1>1, <1>3, <1>4, <2>2, <2>3
<1>5. at < Len(s) => at + 1 \in 1 .. Len(s)
  BY <1>1, <1>3
<1> QED BY <1>1, <1>2, <1>3, <1>4, <1>5

(* An insertion and a removal, for a set and for a queue. *)
LEMMA SetGains ==
  ASSUME Keys \subseteq Nat, NEW s, NEW u, NEW v \in Keys, SetOf(s, u), v \notin u
  PROVE  SetOf(Sorted!insert(s, v), u \cup {v})
<1>1. s \in Seq(Keys) /\ u = {s[i] : i \in 1 .. Len(s)} /\ \A i, j \in 1 .. Len(s) : i < j => s[i] < s[j]
  BY DEF SetOf
<1>2. Len(s) \in Nat /\ \A i \in 1 .. Len(s) : s[i] \in Nat
  BY <1>1, SortedElements
<1>3. Ordered(s)
  BY <1>1, <1>2 DEF Ordered
<1> DEFINE t == Sorted!insert(s, v)
<1>4. PICK p \in 1 .. Len(s) + 1 : /\ OneMore(s, t, p, v)
                                   /\ \A i \in 1 .. p - 1 : s[i] < v
                                   /\ \A i \in p .. Len(s) : v <= s[i]
  BY <1>1, <1>3, SortedInsertFacts
<1> HIDE DEF t
<1>5. /\ t \in Seq(Keys) /\ Len(t) = Len(s) + 1 /\ t[p] = v
      /\ \A i \in 1 .. Len(s) : s[i] = t[IF i < p THEN i ELSE i + 1]
  BY <1>4 DEF OneMore
<1>6. \A k \in 1 .. Len(t) : t[k] \in Nat
  BY <1>5, SortedElements
<1>7. Ordered(t)
  BY <1>3, <1>4, OneMoreOrder
<1>8. \A i \in 1 .. Len(s) : s[i] # v
  BY <1>1
<1>9. \A k \in 1 .. Len(t) : k # p => t[k] = s[IF k < p THEN k ELSE k - 1] /\ (IF k < p THEN k ELSE k - 1) \in 1 .. Len(s)
  <2> SUFFICES ASSUME NEW k \in 1 .. Len(t), k # p
               PROVE  t[k] = s[IF k < p THEN k ELSE k - 1] /\ (IF k < p THEN k ELSE k - 1) \in 1 .. Len(s)
    OBVIOUS
  <2>1. CASE k < p
    BY <1>2, <1>4, <1>5, <2>1
  <2>2. CASE ~(k < p)
    <3>1. k - 1 \in 1 .. Len(s) /\ ~(k - 1 < p) /\ (k - 1) + 1 = k
      BY <1>2, <1>4, <1>5, <2>2
    <3> QED BY <1>5, <2>2, <3>1
  <2> QED BY <2>1, <2>2
<1>10. ASSUME NEW i \in 1 .. Len(t), NEW j \in 1 .. Len(t), i < j
       PROVE  t[i] < t[j]
  <2>1. t[i] <= t[j]
    BY <1>2, <1>5, <1>7, <1>10 DEF Ordered
  <2>2. t[i] # t[j]
    <3>1. CASE i = p \/ j = p
      BY <1>5, <1>8, <1>9, <1>10, <3>1
    <3>2. CASE i # p /\ j # p
      <4> DEFINE f(k) == IF k < p THEN k ELSE k - 1
      <4>1. f(i) < f(j)
        BY <1>2, <1>4, <1>5, <1>10, <3>2
      <4>2. t[i] = s[f(i)] /\ t[j] = s[f(j)] /\ f(i) \in 1 .. Len(s) /\ f(j) \in 1 .. Len(s)
        BY <1>9, <3>2
      <4> HIDE DEF f
      <4>3. s[f(i)] < s[f(j)]
        BY <1>1, <4>1, <4>2
      <4>4. s[f(i)] \in Nat /\ s[f(j)] \in Nat
        BY <1>2, <4>2
      <4> QED BY <4>2, <4>3, <4>4
    <3> QED BY <3>1, <3>2
  <2> QED BY <1>6, <2>1, <2>2
<1>11. u \cup {v} = {t[i] : i \in 1 .. Len(t)}
  <2>1. \A i \in 1 .. Len(s) : \E k \in 1 .. Len(t) : s[i] = t[k]
    BY <1>2, <1>4, <1>5
  <2>2. p \in 1 .. Len(t)
    BY <1>4, <1>5
  <2>3. \A k \in 1 .. Len(t) : t[k] = v \/ \E i \in 1 .. Len(s) : t[k] = s[i]
    BY <1>5, <1>9
  <2> QED BY <1>1, <1>5, <2>1, <2>2, <2>3
<1> QED BY <1>5, <1>10, <1>11 DEF SetOf, t

(* The place of an element, and the sequence without it. *)
LEMMA SortedRemovedFacts ==
  ASSUME NEW s, NEW i, s \in Seq(Keys), i \in 1 .. Len(s)
  PROVE  OneMore(Sorted!Removed(s, i), s, i, s[i])
<1> DEFINE r == RemoveAt(s, i)
<1>1. Sorted!Removed(s, i) = r
  BY Zenon DEF Sorted!Removed, RemoveAt
<1>2. /\ r \in Seq(Keys) /\ Len(r) = Len(s) - 1
      /\ \A j \in 1 .. Len(s) - 1 : r[j] = IF j < i THEN s[j] ELSE s[j + 1]
  BY RemoveAtFacts
<1> HIDE DEF r
<1>3. Len(s) \in Nat
  OBVIOUS
<1>4. \A j \in 1 .. Len(r) : r[j] = s[IF j < i THEN j ELSE j + 1]
  BY <1>2, <1>3
<1>5. Len(s) = Len(r) + 1
  BY <1>2, <1>3
<1> QED BY <1>1, <1>2, <1>4, <1>5 DEF OneMore

(* Erasing takes one element out of the set, and from its order. *)
LEMMA SetLoses ==
  ASSUME Keys \subseteq Nat, NEW s, NEW u, NEW p, SetOf(s, u), p \in 1 .. Len(s)
  PROVE  SetOf(Sorted!Removed(s, p), u \ {s[p]})
<1>1. s \in Seq(Keys) /\ u = {s[i] : i \in 1 .. Len(s)} /\ \A i, j \in 1 .. Len(s) : i < j => s[i] < s[j]
  BY DEF SetOf
<1>2. Len(s) \in Nat /\ \A i \in 1 .. Len(s) : s[i] \in Nat
  BY <1>1, SortedElements
<1> DEFINE t == Sorted!Removed(s, p)
           f(k) == IF k < p THEN k ELSE k + 1
<1>3. OneMore(t, s, p, s[p])
  BY <1>1, SortedRemovedFacts
<1> HIDE DEF t
<1>4. /\ t \in Seq(Keys) /\ Len(s) = Len(t) + 1 /\ Len(t) \in Nat
      /\ \A i \in 1 .. Len(t) : t[i] = s[f(i)]
  BY <1>3 DEF OneMore
<1>5. \A i \in 1 .. Len(t) : f(i) \in 1 .. Len(s) /\ f(i) # p
  BY <1>4
<1>6. \A i, j \in 1 .. Len(t) : i < j => f(i) < f(j)
  BY <1>4
<1>7. \A k \in 1 .. Len(s) : k # p => \E i \in 1 .. Len(t) : k = f(i)
  <2> SUFFICES ASSUME NEW k \in 1 .. Len(s), k # p
               PROVE  \E i \in 1 .. Len(t) : k = f(i)
    OBVIOUS
  <2>1. CASE k < p
    BY <1>4, <2>1
  <2>2. CASE ~(k < p)
    <3>1. k - 1 \in 1 .. Len(t) /\ f(k - 1) = k
      BY <1>4, <2>2
    <3> HIDE DEF f
    <3> QED BY <3>1
  <2> QED BY <2>1, <2>2
<1> HIDE DEF f
<1>8. \A i, j \in 1 .. Len(t) : i < j => t[i] < t[j]
  BY <1>1, <1>4, <1>5, <1>6
<1>9. \A k \in 1 .. Len(s) : s[k] = s[p] => k = p
  <2> SUFFICES ASSUME NEW k \in 1 .. Len(s), s[k] = s[p], k # p
               PROVE  FALSE
    OBVIOUS
  <2>1. k < p \/ p < k
    BY <1>2
  <2> QED BY <1>1, <1>2, <2>1
<1>10. u \ {s[p]} = {t[i] : i \in 1 .. Len(t)}
  <2>1. \A k \in 1 .. Len(s) : s[k] # s[p] => \E i \in 1 .. Len(t) : s[k] = t[i]
    BY <1>4, <1>7
  <2>2. \A i \in 1 .. Len(t) : t[i] # s[p] /\ \E k \in 1 .. Len(s) : t[i] = s[k]
    BY <1>4, <1>5, <1>9
  <2> QED BY <1>1, <2>1, <2>2
<1> QED BY <1>4, <1>8, <1>10 DEF SetOf, t

(* A queue counts what is put in once more. *)
LEMMA QueueGains ==
  ASSUME Keys \subseteq Nat, NEW s, NEW count, NEW v \in Keys, QueueOf(s, count)
  PROVE  QueueOf(Sorted!insert(s, v), [count EXCEPT ![v] = @ + 1])
<1>1. s \in Seq(Keys) /\ Ordered(s) /\ count \in [Keys -> Nat] /\ \A w \in Keys : count[w] = Cardinality(Times(s, w))
  BY DEF QueueOf
<1> DEFINE t == Sorted!insert(s, v)
           new == [count EXCEPT ![v] = @ + 1]
<1>2. PICK p \in 1 .. Len(s) + 1 : /\ OneMore(s, t, p, v)
                                   /\ \A i \in 1 .. p - 1 : s[i] < v
                                   /\ \A i \in p .. Len(s) : v <= s[i]
  BY <1>1, SortedInsertFacts
<1> HIDE DEF t
<1>3. Ordered(t)
  BY <1>1, <1>2, OneMoreOrder
<1>4. t \in Seq(Keys)
  BY <1>2 DEF OneMore
<1>5. \A w \in Keys : Cardinality(Times(t, w)) = count[w] + IF w = v THEN 1 ELSE 0
  BY <1>1, <1>2, OneMoreTimes
<1>6. new \in [Keys -> Nat] /\ \A w \in Keys : new[w] = count[w] + IF w = v THEN 1 ELSE 0
  BY <1>1
<1> HIDE DEF new
<1> QED BY <1>3, <1>4, <1>5, <1>6 DEF QueueOf, t, new

(* A queue counts what is taken out once less. *)
LEMMA QueueLoses ==
  ASSUME Keys \subseteq Nat, NEW s, NEW count, NEW p, QueueOf(s, count), p \in 1 .. Len(s)
  PROVE  /\ QueueOf(Sorted!Removed(s, p), [count EXCEPT ![s[p]] = @ - 1])
         /\ s[p] \in Keys
<1>1. s \in Seq(Keys) /\ Ordered(s) /\ count \in [Keys -> Nat] /\ \A w \in Keys : count[w] = Cardinality(Times(s, w))
  BY DEF QueueOf
<1> DEFINE t == Sorted!Removed(s, p)
           v == s[p]
           new == [count EXCEPT ![v] = @ - 1]
<1>2. OneMore(t, s, p, v)
  BY <1>1, SortedRemovedFacts
<1>3. v \in Keys
  BY <1>1
<1> HIDE DEF t, v
<1>4. Ordered(t)
  BY <1>1, <1>2, OneMoreOrder
<1>5. t \in Seq(Keys)
  BY <1>2 DEF OneMore
<1>6. \A w \in Keys : Cardinality(Times(t, w)) \in Nat /\ count[w] = Cardinality(Times(t, w)) + IF w = v THEN 1 ELSE 0
  BY <1>1, <1>2, OneMoreTimes
<1>7. \A w \in Keys : new[w] = Cardinality(Times(t, w))
  BY <1>1, <1>3, <1>6
<1>8. new \in [Keys -> Nat]
  <2>1. \A w \in Keys : new[w] \in Nat
    BY <1>6, <1>7
  <2>2. DOMAIN new = Keys /\ new = [w \in Keys |-> new[w]]
    BY <1>1
  <2> HIDE DEF new
  <2> QED BY <2>1, <2>2
<1> HIDE DEF new
<1>9. QueueOf(t, new)
  BY <1>4, <1>5, <1>7, <1>8 DEF QueueOf
<1> QED BY <1>3, <1>9 DEF t, v, new

(* A set is in order, as a queue is. *)
LEMMA SetIsOrdered ==
  ASSUME Keys \subseteq Nat, NEW s, NEW u, SetOf(s, u)
  PROVE  s \in Seq(Keys) /\ Ordered(s) /\ u = {s[i] : i \in 1 .. Len(s)}
<1>1. /\ s \in Seq(Keys) /\ \A i, j \in 1 .. Len(s) : i < j => s[i] < s[j]
      /\ u = {s[i] : i \in 1 .. Len(s)}
  BY DEF SetOf
<1>2. Len(s) \in Nat /\ \A i \in 1 .. Len(s) : s[i] \in Nat
  BY <1>1, SortedElements
<1> QED BY <1>1, <1>2 DEF Ordered

(* Each call keeps the invariant. *)
LEMMA SortedStep ==
  ASSUME Keys \subseteq Nat, SortedInv, Sorted!Next
  PROVE  SortedInv'
<1>1. /\ fault = "none" /\ SetOf(rep.set, ref.set) /\ QueueOf(rep.queue, ref.queue)
      /\ rep = [set |-> rep.set, queue |-> rep.queue] /\ ref = [set |-> ref.set, queue |-> ref.queue]
  BY DEF SortedInv, Sorted!Next
<1>2. /\ rep.set \in Seq(Keys) /\ rep.queue \in Seq(Keys) /\ Ordered(rep.set) /\ Ordered(rep.queue)
      /\ ref.set = {rep.set[i] : i \in 1 .. Len(rep.set)}
  BY <1>1, SetIsOrdered DEF QueueOf
<1>3. ASSUME NEW s, NEW u, SetOf(s, u), rep' = [rep EXCEPT !.set = s], ref' = [ref EXCEPT !.set = u]
      PROVE  SortedInv'
  <2>1. rep' = [set |-> s, queue |-> rep.queue] /\ ref' = [set |-> u, queue |-> ref.queue]
    BY <1>1, <1>3
  <2> QED BY <1>1, <1>3, <2>1 DEF SortedInv
<1>4. ASSUME NEW s, NEW c, QueueOf(s, c), rep' = [rep EXCEPT !.queue = s], ref' = [ref EXCEPT !.queue = c]
      PROVE  SortedInv'
  <2>1. rep' = [set |-> rep.set, queue |-> s] /\ ref' = [set |-> ref.set, queue |-> c]
    BY <1>1, <1>4
  <2> QED BY <1>1, <1>4, <2>1 DEF SortedInv
<1>5. CASE Sorted!SetInsert
  <2>1. PICK v \in Keys : /\ rep' = [rep EXCEPT !.set = Sorted!insert(@, v)]
                          /\ ref' = [ref EXCEPT !.set = @ \cup {v}]
                          /\ fault' = IF v \in ref.set THEN "element repeated" ELSE fault
    BY <1>5 DEF Sorted!SetInsert
  <2>2. CASE v \in ref.set
    BY <2>1, <2>2 DEF SortedInv
  <2>3. CASE v \notin ref.set
    <3>1. SetOf(Sorted!insert(rep.set, v), ref.set \cup {v})
      BY <1>1, <2>3, SetGains
    <3> QED BY <1>3, <2>1, <3>1
  <2> QED BY <2>2, <2>3
<1>6. CASE Sorted!SetErase
  <2>1. PICK v \in Keys : /\ Sorted!find(rep.set, v) < Len(rep.set)
                          /\ rep' = [rep EXCEPT !.set = Sorted!Removed(@, Sorted!find(rep.set, v) + 1)]
                          /\ ref' = [ref EXCEPT !.set = @ \ {v}]
    BY <1>6 DEF Sorted!SetErase
  <2> DEFINE p == Sorted!find(rep.set, v) + 1
  <2>2. p \in 1 .. Len(rep.set) /\ rep.set[p] = v
    <3> DEFINE at == Sorted!find(rep.set, v)
    <3>1. at \in 0 .. Len(rep.set) /\ rep.set[at + 1] = v
      BY <1>2, <2>1, SortedFindFacts
    <3>2. Len(rep.set) \in Nat /\ at < Len(rep.set)
      BY <1>2, <2>1
    <3> HIDE DEF at
    <3>3. at + 1 \in 1 .. Len(rep.set)
      BY <3>1, <3>2
    <3> QED BY <3>1, <3>3 DEF at
  <2> HIDE DEF p
  <2>3. SetOf(Sorted!Removed(rep.set, p), ref.set \ {v})
    BY <1>1, <2>2, SetLoses
  <2> QED BY <1>3, <2>1, <2>3 DEF p
<1>7. CASE Sorted!QueueInsert
  <2>1. PICK v \in Keys : /\ rep' = [rep EXCEPT !.queue = Sorted!insert(@, v)]
                          /\ ref' = [ref EXCEPT !.queue[v] = @ + 1]
    BY <1>7 DEF Sorted!QueueInsert
  <2>2. QueueOf(Sorted!insert(rep.queue, v), [ref.queue EXCEPT ![v] = @ + 1])
    BY <1>1, QueueGains
  <2>3. ref' = [ref EXCEPT !.queue = [ref.queue EXCEPT ![v] = @ + 1]]
    BY <2>1
  <2> QED BY <1>4, <2>1, <2>2, <2>3
<1>8. CASE Sorted!QueuePop
  <2> DEFINE n == Len(rep.queue)
             v == rep.queue[n]
  <2>1. /\ rep.queue # <<>>
        /\ rep' = [rep EXCEPT !.queue = SubSeq(@, 1, Len(@) - 1)]
        /\ ref' = [ref EXCEPT !.queue[v] = @ - 1]
    BY <1>8 DEF Sorted!QueuePop, Sorted!top
  <2>2. n \in 1 .. n /\ Len(rep.queue) > 0
    BY <1>2, <2>1
  <2>3. SubSeq(rep.queue, 1, n - 1) = Sorted!Removed(rep.queue, n)
    <3>1. Sorted!Removed(rep.queue, n) = RemoveAt(rep.queue, n)
      BY Zenon DEF Sorted!Removed, RemoveAt
    <3>2. RemoveAt(rep.queue, n) = Front(rep.queue)
      BY <1>2, <2>2, RemoveLast
    <3>3. Front(rep.queue) = SubSeq(rep.queue, 1, n - 1)
      BY Zenon DEF Front
    <3> QED BY <3>1, <3>2, <3>3
  <2>4. QueueOf(Sorted!Removed(rep.queue, n), [ref.queue EXCEPT ![v] = @ - 1])
    BY <1>1, <2>2, QueueLoses
  <2>5. rep' = [rep EXCEPT !.queue = Sorted!Removed(rep.queue, n)]
    BY <2>1, <2>3
  <2>6. ref' = [ref EXCEPT !.queue = [ref.queue EXCEPT ![v] = @ - 1]]
    BY <2>1
  <2> HIDE DEF n, v
  <2> QED BY <1>4, <2>4, <2>5, <2>6
<1>9. CASE Sorted!QueueErase
  <2>1. PICK v \in Keys : /\ Sorted!find(rep.queue, v) < Len(rep.queue)
                          /\ rep' = [rep EXCEPT !.queue = Sorted!Removed(@, Sorted!find(rep.queue, v) + 1)]
                          /\ ref' = [ref EXCEPT !.queue[v] = @ - 1]
    BY <1>9 DEF Sorted!QueueErase
  <2> DEFINE p == Sorted!find(rep.queue, v) + 1
  <2>2. p \in 1 .. Len(rep.queue) /\ rep.queue[p] = v
    <3> DEFINE at == Sorted!find(rep.queue, v)
    <3>1. at \in 0 .. Len(rep.queue) /\ rep.queue[at + 1] = v
      BY <1>2, <2>1, SortedFindFacts
    <3>2. Len(rep.queue) \in Nat /\ at < Len(rep.queue)
      BY <1>2, <2>1
    <3> HIDE DEF at
    <3>3. at + 1 \in 1 .. Len(rep.queue)
      BY <3>1, <3>2
    <3> QED BY <3>1, <3>3 DEF at
  <2> HIDE DEF p
  <2>3. QueueOf(Sorted!Removed(rep.queue, p), [ref.queue EXCEPT ![v] = @ - 1])
    BY <1>1, <2>2, QueueLoses
  <2>4. ref' = [ref EXCEPT !.queue = [ref.queue EXCEPT ![v] = @ - 1]]
    BY <2>1
  <2> QED BY <1>4, <2>1, <2>3, <2>4 DEF p
<1>10. CASE Sorted!SetFind \/ Sorted!QueueFind
  BY <1>10 DEF Sorted!SetFind, Sorted!QueueFind, SortedInv
<1> QED BY <1>5, <1>6, <1>7, <1>8, <1>9, <1>10 DEF Sorted!Next

(* A queue in order has its greatest at its top, its least at its back. *)
LEMMA QueueEnds ==
  ASSUME Keys \subseteq Nat, NEW s, NEW count, NEW v \in Keys, QueueOf(s, count)
  PROVE  /\ count[v] \in Nat /\ (count[v] > 0 <=> \E i \in 1 .. Len(s) : s[i] = v)
         /\ count[v] > 0 => s[1] <= v /\ v <= s[Len(s)]
<1>1. s \in Seq(Keys) /\ Ordered(s) /\ count \in [Keys -> Nat] /\ \A w \in Keys : count[w] = Cardinality(Times(s, w))
  BY DEF QueueOf
<1>2. Len(s) \in Nat
  BY <1>1
<1> DEFINE T == Times(s, v)
<1>3. IsFiniteSet(T)
  <2>1. IsFiniteSet(1 .. Len(s)) /\ T \subseteq 1 .. Len(s)
    BY <1>2, FS_Interval DEF Times
  <2> HIDE DEF T
  <2> QED BY <2>1, FS_Subset
<1>4. count[v] = Cardinality(T) /\ Cardinality(T) \in Nat /\ (Cardinality(T) = 0 <=> T = {})
  <2> HIDE DEF T
  <2>1. Cardinality(T) \in Nat /\ (Cardinality(T) = 0 <=> T = {})
    BY <1>3, FS_CardinalityType, FS_EmptySet
  <2> QED BY <1>1, <2>1 DEF T
<1>5. T = {} <=> ~\E i \in 1 .. Len(s) : s[i] = v
  BY DEF Times
<1>6. ASSUME NEW i \in 1 .. Len(s), s[i] = v
      PROVE  s[1] <= v /\ v <= s[Len(s)]
  <2>1. 1 \in 1 .. Len(s) /\ Len(s) \in 1 .. Len(s) /\ 1 <= i /\ i <= Len(s)
    BY <1>2
  <2> QED BY <1>1, <1>6, <2>1 DEF Ordered
<1> HIDE DEF T
<1> QED BY <1>4, <1>5, <1>6

(* Set and PriorityQueue, for any numbers and any room: the array of a set  *)
(* stays strictly in order and has the elements that were put in and not    *)
(* taken, a queue has each value as often as it should, the greatest on top *)
(* and the least at the back, and find meets exactly what is there; until a *)
(* set is given an element that it has, or find reads past the end.         *)
THEOREM SortedHolds ==
  ASSUME Keys \subseteq Nat
  PROVE  Sorted!Spec => []Sorted!Represents
<1>1. Sorted!Init => SortedInv
  <2> SUFFICES ASSUME Sorted!Init PROVE SortedInv
    OBVIOUS
  <2>1. rep = [set |-> <<>>, queue |-> <<>>] /\ ref = [set |-> {}, queue |-> [v \in Keys |-> 0]]
    BY DEF Sorted!Init
  <2> DEFINE none == <<>>
             zero == [v \in Keys |-> 0]
  <2>2. none \in Seq(Keys) /\ Len(none) = 0
    OBVIOUS
  <2> HIDE DEF none
  <2>3. SetOf(none, {}) /\ Ordered(none) /\ \A v : Times(none, v) = {}
    BY <2>2 DEF SetOf, Ordered, Times
  <2>4. \A v : Cardinality(Times(none, v)) = 0
    BY <2>3, FS_EmptySet
  <2>5. QueueOf(none, zero)
    BY <2>2, <2>3, <2>4 DEF QueueOf
  <2> HIDE DEF zero
  <2>6. rep = [set |-> none, queue |-> none] /\ ref = [set |-> {}, queue |-> zero]
    BY <2>1 DEF none, zero
  <2> QED BY <2>3, <2>5, <2>6 DEF SortedInv
<1>2. SortedInv /\ [Sorted!Next]_Sorted!vars => SortedInv'
  BY SortedStep DEF Sorted!vars, SortedInv, SetOf, QueueOf
<1>3. SortedInv => Sorted!Represents
  <2> SUFFICES ASSUME SortedInv, fault = "none"
               PROVE  /\ \A i \in 1 .. Len(rep.set) - 1 : rep.set[i] < rep.set[i + 1]
                      /\ {rep.set[i] : i \in DOMAIN rep.set} = ref.set
                      /\ \A v \in Keys :
                           /\ Sorted!Cardinality({i \in DOMAIN rep.queue : rep.queue[i] = v}) = ref.queue[v]
                           /\ (Sorted!find(rep.queue, v) < Len(rep.queue)) <=> ref.queue[v] > 0
                           /\ (Sorted!find(rep.set, v) < Len(rep.set)) <=> v \in ref.set
                           /\ ref.queue[v] > 0 => Sorted!back(rep.queue) <= v /\ v <= Sorted!top(rep.queue)
    BY DEF Sorted!Represents
  <2>1. /\ SetOf(rep.set, ref.set) /\ QueueOf(rep.queue, ref.queue)
    BY DEF SortedInv
  <2> DEFINE s == rep.set
             q == rep.queue
  <2>2. /\ s \in Seq(Keys) /\ ref.set = {s[i] : i \in 1 .. Len(s)}
        /\ \A i, j \in 1 .. Len(s) : i < j => s[i] < s[j]
        /\ q \in Seq(Keys) /\ Ordered(q) /\ \A v \in Keys : ref.queue[v] = Cardinality(Times(q, v))
    BY <2>1 DEF SetOf, QueueOf
  <2> HIDE DEF s, q
  <2>3. Len(s) \in Nat /\ DOMAIN s = 1 .. Len(s) /\ DOMAIN q = 1 .. Len(q)
    BY <2>2
  <2>4. Ordered(s)
    <3>1. \A i \in 1 .. Len(s) : s[i] \in Nat
      BY <2>2, SortedElements
    <3> QED BY <2>2, <2>3, <3>1 DEF Ordered
  <2>5. \A i \in 1 .. Len(s) - 1 : s[i] < s[i + 1]
    BY <2>2, <2>3
  <2>6. {s[i] : i \in DOMAIN s} = ref.set
    BY <2>2, <2>3
  <2>7. ASSUME NEW v \in Keys
        PROVE  /\ Sorted!Cardinality({i \in DOMAIN q : q[i] = v}) = ref.queue[v]
               /\ (Sorted!find(q, v) < Len(q)) <=> ref.queue[v] > 0
               /\ (Sorted!find(s, v) < Len(s)) <=> v \in ref.set
               /\ ref.queue[v] > 0 => Sorted!back(q) <= v /\ v <= Sorted!top(q)
    <3>1. {i \in DOMAIN q : q[i] = v} = Times(q, v)
      BY <2>3 DEF Times
    <3>2. Sorted!Cardinality(Times(q, v)) = Cardinality(Times(q, v))
      BY ONLY Zenon DEF Sorted!Cardinality, Cardinality
    <3>3. (Sorted!find(q, v) < Len(q)) <=> \E i \in 1 .. Len(q) : q[i] = v
      BY <2>2, SortedFindFacts
    <3>4. (Sorted!find(s, v) < Len(s)) <=> \E i \in 1 .. Len(s) : s[i] = v
      BY <2>2, <2>4, SortedFindFacts
    <3>5. /\ ref.queue[v] > 0 <=> \E i \in 1 .. Len(q) : q[i] = v
          /\ ref.queue[v] > 0 => q[1] <= v /\ v <= q[Len(q)]
      BY <2>1, QueueEnds DEF q
    <3>6. v \in ref.set <=> \E i \in 1 .. Len(s) : s[i] = v
      BY <2>2
    <3>7. Sorted!back(q) = q[1] /\ Sorted!top(q) = q[Len(q)]
      BY DEF Sorted!back, Sorted!top
    <3> QED BY <2>2, <3>1, <3>2, <3>3, <3>4, <3>5, <3>6, <3>7
  <2> QED BY <2>5, <2>6, <2>7 DEF s, q
<1> QED BY <1>1, <1>2, <1>3, PTL DEF Sorted!Spec

-----------------------------------------------------------------------------
(* The animator. None outlives the call that makes it, and what should be   *)
(* animated is the object, if it can be.                                    *)
AnimatorInv ==
    fault = "none" =>
      /\ rep \in [state : {"stopped", "playing", "paused"}, object : Animated \cup {"null"},
                  property : Properties \cup {"null", "unknown"}, anim : {"null"}]
      /\ ref = IF Transform!CanAnimate THEN rep.object ELSE "null"

(* PropertyAnimator, of any objects and properties: after any calls it      *)
(* animates nothing but the object that was set, though it is played,       *)
(* paused, stopped and given another in between; until it drops the         *)
(* animator that it has just made.                                          *)
THEOREM AnimatorHolds ==
  ASSUME "null" \notin Animated
  PROVE  Transform!AnimatorInit /\ [][Transform!AnimatorNext]_Transform!vars => []Transform!AnimatorRepresents
<1>1. Transform!AnimatorInit => AnimatorInv
  BY DEF Transform!AnimatorInit, AnimatorInv, Transform!CanAnimate, Transform!Null
<1>2. AnimatorInv /\ [Transform!AnimatorNext]_Transform!vars => AnimatorInv'
  <2>1. ASSUME AnimatorInv, Transform!AnimatorNext
        PROVE  AnimatorInv'
    <3>1. /\ fault = "none" /\ ref = IF Transform!CanAnimate THEN rep.object ELSE "null"
          /\ rep \in [state : {"stopped", "playing", "paused"}, object : Animated \cup {"null"},
                      property : Properties \cup {"null", "unknown"}, anim : {"null"}]
      BY <2>1 DEF AnimatorInv, Transform!AnimatorNext
    <3>2. CASE Transform!play \/ Transform!pause \/ Transform!reset \/ Transform!stop
      BY <3>1, <3>2 DEF AnimatorInv, Transform!CanAnimate, Transform!Null,
                        Transform!play, Transform!pause, Transform!reset, Transform!stop
    <3>3. CASE Transform!update
      BY <3>1, <3>3 DEF AnimatorInv, Transform!CanAnimate, Transform!Null, Transform!update,
                        Transform!make_animator_for_current_property
    <3>4. ASSUME NEW o \in Animated \cup {"null"}, Transform!set_object(o)
          PROVE  AnimatorInv'
      BY <3>1, <3>4 DEF AnimatorInv, Transform!CanAnimate, Transform!Null, Transform!set_object
    <3>5. ASSUME NEW p \in Properties \cup {"unknown"}, Transform!set_property(p)
          PROVE  AnimatorInv'
      BY <3>1, <3>5 DEF AnimatorInv, Transform!CanAnimate, Transform!Null, Transform!set_property
    <3> QED BY <2>1, <3>2, <3>3, <3>4, <3>5 DEF Transform!AnimatorNext, Transform!Null
  <2>2. CASE UNCHANGED Transform!vars
    BY <2>2 DEF Transform!vars, AnimatorInv, Transform!CanAnimate
  <2> QED BY <2>1, <2>2
<1>3. AnimatorInv => Transform!AnimatorRepresents
  BY DEF AnimatorInv, Transform!AnimatorRepresents, Transform!CanAnimate, Transform!Null
<1> QED BY <1>1, <1>2, <1>3, PTL

-----------------------------------------------------------------------------
(* The bench. Its behaviours are those of one part. *)

(* What is proved of an array holds in the bench. *)
LEMMA ArrayInBench == Spec => [](part = "array" => Array!ObjectsSound /\ Array!Represents)
<1>1. Init /\ part = "array" => Array!Init
  BY DEF Init
<1>2. part = "array" /\ [Next]_vars => (part = "array")' /\ [Array!Next]_Array!vars
  BY DEF Next, vars, Array!vars
<1>3. ~(part = "array") /\ [Next]_vars => ~(part = "array")'
  BY DEF Next, vars
<1>4. Array!Spec => [](Array!ObjectsSound /\ Array!Represents)
  BY ArrayHolds, LibraryAssumption DEF LibraryAssumption, DataAssumption
<1> QED BY <1>1, <1>2, <1>3, <1>4, PTL DEF Spec, Array!Spec

(* What is proved of a max array holds in the bench. *)
LEMMA MaxArrayInBench == Spec => [](part = "max array" => MaxArray!ObjectsSound /\ MaxArray!Represents)
<1>1. Init /\ part = "max array" => MaxArray!Init
  BY DEF Init
<1>2. part = "max array" /\ [Next]_vars => (part = "max array")' /\ [MaxArray!Next]_MaxArray!vars
  BY DEF Next, vars, MaxArray!vars
<1>3. ~(part = "max array") /\ [Next]_vars => ~(part = "max array")'
  BY DEF Next, vars
<1>4. MaxArray!Spec => [](MaxArray!ObjectsSound /\ MaxArray!Represents)
  BY MaxArrayHolds, LibraryAssumption DEF LibraryAssumption, DataAssumption
<1> QED BY <1>1, <1>2, <1>3, <1>4, PTL DEF Spec, MaxArray!Spec

(* What is proved of a dictionary holds in the bench. *)
LEMMA DictionaryInBench == Spec => [](part = "dictionary" => Dictionary!ObjectsSound /\ Dictionary!Represents)
<1>1. Init /\ part = "dictionary" => Dictionary!Init
  BY DEF Init
<1>2. part = "dictionary" /\ [Next]_vars => (part = "dictionary")' /\ [Dictionary!Next]_Dictionary!vars
  BY DEF Next, vars, Dictionary!vars
<1>3. ~(part = "dictionary") /\ [Next]_vars => ~(part = "dictionary")'
  BY DEF Next, vars
<1>4. Dictionary!Spec => [](Dictionary!ObjectsSound /\ Dictionary!Represents)
  BY DictionaryHolds
<1> QED BY <1>1, <1>2, <1>3, <1>4, PTL DEF Spec, Dictionary!Spec

(* The same of a set and a priority queue in the bench. *)
LEMMA SortedInBench == Spec => [](part = "sorted" => Sorted!Represents)
<1>1. Init /\ part = "sorted" => Sorted!Init
  BY DEF Init
<1>2. part = "sorted" /\ [Next]_vars => (part = "sorted")' /\ [Sorted!Next]_Sorted!vars
  BY DEF Next, vars, Sorted!vars
<1>3. ~(part = "sorted") /\ [Next]_vars => ~(part = "sorted")'
  BY DEF Next, vars
<1>4. Sorted!Spec => []Sorted!Represents
  BY SortedHolds, LibraryAssumption DEF LibraryAssumption, DataAssumption
<1> QED BY <1>1, <1>2, <1>3, <1>4, PTL DEF Spec, Sorted!Spec

(* What is proved of a list holds in the bench. *)
LEMMA ListInBench == Spec => [](part = "list" => Linked!Represents)
<1>1. Init /\ part = "list" => Linked!Init
  BY DEF Init
<1>2. part = "list" /\ [Next]_vars => (part = "list")' /\ [Linked!Next]_Linked!vars
  BY DEF Next, vars, Linked!vars
<1>3. ~(part = "list") /\ [Next]_vars => ~(part = "list")'
  BY DEF Next, vars
<1>4. Linked!Spec => [](Linked!Represents)
  BY ListsHold, LibraryAssumption DEF LibraryAssumption, NamesAssumption, ListConstants
<1> QED BY <1>1, <1>2, <1>3, <1>4, PTL DEF Spec, Linked!Spec

(* What is proved of an auto list holds in the bench. *)
LEMMA AutoListInBench == Spec => [](part = "auto list" => Linked!AutoRepresents)
<1>1. Init /\ part = "auto list" => Linked!AutoInit
  BY DEF Init
<1>2. part = "auto list" /\ [Next]_vars => (part = "auto list")' /\ [Linked!AutoNext]_Linked!vars
  BY DEF Next, vars, Linked!vars
<1>3. ~(part = "auto list") /\ [Next]_vars => ~(part = "auto list")'
  BY DEF Next, vars
<1>4. Linked!AutoInit /\ [][Linked!AutoNext]_Linked!vars => [](Linked!AutoRepresents)
  BY AutoListHolds, LibraryAssumption DEF LibraryAssumption, NamesAssumption, AutoConstants
<1> QED BY <1>1, <1>2, <1>3, <1>4, PTL DEF Spec

(* What is proved of a maybe holds in the bench. *)
LEMMA MaybeInBench == Spec => [](part = "maybe" => Maybe!ObjectsSound /\ Maybe!Represents)
<1>1. Init /\ part = "maybe" => Maybe!Init
  BY DEF Init
<1>2. part = "maybe" /\ [Next]_vars => (part = "maybe")' /\ [Maybe!Next]_Maybe!vars
  BY DEF Next, vars, Maybe!vars
<1>3. ~(part = "maybe") /\ [Next]_vars => ~(part = "maybe")'
  BY DEF Next, vars
<1>4. Maybe!Spec => [](Maybe!ObjectsSound /\ Maybe!Represents)
  BY MaybeHolds, LibraryAssumption DEF LibraryAssumption, DataAssumption
<1> QED BY <1>1, <1>2, <1>3, <1>4, PTL DEF Spec, Maybe!Spec

(* What is proved of an either holds in the bench. *)
LEMMA EitherInBench == Spec => [](part = "either" => Either!ObjectsSound /\ Either!Represents)
<1>1. Init /\ part = "either" => Either!Init
  BY DEF Init
<1>2. part = "either" /\ [Next]_vars => (part = "either")' /\ [Either!Next]_Either!vars
  BY DEF Next, vars, Either!vars
<1>3. ~(part = "either") /\ [Next]_vars => ~(part = "either")'
  BY DEF Next, vars
<1>4. Either!Spec => [](Either!ObjectsSound /\ Either!Represents)
  BY EitherHolds, LibraryAssumption DEF LibraryAssumption, DataAssumption, EitherTypes
<1> QED BY <1>1, <1>2, <1>3, <1>4, PTL DEF Spec, Either!Spec

(* What is proved of an any holds in the bench. *)
LEMMA AnyInBench == Spec => [](part = "any" => Holder!ObjectsSound /\ Holder!Represents)
<1>1. Init /\ part = "any" => Holder!Init
  BY DEF Init
<1>2. part = "any" /\ [Next]_vars => (part = "any")' /\ [Holder!Next]_Holder!vars
  BY DEF Next, vars, Holder!vars
<1>3. ~(part = "any") /\ [Next]_vars => ~(part = "any")'
  BY DEF Next, vars
<1>4. Holder!Spec => [](Holder!ObjectsSound /\ Holder!Represents)
  BY AnyHolds, LibraryAssumption DEF LibraryAssumption, DataAssumption
<1> QED BY <1>1, <1>2, <1>3, <1>4, PTL DEF Spec, Holder!Spec

(* What is proved of a function holds in the bench. *)
LEMMA FunctionInBench == Spec => [](part = "function" => Callable!ObjectsSound /\ Callable!Represents)
<1>1. Init /\ part = "function" => Callable!Init
  BY DEF Init
<1>2. part = "function" /\ [Next]_vars => (part = "function")' /\ [Callable!Next]_Callable!vars
  BY DEF Next, vars, Callable!vars
<1>3. ~(part = "function") /\ [Next]_vars => ~(part = "function")'
  BY DEF Next, vars
<1>4. Callable!Spec => [](Callable!ObjectsSound /\ Callable!Represents)
  BY FunctionHolds, LibraryAssumption DEF LibraryAssumption, NamesAssumption, FunctionConstants
<1> QED BY <1>1, <1>2, <1>3, <1>4, PTL DEF Spec, Callable!Spec

(* What is proved of an unique ptr holds in the bench. *)
LEMMA UniquePtrInBench == Spec => [](part = "unique ptr" => Unique!ObjectsSound /\ Unique!Represents)
<1>1. Init /\ part = "unique ptr" => Unique!Init
  BY DEF Init
<1>2. part = "unique ptr" /\ [Next]_vars => (part = "unique ptr")' /\ [Unique!Next]_Unique!vars
  BY DEF Next, vars, Unique!vars
<1>3. ~(part = "unique ptr") /\ [Next]_vars => ~(part = "unique ptr")'
  BY DEF Next, vars
<1>4. Unique!Spec => [](Unique!ObjectsSound /\ Unique!Represents)
  BY UniquePtrHolds, LibraryAssumption DEF LibraryAssumption, DataAssumption, UniqueTypes
<1> QED BY <1>1, <1>2, <1>3, <1>4, PTL DEF Spec, Unique!Spec

(* What is proved of a tracker holds in the bench. *)
LEMMA TrackerInBench == Spec => [](part = "tracker" => Tracker!ObjectsSound /\ Tracker!Represents)
<1>1. Init /\ part = "tracker" => Tracker!Init
  BY DEF Init
<1>2. part = "tracker" /\ [Next]_vars => (part = "tracker")' /\ [Tracker!Next]_Tracker!vars
  BY DEF Next, vars, Tracker!vars
<1>3. ~(part = "tracker") /\ [Next]_vars => ~(part = "tracker")'
  BY DEF Next, vars
<1>4. Tracker!Spec => [](Tracker!ObjectsSound /\ Tracker!Represents)
  BY TrackerHolds, LibraryAssumption DEF LibraryAssumption, TrackerAssumption, TrackerConstants
<1> QED BY <1>1, <1>2, <1>3, <1>4, PTL DEF Spec, Tracker!Spec

(* What is proved of the allocator of blocks and its bag holds in the bench. *)
LEMMA FixedInBench ==
  Spec => [](part = "fixed allocator" => FixedAllocator!ObjectsSound /\ FixedAllocator!Represents)
<1>1. Init /\ part = "fixed allocator" => FixedAllocator!Init
  BY DEF Init
<1>2. part = "fixed allocator" /\ [Next]_vars => (part = "fixed allocator")' /\ [FixedAllocator!Next]_FixedAllocator!vars
  BY DEF Next, vars, FixedAllocator!vars
<1>3. ~(part = "fixed allocator") /\ [Next]_vars => ~(part = "fixed allocator")'
  BY DEF Next, vars
<1>4. FixedAllocator!Spec => [](FixedAllocator!ObjectsSound /\ FixedAllocator!Represents)
  BY FixedHolds, LibraryAssumption
     DEF LibraryAssumption, DataAssumption, FixedConstants, FixedAllocator!Null
<1> QED BY <1>1, <1>2, <1>3, <1>4, PTL DEF Spec, FixedAllocator!Spec

(* What is proved of an event holds in the bench. *)
LEMMA EventInBench == Spec => [](part = "event" => Event!ObjectsSound /\ Event!Represents)
<1>1. Init /\ part = "event" => Event!Init
  BY DEF Init
<1>2. part = "event" /\ [Next]_vars => (part = "event")' /\ [Event!Next]_Event!vars
  BY DEF Next, vars, Event!vars
<1>3. ~(part = "event") /\ [Next]_vars => ~(part = "event")'
  BY DEF Next, vars
<1>4. Event!Spec => [](Event!ObjectsSound /\ Event!Represents)
  BY EventsHold
<1> QED BY <1>1, <1>2, <1>3, <1>4, PTL DEF Spec, Event!Spec

(* What is proved of a spatial holds in the bench. *)
LEMMA SpatialInBench == Spec => [](part = "spatial" => Transform!ObjectsSound)
<1>1. Init /\ part = "spatial" => Transform!Init
  BY DEF Init
<1>2. part = "spatial" /\ [Next]_vars => (part = "spatial")' /\ [Transform!Next]_Transform!vars
  BY DEF Next, vars, Transform!vars
<1>3. ~(part = "spatial") /\ [Next]_vars => ~(part = "spatial")'
  BY DEF Next, vars
<1>4. Transform!Spec => [](Transform!ObjectsSound)
  BY SpatialHolds, LibraryAssumption DEF LibraryAssumption
<1> QED BY <1>1, <1>2, <1>3, <1>4, PTL DEF Spec, Transform!Spec

(* What is proved of an animator holds in the bench. *)
LEMMA AnimatorInBench == Spec => [](part = "animator" => Transform!AnimatorRepresents)
<1>1. Init /\ part = "animator" => Transform!AnimatorInit
  BY DEF Init
<1>2. part = "animator" /\ [Next]_vars => (part = "animator")' /\ [Transform!AnimatorNext]_Transform!vars
  BY DEF Next, vars, Transform!vars
<1>3. ~(part = "animator") /\ [Next]_vars => ~(part = "animator")'
  BY DEF Next, vars
<1>4. Transform!AnimatorInit /\ [][Transform!AnimatorNext]_Transform!vars => [](Transform!AnimatorRepresents)
  BY AnimatorHolds, LibraryAssumption DEF LibraryAssumption, NamesAssumption
<1> QED BY <1>1, <1>2, <1>3, <1>4, PTL DEF Spec

(* After any calls on any of these parts, and for any values, capacities,   *)
(* allocators and names, what counts as an object is one, was constructed   *)
(* once and will be destroyed once, and no pointer that is kept dangles.    *)
THEOREM MemoryIsSound == Spec => []ObjectsSound
<1> DEFINE First ==
             /\ (part = "array" => Array!ObjectsSound)
             /\ (part = "max array" => MaxArray!ObjectsSound)
             /\ (part = "dictionary" => Dictionary!ObjectsSound)
             /\ (part = "spatial" => Transform!ObjectsSound)
           Second ==
             /\ (part = "maybe" => Maybe!ObjectsSound)
             /\ (part = "either" => Either!ObjectsSound)
             /\ (part = "any" => Holder!ObjectsSound)
             /\ (part = "function" => Callable!ObjectsSound)
           Third ==
             /\ (part = "unique ptr" => Unique!ObjectsSound)
             /\ (part = "tracker" => Tracker!ObjectsSound)
             /\ (part = "fixed allocator" => FixedAllocator!ObjectsSound)
             /\ (part = "event" => Event!ObjectsSound)
<1>1. Spec => []First
  BY ArrayInBench, MaxArrayInBench, DictionaryInBench, SpatialInBench, PTL
<1>2. Spec => []Second
  BY MaybeInBench, EitherInBench, AnyInBench, FunctionInBench, PTL
<1>3. Spec => []Third
  BY UniquePtrInBench, TrackerInBench, FixedInBench, EventInBench, PTL
<1>4. First /\ Second /\ Third => ObjectsSound
  BY DEF ObjectsSound
<1> HIDE DEF First, Second, Third
<1> QED
  BY <1>1, <1>2, <1>3, <1>4, PTL

(* After any calls on any of these parts, it stands for the value it should *)
(* have: what the code keeps and the plain value agree.                     *)
THEOREM ContainersStandForValues == Spec => []ContainersRepresent
<1> DEFINE First ==
             /\ (part = "array" => Array!Represents)
             /\ (part = "max array" => MaxArray!Represents)
             /\ (part = "dictionary" => Dictionary!Represents)
             /\ (part = "list" => Linked!Represents)
             /\ (part = "auto list" => Linked!AutoRepresents)
           Second ==
             /\ (part = "maybe" => Maybe!Represents)
             /\ (part = "either" => Either!Represents)
             /\ (part = "any" => Holder!Represents)
             /\ (part = "function" => Callable!Represents)
           Third ==
             /\ (part = "sorted" => Sorted!Represents)
             /\ (part = "unique ptr" => Unique!Represents)
             /\ (part = "tracker" => Tracker!Represents)
             /\ (part = "fixed allocator" => FixedAllocator!Represents)
             /\ (part = "event" => Event!Represents)
             /\ (part = "animator" => Transform!AnimatorRepresents)
<1>1. Spec => []First
  BY ArrayInBench, MaxArrayInBench, DictionaryInBench, ListInBench, AutoListInBench, PTL
<1>2. Spec => []Second
  BY MaybeInBench, EitherInBench, AnyInBench, FunctionInBench, PTL
<1>3. Spec => []Third
  BY SortedInBench, UniquePtrInBench, TrackerInBench, FixedInBench, EventInBench, AnimatorInBench, PTL
<1>4. First /\ Second /\ Third => ContainersRepresent
  BY DEF ContainersRepresent
<1> HIDE DEF First, Second, Third
<1> QED
  BY <1>1, <1>2, <1>3, <1>4, PTL
=============================================================================
