--------------------------- MODULE UniverseProofs ---------------------------
(***************************************************************************)
(* Proofs about Universe: whatever the places and names are, the two name  *)
(* maps of a universe are the inverse of each other, nothing refers to an  *)
(* object that is gone, an update calls each registered object once, the   *)
(* references of a scene resolve, and a universe implements NameRegistry.  *)
(***************************************************************************)
EXTENDS Universe, FiniteSetTheorems, SequenceLemmas

(* The prover does not know of a text in the code that it is in STRING.    *)
Texts == STRING \cup Types \cup {"none", "part", "Composite"}
Names == Texts \X Nat
NameMaps == UNION {[N -> Ids] : N \in SUBSET Names}
ObjectMaps == UNION {[O -> Names] : O \in SUBSET Ids}

Deferred == [object : Ids, target : Names]

States == [kind : {"basic", "editor"}, type : [Places -> Types \cup {"none"}],
           ref : [Ids -> Ids \cup {Null}], map : NameMaps, name : ObjectMaps,
           root : Ids \cup {Null}, updates : Seq(Ids), deferred : Seq(Deferred),
           external : [Roots -> Ids \cup {NotARoot}]]

(* The maps are the inverse of each other; there are finitely many names,  *)
(* all of them long enough.                                                *)
Paired(map, name) ==
    /\ IsFiniteSet(DOMAIN map)
    /\ TooShort \notin DOMAIN map
    /\ \A o \in DOMAIN name : name[o] \in DOMAIN map /\ map[name[o]] = o
    /\ \A n \in DOMAIN map : map[n] \in DOMAIN name /\ name[map[n]] = n

(* What a rename calls a free name: nobody has it, or the object itself. *)
Available(s, o, n) == n \in DOMAIN s.map => s.map[n] = o

Consistent(s) == s \in States /\ Paired(s.map, s.name)

(* The names of the other objects. *)
Nameless(s, o) == WithoutNames(s.name, {o})

-----------------------------------------------------------------------------
(* A place is a positive number, so no object is null or the mark of a free *)
(* entry of the external references. *)
LEMMA IdFacts ==
  ASSUME NEW o \in Ids
  PROVE  /\ o[1] \in Places /\ o[2] \in {0, 1} /\ o = <<o[1], o[2]>>
         /\ o # Null /\ o # NotARoot
BY PlacesAssumption DEF Ids, Null, NotARoot

(* A place has two objects, the object itself and the aspect within it. *)
LEMMA PlaceFacts ==
  ASSUME NEW p \in Places
  PROVE  /\ <<p, 0>> \in Ids /\ <<p, 1>> \in Ids /\ <<p, 0>> # <<p, 1>>
         /\ \A o \in Ids : o[1] = p => o \in {<<p, 0>>, <<p, 1>>}
BY DEF Ids

(* The names that the program uses have a base and a number; one that is too *)
(* short has the number 0. *)
LEMMA NameFacts ==
  /\ Wanted \subseteq Names /\ Defined \subseteq Names
  /\ TooShort \in Names /\ TooShort[2] = 0
  /\ \A n \in Names : n[1] \in Texts /\ n[2] \in Nat
BY NamesAssumption DEF Names, Texts

(* The search for a number ends: among as many numbers as there are names, *)
(* and one more, there is one that is not taken. *)
LEMMA FirstFreeFacts ==
  ASSUME NEW map, IsFiniteSet(DOMAIN map), NEW base \in Texts, NEW n \in Nat \ {0}
  PROVE  /\ FirstFree(map, base, n) \in Names \ DOMAIN map
         /\ FirstFree(map, base, n) # TooShort
<1> DEFINE c == Cardinality(DOMAIN map)
           taken == {k \in n .. n + c : <<base, k>> \in DOMAIN map}
           free == (n .. n + c) \ taken
<1>1. c \in Nat
  BY FS_CardinalityType
<1> HIDE DEF c
<1>2. free \in SUBSET Nat /\ free \subseteq n .. n + c
  <2>1. n .. n + c \subseteq Nat
    BY <1>1
  <2>2. free \subseteq n .. n + c
    BY Zenon
  <2> QED
    BY <2>1, <2>2, Zenon
<1>3. free # {}
  <2> SUFFICES ASSUME free = {} PROVE FALSE
    OBVIOUS
  <2> DEFINE f == [k \in n .. n + c |-> <<base, k>>]
  <2>1. \A k \in n .. n + c : <<base, k>> \in DOMAIN map
    OBVIOUS
  <2>2. f \in [n .. n + c -> DOMAIN map]
    BY <2>1
  <2>3. IsFiniteSet(n .. n + c) /\ Cardinality(n .. n + c) = c + 1
    BY <1>1, FS_Interval
  <2>4. PICK x, y \in n .. n + c : x # y /\ f[x] = f[y]
    <3> DEFINE S == n .. n + c
               T == DOMAIN map
    <3>1. IsFiniteSet(S) /\ IsFiniteSet(T) /\ Cardinality(T) < Cardinality(S)
      BY <1>1, <2>3 DEF c
    <3>2. f \in [S -> T]
      BY <2>2, Zenon
    <3> HIDE DEF S, T, f
    <3>3. \E x, y \in S : x # y /\ f[x] = f[y]
      BY <3>1, <3>2, FS_PigeonHole
    <3> QED
      BY <3>3 DEF S
  <2> QED
    BY <2>4
<1>4. Min(free) \in free
  <2> HIDE DEF free
  <2> QED
    BY <1>2, <1>3, MinFacts
<1>5. FirstFree(map, base, n) = <<base, Min(free)>>
  BY DEF FirstFree, c
<1>6. <<base, Min(free)>> \in Names \ DOMAIN map
  <2> DEFINE m == Min(free)
  <2>1. m \in Nat /\ m \in n .. n + c /\ <<base, m>> \notin DOMAIN map
    BY <1>2, <1>4
  <2> HIDE DEF m
  <2> QED
    BY <2>1 DEF Names, m
<1>7. Min(free) # 0
  BY <1>1, <1>4
<1>8. <<base, Min(free)>> # TooShort
  <2> DEFINE m == Min(free)
  <2> HIDE DEF m
  <2> SUFFICES <<base, m>> # TooShort
    BY DEF m
  <2>1. <<base, m>>[2] # 0
    BY <1>7 DEF m
  <2> QED
    BY <2>1, NameFacts
<1> HIDE DEF free
<1> QED
  BY <1>5, <1>6, <1>8

-----------------------------------------------------------------------------
(* unregister_object, and the first half of a rename: an object loses its   *)
(* name and the others keep theirs. *)
LEMMA ForgetFacts ==
  ASSUME NEW s, Consistent(s), NEW o \in Ids
  PROVE  /\ BasicFree(s, o) \in NameMaps /\ Nameless(s, o) \in ObjectMaps
         /\ Paired(BasicFree(s, o), Nameless(s, o))
         /\ DOMAIN Nameless(s, o) = DOMAIN s.name \ {o}
         /\ \A x \in DOMAIN s.name \ {o} : Nameless(s, o)[x] = s.name[x]
         /\ \A n \in Names : n \notin DOMAIN BasicFree(s, o) <=> Available(s, o, n)
<1> DEFINE id   == get_id(s, o)
           map  == BasicFree(s, o)
           name == Nameless(s, o)
<1>0. s \in States /\ Paired(s.map, s.name)
  BY DEF Consistent
<1>1. PICK N \in SUBSET Names : s.map \in [N -> Ids]
  BY <1>0 DEF States, NameMaps
<1>2. PICK O \in SUBSET Ids : s.name \in [O -> Names]
  BY <1>0 DEF States, ObjectMaps
<1>3. DOMAIN map = N \ {id} /\ \A n \in N \ {id} : map[n] = s.map[n]
  BY <1>1 DEF WithoutNames, BasicFree, Nameless
<1>4. DOMAIN name = O \ {o} /\ \A x \in O \ {o} : name[x] = s.name[x]
  BY <1>2 DEF WithoutNames, BasicFree, Nameless
<1>5. map \in NameMaps
  <2>1. map \in [N \ {id} -> Ids]
    BY <1>1 DEF WithoutNames, BasicFree, Nameless
  <2> QED
    BY <2>1 DEF NameMaps
<1>6. name \in ObjectMaps
  <2>1. name \in [O \ {o} -> Names]
    BY <1>2 DEF WithoutNames, BasicFree, Nameless
  <2> QED
    BY <2>1 DEF ObjectMaps
<1>7. \A n \in N : n # id <=> s.map[n] # o
  BY <1>0, <1>1, <1>2 DEF Paired, get_id
<1>8. IsFiniteSet(N \ {id})
  BY <1>0, <1>1, FS_RemoveElement DEF Paired
<1>9. Paired(map, name)
  <2>1. \A x \in O \ {o} : s.name[x] \in N \ {id}
    BY <1>1, <1>2, <1>7, <1>0 DEF Paired
  <2>2. \A n \in N \ {id} : s.map[n] \in O \ {o}
    BY <1>1, <1>2, <1>7, <1>0 DEF Paired
  <2>3. IsFiniteSet(DOMAIN map) /\ TooShort \notin DOMAIN map
    BY <1>1, <1>3, <1>8, <1>0 DEF Paired
  <2>4. \A x \in O \ {o} : name[x] \in DOMAIN map /\ map[name[x]] = x
    BY <1>1, <1>2, <1>3, <1>4, <2>1, <1>0 DEF Paired
  <2>5. \A n \in N \ {id} : map[n] \in DOMAIN name /\ name[map[n]] = n
    BY <1>1, <1>2, <1>3, <1>4, <2>2, <1>0 DEF Paired
  <2> QED
    BY <1>3, <1>4, <2>3, <2>4, <2>5 DEF Paired
<1> QED
  BY <1>1, <1>2, <1>3, <1>4, <1>5, <1>6, <1>7, <1>9 DEF Available

(* The second half of a rename: an object without a name gets one that is   *)
(* free. *)
LEMMA BindFacts ==
  ASSUME NEW map \in NameMaps, NEW name \in ObjectMaps, Paired(map, name),
         NEW o \in Ids, o \notin DOMAIN name,
         NEW n \in Names, n \notin DOMAIN map, n # TooShort
  PROVE  /\ Rebind(map, n, o) \in NameMaps /\ Rebind(name, o, n) \in ObjectMaps
         /\ Paired(Rebind(map, n, o), Rebind(name, o, n))
         /\ DOMAIN Rebind(name, o, n) = DOMAIN name \cup {o}
         /\ \A x \in DOMAIN name : Rebind(name, o, n)[x] = name[x]
         /\ Rebind(name, o, n)[o] = n
<1>1. PICK N \in SUBSET Names : map \in [N -> Ids]
  BY DEF NameMaps
<1>2. PICK O \in SUBSET Ids : name \in [O -> Names]
  BY DEF ObjectMaps
<1> DEFINE m == Rebind(map, n, o)
           r == Rebind(name, o, n)
<1>3. DOMAIN m = N \cup {n} /\ m[n] = o /\ \A k \in N : m[k] = map[k]
  BY <1>1 DEF Rebind
<1>4. DOMAIN r = O \cup {o} /\ r[o] = n /\ \A x \in O : r[x] = name[x]
  BY <1>2 DEF Rebind
<1>5. m \in NameMaps
  <2>1. m \in [N \cup {n} -> Ids]
    BY <1>1 DEF Rebind
  <2> QED
    BY <2>1 DEF NameMaps
<1>6. r \in ObjectMaps
  <2>1. r \in [O \cup {o} -> Names]
    BY <1>2 DEF Rebind
  <2> QED
    BY <2>1 DEF ObjectMaps
<1>7. IsFiniteSet(N \cup {n})
  BY <1>1, FS_AddElement DEF Paired
<1> HIDE DEF m, r
<1>8. Paired(m, r)
  BY <1>1, <1>2, <1>3, <1>4, <1>7 DEF Paired
<1> QED
  BY <1>1, <1>2, <1>3, <1>4, <1>5, <1>6, <1>8 DEF m, r

-----------------------------------------------------------------------------
(* r is s after an operation that gave names to the objects of O: every     *)
(* other object has the name it had. *)
Renamed(s, r, O) ==
    /\ Consistent(r)
    /\ DOMAIN r.name = DOMAIN s.name \cup O
    /\ \A x \in DOMAIN s.name \ O : r.name[x] = s.name[x]

SameReferences(s, r) ==
    r.kind = s.kind /\ r.ref = s.ref /\ r.root = s.root /\ r.external = s.external

(* Both universes choose a name that is long enough and available. *)
LEMMA NewNameFacts ==
  ASSUME NEW s, Consistent(s), NEW o \in Ids, NEW wanted \in Names,
         NEW n, n \in {BasicNewName(s, o, wanted), EditorNewName(s, o, wanted)}
  PROVE  n \in Names /\ n # TooShort /\ Available(s, o, n)
<1> DEFINE free == BasicFree(s, o)
<1>1. /\ IsFiniteSet(DOMAIN free)
      /\ \A k \in Names : k \notin DOMAIN free <=> Available(s, o, k)
  BY ForgetFacts DEF Paired
<1>2. NameOfType(s, o) \in Texts
  <2>1. s.type \in [Places -> Types \cup {"none"}] /\ o[1] \in Places
    BY IdFacts DEF Consistent, States
  <2> QED
    BY <2>1 DEF NameOfType, Texts
<1>3. wanted[1] \in Texts /\ wanted[2] \in Nat
  BY NameFacts
<1> HIDE DEF free
<1>4. CASE n = BasicNewName(s, o, wanted)
  <2>1. CASE BasicIsExact(s, o, wanted)
    BY <1>1, <1>4, <2>1 DEF BasicIsExact, BasicNewName, free
  <2>2. CASE ~BasicIsExact(s, o, wanted)
    <3>1. n \in {FirstFree(free, NameOfType(s, o), 1), FirstFree(free, wanted[1], 2)}
      BY <1>4, <2>2 DEF BasicNewName, free
    <3>2. 1 \in Nat \ {0} /\ 2 \in Nat \ {0}
      OBVIOUS
    <3>3. n \in Names \ DOMAIN free /\ n # TooShort
      BY <1>1, <1>2, <1>3, <3>1, <3>2, FirstFreeFacts, Zenon
    <3> QED
      BY <1>1, <3>3
  <2> QED
    BY <2>1, <2>2
<1>5. CASE n = EditorNewName(s, o, wanted)
  <2>1. CASE EditorIsExact(s, o, wanted)
    BY <1>5, <2>1 DEF EditorIsExact, EditorNewName, Available
  <2>2. CASE ~EditorIsExact(s, o, wanted)
    <3>1. \E base \in Texts, k \in Nat \ {0} : n = FirstFree(s.map, base, k)
      <4>1. CASE wanted = TooShort
        <5>1. n = FirstFree(s.map, NameOfType(s, o), 1) /\ 1 \in Nat \ {0}
          BY <1>5, <2>2, <4>1 DEF EditorNewName
        <5> QED
          BY <1>2, <5>1, Zenon
      <4>2. CASE wanted # TooShort
        <5>1. (IF wanted[2] = 0 THEN 1 ELSE wanted[2]) \in Nat \ {0}
          BY <1>3
        <5> QED
          BY <1>3, <1>5, <2>2, <4>2, <5>1 DEF EditorNewName
      <4> QED
        BY <4>1, <4>2
    <3>2. n \in Names \ DOMAIN s.map /\ n # TooShort
      BY <3>1, FirstFreeFacts DEF Consistent, Paired
    <3> QED
      BY <3>2 DEF Available
  <2> QED
    BY <2>1, <2>2
<1> QED
  BY <1>4, <1>5

(* s with n for the name of o. *)
WithName(s, o, n) == [s EXCEPT !.map  = Rebind(BasicFree(s, o), n, o),
                               !.name = Rebind(Nameless(s, o), o, n)]

(* A rename replaces the entries of one object in the two maps. *)
LEMMA EntriesFacts ==
  ASSUME NEW s, Consistent(s), NEW o \in Ids,
         NEW n \in Names, n # TooShort, Available(s, o, n)
  PROVE  LET r == WithName(s, o, n)
         IN  /\ Renamed(s, r, {o}) /\ SameReferences(s, r)
             /\ r.type = s.type /\ r.updates = s.updates /\ r.deferred = s.deferred
             /\ r.name[o] = n
<1> DEFINE m == Rebind(BasicFree(s, o), n, o)
           k == Rebind(Nameless(s, o), o, n)
           r    == [s EXCEPT !.map = m, !.name = k]
<1>1. /\ BasicFree(s, o) \in NameMaps /\ Nameless(s, o) \in ObjectMaps
      /\ Paired(BasicFree(s, o), Nameless(s, o))
      /\ DOMAIN Nameless(s, o) = DOMAIN s.name \ {o}
      /\ \A x \in DOMAIN s.name \ {o} : Nameless(s, o)[x] = s.name[x]
      /\ n \notin DOMAIN BasicFree(s, o)
  BY ForgetFacts
<1>2. /\ m \in NameMaps /\ k \in ObjectMaps /\ Paired(m, k)
      /\ DOMAIN k = DOMAIN Nameless(s, o) \cup {o}
      /\ \A x \in DOMAIN Nameless(s, o) : k[x] = Nameless(s, o)[x]
      /\ k[o] = n
  <2>1. o \notin DOMAIN Nameless(s, o)
    BY <1>1
  <2> QED
    BY <1>1, <2>1, BindFacts
<1> HIDE DEF m, k
<1>3. r \in States
  BY <1>2 DEF Consistent, States
<1>4. /\ r.map = m /\ r.name = k /\ r.kind = s.kind /\ r.type = s.type /\ r.ref = s.ref
      /\ r.root = s.root /\ r.updates = s.updates /\ r.deferred = s.deferred
      /\ r.external = s.external
  BY DEF Consistent, States
<1> HIDE DEF r
<1>5. Renamed(s, r, {o}) /\ SameReferences(s, r)
  BY <1>1, <1>2, <1>3, <1>4 DEF Consistent, Renamed, SameReferences
<1> QED
  BY <1>2, <1>4, <1>5 DEF r, m, k, WithName

(* The two universes choose the new name at another time, but leave the     *)
(* same behind. *)
LEMMA RenameFacts ==
  ASSUME NEW s, Consistent(s), NEW o \in Ids, NEW wanted \in Names
  PROVE  LET r == rename_object(s, o, wanted)
         IN  /\ Renamed(s, r, {o}) /\ SameReferences(s, r)
             /\ r.type = s.type /\ r.updates = s.updates /\ r.deferred = s.deferred
             /\ r.name[o] = IF Basic THEN BasicNewName(s, o, wanted)
                                     ELSE EditorNewName(s, o, wanted)
<1> DEFINE n == IF Basic THEN BasicNewName(s, o, wanted) ELSE EditorNewName(s, o, wanted)
           r == WithName(s, o, n)
<1>1. n \in Names /\ n # TooShort /\ Available(s, o, n)
  BY NewNameFacts, Zenon
<1>2. CASE Basic
  <2>1. Rebind(s.name, o, n) = Rebind(Nameless(s, o), o, n)
    <3> HIDE DEF n
    <3> QED
      BY DEF Rebind, WithoutNames, Nameless
  <2>2. rename_object(s, o, wanted) = r
    BY <1>2, <2>1 DEF rename_object, basic_rename_object, WithName
  <2> HIDE DEF n, r
  <2>3. /\ Renamed(s, r, {o}) /\ SameReferences(s, r) /\ r.type = s.type
        /\ r.updates = s.updates /\ r.deferred = s.deferred /\ r.name[o] = n
    BY <1>1, EntriesFacts DEF r
  <2> QED
    BY <2>2, <2>3 DEF n
<1>3. CASE ~Basic
  <2> DEFINE gone == unregister_object(s, o)
  <2>1. /\ gone.map = BasicFree(s, o)
        /\ gone.name = Nameless(s, o)
    BY DEF unregister_object, Consistent, States, BasicFree, Nameless
  <2>2. rename_object(s, o, wanted) = r
    BY <1>3, <2>1 DEF WithName, rename_object, editor_rename_object, unregister_object, Consistent, States
  <2> HIDE DEF n, r
  <2>3. /\ Renamed(s, r, {o}) /\ SameReferences(s, r) /\ r.type = s.type
        /\ r.updates = s.updates /\ r.deferred = s.deferred /\ r.name[o] = n
    BY <1>1, EntriesFacts DEF r
  <2> QED
    BY <2>2, <2>3 DEF n
<1> QED
  BY <1>2, <1>3

(* A rename is exact when no other object has the wanted name, and then the *)
(* object gets it. *)
LEMMA ExactFacts ==
  ASSUME NEW s, Consistent(s), NEW o \in Ids, NEW wanted \in Names
  PROVE  /\ IsExact(s, o, wanted) =
              (wanted # TooShort /\ \A x \in DOMAIN s.name \ {o} : s.name[x] # wanted)
         /\ IsExact(s, o, wanted) => rename_object(s, o, wanted).name[o] = wanted
<1>1. Available(s, o, wanted) <=> \A x \in DOMAIN s.name \ {o} : s.name[x] # wanted
  BY DEF Available, Consistent, Paired
<1>2. wanted \notin DOMAIN BasicFree(s, o) <=> Available(s, o, wanted)
  BY ForgetFacts
<1>3. IsExact(s, o, wanted) = (wanted # TooShort /\ Available(s, o, wanted))
  BY <1>2 DEF IsExact, BasicIsExact, EditorIsExact, Available
<1>4. IsExact(s, o, wanted) =>
        (IF Basic THEN BasicNewName(s, o, wanted) ELSE EditorNewName(s, o, wanted)) = wanted
  BY DEF IsExact, BasicNewName, EditorNewName
<1> QED
  BY <1>1, <1>3, <1>4, RenameFacts

-----------------------------------------------------------------------------
Distinct(q) == \A i, j \in DOMAIN q : q[i] = q[j] => i = j

(* The place of an object in the update set lies within it or at its end. *)
LEMMA PlaceInSet ==
  ASSUME NEW q \in Seq(Ids), NEW o
  PROVE  lower_bound(q, o) \in 0 .. Len(q)
<1> DEFINE S == {i \in DOMAIN q : q[i][1] * 2 + q[i][2] < o[1] * 2 + o[2]}
<1>1. S \in SUBSET (1 .. Len(q)) /\ Len(q) \in Nat
  BY Zenon, LenProperties
<1>2. lower_bound(q, o) = Cardinality(S)
  BY DEF lower_bound
<1> HIDE DEF S
<1>3. IsFiniteSet(1 .. Len(q)) /\ Cardinality(1 .. Len(q)) = Len(q)
  <2> DEFINE n == Len(q)
  <2>1. n \in Int /\ 1 \in Int /\ (1 > n => n = 0) /\ n - 1 + 1 = n
    BY <1>1
  <2> HIDE DEF n
  <2>2. IsFiniteSet(1 .. n) /\ Cardinality(1 .. n) = IF 1 > n THEN 0 ELSE n - 1 + 1
    BY <2>1, FS_Interval, Zenon
  <2>3. Cardinality(1 .. n) = n
    BY ONLY <2>1, <2>2
  <2> QED
    BY <2>2, <2>3 DEF n
<1>4. IsFiniteSet(S) /\ Cardinality(S) <= Len(q)
  BY <1>1, <1>3, FS_Subset
<1>5. Cardinality(S) \in Nat
  BY <1>4, FS_CardinalityType
<1> QED
  BY <1>1, <1>2, <1>4, <1>5

(* The update set after an object was registered. *)
Registered(q, o) == InsertAt(q, lower_bound(q, o) + 1, o)

(* register_object_for_update adds one object, and what lies in front of    *)
(* its place stays there. *)
LEMMA RegisterFacts ==
  ASSUME NEW q \in Seq(Ids), NEW o \in Ids
  PROVE  LET r == Registered(q, o)
         IN  /\ r \in Seq(Ids) /\ Len(r) = Len(q) + 1
             /\ ToSet(r) = ToSet(q) \cup {o}
             /\ Distinct(q) /\ o \notin ToSet(q) => Distinct(r)
             /\ \A i \in 1 .. lower_bound(q, o) : r[i] = q[i]
<1> SUFFICES
      ASSUME NEW r, r = InsertAt(q, lower_bound(q, o) + 1, o)
      PROVE  /\ r \in Seq(Ids) /\ Len(r) = Len(q) + 1
             /\ ToSet(r) = ToSet(q) \cup {o}
             /\ Distinct(q) /\ o \notin ToSet(q) => Distinct(r)
             /\ \A i \in 1 .. lower_bound(q, o) : r[i] = q[i]
  BY DEF Registered
<1> DEFINE k == lower_bound(q, o)
<1>1. k \in 0 .. Len(q) /\ Len(q) \in Nat /\ DOMAIN q = 1 .. Len(q)
  BY PlaceInSet, LenProperties
<1> HIDE DEF k
<1>2. k + 1 \in 1 .. Len(q) + 1
  BY <1>1
<1>3. r = InsertAt(q, k + 1, o)
  BY DEF k
<1>4. /\ r \in Seq(Ids) /\ Len(r) = Len(q) + 1
      /\ \A j \in 1 .. Len(q) + 1 :
           r[j] = IF j < k + 1 THEN q[j] ELSE IF j = k + 1 THEN o ELSE q[j - 1]
  <2> DEFINE at == k + 1
             inserted == InsertAt(q, at, o)
  <2> HIDE DEF at
  <2>1. at \in 1 .. Len(q) + 1
    BY <1>2 DEF at
  <2>2. q \in Seq(Ids) /\ o \in Ids
    OBVIOUS
  <2>3. /\ inserted \in Seq(Ids) /\ Len(inserted) = Len(q) + 1
        /\ \A j \in 1 .. Len(q) + 1 :
             inserted[j] = IF j < at THEN q[j] ELSE IF j = at THEN o ELSE q[j - 1]
    BY ONLY <2>1, <2>2, InsertAtFacts
  <2>4. r = inserted
    BY <1>3 DEF at
  <2> HIDE DEF inserted
  <2> QED
    BY <2>3, <2>4 DEF at
<1>5. DOMAIN r = 1 .. Len(q) + 1
  BY <1>4, LenProperties
<1>6. /\ r[k + 1] = o
      /\ \A i \in 1 .. Len(q) : i <= k => r[i] = q[i]
      /\ \A i \in 1 .. Len(q) : i > k => r[i + 1] = q[i]
  BY <1>1, <1>4
<1>7. ToSet(r) = ToSet(q) \cup {o}
  <2>1. \A i \in 1 .. Len(q) + 1 : r[i] \in ToSet(q) \cup {o}
    <3> TAKE i \in 1 .. Len(q) + 1
    <3>1. CASE i < k + 1
      BY <1>1, <1>4, <3>1 DEF ToSet
    <3>2. CASE i = k + 1
      BY <1>6, <3>2
    <3>3. CASE i > k + 1
      <4>1. i - 1 \in 1 .. Len(q) /\ r[i] = q[i - 1]
        BY <1>1, <1>4, <3>3
      <4> QED
        BY <1>1, <4>1 DEF ToSet
    <3>4. i < k + 1 \/ i = k + 1 \/ i > k + 1
      BY <1>1
    <3> QED
      BY <3>1, <3>2, <3>3, <3>4, Zenon
  <2>2. \A i \in 1 .. Len(q) : \E j \in 1 .. Len(q) + 1 : r[j] = q[i]
    <3> TAKE i \in 1 .. Len(q)
    <3>1. CASE i <= k
      BY <1>1, <1>6, <3>1
    <3>2. CASE i > k
      <4>1. i + 1 \in 1 .. Len(q) + 1 /\ r[i + 1] = q[i]
        BY <1>1, <1>6, <3>2
      <4> QED
        BY <4>1
    <3>3. i <= k \/ i > k
      BY <1>1
    <3> QED
      BY <3>1, <3>2, <3>3, Zenon
  <2>3. o \in ToSet(r)
    BY <1>2, <1>5, <1>6 DEF ToSet
  <2> QED
    BY <1>1, <1>5, <2>1, <2>2, <2>3 DEF ToSet
<1>8. ASSUME Distinct(q), o \notin ToSet(q) PROVE Distinct(r)
  <2>1. \A i \in 1 .. Len(q) : q[i] # o
    BY <1>1, <1>8 DEF ToSet
  <2>2. \A i, j \in 1 .. Len(q) : q[i] = q[j] => i = j
    BY <1>1, <1>8 DEF Distinct
  <2>3. ASSUME NEW i \in 1 .. Len(q) + 1, NEW j \in 1 .. Len(q) + 1, r[i] = r[j], i < j
        PROVE  FALSE
    <3> DEFINE back(x) == IF x < k + 1 THEN x ELSE x - 1
    <3>1. CASE i = k + 1 \/ j = k + 1
      <4>1. \A x \in 1 .. Len(q) + 1 : x # k + 1 => back(x) \in 1 .. Len(q) /\ r[x] = q[back(x)]
        BY <1>1, <1>4
      <4> HIDE DEF back
      <4> QED
        BY <1>6, <2>1, <2>3, <3>1, <4>1
    <3>2. CASE i # k + 1 /\ j # k + 1
      <4>1. back(i) \in 1 .. Len(q) /\ r[i] = q[back(i)]
        BY <1>1, <1>4, <3>2
      <4>2. back(j) \in 1 .. Len(q) /\ r[j] = q[back(j)]
        BY <1>1, <1>4, <3>2
      <4>3. back(i) # back(j)
        BY <1>1, <2>3, <3>2
      <4> HIDE DEF back
      <4> QED
        BY <2>2, <2>3, <4>1, <4>2, <4>3
    <3> QED
      BY <3>1, <3>2
  <2>4. \A i, j \in 1 .. Len(q) + 1 : r[i] = r[j] => ~(i < j) /\ ~(j < i)
    BY <2>3
  <2>5. \A i, j \in 1 .. Len(q) + 1 : i = j \/ i < j \/ j < i
    BY <1>1
  <2> QED
    BY <1>5, <2>4, <2>5 DEF Distinct
<1>9. \A i \in 1 .. k : r[i] = q[i]
  BY <1>1, <1>6
<1> QED
  BY <1>4, <1>7, <1>8, <1>9 DEF k

(* unregister_object_for_update adds nothing and repeats nothing. *)
LEMMA UnregisterFacts ==
  ASSUME NEW q \in Seq(Ids), NEW o \in Ids, Distinct(q), NEW r, r = RemoveFirst(q, o)
  PROVE  /\ r \in Seq(Ids) /\ ToSet(r) \subseteq ToSet(q) /\ Distinct(r)
         /\ o \notin ToSet(q) => r = q
<1>1. Len(q) \in Nat /\ DOMAIN q = 1 .. Len(q)
  BY LenProperties
<1>2. CASE \E i \in 1 .. Len(q) : q[i] = o
  <2>1. PICK i \in 1 .. Len(q) : q[i] = o /\ r = RemoveAt(q, i)
    BY <1>2, RemoveFirstFacts
  <2>2. /\ r \in Seq(Ids) /\ DOMAIN r = 1 .. Len(q) - 1
        /\ \A j \in 1 .. Len(q) - 1 : r[j] = IF j < i THEN q[j] ELSE q[j + 1]
    BY ONLY <2>1, RemoveAtFacts, q \in Seq(Ids), i \in 1 .. Len(q)
  <2> DEFINE from(j) == IF j < i THEN j ELSE j + 1
  <2>3. \A j \in 1 .. Len(q) - 1 : from(j) \in 1 .. Len(q) /\ r[j] = q[from(j)]
    BY <1>1, <2>2
  <2>4. \A j, k \in 1 .. Len(q) - 1 : from(j) = from(k) => j = k
    BY <1>1
  <2> HIDE DEF from
  <2>5. ToSet(r) \subseteq ToSet(q)
    BY <1>1, <2>2, <2>3 DEF ToSet
  <2>6. Distinct(r)
    BY <1>1, <2>2, <2>3, <2>4 DEF Distinct
  <2>7. o \in ToSet(q)
    BY <1>1, <2>1 DEF ToSet
  <2> QED
    BY <2>2, <2>5, <2>6, <2>7
<1>3. CASE ~\E i \in 1 .. Len(q) : q[i] = o
  BY <1>3, RemoveFirstFacts
<1> QED
  BY <1>2, <1>3

-----------------------------------------------------------------------------
(* The objects that a creation at place p brings. *)
NewObjects(p, type) == IF type = "group" THEN {<<p, 0>>, <<p, 1>>} ELSE {<<p, 0>>}

(* What is looked up by name is an object that has a name, or null. *)
LEMMA GetFacts ==
  ASSUME NEW s, Consistent(s), NEW n
  PROVE  /\ get_object(s, n) \in DOMAIN s.name \cup {Null}
         /\ DOMAIN s.name \subseteq Ids
<1>1. PICK O \in SUBSET Ids : s.name \in [O -> Names]
  BY DEF Consistent, States, ObjectMaps
<1>2. DOMAIN s.name \subseteq Ids
  BY <1>1
<1> QED
  BY <1>2 DEF get_object, Consistent, Paired

(* An object that is created lives, and no other begins or ceases to. *)
LEMMA AliveFacts ==
  ASSUME NEW s \in States, NEW r \in States, NEW p \in Places, s.type[p] = "none",
         NEW type \in Types, r.type = [s.type EXCEPT ![p] = type]
  PROVE  /\ Alive(r) = Alive(s) \cup NewObjects(p, type)
         /\ Alive(s) \cap {<<p, 0>>, <<p, 1>>} = {}
         /\ NewObjects(p, type) \subseteq Ids
<1>1. s.type \in [Places -> Types \cup {"none"}]
  BY DEF States
<1>2. r.type[p] = type /\ \A q \in Places : q # p => r.type[q] = s.type[q]
  BY <1>1
<1>3. type # "none" /\ "group" # "none"
  BY DEF Types
<1>4. \A o \in Ids : o[1] # p => (o \in Alive(r) <=> o \in Alive(s))
  BY <1>2, IdFacts DEF Alive
<1>5. \A o \in Ids : o[1] = p => o \notin Alive(s)
  BY <1>3 DEF Alive
<1>6. <<p, 0>> \in Alive(r) /\ (<<p, 1>> \in Alive(r) <=> type = "group")
  BY <1>2, <1>3, PlaceFacts DEF Alive
<1>7. NewObjects(p, type) \subseteq {<<p, 0>>, <<p, 1>>} /\ <<p, 0>> \in NewObjects(p, type)
      /\ (<<p, 1>> \in NewObjects(p, type) <=> type = "group")
  BY PlaceFacts DEF NewObjects
<1>8. <<p, 0>>[1] = p /\ <<p, 1>>[1] = p
  OBVIOUS
<1>9. Alive(s) \cap {<<p, 0>>, <<p, 1>>} = {}
  BY <1>5, <1>8, PlaceFacts
<1>10. Alive(r) \subseteq Ids /\ Alive(s) \subseteq Ids
  BY DEF Alive
<1>11. \A o \in Ids : o \in Alive(r) <=> o \in Alive(s) \/ o \in NewObjects(p, type)
  <2> TAKE o \in Ids
  <2>1. CASE o[1] = p
    <3>1. o = <<p, 0>> \/ o = <<p, 1>>
      BY <2>1, PlaceFacts
    <3> QED
      BY <1>6, <1>7, <1>9, <3>1
  <2>2. CASE o[1] # p
    <3>1. o # <<p, 0>> /\ o # <<p, 1>>
      BY <2>2, <1>8
    <3> QED
      BY <1>4, <1>7, <2>2, <3>1
  <2> QED
    BY <2>1, <2>2
<1> QED
  BY <1>7, <1>9, <1>10, <1>11, PlaceFacts

(* create_object: the objects it brings get names, and one of them may be   *)
(* registered for updates. *)
LEMMA CreateFacts ==
  ASSUME NEW s, Consistent(s), NEW p \in Places, s.type[p] = "none",
         NEW type \in Types, NEW id \in Names
  PROVE  LET r == create_object(s, p, type, id)
         IN  /\ Renamed(s, r, NewObjects(p, type)) /\ SameReferences(s, r)
             /\ r.type = [s.type EXCEPT ![p] = type]
             /\ r.deferred = s.deferred
             /\ \/ r.updates = s.updates
                \/ Basic /\ r.updates = Registered(s.updates, <<p, 0>>)
<1> DEFINE made  == [s EXCEPT !.type[p] = type]
           parts == IF type = "group" THEN rename_object(made, <<p, 1>>, <<"part", 0>>) ELSE made
           named == rename_object(parts, <<p, 0>>, id)
           r     == create_object(s, p, type, id)
<1>1. s \in States /\ Paired(s.map, s.name)
  BY DEF Consistent
<1>2. /\ made \in States /\ made.map = s.map /\ made.name = s.name
      /\ made.type = [s.type EXCEPT ![p] = type]
      /\ made.updates = s.updates /\ made.deferred = s.deferred
      /\ SameReferences(s, made)
  BY <1>1 DEF States, SameReferences
<1> HIDE DEF made
<1>3. Consistent(made)
  BY <1>1, <1>2 DEF Consistent
<1>4. /\ Consistent(parts) /\ SameReferences(s, parts)
      /\ parts.type = made.type /\ parts.updates = s.updates /\ parts.deferred = s.deferred
      /\ DOMAIN parts.name = DOMAIN s.name \cup (NewObjects(p, type) \ {<<p, 0>>})
      /\ \A x \in DOMAIN s.name \ NewObjects(p, type) : parts.name[x] = s.name[x]
  <2>1. CASE type = "group"
    <3>1. <<p, 1>> \in Ids /\ <<"part", 0>> \in Names
      BY PlaceFacts DEF Names, Texts
    <3>2. parts = rename_object(made, <<p, 1>>, <<"part", 0>>)
      BY <2>1
    <3> HIDE DEF parts
    <3>3. /\ Renamed(made, parts, {<<p, 1>>}) /\ SameReferences(made, parts)
          /\ parts.type = made.type /\ parts.updates = made.updates
          /\ parts.deferred = made.deferred
      BY <1>3, <3>1, <3>2, RenameFacts
    <3>4. NewObjects(p, type) \ {<<p, 0>>} = {<<p, 1>>} /\ <<p, 1>> \in NewObjects(p, type)
      BY <2>1, PlaceFacts DEF NewObjects
    <3> QED
      BY <1>2, <3>3, <3>4 DEF Renamed, SameReferences
  <2>2. CASE type # "group"
    <3>1. parts = made
      BY <2>2
    <3> HIDE DEF parts
    <3>2. NewObjects(p, type) \ {<<p, 0>>} = {}
      BY <2>2 DEF NewObjects
    <3> QED
      BY <1>2, <1>3, <3>1, <3>2
  <2> QED
    BY <2>1, <2>2
<1> HIDE DEF parts
<1>5. /\ Renamed(parts, named, {<<p, 0>>}) /\ SameReferences(parts, named)
      /\ named.type = parts.type /\ named.updates = parts.updates
      /\ named.deferred = parts.deferred
  <2>1. named = rename_object(parts, <<p, 0>>, id) /\ <<p, 0>> \in Ids /\ Consistent(parts)
    BY <1>4, PlaceFacts
  <2> HIDE DEF named
  <2> QED
    BY <2>1, RenameFacts
<1> HIDE DEF named
<1>6. /\ Renamed(s, named, NewObjects(p, type)) /\ SameReferences(s, named)
      /\ named.type = [s.type EXCEPT ![p] = type]
      /\ named.updates = s.updates /\ named.deferred = s.deferred
  <2>1. <<p, 0>> \in NewObjects(p, type)
    BY DEF NewObjects
  <2> QED
    BY <1>2, <1>4, <1>5, <2>1 DEF Renamed, SameReferences
<1>7. CASE Basic /\ wants_game_update(type)
  <2>1. r = [named EXCEPT !.updates = Registered(named.updates, <<p, 0>>)]
    BY <1>7 DEF create_object, register_object_for_update, Registered, named, parts, made
  <2>2. named \in States /\ named.updates \in Seq(Ids)
    BY <1>6 DEF Renamed, Consistent, States
  <2>3. Registered(named.updates, <<p, 0>>) \in Seq(Ids)
    BY <2>2, PlaceFacts, RegisterFacts
  <2>4. /\ r \in States
        /\ r.updates = Registered(s.updates, <<p, 0>>)
        /\ r.map = named.map /\ r.name = named.name /\ r.type = named.type
        /\ r.deferred = named.deferred /\ SameReferences(named, r)
    BY <1>6, <2>1, <2>2, <2>3 DEF States, SameReferences
  <2> HIDE DEF r
  <2> QED
    BY <1>6, <1>7, <2>4 DEF Renamed, Consistent, SameReferences, r
<1>8. CASE ~(Basic /\ wants_game_update(type))
  <2>1. r = named
    BY <1>8 DEF create_object, named, parts, made
  <2> HIDE DEF r
  <2> QED
    BY <1>6, <2>1 DEF r
<1> QED
  BY <1>7, <1>8

(* deserialize_raw: the object may get another name, and its reference is   *)
(* deferred. *)
LEMMA DeserializeFacts ==
  ASSUME NEW s, Consistent(s), NEW o \in DOMAIN s.name,
         NEW def, def.id \in Names, def.ref \in Names
  PROVE  LET r == deserialize_raw(s, o, def)
         IN  /\ Renamed(s, r, {o}) /\ SameReferences(s, r)
             /\ r.type = s.type /\ r.updates = s.updates
             /\ r.deferred = Append(s.deferred, [object |-> o, target |-> def.ref])
<1> DEFINE renamed == IF def.id = TooShort THEN s ELSE rename_object(s, o, def.id)
           entry   == [object |-> o, target |-> def.ref]
           r       == deserialize_raw(s, o, def)
<1>1. o \in Ids
  BY GetFacts
<1>2. /\ Renamed(s, renamed, {o}) /\ SameReferences(s, renamed)
      /\ renamed.type = s.type /\ renamed.updates = s.updates /\ renamed.deferred = s.deferred
  <2>1. CASE def.id = TooShort
    <3>1. renamed = s
      BY <2>1
    <3> HIDE DEF renamed
    <3> QED
      BY <3>1 DEF Renamed, SameReferences
  <2>2. CASE def.id # TooShort
    <3>1. renamed = rename_object(s, o, def.id)
      BY <2>2
    <3> HIDE DEF renamed
    <3> QED
      BY <1>1, <3>1, RenameFacts
  <2> QED
    BY <2>1, <2>2
<1>3. r = [renamed EXCEPT !.deferred = Append(renamed.deferred, entry)]
  BY DEF deserialize_raw, defer_attribute_deserialization
<1> HIDE DEF renamed
<1>4. renamed \in States /\ renamed.deferred \in Seq(Deferred) /\ entry \in Deferred
  BY <1>1, <1>2 DEF Renamed, Consistent, States, Deferred
<1> HIDE DEF entry
<1>5. Append(renamed.deferred, entry) \in Seq(Deferred)
  BY <1>4
<1>6. /\ r \in States /\ r.map = renamed.map /\ r.name = renamed.name /\ r.type = renamed.type
      /\ r.updates = renamed.updates /\ r.deferred = Append(renamed.deferred, entry)
      /\ SameReferences(renamed, r)
  BY <1>3, <1>4, <1>5 DEF States, SameReferences
<1> HIDE DEF r
<1> QED
  BY <1>2, <1>6 DEF Renamed, Consistent, SameReferences, r, entry

(* perform_deferred_deserialization: an object for which an attribute was   *)
(* deferred may get another reference, to an object with a name or to none. *)
LEMMA PerformFacts ==
  ASSUME NEW s, Consistent(s)
  PROVE  LET r == PerformDeferred(s)
         IN  /\ Consistent(r) /\ r.map = s.map /\ r.name = s.name /\ r.type = s.type
             /\ r.updates = s.updates /\ r.root = s.root /\ r.external = s.external
             /\ r.kind = s.kind /\ r.deferred = <<>>
             /\ \A o \in Ids :
                  /\ r.ref[o] = perform(s, o)
                  /\ \/ r.ref[o] = s.ref[o]
                     \/ /\ r.ref[o] \in DOMAIN s.name \cup {Null}
                        /\ \E i \in DOMAIN s.deferred : s.deferred[i].object = o
<1> DEFINE ref == [o \in Ids |-> perform(s, o)]
           r   == PerformDeferred(s)
<1>1. s \in States /\ s.ref \in [Ids -> Ids \cup {Null}] /\ DOMAIN s.name \subseteq Ids
  BY GetFacts DEF Consistent, States
<1>2. ASSUME NEW o \in Ids
      PROVE  \/ perform(s, o) = s.ref[o]
             \/ /\ perform(s, o) \in DOMAIN s.name \cup {Null}
                /\ \E i \in DOMAIN s.deferred : s.deferred[i].object = o
  <2>1. CASE Pending(s, o) = {}
    BY <2>1 DEF perform
  <2>2. CASE Pending(s, o) # {}
    <3>1. perform(s, o) \in DOMAIN s.name \cup {Null}
      BY <2>2, GetFacts DEF perform
    <3>2. \E i \in DOMAIN s.deferred : s.deferred[i].object = o
      BY <2>2 DEF Pending
    <3> QED
      BY <3>1, <3>2
  <2> QED
    BY <2>1, <2>2
<1>3. ref \in [Ids -> Ids \cup {Null}] /\ \A o \in Ids : ref[o] = perform(s, o)
  BY <1>1, <1>2
<1>4. <<>> \in Seq(Deferred)
  BY EmptySeq
<1>5. r = [s EXCEPT !.ref = ref, !.deferred = <<>>]
  BY DEF PerformDeferred
<1> HIDE DEF ref
<1>6. /\ r \in States /\ r.map = s.map /\ r.name = s.name /\ r.type = s.type
      /\ r.updates = s.updates /\ r.root = s.root /\ r.external = s.external
      /\ r.kind = s.kind /\ r.deferred = <<>> /\ r.ref = ref
  BY <1>1, <1>3, <1>4, <1>5 DEF States
<1> HIDE DEF r
<1> QED
  BY <1>2, <1>3, <1>6 DEF Consistent, r

-----------------------------------------------------------------------------
(* What holds of a universe between two calls. The reference of an object   *)
(* that is gone is null, since the place may be used again; the root is     *)
(* apart, because the basic universe keeps an old one while it makes a new. *)
UpdatesSound(s) == ToSet(s.updates) \subseteq Alive(s) /\ Distinct(s.updates)

AttributesSound(s) ==
    \A o \in Ids :
      s.ref[o] \in Alive(s) \cup {Null} /\ (o \notin Alive(s) => s.ref[o] = Null)

ExternalSound(s) == \A r \in Roots : s.external[r] \in Alive(s) \cup {NotARoot}

Whole(s) ==
    /\ Consistent(s)
    /\ DOMAIN s.name = Alive(s)
    /\ UpdatesSound(s) /\ AttributesSound(s) /\ ExternalSound(s)

Rooted(s) == s.root \in Alive(s) \cup {Null}

(* r has the objects of O under the names they have in s. *)
KeepsNamesOf(s, r, O) == \A o \in O : o \in DOMAIN r.name /\ r.name[o] = s.name[o]

(* r is s with new objects at the place p. *)
Brought(s, r, p, type) ==
    /\ Whole(r) /\ Alive(r) = Alive(s) \cup NewObjects(p, type) /\ <<p, 0>> \in Alive(r)
    /\ r.root = s.root /\ KeepsNamesOf(s, r, Alive(s))

(* A universe without objects, empty or cleared. *)
LEMMA ClearedFacts ==
  ASSUME NEW s \in States, s.type = [p \in Places |-> "none"], s.ref = [o \in Ids |-> Null],
         s.map = NoNames, s.name = NoNames, s.updates = <<>>,
         \A r \in Roots : s.external[r] = NotARoot
  PROVE  Whole(s) /\ Alive(s) = {}
<1>1. DOMAIN NoNames = {}
  BY DEF NoNames
<1>2. DOMAIN s.updates = {}
  BY EmptySeq
<1>3. Alive(s) = {}
  BY IdFacts DEF Alive
<1>4. Consistent(s)
  BY <1>1, FS_EmptySet DEF Consistent, Paired
<1>5. UpdatesSound(s)
  BY <1>2 DEF UpdatesSound, ToSet, Distinct
<1>6. AttributesSound(s) /\ ExternalSound(s)
  BY DEF AttributesSound, ExternalSound
<1> QED
  BY <1>1, <1>3, <1>4, <1>5, <1>6 DEF Whole

(* The universe that EmptyUniverse makes, and what clear makes of it. *)
LEMMA EmptyFacts ==
  ASSUME NEW kind \in {"basic", "editor"}
  PROVE  LET e == EmptyUniverse(kind)
         IN  /\ e \in States
             /\ e.type = [p \in Places |-> "none"] /\ e.ref = [o \in Ids |-> Null]
             /\ e.map = NoNames /\ e.name = NoNames /\ e.root = Null /\ e.updates = <<>>
             /\ e.deferred = <<>> /\ e.external = [r \in Roots |-> NotARoot] /\ e.kind = kind
<1> DEFINE e == EmptyUniverse(kind)
<1>1. NoNames \in NameMaps /\ NoNames \in ObjectMaps
  <2>1. NoNames \in [{} -> Ids] /\ NoNames \in [{} -> Names]
    BY DEF NoNames
  <2>2. {} \in SUBSET Names /\ {} \in SUBSET Ids
    OBVIOUS
  <2> QED
    BY <2>1, <2>2 DEF NameMaps, ObjectMaps
<1>2. <<>> \in Seq(Ids) /\ <<>> \in Seq(Deferred)
  BY EmptySeq
<1>3. e \in States
  BY <1>1, <1>2 DEF EmptyUniverse, States
<1> QED
  BY <1>3 DEF EmptyUniverse

(* create_object keeps the universe whole. *)
LEMMA CreateSound ==
  ASSUME NEW s, Whole(s), NEW p \in FreePlaces(s), NEW type \in Types, NEW id \in Names
  PROVE  LET r == create_object(s, p, type, id)
         IN  /\ Whole(r) /\ Alive(r) = Alive(s) \cup NewObjects(p, type)
             /\ r.root = s.root /\ r.deferred = s.deferred
             /\ KeepsNamesOf(s, r, Alive(s))
<1> DEFINE r == create_object(s, p, type, id)
<1>0. p \in Places /\ s.type[p] = "none"
  BY DEF FreePlaces
<1>1. /\ Renamed(s, r, NewObjects(p, type)) /\ SameReferences(s, r)
      /\ r.type = [s.type EXCEPT ![p] = type]
      /\ r.deferred = s.deferred
      /\ \/ r.updates = s.updates
         \/ Basic /\ r.updates = Registered(s.updates, <<p, 0>>)
  BY <1>0, CreateFacts DEF Whole
<1> HIDE DEF r
<1>2. s \in States /\ r \in States
  BY <1>1 DEF Whole, Renamed, Consistent
<1>3. /\ Alive(r) = Alive(s) \cup NewObjects(p, type)
      /\ Alive(s) \cap {<<p, 0>>, <<p, 1>>} = {}
  BY <1>0, <1>1, <1>2, AliveFacts
<1>4. <<p, 0>> \in NewObjects(p, type) /\ NewObjects(p, type) \subseteq {<<p, 0>>, <<p, 1>>}
  BY DEF NewObjects
<1>5. UpdatesSound(r)
  <2>1. CASE r.updates = s.updates
    BY <1>3, <2>1 DEF Whole, UpdatesSound
  <2>2. CASE r.updates = Registered(s.updates, <<p, 0>>)
    <3>1. s.updates \in Seq(Ids) /\ <<p, 0>> \in Ids
      BY <1>0, <1>2, PlaceFacts DEF States
    <3>2. /\ ToSet(r.updates) = ToSet(s.updates) \cup {<<p, 0>>}
          /\ Distinct(s.updates) /\ <<p, 0>> \notin ToSet(s.updates) => Distinct(r.updates)
      BY <2>2, <3>1, RegisterFacts
    <3> QED
      BY <1>3, <1>4, <3>2 DEF Whole, UpdatesSound
  <2> QED
    BY <1>1, <2>1, <2>2
<1>6. AttributesSound(r) /\ ExternalSound(r) /\ r.root = s.root
  BY <1>1, <1>3 DEF Whole, AttributesSound, ExternalSound, SameReferences
<1>7. KeepsNamesOf(s, r, Alive(s))
  BY <1>1, <1>3, <1>4 DEF Whole, Renamed, KeepsNamesOf
<1>8. Whole(r)
  BY <1>1, <1>3, <1>5, <1>6 DEF Whole, Renamed
<1> QED
  BY <1>1, <1>3, <1>6, <1>7, <1>8 DEF r

(* A rename keeps the universe whole, and the names of all the other        *)
(* objects. *)
LEMMA RenameSound ==
  ASSUME NEW s, Whole(s), NEW o \in Alive(s), NEW wanted \in Names
  PROVE  LET r == rename_object(s, o, wanted)
         IN  /\ Whole(r) /\ Alive(r) = Alive(s) /\ r.root = s.root /\ r.deferred = s.deferred
             /\ KeepsNamesOf(s, r, Alive(s) \ {o})
<1> DEFINE r == rename_object(s, o, wanted)
<1>1. o \in Ids /\ o \in DOMAIN s.name /\ Consistent(s)
  BY DEF Alive, Whole
<1>2. /\ Renamed(s, r, {o}) /\ SameReferences(s, r)
      /\ r.type = s.type /\ r.updates = s.updates /\ r.deferred = s.deferred
  BY <1>1, RenameFacts
<1> HIDE DEF r
<1>3. Alive(r) = Alive(s)
  BY <1>2 DEF Alive
<1> QED
  BY <1>1, <1>2, <1>3
  DEF Whole, UpdatesSound, AttributesSound, ExternalSound, Renamed, SameReferences, KeepsNamesOf, r

(* deserialize_raw keeps the universe whole, and the names of all the       *)
(* other objects. *)
LEMMA DeserializeSound ==
  ASSUME NEW s, Whole(s), NEW o \in Alive(s),
         NEW def, def.id \in Names, def.ref \in Names
  PROVE  LET r == deserialize_raw(s, o, def)
         IN  /\ Whole(r) /\ Alive(r) = Alive(s) /\ r.root = s.root
             /\ r.deferred = Append(s.deferred, [object |-> o, target |-> def.ref])
             /\ KeepsNamesOf(s, r, Alive(s) \ {o})
<1> DEFINE r == deserialize_raw(s, o, def)
<1>1. /\ Renamed(s, r, {o}) /\ SameReferences(s, r)
      /\ r.type = s.type /\ r.updates = s.updates
      /\ r.deferred = Append(s.deferred, [object |-> o, target |-> def.ref])
  BY DeserializeFacts DEF Whole
<1> HIDE DEF r
<1>2. Alive(r) = Alive(s)
  BY <1>1 DEF Alive
<1> QED
  BY <1>1, <1>2 DEF Whole, UpdatesSound, AttributesSound, ExternalSound, Renamed, SameReferences, KeepsNamesOf, r

(* deserialize_object is a creation and deserialize_raw of the new object.  *)
LEMMA DeserializeObjectSound ==
  ASSUME NEW s, Whole(s), NEW p \in FreePlaces(s), NEW def \in Definitions
  PROVE  LET r == deserialize_object(s, p, def)
         IN  /\ Brought(s, r, p, def.type)
             /\ r.deferred = Append(s.deferred, [object |-> <<p, 0>>, target |-> def.ref])
<1> DEFINE made == create_object(s, p, def.type, def.id)
           r    == deserialize_object(s, p, def)
<1>1. /\ def.type \in Types /\ def.id \in Names /\ def.ref \in Names
  BY NameFacts DEF Definitions
<1>2. /\ Whole(made) /\ Alive(made) = Alive(s) \cup NewObjects(p, def.type)
      /\ made.root = s.root /\ made.deferred = s.deferred
      /\ KeepsNamesOf(s, made, Alive(s))
  BY <1>1, CreateSound
<1>3. <<p, 0>> \in NewObjects(p, def.type)
  BY DEF NewObjects
<1>4. <<p, 0>> \notin Alive(s)
  BY DEF Alive, FreePlaces
<1>5. r = deserialize_raw(made, <<p, 0>>, def)
  BY DEF deserialize_object
<1> HIDE DEF made, r
<1>6. /\ Whole(r) /\ Alive(r) = Alive(made) /\ r.root = made.root
      /\ r.deferred = Append(made.deferred, [object |-> <<p, 0>>, target |-> def.ref])
      /\ KeepsNamesOf(made, r, Alive(made) \ {<<p, 0>>})
  <2> DEFINE o == <<p, 0>>
  <2>1. o \in Alive(made) /\ def.id \in Names /\ def.ref \in Names
    BY <1>1, <1>2, <1>3
  <2> HIDE DEF o
  <2>2. r = deserialize_raw(made, o, def)
    BY <1>5 DEF o
  <2>3. Whole(made)
    BY <1>2
  <2>4. Whole(r) /\ Alive(r) = Alive(made) /\ r.root = made.root
    BY <2>1, <2>2, <2>3, DeserializeSound
  <2>5. r.deferred = Append(made.deferred, [object |-> o, target |-> def.ref])
    BY <2>1, <2>2, <2>3, DeserializeSound
  <2>6. KeepsNamesOf(made, r, Alive(made) \ {o})
    BY <2>1, <2>2, <2>3, DeserializeSound
  <2> QED
    BY <2>4, <2>5, <2>6 DEF o
<1>7. KeepsNamesOf(s, r, Alive(s))
  BY <1>2, <1>4, <1>6 DEF KeepsNamesOf
<1> QED
  BY <1>2, <1>3, <1>6, <1>7 DEF Brought, r

(* When the objects that wait for a reference live, performing what was     *)
(* deferred keeps the universe whole. *)
LEMMA PerformSound ==
  ASSUME NEW s, Whole(s), \A i \in DOMAIN s.deferred : s.deferred[i].object \in Alive(s)
  PROVE  LET r == PerformDeferred(s)
         IN  /\ Whole(r) /\ Alive(r) = Alive(s) /\ r.root = s.root
             /\ r.map = s.map /\ r.name = s.name
             /\ \A o \in Ids : r.ref[o] = perform(s, o)
<1> DEFINE r == PerformDeferred(s)
<1>1. /\ Consistent(r) /\ r.map = s.map /\ r.name = s.name /\ r.type = s.type
      /\ r.updates = s.updates /\ r.root = s.root /\ r.external = s.external
      /\ \A o \in Ids :
           /\ r.ref[o] = perform(s, o)
           /\ \/ r.ref[o] = s.ref[o]
              \/ /\ r.ref[o] \in DOMAIN s.name \cup {Null}
                 /\ \E i \in DOMAIN s.deferred : s.deferred[i].object = o
  BY PerformFacts DEF Whole
<1> HIDE DEF r
<1>2. Alive(r) = Alive(s)
  BY <1>1 DEF Alive
<1>3. AttributesSound(r)
  BY <1>1, <1>2 DEF Whole, AttributesSound
<1> QED
  BY <1>1, <1>2, <1>3 DEF Whole, UpdatesSound, ExternalSound, r

-----------------------------------------------------------------------------
(* The inductive invariant. Until a defect is met the universe is whole,    *)
(* and an update that runs has called the objects in front of its place,    *)
(* none of which moved since it began.                                      *)
PassInv ==
    \/ pass = NoPass
    \/ /\ pass.until \in Nat /\ pass.until <= Len(u.updates)
       /\ pass.at \in 1 .. pass.until + 1
       /\ DOMAIN pass.done = 1 .. pass.at - 1
       /\ pass.done \in Seq(Ids)
       /\ \A i \in 1 .. pass.at - 1 : pass.done[i] = u.updates[i]
       /\ pass.registered = {u.updates[i] : i \in 1 .. pass.until}

IInv == fault = "none" => Whole(u) /\ Rooted(u) /\ PassInv

(* A call that leaves the universe whole, and no update under way. *)
LEMMA CallFacts ==
  ASSUME Whole(u'), Rooted(u'), Outside, UNCHANGED pass
  PROVE  IInv'
BY DEF IInv, PassInv, Outside

(* The links of a scene, right after it was instantiated. *)
Linked(s, links) == \A link \in links : link[2] # TooShort => s.ref[link[1]] = get_object(s, link[2])

LEMMA OneDeferred ==
  ASSUME NEW o \in Ids, NEW n, NEW s, Consistent(s), s.deferred = <<[object |-> o, target |-> n]>>
  PROVE  n # TooShort => perform(s, o) = get_object(s, n)
<1> SUFFICES ASSUME n # TooShort PROVE perform(s, o) = get_object(s, n)
  OBVIOUS
<1>1. DOMAIN s.deferred = {1} /\ s.deferred[1].object = o /\ s.deferred[1].target = n
  OBVIOUS
<1>2. Pending(s, o) = {1}
  BY <1>1 DEF Pending
<1>3. Max({1}) = 1
  BY DEF Max
<1> QED
  BY <1>1, <1>2, <1>3 DEF perform

LEMMA TwoDeferred ==
  ASSUME NEW o1 \in Ids, NEW o2 \in Ids, o1 # o2, NEW n1, NEW n2, NEW s, Consistent(s),
         s.deferred = <<[object |-> o1, target |-> n1], [object |-> o2, target |-> n2]>>
  PROVE  /\ n1 # TooShort => perform(s, o1) = get_object(s, n1)
         /\ n2 # TooShort => perform(s, o2) = get_object(s, n2)
<1>1. /\ DOMAIN s.deferred = {1, 2}
      /\ s.deferred[1].object = o1 /\ s.deferred[1].target = n1
      /\ s.deferred[2].object = o2 /\ s.deferred[2].target = n2
  OBVIOUS
<1>2. Max({1}) = 1 /\ Max({2}) = 2
  BY DEF Max
<1>3. n1 # TooShort => Pending(s, o1) = {1}
  BY <1>1 DEF Pending
<1>4. n2 # TooShort => Pending(s, o2) = {2}
  BY <1>1 DEF Pending
<1> QED
  BY <1>1, <1>2, <1>3, <1>4 DEF perform

(* What Instantiate makes of a universe. *)
Scene(s, p1, p2, d1, d2) ==
    LET one == deserialize_object(s, p1, d1)
    IN  PerformDeferred(IF p1 = p2 THEN one ELSE deserialize_object(one, p2, d2))

(* A scene of one or two objects leaves the universe whole, the names of    *)
(* the other objects as they were, and its references resolved. *)
LEMMA SceneFacts ==
  ASSUME NEW s, Whole(s), s.deferred = <<>>, NEW p1 \in FreePlaces(s), NEW p2 \in FreePlaces(s),
         NEW d1 \in Definitions, NEW d2 \in Definitions, p1 = p2 => d1 = d2
  PROVE  LET r == Scene(s, p1, p2, d1, d2)
         IN  /\ Whole(r) /\ Alive(s) \subseteq Alive(r) /\ r.root = s.root
             /\ KeepsNamesOf(s, r, Alive(s))
             /\ Linked(r, {<<<<p1, 0>>, d1.ref>>, <<<<p2, 0>>, d2.ref>>})
<1> SUFFICES
      ASSUME NEW one, one = deserialize_object(s, p1, d1),
             NEW all, all = IF p1 = p2 THEN one ELSE deserialize_object(one, p2, d2),
             NEW r, r = PerformDeferred(all)
      PROVE  /\ Whole(r) /\ Alive(s) \subseteq Alive(r) /\ r.root = s.root
             /\ KeepsNamesOf(s, r, Alive(s))
             /\ Linked(r, {<<<<p1, 0>>, d1.ref>>, <<<<p2, 0>>, d2.ref>>})
  BY DEF Scene
<1> DEFINE o1 == <<p1, 0>>
           o2 == <<p2, 0>>
           e1 == [object |-> o1, target |-> d1.ref]
           e2 == [object |-> o2, target |-> d2.ref]
<1>1. p1 \in Places /\ p2 \in Places /\ s.type[p2] = "none"
  BY DEF FreePlaces
<1>2. o1 \in Ids /\ o2 \in Ids /\ (p1 # p2 => o1 # o2)
  BY <1>1, PlaceFacts
<1>3. /\ Whole(one) /\ Alive(one) = Alive(s) \cup NewObjects(p1, d1.type)
      /\ o1 \in Alive(one) /\ one.root = s.root
      /\ KeepsNamesOf(s, one, Alive(s))
  BY DeserializeObjectSound DEF Brought
<1>4. one.deferred = <<e1>>
  <2>1. one.deferred = Append(<<>>, e1)
    BY DeserializeObjectSound
  <2> HIDE DEF e1
  <2> QED
    BY <2>1
<1>5. ASSUME NEW all2, Whole(all2), Alive(s) \subseteq Alive(all2), all2.root = s.root,
             KeepsNamesOf(s, all2, Alive(s)), NEW r2, r2 = PerformDeferred(all2),
             \A i \in DOMAIN all2.deferred : all2.deferred[i].object \in Alive(all2)
      PROVE  /\ Whole(r2) /\ Alive(s) \subseteq Alive(r2) /\ r2.root = s.root
             /\ KeepsNamesOf(s, r2, Alive(s)) /\ r2.map = all2.map
             /\ \A o \in Ids : r2.ref[o] = perform(all2, o)
  <2>1. /\ Whole(r2) /\ Alive(r2) = Alive(all2) /\ r2.root = all2.root
        /\ r2.map = all2.map /\ r2.name = all2.name
        /\ \A o \in Ids : r2.ref[o] = perform(all2, o)
    BY <1>5, PerformSound
  <2> QED
    BY <1>5, <2>1 DEF KeepsNamesOf
<1>6. CASE p1 = p2
  <2>1. all = one
    BY <1>6
  <2>2. \A i \in DOMAIN one.deferred : one.deferred[i].object \in Alive(one)
    BY <1>3, <1>4
  <2>3. /\ Whole(r) /\ Alive(s) \subseteq Alive(r) /\ r.root = s.root
        /\ KeepsNamesOf(s, r, Alive(s)) /\ r.map = one.map
        /\ \A o \in Ids : r.ref[o] = perform(one, o)
    BY <1>3, <1>5, <2>1, <2>2
  <2>4. d1.ref # TooShort => perform(one, o1) = get_object(one, d1.ref)
    <3> HIDE DEF o1
    <3>1. one.deferred = <<[object |-> o1, target |-> d1.ref]>>
      BY <1>4
    <3> QED
      BY <1>2, <1>3, <3>1, OneDeferred DEF Whole
  <2>5. Linked(r, {<<o1, d1.ref>>})
    BY <1>2, <2>3, <2>4 DEF Linked, get_object
  <2>6. <<o2, d2.ref>> = <<o1, d1.ref>>
    BY <1>6
  <2> QED
    BY <2>3, <2>5, <2>6
<1>7. CASE p1 # p2
  <2>1. all = deserialize_object(one, p2, d2)
    BY <1>7
  <2>2. p2 \in FreePlaces(one)
    <3>1. o2 \notin Alive(s) /\ o2 \notin NewObjects(p1, d1.type)
      BY <1>1, <1>7 DEF Alive, NewObjects
    <3> QED
      BY <1>1, <1>2, <1>3, <3>1 DEF Alive, FreePlaces
  <2>3. /\ Whole(all) /\ Alive(all) = Alive(one) \cup NewObjects(p2, d2.type)
        /\ o2 \in Alive(all) /\ all.root = one.root
        /\ KeepsNamesOf(one, all, Alive(one))
    <3>1. Brought(one, all, p2, d2.type)
      BY <1>3, <2>1, <2>2, DeserializeObjectSound
    <3> QED
      BY <3>1 DEF Brought
  <2>4. all.deferred = <<e1, e2>>
    <3>1. all.deferred = Append(<<e1>>, e2)
      BY <1>3, <1>4, <2>1, <2>2, DeserializeObjectSound
    <3> HIDE DEF e1, e2
    <3> QED
      BY <3>1
  <2>5. \A i \in DOMAIN all.deferred : all.deferred[i].object \in Alive(all)
    BY <1>3, <2>3, <2>4
  <2>6. KeepsNamesOf(s, all, Alive(s))
    BY <1>3, <2>3 DEF KeepsNamesOf
  <2>7. /\ Whole(r) /\ Alive(s) \subseteq Alive(r) /\ r.root = s.root
        /\ KeepsNamesOf(s, r, Alive(s)) /\ r.map = all.map
        /\ \A o \in Ids : r.ref[o] = perform(all, o)
    BY <1>3, <1>5, <2>3, <2>5, <2>6
  <2>8. /\ d1.ref # TooShort => perform(all, o1) = get_object(all, d1.ref)
        /\ d2.ref # TooShort => perform(all, o2) = get_object(all, d2.ref)
    <3> HIDE DEF o1, o2
    <3>1. all.deferred = <<[object |-> o1, target |-> d1.ref], [object |-> o2, target |-> d2.ref]>>
      BY <2>4
    <3> QED
      BY <1>2, <1>7, <2>3, <3>1, TwoDeferred DEF Whole
  <2> QED
    BY <1>2, <2>7, <2>8 DEF Linked, get_object
<1> QED
  BY <1>6, <1>7

-----------------------------------------------------------------------------
(* What every step of the program does: it keeps the invariant, leaves the  *)
(* references of a scene resolved if it made one, and treats the names as   *)
(* the registry allows. *)
NameStep ==
    \/ u'.name = u.name
    \/ Registry!Rename \/ Registry!Populate \/ Registry!Recreate \/ Registry!Clear

StepSound == IInv' /\ ReferencesResolve' /\ NameStep

(* A defect ends it all; the other calls are judged by what they leave. *)
LEMMA FailsFacts ==
  ASSUME NEW why, Fails(why)
  PROVE  StepSound
BY DEF Fails, StepSound, IInv, ReferencesResolve, NameStep

LEMMA PopulateFacts ==
  ASSUME Whole(u), Whole(u'), Rooted(u'), Outside, UNCHANGED pass, event' = NoEvent,
         KeepsNamesOf(u, u', Alive(u))
  PROVE  StepSound
<1>1. Registry!Populate
  BY DEF Registry!Populate, Registry!Keeps, Whole, KeepsNamesOf, NoEvent
<1> QED
  BY <1>1, CallFacts DEF StepSound, ReferencesResolve, NameStep, NoEvent

LEMMA ChangeFacts ==
  ASSUME Whole(u'), Rooted(u'), Outside, UNCHANGED pass, event' = NoEvent, u'.name = u.name
  PROVE  StepSound
BY CallFacts DEF StepSound, ReferencesResolve, NameStep, NoEvent

-----------------------------------------------------------------------------
(* CreateObject: create_object at a free place. *)
LEMMA CreateObjectStep ==
  ASSUME IInv, fault = "none", CreateObject
  PROVE  StepSound
<1>1. PICK p \in FreePlaces(u), type \in Types, id \in Wanted :
        /\ Outside /\ u' = create_object(u, p, type, id) /\ event' = NoEvent
        /\ UNCHANGED <<pass, fault>>
  BY DEF CreateObject
<1>2. id \in Names
  BY NameFacts
<1>3. Whole(u) /\ Rooted(u)
  BY DEF IInv
<1>4. /\ Whole(u') /\ Alive(u') = Alive(u) \cup NewObjects(p, type) /\ u'.root = u.root
      /\ KeepsNamesOf(u, u', Alive(u))
  BY <1>1, <1>2, <1>3, CreateSound
<1>5. Rooted(u')
  BY <1>3, <1>4 DEF Rooted
<1> QED
  BY <1>1, <1>3, <1>4, <1>5, PopulateFacts

(* basic_clear leaves a universe without objects that still has the root. *)
LEMMA BasicClearFacts ==
  ASSUME NEW s \in States
  PROVE  /\ Whole(basic_clear(s)) /\ Alive(basic_clear(s)) = {}
         /\ basic_clear(s).root = s.root
<1> DEFINE e == EmptyUniverse(s.kind)
           r == basic_clear(s)
<1>1. /\ e \in States
      /\ e.type = [p \in Places |-> "none"] /\ e.ref = [o \in Ids |-> Null]
      /\ e.map = NoNames /\ e.name = NoNames /\ e.updates = <<>>
      /\ e.external = [x \in Roots |-> NotARoot]
  BY EmptyFacts DEF States
<1>2. r = [e EXCEPT !.root = s.root, !.deferred = s.deferred]
  BY DEF basic_clear
<1> HIDE DEF e
<1>3. s.root \in Ids \cup {Null} /\ s.deferred \in Seq(Deferred)
  BY DEF States
<1>4. /\ r \in States /\ r.type = e.type /\ r.ref = e.ref /\ r.map = e.map /\ r.name = e.name
      /\ r.updates = e.updates /\ r.external = e.external /\ r.root = s.root
  BY <1>1, <1>2, <1>3 DEF States
<1> HIDE DEF r
<1>5. Whole(r) /\ Alive(r) = {}
  BY <1>1, <1>4, ClearedFacts
<1> QED
  BY <1>4, <1>5 DEF r

(* Another root. *)
LEMMA RootFacts ==
  ASSUME NEW s, Whole(s), NEW o \in Ids \cup {Null}, NEW r, r = [s EXCEPT !.root = o]
  PROVE  /\ Whole(r) /\ Alive(r) = Alive(s) /\ r.name = s.name /\ r.root = o
<1>1. s \in States
  BY DEF Whole, Consistent
<1>2. /\ r \in States /\ r.root = o /\ r.map = s.map /\ r.name = s.name /\ r.type = s.type
      /\ r.ref = s.ref /\ r.updates = s.updates /\ r.external = s.external
  BY <1>1 DEF States
<1>3. Alive(r) = Alive(s)
  BY <1>2 DEF Alive
<1> QED
  BY <1>2, <1>3 DEF Whole, Consistent, UpdatesSound, AttributesSound, ExternalSound

(* CreateRoot: the basic universe is cleared, the object is made, and it is *)
(* the root. *)
LEMMA CreateRootStep ==
  ASSUME IInv, fault = "none", CreateRoot
  PROVE  StepSound
<1> DEFINE s == IF Basic THEN basic_clear(u) ELSE u
<1>1. PICK p \in Places, type \in Types, id \in Wanted :
        /\ Outside /\ p \in FreePlaces(s)
        /\ u' = [create_object(s, p, type, id) EXCEPT !.root = <<p, 0>>]
        /\ event' = IF Basic THEN [op |-> "clear"] ELSE NoEvent
        /\ UNCHANGED <<pass, fault>>
  BY DEF CreateRoot
<1> DEFINE made == create_object(s, p, type, id)
<1>2. Whole(u) /\ u \in States
  BY DEF IInv, Whole, Consistent
<1>3. Whole(s)
  BY <1>2, BasicClearFacts
<1>4. ~Basic => s = u
  OBVIOUS
<1> HIDE DEF s
<1>5. p \in FreePlaces(s) /\ id \in Names
  BY <1>1, NameFacts
<1>6. /\ Whole(made) /\ Alive(made) = Alive(s) \cup NewObjects(p, type)
      /\ KeepsNamesOf(s, made, Alive(s))
  BY <1>3, <1>5, CreateSound
<1>7. u' = [made EXCEPT !.root = <<p, 0>>] /\ <<p, 0>> \in Ids /\ <<p, 0>> \in NewObjects(p, type)
  BY <1>1, PlaceFacts DEF NewObjects
<1> HIDE DEF made
<1>8. Whole(u') /\ Alive(u') = Alive(made) /\ u'.name = made.name /\ u'.root = <<p, 0>>
  BY <1>6, <1>7, RootFacts
<1>9. Rooted(u')
  BY <1>6, <1>7, <1>8 DEF Rooted
<1>10. CASE Basic
  <2>1. event' = [op |-> "clear"]
    BY <1>1, <1>10
  <2> QED
    BY <1>1, <1>8, <1>9, <2>1, CallFacts DEF StepSound, ReferencesResolve, NameStep, Registry!Clear
<1>11. CASE ~Basic
  <2>1. event' = NoEvent /\ KeepsNamesOf(u, u', Alive(u))
    BY <1>1, <1>4, <1>6, <1>8, <1>11 DEF KeepsNamesOf
  <2> QED
    BY <1>1, <1>2, <1>8, <1>9, <2>1, PopulateFacts
<1> QED
  BY <1>10, <1>11

(* Rename: one object gets another name, the wanted one if it can. *)
LEMMA RenameStep ==
  ASSUME IInv, fault = "none", Rename
  PROVE  StepSound
<1>1. PICK o \in Alive(u), wanted \in Wanted :
        /\ Outside
        /\ u' = rename_object(u, o, wanted)
        /\ event' = [op |-> "rename", object |-> o, wanted |-> wanted,
                     exact |-> IsExact(u, o, wanted)]
        /\ UNCHANGED <<pass, fault>>
  BY DEF Rename
<1>2. Whole(u) /\ Consistent(u) /\ Rooted(u) /\ DOMAIN u.name = Alive(u)
  BY DEF IInv, Whole
<1>3. o \in Ids /\ wanted \in Names /\ o \in DOMAIN u.name
  BY <1>2, NameFacts DEF Alive
<1>4. /\ Whole(u') /\ Alive(u') = Alive(u) /\ u'.root = u.root
      /\ KeepsNamesOf(u, u', Alive(u) \ {o})
  BY <1>1, <1>2, <1>3, RenameSound
<1>5. Rooted(u')
  BY <1>2, <1>4 DEF Rooted
<1>6. /\ event'.op = "rename" /\ event'.object = o /\ event'.wanted = wanted
      /\ event'.exact = IsExact(u, o, wanted)
  BY <1>1
<1>7. Registry!Rename
  <2>1. /\ IsExact(u, o, wanted) =
             (wanted # TooShort /\ \A x \in DOMAIN u.name \ {o} : u.name[x] # wanted)
        /\ IsExact(u, o, wanted) => u'.name[o] = wanted
    BY <1>1, <1>2, <1>3, ExactFacts
  <2>2. wanted \notin Registry!Others(o) <=> \A x \in DOMAIN u.name \ {o} : u.name[x] # wanted
    BY DEF Registry!Others
  <2>3. DOMAIN u'.name = DOMAIN u.name /\ Registry!Keeps(DOMAIN u.name \ {o})
    BY <1>2, <1>4 DEF Whole, KeepsNamesOf, Registry!Keeps
  <2>4. event'.exact = (wanted # TooShort /\ wanted \notin Registry!Others(o))
    BY <1>6, <2>1, <2>2
  <2> QED
    BY <1>3, <1>6, <2>1, <2>3, <2>4 DEF Registry!Rename
<1> QED
  BY <1>1, <1>4, <1>5, <1>6, <1>7, CallFacts DEF StepSound, ReferencesResolve, NameStep

(* SetRoot: set_root on an object that lives. *)
LEMMA SetRootStep ==
  ASSUME IInv, fault = "none", SetRoot
  PROVE  StepSound
<1>1. PICK o \in Alive(u) :
        Outside /\ u' = [u EXCEPT !.root = o] /\ event' = NoEvent /\ UNCHANGED <<pass, fault>>
  BY DEF SetRoot
<1>2. Whole(u) /\ o \in Ids
  BY DEF IInv, Alive
<1>3. Whole(u') /\ Alive(u') = Alive(u) /\ u'.name = u.name /\ u'.root = o
  BY <1>1, <1>2, RootFacts
<1> QED
  BY <1>1, <1>3, ChangeFacts DEF Rooted

(* SetReference: an attribute is set to an object that lives. *)
LEMMA SetReferenceStep ==
  ASSUME IInv, fault = "none", SetReference
  PROVE  StepSound
<1>1. PICK o \in Alive(u), target \in Alive(u) :
        /\ Outside /\ u' = [u EXCEPT !.ref[o] = target] /\ event' = NoEvent
        /\ UNCHANGED <<pass, fault>>
  BY DEF SetReference
<1>2. Whole(u) /\ Rooted(u) /\ u \in States /\ o \in Ids /\ target \in Ids
  BY DEF IInv, Whole, Consistent, Alive
<1>3. u.ref \in [Ids -> Ids \cup {Null}]
  BY <1>2 DEF States
<1> DEFINE ref == [u.ref EXCEPT ![o] = target]
<1>4. /\ ref \in [Ids -> Ids \cup {Null}]
      /\ \A x \in Ids : ref[x] = IF x = o THEN target ELSE u.ref[x]
  BY <1>2, <1>3
<1>5. u' = [u EXCEPT !.ref = ref]
  BY <1>1
<1> HIDE DEF ref
<1>6. /\ u' \in States /\ u'.map = u.map /\ u'.name = u.name /\ u'.type = u.type
      /\ u'.ref = ref /\ u'.updates = u.updates /\ u'.external = u.external /\ u'.root = u.root
  BY <1>2, <1>4, <1>5 DEF States
<1>7. Alive(u') = Alive(u)
  BY <1>6 DEF Alive
<1>8. AttributesSound(u')
  BY <1>2, <1>4, <1>6, <1>7 DEF Whole, AttributesSound
<1>9. Whole(u') /\ Rooted(u')
  BY <1>2, <1>6, <1>7, <1>8 DEF Whole, Rooted, Consistent, UpdatesSound, ExternalSound
<1> QED
  BY <1>1, <1>6, <1>9, ChangeFacts

(* Instantiate: what waits is performed, and all of it is of this scene. *)
LEMMA InstantiateStep ==
  ASSUME IInv, fault = "none", Instantiate
  PROVE  StepSound
<1>1. PICK p1 \in FreePlaces(u), p2 \in FreePlaces(u), d1 \in Definitions, d2 \in Definitions :
        LET one == deserialize_object(u, p1, d1)
            all == IF p1 = p2 THEN one ELSE deserialize_object(one, p2, d2)
        IN  /\ Outside
            /\ p1 = p2 => d1 = d2
            /\ \/ Fails(StaleDeferred)
               \/ /\ Succeeds(StaleDeferred)
                  /\ u' = PerformDeferred(all)
                  /\ event' = [op    |-> "instantiate",
                               links |-> {<<<<p1, 0>>, d1.ref>>, <<<<p2, 0>>, d2.ref>>}]
  BY DEF Instantiate
<1> DEFINE one   == deserialize_object(u, p1, d1)
           all   == IF p1 = p2 THEN one ELSE deserialize_object(one, p2, d2)
           links == {<<<<p1, 0>>, d1.ref>>, <<<<p2, 0>>, d2.ref>>}
<1>2. CASE Fails(StaleDeferred)
  BY <1>2, FailsFacts
<1>3. CASE Succeeds(StaleDeferred) /\ u' = PerformDeferred(all)
           /\ event' = [op |-> "instantiate", links |-> links]
  <2>1. u.deferred = <<>>
    BY <1>3 DEF Succeeds, StaleDeferred
  <2>2. Whole(u) /\ Rooted(u) /\ Outside /\ UNCHANGED pass
    BY <1>1, <1>3 DEF IInv, Succeeds
  <2>3. p1 = p2 => d1 = d2
    BY <1>1
  <2>4. u' = Scene(u, p1, p2, d1, d2)
    BY <1>3 DEF Scene
  <2>5. /\ Whole(u') /\ Alive(u) \subseteq Alive(u') /\ u'.root = u.root
        /\ KeepsNamesOf(u, u', Alive(u)) /\ Linked(u', links)
    BY <2>1, <2>2, <2>3, <2>4, SceneFacts
  <2> HIDE DEF links
  <2>6. event'.op = "instantiate" /\ event'.links = links
    BY <1>3
  <2>7. Rooted(u')
    BY <2>2, <2>5 DEF Rooted
  <2>8. ReferencesResolve'
    BY <2>5, <2>6 DEF ReferencesResolve, Linked
  <2>9. Registry!Populate
    BY <2>2, <2>5, <2>6 DEF Registry!Populate, Registry!Keeps, Whole, KeepsNamesOf
  <2> QED
    BY <2>2, <2>5, <2>7, <2>8, <2>9, CallFacts DEF StepSound, NameStep
<1> QED
  BY <1>1, <1>2, <1>3

(* InstantiateRaises: the first object is there when the second one raises. *)
LEMMA InstantiateRaisesStep ==
  ASSUME IInv, fault = "none", InstantiateRaises
  PROVE  StepSound
<1>1. PICK p \in FreePlaces(u), d \in Definitions :
        /\ Outside /\ u' = deserialize_object(u, p, d) /\ event' = NoEvent
        /\ UNCHANGED <<pass, fault>>
  BY DEF InstantiateRaises
<1>2. Whole(u) /\ Rooted(u)
  BY DEF IInv
<1>3. Brought(u, u', p, d.type)
  BY <1>1, <1>2, DeserializeObjectSound
<1>4. Rooted(u')
  BY <1>2, <1>3 DEF Rooted, Brought
<1> QED
  BY <1>1, <1>2, <1>3, <1>4, PopulateFacts DEF Brought

(* Clear: nothing refers to an object when all of them are destroyed. *)
LEMMA ClearStep ==
  ASSUME IInv, fault = "none", Clear
  PROVE  StepSound
<1>1. PICK why \in ClearFault :
        /\ Outside
        /\ \/ Fails(why)
           \/ /\ Succeeds(why)
              /\ u' = IF Basic THEN basic_clear(u) ELSE editor_clear(u)
              /\ event' = [op |-> "clear"]
  BY DEF Clear
<1>2. CASE Fails(why)
  BY <1>2, FailsFacts
<1>3. CASE /\ Succeeds(why)
           /\ u' = IF Basic THEN basic_clear(u) ELSE editor_clear(u)
           /\ event' = [op |-> "clear"]
  <2>1. /\ Whole(u) /\ Rooted(u) /\ u \in States /\ Outside /\ UNCHANGED pass
        /\ why = "none" /\ event'.op = "clear"
    BY <1>1, <1>3 DEF IInv, Succeeds, Whole, Consistent
  <2>2. Whole(u') /\ Rooted(u')
    <3>1. CASE Basic
      <4>1. u.root = Null
        BY <2>1, <3>1 DEF ClearFault
      <4>2. u' = basic_clear(u)
        BY <1>3, <3>1
      <4> QED
        BY <2>1, <4>1, <4>2, BasicClearFacts DEF Rooted
    <3>2. CASE ~Basic
      <4>1. u.updates = <<>> /\ \A r \in Roots : u.external[r] \notin Alive(u)
        BY <2>1, <3>2 DEF ClearFault
      <4>2. \A r \in Roots : u.external[r] = NotARoot
        BY <2>1, <4>1 DEF Whole, ExternalSound
      <4> DEFINE e == EmptyUniverse(u.kind)
      <4>3. /\ e \in States
            /\ e.type = [p \in Places |-> "none"] /\ e.ref = [o \in Ids |-> Null]
            /\ e.map = NoNames /\ e.name = NoNames /\ e.root = Null
        BY <2>1, EmptyFacts DEF States
      <4>4. u' = [e EXCEPT !.updates = u.updates, !.deferred = u.deferred,
                           !.external = u.external]
        BY <1>3, <3>2 DEF editor_clear
      <4> HIDE DEF e
      <4>5. /\ u.updates \in Seq(Ids) /\ u.deferred \in Seq(Deferred)
            /\ u.external \in [Roots -> Ids \cup {NotARoot}]
        BY <2>1 DEF States
      <4>6. /\ u' \in States /\ u'.type = e.type /\ u'.ref = e.ref /\ u'.map = e.map
            /\ u'.name = e.name /\ u'.root = e.root /\ u'.updates = u.updates
            /\ u'.external = u.external
        BY <4>3, <4>4, <4>5 DEF States
      <4>7. Whole(u')
        BY <4>1, <4>2, <4>3, <4>6, ClearedFacts
      <4> QED
        BY <4>3, <4>6, <4>7 DEF Rooted
    <3> QED
      BY <3>1, <3>2
  <2> QED
    BY <2>1, <2>2, CallFacts DEF StepSound, ReferencesResolve, NameStep, Registry!Clear
<1> QED
  BY <1>1, <1>2, <1>3

-----------------------------------------------------------------------------
(* Another set of objects to update, the rest of the universe as it was. *)
LEMMA UpdateSetFacts ==
  ASSUME Whole(u), Rooted(u), NEW q \in Seq(Ids), ToSet(q) \subseteq Alive(u), Distinct(q),
         u' = [u EXCEPT !.updates = q]
  PROVE  Whole(u') /\ Rooted(u') /\ u'.name = u.name /\ u'.updates = q
<1>1. u \in States
  BY DEF Whole, Consistent
<1>2. /\ u' \in States /\ u'.map = u.map /\ u'.name = u.name /\ u'.type = u.type
      /\ u'.ref = u.ref /\ u'.updates = q /\ u'.external = u.external /\ u'.root = u.root
  BY <1>1 DEF States
<1>3. Alive(u') = Alive(u)
  BY <1>2 DEF Alive
<1> QED
  BY <1>2, <1>3 DEF Whole, Rooted, Consistent, UpdatesSound, AttributesSound, ExternalSound

(* EnableUpdates: an object that is registered while an update runs comes   *)
(* behind all that the update calls. *)
LEMMA EnableUpdatesStep ==
  ASSUME IInv, fault = "none", EnableUpdates
  PROVE  StepSound
<1>1. PICK o \in Alive(u) :
        \/ Fails(EnableFault(o))
        \/ /\ Succeeds(EnableFault(o))
           /\ u' = register_object_for_update(u, o)
           /\ event' = NoEvent
  BY DEF EnableUpdates
<1>2. CASE Fails(EnableFault(o))
  BY <1>2, FailsFacts
<1>3. CASE /\ Succeeds(EnableFault(o))
           /\ u' = register_object_for_update(u, o)
           /\ event' = NoEvent
  <2> DEFINE q == u.updates
             r == Registered(q, o)
  <2>1. /\ Whole(u) /\ Rooted(u) /\ PassInv /\ u \in States /\ o \in Ids
        /\ UNCHANGED <<pass, fault>>
    BY <1>3 DEF IInv, Succeeds, Whole, Consistent, Alive
  <2>2. q \in Seq(Ids) /\ ToSet(q) \subseteq Alive(u) /\ Distinct(q)
    BY <2>1 DEF States, Whole, UpdatesSound
  <2>3. /\ o \notin ToSet(q)
        /\ ~Outside => ~(lower_bound(q, o) < pass.until)
    BY <1>3 DEF Succeeds, EnableFault
  <2>4. u' = [u EXCEPT !.updates = r]
    BY <1>3 DEF register_object_for_update, Registered
  <2> HIDE DEF q
  <2>5. r = Registered(q, o)
    OBVIOUS
  <2> HIDE DEF r
  <2>6. /\ r \in Seq(Ids) /\ Len(r) = Len(q) + 1
        /\ ToSet(r) = ToSet(q) \cup {o} /\ Distinct(r)
        /\ \A i \in 1 .. lower_bound(q, o) : r[i] = q[i]
    <3>1. o \in Ids
      BY <2>1
    <3>2. /\ r \in Seq(Ids) /\ Len(r) = Len(q) + 1
          /\ ToSet(r) = ToSet(q) \cup {o}
          /\ Distinct(q) /\ o \notin ToSet(q) => Distinct(r)
          /\ \A i \in 1 .. lower_bound(q, o) : r[i] = q[i]
      BY <2>2, <2>5, <3>1, RegisterFacts
    <3> QED
      BY <2>2, <2>3, <3>2
  <2>7. Whole(u') /\ Rooted(u') /\ u'.name = u.name /\ u'.updates = r
    BY <2>1, <2>2, <2>4, <2>6, UpdateSetFacts
  <2>8. PassInv'
    <3>1. CASE pass = NoPass
      BY <2>1, <3>1 DEF PassInv
    <3>2. CASE pass # NoPass
      <4>1. /\ pass.until \in Nat /\ pass.until <= Len(q)
            /\ pass.at \in 1 .. pass.until + 1
            /\ DOMAIN pass.done = 1 .. pass.at - 1
            /\ pass.done \in Seq(Ids)
            /\ \A i \in 1 .. pass.at - 1 : pass.done[i] = q[i]
            /\ pass.registered = {q[i] : i \in 1 .. pass.until}
        BY <2>1, <3>2 DEF PassInv, q
      <4>2. pass.until <= lower_bound(q, o) /\ lower_bound(q, o) \in Nat /\ Len(q) \in Nat
        BY <2>2, <2>3, <3>2, <4>1, PlaceInSet, LenProperties DEF Outside
      <4>3. \A i \in 1 .. pass.until : r[i] = q[i]
        BY <2>6, <4>1, <4>2
      <4>4. pass.registered = {r[i] : i \in 1 .. pass.until}
        BY <4>1, <4>3
      <4>5. \A i \in 1 .. pass.at - 1 : pass.done[i] = r[i]
        BY <4>1, <4>3
      <4>6. pass.until <= Len(r)
        BY <2>6, <4>1, <4>2
      <4>7. pass' = pass /\ u'.updates = r
        BY ONLY <2>1, <2>7
      <4> QED
        BY ONLY <4>1, <4>4, <4>5, <4>6, <4>7 DEF PassInv
    <3> QED
      BY <3>1, <3>2
  <2> QED
    BY <1>3, <2>7, <2>8 DEF StepSound, IInv, ReferencesResolve, NameStep, NoEvent
<1> QED
  BY <1>1, <1>2, <1>3

(* DisableUpdates: an object that goes while an update runs was not         *)
(* registered. *)
LEMMA DisableUpdatesStep ==
  ASSUME IInv, fault = "none", DisableUpdates
  PROVE  StepSound
<1>1. PICK o \in Alive(u) :
        \/ Fails(DisableFault(o))
        \/ /\ Succeeds(DisableFault(o))
           /\ u' = unregister_object_for_update(u, o)
           /\ event' = NoEvent
  BY DEF DisableUpdates
<1>2. CASE Fails(DisableFault(o))
  BY <1>2, FailsFacts
<1>3. CASE /\ Succeeds(DisableFault(o))
           /\ u' = unregister_object_for_update(u, o)
           /\ event' = NoEvent
  <2> DEFINE q == u.updates
             r == RemoveFirst(q, o)
  <2>1. /\ Whole(u) /\ Rooted(u) /\ PassInv /\ u \in States /\ o \in Ids
        /\ UNCHANGED <<pass, fault>>
    BY <1>3 DEF IInv, Succeeds, Whole, Consistent, Alive
  <2>2. q \in Seq(Ids) /\ ToSet(q) \subseteq Alive(u) /\ Distinct(q)
    BY <2>1 DEF States, Whole, UpdatesSound
  <2>3. Outside \/ o \notin ToSet(q)
    BY <1>3 DEF Succeeds, DisableFault
  <2>4. u' = [u EXCEPT !.updates = r]
    BY <1>3 DEF unregister_object_for_update
  <2> HIDE DEF q
  <2>5. r = RemoveFirst(q, o)
    OBVIOUS
  <2> HIDE DEF r
  <2>6. /\ r \in Seq(Ids) /\ ToSet(r) \subseteq ToSet(q) /\ Distinct(r)
        /\ o \notin ToSet(q) => r = q
    BY <2>1, <2>2, <2>5, UnregisterFacts
  <2>7. Whole(u') /\ Rooted(u') /\ u'.name = u.name /\ u'.updates = r
    BY <2>1, <2>2, <2>4, <2>6, UpdateSetFacts
  <2>8. PassInv'
    BY <2>1, <2>3, <2>6, <2>7 DEF PassInv, Outside, q
  <2> QED
    BY <1>3, <2>7, <2>8 DEF StepSound, IInv, ReferencesResolve, NameStep, NoEvent
<1> QED
  BY <1>1, <1>2, <1>3

(* StartUpdate, UpdateNext, EndUpdate: the update goes through the set. *)
LEMMA UpdateStep ==
  ASSUME IInv, fault = "none", Update
  PROVE  StepSound
<1>1. /\ Whole(u) /\ Rooted(u) /\ PassInv /\ UNCHANGED <<u, fault>> /\ event' = NoEvent
  BY DEF IInv, Update, StartUpdate, UpdateNext, EndUpdate
<1>2. u.updates \in Seq(Ids) /\ Len(u.updates) \in Nat /\ DOMAIN u.updates = 1 .. Len(u.updates)
  BY <1>1, LenProperties DEF Whole, Consistent, States
<1> SUFFICES PassInv'
  BY <1>1 DEF StepSound, IInv, ReferencesResolve, NameStep, NoEvent, Whole, Rooted
<1>3. CASE StartUpdate
  <2>1. /\ pass'.at = 1 /\ pass'.until = Len(u.updates) /\ pass'.done = <<>>
        /\ pass'.registered = ToSet(u.updates)
    BY <1>3 DEF StartUpdate
  <2>2. DOMAIN pass'.done = {} /\ pass'.done \in Seq(Ids)
    BY <2>1, EmptySeq
  <2>3. 1 .. pass'.at - 1 = {}
    BY <2>1
  <2>4. pass'.registered = {u.updates[i] : i \in 1 .. pass'.until}
    BY <1>2, <2>1 DEF ToSet
  <2>5. pass'.at \in 1 .. pass'.until + 1 /\ pass'.until <= Len(u.updates) /\ pass'.until \in Nat
    BY <1>2, <2>1
  <2> QED
    BY <1>1, <2>2, <2>3, <2>4, <2>5 DEF PassInv
<1>4. CASE UpdateNext
  <2>1. /\ ~Outside /\ pass.at <= pass.until
        /\ pass' = [pass EXCEPT !.done = Append(@, u.updates[pass.at]), !.at = @ + 1]
    BY <1>4 DEF UpdateNext
  <2>2. /\ pass.until \in Nat /\ pass.until <= Len(u.updates)
        /\ pass.at \in 1 .. pass.until + 1
        /\ DOMAIN pass.done = 1 .. pass.at - 1
        /\ pass.done \in Seq(Ids)
        /\ \A i \in 1 .. pass.at - 1 : pass.done[i] = u.updates[i]
        /\ pass.registered = {u.updates[i] : i \in 1 .. pass.until}
    BY <1>1, <2>1 DEF PassInv, Outside
  <2> DEFINE e == u.updates[pass.at]
             d == Append(pass.done, e)
  <2>3. pass.at \in 1 .. Len(u.updates) /\ e \in Ids
    BY <1>2, <2>1, <2>2
  <2>4. Len(pass.done) = pass.at - 1
    BY <2>2, LenProperties
  <2> HIDE DEF e
  <2>5. /\ d \in Seq(Ids) /\ DOMAIN d = 1 .. pass.at
        /\ \A i \in 1 .. pass.at - 1 : d[i] = pass.done[i]
        /\ d[pass.at] = e
    <3>1. /\ d \in Seq(Ids)
          /\ DOMAIN d = 1 .. Len(pass.done) + 1
          /\ \A j \in 1 .. Len(pass.done) : d[j] = pass.done[j]
          /\ d[Len(pass.done) + 1] = e
      BY <2>2, <2>3, AppendFacts
    <3>2. Len(pass.done) + 1 = pass.at
      BY <2>2, <2>4
    <3> QED
      BY <2>4, <3>1, <3>2
  <2> HIDE DEF d
  <2>6. \A i \in 1 .. pass.at : d[i] = u.updates[i]
    BY <2>2, <2>5 DEF e
  <2>7. /\ pass'.done = d /\ pass'.at = pass.at + 1 /\ pass'.until = pass.until
        /\ pass'.registered = pass.registered
    BY <1>4 DEF UpdateNext, d, e
  <2>8. pass'.at \in 1 .. pass'.until + 1 /\ pass'.at - 1 = pass.at
    BY <2>1, <2>2, <2>7
  <2> QED
    BY <1>1, <2>2, <2>5, <2>6, <2>7, <2>8 DEF PassInv
<1>5. CASE EndUpdate
  BY <1>5 DEF EndUpdate, PassInv
<1> QED
  BY <1>3, <1>4, <1>5 DEF Update

-----------------------------------------------------------------------------
(* Other references from outside, the rest of the universe as it was. *)
LEMMA ExternalFacts ==
  ASSUME Whole(u), Rooted(u), NEW x \in Roots, NEW o \in Alive(u) \cup {NotARoot},
         u' = [u EXCEPT !.external[x] = o]
  PROVE  Whole(u') /\ Rooted(u') /\ u'.name = u.name
<1>1. u \in States /\ o \in Ids \cup {NotARoot}
  BY DEF Whole, Consistent, Alive
<1> DEFINE e == [u.external EXCEPT ![x] = o]
<1>2. u.external \in [Roots -> Ids \cup {NotARoot}]
  BY <1>1 DEF States
<1>3. e \in [Roots -> Ids \cup {NotARoot}] /\ \A y \in Roots : e[y] = IF y = x THEN o ELSE u.external[y]
  BY <1>1, <1>2
<1>4. u' = [u EXCEPT !.external = e]
  OBVIOUS
<1> HIDE DEF e
<1>5. /\ u' \in States /\ u'.map = u.map /\ u'.name = u.name /\ u'.type = u.type
      /\ u'.ref = u.ref /\ u'.updates = u.updates /\ u'.external = e /\ u'.root = u.root
  BY <1>1, <1>3, <1>4 DEF States
<1>6. Alive(u') = Alive(u)
  BY <1>5 DEF Alive
<1>7. ExternalSound(u')
  BY <1>3, <1>5, <1>6 DEF Whole, ExternalSound
<1> QED
  BY <1>5, <1>6, <1>7 DEF Whole, Rooted, Consistent, UpdatesSound, AttributesSound

(* RegisterRoot and UnregisterRoot: the editor's references from outside. *)
LEMMA RootsStep ==
  ASSUME IInv, fault = "none", RegisterRoot \/ UnregisterRoot
  PROVE  StepSound
<1>1. \E x \in Roots, o \in Alive(u) \cup {NotARoot} :
        /\ Outside /\ u' = [u EXCEPT !.external[x] = o] /\ event' = NoEvent
        /\ UNCHANGED <<pass, fault>>
  BY DEF RegisterRoot, UnregisterRoot
<1>2. Whole(u) /\ Rooted(u)
  BY DEF IInv
<1>3. Whole(u') /\ Rooted(u') /\ u'.name = u.name
  BY <1>1, <1>2, ExternalFacts
<1> QED
  BY <1>1, <1>3, ChangeFacts

-----------------------------------------------------------------------------
(* Reinitialize: the object is renamed, perhaps, and its attributes are set *)
(* again. *)
LEMMA ReinitializeFacts ==
  ASSUME Whole(u), Rooted(u), u.deferred = <<>>, NEW o \in Alive(u), NEW name,
         NEW def \in Definitions, NEW id \in Names
  PROVE  LET r == Reinitialize(o, name, def, id)
         IN  Whole(r) /\ Rooted(r) /\ KeepsNamesOf(u, r, Alive(u) \ {o})
<1> DEFINE renamed == IF id # name THEN rename_object(u, o, id) ELSE u
           raw     == deserialize_raw(renamed, o, def)
           r       == PerformDeferred(raw)
           e       == [object |-> o, target |-> def.ref]
<1>1. /\ Whole(renamed) /\ Alive(renamed) = Alive(u) /\ renamed.root = u.root
      /\ renamed.deferred = <<>> /\ KeepsNamesOf(u, renamed, Alive(u) \ {o})
  <2>1. CASE id # name
    <3>1. renamed = rename_object(u, o, id)
      BY <2>1
    <3> HIDE DEF renamed
    <3> QED
      BY <3>1, RenameSound
  <2>2. CASE id = name
    <3>1. renamed = u
      BY <2>2
    <3> HIDE DEF renamed
    <3> QED
      BY <3>1 DEF KeepsNamesOf, Whole
  <2> QED
    BY <2>1, <2>2
<1>2. raw = deserialize_raw(renamed, o, def)
  OBVIOUS
<1> HIDE DEF renamed, raw
<1>3. def.id \in Names /\ def.ref \in Names /\ o \in Alive(renamed)
  BY <1>1, NameFacts DEF Definitions
<1>4. /\ Whole(raw) /\ Alive(raw) = Alive(renamed) /\ raw.root = renamed.root
      /\ raw.deferred = Append(renamed.deferred, e)
      /\ KeepsNamesOf(renamed, raw, Alive(renamed) \ {o})
  BY <1>1, <1>2, <1>3, DeserializeSound
<1>5. \A i \in DOMAIN raw.deferred : raw.deferred[i].object \in Alive(raw)
  <2>1. raw.deferred = <<e>>
    <3> HIDE DEF e
    <3> QED
      BY <1>1, <1>4
  <2>2. e.object = o
    OBVIOUS
  <2> HIDE DEF e
  <2> QED
    BY <1>1, <1>4, <2>1, <2>2
<1>6. /\ Whole(r) /\ Alive(r) = Alive(raw) /\ r.root = raw.root /\ r.name = raw.name
  BY <1>4, <1>5, PerformSound
<1> HIDE DEF r
<1>7. Rooted(r) /\ KeepsNamesOf(u, r, Alive(u) \ {o})
  BY <1>1, <1>4, <1>6 DEF Rooted, KeepsNamesOf
<1>8. r = Reinitialize(o, name, def, id)
  BY DEF Reinitialize, r, raw, renamed
<1> QED
  BY <1>6, <1>7, <1>8

(* unregister_object: the object is in no map any more. *)
LEMMA UnregisterObjectFacts ==
  ASSUME NEW s, Consistent(s), NEW o \in Ids
  PROVE  LET r == unregister_object(s, o)
         IN  /\ Consistent(r) /\ SameReferences(s, r)
             /\ r.type = s.type /\ r.updates = s.updates /\ r.deferred = s.deferred
             /\ DOMAIN r.name = DOMAIN s.name \ {o}
             /\ \A x \in DOMAIN s.name \ {o} : r.name[x] = s.name[x]
<1> DEFINE r == unregister_object(s, o)
           m == BasicFree(s, o)
           k == Nameless(s, o)
<1>1. s \in States
  BY DEF Consistent
<1>2. /\ m \in NameMaps /\ k \in ObjectMaps /\ Paired(m, k)
      /\ DOMAIN k = DOMAIN s.name \ {o}
      /\ \A x \in DOMAIN s.name \ {o} : k[x] = s.name[x]
  BY ForgetFacts
<1>3. r = [s EXCEPT !.map = m, !.name = k]
  BY DEF unregister_object, BasicFree, Nameless
<1> HIDE DEF m, k
<1>4. /\ r \in States /\ r.map = m /\ r.name = k /\ r.type = s.type /\ r.updates = s.updates
      /\ r.deferred = s.deferred /\ SameReferences(s, r)
  BY <1>1, <1>2, <1>3 DEF States, SameReferences
<1> HIDE DEF r
<1> QED
  BY <1>2, <1>4 DEF Consistent, r

(* What LeftBehind rules out. *)
LEMMA LeftBehindFacts ==
  ASSUME Whole(u), NEW o \in Alive(u), LeftBehind(o) = "none"
  PROVE  /\ o[2] = 0 /\ o # u.root /\ o \notin ToSet(u.updates)
         /\ u.type[o[1]] # "group"
         /\ \A h \in Alive(u) \ Walked(u) : h[1] # o[1] => u.ref[h] # o
<1>1. o[2] \in {0, 1}
  BY IdFacts DEF Alive
<1> QED
  BY <1>1 DEF LeftBehind

(* Replace, up to the point where the references are rewired: the object    *)
(* has no name, the new one has, and both live. *)
LEMMA ReadyFacts ==
  ASSUME Whole(u), ~Basic, u.deferred = <<>>, NEW o \in Alive(u),
         NEW p \in FreePlaces(u), NEW def \in Definitions, NEW id \in Names
  PROVE  LET made  == create_object(unregister_object(u, o), p, def.type, id)
             ready == PerformDeferred(deserialize_raw(made, <<p, 0>>, def))
             new   == NewObjects(p, def.type)
         IN  /\ Consistent(ready)
             /\ ready.type = [u.type EXCEPT ![p] = def.type]
             /\ Alive(ready) = Alive(u) \cup new
             /\ DOMAIN ready.name = (Alive(u) \ {o}) \cup new
             /\ \A x \in Alive(u) \ {o} : ready.name[x] = u.name[x]
             /\ ready.updates = u.updates /\ ready.root = u.root
             /\ ready.external = u.external /\ ready.kind = u.kind
             /\ \A x \in Ids : \/ ready.ref[x] = u.ref[x]
                               \/ x = <<p, 0>> /\ ready.ref[x] \in DOMAIN ready.name \cup {Null}
<1> DEFINE gone  == unregister_object(u, o)
           made  == create_object(gone, p, def.type, id)
           f     == <<p, 0>>
           raw   == deserialize_raw(made, f, def)
           ready == PerformDeferred(raw)
           new   == NewObjects(p, def.type)
           e     == [object |-> f, target |-> def.ref]
<1>1. /\ p \in Places /\ u.type[p] = "none" /\ def.type \in Types
      /\ def.id \in Names /\ def.ref \in Names /\ o \in Ids
      /\ Consistent(u) /\ u \in States /\ DOMAIN u.name = Alive(u)
  BY NameFacts DEF FreePlaces, Definitions, Alive, Whole, Consistent
<1>2. f \in new /\ new \subseteq {<<p, 0>>, <<p, 1>>}
  BY DEF NewObjects
<1>3. /\ Consistent(gone) /\ SameReferences(u, gone)
      /\ gone.type = u.type /\ gone.updates = u.updates /\ gone.deferred = u.deferred
      /\ DOMAIN gone.name = Alive(u) \ {o}
      /\ \A x \in Alive(u) \ {o} : gone.name[x] = u.name[x]
  BY <1>1, UnregisterObjectFacts
<1> HIDE DEF gone
<1>4. /\ Renamed(gone, made, new) /\ SameReferences(gone, made)
      /\ made.type = [u.type EXCEPT ![p] = def.type]
      /\ made.deferred = <<>> /\ made.updates = u.updates
  <2>1. gone.type[p] = "none"
    BY <1>1, <1>3
  <2>2. /\ Renamed(gone, made, new) /\ SameReferences(gone, made)
        /\ made.type = [gone.type EXCEPT ![p] = def.type]
        /\ made.deferred = gone.deferred
        /\ \/ made.updates = gone.updates
           \/ Basic /\ made.updates = Registered(gone.updates, <<p, 0>>)
    BY <1>1, <1>3, <2>1, CreateFacts
  <2> HIDE DEF made
  <2> QED
    BY <1>3, <2>2
<1> HIDE DEF made, f, new
<1>5. Consistent(made) /\ f \in DOMAIN made.name
  BY <1>2, <1>4 DEF Renamed
<1>6. /\ Renamed(made, raw, {f}) /\ SameReferences(made, raw)
      /\ raw.type = made.type /\ raw.updates = made.updates
      /\ raw.deferred = Append(made.deferred, e)
  BY <1>1, <1>5, DeserializeFacts
<1> HIDE DEF raw
<1>7. Consistent(raw)
  BY <1>6 DEF Renamed
<1>8. /\ Consistent(ready) /\ ready.map = raw.map /\ ready.name = raw.name
      /\ ready.type = raw.type /\ ready.updates = raw.updates /\ ready.root = raw.root
      /\ ready.external = raw.external /\ ready.kind = raw.kind
      /\ \A x \in Ids :
           \/ ready.ref[x] = raw.ref[x]
           \/ /\ ready.ref[x] \in DOMAIN raw.name \cup {Null}
              /\ \E i \in DOMAIN raw.deferred : raw.deferred[i].object = x
  BY <1>7, PerformFacts
<1> HIDE DEF ready
<1>9. \A i \in DOMAIN raw.deferred : raw.deferred[i].object = f
  <2>1. raw.deferred = <<e>>
    <3> HIDE DEF e
    <3> QED
      BY <1>4, <1>6
  <2>2. e.object = f
    OBVIOUS
  <2> HIDE DEF e
  <2> QED
    BY <2>1, <2>2
<1>10. DOMAIN raw.name = (Alive(u) \ {o}) \cup new
  BY <1>2, <1>3, <1>4, <1>6 DEF Renamed
<1>11. <<p, 0>> \notin Alive(u) /\ <<p, 1>> \notin Alive(u)
  BY <1>1 DEF Alive
<1>12. \A x \in Alive(u) \ {o} : raw.name[x] = u.name[x]
  <2> TAKE x \in Alive(u) \ {o}
  <2>1. x \notin new /\ x # f
    BY <1>2, <1>11
  <2>2. made.name[x] = gone.name[x] /\ x \in DOMAIN made.name
    BY <1>3, <1>4, <2>1 DEF Renamed
  <2>3. raw.name[x] = made.name[x]
    BY <1>6, <2>1, <2>2 DEF Renamed
  <2> QED
    BY <1>3, <2>2, <2>3
<1>13. ready \in States /\ ready.type = [u.type EXCEPT ![p] = def.type]
  BY <1>4, <1>6, <1>8 DEF Consistent
<1>14. Alive(ready) = Alive(u) \cup new
  BY <1>1, <1>13, AliveFacts DEF new
<1>15. /\ raw.ref = u.ref /\ raw.root = u.root /\ raw.external = u.external
       /\ raw.kind = u.kind /\ raw.updates = u.updates
  BY <1>3, <1>4, <1>6 DEF SameReferences
<1>16. \A x \in Ids : \/ ready.ref[x] = u.ref[x]
                      \/ x = f /\ ready.ref[x] \in DOMAIN ready.name \cup {Null}
  BY <1>8, <1>9, <1>15
<1>17. ready = PerformDeferred(deserialize_raw(made, <<p, 0>>, def))
  BY DEF ready, raw, f
<1> QED
  BY <1>8, <1>10, <1>12, <1>13, <1>14, <1>15, <1>16, <1>17 DEF made, gone, f, new

(* Replace: a reference to the object that goes is one to the new object,   *)
(* wherever it is; LeftBehind names the ones the editor does not see. *)
LEMMA ReplacedFacts ==
  ASSUME Whole(u), Rooted(u), ~Basic, u.deferred = <<>>, NEW o \in Alive(u),
         LeftBehind(o) = "none", NEW p \in FreePlaces(u), NEW def \in Definitions,
         NEW id \in Names
  PROVE  LET r == Replace(o, p, def, id)
         IN  Whole(r) /\ Rooted(r) /\ KeepsNamesOf(u, r, Alive(u) \ {o})
<1> DEFINE made    == create_object(unregister_object(u, o), p, def.type, id)
           f       == <<p, 0>>
           ready   == PerformDeferred(deserialize_raw(made, f, def))
           rewired == for_each_object_reference(ready, o, f)
           r       == destruct(rewired, o)
           new     == NewObjects(p, def.type)
<1>1. /\ Consistent(ready)
      /\ ready.type = [u.type EXCEPT ![p] = def.type]
      /\ Alive(ready) = Alive(u) \cup new
      /\ DOMAIN ready.name = (Alive(u) \ {o}) \cup new
      /\ \A x \in Alive(u) \ {o} : ready.name[x] = u.name[x]
      /\ ready.updates = u.updates /\ ready.root = u.root
      /\ ready.external = u.external /\ ready.kind = u.kind
      /\ \A x \in Ids : \/ ready.ref[x] = u.ref[x]
                        \/ x = f /\ ready.ref[x] \in DOMAIN ready.name \cup {Null}
  BY ReadyFacts
<1>2. r = Replace(o, p, def, id)
  BY DEF Replace
<1> HIDE DEF made, ready
<1>3. /\ p \in Places /\ u.type[p] = "none" /\ o \in Ids /\ f \in Ids
      /\ o[1] \in Places /\ o # Null /\ o # NotARoot /\ o = <<o[1], o[2]>>
      /\ u \in States /\ DOMAIN u.name = Alive(u)
  BY IdFacts, PlaceFacts DEF FreePlaces, Alive, Whole, Consistent
<1>4. /\ o[2] = 0 /\ o # u.root /\ o \notin ToSet(u.updates)
      /\ u.type[o[1]] # "group" /\ u.type[o[1]] # "none" /\ p # o[1]
      /\ \A h \in Alive(u) \ Walked(u) : h[1] # o[1] => u.ref[h] # o
  BY <1>3, LeftBehindFacts DEF Alive
<1>5. /\ u.type \in [Places -> Types \cup {"none"}]
      /\ u.ref \in [Ids -> Ids \cup {Null}]
      /\ ready \in States /\ Paired(ready.map, ready.name)
      /\ ready.ref \in [Ids -> Ids \cup {Null}]
      /\ ready.external \in [Roots -> Ids \cup {NotARoot}]
  BY <1>1, <1>3 DEF Consistent, States
<1>6. f \in new /\ new \subseteq {<<p, 0>>, <<p, 1>>} /\ f # o
  BY <1>4 DEF NewObjects
<1> DEFINE external == [x \in Roots |-> IF ready.external[x] = o THEN f ELSE ready.external[x]]
           ref == [x \in Ids |-> IF x[1] = o[1] THEN Null
                                 ELSE IF x \in Walked(ready) /\ ready.ref[x] = o THEN f
                                 ELSE ready.ref[x]]
           type == [ready.type EXCEPT ![o[1]] = "none"]
<1>7. /\ external \in [Roots -> Ids \cup {NotARoot}] /\ ref \in [Ids -> Ids \cup {Null}]
      /\ type \in [Places -> Types \cup {"none"}]
  BY <1>1, <1>3, <1>5 DEF States
<1>8. r = [ready EXCEPT !.external = external, !.ref = ref, !.type = type]
  <2> DEFINE ref2 == [x \in Ids |-> IF x \in Walked(ready)
                                    THEN IF ready.ref[x] = o THEN f ELSE ready.ref[x]
                                    ELSE ready.ref[x]]
  <2>1. rewired = [ready EXCEPT !.external = external, !.ref = ref2]
    BY <1>5 DEF for_each_object_reference, States
  <2> HIDE DEF rewired, external
  <2>2. /\ rewired.type = ready.type
        /\ \A x \in Ids : rewired.ref[x] = IF x \in Walked(ready) /\ ready.ref[x] = o THEN f
                                           ELSE ready.ref[x]
    <3>1. \A x \in Ids : ref2[x] = IF x \in Walked(ready) /\ ready.ref[x] = o THEN f
                                     ELSE ready.ref[x]
      OBVIOUS
    <3> HIDE DEF ref2
    <3>2. rewired.ref = ref2 /\ rewired.type = ready.type
      BY <1>5, <2>1 DEF States
    <3> QED
      BY <3>1, <3>2
  <2> HIDE DEF f
  <2>3. [x \in Ids |-> IF x[1] = o[1] THEN Null ELSE rewired.ref[x]] = ref
    BY <2>2
  <2> HIDE DEF ref, external
  <2> QED
    BY <1>5, <2>1, <2>2, <2>3 DEF destruct, States
<1> HIDE DEF rewired, external, ref, type
<1>9. /\ r \in States /\ r.map = ready.map /\ r.name = ready.name /\ r.type = type
      /\ r.ref = ref /\ r.updates = ready.updates /\ r.external = external
      /\ r.root = ready.root
  BY <1>5, <1>7, <1>8 DEF States
<1> HIDE DEF r
<1>10. Consistent(r)
  BY <1>5, <1>9 DEF Consistent
<1>11. Alive(r) = (Alive(u) \ {o}) \cup new
  <2>1. \A x \in Places : type[x] = IF x = o[1] THEN "none" ELSE ready.type[x]
    BY <1>3, <1>5 DEF type, States
  <2>2. \A x \in Ids : x \in Alive(r) <=> x \in Alive(ready) /\ x[1] # o[1]
    BY <1>9, <2>1, IdFacts DEF Alive, Types
  <2>3. \A x \in Alive(u) : x[1] = o[1] <=> x = o
    BY <1>3, <1>4, IdFacts DEF Alive
  <2>4. \A x \in new : x[1] # o[1] /\ x # o
    BY <1>4, <1>6
  <2>5. Alive(r) \subseteq Ids /\ Alive(ready) \subseteq Ids
    BY DEF Alive
  <2> QED
    BY <1>1, <2>2, <2>3, <2>4, <2>5
<1>12. DOMAIN r.name = Alive(r)
  BY <1>1, <1>9, <1>11
<1>13. UpdatesSound(r) /\ Rooted(r)
  BY <1>1, <1>4, <1>9, <1>11 DEF Whole, UpdatesSound, Rooted
<1>14. ExternalSound(r)
  BY <1>1, <1>6, <1>9, <1>11 DEF Whole, ExternalSound, external
<1>15. AttributesSound(r)
  <2> SUFFICES ASSUME NEW x \in Ids
               PROVE  ref[x] \in Alive(r) \cup {Null} /\ (x \notin Alive(r) => ref[x] = Null)
    BY <1>9 DEF AttributesSound
  <2>1. ref[x] = IF x[1] = o[1] THEN Null
                 ELSE IF x \in Walked(ready) /\ ready.ref[x] = o THEN f ELSE ready.ref[x]
    BY DEF ref
  <2>2. u.ref[x] \in Alive(u) \cup {Null} /\ (x \notin Alive(u) => u.ref[x] = Null)
    BY DEF Whole, AttributesSound
  <2>3. CASE x[1] = o[1]
    BY <2>1, <2>3
  <2>4. CASE x[1] # o[1] /\ ready.ref[x] # u.ref[x]
    <3>1. x = f /\ ready.ref[x] \in Alive(r) \cup {Null}
      BY <1>1, <1>9, <1>12, <2>4
    <3> QED
      BY <1>6, <1>11, <2>1, <2>4, <3>1
  <2>5. CASE x[1] # o[1] /\ ready.ref[x] = u.ref[x]
    <3>1. CASE u.ref[x] = Null
      BY <1>3, <2>1, <2>5, <3>1
    <3>2. CASE u.ref[x] # Null /\ u.ref[x] # o
      <4>1. x \in Alive(r)
        BY <1>11, <2>2, <2>5, <3>2
      <4> QED
        BY <1>11, <2>1, <2>2, <2>5, <3>2, <4>1
    <3>3. CASE u.ref[x] = o
      <4>1. x \in Alive(u) /\ x \in Alive(r) /\ x # o
        BY <1>3, <1>11, <2>2, <2>5, <3>3
      <4>2. x \in Walked(u)
        BY <1>4, <2>5, <3>3, <4>1
      <4>3. x[1] # p /\ x[1] \in Places
        BY <1>3, <4>1, IdFacts DEF Alive
      <4>4. ready.type[x[1]] = u.type[x[1]]
        BY <1>1, <1>5, <4>3
      <4>5. x \in DOMAIN ready.name \cap Alive(ready)
        BY <1>1, <4>1
      <4>6. x \in Walked(ready)
        BY <4>2, <4>4, <4>5 DEF Walked
      <4>7. ref[x] = f
        BY <2>1, <2>5, <3>3, <4>6
      <4> QED
        BY <1>6, <1>11, <4>1, <4>7
    <3> QED
      BY <3>1, <3>2, <3>3
  <2> QED
    BY <2>3, <2>4, <2>5
<1>16. KeepsNamesOf(u, r, Alive(u) \ {o})
  BY <1>1, <1>9 DEF KeepsNamesOf
<1>17. Whole(r)
  BY <1>10, <1>12, <1>13, <1>14, <1>15 DEF Whole
<1> QED
  BY <1>2, <1>13, <1>16, <1>17, Zenon

(* Recreate: an object that is found is made again in its place, or         *)
(* replaced by a new one. *)
LEMMA RecreateStep ==
  ASSUME IInv, fault = "none", Recreate
  PROVE  StepSound
<1>1. PICK name \in Defined, def \in Definitions, own \in BOOLEAN :
        LET o    == get_object(u, name)
            id   == IF def.id = TooShort THEN name ELSE def.id
            same == o # Null /\ o[2] = 0 /\ def.type = u.type[o[1]] /\ def.type # "group"
            why  == RecreateFault(o, same, own, def)
        IN  /\ ~Basic /\ Outside
            /\ \/ Fails(why)
               \/ /\ Succeeds(why)
                  /\ event' = [op |-> "recreate", object |-> o]
                  /\ \/ same /\ u' = Reinitialize(o, name, def, id)
                     \/ ~same /\ \E p \in FreePlaces(u) : u' = Replace(o, p, def, id)
  BY DEF Recreate
<1> DEFINE o    == get_object(u, name)
           id   == IF def.id = TooShort THEN name ELSE def.id
           same == o # Null /\ o[2] = 0 /\ def.type = u.type[o[1]] /\ def.type # "group"
           why  == RecreateFault(o, same, own, def)
<1>2. CASE Fails(why)
  BY <1>2, FailsFacts
<1>3. CASE /\ Succeeds(why)
           /\ event' = [op |-> "recreate", object |-> o]
           /\ \/ same /\ u' = Reinitialize(o, name, def, id)
              \/ ~same /\ \E p \in FreePlaces(u) : u' = Replace(o, p, def, id)
  <2>1. /\ Whole(u) /\ Rooted(u) /\ Consistent(u) /\ DOMAIN u.name = Alive(u)
        /\ Outside /\ ~Basic /\ UNCHANGED pass
    BY <1>1, <1>3 DEF IInv, Whole, Succeeds
  <2>2. o \in Alive(u) \cup {Null}
    BY <2>1, GetFacts
  <2>3. id \in Names
    BY NameFacts DEF Definitions
  <2> HIDE DEF o, id, same
  <2>4. o # Null /\ u.deferred = <<>> /\ (same \/ LeftBehind(o) = "none")
    BY <1>3 DEF Succeeds, RecreateFault
  <2>5. Whole(u') /\ Rooted(u') /\ KeepsNamesOf(u, u', Alive(u) \ {o})
    <3>1. o \in Alive(u)
      BY <2>2, <2>4
    <3>2. CASE same
      <4>1. u' = Reinitialize(o, name, def, id)
        BY <1>3, <3>2
      <4> QED
        BY <2>1, <2>3, <2>4, <3>1, <4>1, ReinitializeFacts
    <3>3. CASE ~same
      <4>1. PICK p \in FreePlaces(u) : u' = Replace(o, p, def, id)
        BY <1>3, <3>3
      <4>2. LeftBehind(o) = "none"
        BY <2>4, <3>3
      <4>3. LET r == Replace(o, p, def, id)
            IN  Whole(r) /\ Rooted(r) /\ KeepsNamesOf(u, r, Alive(u) \ {o})
        <5>1. Whole(u) /\ Rooted(u) /\ ~Basic /\ u.deferred = <<>>
          BY <2>1, <2>4
        <5> QED
          BY <2>3, <3>1, <4>2, <5>1, ReplacedFacts
      <4> QED
        BY <4>1, <4>3
    <3> QED
      BY <3>2, <3>3
  <2>6. event'.op = "recreate" /\ event'.object = o
    BY <1>3
  <2>7. Registry!Recreate
    BY <2>1, <2>5, <2>6 DEF Registry!Recreate, Registry!Keeps, KeepsNamesOf
  <2> QED
    BY <2>1, <2>5, <2>6, <2>7, CallFacts DEF StepSound, ReferencesResolve, NameStep
<1> QED
  BY <1>1, <1>2, <1>3

-----------------------------------------------------------------------------
(* Every step of the program, and a pause. *)
LEMMA StepFacts ==
  ASSUME IInv, ReferencesResolve, [Next]_vars
  PROVE  IInv' /\ ReferencesResolve' /\ NameStep
<1>1. CASE Next
  <2>1. fault = "none" /\ (Call \/ Update)
    BY <1>1 DEF Next
  <2>2. CASE Call
    BY <2>1, <2>2, CreateObjectStep, CreateRootStep, RenameStep, SetRootStep, SetReferenceStep,
       InstantiateStep, InstantiateRaisesStep, ClearStep, EnableUpdatesStep,
       DisableUpdatesStep, RootsStep, RecreateStep
    DEF Call, StepSound
  <2>3. CASE Update
    BY <2>1, <2>3, UpdateStep DEF StepSound
  <2> QED
    BY <2>1, <2>2, <2>3
<1>2. CASE UNCHANGED vars
  BY <1>2 DEF vars, IInv, PassInv, Whole, Rooted, ReferencesResolve, NameStep
<1> QED
  BY <1>1, <1>2

(* A new universe is whole. *)
LEMMA InitFacts ==
  ASSUME Init
  PROVE  IInv /\ ReferencesResolve /\ DOMAIN u.name = {}
<1>1. PICK kind \in {"basic", "editor"} : u = EmptyUniverse(kind)
  BY DEF Init
<1>2. /\ u \in States
      /\ u.type = [p \in Places |-> "none"] /\ u.ref = [o \in Ids |-> Null]
      /\ u.map = NoNames /\ u.name = NoNames /\ u.root = Null /\ u.updates = <<>>
      /\ u.external = [r \in Roots |-> NotARoot]
  BY <1>1, EmptyFacts
<1>3. Whole(u)
  BY <1>2, ClearedFacts
<1>4. Rooted(u) /\ DOMAIN u.name = {}
  BY <1>2 DEF Rooted, NoNames
<1>5. PassInv /\ ReferencesResolve
  BY DEF Init, PassInv, ReferencesResolve, NoEvent
<1> QED
  BY <1>3, <1>4, <1>5 DEF IInv

(* The universe is whole in every state that the program reaches without a  *)
(* defect, with places, names and roots without bound. *)
THEOREM Invariant == Spec => [](IInv /\ ReferencesResolve)
<1>1. Init => IInv /\ ReferencesResolve
  BY InitFacts
<1>2. (IInv /\ ReferencesResolve) /\ [Next]_vars => (IInv /\ ReferencesResolve)'
  BY StepFacts
<1> QED
  BY <1>1, <1>2, PTL DEF Spec

(* Every object that lives has a name, and the two maps of a universe are   *)
(* the inverse of each other, through creation, renaming, scenes, clearing  *)
(* and replacement. *)
THEOREM NamesInverse == Spec => []NamesAreInverse
<1>1. IInv => NamesAreInverse
  BY DEF IInv, Whole, Consistent, Paired, NamesAreInverse
<1> QED
  BY <1>1, Invariant, PTL

(* The root, the update set, the attributes and the references from outside *)
(* never refer to an object that is gone. *)
THEOREM NoDangling == Spec => []NothingDangles
<1>1. IInv => NothingDangles
  <2>1. Alive(u) \subseteq Ids
    BY DEF Alive
  <2> QED
    BY <2>1 DEF IInv, Whole, Rooted, UpdatesSound, AttributesSound, ExternalSound, NothingDangles
<1> QED
  BY <1>1, Invariant, PTL

(* An update calls each object that was registered when it began, and still *)
(* is, once, whatever the objects register while it runs. *)
THEOREM UpdatedOnce == Spec => []EachUpdatedOnce
<1>1. IInv => EachUpdatedOnce
  <2> SUFFICES ASSUME IInv, fault = "none", ~Outside, pass.at > pass.until,
                      NEW o \in pass.registered \cap ToSet(u.updates)
               PROVE  Cardinality({i \in DOMAIN pass.done : pass.done[i] = o}) = 1
    BY DEF EachUpdatedOnce
  <2>1. /\ pass.until \in Nat /\ pass.until <= Len(u.updates)
        /\ pass.at \in 1 .. pass.until + 1
        /\ DOMAIN pass.done = 1 .. pass.at - 1
        /\ \A i \in 1 .. pass.at - 1 : pass.done[i] = u.updates[i]
        /\ pass.registered = {u.updates[i] : i \in 1 .. pass.until}
    BY DEF IInv, PassInv, Outside
  <2>2. /\ u.updates \in Seq(Ids) /\ Len(u.updates) \in Nat
        /\ DOMAIN u.updates = 1 .. Len(u.updates) /\ Distinct(u.updates)
    BY LenProperties DEF IInv, Whole, Consistent, States, UpdatesSound
  <2>3. pass.at - 1 = pass.until
    <3> DEFINE at == pass.at
               until == pass.until
    <3>1. until \in Nat /\ at \in 1 .. until + 1 /\ at > until
      BY <2>1
    <3> HIDE DEF at, until
    <3>2. at - 1 = until
      BY <3>1
    <3> QED
      BY <3>2 DEF at, until
  <2>4. PICK k \in 1 .. pass.until : u.updates[k] = o
    BY <2>1
  <2>5. \A i \in 1 .. pass.until : u.updates[i] = o => i = k
    <3>1. \A i \in 1 .. pass.until : i \in DOMAIN u.updates
      <4> DEFINE until == pass.until
                 n == Len(u.updates)
      <4>1. until \in Nat /\ n \in Nat /\ until <= n /\ DOMAIN u.updates = 1 .. n
        BY <2>1, <2>2
      <4> HIDE DEF until, n
      <4>2. \A i \in 1 .. until : i \in 1 .. n
        BY <4>1
      <4> QED
        BY <4>1, <4>2 DEF until
    <3> QED
      BY <2>2, <2>4, <3>1 DEF Distinct
  <2>6. {i \in DOMAIN pass.done : pass.done[i] = o} = {k}
    BY <2>1, <2>3, <2>4, <2>5
  <2> QED
    BY <2>6, FS_Singleton
<1> QED
  BY <1>1, Invariant, PTL

(* After a scene is instantiated its references are to the objects that     *)
(* have the names now. *)
THEOREM Resolved == Spec => []ReferencesResolve
BY Invariant, PTL

(* A universe implements the registry of names: names are unique and stay   *)
(* with their objects, and a rename gives the wanted name exactly when no   *)
(* other object has it. *)
THEOREM Refinement == Spec => KeepsNames
<1>1. Init => Registry!Init
  <2> SUFFICES ASSUME Init PROVE u.name = <<>>
    BY DEF Registry!Init
  <2>1. u.name = NoNames
    BY EmptyFacts DEF Init
  <2> QED
    BY <2>1 DEF NoNames
<1>2. IInv /\ ReferencesResolve /\ [Next]_vars => [Registry!Next]_(u.name)
  <2> SUFFICES ASSUME IInv, ReferencesResolve, [Next]_vars, u'.name # u.name
               PROVE  Registry!Next
    OBVIOUS
  <2>1. IInv' /\ NameStep
    BY StepFacts
  <2>2. fault' = "none"
    BY DEF Next, Call, Update, vars, CreateObject, CreateRoot, Rename, SetRoot, SetReference,
       Instantiate, InstantiateRaises, Clear, EnableUpdates, DisableUpdates, RegisterRoot,
       UnregisterRoot, Recreate, StartUpdate, UpdateNext, EndUpdate, Fails, Succeeds
  <2>3. Paired(u'.map, u'.name)
    BY <2>1, <2>2 DEF IInv, Whole, Consistent
  <2>4. Registry!Unique(u'.name)
    BY <2>3 DEF Registry!Unique, Paired
  <2> QED
    BY <2>1, <2>4 DEF NameStep, Registry!Next
<1> QED
  BY <1>1, <1>2, Invariant, PTL DEF Spec, KeepsNames, Registry!Spec
=============================================================================
