------------------------------ MODULE Universe ------------------------------
(***************************************************************************)
(* A universe of either kind with the program that uses it: objects are    *)
(* made and named, scenes instantiated, objects recreated in the editor,   *)
(* and the objects that want it are updated, one at a time, while their    *)
(* callbacks use the universe too. A call of a virtual function goes to    *)
(* BasicUniverse or EditorUniverse by u.kind.                              *)
(***************************************************************************)
EXTENDS UniverseBase

VARIABLES u,           \* the universe
          pass,        \* the update that runs: the place it is at and its end
          event,       \* the last call on names
          fault        \* what the code runs into, after which nothing is said

vars == <<u, pass, event, fault>>

NoPass == [at |-> 0, until |-> 0, done |-> <<>>, registered |-> {}]
NoEvent == [op |-> "none"]

Init ==
    /\ \E kind \in {"basic", "editor"} : u = EmptyUniverse(kind)
    /\ pass = NoPass /\ event = NoEvent /\ fault = "none"

Basic == u.kind = "basic"

rename_object(s, o, wanted) ==
    IF Basic THEN basic_rename_object(s, o, wanted) ELSE editor_rename_object(s, o, wanted)

IsExact(s, o, wanted) ==
    IF Basic THEN BasicIsExact(s, o, wanted) ELSE EditorIsExact(s, o, wanted)

(* construct, which names the aspect of a group after its type, then the    *)
(* name. Only the basic universe registers the objects that want updates.   *)
create_object(s, p, type, id) ==
    LET made  == [s EXCEPT !.type[p] = type]
        parts == IF type = "group" THEN rename_object(made, <<p, 1>>, <<"part", 0>>) ELSE made
        named == rename_object(parts, <<p, 0>>, id)
    IN  IF Basic /\ wants_game_update(type)
        THEN register_object_for_update(named, <<p, 0>>) ELSE named

(* The name is an attribute like any other, and set once more; references   *)
(* are deferred.                                                            *)
\* Mutant: the reference is looked up before the scene is complete.
deserialize_raw_Now(s, o, def) ==
    LET renamed == IF def.id = TooShort THEN s ELSE rename_object(s, o, def.id)
    IN  IF def.ref = TooShort THEN renamed ELSE [renamed EXCEPT !.ref[o] = get_object(renamed, def.ref)]

deserialize_raw(s, o, def) ==
    LET renamed == IF def.id = TooShort THEN s ELSE rename_object(s, o, def.id)
    IN  defer_attribute_deserialization(renamed, o, def.ref)

deserialize_object(s, p, def) ==
    deserialize_raw(create_object(s, p, def.type, def.id), <<p, 0>>, def)

Definitions == [type : Types, id : Defined, ref : Defined]

-----------------------------------------------------------------------------
Outside == pass = NoPass

(* The code runs into a defect, for this reason if there is one.            *)
Fails(why) == why # "none" /\ fault' = why /\ UNCHANGED <<u, pass, event>>
Succeeds(why) == why = "none" /\ UNCHANGED <<fault, pass>>

CreateObject ==
    \E p \in FreePlaces(u), type \in Types, id \in Wanted :
      /\ Outside
      /\ u' = create_object(u, p, type, id)
      /\ event' = NoEvent
      /\ UNCHANGED <<pass, fault>>

(* The basic universe is cleared first, which leaves the old root behind    *)
(* only until the new one is set.                                           *)
CreateRoot ==
    \E p \in Places, type \in Types, id \in Wanted :
      LET s == IF Basic THEN basic_clear(u) ELSE u
      IN  /\ Outside /\ p \in FreePlaces(s)
          /\ u' = [create_object(s, p, type, id) EXCEPT !.root = <<p, 0>>]
          /\ event' = IF Basic THEN [op |-> "clear"] ELSE NoEvent
          /\ UNCHANGED <<pass, fault>>

Rename ==
    \E o \in Alive(u), wanted \in Wanted :
      /\ Outside
      /\ u' = rename_object(u, o, wanted)
      /\ event' = [op |-> "rename", object |-> o, wanted |-> wanted, exact |-> IsExact(u, o, wanted)]
      /\ UNCHANGED <<pass, fault>>

SetRoot ==
    \E o \in Alive(u) :
      /\ Outside /\ o[2] = 0
      /\ u' = [u EXCEPT !.root = o]
      /\ event' = NoEvent /\ UNCHANGED <<pass, fault>>

SetReference ==
    \E o, target \in Alive(u) :
      /\ Outside
      /\ u' = [u EXCEPT !.ref[o] = target]
      /\ event' = NoEvent /\ UNCHANGED <<pass, fault>>

StaleDeferred == IF u.deferred # <<>> THEN "deferred by another scene" ELSE "none"

(* A scene of one or two objects. What an earlier scene that failed has     *)
(* deferred is performed along with it, on nodes of a document that is gone.*)
Instantiate ==
    \E p1, p2 \in FreePlaces(u), d1, d2 \in Definitions :
      LET one == deserialize_object(u, p1, d1)
          all == IF p1 = p2 THEN one ELSE deserialize_object(one, p2, d2)
      IN  /\ Outside
          /\ p1 = p2 => d1 = d2
          /\ \/ Fails(StaleDeferred)
             \/ /\ Succeeds(StaleDeferred)
                /\ u' = PerformDeferred(all)
                /\ event' = [op    |-> "instantiate",
                             links |-> {<<<<p1, 0>>, d1.ref>>, <<<<p2, 0>>, d2.ref>>}]

(* An exception from the second object leaves what the first one deferred.  *)
InstantiateRaises ==
    \E p \in FreePlaces(u), d \in Definitions :
      /\ Outside /\ u.deferred = <<>>
      /\ u' = deserialize_object(u, p, d)
      /\ event' = NoEvent
      /\ UNCHANGED <<pass, fault>>

(* What goes wrong when everything is destroyed: what still refers to an    *)
(* object, and an aspect that comes after the composite it was a part of.   *)
ClearFault ==
    IF Basic
    THEN {IF u.root # Null THEN "root left behind" ELSE "none"}
    ELSE IF u.updates # <<>> THEN {"updates left behind"}
    ELSE IF \E r \in Roots : u.external[r] \in Alive(u) THEN {"reference left behind"}
    ELSE IF \E p \in Places : u.type[p] = "group" THEN {"read after free", "none"}
    ELSE {"none"}

Clear ==
    \E why \in ClearFault :
      /\ Outside
      /\ \/ Fails(why)
         \/ /\ Succeeds(why)
            /\ u' = IF Basic THEN basic_clear(u) ELSE editor_clear(u)
            /\ event' = [op |-> "clear"]

-----------------------------------------------------------------------------
(* enable_updates and disable_updates, by the program or by the object that *)
(* is just updated. A change in front of the place where the update is, or  *)
(* an element that goes, makes it miss one or call one twice; an object     *)
(* can be registered twice; and unregistering one that comes behind all the *)
(* others reads past the end.                                               *)
EnableFault(o) ==
    CASE o \in ToSet(u.updates)                                -> "registered twice"
      [] ~Outside /\ lower_bound(u.updates, o) < pass.until     -> "set changed"
      [] ~Outside /\ Len(u.updates) = Room                      -> "set moved"
      [] OTHER                                                  -> "none"

EnableUpdates ==
    \E o \in Alive(u) :
      \/ Fails(EnableFault(o))
      \/ /\ Succeeds(EnableFault(o))
         /\ u' = register_object_for_update(u, o)
         /\ event' = NoEvent

DisableFault(o) ==
    CASE lower_bound(u.updates, o) = Len(u.updates)             -> "read past the end"
      [] ~Outside /\ o \in ToSet(u.updates)                     -> "set changed"
      [] OTHER                                                  -> "none"

DisableUpdates ==
    \E o \in Alive(u) :
      \/ Fails(DisableFault(o))
      \/ /\ Succeeds(DisableFault(o))
         /\ u' = unregister_object_for_update(u, o)
         /\ event' = NoEvent

\* Mutant: the update steps forward before the first call.
StartUpdate_Second ==
    /\ Outside /\ u.updates # <<>>
    /\ pass' = [at |-> 2, until |-> Len(u.updates), done |-> <<>>, registered |-> ToSet(u.updates)]
    /\ event' = NoEvent /\ UNCHANGED <<u, fault>>

StartUpdate ==
    /\ Outside /\ u.updates # <<>>
    /\ pass' = [at |-> 1, until |-> Len(u.updates), done |-> <<>>, registered |-> ToSet(u.updates)]
    /\ event' = NoEvent /\ UNCHANGED <<u, fault>>

UpdateNext ==
    /\ ~Outside /\ pass.at <= pass.until
    /\ pass' = [pass EXCEPT !.done = Append(@, u.updates[pass.at]), !.at = @ + 1]
    /\ event' = NoEvent /\ UNCHANGED <<u, fault>>

EndUpdate ==
    /\ ~Outside /\ pass.at > pass.until
    /\ pass' = NoPass
    /\ event' = NoEvent /\ UNCHANGED <<u, fault>>

-----------------------------------------------------------------------------
(* The editor: references from outside, and an object that is made again    *)
(* from a changed definition.                                               *)
RegisterRoot ==
    \E r \in Roots, o \in Alive(u) :
      /\ ~Basic /\ Outside /\ u.external[r] = NotARoot
      /\ u' = [u EXCEPT !.external[r] = o]
      /\ event' = NoEvent /\ UNCHANGED <<pass, fault>>

UnregisterRoot ==
    \E r \in Roots :
      /\ ~Basic /\ Outside /\ u.external[r] # NotARoot
      /\ u' = [u EXCEPT !.external[r] = NotARoot]
      /\ event' = NoEvent /\ UNCHANGED <<pass, fault>>

Reinitialize(o, name, def, id) ==
    LET renamed == IF id # name THEN rename_object(u, o, id) ELSE u
    IN  PerformDeferred(deserialize_raw(renamed, o, def))

Replace(o, p, def, id) ==
    LET made    == create_object(unregister_object(u, o), p, def.type, id)
        ready   == PerformDeferred(deserialize_raw(made, <<p, 0>>, def))
        rewired == for_each_object_reference(ready, o, <<p, 0>>)
    IN  destruct(rewired, o)

(* What a replaced object leaves behind: the root and the updates, the      *)
(* names of its aspects, and the references that are not looked through.    *)
LeftBehind(o) ==
    CASE o[2] = 1                          -> "part freed"
      [] o = u.root                        -> "root left behind"
      [] o \in ToSet(u.updates)            -> "updates left behind"
      [] u.type[o[1]] = "group"            -> "names left behind"
      [] \E h \in Alive(u) \ Walked(u) :
           h[1] # o[1] /\ u.ref[h] = o     -> "reference left behind"
      [] OTHER                             -> "none"

(* The type of a group is a new one every time. The name that is given may  *)
(* be the text of the object's own, which goes with its registration.       *)
RecreateFault(o, same, own, def) ==
    IF o = Null THEN "no such object"
    ELSE IF u.deferred # <<>> THEN "deferred by another scene"
    ELSE IF same THEN "none"
    ELSE IF own /\ def.id = TooShort THEN "name read after free"
    ELSE LeftBehind(o)

Recreate ==
    \E name \in Defined, def \in Definitions, own \in BOOLEAN :
      LET o    == get_object(u, name)
          id   == IF def.id = TooShort THEN name ELSE def.id
          same == o # Null /\ o[2] = 0 /\ def.type = u.type[o[1]] /\ def.type # "group"
          why  == RecreateFault(o, same, own, def)
      IN  /\ ~Basic /\ Outside
          /\ \/ Fails(why)
             \/ /\ Succeeds(why)
                /\ event' = [op |-> "recreate", object |-> o]
                /\ \/ same /\ u' = Reinitialize(o, name, def, id)
                   \/ ~same /\ \E p \in FreePlaces(u) : u' = Replace(o, p, def, id)

Call ==
    \/ CreateObject \/ CreateRoot \/ Rename \/ SetRoot \/ SetReference
    \/ Instantiate \/ InstantiateRaises \/ Clear
    \/ EnableUpdates \/ DisableUpdates
    \/ RegisterRoot \/ UnregisterRoot \/ Recreate

Update == StartUpdate \/ UpdateNext \/ EndUpdate

Next == fault = "none" /\ (Call \/ Update)

Spec == Init /\ [][Next]_vars

-----------------------------------------------------------------------------
(* Every object that lives, aspects too, has a name, and object_map_ and    *)
(* reverse_object_map_ are the inverse of each other.                       *)
NamesAreInverse ==
    fault = "none" =>
      /\ DOMAIN u.name = Alive(u)
      /\ \A o \in DOMAIN u.name : u.name[o] \in DOMAIN u.map /\ u.map[u.name[o]] = o
      /\ \A n \in DOMAIN u.map : u.map[n] \in DOMAIN u.name /\ u.name[u.map[n]] = n

(* Whatever refers to an object, the root, the update set, an attribute or  *)
(* a registered reference from outside, refers to one that lives.           *)
NothingDangles ==
    fault = "none" =>
      /\ u.root \in Alive(u) \cup {Null}
      /\ ToSet(u.updates) \subseteq Alive(u)
      /\ \A o \in Alive(u) : u.ref[o] \in Alive(u) \cup {Null}
      /\ \A r \in Roots : u.external[r] \in Alive(u) \cup {NotARoot}

(* An update calls every object that was registered when it began, and is   *)
(* registered still, once.                                                  *)
EachUpdatedOnce ==
    fault = "none" /\ ~Outside /\ pass.at > pass.until =>
      \A o \in pass.registered \cap ToSet(u.updates) :
        Cardinality({i \in DOMAIN pass.done : pass.done[i] = o}) = 1

(* After a scene is instantiated, a reference is to the object that has the *)
(* name now, also if that object came later in the scene than the reference.*)
ReferencesResolve ==
    fault = "none" /\ event.op = "instantiate" =>
      \A link \in event.links : link[2] # TooShort => u.ref[link[1]] = get_object(u, link[2])

Registry == INSTANCE NameRegistry WITH names <- u.name

(* A universe keeps the promises about names.                               *)
KeepsNames == Registry!Spec
=============================================================================
