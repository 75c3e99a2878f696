--------------------------- MODULE SpatialObjects ---------------------------
(***************************************************************************)
(* The transforms of spatial objects (object/spatial_object.cpp). rep has  *)
(* the transform parent of each, ref the number of parents it may have at  *)
(* most. Some objects are aspects: FindParent tells the composite of each. *)
(* And PropertyAnimator (object/property_animator.cpp), with an Init and a *)
(* Next of its own: it moves a property of an object while it plays.       *)
(***************************************************************************)
EXTENDS Integers, Sequences, FiniteSets, Functions

CONSTANTS Spatial, FindParent,
          Animated, Composites, Properties    \* of the animator
VARIABLES rep, ref, fault

vars == <<rep, ref, fault>>

Null == "null"

Init ==
    /\ rep = [parent |-> [o \in Spatial |-> Null]]
    /\ ref = Cardinality(Spatial) - 1
    /\ fault = "none"

(* The chain of transform parents, as far as it has no end but a cycle.     *)
Chain(parent, o) ==
    LET walk[n \in 0 .. Cardinality(Spatial)] ==
            IF n = 0 THEN <<o>>
            ELSE LET c    == walk[n - 1]
                     last == c[Len(c)]
                 IN  IF last = Null \/ parent[last] = Null THEN c ELSE Append(c, parent[last])
    IN  walk[Cardinality(Spatial)]

IsCyclic(o, p) == p # Null /\ o \in Range(Chain(rep.parent, p))

set_transform_parent(o, p) ==
    /\ rep' = [rep EXCEPT !.parent[o] = IF IsCyclic(o, p) THEN Null ELSE p]
    /\ UNCHANGED <<ref, fault>>

(* The first composite around an aspect that is spatial becomes its parent, *)
(* whether or not that one's transform hangs on the aspect already. An      *)
(* aspect without a parent does so when it is initialized.                  *)
reset_transform_parent(o) ==
    LET p == FindParent[o]
    IN  /\ rep' = [rep EXCEPT !.parent[o] = p]
        /\ fault' = IF IsCyclic(o, p) THEN "cycle" ELSE fault
        /\ UNCHANGED ref

initialize(o) == rep.parent[o] = Null /\ reset_transform_parent(o)

Next ==
    /\ fault = "none"
    /\ \E o \in Spatial :
         \/ \E p \in Spatial \cup {Null} : set_transform_parent(o, p)
         \/ reset_transform_parent(o) \/ initialize(o)

Spec == Init /\ [][Next]_vars

-----------------------------------------------------------------------------
(* What transform multiplies: the local transforms up to the last parent.   *)
transform(o) == Chain(rep.parent, o)

(* The chain of parents of every object ends, so that its transform is the  *)
(* product of finitely many, each once.                                     *)
ObjectsSound ==
    fault = "none" =>
      \A o \in Spatial : LET chain == transform(o)
                         IN  /\ rep.parent[chain[Len(chain)]] = Null
                             /\ IsInjective(chain) /\ Len(chain) <= ref + 1

-----------------------------------------------------------------------------
(* The animator. rep.anim is the one that was made for the object and the   *)
(* property it has now; ref is what should be animated.                     *)
AnimatorInit ==
    /\ rep = [state |-> "stopped", object |-> Null, property |-> Null, anim |-> Null]
    /\ ref = Null
    /\ fault = "none"

play  == rep' = [rep EXCEPT !.state = "playing"] /\ UNCHANGED <<ref, fault>>
pause == rep' = [rep EXCEPT !.state = "paused"] /\ UNCHANGED <<ref, fault>>
reset == rep' = [rep EXCEPT !.anim = Null] /\ UNCHANGED <<ref, fault>>
stop  == rep' = [rep EXCEPT !.state = "stopped", !.anim = Null] /\ UNCHANGED <<ref, fault>>

set_object(o) ==
    /\ rep' = [rep EXCEPT !.object = o, !.anim = Null]
    /\ ref' = IF o \in Animated \ Composites /\ rep.property \in Properties THEN o ELSE Null
    /\ UNCHANGED fault

set_property(p) ==
    /\ rep' = [rep EXCEPT !.property = p, !.anim = Null]
    /\ ref' = IF rep.object \in Animated \ Composites /\ p \in Properties THEN rep.object ELSE Null
    /\ UNCHANGED fault

(* No object, a composite, and a property the object does not have give no  *)
(* animator. For all others one is made and destroyed again: the variable   *)
(* that is returned is never set.                                           *)
CanAnimate == rep.object \in Animated \ Composites /\ rep.property \in Properties
make_animator_for_current_property == Null

update ==
    /\ rep.state = "playing"
    /\ rep' = [rep EXCEPT !.anim = IF @ = Null THEN make_animator_for_current_property ELSE @]
    /\ fault' = IF CanAnimate THEN "animator dropped" ELSE fault
    /\ UNCHANGED ref

AnimatorNext ==
    /\ fault = "none"
    /\ \/ play \/ pause \/ reset \/ stop \/ update
       \/ \E o \in Animated \cup {Null} : set_object(o)
       \/ \E p \in Properties \cup {"unknown"} : set_property(p)

(* While it plays, an update animates the object and the property that were *)
(* set last, if they can be animated, and nothing else.                     *)
AnimatorRepresents == fault = "none" => (rep.anim # Null => rep.anim = ref) /\ (CanAnimate <=> ref # Null)
=============================================================================
