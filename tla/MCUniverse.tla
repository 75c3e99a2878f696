----------------------------- MODULE MCUniverse -----------------------------
(***************************************************************************)
(* Instances of Universe for TLC: programs of at most MaxCalls calls, which *)
(* ask for a name, for the same with a number, and for one that is too     *)
(* short to be a name. A scene counts as many calls as it has objects, the  *)
(* steps of an update are not counted, and an object at a far place counts  *)
(* as one call more.                                                       *)
(***************************************************************************)
EXTENDS Universe

CONSTANTS MaxCalls, Far
VARIABLE calls

Short == <<"", 0>>
SomeNames == {<<"a", 0>>, <<"a", 2>>, Short}
InDocuments == {<<"a", 0>>, Short}

MCInit == Init /\ calls = 0

MCCall ==
    /\ calls < MaxCalls /\ fault = "none" /\ Call
    /\ calls' = calls + (IF event'.op = "instantiate" THEN Cardinality(event'.links) ELSE 1)
                     + Cardinality({p \in Far : u.type[p] = "none" /\ u'.type[p] # "none"})
    /\ calls' <= MaxCalls

MCNext == MCCall \/ (fault = "none" /\ Update /\ UNCHANGED calls)

MCSpec == MCInit /\ [][MCNext]_<<vars, calls>>
=============================================================================
