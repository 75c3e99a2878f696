---------------------------- MODULE NameRegistry ----------------------------
(***************************************************************************)
(* What a universe promises about names (object/universe.hpp): the objects *)
(* of a scene have names, no two have the same, and a name stays with its  *)
(* object until that object is renamed or goes. A rename gives the wanted  *)
(* name exactly when it can, and says whether it did.                      *)
(***************************************************************************)
CONSTANT TooShort      \* a wanted name that is too short to be one

VARIABLES names,       \* the names of the objects that have one
          event        \* the last call, with the answer of a rename

vars == <<names, event>>

Unique(f) == \A o1, o2 \in DOMAIN f : f[o1] = f[o2] => o1 = o2
Keeps(os) == \A o \in os : o \in DOMAIN names' /\ names'[o] = names[o]
Others(o) == {names[x] : x \in DOMAIN names \ {o}}

Init == names = << >>

Rename ==
    /\ event'.op = "rename"
    /\ event'.object \in DOMAIN names
    /\ LET o == event'.object
       IN  /\ DOMAIN names' = DOMAIN names
           /\ Keeps(DOMAIN names \ {o})
           /\ event'.exact = (event'.wanted # TooShort /\ event'.wanted \notin Others(o))
           /\ event'.exact => names'[o] = event'.wanted

Populate ==
    /\ event'.op \in {"none", "instantiate"}
    /\ Keeps(DOMAIN names)

(* One object becomes another one, or is changed and perhaps renamed; or    *)
(* all go, and perhaps a new one comes.                                    *)
Recreate ==
    /\ event'.op = "recreate"
    /\ Keeps(DOMAIN names \ {event'.object})

Clear == event'.op = "clear"

Next == Unique(names') /\ (Rename \/ Populate \/ Recreate \/ Clear)

Spec == Init /\ [][Next]_names
=============================================================================
