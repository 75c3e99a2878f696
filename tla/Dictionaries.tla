---------------------------- MODULE Dictionaries ----------------------------
(***************************************************************************)
(* Dictionary (base/dictionary.hpp): a Map whose keys are strings that the *)
(* dictionary allocates itself. rep holds, for two dictionaries with one   *)
(* allocator, the string that is the key of each text; live, the strings   *)
(* allocated and not freed; and the next string. ref holds the texts of    *)
(* each. The map below is Maps; its values play no part here.              *)
(***************************************************************************)
EXTENDS Integers, FiniteSets

CONSTANTS Texts,
          Strings      \* how many strings are allocated at most
VARIABLES rep, ref, fault

vars == <<rep, ref, fault>>

Names == {"a", "b"}
Other(x) == IF x = "a" THEN "b" ELSE "a"
NoKeys == [t \in {} |-> 0]
KeysOf(d) == {rep[d][t] : t \in DOMAIN rep[d]}

Init ==
    /\ rep = [a |-> NoKeys, b |-> NoKeys, live |-> {}, next |-> 1]
    /\ ref = [a |-> {}, b |-> {}]
    /\ fault = "none"

(* The text is copied whether its key is there or not; the map keeps the   *)
(* key it has and assigns the value.                                       *)
insert_one(x, text) ==
    /\ rep.next <= Strings
    /\ rep' = [rep EXCEPT ![x] = [t \in DOMAIN @ \cup {text} |-> IF t \in DOMAIN @ THEN @[t] ELSE rep.next],
                          !.live = @ \cup {rep.next}, !.next = @ + 1]
    /\ ref' = [ref EXCEPT ![x] = @ \cup {text}]
    /\ fault' = IF text \in DOMAIN rep[x] THEN "key string lost" ELSE fault

Set(x) == \E text \in Texts : insert_one(x, text)

(* operator[]                                                              *)
Subscript(x) == \E text \in Texts \ DOMAIN rep[x] : insert_one(x, text)

(* The string is freed before the map takes the pair out.                  *)
Erase(x) ==
    \E text \in DOMAIN rep[x] :
      /\ rep' = [rep EXCEPT ![x] = [t \in DOMAIN @ \ {text} |-> @[t]],
                            !.live = @ \ {rep[x][text]}]
      /\ ref' = [ref EXCEPT ![x] = @ \ {text}]
      /\ UNCHANGED fault

Clear(x) ==
    /\ rep' = [rep EXCEPT ![x] = NoKeys, !.live = @ \ KeysOf(x)]
    /\ ref' = [ref EXCEPT ![x] = {}]
    /\ UNCHANGED fault

(* The copy constructor copies every key, operator= shares them.           *)
CopyConstruct(x) ==
    LET y == Other(x)
        n == Cardinality(DOMAIN rep[y])
    IN  /\ rep[x] = NoKeys /\ rep.next + n <= Strings + 1
        /\ \E copy \in [DOMAIN rep[y] -> rep.next .. rep.next + n - 1] :
              /\ \A s, t \in DOMAIN copy : copy[s] = copy[t] => s = t
              /\ rep' = [rep EXCEPT ![x] = copy, !.next = @ + n,
                                    !.live = @ \cup (rep.next .. rep.next + n - 1)]
        /\ ref' = [ref EXCEPT ![x] = ref[y]]
        /\ UNCHANGED fault

AssignCopy(x) ==
    /\ rep' = [rep EXCEPT ![x] = rep[Other(x)]]
    /\ ref' = [ref EXCEPT ![x] = ref[Other(x)]]
    /\ fault' = IF rep[x] # NoKeys \/ rep[Other(x)] # NoKeys THEN "keys shared or lost" ELSE fault

AssignMove(x) ==
    LET y == Other(x)
    IN  /\ rep' = [rep EXCEPT ![x] = rep[y], ![y] = NoKeys]
        /\ ref' = [ref EXCEPT ![x] = ref[y], ![y] = {}]
        /\ fault' = IF rep[x] # NoKeys THEN "keys shared or lost" ELSE fault

Swap ==
    /\ rep' = [rep EXCEPT !.a = rep.b, !.b = rep.a]
    /\ ref' = [a |-> ref.b, b |-> ref.a]
    /\ UNCHANGED fault

Next ==
    /\ fault = "none"
    /\ \/ Swap
       \/ \E x \in Names : Set(x) \/ Subscript(x) \/ Erase(x) \/ Clear(x)
                             \/ CopyConstruct(x) \/ AssignCopy(x) \/ AssignMove(x)

Spec == Init /\ [][Next]_vars

-----------------------------------------------------------------------------
(* The strings allocated are the keys of the two dictionaries, each of one: *)
(* none is lost, freed while it is a key, or freed twice later.             *)
ObjectsSound ==
    fault = "none" =>
      /\ rep.live = KeysOf("a") \cup KeysOf("b")
      /\ KeysOf("a") \cap KeysOf("b") = {}
      /\ \A x \in Names : Cardinality(KeysOf(x)) = Cardinality(DOMAIN rep[x])

(* The texts are those that were put in and not taken out.                  *)
Represents == fault = "none" => \A x \in Names : DOMAIN rep[x] = ref[x]
=============================================================================
