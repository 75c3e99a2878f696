--------------------------- MODULE ResourceCalls ----------------------------
(***************************************************************************)
(* What a caller of load_resource relies on: a load behaves like a plain   *)
(* recursive function with a cache.  A call for what is not cached pushes  *)
(* a frame, a frame calls only what it needs, the youngest frame returns   *)
(* first, and what it returns with success is in the cache from then on.   *)
(***************************************************************************)
EXTENDS SequencesExt

CONSTANTS
  Resource,  \* resource IDs
  Needs      \* the resources that the loader of each may load itself

VARIABLES
  cache,     \* the resources that are loaded
  calls,     \* the loads in progress, outermost first
  broken     \* whether an exception has left the outermost load

vars == <<cache, calls, broken>>

Init ==
  /\ cache = {}
  /\ calls = << >>
  /\ broken = FALSE

Call(r) ==
  /\ ~broken
  /\ r \notin cache
  /\ calls # << >> => r \in Needs[Last(calls)]
  /\ calls' = Append(calls, r)
  /\ UNCHANGED <<cache, broken>>

Return(r, found) ==
  /\ calls # << >> /\ r = Last(calls)
  /\ calls' = Front(calls)
  /\ cache' = IF found THEN cache \union {r} ELSE cache
  /\ UNCHANGED broken

Break ==
  /\ calls # << >>
  /\ calls' = << >>
  /\ broken' = TRUE
  /\ UNCHANGED cache

Forget ==
  /\ calls = << >>
  /\ cache' = {}
  /\ UNCHANGED <<calls, broken>>

Next ==
  \/ \E r \in Resource : Call(r) \/ \E found \in BOOLEAN : Return(r, found)
  \/ Break
  \/ Forget

Spec == Init /\ [][Next]_vars

=============================================================================
