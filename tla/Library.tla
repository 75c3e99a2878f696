------------------------------ MODULE Library -------------------------------
(***************************************************************************)
(* A bench for the data structures and small components of the library.    *)
(* Each has a module with the same three variables (rep, what the code     *)
(* keeps; ref, what it should stand for; fault, what went wrong if a call  *)
(* is one the code does not survive); a behaviour of the bench takes one   *)
(* of them and calls its operations in every order. Here are the parts of  *)
(* which LibraryProofs proves what is claimed; MCLibrary adds the others.  *)
(***************************************************************************)
EXTENDS Integers, Sequences, FiniteSets

CONSTANTS Data, Room, PageElements, Capacity,        \* what the containers hold, and how much
          Keys, KeyRoom, Texts, Strings, Nodes,
          Alternatives, Code, Callers,
          Pointers, Objects, Allocators,
          Addresses, LastAddress, Buckets, BucketSlots, PageSize, MaxSize, MaxCount, MallocSizeKnown,
          Blocks,
          Timers, StdIn,
          Spatial, FindParent, Animated, Composites, Properties

VARIABLES part, rep, ref, fault

vars == <<part, rep, ref, fault>>

Array    == INSTANCE Arrays
MaxArray == INSTANCE MaxArrays
Dictionary == INSTANCE Dictionaries
Sorted   == INSTANCE SortedContainers WITH Data <- Keys, Room <- KeyRoom
Linked   == INSTANCE LinkedLists
Maybe    == INSTANCE Maybes
Either   == INSTANCE Eithers
Holder   == INSTANCE Anys
Callable == INSTANCE FunctionObjects
Unique   == INSTANCE UniquePtrs
Tracker  == INSTANCE MemoryTrackers
FixedAllocator == INSTANCE FixedAllocators
Event    == INSTANCE EventHandles
Transform == INSTANCE SpatialObjects

(* Numbers stand for what is held; 255 is the index of an empty Either and  *)
(* 0 is null for an address.                                               *)
DataAssumption ==
    /\ Data \subseteq Nat /\ Keys \subseteq Nat /\ Room \in Nat /\ Capacity \in Nat
    /\ Alternatives \subseteq Nat \ {Either!NoType}
    /\ 0 \notin Objects /\ 0 \notin Allocators
    /\ IsFiniteSet(Blocks) /\ FixedAllocator!Null \notin Blocks

NamesAssumption ==
    /\ Nodes \cap {"L", "M", "null", "head"} = {}
    /\ "null" \notin Code /\ "null" \notin Callers /\ "null" \notin Animated

(* The table of the tracker has at least one bucket, and a page some bytes. *)
TrackerAssumption ==
    /\ Buckets \in Nat \ {0} /\ BucketSlots \in Nat
    /\ LastAddress \in Nat /\ Addresses \subseteq 1 .. LastAddress
    /\ PageSize \in Nat \ {0} /\ MaxSize \in Nat /\ MallocSizeKnown \in BOOLEAN

SpatialAssumption ==
    /\ IsFiniteSet(Spatial) /\ Transform!Null \notin Spatial
    /\ FindParent \in [Spatial -> Spatial \cup {Transform!Null}]

ASSUME LibraryAssumption ==
    DataAssumption /\ NamesAssumption /\ TrackerAssumption /\ SpatialAssumption

-----------------------------------------------------------------------------
Init ==
    \/ part = "array" /\ Array!Init
    \/ part = "max array" /\ MaxArray!Init
    \/ part = "dictionary" /\ Dictionary!Init
    \/ part = "sorted" /\ Sorted!Init
    \/ part = "list" /\ Linked!Init
    \/ part = "auto list" /\ Linked!AutoInit
    \/ part = "maybe" /\ Maybe!Init
    \/ part = "either" /\ Either!Init
    \/ part = "any" /\ Holder!Init
    \/ part = "function" /\ Callable!Init
    \/ part = "unique ptr" /\ Unique!Init
    \/ part = "tracker" /\ Tracker!Init
    \/ part = "fixed allocator" /\ FixedAllocator!Init
    \/ part = "event" /\ Event!Init
    \/ part = "spatial" /\ Transform!Init
    \/ part = "animator" /\ Transform!AnimatorInit

Next ==
    /\ UNCHANGED part
    /\ \/ part = "array" /\ Array!Next
       \/ part = "max array" /\ MaxArray!Next
       \/ part = "dictionary" /\ Dictionary!Next
       \/ part = "sorted" /\ Sorted!Next
       \/ part = "list" /\ Linked!Next
       \/ part = "auto list" /\ Linked!AutoNext
       \/ part = "maybe" /\ Maybe!Next
       \/ part = "either" /\ Either!Next
       \/ part = "any" /\ Holder!Next
       \/ part = "function" /\ Callable!Next
       \/ part = "unique ptr" /\ Unique!Next
       \/ part = "tracker" /\ Tracker!Next
       \/ part = "fixed allocator" /\ FixedAllocator!Next
       \/ part = "event" /\ Event!Next
       \/ part = "spatial" /\ Transform!Next
       \/ part = "animator" /\ Transform!AnimatorNext

Spec == Init /\ [][Next]_vars

-----------------------------------------------------------------------------
(* Memory is used as what it is: every place that counts as an object is   *)
(* one, was constructed once and is destroyed once, every pointer that is   *)
(* kept leads to something that is alive, and the counts agree with it.     *)
ObjectsSound ==
    /\ part = "array" => Array!ObjectsSound
    /\ part = "max array" => MaxArray!ObjectsSound
    /\ part = "dictionary" => Dictionary!ObjectsSound
    /\ part = "maybe" => Maybe!ObjectsSound
    /\ part = "either" => Either!ObjectsSound
    /\ part = "any" => Holder!ObjectsSound
    /\ part = "function" => Callable!ObjectsSound
    /\ part = "unique ptr" => Unique!ObjectsSound
    /\ part = "tracker" => Tracker!ObjectsSound
    /\ part = "fixed allocator" => FixedAllocator!ObjectsSound
    /\ part = "event" => Event!ObjectsSound
    /\ part = "spatial" => Transform!ObjectsSound

(* A container or holder of the library stands for the value it should have *)
(* after the same calls: an array for a sequence, a map for a function, an  *)
(* Either for the last value that was assigned, a list for the order in     *)
(* which its nodes were linked; the tracker knows the live allocations,     *)
(* and a bag has the blocks that were taken and not given back.             *)
ContainersRepresent ==
    /\ part = "array" => Array!Represents
    /\ part = "max array" => MaxArray!Represents
    /\ part = "dictionary" => Dictionary!Represents
    /\ part = "sorted" => Sorted!Represents
    /\ part = "list" => Linked!Represents
    /\ part = "auto list" => Linked!AutoRepresents
    /\ part = "maybe" => Maybe!Represents
    /\ part = "either" => Either!Represents
    /\ part = "any" => Holder!Represents
    /\ part = "function" => Callable!Represents
    /\ part = "unique ptr" => Unique!Represents
    /\ part = "tracker" => Tracker!Represents
    /\ part = "fixed allocator" => FixedAllocator!Represents
    /\ part = "event" => Event!Represents
    /\ part = "animator" => Transform!AnimatorRepresents
=============================================================================
