----------------------------- MODULE MCLibrary ------------------------------
(***************************************************************************)
(* The bench for TLC: the parts of Library, with values for its constants, *)
(* and the parts of which nothing is proved, with theirs.                  *)
(***************************************************************************)
EXTENDS Library

Values == {1, 2}

ParentOf(o) == CASE o = "b" -> "a" [] o = "c" -> "b" [] OTHER -> "null"
Parents == [o \in {"a", "b", "c", "d"} |-> ParentOf(o)]

ArrayList == INSTANCE ArrayLists WITH Data <- Values, Room <- 5, PageElements <- 2
Map == INSTANCE Maps WITH Keys <- Keys, Data <- {1}, PageElements <- 3

Stream == INSTANCE Streams WITH Bytes <- Values, Room <- 4, Source <- <<1, 2>>, PageElements <- 3

BaseOf(c) == IF c = "x" THEN "a" ELSE "b"
Composite == INSTANCE Composites
                 WITH Plain <- {"a", "b"}, Composite <- {"x", "y"}, Base <- BaseOf,
                      Implementers <- {"b"}, MaxAspects <- 2

Vector == INSTANCE Vectors
              WITH Bits <- 3, MaxSteps <- 2, Inputs <- {<<1, 3, 4, 7>>, <<2, 5, 0, 1>>, <<0, 7, 6, 3>>}
Figure == INSTANCE Geometry WITH Grid <- {0, 1, 2}, Entries <- {0, 1, 3}

Scalar(kind, text) == [kind |-> kind, text |-> text]
Document == INSTANCE Documents
                WITH Scalars <- {Scalar("int", "7"), Scalar("int", "-1"), Scalar("float", "1e-9"),
                                 Scalar("string", "a"), Scalar("string", "7"), Scalar("string", "~"),
                                 Scalar("string", "\"")},
                     Keys <- <<"a", "b", "7">>, MaxNodes <- 2,
                     Integral <- {"1", "7"}, Fractional <- {"0.5", "-1"}

Int2 == <<"integer", 2, TRUE>>
Word == <<"integer", 3, FALSE>>
ClassName(c) == IF c = "twin" THEN "a" ELSE c
BaseClass(c) == CASE c = "b" -> "a" [] c = "c" -> "b" [] OTHER -> "Object"
Type == INSTANCE Types
            WITH Tested <- {Int2, Word, <<"float">>, <<"bool">>, <<"string">>, <<"enum", TRUE>>, <<"enum", FALSE>>,
                            <<"vector", 2>>, <<"matrix", 2, 3>>, <<"matrix", 3, 2>>, <<"color">>, <<"any">>,
                            <<"pointer">>, <<"reference">>, <<"maybe", Word>>, <<"maybe", <<"array", Int2>>>>,
                            <<"array", Int2>>, <<"array", <<"bool">>>>, <<"array", <<"string">>>>,
                            <<"array", <<"reference">>>>, <<"array", <<"enum", FALSE>>>>,
                            <<"array", <<"matrix", 2, 2>>>>, <<"array", <<"maybe", Int2>>>>, <<"array", <<"any">>>>,
                            <<"map", Int2>>, <<"map", <<"reference">>>>},
                 Numbers <- {0, 5}, Texts <- {"a", "on", "true"}, MapKeys <- <<"p", "q">>, Wide <- 3,
                 Classes <- {"a", "b", "c", "twin"}, NameOf <- ClassName, Super <- BaseClass

-----------------------------------------------------------------------------
BenchInit ==
    \/ Init
    \/ part = "array list" /\ ArrayList!Init
    \/ part = "map" /\ Map!Init
    \/ part = "stream" /\ Stream!Init
    \/ part = "composite" /\ Composite!Init
    \/ part = "vector" /\ Vector!Init
    \/ part = "figure" /\ Figure!Init
    \/ part = "document" /\ Document!Init
    \/ part = "type" /\ Type!Init
    \/ part = "registry" /\ Type!RegistryInit

BenchNext ==
    \/ Next
    \/ /\ UNCHANGED part
       /\ \/ part = "array list" /\ ArrayList!Next
          \/ part = "map" /\ Map!Next
          \/ part = "stream" /\ Stream!Next
          \/ part = "composite" /\ Composite!Next
          \/ part = "vector" /\ Vector!Next
          \/ part = "figure" /\ Figure!Next
          \/ part = "document" /\ Document!Next
          \/ part = "type" /\ Type!Next
          \/ part = "registry" /\ Type!RegistryNext

BenchSpec == BenchInit /\ [][BenchNext]_vars

-----------------------------------------------------------------------------
(* What ObjectsSound and ContainersRepresent say of the other parts is said *)
(* here of these. An array list and a map stand for what was put in, a      *)
(* stream gives back what was written, aspects are found where the layout   *)
(* put them, arithmetic on vectors and rectangles agrees with arithmetic on *)
(* numbers and sets of points, a document that is written and read is the   *)
(* tree that was built, and an attribute that is written and read has its   *)
(* value back.                                                              *)
ComponentsRepresent ==
    /\ part = "array list" => ArrayList!BlocksSound /\ ArrayList!Represents
    /\ part = "map" => Map!ObjectsSound /\ Map!Represents
    /\ part = "stream" => Stream!ObjectsSound /\ Stream!Represents
    /\ part = "composite" => Composite!ObjectsSound /\ Composite!Represents
    /\ part = "vector" => Vector!Represents
    /\ part = "figure" => Figure!Represents
    /\ part = "document" => Document!Represents
    /\ part = "type" => Type!Represents
    /\ part = "registry" => Type!RegistryRepresents
=============================================================================
