----------------------------- MODULE ArrayLists -----------------------------
(***************************************************************************)
(* ArrayList (base/array_list.hpp): a list of blocks of elements. rep      *)
(* holds the blocks, each with the elements it holds (from begin to        *)
(* current) and how many fit (up to end), and the size; ref and fault are  *)
(* as in Arrays. A position is the number of elements before it; the code  *)
(* keeps it as a block and a place in it, which Locate and the iterator's  *)
(* inc_by and dec_by translate.                                            *)
(***************************************************************************)
EXTENDS ObjectMemory, SequencesExt

CONSTANTS Data, Room,
          PageElements    \* allocate_large rounds a block up to pages
VARIABLES rep, ref, fault

vars == <<rep, ref, fault>>

Empty == [blocks |-> <<>>, size |-> 0]

Filler == 0               \* T()
Fill0(n) == [i \in 1 .. n |-> Filler]

create_block_of_size(n) ==
    [cells |-> <<>>, space |-> PageElements * ((n + PageElements - 1) \div PageElements)]

Contents(blocks) == FlattenSeq([k \in DOMAIN blocks |-> blocks[k].cells])
Start(blocks, k) == Len(Contents(SubSeq(blocks, 1, k - 1)))

(* End is no block: the sentinel of the list of blocks.                    *)
End == [k |-> 0, off |-> 0]
Locate(blocks, pos) ==
    IF pos = Len(Contents(blocks)) THEN End
    ELSE LET k == CHOOSE j \in DOMAIN blocks :
                     /\ Start(blocks, j) <= pos
                     /\ pos < Start(blocks, j + 1)
         IN  [k |-> k, off |-> pos - Start(blocks, k)]

extend_current_by(block, n) == [block EXCEPT !.cells = @ \o Fill0(n)]

(* Fill up block k (0 for none) and put what remains of n elements into a  *)
(* new block behind it.                                                    *)
fill_and_spill(blocks, k, n) ==
    LET space == IF k = 0 THEN 0 ELSE blocks[k].space - Len(blocks[k].cells)
        here  == IF space >= n THEN n ELSE space
        spill == extend_current_by(create_block_of_size(n - here), n - here)
        full  == IF here = 0 THEN blocks
                 ELSE [blocks EXCEPT ![k] = extend_current_by(@, here)]
    IN  IF here = n THEN full ELSE InsertAt(full, k + 1, spill)

(* Values put at a position, element by element.                           *)
Overwrite(blocks, at, items) ==
    LET After(k, i) ==
            LET p == Start(blocks, k) + i
            IN  IF p \in at + 1 .. at + Len(items) THEN items[p - at] ELSE blocks[k].cells[i]
    IN  [k \in DOMAIN blocks |->
            [cells |-> [i \in 1 .. Len(blocks[k].cells) |-> After(k, i)],
             space |-> blocks[k].space]]

(* In the middle of a block: as many elements as follow in the block move  *)
(* up, by their own number and not by n.                                   *)
Follow(blocks, at) ==
    LET it == Locate(blocks, at) IN Len(blocks[it.k].cells) - it.off

split(blocks, at, n) ==
    LET it   == Locate(blocks, at)
        m    == Follow(blocks, at)
        room == fill_and_spill(blocks, it.k, n)
    IN  Overwrite(Overwrite(room, at + m, SubSeq(Contents(blocks), at + 1, at + m)),
                  at, [i \in 1 .. m |-> Moved])

IsSplit(at) == at # rep.size /\ at # 0 /\ Locate(rep.blocks, at).off # 0

make_room_at(blocks, at, n) ==
    CASE at = Len(Contents(blocks)) -> fill_and_spill(blocks, Len(blocks), n)
      [] at = 0 -> <<extend_current_by(create_block_of_size(n), n)>> \o blocks
      [] OTHER  -> LET it == Locate(blocks, at)
                   IN  IF it.off = 0 THEN fill_and_spill(blocks, it.k - 1, n)
                       ELSE split(blocks, at, n)

inserted(list, items, at) ==
    IF items = <<>> THEN list
    ELSE [blocks |-> Overwrite(make_room_at(list.blocks, at, Len(items)), at, items),
          size   |-> list.size + Len(items)]

erased(list, at) ==
    LET last  == Len(list.blocks)
        moved == Overwrite(list.blocks, at, SubSeq(Contents(list.blocks), at + 2, list.size))
        rest  == Front(moved[last].cells)
    IN  [blocks |-> Front(moved) \o IF rest = <<>> THEN <<>>
                                    ELSE <<[moved[last] EXCEPT !.cells = rest]>>,
         size   |-> list.size - 1]

-----------------------------------------------------------------------------
Lists == {<<v>> : v \in Data} \cup {<<v, v + 1>> : v \in Data} \cup {<<v, v + 1, v>> : v \in Data}

(* The constructors insert what they are given.                            *)
Init ==
    \E items \in Lists \cup {<<>>} :
        rep = inserted(Empty, items, 0) /\ ref = items /\ fault = "none"

Insert ==
    \E items \in Lists, at \in 0 .. rep.size :
      LET n == Len(items)
          m == Follow(rep.blocks, at)
      IN /\ rep.size + n <= Room
         /\ IF IsSplit(at) /\ at + 2 * m > rep.size + n
            THEN fault' = "moved past the end" /\ UNCHANGED <<rep, ref>>
            ELSE /\ rep' = inserted(rep, items, at)
                 /\ ref' = Inserted(ref, at, items)
                 /\ fault' = IF IsSplit(at) /\ m # n THEN "gap elsewhere" ELSE fault

Erase ==
    \E at \in 0 .. rep.size - 1 :
      /\ rep' = erased(rep, at)
      /\ ref' = RemoveAt(ref, at + 1)
      /\ UNCHANGED fault

PopBack ==
    /\ rep.size > 0
    /\ rep' = erased(rep, rep.size - 1) /\ ref' = Front(ref) /\ UNCHANGED fault

Resize ==
    \E n \in 0 .. Room, v \in Data :
      /\ rep' = FoldLeft(LAMBDA list, i : IF n > rep.size
                                          THEN inserted(list, <<v>>, list.size)
                                          ELSE erased(list, list.size - 1),
                         rep, [i \in 1 .. IF n > rep.size THEN n - rep.size ELSE rep.size - n |-> i])
      /\ ref' = SubSeq(ref, 1, IF n < Len(ref) THEN n ELSE Len(ref))
                   \o [i \in 1 .. n - Len(ref) |-> v]
      /\ UNCHANGED fault

(* The blocks are freed; the elements in them are not destroyed.           *)
Clear == rep' = Empty /\ ref' = <<>> /\ UNCHANGED fault

(* Another list takes the blocks over and is destroyed; size_ stays here.  *)
MoveAway ==
    /\ rep' = [rep EXCEPT !.blocks = <<>>]
    /\ ref' = <<>>
    /\ fault' = IF rep.size > 0 THEN "size without blocks" ELSE fault

Next == fault = "none" /\ (Insert \/ Erase \/ PopBack \/ Resize \/ Clear \/ MoveAway)

Spec == Init /\ [][Next]_vars

-----------------------------------------------------------------------------
(* The iterator's steps, block by block.                                   *)
inc_by(blocks, it, n) ==
    FoldLeft(LAMBDA s, i :
        IF s.left = 0 \/ s.k = 0 THEN s
        ELSE LET here == Len(blocks[s.k].cells) - s.off
             IN  IF s.left < here THEN [s EXCEPT !.off = @ + s.left, !.left = 0]
                 ELSE [k    |-> IF s.k = Len(blocks) THEN 0 ELSE s.k + 1,
                       off  |-> 0,
                       left |-> s.left - here],
        [k |-> it.k, off |-> it.off, left |-> n], [i \in 0 .. Len(blocks) |-> i])

dec_by(blocks, it, n) ==
    LET last == Len(blocks)
        from == IF n > 0 /\ it.k = 0
                THEN [k |-> last, off |-> Len(blocks[last].cells), left |-> n]
                ELSE [k |-> it.k, off |-> it.off, left |-> n]
    IN  FoldLeft(LAMBDA s, i :
            IF s.left <= s.off THEN [s EXCEPT !.off = @ - s.left, !.left = 0]
            ELSE [k    |-> s.k - 1,
                  off  |-> IF s.k = 1 THEN 0 ELSE Len(blocks[s.k - 1].cells),
                  left |-> s.left - s.off],
            from, [i \in 1 .. last |-> i])

subscript(blocks, idx) ==
    LET k == CHOOSE j \in DOMAIN blocks :
                /\ idx >= Start(blocks, j)
                /\ idx - Start(blocks, j) < Len(blocks[j].cells)
    IN  blocks[k].cells[idx - Start(blocks, k) + 1]

(* No block is empty or overfull, and the size is that of the blocks, so    *)
(* that back, erase and the destructor find the last element where they     *)
(* look for it.                                                             *)
BlocksSound ==
    fault = "none" =>
      /\ rep.size = Len(Contents(rep.blocks))
      /\ \A k \in DOMAIN rep.blocks : Len(rep.blocks[k].cells) \in 1 .. rep.blocks[k].space

(* The list stands for the sequence, through operator[] as through an       *)
(* iterator that goes any distance forwards or backwards across blocks.     *)
Represents ==
    fault = "none" =>
      /\ Contents(rep.blocks) = ref
      /\ \A i \in DOMAIN ref : subscript(rep.blocks, i - 1) = ref[i]
      /\ \A p \in 0 .. rep.size - 1 : \A n \in 0 .. rep.size - p :
            LET here  == Locate(rep.blocks, p)
                there == Locate(rep.blocks, p + n)
            IN  /\ inc_by(rep.blocks, here, n) = [k |-> there.k, off |-> there.off, left |-> 0]
                /\ dec_by(rep.blocks, there, n) = [k |-> here.k, off |-> here.off, left |-> 0]
=============================================================================
