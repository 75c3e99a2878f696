---------------------------- MODULE LinkedLists ----------------------------
(***************************************************************************)
(* BareLinkList (base/bare_link_list.hpp), which links nodes it does not   *)
(* own, and LinkList (base/link_list.hpp), which makes and destroys its    *)
(* own: rings of next and previous pointers through a sentinel. rep holds  *)
(* the pointers of every node and of the sentinels "L" and "M", ref the    *)
(* sequences of nodes of the two lists; owning says which class they are.  *)
(* And AutoList (base/auto_link_queue.hpp), with an Init and a Next of its  *)
(* own: no sentinel, forward pointers to the next link, and backward ones   *)
(* to the pointer that points here, the head or the next of another link.   *)
(***************************************************************************)
EXTENDS Integers, Sequences, Functions

CONSTANTS Nodes
VARIABLES rep, ref, fault

vars == <<rep, ref, fault>>

Lists == {"L", "M"}
Places == Nodes \cup Lists
Null == "null"

(* A sequence with p as its i-th element, without its i-th, and without p.  *)
With(s, i, p)   == SubSeq(s, 1, i - 1) \o <<p>> \o SubSeq(s, i, Len(s))
WithoutAt(s, i) == SubSeq(s, 1, i - 1) \o SubSeq(s, i + 1, Len(s))
Without(s, p)   == IF p \in Range(s) THEN WithoutAt(s, CHOOSE i \in DOMAIN s : s[i] = p) ELSE s

Self(list) == [next |-> list, previous |-> list]
NoLink == [next |-> Null, previous |-> Null]

Init ==
    /\ \E owning \in BOOLEAN :
          rep = [link |-> [p \in Places |-> IF p \in Lists THEN Self(p) ELSE NoLink],
                 owning |-> owning]
    /\ ref = [l \in Lists |-> <<>>]
    /\ fault = "none"

(* The four ways to link end in the same two assignments.                  *)
Between(link, p, before, after) ==
    [link EXCEPT ![p] = [next |-> after, previous |-> before],
                 ![before].next = p, ![after].previous = p]

(* As one assignment per sentinel when both neighbours are the sentinel.   *)
link_in(link, p, before, after) ==
    IF before # after THEN Between(link, p, before, after)
    ELSE [link EXCEPT ![p] = [next |-> after, previous |-> before],
                      ![before] = [next |-> p, previous |-> p]]

link_after(link, p, after)   == link_in(link, p, after, link[after].next)
link_before(link, p, before) == link_in(link, p, link[before].previous, before)
link_tail(link, p, list)     == link_in(link, p, link[list].previous, list)
link_head(link, p, list)     == link_in(link, p, list, link[list].next)

(* The node keeps its own pointers.                                        *)
unlink(link, p) ==
    LET n == link[p].next
        q == link[p].previous
    IN  IF n # q THEN [link EXCEPT ![n].previous = q, ![q].next = n]
        ELSE [link EXCEPT ![n] = [next |-> n, previous |-> q]]

Linked(p) == \E l \in Lists : p \in Range(ref[l])

-----------------------------------------------------------------------------
(* link_tail and link_head; push_back and push_front make the node first.  *)
Push(l) ==
    \E p \in Nodes :
      /\ ~Linked(p)
      /\ \/ rep' = [rep EXCEPT !.link = link_tail(@, p, l)] /\ ref' = [ref EXCEPT ![l] = Append(@, p)]
         \/ rep' = [rep EXCEPT !.link = link_head(@, p, l)] /\ ref' = [ref EXCEPT ![l] = <<p>> \o @]
      /\ UNCHANGED fault

LinkAt(l) ==
    \E p \in Nodes, i \in DOMAIN ref[l] :
      /\ ~rep.owning /\ ~Linked(p)
      /\ \/ /\ rep' = [rep EXCEPT !.link = link_after(@, p, ref[l][i])]
            /\ ref' = [ref EXCEPT ![l] = With(@, i + 1, p)]
         \/ /\ rep' = [rep EXCEPT !.link = link_before(@, p, ref[l][i])]
            /\ ref' = [ref EXCEPT ![l] = With(@, i, p)]
      /\ UNCHANGED fault

(* LinkList destroys what it takes out, and clears by erasing its begin.   *)
Taken(link, p) ==
    IF rep.owning THEN [unlink(link, p) EXCEPT ![p] = NoLink] ELSE unlink(link, p)

erase(l) ==
    \E i \in DOMAIN ref[l] :
      /\ rep' = [rep EXCEPT !.link = Taken(@, ref[l][i])]
      /\ ref' = [ref EXCEPT ![l] = WithoutAt(@, i)]
      /\ UNCHANGED fault

clear(l) ==
    LET erased[n \in 0 .. Len(ref[l])] ==
          IF n = 0 THEN rep.link ELSE Taken(erased[n - 1], erased[n - 1][l].next)
    IN  /\ rep.owning
        /\ rep' = [rep EXCEPT !.link = erased[Len(ref[l])]]
        /\ ref' = [ref EXCEPT ![l] = <<>>]
        /\ UNCHANGED fault

(* ~ListLinkBase unlinks whether the node is linked or not.                *)
DestroyNode ==
    \E p \in Nodes :
      /\ ~rep.owning
      /\ IF Linked(p)
         THEN /\ rep' = [rep EXCEPT !.link = [unlink(@, p) EXCEPT ![p] = NoLink]]
              /\ ref' = [l \in Lists |-> Without(ref[l], p)]
              /\ UNCHANGED fault
         ELSE /\ fault' = IF rep.link[p] = NoLink THEN "null dereferenced" ELSE "unlinked twice"
              /\ UNCHANGED <<rep, ref>>

(* BareLinkList's move: the elements of the other list are taken over, the *)
(* elements that were here are left with links to this list.               *)
MoveInto(l) ==
    LET m    == CHOOSE other \in Lists : other # l
        head == rep.link[m].next
        tail == rep.link[m].previous
        took == [rep.link EXCEPT ![l] = [next |-> head, previous |-> tail], ![m] = Self(m)]
    IN  /\ ~rep.owning
        /\ rep' = [rep EXCEPT !.link =
              IF head = m THEN [@ EXCEPT ![l] = Self(l)]
              ELSE IF head = tail THEN [took EXCEPT ![head] = [next |-> l, previous |-> l]]
              ELSE [took EXCEPT ![head].previous = l, ![tail].next = l]]
        /\ ref' = [ref EXCEPT ![l] = ref[m], ![m] = <<>>]
        /\ fault' = IF ref[l] # <<>> THEN "elements orphaned" ELSE fault

(* LinkList has no destructor: its items stay allocated.                   *)
DestroyList(l) ==
    /\ rep.owning /\ ref[l] # <<>>
    /\ fault' = "items leaked"
    /\ UNCHANGED <<rep, ref>>

Next ==
    /\ fault = "none"
    /\ \/ DestroyNode
       \/ \E l \in Lists : Push(l) \/ LinkAt(l) \/ erase(l) \/ clear(l) \/ MoveInto(l) \/ DestroyList(l)

Spec == Init /\ [][Next]_vars

-----------------------------------------------------------------------------
(* Both rings, followed either way from the sentinel, are the sequences;    *)
(* an empty list is its sentinel alone.                                     *)
Represents ==
    fault = "none" =>
      \A l \in Lists :
        LET ring == <<l>> \o ref[l] \o <<l>>
        IN  \A i \in 1 .. Len(ring) - 1 :
              /\ rep.link[ring[i]].next = ring[i + 1]
              /\ rep.link[ring[i + 1]].previous = ring[i]

-----------------------------------------------------------------------------
(* AutoList.                                                                *)
Anchor == "head"      \* the list's own pointer; otherwise a link's next
NoAutoLink == [next |-> Null, prev_next_ptr |-> Null]

AutoInit ==
    /\ rep = [head_ |-> Null, link |-> [l \in Nodes |-> NoAutoLink]]
    /\ ref = <<>>
    /\ fault = "none"

Through(r, pointer, target) ==
    IF pointer = Anchor THEN [r EXCEPT !.head_ = target] ELSE [r EXCEPT !.link[pointer].next = target]

auto_link_head(r, l) ==
    LET old == r.head_
        r1  == IF old = Null THEN r ELSE [r EXCEPT !.link[old].prev_next_ptr = l]
    IN  [r1 EXCEPT !.link[l] = [next |-> old, prev_next_ptr |-> Anchor], !.head_ = l]

\* Mutant: the next link is not told which pointer leads to it now.
auto_unlink_Behind(r, l) ==
    LET p == r.link[l].prev_next_ptr
    IN  IF p = Null THEN r ELSE Through(r, p, r.link[l].next)

(* The link's own pointers stay as they are.                               *)
auto_unlink(r, l) ==
    LET n  == r.link[l].next
        p  == r.link[l].prev_next_ptr
        r1 == IF n = Null THEN r ELSE [r EXCEPT !.link[n].prev_next_ptr = p]
    IN  IF p = Null THEN r1 ELSE Through(r1, p, n)

AutoLinkHead ==
    \E l \in Nodes :
      /\ l \notin Range(ref)
      /\ rep' = auto_link_head(rep, l) /\ ref' = <<l>> \o ref /\ UNCHANGED fault

(* Unlinked once more, a link writes to neighbours it no longer has.       *)
Forget(l) ==
    /\ ref' = Without(ref, l)
    /\ fault' = IF l \notin Range(ref) /\ auto_unlink(rep, l) # rep THEN "unlinked twice" ELSE fault

AutoUnlink == \E l \in Nodes : rep' = auto_unlink(rep, l) /\ Forget(l)

(* The destructor unlinks, and another object is made in its place.        *)
AutoDestroy ==
    \E l \in Nodes : rep' = [auto_unlink(rep, l) EXCEPT !.link[l] = NoAutoLink] /\ Forget(l)

AutoNext == fault = "none" /\ (AutoLinkHead \/ AutoUnlink \/ AutoDestroy)

(* From the head the links are the sequence, and each is pointed to by the  *)
(* pointer it points back to.                                               *)
AutoRepresents ==
    fault = "none" =>
      LET pointer(i) == IF i = 1 THEN Anchor ELSE ref[i - 1]
          target(i)  == IF i = Len(ref) + 1 THEN Null ELSE ref[i]
          read(p)    == IF p = Anchor THEN rep.head_ ELSE rep.link[p].next
      IN  \A i \in 1 .. Len(ref) + 1 :
            /\ read(pointer(i)) = target(i)
            /\ i <= Len(ref) => rep.link[ref[i]].prev_next_ptr = pointer(i)
=============================================================================
