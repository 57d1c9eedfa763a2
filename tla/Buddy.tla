-------------------------------- MODULE Buddy --------------------------------
(***************************************************************************)
(* kernel/src/mm/frame.rs: the binary buddy allocator of physical frames.  *)
(*                                                                         *)
(* Frames are named by their index relative to the base of the region.     *)
(* The free lists are intrusive: the links of a free block are in its      *)
(* first frame.  Every call holds the allocator's SpinLock, so a call is   *)
(* one step.  A loop of the code that visits a different order in each     *)
(* round appears here as the set of blocks it links or unlinks.            *)
(***************************************************************************)
EXTENDS Integers, FiniteSets, FiniteSetsExt

CONSTANTS
  MAX_ORDER,
  Frames,      \* number of frames under management
  NIL

ASSUME BuddyAssumption ==
  /\ MAX_ORDER \in Nat
  /\ Frames \in Nat \ {0}
  /\ NIL \notin 0 .. Frames

VARIABLES
  free_lists,    \* head of each order's list
  next, prev,    \* the FreeNode in each frame; NIL where no node was written
  bitmap,        \* the numbers of the bits that are set
  allocated, peak,
  live           \* history: the blocks handed out and not freed yet

listVars == <<free_lists, next, prev, bitmap>>
vars     == <<listVars, allocated, peak, live>>

Orders  == 0 .. MAX_ORDER
Indices == 0 .. Frames - 1

\* A block is the pair of its order and the index of its first frame.
Blocks == Orders \X Indices
Extent(b) == b[2] .. b[2] + 2 ^ b[1] - 1

Fits(k, i)    == i + 2 ^ k <= Frames
Aligned(k, i) == i % 2 ^ k = 0

\* The regions of the orders follow one another: past the end of its own region a
\* bit_index is a bit of the next order.
order_bit_base[k \in Orders] ==
  IF k = 0 THEN 0 ELSE order_bit_base[k - 1] + (Frames + 2 ^ (k - 1) - 1) \div 2 ^ (k - 1)
bit_index(k, i) == order_bit_base[k] + i \div 2 ^ k
is_free(k, i) == bit_index(k, i) \in bitmap
Bits(bs) == {bit_index(b[1], b[2]) : b \in bs}

\* What the bits that are set say of the region.
FreeBlocks == {b \in Blocks : Aligned(b[1], b[2]) /\ is_free(b[1], b[2])}

------------------------------------------------------------------------------
(* push and remove                                                            *)

\* remove unlinks each block of `out` from its list, then push links each block of
\* `in` at the head of its own.  No two of them have the same order, so the calls
\* touch different lists.  (A node past the region has no link into it.)
Pushed(in, i) == \E k \in Orders : <<k, i>> \in in
OrderOf(in, i) == CHOOSE k \in Orders : <<k, i>> \in in

HeadAfter(out, in) == [k \in Orders |->
  IF \E i \in Indices : <<k, i>> \in in THEN CHOOSE i \in Indices : <<k, i>> \in in
  ELSE IF <<k, free_lists[k]>> \in out THEN next[free_lists[k]]
  ELSE free_lists[k]]

NextAfter(out, in) == [i \in Indices |->
  IF Pushed(in, i) THEN free_lists[OrderOf(in, i)]
  ELSE IF Pushed(out, i) THEN NIL
  ELSE IF \E b \in out : b[2] \in Indices /\ prev[b[2]] = i THEN next[next[i]]
  ELSE next[i]]

\* mutant of PrevAfter: remove leaves the back link of the next node
PrevAfterForgets(out, in) == [i \in Indices |->
  IF Pushed(in, i) \/ Pushed(out, i) THEN NIL
  ELSE IF \E b \in in : free_lists[b[1]] = i THEN (CHOOSE b \in in : free_lists[b[1]] = i)[2]
  ELSE prev[i]]

PrevAfter(out, in) == [i \in Indices |->
  IF Pushed(in, i) \/ Pushed(out, i) THEN NIL
  ELSE IF \E b \in in : free_lists[b[1]] = i THEN (CHOOSE b \in in : free_lists[b[1]] = i)[2]
  ELSE IF \E b \in out : b[2] \in Indices /\ next[b[2]] = i THEN prev[prev[i]]
  ELSE prev[i]]

\* The node of an unlinked block belongs to the caller from here on: NIL.
Relink(out, in) ==
  /\ free_lists' = HeadAfter(out, in)
  /\ next' = NextAfter(out, in)
  /\ prev' = PrevAfter(out, in)
  /\ bitmap' = (bitmap \ Bits(out)) \cup Bits(in)

------------------------------------------------------------------------------
(* alloc                                                                      *)

\* The orders a request can be served from.
Donors(order) == {k \in Orders : k >= order /\ free_lists[k] # NIL}

\* What splitting a block of the donor order down to `order` gives back.
UpperHalves(order, donor, idx) == {<<k, idx + 2 ^ k>> : k \in order .. donor - 1}

\* A request that cannot be served returns None and changes nothing.
Alloc(order) ==
  LET donor == Min(Donors(order))
      idx   == free_lists[donor]
  IN  /\ Donors(order) # {}
      /\ Relink({<<donor, idx>>}, UpperHalves(order, donor, idx))
      /\ allocated' = allocated + 2 ^ order
      /\ peak' = Max({peak, allocated'})
      /\ live' = live \cup {<<order, idx>>}

------------------------------------------------------------------------------
(* free                                                                       *)

\* The block of order k that frame idx lies in, and that block's buddy.
Start(k, idx) == idx - (idx % 2 ^ k)
BuddyOf(k, idx) ==
  IF Aligned(k + 1, Start(k, idx)) THEN Start(k, idx) + 2 ^ k ELSE Start(k, idx) - 2 ^ k

\* mutant of Mergeable: merging stops one order early
MergeableBelow(k, idx) ==
  k < MAX_ORDER - 1 /\ Fits(k, BuddyOf(k, idx)) /\ is_free(k, BuddyOf(k, idx))

\* mutant of Mergeable: the end of the region is not looked at
MergeableBeyond(k, idx) == k < MAX_ORDER /\ is_free(k, BuddyOf(k, idx))

\* The loop condition: the buddy is in range and entirely free at this order.
Mergeable(k, idx) ==
  k < MAX_ORDER /\ Fits(k, BuddyOf(k, idx)) /\ is_free(k, BuddyOf(k, idx))

\* The caller frees what it was given, once, and with the same order.
Free(order, idx) ==
  LET level == Min({k \in Orders : k >= order /\ ~Mergeable(k, idx)})
  IN  /\ <<order, idx>> \in live
      /\ Relink({<<k, BuddyOf(k, idx)>> : k \in order .. level - 1}, {<<level, Start(level, idx)>>})
      /\ allocated' = allocated - 2 ^ order
      /\ live' = live \ {<<order, idx>>}
      /\ UNCHANGED peak

------------------------------------------------------------------------------

\* init: walking up the region, each step pushes the largest block that is
\* aligned and fits, so that the highest block of an order heads its list.
Seeds == {b \in Blocks :
  /\ Aligned(b[1], b[2]) /\ Fits(b[1], b[2])
  /\ b[1] = MAX_ORDER \/ ~Fits(b[1] + 1, Start(b[1] + 1, b[2]))}

Init ==
  LET Below(b) == {c \in Seeds : c[1] = b[1] /\ c[2] < b[2]}
      Above(b) == {c \in Seeds : c[1] = b[1] /\ c[2] > b[2]}
      Seeded(i) == \E k \in Orders : <<k, i>> \in Seeds
      BlockAt(i) == CHOOSE b \in Seeds : b[2] = i
  IN  /\ free_lists = [k \in Orders |->
            IF \E b \in Seeds : b[1] = k THEN Max({b[2] : b \in {c \in Seeds : c[1] = k}}) ELSE NIL]
      /\ next = [i \in Indices |->
            IF Seeded(i) /\ Below(BlockAt(i)) # {} THEN Max({b[2] : b \in Below(BlockAt(i))}) ELSE NIL]
      /\ prev = [i \in Indices |->
            IF Seeded(i) /\ Above(BlockAt(i)) # {} THEN Min({b[2] : b \in Above(BlockAt(i))}) ELSE NIL]
      /\ bitmap = Bits(Seeds)
      /\ allocated = 0
      /\ peak = 0
      /\ live = {}

------------------------------------------------------------------------------
(* Properties                                                                 *)

\* No frame is lost and none is given out twice: each lies in exactly one block
\* that is free or live, blocks are aligned to their size and inside the region
\* (the invariant "init establishes and split/merge preserve"), and `allocated`
\* counts the frames of the live ones, never more than `peak` or the region has.
Partition ==
  /\ \A f \in Indices : \E b \in FreeBlocks \cup live :
       f \in Extent(b) /\ \A c \in FreeBlocks \cup live : f \in Extent(c) => c = b
  /\ FreeBlocks \cap live = {}
  /\ \A b \in FreeBlocks \cup live : Aligned(b[1], b[2]) /\ Fits(b[1], b[2])
  /\ allocated = Cardinality(UNION {Extent(b) : b \in live})
  /\ peak \in allocated .. Frames

\* The bitmap and the linked lists tell the same story: following `next` from the
\* head of an order visits exactly the blocks whose bit is set, and `prev` leads
\* back, so that unlinking a buddy from the middle of a list is safe.
ListsMatchBitmap ==
  \A k \in Orders :
    LET listed == {b[2] : b \in {c \in FreeBlocks : c[1] = k}}
        Visited[n \in 0 .. Frames] ==
          IF n = 0 THEN {free_lists[k]} \ {NIL}
          ELSE Visited[n - 1] \cup ({next[i] : i \in Visited[n - 1]} \ {NIL})
    IN  /\ Visited[Frames] = listed
        /\ \A i \in listed : next[i] # NIL => prev[next[i]] = i
        /\ free_lists[k] # NIL => prev[free_lists[k]] = NIL

\* Coalescing is complete: a request fails only when no aligned run of that many
\* frames is free, however the region was cut up before.
FailsOnlyWhenFull ==
  \A order \in Orders : Donors(order) = {} =>
    \A i \in Indices : Aligned(order, i) /\ Fits(order, i) =>
      \E b \in live : Extent(b) \cap Extent(<<order, i>>) # {}

=============================================================================
