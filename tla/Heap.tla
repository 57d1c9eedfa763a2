-------------------------------- MODULE Heap ---------------------------------
(***************************************************************************)
(* kernel/src/mm/heap.rs, the kernel's global allocator, on top of Buddy.  *)
(*                                                                         *)
(* A small request is served from the LIFO free list of its size class,    *)
(* which is refilled by carving up a frame; a large one goes to the buddy  *)
(* allocator.  Page tables, kernel stacks and user pages take frames from  *)
(* the same allocator at the same time.  Addresses are counted in units of *)
(* the smallest class, from the base of the managed region.                *)
(***************************************************************************)
EXTENDS Buddy, Sequences

CONSTANTS
  PAGE_SIZE,
  CLASS_SIZES,     \* the size classes, a sequence
  Layouts,         \* the layouts the kernel asks for
  MAX_OBJECTS      \* bound: objects alive at once

ASSUME HeapAssumption ==
  /\ \A c \in 1 .. Len(CLASS_SIZES) : PAGE_SIZE % CLASS_SIZES[c] = 0
  /\ \A l \in Layouts : l.size \in Nat \ {0} /\ l.align \in 1 .. PAGE_SIZE

VARIABLES
  free,            \* HeapInner::free: each class's list, from its head
  heap_allocated,  \* HeapInner::allocated
  reserved,        \* HeapInner::reserved
  returning,       \* dealloc: runs of frames between drop(heap) and free_frames
  objects,         \* history: what has been handed out and not taken back
  slabs            \* history: the frames carved into each class

heapVars == <<free, heap_allocated, reserved, returning, objects, slabs>>

Classes == 1 .. Len(CLASS_SIZES)

\* mutant of Need: the alignment is forgotten
NeedSize(l) == l.size

Need(l) == Max({l.size, l.align})

\* class_for: the classes that satisfy a layout; if there are none, the request is large
ClassesFor(l) == {c \in Classes : CLASS_SIZES[c] >= Need(l)}
ClassFor(l) == Min(ClassesFor(l))
Large(l) == ClassesFor(l) = {}

\* order_for
OrderFor(count) == Min({k \in Orders : 2 ^ k >= count})
OrderOfLayout(l) == OrderFor((l.size + PAGE_SIZE - 1) \div PAGE_SIZE)

\* mutant of Carved: one block too few
CarvedShort(frame, c) ==
  [i \in 1 .. (PAGE_SIZE \div CLASS_SIZES[c]) - 1 |-> frame * PAGE_SIZE + (i - 1) * CLASS_SIZES[c]]

\* refill: the frame's blocks, the lowest address first
Carved(frame, c) ==
  [i \in 1 .. PAGE_SIZE \div CLASS_SIZES[c] |-> frame * PAGE_SIZE + (i - 1) * CLASS_SIZES[c]]

Object(l, addr) == [layout |-> l, addr |-> addr]

\* What Buddy's last alloc handed out.
Granted == CHOOSE b \in live' : b \notin live

\* the class's list, popped; an empty list is refilled first, and the request
\* fails, changing nothing, when there is no frame for that
AllocSmall(l) ==
  LET c == ClassFor(l)
      take(list) == /\ objects' = objects \cup {Object(l, Head(list))}
                    /\ free' = [free EXCEPT ![c] = Tail(list)]
  IN  /\ ~Large(l)
      /\ \/ /\ free[c] # <<>>
            /\ take(free[c])
            /\ UNCHANGED <<vars, reserved, slabs>>
         \/ /\ free[c] = <<>>
            /\ Alloc(0)
            /\ take(Carved(Granted[2], c))
            /\ reserved' = reserved + PAGE_SIZE
            /\ slabs' = slabs \cup {<<c, Granted[2]>>}
      /\ heap_allocated' = heap_allocated + CLASS_SIZES[c]
      /\ UNCHANGED returning

AllocLarge(l) ==
  LET order == OrderOfLayout(l)
  IN  /\ Large(l)
      /\ Alloc(order)
      /\ objects' = objects \cup {Object(l, Granted[2] * PAGE_SIZE)}
      /\ heap_allocated' = heap_allocated + PAGE_SIZE * 2 ^ order
      /\ reserved' = reserved + PAGE_SIZE * 2 ^ order
      /\ UNCHANGED <<free, returning, slabs>>

DeallocSmall(o) ==
  LET c == ClassFor(o.layout)
  IN  /\ o \in objects
      /\ ~Large(o.layout)
      /\ free' = [free EXCEPT ![c] = <<o.addr>> \o @]
      /\ heap_allocated' = heap_allocated - CLASS_SIZES[c]
      /\ objects' = objects \ {o}
      /\ UNCHANGED <<vars, reserved, returning, slabs>>

\* the accounting, under the heap's lock
DeallocLarge(o) ==
  LET order == OrderOfLayout(o.layout)
  IN  /\ o \in objects
      /\ Large(o.layout)
      /\ heap_allocated' = heap_allocated - PAGE_SIZE * 2 ^ order
      /\ reserved' = reserved - PAGE_SIZE * 2 ^ order
      /\ returning' = returning \cup {<<order, o.addr \div PAGE_SIZE>>}
      /\ objects' = objects \ {o}
      /\ UNCHANGED <<vars, free, slabs>>

\* free_frames, after the lock was dropped
DeallocFrames(run) ==
  /\ run \in returning
  /\ Free(run[1], run[2])
  /\ returning' = returning \ {run}
  /\ UNCHANGED <<free, heap_allocated, reserved, objects, slabs>>

\* The runs of frames that belong to the heap.
HeapRuns == {<<0, s[2]>> : s \in slabs} \cup returning
       \cup {<<OrderOfLayout(o.layout), o.addr \div PAGE_SIZE>> : o \in {x \in objects : Large(x.layout)}}

\* Frame::alloc_order and Frame::drop, by everybody else
FrameAlloc(order) == Alloc(order) /\ UNCHANGED heapVars
FrameDrop(b) == b \in live \ HeapRuns /\ Free(b[1], b[2]) /\ UNCHANGED heapVars

HeapInit ==
  /\ Init
  /\ free = [c \in Classes |-> <<>>]
  /\ heap_allocated = 0
  /\ reserved = 0
  /\ returning = {}
  /\ objects = {}
  /\ slabs = {}

HeapNext ==
  \/ /\ Cardinality(objects) < MAX_OBJECTS
     /\ \E l \in Layouts : AllocSmall(l) \/ AllocLarge(l)
  \/ \E o \in objects : DeallocSmall(o) \/ DeallocLarge(o)
  \/ \E run \in returning : DeallocFrames(run)
  \/ \E order \in Orders : FrameAlloc(order)
  \/ \E b \in live : FrameDrop(b)

HeapSpec == HeapInit /\ [][HeapNext]_<<vars, heapVars>>

------------------------------------------------------------------------------
(* Properties                                                                 *)

SizeOf(l) == IF Large(l) THEN PAGE_SIZE * 2 ^ OrderOfLayout(l) ELSE CLASS_SIZES[ClassFor(l)]

\* Where each piece of heap memory starts and how long it is, the objects first,
\* then the blocks on the free lists.
Pieces == {<<o.addr, SizeOf(o.layout)>> : o \in objects}
Spare == UNION {{<<free[c][i], CLASS_SIZES[c]>> : i \in 1 .. Len(free[c])} : c \in Classes}
Reach(p) == p[1] .. p[1] + p[2] - 1

\* The total length of a set of disjoint pieces.
Total(ps) == Cardinality(UNION {Reach(p) : p \in ps})

\* No two objects overlap, no object lies in memory that a free list or the frame
\* allocator may hand out again, and no block is on a list twice, so that the
\* links threaded through the free blocks are never overwritten by an owner; what
\* is given back to the frame allocator is a live run with its order (free_frames:
\* "must match a live allocation exactly").  And every object is a "correctly sized
\* and aligned block", though only sizes are compared when a class is chosen.
ObjectsSound ==
  /\ \A p, r \in Pieces \cup Spare : p # r => Reach(p) \cap Reach(r) = {}
  /\ Cardinality(Pieces) = Cardinality(objects)
  /\ Pieces \cap Spare = {}
  /\ \A c \in Classes : \A i, j \in 1 .. Len(free[c]) : free[c][i] = free[c][j] => i = j
  /\ \A p \in Pieces \cup Spare : \A a \in Reach(p) :
       \E run \in HeapRuns \ returning : a \div PAGE_SIZE \in Extent(run)
  /\ HeapRuns \subseteq live
  /\ \A o \in objects : o.addr % o.layout.align = 0 /\ o.layout.size <= SizeOf(o.layout)

\* The two counters of `stats` add up, also while a large block is between the
\* heap and the frame allocator, and carved frames are all in use or listed.
Accounted ==
  /\ heap_allocated = Total(Pieces)
  /\ reserved = PAGE_SIZE * Cardinality(UNION {Extent(run) : run \in HeapRuns \ returning})
  /\ \A s \in slabs : \A a \in s[2] * PAGE_SIZE .. s[2] * PAGE_SIZE + PAGE_SIZE - 1 :
       \E p \in Pieces \cup Spare : a \in Reach(p)

=============================================================================
