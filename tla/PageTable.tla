------------------------------ MODULE PageTable ------------------------------
(***************************************************************************)
(* Sv39 page tables as they lie in memory (kernel/src/mm/page_table.rs),   *)
(* in frames of the pool (kernel/src/mm/frame.rs).                         *)
(*                                                                         *)
(* A frame holds PTE_PER_TABLE words.  A word is an entry of a table, a    *)
(* record with a frame number and flags, or data; the empty entry is the   *)
(* zero word.  VALID, ACCESSED and DIRTY are set in every entry that map   *)
(* writes and are left out of its flags.  The pool hands out its lowest    *)
(* frame, so a freed frame is soon used again, and only an empty pool      *)
(* refuses (module Buddy is the allocator).                                *)
(*                                                                         *)
(* An operator that changes memory takes and returns a record w: the pool  *)
(* (free, mem), the table (root, tables: the frames it owns), the table a  *)
(* walk has reached (at), whether all has gone well so far (ok), and what  *)
(* module AddressSpace adds to it.                                         *)
(***************************************************************************)
EXTENDS Integers, FiniteSets

CONSTANTS
  SV39_LEVELS, PTE_PER_TABLE,
  Zero,            \* the zero word
  Junk,            \* what the allocator leaves in a frame it has got back
  None

LEAF_LEVEL == SV39_LEVELS - 1

\* pages below an entry of a table at this level
level_pages(level) == PTE_PER_TABLE ^ (LEAF_LEVEL - level)

\* the number of a page of either half splits into one index per level
indices ==
  [vpn \in 0 .. PTE_PER_TABLE ^ SV39_LEVELS - 1 |->
     [level \in 0 .. LEAF_LEVEL |-> (vpn \div level_pages(level)) % PTE_PER_TABLE]]

index(vpn, level) == indices[vpn][level]

Page(v) == [i \in 0 .. PTE_PER_TABLE - 1 |-> [data |-> v]]

EMPTY == [data |-> Zero]
Pte(ppn, flags) == [ppn |-> ppn, flags |-> flags]
is_valid(e) == "ppn" \in DOMAIN e
is_leaf(e) == is_valid(e) /\ e.flags \cap {"R", "W", "X"} # {}

Lowest(S) == CHOOSE x \in S : \A y \in S : x <= y

Failed(w) == [w EXCEPT !.ok = FALSE]

\* mutant of Take: the frame is not zeroed
TakeDirty(w) == [w EXCEPT !.free = @ \ {Lowest(@)}]

\* alloc_frame: the frame is zeroed
Take(w) == [w EXCEPT !.free = @ \ {Lowest(@)}, !.mem[Lowest(w.free)] = Page(Zero)]

\* free_frames: the allocator keeps its list links in the frames it owns
Give(w, frames) ==
  [w EXCEPT !.free = @ \cup frames,
            !.mem = [f \in DOMAIN @ |-> IF f \in frames THEN Page(Junk) ELSE @[f]]]

\* PageTable::new
new(w) ==
  IF ~w.ok \/ w.free = {} THEN Failed(w)
  ELSE [Take(w) EXCEPT !.root = Lowest(w.free), !.tables = {Lowest(w.free)}]

\* From the table w.at, which belongs to this level, down to the one at stop_level,
\* whose entry for vpn is wanted; tables that are missing are made.
RECURSIVE descend(_, _, _, _)
descend(w, vpn, level, stop_level) ==
  LET i == index(vpn, level)
      e == w.mem[w.at][i]
      frame == Lowest(w.free)
  IN  IF level = stop_level THEN w
      ELSE IF is_valid(e) THEN descend([w EXCEPT !.at = e.ppn], vpn, level + 1, stop_level)
      ELSE IF w.free = {} THEN Failed(w)
      ELSE descend([Take(w) EXCEPT !.mem[w.at][i] = Pte(frame, {}), !.tables = @ \cup {frame}, !.at = frame],
                   vpn, level + 1, stop_level)

walk_create_to(w, vpn, stop_level) == descend([w EXCEPT !.at = w.root], vpn, 0, stop_level)

\* OutOfMemory and AlreadyMapped both fail
set_entry(w, i, e) ==
  IF ~w.ok \/ is_valid(w.mem[w.at][i]) THEN Failed(w) ELSE [w EXCEPT !.mem[w.at][i] = e]

map_at_level(w, vpn, ppn, flags, level) ==
  set_entry(walk_create_to(w, vpn, level), index(vpn, level), Pte(ppn, flags))

\* the table with the 4 KiB entry of vpn, looked for from a table of this level;
\* None where the way down is missing or ends in a superpage
RECURSIVE walk(_, _, _, _)
walk(m, table, vpn, level) ==
  LET e == m[table][index(vpn, level)]
  IN  IF level = LEAF_LEVEL THEN table
      ELSE IF ~is_valid(e) \/ is_leaf(e) THEN None
      ELSE walk(m, e.ppn, vpn, level + 1)

walk_ptr(m, root, vpn) == walk(m, root, vpn, 0)

valid_entry(m, table, i) == IF table = None \/ ~is_valid(m[table][i]) THEN None ELSE m[table][i]

translate(m, root, vpn) == valid_entry(m, walk_ptr(m, root, vpn), index(vpn, LEAF_LEVEL))

clear_entry(w, table, i) ==
  IF table = None \/ ~is_valid(w.mem[table][i]) THEN w ELSE [w EXCEPT !.mem[table][i] = EMPTY]

\* unmap_from ignores the error of a page that was not mapped
unmap(w, vpn) == clear_entry(w, walk_ptr(w.mem, w.root, vpn), index(vpn, LEAF_LEVEL))

\* mutant of share_upper_half: the copy starts one entry late
share_late(w, kernel) ==
  [w EXCEPT !.mem[w.root] = [i \in DOMAIN @ |-> IF i > PTE_PER_TABLE \div 2 THEN w.mem[kernel][i] ELSE @[i]]]

\* the entries of the kernel's half are copied; the tables below them are not owned
share_upper_half(w, kernel) ==
  [w EXCEPT !.mem[w.root] = [i \in DOMAIN @ |-> IF i >= PTE_PER_TABLE \div 2 THEN w.mem[kernel][i] ELSE @[i]]]

\* The hart's own walk from the root in satp: an entry with R, W or X ends it at
\* any level, and the rest of the page number counts from the entry's frame.  A
\* word that is no valid entry faults (None).
RECURSIVE hart_walk_from(_, _, _, _)
hart_walk_from(m, table, vpn, level) ==
  LET e == m[table][index(vpn, level)]
  IN  IF is_leaf(e) THEN [e EXCEPT !.ppn = @ + (vpn % level_pages(level))]
      ELSE IF ~is_valid(e) \/ level = LEAF_LEVEL THEN None
      ELSE hart_walk_from(m, e.ppn, vpn, level + 1)

hart_walk(m, root, vpn) == hart_walk_from(m, root, vpn, 0)

=============================================================================
