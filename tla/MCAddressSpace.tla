--------------------------- MODULE MCAddressSpace ---------------------------
(* Tables of four entries: 32 user pages, of which one is text, two the heap *)
(* and one the stack, and 32 of the kernel.  The window of physical memory   *)
(* begins and ends in the middle of a superpage.  A process with one page of *)
(* heap can be forked, one with two cannot: the frames run out.              *)
EXTENDS AddressSpace

\* sbrk by at most a page at a time, and by two pages
OnePage == {-1, 1, 2}
TwoPages == {4}

Symmetry == Permutations(Procs)

Text == <<[first |-> 2, last |-> 2, flags |-> {"R", "X"}, data |-> 1]>>

\* text, read-only data, an empty .data, .bss
KernelImage ==
  <<[first |-> 4, last |-> 4, flags |-> {"R", "X"}], [first |-> 5, last |-> 5, flags |-> {"R"}],
    [first |-> 6, last |-> 5, flags |-> {"R", "W"}], [first |-> 6, last |-> 6, flags |-> {"R", "W"}]>>

Devices == <<[first |-> 2, last |-> 2]>>

=============================================================================
