------------------------------- MODULE MCHeap --------------------------------
EXTENDS Heap

\* A page is four units; requests of one unit, of one unit aligned to two, of
\* a page, and of more than two pages.
Sizes == <<1, 2>>
Requests == {[size |-> 1, align |-> 1], [size |-> 1, align |-> 2],
             [size |-> 4, align |-> 4], [size |-> 9, align |-> 1]}
=============================================================================
