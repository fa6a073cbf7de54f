------------------------------ MODULE Umalloc ------------------------------
(***************************************************************************)
(* malloc() and free() of user programs (user/umalloc.c): a circular list  *)
(* of free blocks in the order of their addresses, entered at freep.       *)
(* Addresses and sizes count headers; base is at 0, below the heap.        *)
(* A step is one turn of the loop of malloc() or of the loop of free().    *)
(***************************************************************************)
EXTENDS Naturals

CONSTANTS Top,      \* where sbrk() fails
          More,     \* the least that morecore() asks for
          Sizes,    \* sizes of requests, header included
          Unset     \* freep before the first call

ASSUME HeapAssumption ==
    /\ Top \in Nat /\ More \in Nat \ {0}
    /\ Sizes \subseteq Nat \ {0}
    /\ Unset \notin Nat

VARIABLES heap,     \* ptr and size of the headers, by address
          freep, brk,
          blocks,   \* what the program has: addresses of headers and their sizes
          others,   \* what the program got from sbrk() itself
          call      \* the call under way: its loop, and its variables n, prevp, p, bp

heapVars == <<heap, freep, brk, blocks, others, call>>
base == 0
Returned == [loop |-> "none", n |-> 0, prevp |-> Unset, p |-> Unset, bp |-> Unset]

HeapInit == /\ heap = [a \in {base} |-> [ptr |-> base, size |-> 0]]
            /\ freep = Unset /\ brk = 1 /\ blocks = {} /\ others = {} /\ call = Returned

\* The program is between two calls, or one of them is in this loop.
In(loop) == call.loop = loop

---------------------------------------------------------------------------
\* Assigning to the header at a, which may be a new one.
Header(h, a, ptr, size) == [x \in DOMAIN h \cup {a} |-> IF x = a THEN [ptr |-> ptr, size |-> size] ELSE h[x]]
Link(h, a, ptr) == Header(h, a, ptr, h[a].size)
\* A header that is nobody's any more is not told apart from other memory.
Gone(h, a) == [x \in DOMAIN h \ {a} |-> h[x]]

\* Where bp belongs: between p and its successor, or at either end of the arena.
Belongs(h, bp, p) ==
    LET next == h[p].ptr
    IN  \/ bp > p /\ bp < next
        \/ p >= next /\ (bp > p \/ bp < next)

\* bp takes the place of its upper neighbour or links to it.
Upper(h, bp, next) ==
    IF bp + h[bp].size = next THEN Header(Gone(h, next), bp, h[next].ptr, h[bp].size + h[next].size)
    ELSE Link(h, bp, next)

\* The block at p does the same with bp.
Lower(h, bp, p) ==
    IF p + h[p].size = bp THEN Header(Gone(h, bp), p, h[bp].ptr, h[p].size + h[bp].size)
    ELSE Link(h, p, bp)

\* bp joins the block above it and the block below it, where they touch.
Bug_Joined_UpperOnly(h, bp, p) == Link(Upper(h, bp, h[p].ptr), p, bp)
Joined(h, bp, p) == Lower(Upper(h, bp, h[p].ptr), bp, p)

\* The headers of what malloc() has given to the program.
Given == {b.at : b \in blocks}

free(bp) ==
    /\ In("none") /\ bp \in Given
    /\ blocks' = {b \in blocks : b.at # bp}
    /\ call' = [Returned EXCEPT !.loop = "free", !.p = freep, !.bp = bp]
    /\ UNCHANGED <<heap, freep, brk, others>>

free_next ==
    /\ In("free") /\ ~Belongs(heap, call.bp, call.p)
    /\ call' = [call EXCEPT !.p = heap[call.p].ptr]
    /\ UNCHANGED <<heap, freep, brk, blocks, others>>

\* When morecore() has called, malloc() looks on behind what freep is now.
free_join ==
    /\ In("free") /\ Belongs(heap, call.bp, call.p)
    /\ heap' = Joined(heap, call.bp, call.p)
    /\ freep' = call.p
    /\ call' = IF call.n = 0 THEN Returned
               ELSE [call EXCEPT !.loop = "malloc", !.prevp = call.p, !.p = heap'[call.p].ptr, !.bp = Unset]
    /\ UNCHANGED <<brk, blocks, others>>

---------------------------------------------------------------------------
Entry == IF freep = Unset THEN base ELSE freep

malloc(n) ==
    /\ In("none")
    /\ freep' = Entry
    /\ call' = [Returned EXCEPT !.loop = "malloc", !.n = n, !.prevp = Entry, !.p = heap[Entry].ptr]
    /\ UNCHANGED <<heap, brk, blocks, others>>

Enough == heap[call.p].size >= call.n

malloc_next ==
    /\ In("malloc") /\ ~Enough /\ call.p # freep
    /\ call' = [call EXCEPT !.prevp = call.p, !.p = heap[call.p].ptr]
    /\ UNCHANGED <<heap, freep, brk, blocks, others>>

\* The whole block is taken out of the list, or its tail is cut off.
Whole(h, prev, p)  == Link(Link(h, prev, h[p].ptr), p, Unset)
Cut(h, p, rest, n) == Header(Header(h, p, h[p].ptr, rest), p + rest, Unset, n)

malloc_return ==
    /\ In("malloc") /\ Enough
    /\ LET rest == heap[call.p].size - call.n
       IN  /\ heap' = IF rest = 0 THEN Whole(heap, call.prevp, call.p)
                      ELSE Cut(heap, call.p, rest, call.n)
           /\ blocks' = blocks \cup {[at |-> IF rest = 0 THEN call.p ELSE call.p + rest, size |-> call.n]}
    /\ freep' = call.prevp /\ call' = Returned
    /\ UNCHANGED <<brk, others>>

morecore ==
    /\ In("malloc") /\ ~Enough /\ call.p = freep
    /\ LET nu == IF call.n < More THEN More ELSE call.n
       IN  IF brk + nu <= Top
           THEN /\ heap' = Header(heap, brk, Unset, nu) /\ brk' = brk + nu
                /\ call' = [call EXCEPT !.loop = "free", !.bp = brk]
           ELSE call' = Returned /\ UNCHANGED <<heap, brk>>
    /\ UNCHANGED <<freep, blocks, others>>

\* The program grows its heap by itself.
sbrk == /\ In("none") /\ brk < Top
        /\ others' = others \cup {brk} /\ brk' = brk + 1
        /\ UNCHANGED <<heap, freep, blocks, call>>

HeapNext ==
    \/ \E n \in Sizes : malloc(n)
    \/ malloc_next \/ malloc_return \/ morecore
    \/ \E bp \in 1..Top : free(bp)
    \/ free_next \/ free_join
    \/ sbrk

HeapSpec == HeapInit /\ [][HeapNext]_heapVars

---------------------------------------------------------------------------
\* The blocks in the list: not the program's, and not on their way into it.
FreeList == DOMAIN heap \ (Given \cup {call.bp})

\* The list goes round once, upwards from base, through all free blocks, of
\* which no two touch.
Follows(h, list, p) ==
    LET next == h[p].ptr
    IN  /\ next \in list
        /\ IF next = base THEN \A q \in list : q <= p
           ELSE p + h[p].size < next /\ \A q \in list : q <= p \/ q >= next
Sorted(h, list) == \A p \in list : Follows(h, list, p)
ListSorted == base \in FreeList /\ Sorted(heap, FreeList)

\* Pieces of these lengths, by address, fill what is between base and top.
Tiles(length, top) ==
    /\ \A a \in DOMAIN length : (length[a] = 0 <=> a = base) /\ a + length[a] <= top
    /\ \A a, b \in DOMAIN length : a < b => a + length[a] <= b
    /\ \A u \in 1..(top - 1) : \E a \in DOMAIN length : a <= u /\ u < a + length[a]

Pieces(h, taken) == [a \in DOMAIN h \cup taken |-> IF a \in taken THEN 1 ELSE h[a].size]

\* Every unit below the break is in one free block, one block that the
\* program has or is giving back, or what the program asked of sbrk();
\* malloc() has not forgotten how large a block is.
Partition ==
    /\ DOMAIN heap \cap others = {} /\ Tiles(Pieces(heap, others), brk)
    /\ \A b \in blocks : b.at \in DOMAIN heap /\ b.at # base /\ heap[b.at].size = b.size
    /\ \A b, c \in blocks : b.at = c.at => b = c

\* The loops are in the list, and they end: there is a place for bp, and
\* freep is in the list.
LoopsEnd ==
    /\ ~In("none") => freep \in FreeList /\ call.p \in FreeList
    /\ In("free") => \E p \in FreeList : Belongs(heap, call.bp, p)

\* Blocks never overlap, none is lost, neighbours are joined and every search
\* has a place to stop, whatever sequence of malloc(), free() and sbrk() a
\* program makes (umalloc.c:24-90).
HeapSound == ListSorted /\ Partition /\ LoopsEnd
===========================================================================
