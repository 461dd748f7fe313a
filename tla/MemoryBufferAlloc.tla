------------------------- MODULE MemoryBufferAlloc -------------------------
(***************************************************************************)
(* The allocator of memory_buffer_alloc.c: blocks with headers in one      *)
(* buffer, linked in the order of their addresses and, the free ones, in a *)
(* second list in any order.  An address is an offset in the buffer, and   *)
(* heap.hdr holds the headers that are alive.  The functions of the file   *)
(* are operators on the heap, so that a function that allocates several    *)
(* times can compose them.                                                 *)
(***************************************************************************)
EXTENDS Integers, FiniteSetsExt

CONSTANTS
    BufLen,     \* length of the buffer, aligned
    HdrSize,    \* sizeof(memory_header)
    Align,      \* MBEDTLS_MEMORY_ALIGN_MULTIPLE
    SizeMod,    \* SIZE_MAX + 1
    NULL

ASSUME SizesFit ==
    /\ {BufLen, HdrSize, Align, SizeMod} \subseteq Nat \ {0}
    /\ HdrSize % Align = 0
    /\ SizeMod % Align = 0
    /\ BufLen < SizeMod
    /\ NULL \notin Nat

Addresses == 0 .. BufLen - 1
Pointers == Addresses \cup {NULL}
Headers == [size : Nat, alloc : {0, 1}, prev : Pointers, next : Pointers,
            prev_free : Pointers, next_free : Pointers]

\* mbedtls_memory_buffer_alloc_init(): a buffer too small for one block is not
\* used.
AllocInit ==
    IF BufLen < HdrSize + Align
    THEN [first |-> NULL, first_free |-> NULL, hdr |-> <<>>, total_used |-> 0,
          header_count |-> 0, exited |-> FALSE]
    ELSE [first |-> 0, first_free |-> 0,
          hdr |-> [a \in {0} |-> [size |-> BufLen - HdrSize, alloc |-> 0, prev |-> NULL,
                                  next |-> NULL, prev_free |-> NULL, next_free |-> NULL]],
          total_used |-> 0, header_count |-> 0, exited |-> FALSE]

\* p->field = value, where p may be NULL: the code tests it first.
Store(hdr, p, field, value) == IF p = NULL THEN hdr ELSE [hdr EXCEPT ![p][field] = value]

\* The header at p is taken out of the free list: its neighbours are linked.
UnlinkFree(h, p) ==
    LET b == h.hdr[p]
    IN  [h EXCEPT !.hdr = Store(Store(@, b.prev_free, "next_free", b.next_free),
                                b.next_free, "prev_free", b.prev_free),
                  !.first_free = IF b.prev_free = NULL THEN b.next_free ELSE @]

\* The neighbours in the free list of the header at p are made to point to it.
RelinkFree(h, p) ==
    LET b == h.hdr[p]
    IN  [h EXCEPT !.hdr = Store(Store(@, b.prev_free, "next_free", p), b.next_free, "prev_free", p),
                  !.first_free = IF b.prev_free = NULL THEN p ELSE @]

-----------------------------------------------------------------------------
(* Walking the two lists.  A list cannot have more blocks than fit in the  *)
(* buffer.                                                                 *)
MaxBlocks == BufLen \div HdrSize

\* The blocks on the way from p along a link, with NULL at the end.
Walk(h, p, link) ==
    LET at[k \in 0 .. MaxBlocks] ==
            IF k = 0 THEN p
            ELSE LET previous == at[k - 1]
                 IN  IF previous = NULL THEN NULL ELSE h.hdr[previous][link]
    IN  at

\* The list ends, and these are its blocks.
Ends(at) == \E k \in DOMAIN at : at[k] = NULL
Blocks(at) == {at[k] : k \in DOMAIN at} \ {NULL}

\* verify_header(), where the header is alive exactly if its magics are right
VerifyHeader(h, p) ==
    /\ p \in DOMAIN h.hdr
    /\ h.hdr[p].alloc <= 1
    /\ ~(h.hdr[p].prev # NULL /\ h.hdr[p].prev = h.hdr[p].next)
    /\ ~(h.hdr[p].prev_free # NULL /\ h.hdr[p].prev_free = h.hdr[p].next_free)

\* verify_chain()
VerifyChain(h) ==
    LET at == Walk(h, h.first, "next")
    IN  /\ h.first # NULL
        /\ h.hdr[h.first].prev = NULL
        /\ \A k \in DOMAIN at :
             at[k] # NULL =>
                /\ VerifyHeader(h, at[k])
                /\ k > 0 => h.hdr[at[k]].prev = at[k - 1]

-----------------------------------------------------------------------------
(* Allocation                                                              *)

\* The length asked for, rounded up to the alignment.
AlignUp(len) == IF len % Align = 0 THEN len ELSE len - (len % Align) + Align

\* The first block of the free list that is large enough, or NULL.
FindFit(h, len) ==
    LET at == Walk(h, h.first_free, "next_free")
        stops == {k \in DOMAIN at : at[k] = NULL \/ h.hdr[at[k]].size >= len}
    IN  IF stops = {} THEN NULL ELSE at[Min(stops)]

\* The whole block is used.
TakeBlock(h, cur) ==
    LET out == UnlinkFree(h, cur)
    IN  [out EXCEPT !.hdr[cur].alloc = 1,
                    !.hdr[cur].prev_free = NULL,
                    !.hdr[cur].next_free = NULL,
                    !.total_used = @ + h.hdr[cur].size]

\* The block is split: the rest takes its place in the free list.
SplitBlock(h, cur, len) ==
    LET b == h.hdr[cur]
        new == cur + HdrSize + len
        rest == [size |-> b.size - len - HdrSize, alloc |-> 0, prev |-> cur, next |-> b.next,
                 prev_free |-> b.prev_free, next_free |-> b.next_free]
        taken == [b EXCEPT !.alloc = 1, !.size = len, !.next = new, !.prev_free = NULL,
                           !.next_free = NULL]
        linked == [h EXCEPT !.hdr = Store([a \in DOMAIN h.hdr \cup {new} |->
                                             IF a = new THEN rest
                                             ELSE IF a = cur THEN taken ELSE h.hdr[a]],
                                          b.next, "prev", new)]
    IN  [RelinkFree(linked, new) EXCEPT !.total_used = @ + len, !.header_count = @ + 1]

\* buffer_alloc_calloc(): the heap afterwards and the pointer returned.
Calloc(h, n, size) ==
    LET len0 == (n * size) % SizeMod
        len == AlignUp(len0)
        cur == FindFit(h, len)
        refused == \/ h.first = NULL
                   \/ n = 0 \/ size = 0
                   \/ len0 \div n # size
                   \/ len0 > SizeMod - Align
        after == IF h.hdr[cur].size - len < HdrSize + Align
                 THEN TakeBlock(h, cur) ELSE SplitBlock(h, cur, len)
    IN  IF refused \/ cur = NULL
        THEN [heap |-> h, ptr |-> NULL]
        ELSE IF h.hdr[cur].alloc # 0
        THEN [heap |-> [h EXCEPT !.exited = TRUE], ptr |-> NULL]
        ELSE [heap |-> after, ptr |-> cur + HdrSize]

-----------------------------------------------------------------------------
(* Release                                                                 *)

\* "Regroup with block before"
MergeBefore(h, p) ==
    LET b == h.hdr[p]
        into == b.prev
        wider == [h.hdr EXCEPT ![into].size = @ + HdrSize + b.size, ![into].next = b.next]
        linked == Store(wider, b.next, "prev", into)
    IN  [h EXCEPT !.hdr = [a \in DOMAIN linked \ {p} |-> linked[a]], !.header_count = @ - 1]

\* Fault: a block that was merged before stays in the free list.
MergeAfterKeepsLinks(h, p) ==
    LET old == h.hdr[p].next
        b == h.hdr[old]
        grown == [h EXCEPT !.hdr[p].size = @ + HdrSize + b.size,
                           !.hdr[p].next = b.next,
                           !.hdr[p].prev_free = b.prev_free,
                           !.hdr[p].next_free = b.next_free,
                           !.header_count = @ - 1]
        relinked == RelinkFree(grown, p)
        linked == Store(relinked.hdr, b.next, "prev", p)
    IN  [relinked EXCEPT !.hdr = [a \in DOMAIN linked \ {old} |-> linked[a]]]

\* "Regroup with block after": the block leaves the free list if it was there
\* and takes the place of the one it swallows.
MergeAfter(h, p) ==
    LET old == h.hdr[p].next
        listed == h.hdr[p].prev_free # NULL \/ h.hdr[p].next_free # NULL
        out == IF listed THEN UnlinkFree(h, p) ELSE h
        b == out.hdr[old]
        grown == [out EXCEPT !.hdr[p].size = @ + HdrSize + b.size,
                             !.hdr[p].next = b.next,
                             !.hdr[p].prev_free = b.prev_free,
                             !.hdr[p].next_free = b.next_free,
                             !.header_count = @ - 1]
        relinked == RelinkFree(grown, p)
        linked == Store(relinked.hdr, b.next, "prev", p)
    IN  [relinked EXCEPT !.hdr = [a \in DOMAIN linked \ {old} |-> linked[a]]]

\* "Prepend to free_list if we have not merged"
Prepend(h, p) ==
    [h EXCEPT !.hdr = Store([@ EXCEPT ![p].next_free = h.first_free], h.first_free, "prev_free", p),
              !.first_free = p]

IsFree(h, p) == p # NULL /\ h.hdr[p].alloc = 0

RegroupAfter(h, p, merged) ==
    IF IsFree(h, h.hdr[p].next) THEN MergeAfter(h, p)
    ELSE IF merged THEN h
    ELSE Prepend(h, p)

Regroup(h, p) ==
    IF IsFree(h, h.hdr[p].prev)
    THEN RegroupAfter(MergeBefore(h, p), h.hdr[p].prev, TRUE)
    ELSE RegroupAfter(h, p, FALSE)

\* buffer_alloc_free()
Free(h, ptr) ==
    LET hdr == ptr - HdrSize
    IN  IF ptr = NULL \/ h.first = NULL
        THEN h
        ELSE IF ~VerifyHeader(h, hdr) \/ h.hdr[hdr].alloc # 1
        THEN [h EXCEPT !.exited = TRUE]
        ELSE Regroup([h EXCEPT !.hdr[hdr].alloc = 0, !.total_used = @ - h.hdr[hdr].size], hdr)
=============================================================================
