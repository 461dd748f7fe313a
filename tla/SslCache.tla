------------------------------ MODULE SslCache ------------------------------
(***************************************************************************)
(* The session cache of ssl_cache.c with its memory in the allocator of    *)
(* memory_buffer_alloc.c, which other parts of the program use as well.    *)
(* A call holds the mutex of the cache, and the program is taken to have   *)
(* one thread, so that a call is a step.  An entry of the chain has the    *)
(* address of its structure and of its serialised session.                 *)
(***************************************************************************)
EXTENDS MemoryBufferAlloc, SequencesExt

CONSTANTS
    Ids,            \* session identifiers, none of them empty
    Sessions,       \* serialised sessions
    SessionLen,     \* length of each
    EntrySize,      \* sizeof(mbedtls_ssl_cache_entry)
    NoId,           \* the identifier of length 0 of a zeroed entry
    NoSession,
    Requests,       \* pairs n, size the rest of the program allocates
    MaxRequests,    \* bound: blocks it holds at a time
    Builds,         \* the programs considered: with MBEDTLS_HAVE_TIME or not,
                    \* the identifiers that occur, and what the functions
                    \* that set the timeout and the limit are called with
    MaxTime         \* bound: the clock

ASSUME CacheConstants ==
    /\ SessionLen \in [Sessions -> Nat \ {0}]
    /\ EntrySize \in Nat \ {0}
    /\ NoId \notin Ids /\ NoSession \notin Sessions
    /\ Requests \subseteq Nat \X Nat
    /\ Builds \subseteq [have_time : BOOLEAN, ids : SUBSET Ids, timeouts : SUBSET Int,
                        limits : SUBSET Int]
    /\ MaxTime \in Nat \ {0} /\ MaxRequests \in Nat

VARIABLES
    heap,           \* the allocator
    others,         \* blocks of the rest of the program: [ptr, len]
    chain,          \* cache->chain
    timeout,        \* cache->timeout
    max_entries,    \* cache->max_entries
    build,          \* the program this is; never changes
    now,            \* mbedtls_time()
    asked           \* history: the session of the last call that set or
                    \* removed an identifier

config == <<timeout, max_entries, build>>
vars == <<heap, others, chain, config, now, asked>>

Entries == [addr : Addresses, id : Ids \cup {NoId}, ptr : Pointers,
            session : Sessions \cup {NoSession}, timestamp : Nat]

Blank(addr) == [addr |-> addr, id |-> NoId, ptr |-> NULL, session |-> NoSession, timestamp |-> 0]

have_time == build.have_time

\* mbedtls_time(), in builds that have it
Time == IF have_time THEN now ELSE 0

\* (int) (t - cur->timestamp) > cache->timeout
Outdated(e) == have_time /\ timeout # 0 /\ now - e.timestamp > timeout

\* ssl_cache_find_entry(): the position of the entry, 0 if there is none.
FindEntry(id) == SelectInSeq(chain, LAMBDA e : ~Outdated(e) /\ e.id = id)

\* mbedtls_ssl_cache_get(), the session or NoSession
CacheGet(id) == IF FindEntry(id) = 0 THEN NoSession ELSE chain[FindEntry(id)].session

-----------------------------------------------------------------------------
(* ssl_cache_pick_writing_slot(): the heap and the chain afterwards, the   *)
(* entry to fill, and its position in the chain (0: it is not in it).      *)

Picked(h, c, e, k) == [ok |-> TRUE, heap |-> h, chain |-> c, entry |-> e, at |-> k]
NotPicked(h) == [ok |-> FALSE, heap |-> h, chain |-> chain, entry |-> Blank(0), at |-> 0]

\* An entry is used again: its session is freed, the entry zeroed.
Reused(e) == [Blank(e.addr) EXCEPT !.timestamp = Time]

\* Fault: the session of the entry is not freed.
ReuseLeaks(k) == Picked(heap, [chain EXCEPT ![k] = Reused(chain[k])], Reused(chain[k]), k)

Reuse(k) == Picked(Free(heap, chain[k].ptr), [chain EXCEPT ![k] = Reused(chain[k])],
                   Reused(chain[k]), k)

NewEntry ==
    LET r == Calloc(heap, 1, EntrySize)
        e == [Blank(r.ptr) EXCEPT !.timestamp = Time]
    IN  IF r.ptr = NULL THEN NotPicked(r.heap)
        ELSE Picked(r.heap, Append(chain, e), e, Len(chain) + 1)

\* Fault: the newest entry is overwritten.
Newest == SelectInSeq(chain, LAMBDA e : \A k \in 1 .. Len(chain) : e.timestamp >= chain[k].timestamp)

\* The oldest entry, the first of them if there are several.
Oldest == SelectInSeq(chain, LAMBDA e : \A k \in 1 .. Len(chain) : e.timestamp <= chain[k].timestamp)

\* Without a clock the first entry is unlinked and linked behind the last
\* one. If it is the only one, it is the last one: it is linked behind itself,
\* and the chain is empty.
MoveFirst ==
    LET e == Reused(Head(chain))
        freed == Free(heap, Head(chain).ptr)
    IN  IF Len(chain) = 1 THEN Picked(freed, <<>>, e, 0)
        ELSE Picked(freed, Append(Tail(chain), e), e, Len(chain))

\* Fault: an entry with the same identifier is not looked for.
PickWithoutLookup(id) ==
    LET outdated == SelectInSeq(chain, Outdated)
    IN  IF outdated # 0 THEN Reuse(outdated)
        ELSE IF Len(chain) < max_entries THEN NewEntry
        ELSE IF chain = <<>> THEN NotPicked(heap)
        ELSE IF have_time THEN Reuse(Oldest) ELSE MoveFirst

PickWritingSlot(id) ==
    LET same == SelectInSeq(chain, LAMBDA e : e.id = id)
        outdated == SelectInSeq(chain, Outdated)
    IN  IF same # 0 THEN Reuse(same)
        ELSE IF outdated # 0 THEN Reuse(outdated)
        ELSE IF Len(chain) < max_entries THEN NewEntry
        ELSE IF chain = <<>> THEN NotPicked(heap)
        ELSE IF have_time THEN Reuse(Oldest) ELSE MoveFirst

\* The session is serialised, the serialisation has no length, or it fails
\* when the buffer is there (or the identifier is too long).
Outcomes == {"saved", "unsized", "unsaved"}

\* mbedtls_ssl_cache_set(): when it fails after a slot was picked, the entry
\* stays in the chain without a session.
CacheSet(id, session, outcome) ==
    /\ asked' = [asked EXCEPT ![id] = session]
    /\ \E pick \in {PickWritingSlot(id)} :
       \E r \in {Calloc(pick.heap, 1, SessionLen[session])} :
         \/ /\ ~pick.ok \/ outcome = "unsized"
            /\ heap' = pick.heap
            /\ chain' = pick.chain
         \/ /\ pick.ok
            /\ outcome = "unsaved" \/ r.ptr = NULL
            /\ outcome # "unsized"
            /\ heap' = Free(r.heap, r.ptr)
            /\ chain' = pick.chain
         \/ /\ pick.ok
            /\ outcome = "saved"
            /\ r.ptr # NULL
            /\ heap' = r.heap
            /\ chain' = IF pick.at = 0 THEN pick.chain
                        ELSE [pick.chain EXCEPT
                                ![pick.at] = [pick.entry EXCEPT !.id = id, !.ptr = r.ptr,
                                                                !.session = session]]
    /\ UNCHANGED <<others, config, now>>

\* mbedtls_ssl_cache_remove(): an outdated entry is not found, and stays.
CacheRemove(id) ==
    LET k == FindEntry(id)
    IN  /\ k # 0
        /\ heap' = Free(Free(heap, chain[k].ptr), chain[k].addr)
        /\ chain' = RemoveAt(chain, k)
        /\ asked' = [asked EXCEPT ![id] = NoSession]
        /\ UNCHANGED <<others, config, now>>

\* mbedtls_ssl_cache_set_timeout(), mbedtls_ssl_cache_set_max_entries()
CacheSetTimeout(t) ==
    /\ have_time
    /\ timeout' = Max({t, 0})
    /\ UNCHANGED <<heap, others, chain, max_entries, build, now, asked>>

CacheSetMaxEntries(max) ==
    /\ max_entries' = Max({max, 0})
    /\ UNCHANGED <<heap, others, chain, timeout, build, now, asked>>

\* mbedtls_ssl_cache_free(): each session, then its entry.
CacheFree ==
    /\ heap' = FoldLeft(LAMBDA h, e : Free(Free(h, e.ptr), e.addr), heap, chain)
    /\ chain' = <<>>
    /\ asked' = [id \in Ids |-> NoSession]
    /\ UNCHANGED <<others, config, now>>

-----------------------------------------------------------------------------
(* The rest of the program, and the clock.                                 *)

OtherCalloc(n, size) ==
    LET r == Calloc(heap, n, size)
    IN  /\ Cardinality(others) < MaxRequests
        /\ heap' = r.heap
        /\ others' = IF r.ptr = NULL THEN others ELSE others \cup {[ptr |-> r.ptr, len |-> n * size]}
        /\ UNCHANGED <<chain, config, now, asked>>

OtherFree(b) ==
    /\ heap' = Free(heap, b.ptr)
    /\ others' = others \ {b}
    /\ UNCHANGED <<chain, config, now, asked>>

Tick ==
    /\ have_time
    /\ now < MaxTime
    /\ now' = now + 1
    /\ UNCHANGED <<heap, others, chain, config, asked>>

Init ==
    /\ heap = AllocInit
    /\ others = {}
    /\ chain = <<>>
    /\ build \in Builds
    /\ timeout \in build.timeouts \cap Nat
    /\ max_entries \in build.limits \cap Nat
    /\ now = 1
    /\ asked = [id \in Ids |-> NoSession]

Next ==
    \/ \E id \in build.ids, s \in Sessions, o \in Outcomes : CacheSet(id, s, o)
    \/ \E id \in Ids : CacheRemove(id)
    \/ \E t \in build.timeouts : CacheSetTimeout(t)
    \/ \E max \in build.limits : CacheSetMaxEntries(max)
    \/ CacheFree
    \/ \E r \in Requests : OtherCalloc(r[1], r[2])
    \/ \E b \in others : OtherFree(b)
    \/ Tick

Spec == Init /\ [][Next]_vars

-----------------------------------------------------------------------------
(* Properties                                                              *)

(* Every variable has its type.                                            *)
TypeOK ==
    /\ heap.first \in Pointers /\ heap.first_free \in Pointers
    /\ DOMAIN heap.hdr \subseteq Addresses
    /\ \A a \in DOMAIN heap.hdr : heap.hdr[a] \in Headers
    /\ others \subseteq [ptr : Addresses, len : Nat]
    /\ chain \in Seq(Entries)
    /\ timeout \in Nat /\ max_entries \in Nat /\ build \in Builds
    /\ now \in 1 .. MaxTime
    /\ asked \in [Ids -> Sessions \cup {NoSession}]

(* The blocks of the first list lie behind each other, fill the buffer and *)
(* are all there are; no two free blocks are neighbours, so memory that is *)
(* free in one piece can be allocated in one piece.                        *)
BufferIsTiled ==
    LET at == Walk(heap, heap.first, "next")
        end(a) == a + HdrSize + heap.hdr[a].size
    IN  /\ Ends(at) /\ Blocks(at) = DOMAIN heap.hdr
        /\ \A a \in DOMAIN heap.hdr :
             /\ end(a) = IF heap.hdr[a].next = NULL THEN BufLen ELSE heap.hdr[a].next
             /\ ~(IsFree(heap, a) /\ IsFree(heap, heap.hdr[a].next))

(* The second list holds exactly the free blocks, linked both ways, after  *)
(* any order of splitting, merging before and merging after; the counters  *)
(* of MBEDTLS_MEMORY_DEBUG are those of the lists, the allocator's own     *)
(* verification passes, and no call exits.                                 *)
FreeListIsExact ==
    LET at == Walk(heap, heap.first_free, "next_free")
        used == {a \in DOMAIN heap.hdr : heap.hdr[a].alloc = 1}
    IN  /\ Ends(at) /\ Blocks(at) = DOMAIN heap.hdr \ used
        /\ \A k \in DOMAIN at :
             at[k] # NULL => heap.hdr[at[k]].prev_free = IF k = 0 THEN NULL ELSE at[k - 1]
        /\ heap.total_used = MapThenSumSet(LAMBDA a : heap.hdr[a].size, used)
        /\ heap.header_count = Cardinality(DOMAIN heap.hdr) - 1
        /\ VerifyChain(heap) /\ ~heap.exited

(* What verify_chain() is there to find never happens: the two lists over  *)
(* the buffer are exact after any sequence of allocations and releases, of *)
(* the cache and of others, whichever of them failed.  A buffer too small  *)
(* for one block stays as it was.                                          *)
HeapIsExact ==
    IF BufLen < HdrSize + Align THEN heap = AllocInit ELSE BufferIsTiled /\ FreeListIsExact

\* What the cache and the rest of the program hold, with the length they need.
Owned ==
    others \cup {[ptr |-> chain[k].addr, len |-> EntrySize] : k \in 1 .. Len(chain)}
           \cup {[ptr |-> chain[k].ptr, len |-> SessionLen[chain[k].session]] :
                   k \in {j \in 1 .. Len(chain) : chain[j].ptr # NULL}}

(* The blocks in use are those of the entries of the chain, of their       *)
(* sessions and of the rest of the program, one owner each, and each as    *)
(* long as asked for, whatever failed half-way: nothing leaks, nothing is  *)
(* freed while it is used, and no request is cut short by an overflow.     *)
NothingLeaks ==
    /\ {b.ptr - HdrSize : b \in Owned} = {a \in DOMAIN heap.hdr : heap.hdr[a].alloc = 1}
    /\ Cardinality({b.ptr : b \in Owned}) =
         Cardinality(others) + Len(chain) + Cardinality({k \in 1 .. Len(chain) : chain[k].ptr # NULL})
    /\ \A b \in Owned : heap.hdr[b.ptr - HdrSize].size >= b.len

(* A lookup returns the session of the last call that set the identifier,  *)
(* also after a call that failed: it never returns an older one, nor the   *)
(* one of another identifier.                                              *)
ServesLatest == \A id \in Ids : CacheGet(id) \in {asked[id], NoSession}

Has(id) == \E k \in 1 .. Len(chain) : chain[k].id = id

(* A live session leaves the chain for the sake of another identifier only *)
(* when the cache is full, and then it is the one that is oldest, or first *)
(* without a clock.                                                        *)
EvictsOldestOnly ==
    [][\A id \in Ids :
         /\ CacheGet(id) # NoSession /\ ~Has(id)' /\ asked'[id] = asked[id]
         /\ \E other \in Ids \ {id} :
                asked'[other] # asked[other] \/ CacheGet(other)' # CacheGet(other)
         => /\ Len(chain) >= max_entries
            /\ LET k == FindEntry(id) IN
                  IF have_time THEN \A j \in 1 .. Len(chain) : chain[k].timestamp <= chain[j].timestamp
                  ELSE k = 1]_vars
=============================================================================
