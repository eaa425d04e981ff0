------------------------------- MODULE KMalloc -------------------------------
(***************************************************************************)
(* The kernel's memory: get_free_page and free_page (mm/memory.c), and     *)
(* malloc and free_s on top of them (lib/malloc.c).  malloc runs with      *)
(* interrupts off.  free_s looks a page up in the chains with interrupts   *)
(* on, one descriptor a step, and a handler may call malloc between any    *)
(* two of these steps.  A list of descriptors or of chunks, which the code *)
(* links through next or through the chunks themselves, is a sequence.     *)
(***************************************************************************)
EXTENDS Integers, FiniteSets, Sequences, FiniteSetsExt, Functions

CONSTANTS NPAGES,   \* pages of mem_map that are not USED
          CHUNKS,   \* CHUNKS[s]: chunks in a page of the s-th size of bucket_dir
          DESCS     \* bucket descriptors in a page (256)

ASSUME KMallocAssumption ==
    /\ NPAGES \in Nat \ {0} /\ DESCS \in Nat \ {0}
    /\ CHUNKS \in Seq(Nat \ {0})

VARIABLES mem_map,           \* of each page
          chain,             \* chain[s]: the descriptors of bucket_dir[s]
          free_bucket_desc,  \* the descriptors of no bucket
          page, freeptr,     \* of each descriptor: its page, its free chunks
          refcnt,
          live,              \* the chunks handed out, of page, size and number
          pc, loc,           \* free_s: the object, the size and the descriptor
                             \* it is at, and the descriptor before that one
          panicked

descs == <<page, freeptr, refcnt>>
walk == <<pc, loc>>
vars == <<mem_map, chain, free_bucket_desc, descs, live, walk, panicked>>

Pages == 1 .. NPAGES
Sizes == DOMAIN CHUNKS
Descs == [at : Pages, n : 1 .. DESCS]   \* at: the page of descriptors it is in
NULL == [at |-> 0, n |-> 0]
NoLoc == [obj |-> [page |-> 0, size |-> 0, n |-> 0], size |-> 0, bdesc |-> NULL, prev |-> NULL]

Init ==
    /\ mem_map = [g \in Pages |-> 0]
    /\ chain = [s \in Sizes |-> <<>>]
    /\ free_bucket_desc = <<>>
    /\ page = [d \in Descs |-> 0]
    /\ freeptr = [d \in Descs |-> <<>>]
    /\ refcnt = [d \in Descs |-> 0]
    /\ live = {}
    /\ pc = "idle"
    /\ loc = NoLoc
    /\ panicked = FALSE

\* The last free page, or 0.
get_free_page(map) ==
    LET free == {g \in Pages : map[g] = 0} IN
    IF free = {} THEN 0 ELSE Max(free)

Take(map, g) == [map EXCEPT ![g] = 1]

\* Lists: their first element, and what follows one of them.
First(list) == IF list = <<>> THEN NULL ELSE Head(list)
Position(list, d) == CHOOSE k \in DOMAIN list : list[k] = d
After(list, d) ==
    LET k == Position(list, d) IN
    IF k = Len(list) THEN NULL ELSE list[k + 1]

(***************************************************************************)
(* malloc of the s-th size.  Without a descriptor that has a chunk left it *)
(* takes a free descriptor, of a new page of them if there is none, and a  *)
(* page.  A call that finds no page panics, and is left out.               *)
(***************************************************************************)
\* The chunks of a new page, linked in order.
Fresh(s) == [k \in 1 .. CHUNKS[s] |-> k]

HandOut(d, s, list) ==
    /\ freeptr' = [freeptr EXCEPT ![d] = Tail(list)]
    /\ live' = live \union {[page |-> page'[d], size |-> s, n |-> Head(list)]}

malloc(s) ==
    LET usable == {k \in DOMAIN chain[s] : freeptr[chain[s][k]] # <<>>} IN
    IF usable # {}
    THEN LET d == chain[s][Min(usable)] IN
         /\ refcnt' = [refcnt EXCEPT ![d] = @ + 1]
         /\ UNCHANGED <<mem_map, chain, free_bucket_desc, page>>
         /\ HandOut(d, s, freeptr[d])
    ELSE LET g == get_free_page(mem_map)
             map == IF free_bucket_desc = <<>> /\ g # 0 THEN Take(mem_map, g) ELSE mem_map
             list == IF free_bucket_desc = <<>> THEN [j \in 1 .. DESCS |-> [at |-> g, n |-> j]]
                     ELSE free_bucket_desc
             d == Head(list)
         IN /\ get_free_page(map) # 0
            /\ free_bucket_desc' = Tail(list)
            /\ mem_map' = Take(map, get_free_page(map))
            /\ page' = [page EXCEPT ![d] = get_free_page(map)]
            /\ refcnt' = [refcnt EXCEPT ![d] = 1]
            /\ chain' = [chain EXCEPT ![s] = <<d>> \o @]
            /\ HandOut(d, s, Fresh(s))

\* malloc by the process, or by a handler while the process is in free_s.
Malloc ==
    /\ \E s \in Sizes : malloc(s)
    /\ UNCHANGED <<walk, panicked>>

(***************************************************************************)
(* free_s.                                                                 *)
(***************************************************************************)
\* The size the caller gives is the object's, or 0 (free).
free_s ==
    /\ pc = "idle"
    /\ \E obj \in live, size \in {0} \union Sizes :
          /\ size # 0 => size = obj.size
          /\ live' = live \ {obj}
          /\ LET s == Max({1, size}) IN
             loc' = [NoLoc EXCEPT !.obj = obj, !.size = s, !.bdesc = First(chain[s])]
    /\ pc' = "walk"
    /\ UNCHANGED <<mem_map, chain, free_bucket_desc, descs, panicked>>

Found == loc.bdesc # NULL /\ page[loc.bdesc] = loc.obj.page

Walk ==
    /\ pc = "walk"
    /\ IF Found THEN pc' = "found" /\ UNCHANGED <<loc, panicked>>
       ELSE IF loc.bdesc # NULL
       THEN /\ loc' = [loc EXCEPT !.bdesc = After(chain[loc.size], loc.bdesc),
                                  !.prev = loc.bdesc]
            /\ UNCHANGED <<pc, panicked>>
       ELSE IF loc.size < Len(CHUNKS)
       THEN /\ loc' = [loc EXCEPT !.size = @ + 1, !.prev = NULL,
                                  !.bdesc = First(chain[loc.size + 1])]
            /\ UNCHANGED <<pc, panicked>>
       ELSE panicked' = TRUE /\ UNCHANGED walk
    /\ UNCHANGED <<mem_map, chain, free_bucket_desc, descs, live>>

\* What precedes d in its list, which must have d.
Before(list, d) ==
    LET k == Position(list, d) IN
    IF k = 1 THEN NULL ELSE list[k - 1]

Without(list, d) ==
    [k \in 1 .. Len(list) - 1 |-> IF k < Position(list, d) THEN list[k] ELSE list[k + 1]]

\* Faulty variant: prev is taken as it was found.
PrevAsFound(list) == loc.prev

\* prev, looked up again if it no longer precedes bdesc.
Prev(list) == IF loc.prev = Before(list, loc.bdesc) THEN loc.prev ELSE Before(list, loc.bdesc)

\* Faulty variant: a bucket with nothing handed out keeps its page.
ReleaseKeepsPage(d, list) ==
    /\ chain' = [chain EXCEPT ![loc.size] = Without(list, d)]
    /\ free_bucket_desc' = <<d>> \o free_bucket_desc
    /\ UNCHANGED <<mem_map, panicked>>

\* A bucket with nothing handed out leaves its chain.
Release(d, list) ==
    LET prev == Prev(list) IN
    IF (prev = NULL /\ First(list) # d) \/ mem_map[page[d]] = 0
    THEN panicked' = TRUE /\ UNCHANGED <<mem_map, chain, free_bucket_desc>>
    ELSE /\ chain' = [chain EXCEPT ![loc.size] = Without(list, d)]
         /\ mem_map' = [mem_map EXCEPT ![page[d]] = @ - 1]
         /\ free_bucket_desc' = <<d>> \o free_bucket_desc
         /\ UNCHANGED panicked

\* With interrupts off: the chunk is free again.
FreeChunk ==
    LET d == loc.bdesc IN
    /\ pc = "found"
    /\ freeptr' = [freeptr EXCEPT ![d] = <<loc.obj.n>> \o @]
    /\ refcnt' = [refcnt EXCEPT ![d] = @ - 1]
    /\ IF refcnt[d] = 1 THEN Release(d, chain[loc.size])
       ELSE UNCHANGED <<mem_map, chain, free_bucket_desc, panicked>>
    /\ pc' = "idle" /\ loc' = NoLoc
    /\ UNCHANGED <<page, live>>

Next == ~panicked /\ (Malloc \/ free_s \/ Walk \/ FreeChunk)
Spec == Init /\ [][Next]_vars

(***************************************************************************)
(* What must hold.                                                         *)
(***************************************************************************)
\* Neither free_s nor free_page meets what it panics on, whatever handlers
\* allocate while free_s looks for the object's page: the page is in a chain
\* at or after the size given, the bucket is where the chain says, and its
\* page is in use.  (the second look for prev in free_s)
NeverPanics == ~panicked

InChains == UNION {Range(chain[s]) : s \in Sizes}

\* A chunk is on its bucket's list or handed out, once: no page is given to
\* two buckets or to a bucket and the descriptors, no chunk to two callers,
\* and a page in use belongs to a bucket with something handed out or holds
\* descriptors.  (malloc, free_s, get_free_page)
MemoryMatches ==
    /\ \A s \in Sizes : \A k \in DOMAIN chain[s] :
          LET d == chain[s][k]
              out == {o \in live \union {loc.obj} : o.page = page[d]}
          IN  /\ refcnt[d] = Cardinality(out) /\ refcnt[d] > 0
              /\ \A o \in out : o.size = s /\ o.n \notin Range(freeptr[d])
              /\ Len(freeptr[d]) + refcnt[d] = CHUNKS[s]
              /\ Cardinality(Range(freeptr[d])) = Len(freeptr[d])
    /\ \A d, e \in InChains : page[d] = page[e] => d = e
    /\ LET inUse == {g \in Pages : mem_map[g] # 0}
           described == {d.at : d \in InChains \union Range(free_bucket_desc)}
           buckets == {page[d] : d \in InChains}
       IN  inUse = described \union buckets /\ described \intersect buckets = {}
=============================================================================
