---------------------------- MODULE KMallocProofs ----------------------------
(***************************************************************************)
(* Theorems about KMalloc, for any number of pages, sizes, chunks and      *)
(* descriptors: that neither free_s nor free_page ever panics, whatever    *)
(* handlers allocate while free_s searches, and that chunks, descriptors   *)
(* and pages have one owner each.                                          *)
(***************************************************************************)
EXTENDS KMalloc, FiniteSetsExt, FiniteSetTheorems, WellFoundedInduction, TLAPS

(***************************************************************************)
(* Lemmas about sets.                                                      *)
(***************************************************************************)
(* A set of natural numbers that is not empty has a least element.         *)
LEMMA MinNat ==
    ASSUME NEW S, S \subseteq Nat, S # {}
    PROVE  Min(S) \in S /\ \A y \in S : Min(S) =< y
<1>. DEFINE R == OpToRel(<, Nat)
<1>1. IsWellFoundedOn(R, Nat)
  BY NatLessThanWellFounded
<1>. HIDE DEF R
<1>2. PICK x \in S : \A y \in S : ~ (<<y, x>> \in R)
  BY <1>1, WFMin
<1>3. \A y \in S : ~ (y < x)
  BY <1>2 DEF R, OpToRel
<1>4. \A y \in S : x =< y
  BY <1>3
<1>. QED
  BY <1>4 DEF Min

(* Sizes of finite sets.                                                   *)
LEMMA CardAdd ==
    ASSUME NEW S, NEW x, IsFiniteSet(S), x \notin S
    PROVE  IsFiniteSet(S \union {x}) /\ Cardinality(S \union {x}) = Cardinality(S) + 1
BY FS_AddElement

LEMMA CardRemove ==
    ASSUME NEW S, NEW x, IsFiniteSet(S), x \in S
    PROVE  IsFiniteSet(S \ {x}) /\ Cardinality(S \ {x}) = Cardinality(S) - 1
BY FS_RemoveElement

Chunks == [page : Pages, size : Sizes, n : Nat]
NoObj == [page |-> 0, size |-> 0, n |-> 0]
Locals == [obj : Chunks \union {NoObj}, size : Sizes \union {0},
           bdesc : Descs \union {NULL}, prev : Descs \union {NULL}]

TypeOK ==
    /\ mem_map \in [Pages -> {0, 1}]
    /\ chain \in [Sizes -> Seq(Descs)]
    /\ free_bucket_desc \in Seq(Descs)
    /\ page \in [Descs -> Pages \union {0}]
    /\ freeptr \in [Descs -> Seq(Nat)]
    /\ refcnt \in [Descs -> Nat]
    /\ live \subseteq Chunks /\ IsFiniteSet(live)
    /\ pc \in {"idle", "walk", "found"}
    /\ loc \in Locals
    /\ panicked = FALSE

(* Descriptors: each is in one place of one list.                          *)
Distinct(list) == \A i, j \in DOMAIN list : list[i] = list[j] => i = j
Has(list, d) == \E k \in DOMAIN list : list[k] = d
Bucket(d) == \E s \in Sizes : Has(chain[s], d)
Described(d) == Bucket(d) \/ Has(free_bucket_desc, d)

ListInv ==
    /\ Distinct(free_bucket_desc)
    /\ \A s \in Sizes : Distinct(chain[s])
    /\ \A s, t \in Sizes, d \in Descs : Has(chain[s], d) /\ Has(chain[t], d) => s = t
    /\ \A d \in Descs : Bucket(d) => ~Has(free_bucket_desc, d)

(* Pages: each in use is of one bucket, or of descriptors.                 *)
PageInv ==
    /\ \A d \in Descs : Bucket(d) => page[d] \in Pages /\ mem_map[page[d]] = 1
    /\ \A d, e \in Descs : Bucket(d) /\ Bucket(e) /\ page[d] = page[e] => d = e
    /\ \A d \in Descs : Described(d) => mem_map[d.at] = 1
    /\ \A d, e \in Descs : Bucket(d) /\ Described(e) => page[d] # e.at
    /\ \A g \in Pages : mem_map[g] = 1 =>
          \E d \in Descs : (Bucket(d) /\ page[d] = g) \/ (Described(d) /\ d.at = g)

(* Chunks: what is handed out, the one being freed included, is of a       *)
(* bucket of its size, and the rest of the bucket is on its list.          *)
Out == IF pc = "idle" THEN live ELSE live \union {loc.obj}
OutOf(d) == {o \in Out : o.page = page[d]}

Shared(s, list, count, out) ==
    /\ count = Cardinality(out) /\ count > 0
    /\ Len(list) + count = CHUNKS[s]
    /\ Distinct(list)
    /\ \A o \in out : o.size = s /\ ~Has(list, o.n)

ChunkInv ==
    /\ \A s \in Sizes, d \in Descs :
          Has(chain[s], d) => Shared(s, freeptr[d], refcnt[d], OutOf(d))
    /\ \A o \in Out : \E d \in Descs : Has(chain[o.size], d) /\ page[d] = o.page

(* free_s: the bucket of the object is still ahead of where the search is. *)
Ahead == \E i, j \in DOMAIN chain[loc.size] :
            i =< j /\ chain[loc.size][i] = loc.bdesc /\ page[chain[loc.size][j]] = loc.obj.page

FreeInv ==
    /\ pc = "idle" <=> loc = NoLoc
    /\ pc # "idle" => loc.obj \in Chunks \ live /\ loc.size \in Sizes /\ loc.size =< loc.obj.size
    /\ pc = "walk" /\ loc.bdesc # NULL => Has(chain[loc.size], loc.bdesc)
    /\ pc = "walk" /\ loc.size = loc.obj.size => Ahead
    /\ pc = "found" => loc.size = loc.obj.size /\ Has(chain[loc.size], loc.bdesc)
                       /\ page[loc.bdesc] = loc.obj.page

IInv == TypeOK /\ ListInv /\ PageInv /\ ChunkInv /\ FreeInv

(***************************************************************************)
(* Lists.                                                                  *)
(***************************************************************************)
LEMMA PushIs ==
    ASSUME NEW S, NEW list \in Seq(S), NEW d \in S
    PROVE  /\ <<d>> \o list \in Seq(S)
           /\ Len(<<d>> \o list) = Len(list) + 1
           /\ (<<d>> \o list)[1] = d
           /\ \A k \in 1 .. Len(list) : (<<d>> \o list)[k + 1] = list[k]
           /\ \A x : Has(<<d>> \o list, x) <=> x = d \/ Has(list, x)
<1>. DEFINE new == <<d>> \o list
<1>1. new \in Seq(S) /\ Len(new) = Len(list) + 1 /\ Len(list) \in Nat
  OBVIOUS
<1>2. new[1] = d /\ \A k \in 1 .. Len(list) : new[k + 1] = list[k]
  OBVIOUS
<1>3. DOMAIN new = 1 .. Len(list) + 1 /\ DOMAIN list = 1 .. Len(list)
  BY <1>1
<1>. HIDE DEF new
<1>4. ASSUME NEW x PROVE Has(new, x) <=> x = d \/ Has(list, x)
  <2>1. ASSUME Has(new, x) PROVE x = d \/ Has(list, x)
    <3>1. PICK k \in 1 .. Len(list) + 1 : new[k] = x
      BY <2>1, <1>3 DEF Has
    <3>2. CASE k = 1
      BY <3>1, <3>2, <1>2
    <3>3. CASE k # 1
      <4>1. k - 1 \in 1 .. Len(list) /\ (k - 1) + 1 = k
        BY <3>3, <1>1
      <4>. QED
        BY <4>1, <3>1, <1>2, <1>3 DEF Has
    <3>. QED
      BY <3>2, <3>3
  <2>2. ASSUME x = d PROVE Has(new, x)
    BY <2>2, <1>1, <1>2, <1>3 DEF Has
  <2>3. ASSUME Has(list, x) PROVE Has(new, x)
    <3>1. PICK k \in 1 .. Len(list) : list[k] = x
      BY <2>3, <1>3 DEF Has
    <3>2. k + 1 \in 1 .. Len(list) + 1 /\ new[k + 1] = x
      BY <3>1, <1>1, <1>2
    <3>. QED
      BY <3>2, <1>3 DEF Has
  <2>. QED
    BY <2>1, <2>2, <2>3
<1>. QED
  BY <1>1, <1>2, <1>4 DEF new

LEMMA PushDistinct ==
    ASSUME NEW S, NEW list \in Seq(S), NEW d \in S, Distinct(list), ~Has(list, d)
    PROVE  Distinct(<<d>> \o list)
<1>. DEFINE new == <<d>> \o list
<1>1. Len(new) = Len(list) + 1 /\ Len(list) \in Nat /\ new \in Seq(S)
  BY PushIs
<1>2. new[1] = d /\ \A k \in 1 .. Len(list) : new[k + 1] = list[k]
  BY PushIs
<1>3. DOMAIN new = 1 .. Len(list) + 1 /\ DOMAIN list = 1 .. Len(list)
  BY <1>1
<1>. HIDE DEF new
<1>4. ASSUME NEW k \in 2 .. Len(list) + 1
      PROVE  k - 1 \in 1 .. Len(list) /\ new[k] = list[k - 1]
  <2>1. k - 1 \in 1 .. Len(list) /\ (k - 1) + 1 = k
    BY <1>1
  <2>. QED
    BY <2>1, <1>2
<1>5. ASSUME NEW i \in 1 .. Len(list) + 1, NEW j \in 1 .. Len(list) + 1, new[i] = new[j]
      PROVE  i = j
  <2>1. CASE i = 1 /\ j = 1
    BY <2>1
  <2>2. CASE i = 1 /\ j # 1
    <3>1. j - 1 \in DOMAIN list /\ list[j - 1] = d
      BY <2>2, <1>1, <1>2, <1>3, <1>4, <1>5
    <3>. QED
      BY <3>1 DEF Has
  <2>3. CASE i # 1 /\ j = 1
    <3>1. i - 1 \in DOMAIN list /\ list[i - 1] = d
      BY <2>3, <1>1, <1>2, <1>3, <1>4, <1>5
    <3>. QED
      BY <3>1 DEF Has
  <2>4. CASE i # 1 /\ j # 1
    <3>1. i - 1 \in DOMAIN list /\ j - 1 \in DOMAIN list /\ list[i - 1] = list[j - 1]
      BY <2>4, <1>1, <1>3, <1>4, <1>5
    <3>2. i - 1 = j - 1
      BY <3>1 DEF Distinct
    <3>. QED
      BY <3>2, <1>1
  <2>. QED
    BY <2>1, <2>2, <2>3, <2>4
<1>. QED
  BY <1>3, <1>5 DEF Distinct, new

LEMMA TailIs ==
    ASSUME NEW S, NEW list \in Seq(S), list # <<>>
    PROVE  /\ Head(list) \in S /\ Tail(list) \in Seq(S)
           /\ Len(Tail(list)) = Len(list) - 1
           /\ \A x : Has(list, x) <=> x = Head(list) \/ Has(Tail(list), x)
           /\ Distinct(list) => ~Has(Tail(list), Head(list)) /\ Distinct(Tail(list))
<1>1. Head(list) \in S /\ Tail(list) \in Seq(S) /\ Len(Tail(list)) = Len(list) - 1
  OBVIOUS
<1>2. Len(list) \in Nat \ {0} /\ Head(list) = list[1]
  OBVIOUS
<1>3. \A k \in 1 .. Len(list) - 1 : Tail(list)[k] = list[k + 1]
  OBVIOUS
<1>4. DOMAIN list = 1 .. Len(list) /\ DOMAIN Tail(list) = 1 .. Len(list) - 1
  BY <1>1
<1>5. ASSUME NEW x, Has(Tail(list), x) PROVE \E k \in 2 .. Len(list) : list[k] = x
  <2>1. PICK k \in 1 .. Len(list) - 1 : Tail(list)[k] = x
    BY <1>4, <1>5 DEF Has
  <2>2. k + 1 \in 2 .. Len(list) /\ list[k + 1] = x
    BY <2>1, <1>2, <1>3
  <2>. QED
    BY <2>2
<1>6. ASSUME NEW x, Has(list, x) PROVE x = Head(list) \/ Has(Tail(list), x)
  <2>1. PICK k \in 1 .. Len(list) : list[k] = x
    BY <1>4, <1>6 DEF Has
  <2>2. CASE k = 1
    BY <2>1, <2>2, <1>2
  <2>3. CASE k # 1
    <3>1. k - 1 \in 1 .. Len(list) - 1 /\ (k - 1) + 1 = k
      BY <2>3, <1>2
    <3>. QED
      BY <3>1, <2>1, <1>3, <1>4 DEF Has
  <2>. QED
    BY <2>2, <2>3
<1>7. ASSUME NEW x, x = Head(list) \/ Has(Tail(list), x) PROVE Has(list, x)
  <2>1. CASE x = Head(list)
    BY <2>1, <1>2, <1>4 DEF Has
  <2>2. CASE Has(Tail(list), x)
    <3>1. PICK k \in 2 .. Len(list) : list[k] = x
      BY <2>2, <1>5
    <3>. QED
      BY <3>1, <1>2, <1>4 DEF Has
  <2>. QED
    BY <1>7, <2>1, <2>2
<1>8. ASSUME Distinct(list) PROVE ~Has(Tail(list), Head(list)) /\ Distinct(Tail(list))
  <2>1. ASSUME Has(Tail(list), Head(list)) PROVE FALSE
    <3>1. PICK k \in 2 .. Len(list) : list[k] = list[1]
      BY <2>1, <1>2, <1>5
    <3>2. k = 1
      BY <3>1, <1>2, <1>4, <1>8 DEF Distinct
    <3>. QED
      BY <3>2
  <2>2. ASSUME NEW i \in 1 .. Len(list) - 1, NEW j \in 1 .. Len(list) - 1,
               Tail(list)[i] = Tail(list)[j]
        PROVE  i = j
    <3>1. i + 1 \in DOMAIN list /\ j + 1 \in DOMAIN list /\ list[i + 1] = list[j + 1]
      BY <2>2, <1>2, <1>3, <1>4
    <3>2. i + 1 = j + 1
      BY <3>1, <1>8 DEF Distinct
    <3>. QED
      BY <3>2, <1>2
  <2>. QED
    BY <2>1, <2>2, <1>4 DEF Distinct
<1>. QED
  BY <1>1, <1>6, <1>7, <1>8

LEMMA PositionIs ==
    ASSUME NEW S, NEW list \in Seq(S), NEW d, Has(list, d)
    PROVE  /\ Position(list, d) \in 1 .. Len(list)
           /\ list[Position(list, d)] = d
           /\ Distinct(list) => \A k \in 1 .. Len(list) : list[k] = d => k = Position(list, d)
<1>1. DOMAIN list = 1 .. Len(list)
  OBVIOUS
<1>2. \E k \in DOMAIN list : list[k] = d
  BY DEF Has
<1>. DEFINE p == Position(list, d)
<1>3. p \in DOMAIN list /\ list[p] = d
  BY <1>2 DEF Position
<1>. HIDE DEF p
<1>4. Distinct(list) => \A k \in 1 .. Len(list) : list[k] = d => k = p
  BY <1>1, <1>3 DEF Distinct
<1>. QED
  BY <1>1, <1>3, <1>4 DEF p

LEMMA WithoutIs ==
    ASSUME NEW S, NEW list \in Seq(S), NEW d, Has(list, d), Distinct(list)
    PROVE  /\ Without(list, d) \in Seq(S) /\ Distinct(Without(list, d))
           /\ \A x : Has(Without(list, d), x) <=> x # d /\ Has(list, x)
<1>. DEFINE p == Position(list, d)
            new == Without(list, d)
            from(k) == IF k < p THEN k ELSE k + 1
<1>1. p \in 1 .. Len(list) /\ list[p] = d
  BY PositionIs
<1>2. \A k \in 1 .. Len(list) : list[k] = d => k = p
  BY PositionIs
<1>3. Len(list) \in Nat /\ Len(list) >= 1 /\ DOMAIN list = 1 .. Len(list)
  BY <1>1
<1>4. new = [k \in 1 .. Len(list) - 1 |-> IF k < p THEN list[k] ELSE list[k + 1]]
  BY DEF Without
<1>. HIDE DEF p, new
<1>5. DOMAIN new = 1 .. Len(list) - 1
  BY <1>4
<1>6. ASSUME NEW k \in 1 .. Len(list) - 1
      PROVE  from(k) \in 1 .. Len(list) /\ from(k) # p /\ new[k] = list[from(k)]
  BY <1>1, <1>3, <1>4
<1>7. new \in Seq(S)
  <2>1. \A k \in 1 .. Len(list) - 1 : new[k] \in S
    BY <1>6
  <2>2. new \in [1 .. Len(list) - 1 -> S]
    BY <2>1, <1>4
  <2>3. Len(list) - 1 \in Nat
    BY <1>3
  <2>. QED
    BY <2>2, <2>3
<1>8. Distinct(new)
  <2>1. ASSUME NEW i \in 1 .. Len(list) - 1, NEW j \in 1 .. Len(list) - 1, new[i] = new[j]
        PROVE  i = j
    <3>1. from(i) \in 1 .. Len(list) /\ from(j) \in 1 .. Len(list) /\ list[from(i)] = list[from(j)]
      BY <1>6, <2>1
    <3>2. from(i) = from(j)
      BY <3>1, <1>3 DEF Distinct
    <3>. QED
      BY <3>2, <1>1, <1>3
  <2>. QED
    BY <2>1, <1>5 DEF Distinct
<1>9. ASSUME NEW x, Has(new, x) PROVE x # d /\ Has(list, x)
  <2>1. PICK k \in 1 .. Len(list) - 1 : new[k] = x
    BY <1>5, <1>9 DEF Has
  <2>2. from(k) \in 1 .. Len(list) /\ from(k) # p /\ list[from(k)] = x
    BY <2>1, <1>6
  <2>. QED
    BY <2>2, <1>2, <1>3 DEF Has
<1>10. ASSUME NEW x, x # d, Has(list, x) PROVE Has(new, x)
  <2>1. PICK k \in 1 .. Len(list) : list[k] = x
    BY <1>3, <1>10 DEF Has
  <2>2. k # p
    BY <2>1, <1>1, <1>10
  <2>. DEFINE m == IF k < p THEN k ELSE k - 1
  <2>3. m \in 1 .. Len(list) - 1 /\ from(m) = k
    BY <2>2, <1>1, <1>3
  <2>4. new[m] = x
    BY <2>1, <2>3, <1>6
  <2>. QED
    BY <2>3, <2>4, <1>5 DEF Has
<1>. QED
  BY <1>7, <1>8, <1>9, <1>10 DEF new

(* Adjacent elements of a list.                                            *)
LEMMA AfterIs ==
    ASSUME NEW list \in Seq(Descs), Distinct(list), NEW i \in 1 .. Len(list)
    PROVE  After(list, list[i]) = IF i = Len(list) THEN NULL ELSE list[i + 1]
<1>1. Has(list, list[i])
  BY DEF Has
<1>2. Position(list, list[i]) = i
  BY <1>1, PositionIs
<1>. QED
  BY <1>2 DEF After

LEMMA BeforeIs ==
    ASSUME NEW list \in Seq(Descs), NEW d, Has(list, d), Before(list, d) = NULL
    PROVE  First(list) = d
<1>. DEFINE p == Position(list, d)
<1>1. p \in 1 .. Len(list) /\ list[p] = d
  BY PositionIs
<1>. HIDE DEF p
<1>2. Before(list, d) = IF p = 1 THEN NULL ELSE list[p - 1]
  BY DEF Before, p
<1>3. p # 1 => list[p - 1] \in Descs
  BY <1>1
<1>4. NULL \notin Descs
  BY DEF NULL, Descs, Pages
<1>5. p = 1
  BY <1>2, <1>3, <1>4
<1>6. list # <<>> /\ Head(list) = d
  BY <1>1, <1>5
<1>. QED
  BY <1>6 DEF First

LEMMA NullIsNone == NULL \notin Descs
BY DEF NULL, Descs, Pages

LEMMA PagesAre == Pages \subseteq Nat \ {0} /\ 0 \notin Pages
BY KMallocAssumption DEF Pages

LEMMA SizesAre == /\ Sizes = 1 .. Len(CHUNKS) /\ Len(CHUNKS) \in Nat
                  /\ \A s \in Sizes : CHUNKS[s] \in Nat \ {0}
BY KMallocAssumption DEF Sizes

(* The greatest of a set of pages is one of them.                          *)
LEMMA MaxPage ==
    ASSUME NEW S \in SUBSET Pages, S # {}
    PROVE  Max(S) \in S
<1>. DEFINE T == {NPAGES - x : x \in S}
<1>1. NPAGES \in Nat /\ \A x \in S : x \in Int /\ x =< NPAGES /\ NPAGES - x \in Nat
  BY KMallocAssumption DEF Pages
<1>2. T \subseteq Nat /\ T # {}
  BY <1>1
<1>3. Min(T) \in T /\ \A y \in T : Min(T) =< y
  BY <1>2, MinNat
<1>4. PICK x \in S : Min(T) = NPAGES - x
  BY <1>3
<1>5. \A y \in S : NPAGES - x =< NPAGES - y
  BY <1>3, <1>4
<1>6. \A y \in S : x >= y
  BY <1>1, <1>5
<1>7. \E z \in S : \A y \in S : z >= y
  BY <1>6
<1>. QED
  BY <1>7 DEF Max

LEMMA FreePageIs ==
    ASSUME NEW map \in [Pages -> {0, 1}], get_free_page(map) # 0
    PROVE  get_free_page(map) \in Pages /\ map[get_free_page(map)] = 0
<1>. DEFINE free == {g \in Pages : map[g] = 0}
<1>1. free # {} /\ get_free_page(map) = Max(free)
  BY DEF get_free_page
<1>2. Max(free) \in free
  BY <1>1, MaxPage
<1>. QED
  BY <1>1, <1>2

LEMMA FirstIs ==
    ASSUME NEW list \in Seq(Descs)
    PROVE  /\ First(list) \in Descs \union {NULL}
           /\ First(list) # NULL => list # <<>> /\ First(list) = list[1] /\ Has(list, First(list))
           /\ list # <<>> => 1 \in DOMAIN list /\ First(list) = list[1]
<1>1. CASE list = <<>>
  BY <1>1 DEF First
<1>2. CASE list # <<>>
  <2>1. Head(list) \in Descs /\ Head(list) = list[1] /\ 1 \in DOMAIN list
    BY <1>2
  <2>2. First(list) = list[1]
    BY <1>2, <2>1 DEF First
  <2>. QED
    BY <1>2, <2>1, <2>2 DEF Has
<1>. QED
  BY <1>1, <1>2

(***************************************************************************)
(* What the operations do, pointwise.                                      *)
(***************************************************************************)
\* malloc hands out the first chunk of a bucket it found.
Reuses(s, d) ==
    /\ d \in Descs /\ Has(chain[s], d) /\ freeptr[d] # <<>>
    /\ refcnt' = [refcnt EXCEPT ![d] = @ + 1]
    /\ freeptr' = [freeptr EXCEPT ![d] = Tail(@)]
    /\ live' = live \union {[page |-> page[d], size |-> s, n |-> Head(freeptr[d])]}
    /\ UNCHANGED <<mem_map, chain, free_bucket_desc, page, pc, loc, panicked>>

\* What holds of the pages and the free descriptors once malloc has seen to
\* it that there is a free descriptor.
Ready(map, list) ==
    /\ map \in [Pages -> {0, 1}]
    /\ \A g \in Pages : mem_map[g] = 1 => map[g] = 1
    /\ list \in Seq(Descs) /\ list # <<>> /\ Distinct(list)
    /\ \A e \in Descs : Bucket(e) => ~Has(list, e)
    /\ \A e \in Descs : Bucket(e) \/ Has(list, e) => map[e.at] = 1
    /\ \A d, e \in Descs : Bucket(d) /\ (Bucket(e) \/ Has(list, e)) => page[d] # e.at
    /\ \A g \in Pages : map[g] = 1 =>
          \E d \in Descs : (Bucket(d) /\ page[d] = g)
                           \/ ((Bucket(d) \/ Has(list, d)) /\ d.at = g)

\* malloc makes a bucket of the first free descriptor and of page g.
Opens(s, list, map, d, g) ==
    /\ Ready(map, list) /\ d = Head(list) /\ g \in Pages /\ map[g] = 0
    /\ free_bucket_desc' = Tail(list)
    /\ mem_map' = [map EXCEPT ![g] = 1]
    /\ page' = [page EXCEPT ![d] = g]
    /\ refcnt' = [refcnt EXCEPT ![d] = 1]
    /\ chain' = [chain EXCEPT ![s] = <<d>> \o @]
    /\ freeptr' = [freeptr EXCEPT ![d] = Tail(Fresh(s))]
    /\ live' = live \union {[page |-> g, size |-> s, n |-> Head(Fresh(s))]}
    /\ UNCHANGED <<pc, loc, panicked>>

\* free_s puts the object back on its bucket d.
Returns(d) ==
    /\ pc = "found" /\ d = loc.bdesc
    /\ freeptr' = [freeptr EXCEPT ![d] = <<loc.obj.n>> \o @]
    /\ refcnt' = [refcnt EXCEPT ![d] = @ - 1]
    /\ pc' = "idle" /\ loc' = NoLoc
    /\ UNCHANGED <<page, live, panicked>>

\* and the bucket keeps other chunks handed out, or leaves its chain.
Keeps(d) ==
    /\ Returns(d) /\ refcnt[d] # 1
    /\ UNCHANGED <<mem_map, chain, free_bucket_desc>>

Leaves(d) ==
    /\ Returns(d) /\ refcnt[d] = 1
    /\ chain' = [chain EXCEPT ![loc.size] = Without(@, d)]
    /\ mem_map' = [mem_map EXCEPT ![page[d]] = 0]
    /\ free_bucket_desc' = <<d>> \o free_bucket_desc

LEMMA ReadyNow ==
    ASSUME TypeOK, ListInv, PageInv, free_bucket_desc # <<>>
    PROVE  Ready(mem_map, free_bucket_desc)
BY DEF TypeOK, ListInv, PageInv, Ready, Described

LEMMA ReadyNew ==
    ASSUME TypeOK, ListInv, PageInv, free_bucket_desc = <<>>, NEW g \in Pages, mem_map[g] = 0
    PROVE  Ready(Take(mem_map, g), [j \in 1 .. DESCS |-> [at |-> g, n |-> j]])
<1>. DEFINE map == Take(mem_map, g)
            list == [j \in 1 .. DESCS |-> [at |-> g, n |-> j]]
<1>1. mem_map \in [Pages -> {0, 1}] /\ page \in [Descs -> Pages \union {0}]
  BY DEF TypeOK
<1>2. map = [mem_map EXCEPT ![g] = 1]
  BY DEF Take
<1>3. map \in [Pages -> {0, 1}] /\ map[g] = 1 /\ \A h \in Pages : h # g => map[h] = mem_map[h]
  BY <1>1, <1>2
<1>. HIDE DEF map
<1>4. DESCS \in Nat \ {0}
  BY KMallocAssumption
<1>5. \A j \in 1 .. DESCS : list[j] = [at |-> g, n |-> j] /\ list[j] \in Descs
  BY DEF Descs
<1>6. list \in Seq(Descs) /\ DOMAIN list = 1 .. DESCS /\ Len(list) = DESCS
  BY <1>4, <1>5
<1>7. list # <<>>
  BY <1>4, <1>6
<1>8. Distinct(list)
  BY <1>5, <1>6 DEF Distinct
<1>9. \A e \in Descs : Has(list, e) <=> e.at = g
  <2>1. ASSUME NEW e \in Descs, Has(list, e) PROVE e.at = g
    BY <1>5, <1>6, <2>1 DEF Has
  <2>2. ASSUME NEW e \in Descs, e.at = g PROVE Has(list, e)
    <3>1. e.n \in 1 .. DESCS /\ e = [at |-> g, n |-> e.n]
      BY <2>2 DEF Descs
    <3>. QED
      BY <3>1, <1>5, <1>6 DEF Has
  <2>. QED
    BY <2>1, <2>2
<1>. HIDE DEF list
<1>10. \A e \in Descs : ~Has(free_bucket_desc, e)
  BY DEF Has
<1>11. \A e \in Descs : Bucket(e) => mem_map[e.at] = 1 /\ page[e] \in Pages /\ mem_map[page[e]] = 1
  BY DEF PageInv, Described
<1>12. \A e \in Descs : e.at \in Pages
  BY DEF Descs
<1>13. \A e \in Descs : Bucket(e) => e.at # g /\ page[e] # g
  BY <1>11
<1>14. \A d, e \in Descs : Bucket(d) /\ Bucket(e) => page[d] # e.at
  BY DEF PageInv, Described
<1>15. ASSUME NEW h \in Pages, map[h] = 1
       PROVE  \E d \in Descs : (Bucket(d) /\ page[d] = h)
                               \/ ((Bucket(d) \/ Has(list, d)) /\ d.at = h)
  <2>1. CASE h = g
    <3>1. list[1] \in Descs /\ list[1].at = g
      BY <1>4, <1>5 DEF list
    <3>. QED
      BY <2>1, <3>1, <1>9
  <2>2. CASE h # g
    <3>1. mem_map[h] = 1
      BY <2>2, <1>3, <1>15
    <3>2. PICK d \in Descs : (Bucket(d) /\ page[d] = h) \/ (Described(d) /\ d.at = h)
      BY <3>1 DEF PageInv
    <3>3. Described(d) => Bucket(d)
      BY <1>10 DEF Described
    <3>. QED
      BY <3>2, <3>3
  <2>. QED
    BY <2>1, <2>2
<1>16. \A h \in Pages : mem_map[h] = 1 => map[h] = 1
  BY <1>3
<1>17. \A e \in Descs : Bucket(e) \/ Has(list, e) => map[e.at] = 1
  BY <1>3, <1>9, <1>11, <1>12
<1>18. \A d, e \in Descs : Bucket(d) /\ (Bucket(e) \/ Has(list, e)) => page[d] # e.at
  BY <1>9, <1>13, <1>14
<1>19. Ready(map, list)
  BY <1>3, <1>6, <1>7, <1>8, <1>9, <1>13, <1>15, <1>16, <1>17, <1>18 DEF Ready
<1>. QED
  BY <1>19 DEF map, list

LEMMA FreshIs ==
    ASSUME NEW s \in Sizes
    PROVE  /\ Fresh(s) \in Seq(Nat) /\ Fresh(s) # <<>> /\ Distinct(Fresh(s))
           /\ Len(Fresh(s)) = CHUNKS[s]
<1>1. CHUNKS[s] \in Nat \ {0}
  BY SizesAre
<1>2. Fresh(s) = [k \in 1 .. CHUNKS[s] |-> k]
  BY DEF Fresh
<1>3. Fresh(s) \in Seq(Nat) /\ Len(Fresh(s)) = CHUNKS[s] /\ DOMAIN Fresh(s) = 1 .. CHUNKS[s]
  BY <1>1, <1>2
<1>4. Fresh(s) # <<>>
  BY <1>1, <1>3
<1>5. Distinct(Fresh(s))
  BY <1>2, <1>3 DEF Distinct
<1>. QED
  BY <1>3, <1>4, <1>5

LEMMA MallocIs ==
    ASSUME TypeOK, ListInv, PageInv, Malloc
    PROVE  \E s \in Sizes :
              \/ \E d \in Descs : Reuses(s, d)
              \/ \E list \in Seq(Descs), map \in [Pages -> {0, 1}], d \in Descs, g \in Pages :
                    Opens(s, list, map, d, g)
<1>1. PICK s \in Sizes : malloc(s)
  BY DEF Malloc
<1>2. UNCHANGED <<pc, loc, panicked>>
  BY DEF Malloc, walk
<1>3. chain[s] \in Seq(Descs) /\ freeptr \in [Descs -> Seq(Nat)] /\ page \in [Descs -> Pages \union {0}]
  BY DEF TypeOK
<1>. DEFINE usable == {k \in DOMAIN chain[s] : freeptr[chain[s][k]] # <<>>}
<1>4. CASE usable # {}
  <2>1. usable \subseteq Nat
    BY <1>3
  <2>2. Min(usable) \in usable
    BY <1>4, <2>1, MinNat
  <2>. DEFINE d == chain[s][Min(usable)]
  <2>3. d \in Descs /\ Has(chain[s], d) /\ freeptr[d] # <<>>
    <3>1. \A k \in DOMAIN chain[s] : chain[s][k] \in Descs /\ Has(chain[s], chain[s][k])
      BY <1>3 DEF Has
    <3>2. Min(usable) \in DOMAIN chain[s] /\ freeptr[chain[s][Min(usable)]] # <<>>
      BY <2>2
    <3>. QED
      BY <3>1, <3>2
  <2>4. /\ refcnt' = [refcnt EXCEPT ![d] = @ + 1]
        /\ UNCHANGED <<mem_map, chain, free_bucket_desc, page>>
        /\ HandOut(d, s, freeptr[d])
    BY <1>1, <1>4 DEF malloc
  <2>. HIDE DEF d
  <2>5. freeptr' = [freeptr EXCEPT ![d] = Tail(freeptr[d])]
    BY <2>4 DEF HandOut
  <2>6. live' = live \union {[page |-> page[d], size |-> s, n |-> Head(freeptr[d])]}
    BY <2>4 DEF HandOut
  <2>7. Reuses(s, d)
    BY <1>2, <2>3, <2>4, <2>5, <2>6 DEF Reuses
  <2>. QED
    BY <2>3, <2>7
<1>5. CASE usable = {}
  <2>. DEFINE g == get_free_page(mem_map)
              map == IF free_bucket_desc = <<>> /\ g # 0 THEN Take(mem_map, g) ELSE mem_map
              list == IF free_bucket_desc = <<>> THEN [j \in 1 .. DESCS |-> [at |-> g, n |-> j]]
                      ELSE free_bucket_desc
              d == Head(list)
              h == get_free_page(map)
  <2>1. /\ h # 0
        /\ free_bucket_desc' = Tail(list)
        /\ mem_map' = Take(map, h)
        /\ page' = [page EXCEPT ![d] = h]
        /\ refcnt' = [refcnt EXCEPT ![d] = 1]
        /\ chain' = [chain EXCEPT ![s] = <<d>> \o @]
        /\ HandOut(d, s, Fresh(s))
    BY <1>1, <1>5 DEF malloc
  <2>2. mem_map \in [Pages -> {0, 1}]
    BY DEF TypeOK
  <2>3. Ready(map, list)
    <3>1. CASE free_bucket_desc # <<>>
      BY <3>1, ReadyNow
    <3>2. CASE free_bucket_desc = <<>>
      <4>1. g # 0
        BY <2>1, <3>2
      <4>2. g \in Pages /\ mem_map[g] = 0
        BY <4>1, <2>2, FreePageIs
      <4>. HIDE DEF g
      <4>. QED
        BY <3>2, <4>1, <4>2, ReadyNew
    <3>. QED
      BY <3>1, <3>2
  <2>. HIDE DEF map, list
  <2>4. map \in [Pages -> {0, 1}] /\ list \in Seq(Descs) /\ list # <<>>
    BY <2>3 DEF Ready
  <2>5. h \in Pages /\ map[h] = 0
    BY <2>1, <2>4, FreePageIs
  <2>6. d \in Descs
    BY <2>4
  <2>. HIDE DEF d, h
  <2>7. page'[d] = h
    BY <2>1, <2>6, <1>3
  <2>8. freeptr' = [freeptr EXCEPT ![d] = Tail(Fresh(s))]
    BY <2>1 DEF HandOut
  <2>9. live' = live \union {[page |-> h, size |-> s, n |-> Head(Fresh(s))]}
    BY <2>1, <2>7 DEF HandOut
  <2>10. mem_map' = [map EXCEPT ![h] = 1]
    BY <2>1 DEF Take
  <2>11. d = Head(list)
    BY DEF d
  <2>12. Opens(s, list, map, d, h)
    BY <1>2, <2>1, <2>3, <2>5, <2>8, <2>9, <2>10, <2>11 DEF Opens
  <2>. QED
    BY <2>4, <2>5, <2>6, <2>12
<1>. QED
  BY <1>4, <1>5

LEMMA FreeChunkIs ==
    ASSUME IInv, FreeChunk
    PROVE  Keeps(loc.bdesc) \/ Leaves(loc.bdesc)
<1>. DEFINE d == loc.bdesc
            list == chain[loc.size]
<1>1. pc = "found" /\ loc.size \in Sizes /\ Has(list, d)
  BY DEF FreeChunk, IInv, FreeInv
<1>2. list \in Seq(Descs)
  BY <1>1 DEF IInv, TypeOK
<1>3. d \in Descs
  BY <1>1, <1>2 DEF Has
<1>4. page[d] \in Pages /\ mem_map[page[d]] = 1
  BY <1>1, <1>3 DEF IInv, PageInv, Bucket
<1>5. /\ freeptr' = [freeptr EXCEPT ![d] = <<loc.obj.n>> \o @]
      /\ refcnt' = [refcnt EXCEPT ![d] = @ - 1]
      /\ pc' = "idle" /\ loc' = NoLoc
      /\ UNCHANGED <<page, live>>
  BY DEF FreeChunk
<1>6. CASE refcnt[d] # 1
  BY <1>1, <1>5, <1>6 DEF FreeChunk, Keeps, Returns
<1>7. CASE refcnt[d] = 1
  <2>1. Release(d, list)
    BY <1>7 DEF FreeChunk
  <2>2. Prev(list) = Before(list, d)
    BY DEF Prev
  <2>3. ~(Prev(list) = NULL /\ First(list) # d)
    BY <1>1, <1>2, <2>2, BeforeIs
  <2>4. mem_map[page[d]] # 0
    BY <1>4
  <2>5. /\ chain' = [chain EXCEPT ![loc.size] = Without(list, d)]
        /\ mem_map' = [mem_map EXCEPT ![page[d]] = @ - 1]
        /\ free_bucket_desc' = <<d>> \o free_bucket_desc
        /\ UNCHANGED panicked
    BY <2>1, <2>3, <2>4 DEF Release
  <2>6. mem_map' = [mem_map EXCEPT ![page[d]] = 0]
    BY <1>4, <2>5
  <2>. QED
    BY <1>1, <1>5, <1>7, <2>5, <2>6 DEF Leaves, Returns
<1>. QED
  BY <1>6, <1>7

(***************************************************************************)
(* Chunks of one bucket.                                                   *)
(***************************************************************************)
LEMMA SharedTake ==
    ASSUME NEW s \in Sizes, NEW list \in Seq(Nat), NEW count \in Nat, NEW out, NEW o \in Chunks,
           Shared(s, list, count, out), IsFiniteSet(out),
           list # <<>>, o.size = s, o.n = Head(list)
    PROVE  o \notin out /\ Shared(s, Tail(list), count + 1, out \union {o})
<1>1. /\ Tail(list) \in Seq(Nat) /\ Len(Tail(list)) = Len(list) - 1
      /\ \A x : Has(list, x) <=> x = Head(list) \/ Has(Tail(list), x)
      /\ Distinct(list) => ~Has(Tail(list), Head(list)) /\ Distinct(Tail(list))
  BY TailIs
<1>2. o \notin out
  BY <1>1 DEF Shared
<1>3. Cardinality(out \union {o}) = Cardinality(out) + 1
  BY <1>2, CardAdd
<1>4. CHUNKS[s] \in Nat /\ Len(list) \in Nat
  BY SizesAre
<1>5. count + 1 = Cardinality(out \union {o}) /\ count + 1 > 0
  BY <1>3 DEF Shared
<1>6. Len(Tail(list)) + (count + 1) = CHUNKS[s]
  BY <1>1, <1>4 DEF Shared
<1>7. \A p \in out \union {o} : p.size = s /\ ~Has(Tail(list), p.n)
  BY <1>1 DEF Shared
<1>. QED
  BY <1>1, <1>2, <1>5, <1>6, <1>7 DEF Shared

LEMMA SharedGive ==
    ASSUME NEW s \in Sizes, NEW list \in Seq(Nat), NEW count \in Nat, NEW out, NEW o \in out,
           Shared(s, list, count, out), IsFiniteSet(out), count # 1, o.n \in Nat,
           \A p \in out : p.n = o.n => p = o
    PROVE  Shared(s, <<o.n>> \o list, count - 1, out \ {o})
<1>1. /\ Len(<<o.n>> \o list) = Len(list) + 1
      /\ \A x : Has(<<o.n>> \o list, x) <=> x = o.n \/ Has(list, x)
  BY PushIs
<1>2. Distinct(<<o.n>> \o list)
  BY PushDistinct DEF Shared
<1>3. Cardinality(out \ {o}) = Cardinality(out) - 1
  BY CardRemove
<1>4. CHUNKS[s] \in Nat /\ Len(list) \in Nat
  BY SizesAre
<1>5. count - 1 = Cardinality(out \ {o}) /\ count - 1 > 0
  BY <1>3 DEF Shared
<1>6. Len(<<o.n>> \o list) + (count - 1) = CHUNKS[s]
  BY <1>1, <1>4 DEF Shared
<1>7. \A p \in out \ {o} : p.size = s /\ ~Has(<<o.n>> \o list, p.n)
  BY <1>1 DEF Shared
<1>. QED
  BY <1>2, <1>5, <1>6, <1>7 DEF Shared

LEMMA OutIs ==
    ASSUME TypeOK, FreeInv
    PROVE  /\ Out \subseteq Chunks /\ live \subseteq Out /\ IsFiniteSet(Out)
           /\ \A d : IsFiniteSet(OutOf(d)) /\ OutOf(d) \subseteq Chunks
           /\ pc # "idle" => loc.obj \in Out /\ loc.obj \notin live /\ live = Out \ {loc.obj}
<1>1. live \subseteq Chunks /\ IsFiniteSet(live)
  BY DEF TypeOK
<1>2. pc # "idle" => loc.obj \in Chunks \ live
  BY DEF FreeInv
<1>3. IsFiniteSet(live \union {loc.obj})
  BY <1>1, FS_AddElement
<1>4. Out \subseteq Chunks /\ IsFiniteSet(Out) /\ live \subseteq Out
  BY <1>1, <1>2, <1>3 DEF Out
<1>5. \A d : OutOf(d) \subseteq Out
  BY DEF OutOf
<1>6. \A d : IsFiniteSet(OutOf(d))
  BY <1>4, <1>5, FS_Subset
<1>. QED
  BY <1>1, <1>2, <1>4, <1>5, <1>6 DEF Out

(***************************************************************************)
(* malloc hands out a chunk of a bucket in use.                            *)
(***************************************************************************)
LEMMA ReuseStep ==
    ASSUME IInv, NEW s \in Sizes, NEW d \in Descs, Reuses(s, d)
    PROVE  IInv'
<1>. DEFINE o == [page |-> page[d], size |-> s, n |-> Head(freeptr[d])]
<1>0. TypeOK /\ ListInv /\ PageInv /\ ChunkInv /\ FreeInv
  BY DEF IInv
<1>1. /\ Has(chain[s], d) /\ freeptr[d] # <<>>
      /\ refcnt' = [refcnt EXCEPT ![d] = @ + 1]
      /\ freeptr' = [freeptr EXCEPT ![d] = Tail(@)]
      /\ live' = live \union {o}
      /\ UNCHANGED <<mem_map, chain, free_bucket_desc, page, pc, loc, panicked>>
  BY DEF Reuses
<1>2. freeptr \in [Descs -> Seq(Nat)] /\ refcnt \in [Descs -> Nat]
  BY <1>0 DEF TypeOK
<1>3. Head(freeptr[d]) \in Nat /\ Tail(freeptr[d]) \in Seq(Nat)
  BY <1>1, <1>2
<1>4. page[d] \in Pages
  BY <1>0, <1>1 DEF PageInv, Bucket
<1>5. o \in Chunks /\ o.page = page[d] /\ o.size = s /\ o.n = Head(freeptr[d])
  BY <1>3, <1>4 DEF Chunks
<1>. HIDE DEF o
<1>6. Shared(s, freeptr[d], refcnt[d], OutOf(d))
  BY <1>0, <1>1 DEF ChunkInv
<1>7. IsFiniteSet(OutOf(d))
  BY <1>0, OutIs
<1>8. o \notin OutOf(d) /\ Shared(s, Tail(freeptr[d]), refcnt[d] + 1, OutOf(d) \union {o})
  BY <1>1, <1>2, <1>5, <1>6, <1>7, SharedTake
<1>9. o \notin Out
  BY <1>5, <1>8 DEF OutOf
<1>10. Out' = Out \union {o}
  BY <1>1 DEF Out
<1>11. TypeOK'
  <2>1. freeptr' \in [Descs -> Seq(Nat)] /\ refcnt' \in [Descs -> Nat]
    BY <1>1, <1>2, <1>3
  <2>2. live' \subseteq Chunks /\ IsFiniteSet(live')
    BY <1>0, <1>1, <1>5, FS_AddElement DEF TypeOK
  <2>. QED
    BY <1>0, <1>1, <2>1, <2>2 DEF TypeOK
<1>12. ListInv'
  BY <1>0, <1>1 DEF ListInv, Bucket
<1>13. PageInv'
  BY <1>0, <1>1 DEF PageInv, Bucket, Described
<1>14. ChunkInv'
  <2>1. ASSUME NEW t \in Sizes, NEW e \in Descs, Has(chain[t], e)
        PROVE  Shared(t, freeptr'[e], refcnt'[e], {p \in Out' : p.page = page[e]})
    <3>1. CASE e = d
      <4>1. t = s
        BY <1>0, <1>1, <2>1, <3>1 DEF ListInv
      <4>2. freeptr'[e] = Tail(freeptr[d]) /\ refcnt'[e] = refcnt[d] + 1
        BY <1>1, <1>2, <3>1
      <4>3. {p \in Out' : p.page = page[e]} = OutOf(d) \union {o}
        BY <1>5, <1>10, <3>1 DEF OutOf
      <4>. QED
        BY <1>8, <4>1, <4>2, <4>3
    <3>2. CASE e # d
      <4>1. page[e] # page[d]
        BY <1>0, <1>1, <2>1, <3>2 DEF PageInv, Bucket
      <4>2. freeptr'[e] = freeptr[e] /\ refcnt'[e] = refcnt[e]
        BY <1>1, <1>2, <3>2
      <4>3. {p \in Out' : p.page = page[e]} = OutOf(e)
        BY <1>5, <1>10, <4>1 DEF OutOf
      <4>. QED
        BY <1>0, <2>1, <4>2, <4>3 DEF ChunkInv
    <3>. QED
      BY <3>1, <3>2
  <2>2. ASSUME NEW p \in Out' PROVE \E e \in Descs : Has(chain[p.size], e) /\ page[e] = p.page
    <3>1. CASE p = o
      BY <1>1, <1>5, <3>1
    <3>2. CASE p \in Out
      BY <1>0, <3>2 DEF ChunkInv
    <3>. QED
      BY <1>10, <3>1, <3>2
  <2>. QED
    BY <1>1, <2>1, <2>2 DEF ChunkInv, OutOf
<1>15. FreeInv'
  <2>1. pc # "idle" => loc.obj # o
    BY <1>0, <1>9, OutIs
  <2>2. pc # "idle" => loc.obj \in Chunks \ live'
    BY <1>0, <1>1, <2>1 DEF FreeInv
  <2>. QED
    BY <1>0, <1>1, <2>2 DEF FreeInv, Ahead
<1>. QED
  BY <1>11, <1>12, <1>13, <1>14, <1>15 DEF IInv

(***************************************************************************)
(* malloc makes a new bucket.                                              *)
(***************************************************************************)
LEMMA OpenStep ==
    ASSUME IInv, NEW s \in Sizes, NEW list \in Seq(Descs), NEW map \in [Pages -> {0, 1}],
           NEW d \in Descs, NEW g \in Pages, Opens(s, list, map, d, g)
    PROVE  IInv'
<1>. DEFINE o == [page |-> g, size |-> s, n |-> Head(Fresh(s))]
<1>0. TypeOK /\ ListInv /\ PageInv /\ ChunkInv /\ FreeInv
  BY DEF IInv
<1>1. /\ Ready(map, list) /\ d = Head(list) /\ map[g] = 0
      /\ free_bucket_desc' = Tail(list)
      /\ mem_map' = [map EXCEPT ![g] = 1]
      /\ page' = [page EXCEPT ![d] = g]
      /\ refcnt' = [refcnt EXCEPT ![d] = 1]
      /\ chain' = [chain EXCEPT ![s] = <<d>> \o @]
      /\ freeptr' = [freeptr EXCEPT ![d] = Tail(Fresh(s))]
      /\ live' = live \union {o}
      /\ UNCHANGED <<pc, loc, panicked>>
  BY DEF Opens
<1>2. /\ freeptr \in [Descs -> Seq(Nat)] /\ refcnt \in [Descs -> Nat]
      /\ page \in [Descs -> Pages \union {0}] /\ chain \in [Sizes -> Seq(Descs)]
  BY <1>0 DEF TypeOK
<1>3. /\ Fresh(s) \in Seq(Nat) /\ Fresh(s) # <<>> /\ Distinct(Fresh(s))
      /\ Len(Fresh(s)) = CHUNKS[s]
  BY FreshIs
<1>4. Head(Fresh(s)) \in Nat /\ Tail(Fresh(s)) \in Seq(Nat)
  BY <1>3
<1>5. o \in Chunks /\ o.page = g /\ o.size = s /\ o.n = Head(Fresh(s))
  BY <1>4 DEF Chunks
<1>. HIDE DEF o
<1>6. /\ list # <<>> /\ Distinct(list)
      /\ \A e \in Descs : Bucket(e) => ~Has(list, e)
  BY <1>1 DEF Ready
<1>7. /\ Tail(list) \in Seq(Descs) /\ Distinct(Tail(list))
      /\ \A x : Has(list, x) <=> x = d \/ Has(Tail(list), x)
      /\ ~Has(Tail(list), d)
  BY <1>1, <1>6, TailIs
<1>8. Has(list, d) /\ ~Bucket(d)
  BY <1>6, <1>7
<1>9. chain[s] \in Seq(Descs) /\ Distinct(chain[s]) /\ ~Has(chain[s], d)
  BY <1>0, <1>2, <1>8 DEF ListInv, Bucket
<1>10. /\ <<d>> \o chain[s] \in Seq(Descs) /\ Distinct(<<d>> \o chain[s])
       /\ \A x : Has(<<d>> \o chain[s], x) <=> x = d \/ Has(chain[s], x)
  BY <1>9, PushIs, PushDistinct
<1>11. /\ chain'[s] = <<d>> \o chain[s]
       /\ \A t \in Sizes : t # s => chain'[t] = chain[t]
  BY <1>1, <1>2
<1>12. \A t \in Sizes, x \in Descs : Has(chain'[t], x) <=> (t = s /\ x = d) \/ Has(chain[t], x)
  BY <1>10, <1>11
<1>13. \A x \in Descs : (\E t \in Sizes : Has(chain'[t], x)) <=> x = d \/ Bucket(x)
  BY <1>12 DEF Bucket
<1>14. /\ page'[d] = g /\ \A e \in Descs : e # d => page'[e] = page[e]
  BY <1>1, <1>2
<1>15. /\ mem_map' \in [Pages -> {0, 1}] /\ mem_map'[g] = 1
       /\ \A h \in Pages : h # g => mem_map'[h] = map[h]
  BY <1>1
<1>16. \A e \in Descs : Bucket(e) => page[e] \in Pages /\ mem_map[page[e]] = 1 /\ map[page[e]] = 1
  BY <1>0, <1>1 DEF PageInv, Ready
<1>17. \A e \in Descs : Bucket(e) => page[e] # g
  BY <1>1, <1>16
<1>18. \A e \in Descs : Bucket(e) \/ Has(list, e) => map[e.at] = 1 /\ e.at # g /\ e.at \in Pages
  BY <1>1 DEF Ready, Descs
<1>19. TypeOK'
  <2>1. freeptr' \in [Descs -> Seq(Nat)] /\ refcnt' \in [Descs -> Nat] /\ page' \in [Descs -> Pages \union {0}]
    BY <1>1, <1>2, <1>4
  <2>2. live' \subseteq Chunks /\ IsFiniteSet(live')
    BY <1>0, <1>1, <1>5, FS_AddElement DEF TypeOK
  <2>3. chain' \in [Sizes -> Seq(Descs)]
    BY <1>1, <1>2, <1>10
  <2>4. free_bucket_desc' \in Seq(Descs)
    BY <1>1, <1>7
  <2>. QED
    BY <1>0, <1>1, <1>15, <2>1, <2>2, <2>3, <2>4 DEF TypeOK
<1>20. ListInv'
  <2>1. \A t \in Sizes : Distinct(chain'[t])
    BY <1>0, <1>10, <1>11 DEF ListInv
  <2>2. \A t, u \in Sizes, e \in Descs : Has(chain'[t], e) /\ Has(chain'[u], e) => t = u
    BY <1>0, <1>8, <1>12 DEF ListInv, Bucket
  <2>3. \A e \in Descs : e = d \/ Bucket(e) => ~Has(Tail(list), e)
    BY <1>6, <1>7
  <2>4. \A e \in Descs : (\E t \in Sizes : Has(chain'[t], e)) => ~Has(Tail(list), e)
    BY <1>13, <2>3
  <2>. QED
    BY <1>1, <1>7, <2>1, <2>2, <2>4 DEF ListInv, Bucket
<1>. DEFINE B(e) == \E t \in Sizes : Has(chain'[t], e)
            D(e) == B(e) \/ Has(Tail(list), e)
<1>21. \A e \in Descs : (B(e) <=> e = d \/ Bucket(e)) /\ (D(e) <=> Bucket(e) \/ Has(list, e))
  BY <1>7, <1>13
<1>. HIDE DEF B, D
<1>22. PageInv'
  <2>1. \A e \in Descs : B(e) => page'[e] \in Pages /\ mem_map'[page'[e]] = 1
    BY <1>14, <1>15, <1>16, <1>17, <1>21
  <2>2. \A e, f \in Descs : B(e) /\ B(f) /\ page'[e] = page'[f] => e = f
    <3>1. \A e, f \in Descs : Bucket(e) /\ Bucket(f) /\ page[e] = page[f] => e = f
      BY <1>0 DEF PageInv
    <3>. QED
      BY <1>8, <1>14, <1>17, <1>21, <3>1
  <2>3. \A e \in Descs : D(e) => mem_map'[e.at] = 1
    BY <1>15, <1>18, <1>21
  <2>4. \A e, f \in Descs : B(e) /\ D(f) => page'[e] # f.at
    <3>1. \A e, f \in Descs : Bucket(e) /\ (Bucket(f) \/ Has(list, f)) => page[e] # f.at
      BY <1>1 DEF Ready
    <3>. QED
      BY <1>8, <1>14, <1>18, <1>21, <3>1
  <2>5. ASSUME NEW h \in Pages, mem_map'[h] = 1
        PROVE  \E e \in Descs : (B(e) /\ page'[e] = h) \/ (D(e) /\ e.at = h)
    <3>1. CASE h = g
      BY <1>14, <1>21, <3>1
    <3>2. CASE h # g
      <4>1. map[h] = 1
        BY <1>15, <2>5, <3>2
      <4>2. PICK e \in Descs : (Bucket(e) /\ page[e] = h) \/ ((Bucket(e) \/ Has(list, e)) /\ e.at = h)
        BY <1>1, <4>1 DEF Ready
      <4>3. Bucket(e) => e # d
        BY <1>8
      <4>. QED
        BY <1>14, <1>21, <4>2, <4>3
    <3>. QED
      BY <3>1, <3>2
  <2>. QED
    <3>1. \A e : (Bucket(e)' <=> B(e)) /\ (Described(e)' <=> D(e))
      BY <1>1 DEF Described, Bucket, B, D
    <3>. QED
      BY <2>1, <2>2, <2>3, <2>4, <2>5, <3>1 DEF PageInv
<1>23. Out' = Out \union {o}
  BY <1>1 DEF Out
<1>24. \A p \in Out : \E e \in Descs : Has(chain[p.size], e) /\ page[e] = p.page
  BY <1>0 DEF ChunkInv
<1>25. Out \subseteq Chunks
  BY <1>0, OutIs
<1>26. \A p \in Out : p.page # g /\ p.size \in Sizes
  <2>1. \A p \in Out : p.size \in Sizes
    BY <1>25 DEF Chunks
  <2>. QED
    BY <1>17, <1>24, <2>1 DEF Bucket
<1>27. ChunkInv'
  <2>1. ASSUME NEW t \in Sizes, NEW e \in Descs, Has(chain'[t], e)
        PROVE  Shared(t, freeptr'[e], refcnt'[e], {p \in Out' : p.page = page'[e]})
    <3>1. CASE e = d
      <4>1. t = s
        BY <1>8, <1>12, <2>1, <3>1 DEF Bucket
      <4>2. freeptr'[e] = Tail(Fresh(s)) /\ refcnt'[e] = 1
        BY <1>1, <1>2, <3>1
      <4>3. {p \in Out' : p.page = page'[e]} = {o}
        BY <1>5, <1>14, <1>23, <1>26, <3>1
      <4>4. /\ Len(Tail(Fresh(s))) = CHUNKS[s] - 1
            /\ ~Has(Tail(Fresh(s)), Head(Fresh(s))) /\ Distinct(Tail(Fresh(s)))
        BY <1>3, TailIs
      <4>5. Cardinality({o}) = 1 /\ CHUNKS[s] \in Nat
        BY FS_Singleton, SizesAre
      <4>6. Len(Tail(Fresh(s))) + 1 = CHUNKS[s]
        BY <4>4, <4>5
      <4>7. Shared(s, Tail(Fresh(s)), 1, {o})
        BY <1>5, <4>4, <4>5, <4>6 DEF Shared
      <4>. QED
        BY <4>1, <4>2, <4>3, <4>7
    <3>2. CASE e # d
      <4>1. Has(chain[t], e)
        BY <1>12, <2>1, <3>2
      <4>2. freeptr'[e] = freeptr[e] /\ refcnt'[e] = refcnt[e] /\ page'[e] = page[e]
        BY <1>1, <1>2, <3>2
      <4>3. page[e] # g
        BY <1>17, <4>1 DEF Bucket
      <4>4. {p \in Out' : p.page = page'[e]} = OutOf(e)
        BY <1>5, <1>23, <4>2, <4>3 DEF OutOf
      <4>. QED
        BY <1>0, <4>1, <4>2, <4>4 DEF ChunkInv
    <3>. QED
      BY <3>1, <3>2
  <2>2. ASSUME NEW p \in Out' PROVE \E e \in Descs : Has(chain'[p.size], e) /\ page'[e] = p.page
    <3>1. CASE p = o
      BY <1>5, <1>12, <1>14, <3>1
    <3>2. CASE p \in Out
      <4>1. PICK e \in Descs : Has(chain[p.size], e) /\ page[e] = p.page
        BY <1>24, <3>2
      <4>2. e # d
        BY <1>8, <1>26, <3>2, <4>1 DEF Bucket
      <4>. QED
        BY <1>12, <1>14, <1>26, <3>2, <4>1, <4>2
    <3>. QED
      BY <1>23, <3>1, <3>2
  <2>. QED
    BY <2>1, <2>2 DEF ChunkInv, OutOf
<1>28. FreeInv'
  <2>1. pc # "idle" => loc.obj \in Out /\ loc.obj \in Chunks \ live /\ loc.size \in Sizes /\ loc.size =< loc.obj.size
    BY <1>0, OutIs DEF FreeInv
  <2>2. pc # "idle" => loc.obj \in Chunks \ live'
    BY <1>1, <1>5, <1>26, <2>1
  <2>3. loc.bdesc \in Descs \union {NULL}
    BY <1>0 DEF TypeOK, Locals
  <2>4. pc = "walk" /\ loc.bdesc # NULL => Has(chain'[loc.size], loc.bdesc)
    BY <1>0, <1>12, <2>1, <2>3 DEF FreeInv
  <2>5. ASSUME pc = "walk", loc.size = loc.obj.size
        PROVE  \E i, j \in DOMAIN chain'[loc.size] :
                  i =< j /\ chain'[loc.size][i] = loc.bdesc /\ page'[chain'[loc.size][j]] = loc.obj.page
    <3>. DEFINE z == loc.size
    <3>1. PICK i, j \in DOMAIN chain[z] :
             i =< j /\ chain[z][i] = loc.bdesc /\ page[chain[z][j]] = loc.obj.page
      BY <1>0, <2>5 DEF FreeInv, Ahead
    <3>2. z \in Sizes /\ chain[z] \in Seq(Descs)
      BY <1>2, <2>1, <2>5
    <3>3. chain[z][j] \in Descs /\ chain[z][j] # d
      BY <1>8, <3>1, <3>2 DEF Bucket, Has
    <3>4. page'[chain[z][j]] = loc.obj.page
      BY <1>14, <3>1, <3>3
    <3>5. CASE z # s
      BY <1>11, <3>1, <3>2, <3>4, <3>5
    <3>6. CASE z = s
      <4>1. /\ Len(<<d>> \o chain[s]) = Len(chain[s]) + 1
            /\ \A k \in 1 .. Len(chain[s]) : (<<d>> \o chain[s])[k + 1] = chain[s][k]
        BY <1>9, PushIs
      <4>2. i \in 1 .. Len(chain[s]) /\ j \in 1 .. Len(chain[s]) /\ Len(chain[s]) \in Nat
        BY <3>1, <3>2, <3>6
      <4>3. DOMAIN chain'[s] = 1 .. Len(chain[s]) + 1
        BY <1>10, <1>11, <4>1
      <4>4. i + 1 \in DOMAIN chain'[s] /\ j + 1 \in DOMAIN chain'[s] /\ i + 1 =< j + 1
        BY <3>1, <4>2, <4>3
      <4>5. chain'[s][i + 1] = loc.bdesc /\ page'[chain'[s][j + 1]] = loc.obj.page
        BY ZenonT(60), <1>11, <3>1, <3>4, <3>6, <4>1, <4>2
      <4>. QED
        BY <3>6, <4>4, <4>5
    <3>. QED
      BY <3>5, <3>6
  <2>6. ASSUME pc = "found"
        PROVE  loc.size = loc.obj.size /\ Has(chain'[loc.size], loc.bdesc) /\ page'[loc.bdesc] = loc.obj.page
    <3>1. loc.size = loc.obj.size /\ Has(chain[loc.size], loc.bdesc) /\ page[loc.bdesc] = loc.obj.page
      BY <1>0, <2>6 DEF FreeInv
    <3>2. chain[loc.size] \in Seq(Descs) /\ loc.size \in Sizes
      BY <1>2, <2>1, <2>6
    <3>3. loc.bdesc \in Descs /\ loc.bdesc # d
      BY <1>8, <3>1, <3>2 DEF Bucket, Has
    <3>. QED
      BY <1>12, <1>14, <3>1, <3>2, <3>3
  <2>. QED
    BY <1>0, <1>1, <2>1, <2>2, <2>4, <2>5, <2>6 DEF FreeInv, Ahead
<1>. QED
  BY <1>19, <1>20, <1>22, <1>27, <1>28 DEF IInv

(***************************************************************************)
(* free_s puts the object back.                                            *)
(***************************************************************************)
LEMMA ReturnedIs ==
    ASSUME IInv, NEW d \in Descs, Returns(d)
    PROVE  /\ loc.obj \in OutOf(d) /\ loc.obj.n \in Nat /\ loc.size \in Sizes
           /\ Has(chain[loc.size], d) /\ page[d] = loc.obj.page
           /\ Shared(loc.size, freeptr[d], refcnt[d], OutOf(d))
           /\ \A p \in OutOf(d) : p.n = loc.obj.n => p = loc.obj
           /\ Out' = Out \ {loc.obj}
           /\ TypeOK /\ ListInv /\ PageInv /\ ChunkInv /\ FreeInv
<1>0. TypeOK /\ ListInv /\ PageInv /\ ChunkInv /\ FreeInv
  BY DEF IInv
<1>1. pc = "found" /\ d = loc.bdesc /\ pc' = "idle" /\ live' = live
  BY DEF Returns
<1>2. /\ loc.size = loc.obj.size /\ Has(chain[loc.size], d) /\ page[d] = loc.obj.page
      /\ loc.size \in Sizes /\ loc.obj \in Chunks
  BY <1>0, <1>1 DEF FreeInv
<1>3. loc.obj \in Out /\ live = Out \ {loc.obj}
  BY <1>0, <1>1, OutIs
<1>4. loc.obj \in OutOf(d) /\ loc.obj.n \in Nat
  BY <1>2, <1>3 DEF OutOf, Chunks
<1>5. Shared(loc.size, freeptr[d], refcnt[d], OutOf(d))
  BY <1>0, <1>2 DEF ChunkInv
<1>6. ASSUME NEW p \in OutOf(d), p.n = loc.obj.n PROVE p = loc.obj
  <2>1. p \in Chunks
    BY <1>0, OutIs
  <2>2. p.size = loc.obj.size
    BY <1>2, <1>5 DEF Shared
  <2>3. p.page = loc.obj.page
    BY <1>2 DEF OutOf
  <2>. QED
    BY <1>2, <1>6, <2>1, <2>2, <2>3 DEF Chunks
<1>7. Out' = live
  BY <1>1 DEF Out
<1>. QED
  BY <1>0, <1>2, <1>3, <1>4, <1>5, <1>6, <1>7

LEMMA KeepStep ==
    ASSUME IInv, NEW d \in Descs, Keeps(d)
    PROVE  IInv'
<1>. DEFINE o == loc.obj
            z == loc.size
<1>1. Returns(d) /\ refcnt[d] # 1 /\ UNCHANGED <<mem_map, chain, free_bucket_desc>>
  BY DEF Keeps
<1>2. /\ o \in OutOf(d) /\ o.n \in Nat /\ z \in Sizes
      /\ Has(chain[z], d) /\ page[d] = o.page
      /\ Shared(z, freeptr[d], refcnt[d], OutOf(d))
      /\ \A p \in OutOf(d) : p.n = o.n => p = o
      /\ Out' = Out \ {o}
      /\ TypeOK /\ ListInv /\ PageInv /\ ChunkInv /\ FreeInv
  BY <1>1, ReturnedIs
<1>3. /\ freeptr' = [freeptr EXCEPT ![d] = <<o.n>> \o @]
      /\ refcnt' = [refcnt EXCEPT ![d] = @ - 1]
      /\ pc' = "idle" /\ loc' = NoLoc
      /\ UNCHANGED <<page, live, panicked>>
  BY <1>1 DEF Returns
<1>4. freeptr \in [Descs -> Seq(Nat)] /\ refcnt \in [Descs -> Nat]
  BY <1>2 DEF TypeOK
<1>. HIDE DEF o, z
<1>5. refcnt[d] > 0
  BY <1>2 DEF Shared
<1>6. IsFiniteSet(OutOf(d))
  BY <1>2, OutIs
<1>7. Shared(z, <<o.n>> \o freeptr[d], refcnt[d] - 1, OutOf(d) \ {o})
  BY <1>1, <1>2, <1>4, <1>6, SharedGive
<1>8. TypeOK'
  <2>1. <<o.n>> \o freeptr[d] \in Seq(Nat)
    BY <1>2, <1>4
  <2>2. refcnt[d] - 1 \in Nat
    BY <1>4, <1>5
  <2>3. freeptr' \in [Descs -> Seq(Nat)] /\ refcnt' \in [Descs -> Nat]
    BY <1>3, <1>4, <2>1, <2>2
  <2>4. NoLoc \in Locals
    BY DEF NoLoc, Locals, NoObj
  <2>. QED
    BY <1>1, <1>2, <1>3, <2>3, <2>4 DEF TypeOK
<1>9. ListInv'
  BY <1>1, <1>2 DEF ListInv, Bucket
<1>10. PageInv'
  BY <1>1, <1>2, <1>3 DEF PageInv, Bucket, Described
<1>11. ChunkInv'
  <2>1. ASSUME NEW t \in Sizes, NEW e \in Descs, Has(chain[t], e)
        PROVE  Shared(t, freeptr'[e], refcnt'[e], {p \in Out' : p.page = page[e]})
    <3>1. CASE e = d
      <4>1. t = z
        BY <1>2, <2>1, <3>1 DEF ListInv
      <4>2. freeptr'[e] = <<o.n>> \o freeptr[d] /\ refcnt'[e] = refcnt[d] - 1
        BY <1>3, <1>4, <3>1
      <4>3. {p \in Out' : p.page = page[e]} = OutOf(d) \ {o}
        BY <1>2, <3>1 DEF OutOf
      <4>. QED
        BY <1>7, <4>1, <4>2, <4>3
    <3>2. CASE e # d
      <4>1. page[e] # page[d]
        BY <1>2, <2>1, <3>2 DEF PageInv, Bucket
      <4>2. freeptr'[e] = freeptr[e] /\ refcnt'[e] = refcnt[e]
        BY <1>3, <1>4, <3>2
      <4>3. {p \in Out' : p.page = page[e]} = OutOf(e)
        BY <1>2, <4>1 DEF OutOf
      <4>. QED
        BY <1>2, <2>1, <4>2, <4>3 DEF ChunkInv
    <3>. QED
      BY <3>1, <3>2
  <2>2. \A p \in Out' : \E e \in Descs : Has(chain[p.size], e) /\ page[e] = p.page
    BY <1>2 DEF ChunkInv
  <2>. QED
    BY <1>1, <1>3, <2>1, <2>2 DEF ChunkInv, OutOf
<1>12. FreeInv'
  BY <1>3 DEF FreeInv
<1>. QED
  BY <1>8, <1>9, <1>10, <1>11, <1>12 DEF IInv

LEMMA LeaveStep ==
    ASSUME IInv, NEW d \in Descs, Leaves(d)
    PROVE  IInv'
<1>. DEFINE o == loc.obj
            z == loc.size
<1>1. /\ Returns(d) /\ refcnt[d] = 1
      /\ chain' = [chain EXCEPT ![z] = Without(@, d)]
      /\ mem_map' = [mem_map EXCEPT ![page[d]] = 0]
      /\ free_bucket_desc' = <<d>> \o free_bucket_desc
  BY DEF Leaves
<1>2. /\ o \in OutOf(d) /\ o.n \in Nat /\ z \in Sizes
      /\ Has(chain[z], d) /\ page[d] = o.page
      /\ Shared(z, freeptr[d], refcnt[d], OutOf(d))
      /\ Out' = Out \ {o}
      /\ TypeOK /\ ListInv /\ PageInv /\ ChunkInv /\ FreeInv
  BY <1>1, ReturnedIs
<1>3. /\ freeptr' = [freeptr EXCEPT ![d] = <<o.n>> \o @]
      /\ refcnt' = [refcnt EXCEPT ![d] = @ - 1]
      /\ pc' = "idle" /\ loc' = NoLoc
      /\ UNCHANGED <<page, live, panicked>>
  BY <1>1 DEF Returns
<1>4. /\ freeptr \in [Descs -> Seq(Nat)] /\ refcnt \in [Descs -> Nat]
      /\ chain \in [Sizes -> Seq(Descs)] /\ free_bucket_desc \in Seq(Descs)
      /\ mem_map \in [Pages -> {0, 1}]
  BY <1>2 DEF TypeOK
<1>. HIDE DEF o, z
<1>5. OutOf(d) = {o}
  <2>1. Cardinality(OutOf(d)) = 1
    BY <1>1, <1>2 DEF Shared
  <2>2. IsFiniteSet(OutOf(d))
    BY <1>2, OutIs
  <2>3. \E y : OutOf(d) = {y}
    BY <2>1, <2>2, FS_Singleton
  <2>. QED
    BY <1>2, <2>3
<1>6. Bucket(d) /\ ~Has(free_bucket_desc, d) /\ Distinct(chain[z]) /\ Distinct(free_bucket_desc)
  BY <1>2 DEF ListInv, Bucket
<1>7. /\ Without(chain[z], d) \in Seq(Descs) /\ Distinct(Without(chain[z], d))
      /\ \A x : Has(Without(chain[z], d), x) <=> x # d /\ Has(chain[z], x)
  BY <1>2, <1>4, <1>6, WithoutIs
<1>8. chain'[z] = Without(chain[z], d) /\ \A t \in Sizes : t # z => chain'[t] = chain[t]
  BY <1>1, <1>2, <1>4
<1>9. \A t \in Sizes : t # z => ~Has(chain[t], d)
  BY <1>2 DEF ListInv
<1>10. \A t \in Sizes, x \in Descs : Has(chain'[t], x) <=> x # d /\ Has(chain[t], x)
  BY <1>7, <1>8, <1>9
<1>11. /\ <<d>> \o free_bucket_desc \in Seq(Descs) /\ Distinct(<<d>> \o free_bucket_desc)
       /\ \A x : Has(<<d>> \o free_bucket_desc, x) <=> x = d \/ Has(free_bucket_desc, x)
  BY <1>4, <1>6, PushIs, PushDistinct
<1>12. \A x \in Descs : (\E t \in Sizes : Has(chain'[t], x)) <=> x # d /\ Bucket(x)
  BY <1>10 DEF Bucket
<1>13. page[d] \in Pages
  BY <1>2, <1>6 DEF PageInv
<1>14. mem_map'[page[d]] = 0 /\ \A h \in Pages : h # page[d] => mem_map'[h] = mem_map[h]
  BY <1>1, <1>4, <1>13
<1>15. TypeOK'
  <2>1. <<o.n>> \o freeptr[d] \in Seq(Nat)
    BY <1>2, <1>4
  <2>2. freeptr' \in [Descs -> Seq(Nat)]
    BY <1>3, <1>4, <2>1
  <2>3. refcnt' \in [Descs -> Nat]
    BY <1>1, <1>3, <1>4
  <2>4. NoLoc \in Locals
    BY DEF NoLoc, Locals, NoObj
  <2>5. chain' \in [Sizes -> Seq(Descs)]
    BY <1>1, <1>4, <1>7
  <2>6. mem_map' \in [Pages -> {0, 1}]
    BY <1>1, <1>4
  <2>7. free_bucket_desc' \in Seq(Descs)
    BY <1>1, <1>11
  <2>8. /\ pc' \in {"idle", "walk", "found"} /\ loc' \in Locals /\ panicked' = FALSE
        /\ page' \in [Descs -> Pages \union {0}] /\ live' \subseteq Chunks /\ IsFiniteSet(live')
    BY <1>2, <1>3, <2>4 DEF TypeOK
  <2>. QED
    BY <2>2, <2>3, <2>5, <2>6, <2>7, <2>8 DEF TypeOK
<1>. DEFINE B(e) == \E t \in Sizes : Has(chain'[t], e)
            D(e) == B(e) \/ Has(<<d>> \o free_bucket_desc, e)
<1>16. \A e \in Descs : (B(e) <=> e # d /\ Bucket(e)) /\ (D(e) <=> Described(e))
  <2>1. \A e \in Descs : B(e) <=> e # d /\ Bucket(e)
    BY <1>12
  <2>2. \A e \in Descs : D(e) <=> B(e) \/ e = d \/ Has(free_bucket_desc, e)
    BY <1>11
  <2>. QED
    BY <1>6, <2>1, <2>2 DEF Described
<1>. HIDE DEF B, D
<1>17. ListInv'
  <2>1. \A t \in Sizes : Distinct(chain'[t])
    BY <1>2, <1>7, <1>8 DEF ListInv
  <2>2. \A t, u \in Sizes, e \in Descs : Has(chain'[t], e) /\ Has(chain'[u], e) => t = u
    BY <1>2, <1>10 DEF ListInv
  <2>3. \A e \in Descs : B(e) => ~Has(<<d>> \o free_bucket_desc, e)
    BY <1>2, <1>11, <1>16 DEF ListInv
  <2>. QED
    BY <1>1, <1>11, <2>1, <2>2, <2>3 DEF ListInv, Bucket, B
<1>18. PageInv'
  <2>0. /\ \A e \in Descs : Bucket(e) => page[e] \in Pages /\ mem_map[page[e]] = 1
        /\ \A e, f \in Descs : Bucket(e) /\ Bucket(f) /\ page[e] = page[f] => e = f
        /\ \A e \in Descs : Described(e) => mem_map[e.at] = 1
        /\ \A e, f \in Descs : Bucket(e) /\ Described(f) => page[e] # f.at
    BY <1>2 DEF PageInv
  <2>1. \A e \in Descs : B(e) => page[e] \in Pages /\ mem_map'[page[e]] = 1
    BY <1>6, <1>14, <1>16, <2>0
  <2>2. \A e, f \in Descs : B(e) /\ B(f) /\ page[e] = page[f] => e = f
    BY <1>16, <2>0
  <2>3. \A e \in Descs : D(e) => mem_map'[e.at] = 1
    <3>1. \A e \in Descs : e.at \in Pages
      BY DEF Descs
    <3>. QED
      BY <1>6, <1>14, <1>16, <2>0, <3>1
  <2>4. \A e, f \in Descs : B(e) /\ D(f) => page[e] # f.at
    BY <1>16, <2>0
  <2>5. ASSUME NEW h \in Pages, mem_map'[h] = 1
        PROVE  \E e \in Descs : (B(e) /\ page[e] = h) \/ (D(e) /\ e.at = h)
    <3>1. h # page[d] /\ mem_map[h] = 1
      BY <1>14, <2>5
    <3>2. PICK e \in Descs : (Bucket(e) /\ page[e] = h) \/ (Described(e) /\ e.at = h)
      BY <1>2, <3>1 DEF PageInv
    <3>. QED
      BY <1>16, <3>1, <3>2
  <2>. QED
    BY <1>1, <1>3, <2>1, <2>2, <2>3, <2>4, <2>5 DEF PageInv, Described, Bucket, B, D
<1>19. ChunkInv'
  <2>1. ASSUME NEW t \in Sizes, NEW e \in Descs, Has(chain'[t], e)
        PROVE  Shared(t, freeptr'[e], refcnt'[e], {p \in Out' : p.page = page[e]})
    <3>1. e # d /\ Has(chain[t], e)
      BY <1>10, <2>1
    <3>2. page[e] # page[d]
      BY <1>2, <1>6, <3>1 DEF PageInv, Bucket
    <3>3. freeptr'[e] = freeptr[e] /\ refcnt'[e] = refcnt[e]
      BY <1>3, <1>4, <3>1
    <3>4. {p \in Out' : p.page = page[e]} = OutOf(e)
      BY <1>2, <3>2 DEF OutOf
    <3>. QED
      BY <1>2, <3>1, <3>3, <3>4 DEF ChunkInv
  <2>2. ASSUME NEW p \in Out' PROVE \E e \in Descs : Has(chain'[p.size], e) /\ page[e] = p.page
    <3>1. p \in Out /\ p # o
      BY <1>2
    <3>2. p.page # page[d]
      BY <1>5, <3>1 DEF OutOf
    <3>3. PICK e \in Descs : Has(chain[p.size], e) /\ page[e] = p.page
      BY <1>2, <3>1 DEF ChunkInv
    <3>4. p.size \in Sizes
      BY <1>2, <3>1, OutIs DEF Chunks
    <3>. QED
      BY <1>10, <3>2, <3>3, <3>4
  <2>. QED
    BY <1>3, <2>1, <2>2 DEF ChunkInv, OutOf
<1>20. FreeInv'
  BY <1>3 DEF FreeInv
<1>. QED
  BY <1>15, <1>17, <1>18, <1>19, <1>20 DEF IInv

(***************************************************************************)
(* free_s looks for the bucket of the object.                              *)
(***************************************************************************)
(* At the start of the chain of the object's size, its bucket is ahead.    *)
LEMMA AheadAtFirst ==
    ASSUME TypeOK, ChunkInv, NEW o \in Out, o.size \in Sizes
    PROVE  \E i, j \in DOMAIN chain[o.size] :
              i =< j /\ chain[o.size][i] = First(chain[o.size])
              /\ page[chain[o.size][j]] = o.page
<1>. DEFINE list == chain[o.size]
<1>1. list \in Seq(Descs)
  BY DEF TypeOK
<1>2. PICK d \in Descs : Has(list, d) /\ page[d] = o.page
  BY DEF ChunkInv
<1>3. PICK j \in DOMAIN list : list[j] = d
  BY <1>2 DEF Has
<1>. HIDE DEF list
<1>4. DOMAIN list = 1 .. Len(list) /\ Len(list) \in Nat
  BY <1>1
<1>5. list # <<>>
  BY <1>1, <1>3, <1>4
<1>6. 1 \in DOMAIN list /\ First(list) = list[1]
  BY <1>1, <1>5, FirstIs
<1>7. 1 =< j
  BY <1>3, <1>4
<1>. QED
  BY <1>2, <1>3, <1>6, <1>7 DEF list

(* The bucket found is the object's.                                       *)
LEMMA FoundIs ==
    ASSUME IInv, pc = "walk", Found
    PROVE  loc.size = loc.obj.size /\ Has(chain[loc.size], loc.bdesc)
           /\ page[loc.bdesc] = loc.obj.page
<1>0. TypeOK /\ ListInv /\ PageInv /\ ChunkInv /\ FreeInv
  BY DEF IInv
<1>1. loc.bdesc # NULL /\ page[loc.bdesc] = loc.obj.page
  BY DEF Found
<1>2. Has(chain[loc.size], loc.bdesc) /\ loc.size \in Sizes
  BY <1>0, <1>1 DEF FreeInv
<1>3. loc.bdesc \in Descs
  BY <1>0, <1>1 DEF TypeOK, Locals
<1>4. loc.obj \in Out /\ loc.obj.size \in Sizes
  BY <1>0, OutIs DEF FreeInv, Chunks
<1>5. PICK d \in Descs : Has(chain[loc.obj.size], d) /\ page[d] = loc.obj.page
  BY <1>0, <1>4 DEF ChunkInv
<1>6. Bucket(d) /\ Bucket(loc.bdesc)
  BY <1>2, <1>4, <1>5 DEF Bucket
<1>7. d = loc.bdesc
  BY <1>0, <1>1, <1>3, <1>5, <1>6 DEF PageInv
<1>8. loc.size = loc.obj.size
  BY <1>0, <1>2, <1>3, <1>4, <1>5, <1>7 DEF ListInv
<1>. QED
  BY <1>1, <1>2, <1>8

(* What free_s does not change of the memory.                              *)
LEMMA SearchSteps ==
    ASSUME IInv, UNCHANGED <<mem_map, chain, free_bucket_desc, page, freeptr, refcnt>>,
           Out' = Out, TypeOK'
    PROVE  ListInv' /\ PageInv' /\ ChunkInv'
<1>0. ListInv /\ PageInv /\ ChunkInv
  BY DEF IInv
<1>1. ListInv'
  BY <1>0 DEF ListInv, Bucket
<1>2. PageInv'
  BY <1>0 DEF PageInv, Bucket, Described
<1>3. \A d : OutOf(d)' = OutOf(d)
  BY DEF OutOf
<1>4. ChunkInv'
  BY <1>0, <1>3 DEF ChunkInv
<1>. QED
  BY <1>1, <1>2, <1>4

LEMMA FreeStep ==
    ASSUME IInv, free_s
    PROVE  IInv'
<1>0. TypeOK /\ ListInv /\ PageInv /\ ChunkInv /\ FreeInv
  BY DEF IInv
<1>1. /\ pc = "idle" /\ pc' = "walk"
      /\ UNCHANGED <<mem_map, chain, free_bucket_desc, page, freeptr, refcnt, panicked>>
  BY DEF free_s, descs
<1>2. PICK o \in live, size \in {0} \union Sizes :
         /\ size # 0 => size = o.size
         /\ live' = live \ {o}
         /\ loc' = [NoLoc EXCEPT !.obj = o, !.size = Max({1, size}),
                                 !.bdesc = First(chain[Max({1, size})])]
  BY ZenonT(60) DEF free_s
<1>3. o \in Chunks /\ o.page \in Pages /\ o.size \in Sizes
  BY <1>0 DEF TypeOK, Chunks
<1>4. Sizes = 1 .. Len(CHUNKS) /\ Len(CHUNKS) \in Nat
  BY SizesAre
<1>. DEFINE s == Max({1, size})
<1>5. s \in Sizes /\ s =< o.size
  <2>1. size \in Nat /\ (size = 0 \/ size >= 1) /\ (size = 0 \/ size = o.size) /\ o.size \in Nat /\ o.size >= 1
    BY <1>2, <1>3, <1>4
  <2>2. CASE size = 0
    <3>1. \A x \in {1, 0} : 1 >= x
      OBVIOUS
    <3>2. Max({1, 0}) \in {1, 0} /\ Max({1, 0}) >= 1
      BY <3>1 DEF Max
    <3>3. s = 1
      BY <2>2, <3>2
    <3>. QED
      BY <1>3, <1>4, <2>1, <3>3
  <2>3. CASE size # 0
    <3>1. \A x \in {1, size} : size >= x
      BY <2>1, <2>3
    <3>2. Max({1, size}) \in {1, size} /\ Max({1, size}) >= size
      BY <3>1 DEF Max
    <3>3. s = size
      BY <2>1, <2>3, <3>2
    <3>. QED
      BY <1>2, <1>3, <2>1, <2>3, <3>3
  <2>. QED
    BY <2>2, <2>3
<1>. HIDE DEF s
<1>6. chain[s] \in Seq(Descs)
  BY <1>0, <1>5 DEF TypeOK
<1>7. loc' = [obj |-> o, size |-> s, bdesc |-> First(chain[s]), prev |-> NULL]
  BY <1>2 DEF NoLoc, s
<1>8. Out = live /\ Out' = Out
  BY <1>1, <1>2, <1>7 DEF Out
<1>9. TypeOK'
  <2>1. loc' \in Locals
    BY <1>3, <1>5, <1>6, <1>7, FirstIs DEF Locals
  <2>2. live' \subseteq Chunks /\ IsFiniteSet(live')
    BY <1>0, <1>2, FS_RemoveElement DEF TypeOK
  <2>. QED
    BY <1>0, <1>1, <2>1, <2>2 DEF TypeOK
<1>10. ListInv' /\ PageInv' /\ ChunkInv'
  BY <1>1, <1>8, <1>9, SearchSteps
<1>11. FreeInv'
  <2>1. loc' # NoLoc
    <3>1. o.page # 0
      BY <1>3, PagesAre
    <3>2. NoLoc.obj.page = 0 /\ loc'.obj.page = o.page
      BY <1>7 DEF NoLoc
    <3>. QED
      BY <3>1, <3>2
  <2>2. /\ loc'.obj = o /\ loc'.size = s /\ loc'.bdesc = First(chain[s])
    BY <1>7
  <2>3. o \in Chunks \ live'
    BY <1>2, <1>3
  <2>4. First(chain[s]) # NULL => Has(chain[s], First(chain[s]))
    BY <1>6, FirstIs
  <2>5. s = o.size => Ahead'
    <3>1. o \in Out
      BY <1>8
    <3>2. ASSUME s = o.size PROVE \E i, j \in DOMAIN chain[s] :
              i =< j /\ chain[s][i] = First(chain[s]) /\ page[chain[s][j]] = o.page
      BY <1>0, <1>3, <3>1, <3>2, AheadAtFirst
    <3>. QED
      BY <1>1, <2>2, <3>2 DEF Ahead
  <2>. QED
    BY <1>1, <1>5, <2>1, <2>2, <2>3, <2>4, <2>5 DEF FreeInv
<1>. QED
  BY <1>9, <1>10, <1>11 DEF IInv

LEMMA WalkStep ==
    ASSUME IInv, Walk
    PROVE  IInv'
<1>. DEFINE z == loc.size
            o == loc.obj
            list == chain[z]
<1>0. TypeOK /\ ListInv /\ PageInv /\ ChunkInv /\ FreeInv
  BY DEF IInv
<1>1. /\ pc = "walk"
      /\ UNCHANGED <<mem_map, chain, free_bucket_desc, page, freeptr, refcnt, live>>
  BY DEF Walk, descs
<1>2. /\ loc # NoLoc /\ o \in Chunks \ live /\ z \in Sizes /\ z =< o.size
      /\ loc.bdesc # NULL => Has(list, loc.bdesc)
      /\ z = o.size => Ahead
  BY <1>0, <1>1 DEF FreeInv
<1>3. /\ list \in Seq(Descs) /\ loc.bdesc \in Descs \union {NULL} /\ loc.prev \in Descs \union {NULL}
      /\ loc = [obj |-> o, size |-> z, bdesc |-> loc.bdesc, prev |-> loc.prev]
  BY <1>0, <1>2 DEF TypeOK, Locals
<1>4. Sizes = 1 .. Len(CHUNKS) /\ Len(CHUNKS) \in Nat /\ o.size \in Sizes /\ o.page \in Pages
  BY <1>2, SizesAre DEF Chunks
<1>5. o \in Out
  BY <1>0, <1>1, OutIs
<1>6. DOMAIN list = 1 .. Len(list) /\ Len(list) \in Nat /\ Distinct(list)
  BY <1>0, <1>2, <1>3 DEF ListInv
<1>7. CASE Found
  <2>1. pc' = "found" /\ UNCHANGED <<loc, panicked>>
    BY <1>7 DEF Walk
  <2>2. Out' = Out
    BY <1>1, <2>1 DEF Out
  <2>3. TypeOK'
    BY <1>0, <1>1, <2>1 DEF TypeOK
  <2>4. z = o.size /\ Has(list, loc.bdesc) /\ page[loc.bdesc] = o.page
    BY <1>1, <1>7, FoundIs
  <2>5. FreeInv'
    BY <1>1, <1>2, <2>1, <2>4 DEF FreeInv
  <2>6. ListInv' /\ PageInv' /\ ChunkInv'
    BY <1>1, <2>2, <2>3, SearchSteps
  <2>. QED
    BY <2>3, <2>5, <2>6 DEF IInv
<1>8. ASSUME pc' = pc, panicked' = panicked, NEW y \in Sizes, y =< o.size, NEW b, NEW q \in Descs \union {NULL},
             loc' = [obj |-> o, size |-> y, bdesc |-> b, prev |-> q],
             b \in Descs \union {NULL}, b # NULL => Has(chain[y], b),
             y = o.size => \E i, j \in DOMAIN chain[y] :
                              i =< j /\ chain[y][i] = b /\ page[chain[y][j]] = o.page
      PROVE  IInv'
  <2>1. loc'.obj = o /\ loc'.size = y /\ loc'.bdesc = b
    BY <1>8
  <2>2. Out' = Out
    BY <1>1, <1>8, <2>1 DEF Out
  <2>3. TypeOK'
    <3>1. loc' \in Locals
      BY <1>2, <1>8 DEF Locals
    <3>. QED
      BY <1>0, <1>1, <1>8, <3>1 DEF TypeOK
  <2>4. loc' # NoLoc
    <3>1. o.page # 0
      BY <1>4, PagesAre
    <3>2. NoLoc.obj.page = 0
      BY DEF NoLoc
    <3>. QED
      BY <2>1, <3>1, <3>2
  <2>5. y = o.size => Ahead'
    BY <1>1, <1>8, <2>1 DEF Ahead
  <2>6. FreeInv'
    BY <1>1, <1>2, <1>8, <2>1, <2>4, <2>5 DEF FreeInv
  <2>7. ListInv' /\ PageInv' /\ ChunkInv'
    BY <1>1, <2>2, <2>3, SearchSteps
  <2>. QED
    BY <2>3, <2>6, <2>7 DEF IInv
<1>9. CASE ~Found /\ loc.bdesc # NULL
  <2>. DEFINE b == After(list, loc.bdesc)
  <2>1. loc' = [loc EXCEPT !.bdesc = b, !.prev = loc.bdesc] /\ UNCHANGED <<pc, panicked>>
    BY <1>9 DEF Walk
  <2>2. loc' = [obj |-> o, size |-> z, bdesc |-> b, prev |-> loc.bdesc]
    BY <1>3, <2>1
  <2>3. \A i \in 1 .. Len(list) : list[i] = loc.bdesc =>
            b = IF i = Len(list) THEN NULL ELSE list[i + 1]
    BY <1>3, <1>6, AfterIs
  <2>. HIDE DEF b
  <2>4. PICK k \in 1 .. Len(list) : list[k] = loc.bdesc
    BY <1>2, <1>6, <1>9 DEF Has
  <2>5. b = IF k = Len(list) THEN NULL ELSE list[k + 1]
    BY <2>3, <2>4
  <2>6. k # Len(list) => k + 1 \in DOMAIN list /\ list[k + 1] \in Descs
    BY <1>3, <1>6
  <2>7. b \in Descs \union {NULL} /\ (b # NULL => Has(list, b))
    BY <2>5, <2>6 DEF Has
  <2>8. ASSUME z = o.size
        PROVE  \E i, j \in DOMAIN list : i =< j /\ list[i] = b /\ page[list[j]] = o.page
    <3>1. PICK i, j \in DOMAIN list : i =< j /\ list[i] = loc.bdesc /\ page[list[j]] = o.page
      BY <1>2, <2>8 DEF Ahead
    <3>2. i # j
      BY <1>9, <3>1 DEF Found
    <3>3. i # Len(list) /\ i + 1 =< j /\ i + 1 \in DOMAIN list
      BY <1>6, <3>1, <3>2
    <3>4. b = list[i + 1]
      BY <1>6, <2>3, <3>1, <3>3
    <3>. QED
      BY <3>1, <3>3, <3>4
  <2>9. loc.bdesc \in Descs \union {NULL} /\ z \in Sizes /\ z =< o.size
    BY <1>2, <1>3
  <2>. HIDE DEF z, o
  <2>. QED
    BY <1>8, <2>1, <2>2, <2>7, <2>8, <2>9 DEF list
<1>10. CASE ~Found /\ loc.bdesc = NULL
  <2>1. z # o.size
    <3>1. ASSUME z = o.size PROVE FALSE
      <4>1. PICK i \in DOMAIN list : list[i] = loc.bdesc
        BY <1>2, <3>1 DEF Ahead
      <4>2. list[i] \in Descs
        BY <1>3, <4>1
      <4>. QED
        BY <1>10, <4>1, <4>2, NullIsNone
    <3>. QED
      BY <3>1
  <2>2. z + 1 \in Sizes /\ z + 1 =< o.size /\ z < Len(CHUNKS)
    BY <1>2, <1>4, <2>1
  <2>3. loc' = [loc EXCEPT !.size = @ + 1, !.prev = NULL, !.bdesc = First(chain[loc.size + 1])]
        /\ UNCHANGED <<pc, panicked>>
    BY <1>10, <2>2 DEF Walk
  <2>. DEFINE b == First(chain[z + 1])
  <2>4. loc' = [obj |-> o, size |-> z + 1, bdesc |-> b, prev |-> NULL]
    BY <1>3, <2>3
  <2>5. chain[z + 1] \in Seq(Descs)
    BY <1>0, <2>2 DEF TypeOK
  <2>6. b \in Descs \union {NULL} /\ (b # NULL => Has(chain[z + 1], b))
    BY <2>5, FirstIs
  <2>7. ASSUME z + 1 = o.size
        PROVE  \E i, j \in DOMAIN chain[z + 1] :
                  i =< j /\ chain[z + 1][i] = b /\ page[chain[z + 1][j]] = o.page
    BY <1>0, <1>4, <1>5, <2>7, AheadAtFirst
  <2>. HIDE DEF z, o, b
  <2>. QED
    BY <1>8, <2>2, <2>3, <2>4, <2>6, <2>7
<1>. QED
  BY <1>7, <1>9, <1>10

(***************************************************************************)
(* The theorems.                                                           *)
(***************************************************************************)
LEMMA InitInv == Init => IInv
<1>. SUFFICES ASSUME Init PROVE IInv
  OBVIOUS
<1>1. /\ mem_map = [g \in Pages |-> 0] /\ chain = [s \in Sizes |-> <<>>] /\ free_bucket_desc = <<>>
      /\ page = [d \in Descs |-> 0] /\ freeptr = [d \in Descs |-> <<>>] /\ refcnt = [d \in Descs |-> 0]
      /\ live = {} /\ pc = "idle" /\ loc = NoLoc /\ panicked = FALSE
  BY DEF Init
<1>2. NoLoc \in Locals
  BY DEF NoLoc, Locals, NoObj
<1>3. TypeOK
  BY <1>1, <1>2, FS_EmptySet DEF TypeOK
<1>4. \A d : ~Has(<<>>, d)
  BY DEF Has
<1>5. \A s \in Sizes, d \in Descs : ~Has(chain[s], d)
  BY <1>1, <1>4
<1>6. \A d \in Descs : ~Bucket(d) /\ ~Described(d)
  BY <1>1, <1>4, <1>5 DEF Bucket, Described
<1>7. Distinct(<<>>)
  BY DEF Distinct
<1>8. ListInv
  BY <1>1, <1>5, <1>6, <1>7 DEF ListInv
<1>9. PageInv
  BY <1>1, <1>6 DEF PageInv
<1>10. Out = {}
  BY <1>1 DEF Out
<1>11. ChunkInv
  BY <1>5, <1>10 DEF ChunkInv
<1>12. FreeInv
  BY <1>1 DEF FreeInv
<1>. QED
  BY <1>3, <1>8, <1>9, <1>11, <1>12 DEF IInv

LEMMA NextInv == IInv /\ [Next]_vars => IInv'
<1>. SUFFICES ASSUME IInv, [Next]_vars PROVE IInv'
  OBVIOUS
<1>0. TypeOK /\ ListInv /\ PageInv /\ ChunkInv /\ FreeInv
  BY DEF IInv
<1>1. CASE Malloc
  BY <1>0, <1>1, MallocIs, ReuseStep, OpenStep
<1>2. CASE free_s
  BY <1>2, FreeStep
<1>3. CASE Walk
  BY <1>3, WalkStep
<1>4. CASE FreeChunk
  <2>1. loc.bdesc \in Descs
    <3>1. loc.size \in Sizes /\ Has(chain[loc.size], loc.bdesc)
      BY <1>0, <1>4 DEF FreeChunk, FreeInv
    <3>2. chain[loc.size] \in Seq(Descs)
      BY <1>0, <3>1 DEF TypeOK
    <3>. QED
      BY <3>1, <3>2 DEF Has
  <2>. QED
    BY <1>4, <2>1, FreeChunkIs, KeepStep, LeaveStep
<1>5. CASE UNCHANGED vars
  <2>1. UNCHANGED <<mem_map, chain, free_bucket_desc, page, freeptr, refcnt, live, pc, loc, panicked>>
    BY <1>5 DEF vars, descs, walk
  <2>2. TypeOK'
    BY <1>0, <2>1 DEF TypeOK
  <2>3. Out' = Out
    BY <2>1 DEF Out
  <2>4. ListInv' /\ PageInv' /\ ChunkInv'
    BY <2>1, <2>2, <2>3, SearchSteps
  <2>5. FreeInv'
    BY <1>0, <2>1 DEF FreeInv, Ahead
  <2>. QED
    BY <2>2, <2>4, <2>5 DEF IInv
<1>. QED
  BY <1>1, <1>2, <1>3, <1>4, <1>5 DEF Next

(* The inductive invariant: descriptors and pages have one owner each,     *)
(* every chunk is on its bucket's list or handed out, and while free_s     *)
(* searches, the bucket it looks for is still ahead of it.                 *)
THEOREM IInvCorrect == Spec => []IInv
<1>. QED
  BY InitInv, NextInv, PTL DEF Spec

(* free_s finds the bucket of every object, looks prev up again with       *)
(* success when a handler has put a bucket in front, and frees a page in   *)
(* use: neither it nor free_page panics (lib/malloc.c, mm/memory.c).       *)
THEOREM NeverPanicsCorrect == Spec => []NeverPanics
<1>1. IInv => NeverPanics
  BY DEF IInv, TypeOK, NeverPanics
<1>. QED
  BY <1>1, IInvCorrect, PTL

(* A list without repetition has as many elements as places.               *)
LEMMA DistinctCount ==
    ASSUME NEW list \in Seq(Nat), Distinct(list)
    PROVE  Cardinality(Range(list)) = Len(list)
<1>1. Len(list) \in Nat /\ DOMAIN list = 1 .. Len(list)
  OBVIOUS
<1>2. list \in [1 .. Len(list) -> Range(list)]
  BY <1>1 DEF Range
<1>3. IsInjective(list)
  BY DEF IsInjective, Distinct
<1>4. \A y \in Range(list) : \E k \in 1 .. Len(list) : list[k] = y
  BY <1>1 DEF Range
<1>5. list \in Bijection(1 .. Len(list), Range(list))
  BY <1>2, <1>3, <1>4 DEF Bijection, Injection, Surjection
<1>6. ExistsBijection(1 .. Len(list), Range(list))
  BY <1>5 DEF ExistsBijection
<1>. QED
  BY <1>1, <1>6, FS_CountingElements

LEMMA HasRange == \A list, x : Has(list, x) <=> x \in Range(list)
BY DEF Has, Range

LEMMA InvMatches == IInv => MemoryMatches
<1>. SUFFICES ASSUME IInv PROVE MemoryMatches
  OBVIOUS
<1>0. TypeOK /\ ListInv /\ PageInv /\ ChunkInv /\ FreeInv
  BY DEF IInv
<1>1. chain \in [Sizes -> Seq(Descs)] /\ free_bucket_desc \in Seq(Descs) /\ freeptr \in [Descs -> Seq(Nat)]
  BY <1>0 DEF TypeOK
<1>2. \A d : d \in InChains <=> d \in Descs /\ Bucket(d)
  <2>1. ASSUME NEW d, d \in InChains PROVE d \in Descs /\ Bucket(d)
    <3>1. PICK s \in Sizes : d \in Range(chain[s])
      BY <2>1 DEF InChains
    <3>2. chain[s] \in Seq(Descs) /\ Has(chain[s], d)
      BY <1>1, <3>1, HasRange
    <3>. QED
      BY <3>2 DEF Has, Bucket
  <2>2. ASSUME NEW d, Bucket(d) PROVE d \in InChains
    <3>1. PICK s \in Sizes : Has(chain[s], d)
      BY <2>2 DEF Bucket
    <3>2. d \in Range(chain[s])
      BY <3>1, HasRange
    <3>. QED
      BY <3>2 DEF InChains
  <2>. QED
    BY <2>1, <2>2
<1>3. ASSUME NEW d \in Descs, Bucket(d)
      PROVE  {o \in live \union {loc.obj} : o.page = page[d]} = OutOf(d)
  <2>1. CASE pc = "idle"
    <3>1. loc.obj.page = 0
      BY <1>0, <2>1 DEF FreeInv, NoLoc
    <3>2. page[d] \in Pages /\ 0 \notin Pages
      BY <1>0, <1>3, PagesAre DEF PageInv
    <3>. QED
      BY <2>1, <3>1, <3>2 DEF OutOf, Out
  <2>2. CASE pc # "idle"
    BY <2>2 DEF OutOf, Out
  <2>. QED
    BY <2>1, <2>2
<1>4. \A d, e \in InChains : page[d] = page[e] => d = e
  BY <1>0, <1>2 DEF PageInv
<1>. DEFINE inUse == {g \in Pages : mem_map[g] # 0}
            described == {d.at : d \in InChains \union Range(free_bucket_desc)}
            buckets == {page[d] : d \in InChains}
<1>5. \A d : d \in InChains \union Range(free_bucket_desc) <=> d \in Descs /\ Described(d)
  <2>1. \A d : d \in Range(free_bucket_desc) <=> d \in Descs /\ Has(free_bucket_desc, d)
    <3>1. \A d : Has(free_bucket_desc, d) => d \in Descs
      BY <1>1 DEF Has
    <3>. QED
      BY <3>1, HasRange
  <2>. QED
    BY <1>2, <2>1 DEF Described
<1>6. \A g : g \in described <=> \E d \in Descs : Described(d) /\ d.at = g
  BY <1>5
<1>7. \A g : g \in buckets <=> \E d \in Descs : Bucket(d) /\ page[d] = g
  BY <1>2
<1>8. \A g : g \in inUse <=> g \in Pages /\ mem_map[g] = 1
  BY <1>0 DEF TypeOK
<1>. HIDE DEF inUse, described, buckets
<1>9. \A d \in Descs : d.at \in Pages
  BY DEF Descs
<1>10. \A g : g \in inUse <=> g \in described \union buckets
  BY <1>0, <1>6, <1>7, <1>8, <1>9 DEF PageInv
<1>11. \A g : ~(g \in described /\ g \in buckets)
  BY <1>0, <1>6, <1>7 DEF PageInv
<1>12. inUse = described \union buckets /\ described \intersect buckets = {}
  BY <1>10, <1>11
<1>13. \A s \in Sizes : \A k \in DOMAIN chain[s] :
          LET d == chain[s][k]
              out == {o \in live \union {loc.obj} : o.page = page[d]}
          IN  /\ refcnt[d] = Cardinality(out) /\ refcnt[d] > 0
              /\ \A o \in out : o.size = s /\ o.n \notin Range(freeptr[d])
              /\ Len(freeptr[d]) + refcnt[d] = CHUNKS[s]
              /\ Cardinality(Range(freeptr[d])) = Len(freeptr[d])
  <2>. TAKE s \in Sizes
  <2>. TAKE k \in DOMAIN chain[s]
  <2>. DEFINE d == chain[s][k]
              out == {o \in live \union {loc.obj} : o.page = page[d]}
  <2>1. d \in Descs /\ Has(chain[s], d)
    BY <1>1 DEF Has
  <2>2. out = OutOf(d)
    BY <1>3, <2>1 DEF Bucket
  <2>3. Shared(s, freeptr[d], refcnt[d], OutOf(d))
    BY <1>0, <2>1 DEF ChunkInv
  <2>4. Cardinality(Range(freeptr[d])) = Len(freeptr[d])
    BY <1>1, <2>1, <2>3, DistinctCount DEF Shared
  <2>. HIDE DEF d, out
  <2>5. /\ refcnt[d] = Cardinality(out) /\ refcnt[d] > 0
        /\ \A o \in out : o.size = s /\ o.n \notin Range(freeptr[d])
        /\ Len(freeptr[d]) + refcnt[d] = CHUNKS[s]
    BY <2>2, <2>3, HasRange DEF Shared
  <2>. QED
    BY <2>4, <2>5 DEF d, out
<1>14. LET inUse_ == {g \in Pages : mem_map[g] # 0}
           described_ == {d.at : d \in InChains \union Range(free_bucket_desc)}
           buckets_ == {page[d] : d \in InChains}
       IN  inUse_ = described_ \union buckets_ /\ described_ \intersect buckets_ = {}
  BY <1>12 DEF inUse, described, buckets
<1>. QED
  BY <1>4, <1>13, <1>14 DEF MemoryMatches

(* Chunks, descriptors and pages have one owner each: a chunk of a bucket  *)
(* is on its free list or handed out, once, refcnt counts those handed     *)
(* out, and the pages in use are those of buckets with something handed    *)
(* out and those of descriptors (lib/malloc.c, mm/memory.c).               *)
THEOREM MemoryMatchesCorrect == Spec => []MemoryMatches
<1>. QED
  BY InvMatches, IInvCorrect, PTL
=============================================================================
