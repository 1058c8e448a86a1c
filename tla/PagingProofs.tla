---------------------------- MODULE PagingProofs ----------------------------
(***************************************************************************)
(* Theorems about CursorPaging, for any walkers, entries, page sizes, host *)
(* and bounds: what a walk delivers of a listing that grows, shrinks or    *)
(* stays as it is.                                                         *)
(***************************************************************************)
EXTENDS CursorPaging, FiniteSetTheorems, TLAPS

\* The order of a listing by weights v, and an entry's rank in listing S.
Ahead(op, v, d, e) == IF op = "search" /\ v[d] # v[e] THEN v[d] > v[e] ELSE d < e
RankIn(S, op, v, e) == Cardinality({d \in S : Ahead(op, v, d, e)})

\* The entries of S whose ranks are from n on, at most k of them.
PageOf(S, op, v, n, k) == {e \in S : RankIn(S, op, v, e) \in n..(n + k - 1)}

\* Entries, weighed by integers.
Weighed(S, v) == S \subseteq Entries /\ \A e \in S : v[e] \in Int

-----------------------------------------------------------------------------
(* Ranks.                                                                  *)

\* A set of entries is finite.
LEMMA EntriesFinite ==
    ASSUME NEW S, S \subseteq Entries
    PROVE  IsFiniteSet(S) /\ Cardinality(S) \in Nat
<1>1. IsFiniteSet(S)
    BY PagingAssumption, FS_Subset
<1> QED
    BY <1>1, FS_CardinalityType

\* The order of a listing is strict and total.
LEMMA AheadOrder ==
    ASSUME NEW S, NEW op, NEW v, Weighed(S, v), NEW c \in S, NEW d \in S, NEW e \in S
    PROVE  /\ ~Ahead(op, v, e, e)
           /\ d # e => Ahead(op, v, d, e) \/ Ahead(op, v, e, d)
           /\ Ahead(op, v, c, d) /\ Ahead(op, v, d, e) => Ahead(op, v, c, e)
<1>1. /\ c \in Int /\ d \in Int /\ e \in Int
      /\ v[c] \in Int /\ v[d] \in Int /\ v[e] \in Int
  <2>1. Entries \subseteq Nat
      BY PagingAssumption
  <2> QED
      BY <2>1 DEF Weighed
<1>2. CASE op = "search"
    BY <1>1, <1>2 DEF Ahead
<1>3. CASE op # "search"
    BY <1>1, <1>3 DEF Ahead
<1> QED
    BY <1>2, <1>3

\* A rank is a number below that of entries.
LEMMA RankType ==
    ASSUME NEW S, NEW op, NEW v, Weighed(S, v), NEW e
    PROVE  /\ RankIn(S, op, v, e) \in Nat
           /\ e \in S => RankIn(S, op, v, e) < Cardinality(S)
<1> DEFINE L == {d \in S : Ahead(op, v, d, e)}
<1>1. /\ IsFiniteSet(S) /\ Cardinality(S) \in Nat
      /\ IsFiniteSet(L) /\ Cardinality(L) \in Nat /\ L \in SUBSET S
    BY EntriesFinite DEF Weighed
<1>2. e \in S => L # S
    BY AheadOrder
<1>3. Cardinality(L) <= Cardinality(S) /\ (Cardinality(S) = Cardinality(L) => S = L)
    BY <1>1, FS_Subset
<1> QED
    BY <1>1, <1>2, <1>3 DEF RankIn

\* Whoever is ahead has the smaller rank.
LEMMA RankGrows ==
    ASSUME NEW S, NEW op, NEW v, Weighed(S, v), NEW d \in S, NEW e \in S, Ahead(op, v, d, e)
    PROVE  RankIn(S, op, v, d) < RankIn(S, op, v, e)
<1> DEFINE L == {c \in S : Ahead(op, v, c, d)}
           M == {c \in S : Ahead(op, v, c, e)}
<1>1. L \in SUBSET M
    BY AheadOrder
<1>2. d \in M /\ d \notin L
    BY AheadOrder
<1>3. IsFiniteSet(M) /\ Cardinality(M) \in Nat /\ Cardinality(L) \in Nat
    BY EntriesFinite DEF Weighed
<1>4. Cardinality(L) <= Cardinality(M) /\ (Cardinality(M) = Cardinality(L) => M = L)
    BY <1>1, <1>3, FS_Subset
<1> QED
    BY <1>2, <1>3, <1>4 DEF RankIn

\* Two entries have two ranks.
LEMMA RankInjective ==
    ASSUME NEW S, NEW op, NEW v, Weighed(S, v), NEW d \in S, NEW e \in S,
           RankIn(S, op, v, d) = RankIn(S, op, v, e)
    PROVE  d = e
<1>1. RankIn(S, op, v, d) \in Nat
    BY RankType
<1> QED
    BY <1>1, AheadOrder, RankGrows

\* Every number below that of entries is some entry's rank.
EveryRank(S, op, v) ==
    \A n \in Nat : n < Cardinality(S) => \E e \in S : RankIn(S, op, v, e) = n

LEMMA RankOnto == ASSUME NEW S, NEW op, NEW v, Weighed(S, v) PROVE EveryRank(S, op, v)
<1> SUFFICES ASSUME NEW n \in Nat, n < Cardinality(S)
             PROVE  \E e \in S : RankIn(S, op, v, e) = n
    BY DEF EveryRank
<1> DEFINE size == Cardinality(S)
           T == 0..(size - 1)
           f == [e \in S |-> RankIn(S, op, v, e)]
<1>1. IsFiniteSet(S) /\ size \in Nat
    BY EntriesFinite DEF Weighed
<1>2. \A e \in S : RankIn(S, op, v, e) \in Nat /\ RankIn(S, op, v, e) < size
    BY RankType
<1>3. \A d, e \in S : f[d] = f[e] => d = e
    BY RankInjective
<1> HIDE DEF size
<1>4. f \in [S -> T]
    BY <1>1, <1>2
<1>5. f \in Injection(S, T)
    BY <1>3, <1>4 DEF Injection, IsInjective
<1>6. size - 1 \in Int /\ (IF 0 > size - 1 THEN 0 ELSE size - 1 - 0 + 1) = size
    BY <1>1
<1>7. IsFiniteSet(T) /\ Cardinality(T) = size
    BY <1>6, FS_Interval
<1>8. Cardinality(T) = Cardinality(S)
    BY <1>7 DEF size
<1>9. n \in T
    BY <1>1 DEF size
<1> HIDE DEF T, f
<1>10. f \in Surjection(S, T)
    BY <1>5, <1>7, <1>8, FS_Injection
<1>11. \E e \in S : f[e] = n
    BY <1>9, <1>10 DEF Surjection
<1> QED
    BY <1>11 DEF f

\* A page holds no more than its limit, and as many as its ranks go up.
LEMMA PageRanks ==
    ASSUME NEW S, NEW op, NEW v, Weighed(S, v), NEW n \in Nat, NEW k \in Nat
    PROVE  /\ Cardinality(PageOf(S, op, v, n, k)) \in 0..k
           /\ \A e \in PageOf(S, op, v, n, k) :
                RankIn(S, op, v, e) < n + Cardinality(PageOf(S, op, v, n, k))
<1> DEFINE page == PageOf(S, op, v, n, k)
           rank == [e \in S |-> RankIn(S, op, v, e)]
<1>0. \A e \in S : rank[e] \in Nat /\ rank[e] = RankIn(S, op, v, e) /\ rank[e] < Cardinality(S)
    BY RankType
<1>1. /\ page \subseteq S
      /\ \A e \in S : e \in page <=> rank[e] \in n..(n + k - 1)
    BY DEF PageOf
<1> HIDE DEF page
<1>2. IsFiniteSet(page) /\ Cardinality(page) \in Nat /\ Cardinality(S) \in Nat
    BY <1>1, EntriesFinite DEF Weighed
<1>3. Cardinality(page) <= k
  <2> DEFINE T == n..(n + k - 1)
             f == [e \in page |-> rank[e]]
  <2>1. f \in [page -> T]
      BY <1>1
  <2>2. \A d, e \in page : f[d] = f[e] => d = e
      BY <1>0, <1>1, RankInjective
  <2>3. f \in Injection(page, T)
      BY <2>1, <2>2 DEF Injection, IsInjective
  <2>4. IsFiniteSet(T) /\ Cardinality(T) = k
      BY FS_Interval
  <2> HIDE DEF T, f
  <2> QED
      BY <2>3, <2>4, FS_Injection
<1>6. EveryRank(S, op, v)
    BY RankOnto
<1>7. \A m \in Nat : m < Cardinality(S) => \E d \in S : rank[d] = m
    BY <1>0, <1>6 DEF EveryRank
<1> HIDE DEF rank
<1>4. ASSUME NEW e \in page PROVE rank[e] < n + Cardinality(page)
  <2> DEFINE T == n..rank[e]
             U == {d \in page : rank[d] <= rank[e]}
             f == [d \in U |-> rank[d]]
  <2>1. e \in S /\ rank[e] \in n..(n + k - 1) /\ rank[e] \in Nat
      BY <1>0, <1>1, <1>4
  <2>2. f \in [U -> T]
      BY <1>0, <1>1, <2>1
  <2>3. ASSUME NEW m \in T PROVE \E d \in U : f[d] = m
    <3>1. m \in Nat /\ m < Cardinality(S)
        BY <1>0, <1>2, <2>1
    <3>2. PICK d \in S : rank[d] = m
        BY <1>7, <3>1
    <3>3. d \in U
        BY <1>1, <2>1, <3>2
    <3> QED
        BY <3>2, <3>3
  <2>4. f \in Surjection(U, T)
      BY <2>2, <2>3 DEF Surjection
  <2>5. IsFiniteSet(U) /\ Cardinality(U) \in Nat /\ U \in SUBSET page
      BY <1>1, EntriesFinite DEF Weighed
  <2>6. Cardinality(T) = rank[e] - n + 1
      BY <2>1, FS_Interval
  <2> HIDE DEF T, U, f
  <2>7. Cardinality(T) <= Cardinality(U)
      BY <2>4, <2>5, FS_Surjection
  <2>8. Cardinality(U) <= Cardinality(page)
      BY <1>2, <2>5, FS_Subset
  <2> QED
      BY <1>2, <2>1, <2>5, <2>6, <2>7, <2>8
<1>5. \A e \in page : RankIn(S, op, v, e) < n + Cardinality(page)
    BY <1>0, <1>1, <1>4
<1> QED
    BY <1>2, <1>3, <1>5 DEF page

\* Fewer entries, of the same weights, leave a smaller rank.
LEMMA RankMonotone ==
    ASSUME NEW S, NEW T, S \subseteq T, T \subseteq Entries, NEW op, NEW v, NEW u, NEW e,
           op = "search" => v[e] = u[e] /\ \A d \in S : v[d] = u[d]
    PROVE  RankIn(S, op, v, e) <= RankIn(T, op, u, e)
<1> DEFINE L == {d \in S : Ahead(op, v, d, e)}
           M == {d \in T : Ahead(op, u, d, e)}
<1>1. L \in SUBSET M
    BY DEF Ahead
<1>2. IsFiniteSet(M)
    BY EntriesFinite
<1> QED
    BY <1>1, <1>2, FS_Subset DEF RankIn

-----------------------------------------------------------------------------
(* The inductive invariant.                                                *)

\* The types of all variables: of the vault, the bounds and the cursors, the
\* requests, and the histories.
VaultTypes == weight \in [Entries -> -1..MaxWeight] /\ unreadable \subseteq Entries

UsedTypes ==
    used \in [host : 0..MaxHostOps, restarts : 0..MaxRestarts,
              lost : 0..MaxLost, mistakes : 0..MaxMistakes]

CursorTypes ==
    /\ UsedTypes
    /\ token = used.restarts
    /\ \A c \in minted : c.n \in 0..MaxCursorOffset /\ c.key \in 0..token
    /\ cursor \in [Walkers -> minted \union {None}]
    /\ answer \in [Walkers -> {"none", "page"} \union Errors]

RowTypes ==
    /\ DOMAIN rows = Walkers
    /\ \A w \in Walkers :
         /\ DOMAIN rows[w] \subseteq Entries
         /\ \A e \in DOMAIN rows[w] : rows[w][e] \in 0..MaxWeight

RequestTypes ==
    /\ pc \in [Walkers -> {"idle", "scan", "done"}]
    /\ offset \in [Walkers -> 0..MaxCursorOffset]
    /\ limit \in [Walkers -> 1..MaxLimit]
    /\ names \in [Walkers -> SUBSET Entries]
    /\ RowTypes

HistoryTypes ==
    /\ got \in [Walkers -> [Entries -> Nat]]
    /\ atStart \in [Walkers -> SUBSET Entries]
    /\ changes \in [Walkers -> SUBSET Changes]

PagingTypes == VaultTypes /\ CursorTypes /\ RequestTypes /\ HistoryTypes

\* A scan starts where the walk has come to, and finds an entry once.
Orderly(w) ==
    /\ pc[w] = "scan" => offset[w] = IF cursor[w] = None THEN 0 ELSE cursor[w].n
    /\ pc[w] # "scan" => names[w] = {} /\ DOMAIN rows[w] = {}
    /\ names[w] \intersect DOMAIN rows[w] = {}

\* A walk with pages behind it or a request running, and the ranks it has done.
Begun(w) == pc[w] = "scan" \/ (pc[w] = "idle" /\ cursor[w] # None)
Reached(w) == IF cursor[w] = None THEN 0 ELSE cursor[w].n

\* The listing now; and the one a running scan comes to if nothing changes any
\* more, with the weights it has then.
Listing(w) == {e \in Entries : Lists(Operation[w], e)}
Found(w) == DOMAIN rows[w] \union
    (IF pc[w] = "scan" THEN Listing(w) \intersect names[w] ELSE Listing(w))
Weights(w) ==
    [e \in Entries |-> IF e \in DOMAIN rows[w] THEN rows[w][e] ELSE weight[e]]
RankOf(w, e) == RankIn(Found(w), Operation[w], Weights(w), e)

\* Entries only appear: none of the first listing is lost to the scan, and one
\* that is still to be delivered is not yet passed.
Grows(w) == changes[w] \subseteq Harmless(w) \union {"create", "show"} =>
    /\ Begun(w) =>
         /\ atStart[w] \subseteq Found(w) /\ Found(w) \subseteq Listing(w)
         /\ Operation[w] = "search" => \A e \in Found(w) : Weights(w)[e] = weight[e]
         /\ \A e \in atStart[w] : got[w][e] = 0 => RankOf(w, e) >= Reached(w)
    /\ pc[w] = "done" => \A e \in atStart[w] : got[w][e] >= 1

\* Entries only disappear: the scan finds none beside the first listing, and
\* one that was delivered is passed.
Shrinks(w) == changes[w] \subseteq Harmless(w) \union {"delete", "hide"} =>
    /\ \A e \in Entries : got[w][e] <= 1 /\ (got[w][e] >= 1 => e \in atStart[w])
    /\ Begun(w) =>
         /\ Listing(w) \subseteq Found(w) /\ Found(w) \subseteq atStart[w]
         /\ Operation[w] = "search" => \A e \in Listing(w) : Weights(w)[e] = weight[e]
         /\ \A e \in Found(w) : got[w][e] >= 1 => RankOf(w, e) < Reached(w)

PagingInv ==
    PagingTypes /\ \A w \in Walkers : Orderly(w) /\ Grows(w) /\ Shrinks(w)

-----------------------------------------------------------------------------
(* Type correctness.                                                       *)

\* The page of a request, and what is known of its ranks.
LEMMA WindowIsPage ==
    ASSUME RequestTypes, NEW w \in Walkers
    PROVE  /\ Weighed(DOMAIN rows[w], rows[w])
           /\ Window(w) = PageOf(DOMAIN rows[w], Operation[w], rows[w], offset[w], limit[w])
           /\ offset[w] \in Nat /\ limit[w] \in Nat
           /\ Cardinality(Window(w)) \in 0..limit[w]
           /\ Cardinality(DOMAIN rows[w]) \in Nat
           /\ NextOffset(w) \in Nat
<1>1. /\ offset[w] \in Nat /\ limit[w] \in Nat
      /\ DOMAIN rows[w] \subseteq Entries
    BY PagingAssumption DEF RequestTypes, RowTypes
<1>2. \A e \in DOMAIN rows[w] : rows[w][e] \in Int
    BY PagingAssumption DEF RequestTypes, RowTypes
<1>3. Weighed(DOMAIN rows[w], rows[w])
    BY <1>1, <1>2 DEF Weighed
<1>4. \A e : Position(w, e) = RankIn(DOMAIN rows[w], Operation[w], rows[w], e)
    BY DEF Position, RankIn, Before, Ahead
<1>5. Window(w) = PageOf(DOMAIN rows[w], Operation[w], rows[w], offset[w], limit[w])
    BY <1>4 DEF Window, PageOf
<1>6. Cardinality(Window(w)) \in 0..limit[w]
    BY <1>1, <1>3, <1>5, PageRanks
<1>7. Cardinality(DOMAIN rows[w]) \in Nat
    BY <1>1, EntriesFinite
<1> QED
    BY <1>1, <1>3, <1>5, <1>6, <1>7 DEF NextOffset

LEMMA InitPagingTypes == Init => PagingTypes
<1> SUFFICES ASSUME Init PROVE PagingTypes
    OBVIOUS
<1>1. VaultTypes
    BY DEF Init, VaultTypes
<1>2. CursorTypes
    BY PagingAssumption DEF Init, CursorTypes, UsedTypes
<1>3. RowTypes
    BY DEF Init, RowTypes, NoRows
<1>4. RequestTypes
    BY <1>3, PagingAssumption DEF Init, RequestTypes
<1>5. HistoryTypes
    BY DEF Init, HistoryTypes, NothingYet
<1> QED
    BY <1>1, <1>2, <1>4, <1>5 DEF PagingTypes

\* What Forget leaves of a request has its type.
LEMMA ForgetTypes ==
    ASSUME RequestTypes, NEW W, Forget(W), pc' \in [Walkers -> {"idle", "scan", "done"}]
    PROVE  RequestTypes'
<1>1. DOMAIN rows' = Walkers /\ \A w \in Walkers : rows'[w] = NoRows \/ rows'[w] = rows[w]
    BY DEF Forget
<1>2. DOMAIN NoRows = {}
    BY DEF NoRows
<1>3. RowTypes'
    BY <1>1, <1>2 DEF RequestTypes, RowTypes
<1> QED
    BY <1>3, PagingAssumption DEF Forget, RequestTypes

\* A request that starts has a valid limit, and an offset a cursor can hold.
LEMMA StartTypes ==
    ASSUME RequestTypes, NEW w \in Walkers, NEW c, NEW n \in Limits, Start(w, c, n)
    PROVE  RequestTypes'
<1>1. EffectiveLimit(w, n) \in 1..MaxLimit
    BY PagingAssumption DEF Start, ValidLimit, EffectiveLimit
<1>2. (IF c = None THEN 0 ELSE c.n) \in 0..MaxCursorOffset
    BY PagingAssumption DEF Start, Decodes
<1>3. Present \subseteq Entries
    BY DEF Present
<1>4. DOMAIN rows' = Walkers /\ \A u \in Walkers : rows'[u] = NoRows \/ rows'[u] = rows[u]
    BY DEF Start, RequestTypes, RowTypes
<1>5. DOMAIN NoRows = {}
    BY DEF NoRows
<1>6. RowTypes'
    BY <1>4, <1>5 DEF RequestTypes, RowTypes
<1>7. offset' \in [Walkers -> 0..MaxCursorOffset] /\ limit' \in [Walkers -> 1..MaxLimit]
    BY <1>1, <1>2 DEF Start, RequestTypes
<1>8. names' \in [Walkers -> SUBSET Entries]
    BY <1>3 DEF Start, RequestTypes
<1>9. pc' \in [Walkers -> {"idle", "scan", "done"}]
    BY DEF Start, RequestTypes
<1> QED
    BY <1>6, <1>7, <1>8, <1>9 DEF RequestTypes

\* A new walk or page leaves the vault and the cursors as they are.
LEMMA StartKeeps ==
    ASSUME VaultTypes, CursorTypes, NEW w, NEW c, NEW n, Start(w, c, n), UNCHANGED used
    PROVE  VaultTypes' /\ CursorTypes'
<1>1. UNCHANGED <<weight, unreadable, token, cursor, answer, minted>>
    BY DEF Start
<1> QED
    BY <1>1 DEF VaultTypes, CursorTypes, UsedTypes

LEMMA RestartTypes ==
    ASSUME PagingTypes, NEW w \in Walkers, NEW c, Restart(w, c),
           UsedTypes', used'.restarts = used.restarts
    PROVE  PagingTypes'
<1>1. VaultTypes'
    BY DEF Restart, PagingTypes, VaultTypes
<1>2. CursorTypes'
    BY DEF Restart, Errors, PagingTypes, CursorTypes
<1>3. pc' \in [Walkers -> {"idle", "scan", "done"}] /\ Forget({w})
    BY DEF Restart, PagingTypes, RequestTypes
<1>4. RequestTypes'
    BY <1>3, ForgetTypes DEF PagingTypes
<1>5. HistoryTypes'
    BY DEF Restart, history, PagingTypes, HistoryTypes
<1> QED
    BY <1>1, <1>2, <1>4, <1>5 DEF PagingTypes

\* A cursor of another listing is never taken for one of this listing.
LEMMA MistakenRestarts ==
    ASSUME NEW w, NEW n, AskMistaken(w, n)
    PROVE  \E c \in minted : Restart(w, c)
BY DEF AskMistaken, Decodes

LEMMA VisitTypes ==
    ASSUME PagingTypes, NEW w \in Walkers, NEW e \in Entries, Visit(w, e)
    PROVE  PagingTypes'
<1>1. Lists(Operation[w], e) => weight[e] \in 0..MaxWeight
  <2>1. weight[e] \in -1..MaxWeight
      BY DEF PagingTypes, VaultTypes
  <2>2. Lists(Operation[w], e) => weight[e] >= 0
      BY DEF Lists, Present
  <2> QED
      BY <2>1, <2>2, PagingAssumption
<1>2. /\ DOMAIN rows' = Walkers
      /\ \A u \in Walkers : u # w => rows'[u] = rows[u]
    BY DEF Visit, PagingTypes, RequestTypes, RowTypes
<1>3. rows'[w] = (IF Lists(Operation[w], e)
                    THEN [d \in DOMAIN rows[w] \union {e} |->
                            IF d = e THEN weight[e] ELSE rows[w][d]]
                    ELSE rows[w])
    BY DEF Visit, PagingTypes, RequestTypes, RowTypes
<1>4. /\ DOMAIN rows'[w] \subseteq Entries
      /\ \A d \in DOMAIN rows'[w] : rows'[w][d] \in 0..MaxWeight
  <2>1. CASE Lists(Operation[w], e)
    <3>1. rows'[w] = [d \in DOMAIN rows[w] \union {e} |->
                        IF d = e THEN weight[e] ELSE rows[w][d]]
        BY <1>3, <2>1
    <3>2. /\ DOMAIN rows[w] \subseteq Entries
          /\ \A d \in DOMAIN rows[w] : rows[w][d] \in 0..MaxWeight
        BY DEF PagingTypes, RequestTypes, RowTypes
    <3> QED
        BY <1>1, <2>1, <3>1, <3>2
  <2>2. CASE ~Lists(Operation[w], e)
      BY <1>3, <2>2 DEF PagingTypes, RequestTypes, RowTypes
  <2> QED
      BY <2>1, <2>2
<1>5. RowTypes'
    BY <1>2, <1>4 DEF PagingTypes, RequestTypes, RowTypes
<1>6. RequestTypes'
    BY <1>5 DEF Visit, PagingTypes, RequestTypes
<1>7. VaultTypes' /\ CursorTypes' /\ HistoryTypes'
    BY DEF Visit, last, history, PagingTypes, VaultTypes, CursorTypes, UsedTypes, HistoryTypes
<1> QED
    BY <1>6, <1>7 DEF PagingTypes

LEMMA AnswerTypes ==
    ASSUME PagingTypes, NEW w \in Walkers, Answer(w)
    PROVE  PagingTypes'
<1>1. HasMore(w) => NextOffset(w) \in 0..MaxCursorOffset
  <2>1. NextOffset(w) \in Nat
      BY WindowIsPage DEF PagingTypes
  <2> QED
      BY <2>1, PagingAssumption DEF Answer, Uncodable
<1>2. ASSUME HasMore(w) PROVE CursorTypes' /\ pc' = [pc EXCEPT ![w] = "idle"]
  <2> DEFINE c == Cursor(w, NextOffset(w))
  <2>1. c.n = NextOffset(w) /\ c.key = token
      BY DEF Cursor
  <2>2. token \in 0..token
      BY PagingAssumption DEF PagingTypes, CursorTypes, UsedTypes
  <2> HIDE DEF c
  <2>3. /\ minted' = minted \union {c} /\ cursor' = [cursor EXCEPT ![w] = c]
        /\ answer' = [answer EXCEPT ![w] = "page"]
        /\ UNCHANGED <<token, used>>
        /\ pc' = [pc EXCEPT ![w] = "idle"]
      BY <1>2 DEF Answer, c
  <2> QED
      BY <1>1, <1>2, <2>1, <2>2, <2>3 DEF PagingTypes, CursorTypes, UsedTypes
<1>3. ASSUME ~HasMore(w) PROVE CursorTypes' /\ pc' = [pc EXCEPT ![w] = "done"]
    BY <1>3 DEF Answer, PagingTypes, CursorTypes, UsedTypes
<1>4. CursorTypes' /\ pc' \in [Walkers -> {"idle", "scan", "done"}]
    BY <1>2, <1>3 DEF PagingTypes, RequestTypes
<1>5. RequestTypes'
    BY <1>4, ForgetTypes DEF Answer, PagingTypes
<1>6. HistoryTypes'
    BY DEF Answer, PagingTypes, HistoryTypes
<1>7. VaultTypes'
    BY DEF Answer, PagingTypes, VaultTypes
<1> QED
    BY <1>4, <1>5, <1>6, <1>7 DEF PagingTypes

LEMMA RotateTypes ==
    ASSUME PagingTypes, RotateToken
    PROVE  PagingTypes'
<1>1. UsedTypes' /\ token' = used'.restarts
    BY PagingAssumption DEF RotateToken, PagingTypes, CursorTypes, UsedTypes
<1>2. token \in Nat /\ token' = token + 1
    BY PagingAssumption DEF RotateToken, PagingTypes, CursorTypes, UsedTypes
<1>3. CursorTypes'
    BY <1>1, <1>2 DEF RotateToken, last, PagingTypes, CursorTypes
<1>4. RequestTypes'
    BY ForgetTypes DEF RotateToken, PagingTypes, RequestTypes
<1> QED
    BY <1>3, <1>4 DEF RotateToken, history, PagingTypes, VaultTypes, HistoryTypes

LEMMA HostTypes ==
    ASSUME PagingTypes, HostStep
    PROVE  PagingTypes'
<1>1. PICK kind \in Changes : Change(kind)
    BY DEF HostStep, HostCreate, HostDelete, HostEdit, HostHide, HostShow, Changes
<1>2. VaultTypes'
  <2>0. MaxWeight \in Nat
      BY PagingAssumption
  <2>1. \A v \in 0..MaxWeight : v \in -1..MaxWeight
      BY <2>0
  <2>2. -1 \in -1..MaxWeight
      BY <2>0
  <2> QED
      BY <2>1, <2>2 DEF HostStep, HostCreate, HostDelete, HostEdit, HostHide, HostShow,
                        Present, PagingTypes, VaultTypes
<1>3. UsedTypes' /\ used'.restarts = used.restarts
  <2>1. MaxHostOps \in Nat
      BY PagingAssumption
  <2> QED
      BY <1>1, <2>1 DEF Change, PagingTypes, CursorTypes, UsedTypes
<1>4. CursorTypes'
    BY <1>1, <1>3 DEF Change, last, PagingTypes, CursorTypes
<1>5. RequestTypes'
    BY <1>1 DEF Change, request, PagingTypes, RequestTypes, RowTypes
<1>6. HistoryTypes'
    BY <1>1 DEF Change, PagingTypes, HistoryTypes
<1> QED
    BY <1>2, <1>4, <1>5, <1>6 DEF PagingTypes

LEMMA RefuseTypes ==
    ASSUME PagingTypes, NEW w \in Walkers, NEW error \in Errors, Refuse(w, error),
           UsedTypes', used'.restarts = used.restarts
    PROVE  PagingTypes'
<1>1. VaultTypes' /\ HistoryTypes'
    BY DEF Refuse, history, PagingTypes, VaultTypes, HistoryTypes
<1>2. CursorTypes'
    BY DEF Refuse, PagingTypes, CursorTypes
<1>3. RequestTypes'
    BY DEF Refuse, request, PagingTypes, RequestTypes, RowTypes
<1> QED
    BY <1>1, <1>2, <1>3 DEF PagingTypes

LEMMA ScanFailsTypes ==
    ASSUME PagingTypes, NEW w \in Walkers, ScanFails(w)
    PROVE  PagingTypes'
<1>1. UsedTypes' /\ used'.restarts = used.restarts
    BY PagingAssumption DEF ScanFails, PagingTypes, CursorTypes, UsedTypes
<1>2. VaultTypes' /\ CursorTypes'
    BY <1>1 DEF ScanFails, last, PagingTypes, VaultTypes, CursorTypes
<1>3. names' \in [Walkers -> SUBSET Entries]
    BY DEF ScanFails, PagingTypes, RequestTypes
<1>4. RequestTypes'
    BY <1>3 DEF ScanFails, PagingTypes, RequestTypes, RowTypes
<1>5. HistoryTypes'
    BY DEF ScanFails, PagingTypes, HistoryTypes, Changes
<1> QED
    BY <1>2, <1>4, <1>5 DEF PagingTypes

LEMMA NextPagingTypes == PagingTypes /\ [Next]_vars => PagingTypes'
<1> SUFFICES ASSUME PagingTypes, [Next]_vars PROVE PagingTypes'
    OBVIOUS
<1>1. ASSUME NEW w \in Walkers, NEW n \in Limits, AskFirst(w, n) PROVE PagingTypes'
  <2>1. Start(w, None, n) /\ UNCHANGED used
      BY <1>1 DEF AskFirst
  <2>2. HistoryTypes'
      BY <1>1 DEF AskFirst, NothingYet, PagingTypes, HistoryTypes
  <2> QED
      BY <2>1, <2>2, StartTypes, StartKeeps DEF PagingTypes
<1>2. ASSUME NEW w \in Walkers, NEW n \in Limits, AskNext(w, n) PROVE PagingTypes'
  <2>1. Start(w, cursor[w], n) /\ UNCHANGED used
      BY <1>2 DEF AskNext
  <2>2. HistoryTypes'
      BY <1>2 DEF AskNext, history, PagingTypes, HistoryTypes
  <2> QED
      BY <2>1, <2>2, StartTypes, StartKeeps DEF PagingTypes
<1>3. ASSUME NEW w \in Walkers, AskExpired(w) PROVE PagingTypes'
    BY <1>3, RestartTypes DEF AskExpired, PagingTypes, CursorTypes, UsedTypes
<1>4. ASSUME NEW w \in Walkers, NEW n \in Limits, AskMistaken(w, n) PROVE PagingTypes'
  <2>1. UsedTypes' /\ used'.restarts = used.restarts
      BY <1>4, PagingAssumption DEF AskMistaken, PagingTypes, CursorTypes, UsedTypes
  <2> QED
      BY <1>4, <2>1, MistakenRestarts, RestartTypes
<1>5. ASSUME NEW w \in Walkers, NEW e \in Entries, Visit(w, e) PROVE PagingTypes'
    BY <1>5, VisitTypes
<1>6. ASSUME NEW w \in Walkers, Answer(w) PROVE PagingTypes'
    BY <1>6, AnswerTypes
<1>7. ASSUME NEW w \in Walkers, AnswerUncodable(w) PROVE PagingTypes'
    BY <1>7, RestartTypes DEF AnswerUncodable, PagingTypes, CursorTypes, UsedTypes
<1>8. ASSUME NEW w \in Walkers, LoseAnswer(w) PROVE PagingTypes'
  <2>1. UsedTypes' /\ used'.restarts = used.restarts
      BY <1>8, PagingAssumption DEF LoseAnswer, PagingTypes, CursorTypes, UsedTypes
  <2>2. CursorTypes'
      BY <1>8, <2>1 DEF LoseAnswer, last, PagingTypes, CursorTypes
  <2>3. RequestTypes'
      BY <1>8, ForgetTypes DEF LoseAnswer, PagingTypes, RequestTypes
  <2> QED
      BY <1>8, <2>2, <2>3 DEF LoseAnswer, history, PagingTypes, VaultTypes, HistoryTypes
<1>9. ASSUME RotateToken PROVE PagingTypes'
    BY <1>9, RotateTypes
<1>10. ASSUME HostStep PROVE PagingTypes'
    BY <1>10, HostTypes
<1>11. ASSUME UNCHANGED vars PROVE PagingTypes'
    BY <1>11 DEF vars, request, last, history, PagingTypes, VaultTypes, CursorTypes, UsedTypes,
                 RequestTypes, RowTypes, HistoryTypes
<1>12. ASSUME NEW w \in Walkers, AskFolderAway(w) PROVE PagingTypes'
  <2>1. UsedTypes' /\ used'.restarts = used.restarts
      BY <1>12, PagingAssumption DEF AskFolderAway, PagingTypes, CursorTypes, UsedTypes
  <2> QED
      BY <1>12, <2>1, RefuseTypes DEF AskFolderAway, Errors
<1>13. ASSUME NEW w \in Walkers, ScanFails(w) PROVE PagingTypes'
    BY <1>13, ScanFailsTypes
<1>14. ASSUME NEW w \in Walkers, NEW n \in Limits, AskBadLimit(w, n) PROVE PagingTypes'
  <2>1. UsedTypes' /\ used'.restarts = used.restarts
      BY <1>14, PagingAssumption DEF AskBadLimit, PagingTypes, CursorTypes, UsedTypes
  <2> QED
      BY <1>14, <2>1, RefuseTypes DEF AskBadLimit, Errors
<1> QED
    BY <1>1, <1>2, <1>3, <1>4, <1>5, <1>6, <1>7, <1>8, <1>9, <1>10, <1>11, <1>12, <1>13, <1>14
    DEF Next, Walk, AllDone

\* Every variable has its type, and every cursor in a client's hands holds an
\* offset that encode_cursor can encode, so that decode_cursor refuses none of
\* them for its offset.
THEOREM TypesHold == Spec => []PagingTypeOK
<1>1. PagingTypes => PagingTypeOK
  <2> SUFFICES ASSUME PagingTypes PROVE PagingTypeOK
      OBVIOUS
  <2>1. token \in 0..MaxRestarts
      BY DEF PagingTypes, CursorTypes, UsedTypes
  <2>2. \A c \in minted : c.n \in 0..MaxCursorOffset /\ c.key <= token
      BY <2>1 DEF PagingTypes, CursorTypes
  <2>3. \A w \in Walkers : cursor[w] \in minted \union {None}
      BY DEF PagingTypes, CursorTypes
  <2>4. \A w \in Walkers : names[w] \subseteq Entries /\ DOMAIN rows[w] \subseteq Entries
      BY DEF PagingTypes, RequestTypes, RowTypes
  <2> QED
      BY <2>1, <2>2, <2>3, <2>4
      DEF PagingTypes, VaultTypes, CursorTypes, RequestTypes, PagingTypeOK
<1> QED
    BY <1>1, InitPagingTypes, NextPagingTypes, PTL DEF Spec

-----------------------------------------------------------------------------
(* Ranks within a walk.                                                    *)

\* The listings are sets of entries with weights that are numbers.
FoundTyped(w) ==
    /\ Found(w) \subseteq Entries /\ Listing(w) \subseteq Entries
    /\ Weighed(Found(w), Weights(w))
    /\ \A e : RankOf(w, e) \in Nat

LEMMA FoundType == \A w \in Walkers : VaultTypes /\ RequestTypes => FoundTyped(w)
<1> SUFFICES ASSUME NEW w \in Walkers, VaultTypes, RequestTypes PROVE FoundTyped(w)
    OBVIOUS
<1>1. Found(w) \subseteq Entries /\ Listing(w) \subseteq Entries
    BY DEF Found, Listing, RequestTypes, RowTypes
<1>2. \A e \in Found(w) : Weights(w)[e] \in Int
  <2>1. MaxWeight \in Nat
      BY PagingAssumption
  <2>2. \A e \in Entries : weight[e] \in Int
      BY <2>1 DEF VaultTypes
  <2>3. \A e \in DOMAIN rows[w] : rows[w][e] \in Int
      BY <2>1 DEF RequestTypes, RowTypes
  <2> QED
      BY <1>1, <2>2, <2>3 DEF Weights
<1>3. Weighed(Found(w), Weights(w))
    BY <1>1, <1>2 DEF Weighed
<1> QED
    BY <1>1, <1>3, RankType DEF RankOf, FoundTyped

LEMMA FoundTypeNext == \A w \in Walkers : (VaultTypes /\ RequestTypes)' => FoundTyped(w)'
<1>1. (\A w \in Walkers : VaultTypes /\ RequestTypes => FoundTyped(w))'
    BY FoundType, PTL
<1> QED
    BY <1>1

\* When more is found, with the same weights, no rank gets smaller; when less
\* is found, none gets greater.
LEMMA RanksRise ==
    ASSUME (VaultTypes /\ RequestTypes)', NEW w \in Walkers, Found(w) \subseteq Found(w)',
           Operation[w] = "search" => \A d \in Found(w) : Weights(w)'[d] = Weights(w)[d],
           NEW e \in Found(w)
    PROVE  RankOf(w, e) <= RankOf(w, e)'
<1>1. Found(w)' \subseteq Entries
    BY FoundTypeNext DEF FoundTyped
<1> DEFINE S == Found(w)
           T == Found(w)'
           v == Weights(w)
           u == Weights(w)'
<1>2. RankOf(w, e) = RankIn(S, Operation[w], v, e) /\ RankOf(w, e)' = RankIn(T, Operation[w], u, e)
    BY DEF RankOf
<1> HIDE DEF S, T, v, u
<1>3. RankIn(S, Operation[w], v, e) <= RankIn(T, Operation[w], u, e)
    BY <1>1, RankMonotone DEF S, T, u, v
<1> QED
    BY <1>2, <1>3

LEMMA RanksFall ==
    ASSUME VaultTypes, RequestTypes, NEW w \in Walkers, Found(w)' \subseteq Found(w),
           Operation[w] = "search" => \A d \in Found(w)' : Weights(w)'[d] = Weights(w)[d],
           NEW e \in Found(w)'
    PROVE  RankOf(w, e)' <= RankOf(w, e)
<1>1. Found(w) \subseteq Entries
    BY FoundType DEF FoundTyped
<1> DEFINE S == Found(w)'
           T == Found(w)
           v == Weights(w)'
           u == Weights(w)
<1>2. RankOf(w, e)' = RankIn(S, Operation[w], v, e) /\ RankOf(w, e) = RankIn(T, Operation[w], u, e)
    BY DEF RankOf
<1>3. RankIn(S, Operation[w], v, e) <= RankIn(T, Operation[w], u, e)
    BY <1>1, RankMonotone
<1> QED
    BY <1>2, <1>3

-----------------------------------------------------------------------------
(* Steps that leave a walk where it is.                                    *)

WalkInv(w) == Orderly(w) /\ Grows(w) /\ Shrinks(w)

\* A step after which a walk is as far, and its listing is the same.
SameWalk(w) ==
    /\ Begun(w)' => Begun(w)
    /\ pc'[w] = "done" => pc[w] = "done"
    /\ Reached(w)' = Reached(w)
    /\ Found(w)' = Found(w) /\ Weights(w)' = Weights(w) /\ Listing(w)' = Listing(w)
    /\ weight' = weight
    /\ got'[w] = got[w] /\ atStart'[w] = atStart[w] /\ changes'[w] = changes[w]

LEMMA SameWalkKeeps ==
    ASSUME NEW w \in Walkers, SameWalk(w), Grows(w), Shrinks(w)
    PROVE  Grows(w)' /\ Shrinks(w)'
<1>1. \A e : RankOf(w, e)' = RankOf(w, e)
    BY DEF SameWalk, RankOf
<1>2. Harmless(w)' = Harmless(w)
    BY DEF Harmless
<1>3. Grows(w)'
    BY <1>1, <1>2 DEF SameWalk, Grows
<1>4. Shrinks(w)'
    BY <1>1, <1>2 DEF SameWalk, Shrinks
<1> QED
    BY <1>3, <1>4

\* A step of somebody else.
Untouched(w) ==
    /\ pc'[w] = pc[w] /\ cursor'[w] = cursor[w] /\ offset'[w] = offset[w]
    /\ names'[w] = names[w] /\ rows'[w] = rows[w]
    /\ got'[w] = got[w] /\ atStart'[w] = atStart[w] /\ changes'[w] = changes[w]
    /\ weight' = weight /\ unreadable' = unreadable

LEMMA UntouchedKeeps ==
    ASSUME NEW w \in Walkers, Untouched(w), WalkInv(w)
    PROVE  WalkInv(w)'
<1>1. Listing(w)' = Listing(w)
    BY DEF Untouched, Listing, Lists, Present
<1>2. SameWalk(w)
    BY <1>1 DEF Untouched, SameWalk, Begun, Reached, Found, Weights
<1>3. Orderly(w)'
    BY DEF Untouched, WalkInv, Orderly
<1> QED
    BY <1>2, <1>3, SameWalkKeeps DEF WalkInv

\* A walk that is over: the client begins again with the first page.
Over(w) ==
    /\ pc'[w] = "idle" /\ cursor'[w] = None
    /\ names'[w] = {} /\ DOMAIN rows'[w] = {}
    /\ got'[w] = got[w] /\ atStart'[w] = atStart[w] /\ changes'[w] = changes[w]

LEMMA OverKeeps ==
    ASSUME NEW w \in Walkers, Over(w), WalkInv(w)
    PROVE  WalkInv(w)'
<1>1. ~Begun(w)' /\ pc'[w] = "idle"
    BY DEF Over, Begun
<1>2. Harmless(w)' = Harmless(w)
    BY DEF Harmless
<1>3. Orderly(w)'
    BY DEF Over, Orderly
<1>4. Grows(w)'
    BY <1>1 DEF Grows
<1>5. Shrinks(w)'
    BY <1>1, <1>2 DEF Over, WalkInv, Shrinks
<1> QED
    BY <1>3, <1>4, <1>5 DEF WalkInv

LEMMA ForgetOthers ==
    ASSUME RequestTypes, NEW W, Forget(W), NEW w \in Walkers
    PROVE  /\ w \notin W => offset'[w] = offset[w] /\ names'[w] = names[w] /\ rows'[w] = rows[w]
           /\ w \in W => offset'[w] = 0 /\ names'[w] = {} /\ DOMAIN rows'[w] = {}
<1>1. DOMAIN NoRows = {}
    BY DEF NoRows
<1> QED
    BY <1>1 DEF Forget

\* INVALID_CURSOR ends the walker's own walk and touches no other.
LEMMA RestartKeeps ==
    ASSUME PagingTypes, NEW u \in Walkers, NEW c, Restart(u, c),
           NEW w \in Walkers, WalkInv(w)
    PROVE  WalkInv(w)'
<1>1. CASE w = u
  <2>1. Over(w)
      BY <1>1, ForgetOthers
      DEF Restart, Over, history, PagingTypes, RequestTypes, CursorTypes
  <2> QED
      BY <2>1, OverKeeps
<1>2. CASE w # u
  <2>1. Untouched(w)
      BY <1>2, ForgetOthers
      DEF Restart, Untouched, history, PagingTypes, RequestTypes, CursorTypes
  <2> QED
      BY <2>1, UntouchedKeeps
<1> QED
    BY <1>1, <1>2

\* The first request of a walk: the scan comes to the listing as it is.
LEMMA AskFirstKeeps ==
    ASSUME PagingTypes, PagingTypes', NEW u \in Walkers, NEW n \in Limits, AskFirst(u, n),
           NEW w \in Walkers, WalkInv(w)
    PROVE  WalkInv(w)'
<1>1. CASE w # u
  <2>1. Untouched(w)
      BY <1>1 DEF AskFirst, Start, Untouched, PagingTypes, RequestTypes, RowTypes,
                  CursorTypes, HistoryTypes
  <2> QED
      BY <2>1, UntouchedKeeps
<1>2. CASE w = u
  <2>1. /\ pc'[w] = "scan" /\ cursor'[w] = None /\ offset'[w] = 0
        /\ names'[w] = (IF Operation[w] = "tree" THEN Present ELSE Entries)
        /\ DOMAIN rows'[w] = {}
        /\ got'[w] = NothingYet /\ atStart'[w] = Listing(w)
        /\ weight' = weight /\ unreadable' = unreadable
    <3>1. DOMAIN NoRows = {}
        BY DEF NoRows
    <3> QED
        BY <1>2, <3>1 DEF AskFirst, Start, Listing, PagingTypes, RequestTypes, RowTypes,
                          CursorTypes, HistoryTypes
  <2>2. Listing(w)' = Listing(w)
      BY <2>1 DEF Listing, Lists, Present
  <2>3. Listing(w) \subseteq names'[w]
      BY <2>1 DEF Listing, Lists
  <2>4. Found(w)' = Listing(w)
      BY <2>1, <2>2, <2>3 DEF Found
  <2>5. Reached(w)' = 0
      BY <2>1 DEF Reached
  <2>6. \A e : RankOf(w, e)' \in Nat
      BY FoundTypeNext DEF FoundTyped, PagingTypes
  <2>7. \A e \in Entries : got'[w][e] = 0 /\ Weights(w)'[e] = weight'[e]
      BY <2>1 DEF NothingYet, Weights
  <2>8. Listing(w) \subseteq Entries
      BY DEF Listing
  <2>9. Orderly(w)'
      BY <2>1 DEF Orderly
  <2>10. Grows(w)'
      BY <2>1, <2>2, <2>4, <2>5, <2>6, <2>7, <2>8 DEF Grows
  <2>11. Shrinks(w)'
      BY <2>1, <2>2, <2>4, <2>7, <2>8 DEF Shrinks
  <2> QED
      BY <2>9, <2>10, <2>11 DEF WalkInv
<1> QED
    BY <1>1, <1>2

\* The next request goes on where the walk has come to, with the listing as it is.
LEMMA AskNextKeeps ==
    ASSUME PagingTypes, PagingTypes', NEW u \in Walkers, NEW n \in Limits, AskNext(u, n),
           NEW w \in Walkers, WalkInv(w)
    PROVE  WalkInv(w)'
<1>1. CASE w # u
  <2>1. Untouched(w)
      BY <1>1 DEF AskNext, Start, Untouched, history, PagingTypes, RequestTypes, RowTypes,
                  CursorTypes, HistoryTypes
  <2> QED
      BY <2>1, UntouchedKeeps
<1>2. CASE w = u
  <2>1. /\ pc[w] = "idle" /\ cursor[w] # None
        /\ pc'[w] = "scan" /\ cursor' = cursor /\ offset'[w] = cursor[w].n
        /\ names'[w] = (IF Operation[w] = "tree" THEN Present ELSE Entries)
        /\ DOMAIN rows'[w] = {}
        /\ UNCHANGED <<got, atStart, changes, weight, unreadable>>
    <3>1. DOMAIN NoRows = {}
        BY DEF NoRows
    <3> QED
        BY <1>2, <3>1 DEF AskNext, Start, history, PagingTypes, RequestTypes, RowTypes
  <2>2. Listing(w)' = Listing(w)
      BY <2>1 DEF Listing, Lists, Present
  <2>3. Listing(w) \subseteq names'[w]
      BY <2>1 DEF Listing, Lists
  <2>4. DOMAIN rows[w] = {}
      BY <2>1 DEF WalkInv, Orderly
  <2>5. Found(w) = Listing(w) /\ Found(w)' = Listing(w)
      BY <2>1, <2>2, <2>3, <2>4 DEF Found
  <2>6. Weights(w)' = Weights(w)
      BY <2>1, <2>4 DEF Weights
  <2>7. SameWalk(w)
      BY <2>1, <2>2, <2>5, <2>6 DEF SameWalk, Begun, Reached
  <2>8. Orderly(w)'
      BY <2>1 DEF Orderly
  <2> QED
      BY <2>7, <2>8, SameWalkKeeps DEF WalkInv
<1> QED
    BY <1>1, <1>2

\* A visited entry that is listed is found, with the weight it has; another one
\* was not to be found.
LEMMA VisitKeeps ==
    ASSUME PagingTypes, NEW u \in Walkers, NEW e \in Entries, Visit(u, e),
           NEW w \in Walkers, WalkInv(w)
    PROVE  WalkInv(w)'
<1>1. CASE w # u
  <2>1. Untouched(w)
      BY <1>1 DEF Visit, Untouched, history, PagingTypes, RequestTypes, RowTypes
  <2> QED
      BY <2>1, UntouchedKeeps
<1>2. CASE w = u
  <2>1. /\ pc[w] = "scan" /\ e \in names[w]
        /\ names'[w] = names[w] \ {e}
        /\ UNCHANGED <<weight, unreadable, pc, cursor, offset, got, atStart, changes>>
      BY <1>2 DEF Visit, history, PagingTypes, RequestTypes
  <2>2. Listing(w)' = Listing(w)
      BY <2>1 DEF Listing, Lists, Present
  <2>3. Lists(Operation[w], e) <=> e \in Listing(w)
      BY DEF Listing
  <2>4. e \notin DOMAIN rows[w]
      BY <2>1 DEF WalkInv, Orderly
  <2>5. /\ e \in Listing(w) => rows'[w] = [d \in DOMAIN rows[w] \union {e} |->
                                             IF d = e THEN weight[e] ELSE rows[w][d]]
        /\ e \notin Listing(w) => rows'[w] = rows[w]
      BY <1>2, <2>3 DEF Visit, PagingTypes, RequestTypes, RowTypes
  <2>6. Found(w)' = Found(w) /\ Weights(w)' = Weights(w)
    <3>1. CASE e \in Listing(w)
      <4>1. /\ DOMAIN rows'[w] = DOMAIN rows[w] \union {e}
            /\ rows'[w][e] = weight[e]
            /\ \A d \in DOMAIN rows[w] : rows'[w][d] = rows[w][d]
          BY <2>4, <2>5, <3>1
      <4>2. Found(w)' = Found(w)
          BY <2>1, <2>2, <3>1, <4>1 DEF Found
      <4>3. Weights(w)' = Weights(w)
          BY <2>1, <2>4, <4>1 DEF Weights
      <4> QED
          BY <4>2, <4>3
    <3>2. CASE e \notin Listing(w)
        BY <2>1, <2>2, <2>5, <3>2 DEF Found, Weights
    <3> QED
        BY <3>1, <3>2
  <2>7. SameWalk(w)
      BY <2>1, <2>2, <2>6 DEF SameWalk, Begun, Reached
  <2>8. Orderly(w)'
    <3>1. DOMAIN rows'[w] \subseteq DOMAIN rows[w] \union {e}
        BY <2>5
    <3> QED
        BY <2>1, <3>1 DEF WalkInv, Orderly
  <2> QED
      BY <2>7, <2>8, SameWalkKeeps DEF WalkInv
<1> QED
    BY <1>1, <1>2

-----------------------------------------------------------------------------
(* The end of a scan.                                                      *)

\* A scan that has visited all names: the page in terms of the walk's ranks.
LEMMA ScanDone ==
    ASSUME PagingTypes, NEW w \in Walkers, Orderly(w), pc[w] = "scan", names[w] = {}
    PROVE  /\ Found(w) = DOMAIN rows[w]
           /\ Window(w) \subseteq Found(w)
           /\ Reached(w) = offset[w]
           /\ Reached(w) \in Nat /\ NextOffset(w) \in Nat
           /\ \A e \in Found(w) \ Window(w) :
                RankOf(w, e) < Reached(w) \/ RankOf(w, e) >= NextOffset(w)
           /\ \A e \in Window(w) :
                RankOf(w, e) >= Reached(w) /\ RankOf(w, e) < NextOffset(w)
           /\ Reached(w) <= NextOffset(w)
           /\ \A e \in Found(w) : RankOf(w, e) < Cardinality(DOMAIN rows[w])
<1> DEFINE S == DOMAIN rows[w]
           op == Operation[w]
           n == offset[w]
           k == limit[w]
           c == Cardinality(Window(w))
<1>1. Found(w) = S /\ S \subseteq Entries
    BY DEF Found, PagingTypes, RequestTypes, RowTypes
<1>2. /\ Weighed(S, rows[w])
      /\ Window(w) = PageOf(S, op, rows[w], n, k)
      /\ n \in Nat /\ k \in Nat /\ c \in 0..k /\ NextOffset(w) \in Nat
    BY WindowIsPage DEF PagingTypes
<1>3. ASSUME NEW e \in S PROVE RankOf(w, e) = RankIn(S, op, rows[w], e)
  <2>1. \A d \in S : Weights(w)[d] = rows[w][d]
      BY <1>1 DEF Weights
  <2>2. \A d \in S : Ahead(op, Weights(w), d, e) <=> Ahead(op, rows[w], d, e)
      BY <1>3, <2>1 DEF Ahead
  <2> QED
      BY <1>1, <2>2 DEF RankOf, RankIn
<1>4. Reached(w) = n
    BY DEF Orderly, Reached
<1>5. \A e \in S : RankOf(w, e) \in Nat /\ RankOf(w, e) < Cardinality(S)
    BY <1>2, <1>3, RankType
<1>6. Window(w) \subseteq S /\ \A e \in S : e \in Window(w) <=> RankOf(w, e) \in n..(n + k - 1)
    BY <1>2, <1>3 DEF PageOf
<1>7. \A e \in Window(w) : RankOf(w, e) < n + c
    BY <1>2, <1>3, <1>6, PageRanks
<1>8. NextOffset(w) = n + c
    BY DEF NextOffset
<1> HIDE DEF S, n, k, c
<1>9. ASSUME NEW e \in S \ Window(w) PROVE RankOf(w, e) < n \/ RankOf(w, e) >= n + c
  <2>1. RankOf(w, e) \in Nat /\ RankOf(w, e) \notin n..(n + k - 1)
      BY <1>5, <1>6
  <2>2. n \in Nat /\ k \in Nat /\ c \in 0..k
      BY <1>2
  <2> QED
      BY <2>1, <2>2
<1>10. \A e \in Window(w) : RankOf(w, e) >= n
    BY <1>2, <1>5, <1>6
<1>11. n <= n + c
    BY <1>2
<1> QED
    BY <1>1, <1>2, <1>4, <1>5, <1>6, <1>7, <1>8, <1>9, <1>10, <1>11 DEF S, n

\* Between two pages the walk's listing is the listing there is.
LEMMA IdleFinds ==
    ASSUME NEW w \in Walkers, VaultTypes', pc'[w] # "scan", DOMAIN rows'[w] = {}
    PROVE  Found(w)' = Listing(w)' /\ Weights(w)' = weight'
<1>1. Weights(w)' = [e \in Entries |-> weight'[e]]
    BY DEF Weights
<1>2. weight' = [e \in Entries |-> weight'[e]]
    BY DEF VaultTypes
<1> QED
    BY <1>1, <1>2 DEF Found

\* When a request is gone, what its scan would have found is given up for the
\* listing; if listings only grow, the listing holds more, if they only shrink, less.
LEMMA GiveUpRanks ==
    ASSUME PagingTypes, PagingTypes', NEW w \in Walkers, WalkInv(w), Begun(w),
           pc'[w] # "scan", DOMAIN rows'[w] = {},
           UNCHANGED <<weight, unreadable>>
    PROVE  /\ Found(w)' = Listing(w) /\ Listing(w)' = Listing(w) /\ Weights(w)' = weight
           /\ changes[w] \subseteq Harmless(w) \union {"create", "show"} =>
                \A e \in Found(w) : RankOf(w, e) <= RankOf(w, e)'
           /\ changes[w] \subseteq Harmless(w) \union {"delete", "hide"} =>
                \A e \in Listing(w) : RankOf(w, e)' <= RankOf(w, e)
<1>1. Listing(w)' = Listing(w)
    BY DEF Listing, Lists, Present
<1>2. Found(w)' = Listing(w) /\ Weights(w)' = weight
    BY <1>1, IdleFinds DEF PagingTypes
<1>3. ASSUME changes[w] \subseteq Harmless(w) \union {"create", "show"}, NEW e \in Found(w)
      PROVE  RankOf(w, e) <= RankOf(w, e)'
  <2>1. /\ Found(w) \subseteq Listing(w)
        /\ Operation[w] = "search" => \A d \in Found(w) : Weights(w)[d] = weight[d]
      BY <1>3 DEF WalkInv, Grows
  <2> QED
      BY <1>2, <1>3, <2>1, RanksRise DEF PagingTypes
<1>4. ASSUME changes[w] \subseteq Harmless(w) \union {"delete", "hide"}, NEW e \in Listing(w)
      PROVE  RankOf(w, e)' <= RankOf(w, e)
  <2>1. /\ Listing(w) \subseteq Found(w)
        /\ Operation[w] = "search" => \A d \in Listing(w) : Weights(w)[d] = weight[d]
      BY <1>4 DEF WalkInv, Shrinks
  <2> QED
      BY <1>2, <1>4, <2>1, RanksFall DEF PagingTypes
<1> QED
    BY <1>1, <1>2, <1>3, <1>4

\* A request that is lost, with its answer or with the process.
Dropped(w) ==
    /\ pc[w] = "scan" /\ pc'[w] = "idle" /\ cursor'[w] = cursor[w]
    /\ names'[w] = {} /\ DOMAIN rows'[w] = {}
    /\ got'[w] = got[w] /\ atStart'[w] = atStart[w] /\ changes'[w] = changes[w]
    /\ UNCHANGED <<weight, unreadable>>

LEMMA DroppedKeeps ==
    ASSUME PagingTypes, PagingTypes', NEW w \in Walkers, Dropped(w), WalkInv(w)
    PROVE  WalkInv(w)'
<1>1. CASE cursor[w] = None
    BY <1>1, OverKeeps DEF Dropped, Over
<1>2. CASE cursor[w] # None
  <2>1. Begun(w) /\ Begun(w)' /\ pc'[w] # "done" /\ Reached(w)' = Reached(w)
      BY <1>2 DEF Dropped, Begun, Reached
  <2>2. Harmless(w)' = Harmless(w)
      BY DEF Harmless
  <2>3. /\ Found(w)' = Listing(w) /\ Listing(w)' = Listing(w) /\ Weights(w)' = weight
        /\ changes[w] \subseteq Harmless(w) \union {"create", "show"} =>
                \A e \in Found(w) : RankOf(w, e) <= RankOf(w, e)'
        /\ changes[w] \subseteq Harmless(w) \union {"delete", "hide"} =>
                \A e \in Listing(w) : RankOf(w, e)' <= RankOf(w, e)
      BY <2>1, GiveUpRanks DEF Dropped
  <2>4. \A e : RankOf(w, e) \in Nat /\ RankOf(w, e)' \in Nat
      BY FoundType, FoundTypeNext DEF FoundTyped, PagingTypes
  <2>5. Reached(w) \in Nat
      BY DEF Dropped, WalkInv, Orderly, PagingTypes, RequestTypes, Reached
  <2>6. Orderly(w)'
      BY DEF Dropped, Orderly
  <2>7. Grows(w)'
    <3> SUFFICES ASSUME changes[w] \subseteq Harmless(w) \union {"create", "show"}
                 PROVE  /\ atStart[w] \subseteq Listing(w)
                        /\ \A e \in atStart[w] : got[w][e] = 0 => RankOf(w, e)' >= Reached(w)
        BY <2>1, <2>2, <2>3 DEF Dropped, Grows
    <3>1. /\ atStart[w] \subseteq Found(w) /\ Found(w) \subseteq Listing(w)
          /\ \A e \in atStart[w] : got[w][e] = 0 => RankOf(w, e) >= Reached(w)
        BY <2>1 DEF WalkInv, Grows
    <3> QED
        BY <2>3, <2>4, <2>5, <3>1
  <2>8. Shrinks(w)'
    <3> SUFFICES ASSUME changes[w] \subseteq Harmless(w) \union {"delete", "hide"}
                 PROVE  /\ \A e \in Entries :
                             got[w][e] <= 1 /\ (got[w][e] >= 1 => e \in atStart[w])
                        /\ Listing(w) \subseteq atStart[w]
                        /\ \A e \in Listing(w) : got[w][e] >= 1 => RankOf(w, e)' < Reached(w)
        BY <2>1, <2>2, <2>3 DEF Dropped, Shrinks
    <3>1. /\ \A e \in Entries : got[w][e] <= 1 /\ (got[w][e] >= 1 => e \in atStart[w])
          /\ Listing(w) \subseteq Found(w) /\ Found(w) \subseteq atStart[w]
          /\ \A e \in Found(w) : got[w][e] >= 1 => RankOf(w, e) < Reached(w)
        BY <2>1 DEF WalkInv, Shrinks
    <3> QED
        BY <2>3, <2>4, <2>5, <3>1
  <2> QED
      BY <2>6, <2>7, <2>8 DEF WalkInv
<1> QED
    BY <1>1, <1>2

LEMMA LoseAnswerKeeps ==
    ASSUME PagingTypes, PagingTypes', NEW u \in Walkers, LoseAnswer(u),
           NEW w \in Walkers, WalkInv(w)
    PROVE  WalkInv(w)'
<1>1. CASE w = u
  <2>1. Dropped(w)
      BY <1>1, ForgetOthers DEF LoseAnswer, Dropped, history, PagingTypes, RequestTypes
  <2> QED
      BY <2>1, DroppedKeeps
<1>2. CASE w # u
  <2>1. Untouched(w)
      BY <1>2, ForgetOthers DEF LoseAnswer, Untouched, history, PagingTypes, RequestTypes
  <2> QED
      BY <2>1, UntouchedKeeps
<1> QED
    BY <1>1, <1>2

LEMMA RotateKeeps ==
    ASSUME PagingTypes, PagingTypes', RotateToken, NEW w \in Walkers, WalkInv(w)
    PROVE  WalkInv(w)'
<1> DEFINE W == {x \in Walkers : pc[x] = "scan"}
<1>1. Forget(W)
    BY DEF RotateToken
<1>2. CASE w \in W
  <2>1. Dropped(w)
      BY <1>1, <1>2, ForgetOthers DEF RotateToken, Dropped, history, PagingTypes
  <2> QED
      BY <2>1, DroppedKeeps
<1>3. CASE w \notin W
  <2>1. Untouched(w)
      BY <1>1, <1>3, ForgetOthers DEF RotateToken, Untouched, history, PagingTypes
  <2> QED
      BY <2>1, UntouchedKeeps
<1> QED
    BY <1>2, <1>3

-----------------------------------------------------------------------------
(* A page is delivered.                                                    *)

\* What a delivered page changes of its own walk.
LEMMA AnswerEffect ==
    ASSUME PagingTypes, NEW w \in Walkers, Answer(w)
    PROVE  /\ pc[w] = "scan" /\ names[w] = {}
           /\ names'[w] = {} /\ DOMAIN rows'[w] = {}
           /\ UNCHANGED <<weight, unreadable>>
           /\ atStart'[w] = atStart[w] /\ changes'[w] = changes[w]
           /\ \A e \in Entries :
                /\ e \in Window(w) => got'[w][e] = got[w][e] + 1
                /\ e \notin Window(w) => got'[w][e] = got[w][e]
           /\ \/ /\ HasMore(w) /\ pc'[w] = "idle"
                 /\ cursor'[w] = Cursor(w, NextOffset(w))
              \/ ~HasMore(w) /\ pc'[w] = "done"
<1>1. names'[w] = {} /\ DOMAIN rows'[w] = {}
    BY ForgetOthers DEF Answer, PagingTypes
<1>2. \A e \in Entries : got'[w][e] = IF e \in Window(w) THEN got[w][e] + 1 ELSE got[w][e]
    BY DEF Answer, PagingTypes, HistoryTypes
<1>3. CASE HasMore(w)
    BY <1>1, <1>2, <1>3 DEF Answer, PagingTypes, RequestTypes, CursorTypes
<1>4. CASE ~HasMore(w)
    BY <1>1, <1>2, <1>4 DEF Answer, PagingTypes, RequestTypes
<1> QED
    BY <1>3, <1>4

\* The walk of a delivered page has come to NextOffset.
LEMMA AnswerReached ==
    ASSUME PagingTypes, NEW w \in Walkers, Answer(w), Begun(w)'
    PROVE  HasMore(w) /\ Reached(w)' = NextOffset(w)
<1>1. HasMore(w) /\ cursor'[w] = Cursor(w, NextOffset(w)) /\ cursor'[w] # None
    BY AnswerEffect DEF Begun
<1>2. Cursor(w, NextOffset(w)).n = NextOffset(w)
    BY DEF Cursor
<1> QED
    BY <1>1, <1>2 DEF Reached

LEMMA AnswerGrows ==
    ASSUME PagingTypes, PagingTypes', NEW w \in Walkers, Answer(w), WalkInv(w)
    PROVE  Grows(w)'
<1>1. Harmless(w)' = Harmless(w)
    BY DEF Harmless
<1>2. Begun(w) /\ pc'[w] # "scan" /\ Orderly(w)
    BY AnswerEffect DEF Begun, WalkInv
<1> SUFFICES ASSUME changes[w] \subseteq Harmless(w) \union {"create", "show"}
             PROVE  /\ Begun(w)' =>
                         /\ atStart[w] \subseteq Listing(w)
                         /\ \A e \in atStart[w] :
                              got'[w][e] = 0 => RankOf(w, e)' >= NextOffset(w)
                    /\ pc'[w] = "done" => \A e \in atStart[w] : got'[w][e] >= 1
  <2>1. Found(w)' = Listing(w) /\ Listing(w)' = Listing(w) /\ Weights(w)' = weight
      BY <1>2, AnswerEffect, GiveUpRanks
  <2> QED
      BY <1>1, <2>1, AnswerEffect, AnswerReached DEF Grows
<1>3. /\ atStart[w] \subseteq Found(w) /\ Found(w) \subseteq Listing(w)
      /\ \A e \in atStart[w] : got[w][e] = 0 => RankOf(w, e) >= Reached(w)
    BY <1>2 DEF WalkInv, Grows
<1>4. \A e \in Found(w) : RankOf(w, e) <= RankOf(w, e)'
    BY <1>2, AnswerEffect, GiveUpRanks
<1>5. \A e : RankOf(w, e) \in Nat /\ RankOf(w, e)' \in Nat
    BY FoundType, FoundTypeNext DEF FoundTyped, PagingTypes
<1>6. \A e \in Entries : got[w][e] \in Nat /\ got'[w][e] \in Nat
    BY DEF PagingTypes, HistoryTypes
<1>7. atStart[w] \subseteq Entries
    BY DEF PagingTypes, HistoryTypes
\* One that is still to be delivered is behind this page.
<1>8. ASSUME NEW e \in atStart[w], got'[w][e] = 0 PROVE RankOf(w, e) >= NextOffset(w)
  <2>1. e \in Entries /\ e \in Found(w)
      BY <1>3, <1>7
  <2>2. e \notin Window(w) /\ got[w][e] = 0
      BY <1>6, <1>8, <2>1, AnswerEffect
  <2>3. RankOf(w, e) >= Reached(w)
      BY <1>3, <2>2
  <2>4. /\ Reached(w) \in Nat
        /\ RankOf(w, e) < Reached(w) \/ RankOf(w, e) >= NextOffset(w)
      BY <1>2, <2>1, <2>2, AnswerEffect, ScanDone
  <2> QED
      BY <1>5, <2>3, <2>4
<1>9. NextOffset(w) \in Nat
    BY <1>2, AnswerEffect, ScanDone
<1>10. ASSUME NEW e \in atStart[w], got'[w][e] = 0 PROVE RankOf(w, e)' >= NextOffset(w)
  <2>1. RankOf(w, e) >= NextOffset(w)
      BY <1>8, <1>10
  <2>2. RankOf(w, e) <= RankOf(w, e)'
      BY <1>3, <1>4
  <2> QED
      BY <1>5, <1>9, <2>1, <2>2
<1>11. ASSUME pc'[w] = "done", NEW e \in atStart[w] PROVE got'[w][e] >= 1
  <2> SUFFICES ASSUME got'[w][e] = 0 PROVE FALSE
    <3>1. got'[w][e] \in Nat
        BY <1>6, <1>7
    <3> QED
        BY <3>1
  <2>1. RankOf(w, e) >= NextOffset(w)
      BY <1>8
  <2>2. ~HasMore(w)
      BY <1>11, AnswerEffect
  <2>3. Cardinality(DOMAIN rows[w]) \in Nat /\ ~(Cardinality(DOMAIN rows[w]) > NextOffset(w))
      BY <2>2, WindowIsPage DEF HasMore, PagingTypes
  <2>4. RankOf(w, e) < Cardinality(DOMAIN rows[w])
      BY <1>2, <1>3, AnswerEffect, ScanDone
  <2> QED
      BY <1>5, <1>9, <2>1, <2>3, <2>4
<1> QED
    BY <1>3, <1>10, <1>11

LEMMA AnswerShrinks ==
    ASSUME PagingTypes, PagingTypes', NEW w \in Walkers, Answer(w), WalkInv(w)
    PROVE  Shrinks(w)'
<1>1. Harmless(w)' = Harmless(w)
    BY DEF Harmless
<1>2. Begun(w) /\ pc'[w] # "scan" /\ Orderly(w)
    BY AnswerEffect DEF Begun, WalkInv
<1> SUFFICES ASSUME changes[w] \subseteq Harmless(w) \union {"delete", "hide"}
             PROVE  /\ \A e \in Entries :
                         got'[w][e] <= 1 /\ (got'[w][e] >= 1 => e \in atStart[w])
                    /\ Begun(w)' =>
                         /\ Listing(w) \subseteq atStart[w]
                         /\ \A e \in Listing(w) :
                              got'[w][e] >= 1 => RankOf(w, e)' < NextOffset(w)
  <2>1. Found(w)' = Listing(w) /\ Listing(w)' = Listing(w) /\ Weights(w)' = weight
      BY <1>2, AnswerEffect, GiveUpRanks
  <2> QED
      BY <1>1, <2>1, AnswerEffect, AnswerReached DEF Shrinks
<1>3. /\ \A e \in Entries : got[w][e] <= 1 /\ (got[w][e] >= 1 => e \in atStart[w])
      /\ Listing(w) \subseteq Found(w) /\ Found(w) \subseteq atStart[w]
      /\ \A e \in Found(w) : got[w][e] >= 1 => RankOf(w, e) < Reached(w)
    BY <1>2 DEF WalkInv, Shrinks
<1>4. \A e \in Listing(w) : RankOf(w, e)' <= RankOf(w, e)
    BY <1>2, AnswerEffect, GiveUpRanks
<1>5. \A e : RankOf(w, e) \in Nat /\ RankOf(w, e)' \in Nat
    BY FoundType, FoundTypeNext DEF FoundTyped, PagingTypes
<1>6. \A e \in Entries : got[w][e] \in Nat /\ got'[w][e] \in Nat
    BY DEF PagingTypes, HistoryTypes
<1>7. /\ Window(w) \subseteq Found(w)
      /\ Reached(w) \in Nat /\ NextOffset(w) \in Nat /\ Reached(w) <= NextOffset(w)
      /\ \A e \in Window(w) : RankOf(w, e) >= Reached(w) /\ RankOf(w, e) < NextOffset(w)
    BY <1>2, AnswerEffect, ScanDone
\* What was delivered before is not on this page.
<1>8. ASSUME NEW e \in Entries
      PROVE  got'[w][e] <= 1 /\ (got'[w][e] >= 1 => e \in atStart[w])
  <2>1. CASE e \notin Window(w)
      BY <1>3, <2>1, AnswerEffect
  <2>2. CASE e \in Window(w)
    <3>1. ~(RankOf(w, e) < Reached(w)) /\ e \in Found(w)
        BY <1>5, <1>7, <2>2
    <3>2. ~(got[w][e] >= 1)
        BY <1>3, <3>1
    <3>3. got[w][e] = 0
        BY <1>6, <3>2
    <3>4. got'[w][e] = 1
        BY <2>2, <3>3, AnswerEffect
    <3> QED
        BY <1>3, <3>1, <3>4
  <2> QED
      BY <2>1, <2>2
<1>9. ASSUME NEW e \in Listing(w), got'[w][e] >= 1 PROVE RankOf(w, e)' < NextOffset(w)
  <2>1. e \in Entries /\ e \in Found(w)
      BY <1>3, <1>9 DEF Listing
  <2>2. RankOf(w, e) < NextOffset(w)
    <3>1. CASE e \in Window(w)
        BY <1>7, <3>1
    <3>2. CASE e \notin Window(w)
      <4>1. got[w][e] >= 1
          BY <1>9, <2>1, <3>2, AnswerEffect
      <4>2. RankOf(w, e) < Reached(w)
          BY <1>3, <2>1, <4>1
      <4> QED
          BY <1>5, <1>7, <4>2
    <3> QED
        BY <3>1, <3>2
  <2>3. RankOf(w, e)' <= RankOf(w, e)
      BY <1>4, <1>9
  <2> QED
      BY <1>5, <1>7, <2>2, <2>3
<1> QED
    BY <1>3, <1>8, <1>9

LEMMA AnswerKeeps ==
    ASSUME PagingTypes, PagingTypes', NEW u \in Walkers, Answer(u),
           NEW w \in Walkers, WalkInv(w)
    PROVE  WalkInv(w)'
<1>1. CASE w = u
  <2>1. Orderly(w)'
      BY <1>1, AnswerEffect DEF Orderly
  <2> QED
      BY <1>1, <2>1, AnswerGrows, AnswerShrinks DEF WalkInv
<1>2. CASE w # u
  <2>1. /\ pc'[w] = pc[w] /\ cursor'[w] = cursor[w]
    <3>1. CASE HasMore(u)
        BY <1>2, <3>1 DEF Answer, PagingTypes, RequestTypes, CursorTypes
    <3>2. CASE ~HasMore(u)
        BY <1>2, <3>2 DEF Answer, PagingTypes, RequestTypes, CursorTypes
    <3> QED
        BY <3>1, <3>2
  <2>2. Untouched(w)
      BY <1>2, <2>1, ForgetOthers DEF Answer, Untouched, PagingTypes, HistoryTypes
  <2> QED
      BY <2>2, UntouchedKeeps
<1> QED
    BY <1>1, <1>2

-----------------------------------------------------------------------------
(* The host.                                                               *)

\* Creating and showing only add to a listing, deleting and hiding only take
\* from it, and none of the four changes the weight of what stays; an edit does
\* nothing to the listing of a folder.
LEMMA ChangeEffect ==
    ASSUME PagingTypes, HostStep, NEW w \in Walkers
    PROVE  \E kind \in Changes :
             /\ Change(kind)
             /\ kind \in Harmless(w) \union {"create", "show"} =>
                  /\ Listing(w) \subseteq Listing(w)'
                  /\ Operation[w] = "search" =>
                       \A d \in Listing(w) : weight'[d] = weight[d]
             /\ kind \in Harmless(w) \union {"delete", "hide"} =>
                  /\ Listing(w)' \subseteq Listing(w)
                  /\ Operation[w] = "search" =>
                       \A d \in Listing(w)' : weight'[d] = weight[d]
<1>1. PICK e \in Entries : HostCreate(e) \/ HostDelete(e) \/ HostEdit(e)
                           \/ HostHide(e) \/ HostShow(e)
    BY DEF HostStep
<1>2. DOMAIN weight = Entries
    BY DEF PagingTypes, VaultTypes
<1>3. CASE HostCreate(e)
  <2>1. /\ e \notin Present /\ Change("create") /\ unreadable' = unreadable
        /\ \A d \in Entries : d # e => weight'[d] = weight[d]
      BY <1>2, <1>3 DEF HostCreate
  <2>2. Listing(w) \subseteq Listing(w)' /\ \A d \in Listing(w) : weight'[d] = weight[d]
      BY <2>1 DEF Listing, Lists, Present
  <2>3. "create" \in Changes /\ "create" \notin Harmless(w) \union {"delete", "hide"}
      BY DEF Changes, Harmless
  <2> QED
      BY <2>1, <2>2, <2>3
<1>4. CASE HostDelete(e)
  <2>1. /\ Change("delete") /\ unreadable' = unreadable
        /\ \A d \in Entries : d # e => weight'[d] = weight[d]
        /\ weight'[e] = -1
      BY <1>2, <1>4 DEF HostDelete
  <2>2. Listing(w)' \subseteq Listing(w) /\ \A d \in Listing(w)' : weight'[d] = weight[d]
      BY <2>1 DEF Listing, Lists, Present
  <2>3. "delete" \in Changes /\ "delete" \notin Harmless(w) \union {"create", "show"}
      BY DEF Changes, Harmless
  <2> QED
      BY <2>1, <2>2, <2>3
<1>5. CASE HostEdit(e)
  <2>1. /\ Change("edit") /\ unreadable' = unreadable
        /\ \A d \in Entries : d # e => weight'[d] = weight[d]
        /\ e \in Present /\ weight'[e] >= 0
      BY <1>2, <1>5 DEF HostEdit
  <2>2. Operation[w] = "tree" => Listing(w)' = Listing(w)
      BY <2>1 DEF Listing, Lists, Present
  <2>3. "edit" \in Changes /\ (Operation[w] # "tree" => Harmless(w) = {})
      BY DEF Changes, Harmless
  <2>4. Operation[w] = "tree" => Operation[w] # "search"
      OBVIOUS
  <2>5. CASE Operation[w] = "tree"
      BY <2>1, <2>2, <2>3, <2>4, <2>5
  <2>6. CASE Operation[w] # "tree"
      BY <2>1, <2>3, <2>6
  <2> QED
      BY <2>5, <2>6
<1>6. CASE HostHide(e)
  <2>1. Change("hide") /\ unreadable' = unreadable \union {e} /\ weight' = weight
      BY <1>6 DEF HostHide
  <2>2. Listing(w)' \subseteq Listing(w)
      BY <2>1 DEF Listing, Lists, Present
  <2>3. "hide" \in Changes /\ "hide" \notin Harmless(w) \union {"create", "show"}
      BY DEF Changes, Harmless
  <2> QED
      BY <2>1, <2>2, <2>3
<1>7. CASE HostShow(e)
  <2>1. Change("show") /\ unreadable' = unreadable \ {e} /\ weight' = weight
      BY <1>7 DEF HostShow
  <2>2. Listing(w) \subseteq Listing(w)'
      BY <2>1 DEF Listing, Lists, Present
  <2>3. "show" \in Changes /\ "show" \notin Harmless(w) \union {"delete", "hide"}
      BY DEF Changes, Harmless
  <2> QED
      BY <2>1, <2>2, <2>3
<1> QED
    BY <1>1, <1>3, <1>4, <1>5, <1>6, <1>7

LEMMA HostKeeps ==
    ASSUME PagingTypes, PagingTypes', HostStep, NEW w \in Walkers, WalkInv(w)
    PROVE  WalkInv(w)'
<1>1. PICK kind \in Changes :
        /\ Change(kind)
        /\ kind \in Harmless(w) \union {"create", "show"} =>
             /\ Listing(w) \subseteq Listing(w)'
             /\ Operation[w] = "search" => \A d \in Listing(w) : weight'[d] = weight[d]
        /\ kind \in Harmless(w) \union {"delete", "hide"} =>
             /\ Listing(w)' \subseteq Listing(w)
             /\ Operation[w] = "search" => \A d \in Listing(w)' : weight'[d] = weight[d]
    BY ChangeEffect
<1>2. /\ UNCHANGED <<pc, cursor, offset, names, rows, got, atStart>>
      /\ changes'[w] = changes[w] \union {kind}
    BY <1>1 DEF Change, request
<1>3. /\ Begun(w)' <=> Begun(w)
      /\ Reached(w)' = Reached(w) /\ Harmless(w)' = Harmless(w)
    BY <1>2 DEF Begun, Reached, Harmless
<1>4. Orderly(w)'
    BY <1>2 DEF WalkInv, Orderly
<1>5. /\ Listing(w) \subseteq Entries /\ Listing(w)' \subseteq Entries
      /\ DOMAIN rows[w] \subseteq Entries
      /\ \A e : RankOf(w, e) \in Nat /\ RankOf(w, e)' \in Nat
      /\ Begun(w) => Reached(w) \in Nat
  <2>1. cursor[w] # None => cursor[w].n \in Nat
      BY PagingAssumption DEF PagingTypes, CursorTypes
  <2> QED
      BY <2>1, FoundType, FoundTypeNext
      DEF FoundTyped, PagingTypes, RequestTypes, RowTypes, Reached
<1>6. \A e \in Entries :
        /\ Weights(w)[e] = IF e \in DOMAIN rows[w] THEN rows[w][e] ELSE weight[e]
        /\ Weights(w)'[e] = IF e \in DOMAIN rows[w] THEN rows[w][e] ELSE weight'[e]
    BY <1>2 DEF Weights
<1>7. Grows(w)'
  <2>1. SUFFICES ASSUME changes'[w] \subseteq Harmless(w) \union {"create", "show"}
                 PROVE  /\ Begun(w) =>
                             /\ atStart[w] \subseteq Found(w)' /\ Found(w)' \subseteq Listing(w)'
                             /\ Operation[w] = "search" =>
                                  \A e \in Found(w)' : Weights(w)'[e] = weight'[e]
                             /\ \A e \in atStart[w] :
                                  got[w][e] = 0 => RankOf(w, e)' >= Reached(w)
                        /\ pc[w] = "done" => \A e \in atStart[w] : got[w][e] >= 1
      BY <1>2, <1>3 DEF Grows
  <2>2. /\ changes[w] \subseteq Harmless(w) \union {"create", "show"}
        /\ Listing(w) \subseteq Listing(w)'
        /\ Operation[w] = "search" => \A d \in Listing(w) : weight'[d] = weight[d]
      BY <1>1, <1>2, <2>1
  <2>3. pc[w] = "done" => \A e \in atStart[w] : got[w][e] >= 1
      BY <2>2 DEF WalkInv, Grows
  <2>4. ASSUME Begun(w)
        PROVE  /\ atStart[w] \subseteq Found(w)' /\ Found(w)' \subseteq Listing(w)'
               /\ Operation[w] = "search" => \A e \in Found(w)' : Weights(w)'[e] = weight'[e]
               /\ \A e \in atStart[w] : got[w][e] = 0 => RankOf(w, e)' >= Reached(w)
    <3>1. /\ atStart[w] \subseteq Found(w) /\ Found(w) \subseteq Listing(w)
          /\ Operation[w] = "search" => \A e \in Found(w) : Weights(w)[e] = weight[e]
          /\ \A e \in atStart[w] : got[w][e] = 0 => RankOf(w, e) >= Reached(w)
        BY <2>2, <2>4 DEF WalkInv, Grows
    <3>2. Found(w) \subseteq Found(w)' /\ Found(w)' \subseteq Listing(w)'
        BY <1>2, <2>2, <3>1 DEF Found
    <3>3. Operation[w] = "search" => \A e \in Found(w) : Weights(w)'[e] = Weights(w)[e]
        BY <1>5, <1>6, <2>2, <3>1
    <3>4. Operation[w] = "search" => \A e \in Found(w)' : Weights(w)'[e] = weight'[e]
      <4> SUFFICES ASSUME Operation[w] = "search", NEW e \in Found(w)', e \in DOMAIN rows[w]
                   PROVE  Weights(w)'[e] = weight'[e]
          BY <1>5, <1>6, <3>2
      <4>1. e \in Found(w)
          BY DEF Found
      <4> QED
          BY <2>2, <3>1, <3>3, <4>1
    <3>5. \A e \in Found(w) : RankOf(w, e) <= RankOf(w, e)'
        BY <3>2, <3>3, RanksRise DEF PagingTypes
    <3>6. ASSUME NEW e \in atStart[w], got[w][e] = 0 PROVE RankOf(w, e)' >= Reached(w)
      <4>1. RankOf(w, e) >= Reached(w) /\ RankOf(w, e) <= RankOf(w, e)'
          BY <3>1, <3>5, <3>6
      <4> QED
          BY <1>5, <2>4, <4>1
    <3> QED
        BY <3>1, <3>2, <3>4, <3>6
  <2> QED
      BY <2>3, <2>4
<1>8. Shrinks(w)'
  <2>1. SUFFICES ASSUME changes'[w] \subseteq Harmless(w) \union {"delete", "hide"}
                 PROVE  /\ \A e \in Entries :
                             got[w][e] <= 1 /\ (got[w][e] >= 1 => e \in atStart[w])
                        /\ Begun(w) =>
                             /\ Listing(w)' \subseteq Found(w)' /\ Found(w)' \subseteq atStart[w]
                             /\ Operation[w] = "search" =>
                                  \A e \in Listing(w)' : Weights(w)'[e] = weight'[e]
                             /\ \A e \in Found(w)' :
                                  got[w][e] >= 1 => RankOf(w, e)' < Reached(w)
      BY <1>2, <1>3 DEF Shrinks
  <2>2. /\ changes[w] \subseteq Harmless(w) \union {"delete", "hide"}
        /\ Listing(w)' \subseteq Listing(w)
        /\ Operation[w] = "search" => \A d \in Listing(w)' : weight'[d] = weight[d]
      BY <1>1, <1>2, <2>1
  <2>3. \A e \in Entries : got[w][e] <= 1 /\ (got[w][e] >= 1 => e \in atStart[w])
      BY <2>2 DEF WalkInv, Shrinks
  <2>4. ASSUME Begun(w)
        PROVE  /\ Listing(w)' \subseteq Found(w)' /\ Found(w)' \subseteq atStart[w]
               /\ Operation[w] = "search" => \A e \in Listing(w)' : Weights(w)'[e] = weight'[e]
               /\ \A e \in Found(w)' : got[w][e] >= 1 => RankOf(w, e)' < Reached(w)
    <3>1. /\ Listing(w) \subseteq Found(w) /\ Found(w) \subseteq atStart[w]
          /\ Operation[w] = "search" => \A e \in Listing(w) : Weights(w)[e] = weight[e]
          /\ \A e \in Found(w) : got[w][e] >= 1 => RankOf(w, e) < Reached(w)
        BY <2>2, <2>4 DEF WalkInv, Shrinks
    <3>2. Found(w)' \subseteq Found(w) /\ Listing(w)' \subseteq Found(w)'
        BY <1>2, <2>2, <3>1 DEF Found
    <3>3. Operation[w] = "search" => \A e \in Listing(w)' : Weights(w)'[e] = weight'[e]
        BY <1>5, <1>6, <2>2, <3>1
    <3>4. Operation[w] = "search" => \A e \in Found(w)' : Weights(w)'[e] = Weights(w)[e]
      <4> SUFFICES ASSUME Operation[w] = "search", NEW e \in Found(w)', e \notin DOMAIN rows[w]
                   PROVE  Weights(w)'[e] = Weights(w)[e]
          BY <1>5, <1>6, <3>2
            DEF Found
      <4>1. e \in Listing(w)'
          BY <1>2 DEF Found
      <4> QED
          BY <1>5, <1>6, <2>2, <4>1
    <3>5. \A e \in Found(w)' : RankOf(w, e)' <= RankOf(w, e)
        BY <3>2, <3>4, RanksFall DEF PagingTypes
    <3>6. ASSUME NEW e \in Found(w)', got[w][e] >= 1 PROVE RankOf(w, e)' < Reached(w)
      <4>1. RankOf(w, e) < Reached(w) /\ RankOf(w, e)' <= RankOf(w, e)
          BY <3>1, <3>2, <3>5, <3>6
      <4> QED
          BY <1>5, <2>4, <4>1
    <3> QED
        BY <3>1, <3>2, <3>3, <3>6
  <2> QED
      BY <2>3, <2>4
<1> QED
    BY <1>4, <1>7, <1>8 DEF WalkInv

\* A folder that fails in a scan counts as hidden and shown again: neither half
\* of the promise is kept for this walk, and no other walk is touched.
LEMMA ScanFailsKeeps ==
    ASSUME PagingTypes, NEW u \in Walkers, ScanFails(u), NEW w \in Walkers, WalkInv(w)
    PROVE  WalkInv(w)'
<1>1. CASE w # u
  <2>1. Untouched(w)
      BY <1>1 DEF ScanFails, Untouched, last, PagingTypes, RequestTypes, HistoryTypes
  <2> QED
      BY <2>1, UntouchedKeeps
<1>2. CASE w = u
  <2>1. {"hide", "show"} \subseteq changes'[w]
      BY <1>2 DEF ScanFails, PagingTypes, HistoryTypes
  <2>2. ~(changes'[w] \subseteq Harmless(w)' \union {"create", "show"})
      BY <2>1 DEF Harmless
  <2>3. ~(changes'[w] \subseteq Harmless(w)' \union {"delete", "hide"})
      BY <2>1 DEF Harmless
  <2>4. pc[w] = "scan" /\ names'[w] \subseteq names[w] /\ UNCHANGED <<pc, cursor, offset, rows>>
      BY <1>2 DEF ScanFails, PagingTypes, RequestTypes
  <2>5. Orderly(w)'
      BY <2>4 DEF WalkInv, Orderly
  <2>6. Grows(w)' /\ Shrinks(w)'
      BY <2>2, <2>3 DEF Grows, Shrinks
  <2> QED
      BY <2>5, <2>6 DEF WalkInv
<1> QED
    BY <1>1, <1>2

\* A refused request leaves every walk where it is.
LEMMA RefuseKeeps ==
    ASSUME NEW u \in Walkers, NEW error, Refuse(u, error), NEW w \in Walkers, WalkInv(w)
    PROVE  WalkInv(w)'
<1>1. Untouched(w)
    BY DEF Refuse, request, history, Untouched
<1> QED
    BY <1>1, UntouchedKeeps

-----------------------------------------------------------------------------
(* The theorems.                                                           *)

LEMMA InitPagingInv == Init => PagingInv
<1> SUFFICES ASSUME Init, NEW w \in Walkers PROVE WalkInv(w)
    BY InitPagingTypes DEF PagingInv, WalkInv
<1>1. pc[w] = "idle" /\ cursor[w] = None /\ names[w] = {} /\ rows[w] = NoRows
    BY DEF Init
<1>2. DOMAIN NoRows = {} /\ \A e \in Entries : got[w][e] = 0
    BY DEF Init, NoRows, NothingYet
<1> QED
    BY <1>1, <1>2 DEF WalkInv, Orderly, Grows, Shrinks, Begun

LEMMA NextPagingInv == PagingInv /\ [Next]_vars => PagingInv'
<1> SUFFICES ASSUME PagingInv, [Next]_vars PROVE PagingInv'
    OBVIOUS
<1>1. PagingTypes /\ PagingTypes'
    BY NextPagingTypes DEF PagingInv
<1> SUFFICES ASSUME NEW w \in Walkers, WalkInv(w) PROVE WalkInv(w)'
    BY <1>1 DEF PagingInv, WalkInv
<1>2. ASSUME NEW u \in Walkers, NEW n \in Limits, AskFirst(u, n) PROVE WalkInv(w)'
    BY <1>1, <1>2, AskFirstKeeps
<1>3. ASSUME NEW u \in Walkers, NEW n \in Limits, AskNext(u, n) PROVE WalkInv(w)'
    BY <1>1, <1>3, AskNextKeeps
<1>4. ASSUME NEW u \in Walkers, AskExpired(u) PROVE WalkInv(w)'
    BY <1>1, <1>4, RestartKeeps DEF AskExpired
<1>5. ASSUME NEW u \in Walkers, NEW n \in Limits, AskMistaken(u, n) PROVE WalkInv(w)'
    BY <1>1, <1>5, MistakenRestarts, RestartKeeps
<1>6. ASSUME NEW u \in Walkers, NEW e \in Entries, Visit(u, e) PROVE WalkInv(w)'
    BY <1>1, <1>6, VisitKeeps
<1>7. ASSUME NEW u \in Walkers, Answer(u) PROVE WalkInv(w)'
    BY <1>1, <1>7, AnswerKeeps
<1>8. ASSUME NEW u \in Walkers, AnswerUncodable(u) PROVE WalkInv(w)'
    BY <1>1, <1>8, RestartKeeps DEF AnswerUncodable
<1>9. ASSUME NEW u \in Walkers, LoseAnswer(u) PROVE WalkInv(w)'
    BY <1>1, <1>9, LoseAnswerKeeps
<1>10. ASSUME RotateToken PROVE WalkInv(w)'
    BY <1>1, <1>10, RotateKeeps
<1>11. ASSUME HostStep PROVE WalkInv(w)'
    BY <1>1, <1>11, HostKeeps
<1>12. ASSUME UNCHANGED vars PROVE WalkInv(w)'
  <2>1. Untouched(w)
      BY <1>12 DEF vars, request, history, Untouched
  <2> QED
      BY <2>1, UntouchedKeeps
<1>13. ASSUME NEW u \in Walkers, AskFolderAway(u) PROVE WalkInv(w)'
    BY <1>13, RefuseKeeps DEF AskFolderAway
<1>14. ASSUME NEW u \in Walkers, ScanFails(u) PROVE WalkInv(w)'
    BY <1>1, <1>14, ScanFailsKeeps
<1>15. ASSUME NEW u \in Walkers, NEW n \in Limits, AskBadLimit(u, n) PROVE WalkInv(w)'
    BY <1>15, RefuseKeeps DEF AskBadLimit
<1> QED
    BY <1>2, <1>3, <1>4, <1>5, <1>6, <1>7, <1>8, <1>9, <1>10, <1>11, <1>12, <1>13, <1>14, <1>15
    DEF Next, Walk, AllDone

LEMMA PagingInvHolds == Spec => []PagingInv
BY InitPagingInv, NextPagingInv, PTL DEF Spec

\* A walk that has come to its end while entries only appeared, or came back,
\* has delivered every entry of the listing it began with: what comes in ahead
\* of an entry pushes it back to a later page, never to an earlier one.
THEOREM NothingMissed == Spec => []GrowthMissesNothing
<1>1. PagingInv => GrowthMissesNothing
    BY DEF PagingInv, Grows, GrowthMissesNothing, Finished
<1> QED
    BY <1>1, PagingInvHolds, PTL

\* While entries only disappear, or cannot be read, no entry is delivered twice:
\* what was delivered is passed, and nothing comes in ahead of it.
THEOREM NothingRepeated == Spec => []ShrinkageRepeatsNothing
<1>1. PagingInv => ShrinkageRepeatsNothing
    BY DEF PagingInv, Shrinks, ShrinkageRepeatsNothing
<1> QED
    BY <1>1, PagingInvHolds, PTL

\* Through a listing nobody changes, a finished walk delivers that listing, each
\* entry once, whatever the page sizes, lost answers, new tokens and cursors of
\* other listings on the way.
THEOREM EachOnce == Spec => []WalkDeliversEachOnce
<1>1. PagingInv => WalkDeliversEachOnce
  <2> SUFFICES ASSUME PagingInv, NEW w \in Walkers, pc[w] = "done",
                      changes[w] \subseteq Harmless(w), NEW e \in Entries
               PROVE  got[w][e] = (IF e \in atStart[w] THEN 1 ELSE 0)
      BY DEF WalkDeliversEachOnce, Finished
  <2>1. e \in atStart[w] => got[w][e] >= 1
      BY DEF PagingInv, Grows
  <2>2. got[w][e] <= 1 /\ (got[w][e] >= 1 => e \in atStart[w])
      BY DEF PagingInv, Shrinks
  <2>3. got[w][e] \in Nat
      BY DEF PagingInv, PagingTypes, HistoryTypes
  <2> QED
      BY <2>1, <2>2, <2>3
<1> QED
    BY <1>1, PagingInvHolds, PTL
=============================================================================
