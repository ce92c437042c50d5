-------------------------- MODULE PreparationProofs --------------------------
(***************************************************************************)
(* Proofs about what a preparation rests on and what comes of it: the      *)
(* sorts of registries and cores, Catalog for any callers, processes,      *)
(* bodies and digests, and Evaluation for any tools, requests and answers: *)
(* what a core returns, where a tool is said to be lost, and how an agent  *)
(* is graded.                                                              *)
(***************************************************************************)
EXTENDS Catalog, Evaluation, FiniteSetTheorems, NaturalsInduction, WellFoundedInduction, TLAPS
-----------------------------------------------------------------------------
(* Sorting *)

\* The first n numbers.
LEMMA UpToIsFinite == \A n \in Nat : IsFiniteSet(1..n) /\ Cardinality(1..n) = n
<1> TAKE n \in Nat
<1>1. IsFiniteSet(1..n) /\ Cardinality(1..n) = IF 1 > n THEN 0 ELSE n - 1 + 1
  BY FS_Interval
<1> QED
  BY <1>1

\* What a sort needs: finitely many members with two numbers each, of which no two
\* share the second.
Sortable(S, first, second) ==
    /\ IsFiniteSet(S)
    /\ \A x \in S : first[x] \in Int /\ second[x] \in Int
    /\ \A x, y \in S : second[x] = second[y] => x = y

\* As many members go before one as there are places before its own.
LEMMA PlaceIsTotal ==
    ASSUME NEW S, NEW first, NEW second, Sortable(S, first, second)
    PROVE  \A x \in S : /\ Place(S, first, second, x) \in 0..(Cardinality(S) - 1)
                        /\ \A y \in S : Ahead(first, second, x, y) =>
                              Place(S, first, second, x) < Place(S, first, second, y)
<1> DEFINE Below(x) == {y \in S : Ahead(first, second, y, x)}
           n == Cardinality(S)
<1>1. n \in Nat
  BY FS_CardinalityType DEF Sortable
<1>2. ASSUME NEW x \in S
      PROVE  IsFiniteSet(Below(x)) /\ Cardinality(Below(x)) \in 0..(n - 1)
  <2>1. Below(x) \subseteq S \ {x}
    BY DEF Ahead, Sortable
  <2>2. IsFiniteSet(S \ {x}) /\ Cardinality(S \ {x}) = n - 1
    BY FS_RemoveElement DEF Sortable
  <2> HIDE DEF Below, n
  <2>3. IsFiniteSet(Below(x)) /\ Cardinality(Below(x)) <= n - 1
    BY <2>1, <2>2, FS_Subset
  <2>4. Cardinality(Below(x)) \in Nat
    BY <2>3, FS_CardinalityType
  <2> QED
    BY <1>1, <2>3, <2>4
<1>3. ASSUME NEW x \in S, NEW y \in S, Ahead(first, second, x, y)
      PROVE  Cardinality(Below(x)) < Cardinality(Below(y))
  <2>1. Below(x) \subseteq Below(y)
    BY <1>3 DEF Ahead, Sortable
  <2>2. x \in Below(y) /\ x \notin Below(x)
    BY <1>3 DEF Ahead, Sortable
  <2>3. IsFiniteSet(Below(x)) /\ IsFiniteSet(Below(y))
    BY <1>2
  <2> HIDE DEF Below
  <2>4. Below(x) # Below(y)
    BY <2>2
  <2>5. \A T \in SUBSET Below(y) :
           /\ IsFiniteSet(T) /\ Cardinality(T) <= Cardinality(Below(y))
           /\ Cardinality(T) = Cardinality(Below(y)) => T = Below(y)
    BY <2>3, FS_Subset
  <2>6. Cardinality(Below(x)) \in Nat /\ Cardinality(Below(y)) \in Nat
    BY <2>3, FS_CardinalityType
  <2> QED
    BY <2>1, <2>4, <2>5, <2>6
<1> QED
  BY <1>2, <1>3 DEF Place

\* A sort keeps every member, once, in ascending order.
LEMMA ArrangedIsSorted ==
    ASSUME NEW S, NEW first, NEW second, Sortable(S, first, second),
           NEW s, s = Arranged(S, first, second)
    PROVE  /\ Cardinality(S) \in Nat
           /\ s \in [1..Cardinality(S) -> S]
           /\ \A x \in S : \E n \in 1..Cardinality(S) : s[n] = x
           /\ \A m, n \in 1..Cardinality(S) : s[m] = s[n] => m = n
           /\ \A m, n \in 1..Cardinality(S) : m < n => Ahead(first, second, s[m], s[n])
<1> DEFINE n == Cardinality(S)
           At == [x \in S |-> Place(S, first, second, x)]
<1>1. n \in Nat
  BY FS_CardinalityType DEF Sortable
<1>2. /\ At \in [S -> 0..(n - 1)]
      /\ \A x, y \in S : Ahead(first, second, x, y) => At[x] < At[y]
  BY PlaceIsTotal
<1>3. \A x, y \in S : x = y \/ Ahead(first, second, x, y) \/ Ahead(first, second, y, x)
  BY DEF Ahead, Sortable
<1> HIDE DEF At
<1>4. At \in Surjection(S, 0..(n - 1)) /\ \A x, y \in S : At[x] = At[y] => x = y
  <2>1. \A x, y \in S : At[x] = At[y] => x = y
    BY <1>1, <1>2, <1>3
  <2>2. At \in Injection(S, 0..(n - 1))
    BY <1>2, <2>1 DEF Injection, IsInjective
  <2>3. IsFiniteSet(0..(n - 1)) /\ Cardinality(0..(n - 1)) = n
    BY <1>1, FS_Interval, SMTT(30)
  <2>4. IsFiniteSet(S)
    BY DEF Sortable
  <2> QED
    BY <2>1, <2>2, <2>3, <2>4, FS_Injection
<1>5. \A m \in 1..n : s[m] \in S /\ At[s[m]] = m - 1
  <2> TAKE m \in 1..n
  <2>1. m - 1 \in 0..(n - 1)
    BY <1>1
  <2>2. \E x \in S : Place(S, first, second, x) = m - 1
    BY <1>4, <2>1 DEF Surjection, At
  <2>3. s[m] = CHOOSE x \in S : Place(S, first, second, x) = m - 1
    BY DEF Arranged
  <2> QED
    BY <2>2, <2>3 DEF At
<1>6. s \in [1..n -> S]
  BY <1>5 DEF Arranged
<1>7. ASSUME NEW x \in S
      PROVE  \E m \in 1..n : s[m] = x
  <2>1. At[x] + 1 \in 1..n /\ (At[x] + 1) - 1 = At[x]
    BY <1>1, <1>2
  <2> QED
    BY <1>4, <1>5, <2>1
<1>8. ASSUME NEW k \in 1..n, NEW l \in 1..n, s[k] = s[l]
      PROVE  k = l
  BY <1>1, <1>5, <1>8
<1>9. ASSUME NEW k \in 1..n, NEW l \in 1..n, k < l
      PROVE  Ahead(first, second, s[k], s[l])
  <2>1. s[k] \in S /\ s[l] \in S /\ At[s[k]] = k - 1 /\ At[s[l]] = l - 1
    BY <1>5
  <2>2. s[k] # s[l] /\ ~(At[s[l]] < At[s[k]])
    BY <1>1, <1>9, <2>1
  <2> QED
    BY <1>2, <1>3, <2>1, <2>2
<1> QED
  BY <1>1, <1>6, <1>7, <1>8, <1>9

\* Nothing else does: an order of all members that ascends is what the sort leaves.
LEMMA ArrangedIsUnique ==
    ASSUME NEW S, NEW first, NEW second, Sortable(S, first, second),
           NEW s \in [1..Cardinality(S) -> S],
           \A m, n \in 1..Cardinality(S) : m < n => Ahead(first, second, s[m], s[n])
    PROVE  s = Arranged(S, first, second)
<1> DEFINE n == Cardinality(S)
<1>1. n \in Nat /\ IsFiniteSet(S)
  BY FS_CardinalityType DEF Sortable
<1>2. \A x, y \in S : ~(Ahead(first, second, x, y) /\ Ahead(first, second, y, x)) /\ ~Ahead(first, second, x, x)
  BY DEF Ahead, Sortable
<1>3. \A k, l \in 1..n : s[k] = s[l] => k = l
  <2> SUFFICES ASSUME NEW k \in 1..n, NEW l \in 1..n, s[k] = s[l], k # l
               PROVE  FALSE
    OBVIOUS
  <2>1. k < l \/ l < k
    BY <1>1
  <2> QED
    BY <1>2, <2>1
<1>4. s \in Surjection(1..n, S)
  <2>1. s \in Injection(1..n, S)
    BY <1>3 DEF Injection, IsInjective
  <2>2. IsFiniteSet(1..n) /\ Cardinality(1..n) = n
    BY <1>1, FS_Interval
  <2> QED
    BY <1>1, <2>1, <2>2, FS_Injection
<1>5. ASSUME NEW m \in 1..n
      PROVE  s[m] = CHOOSE x \in S : Place(S, first, second, x) = m - 1
  <2>1. \A l \in 1..n : Ahead(first, second, s[l], s[m]) <=> l < m
    <3> TAKE l \in 1..n
    <3>1. l < m \/ l = m \/ m < l
      BY <1>1
    <3> QED
      BY <1>1, <1>2, <3>1
  <2>2. {y \in S : Ahead(first, second, y, s[m])} = {s[l] : l \in 1..(m - 1)}
    <3>1. ASSUME NEW y \in S, Ahead(first, second, y, s[m])
          PROVE  \E l \in 1..(m - 1) : y = s[l]
      <4>1. PICK l \in 1..n : y = s[l]
        BY <1>4 DEF Surjection
      <4>2. l < m
        BY <2>1, <3>1, <4>1
      <4> QED
        BY <1>1, <4>1, <4>2
    <3>2. ASSUME NEW l \in 1..(m - 1)
          PROVE  s[l] \in S /\ Ahead(first, second, s[l], s[m])
      <4>1. l \in 1..n /\ l < m
        BY <1>1
      <4> QED
        BY <2>1, <4>1
    <3> QED
      BY <3>1, <3>2
  <2>3. Cardinality({s[l] : l \in 1..(m - 1)}) = m - 1
    <3> DEFINE T == {s[l] : l \in 1..(m - 1)}
               g == [l \in 1..(m - 1) |-> s[l]]
    <3>1. \A l \in 1..(m - 1) : l \in 1..n
      BY <1>1
    <3>2. g \in Bijection(1..(m - 1), T)
      BY <1>3, <3>1 DEF Bijection, Injection, Surjection, IsInjective
    <3> HIDE DEF g, T
    <3>3. m - 1 \in Nat
      BY <1>1
    <3>4. ExistsBijection(1..(m - 1), T)
      BY <3>2 DEF ExistsBijection
    <3>5. Cardinality(T) = m - 1
      BY <3>3, <3>4, UpToIsFinite, FS_Bijection
    <3> QED
      BY <3>5 DEF T
  <2>4. s[m] \in S /\ Place(S, first, second, s[m]) = m - 1
    BY <2>2, <2>3 DEF Place
  <2>5. ASSUME NEW x \in S, Place(S, first, second, x) = m - 1
        PROVE  x = s[m]
    <3>1. x = s[m] \/ Ahead(first, second, x, s[m]) \/ Ahead(first, second, s[m], x)
      BY <2>4 DEF Ahead, Sortable
    <3>2. m - 1 \in Int
      BY <1>1
    <3> QED
      BY <2>4, <2>5, <3>1, <3>2, PlaceIsTotal
  <2> QED
    BY <2>4, <2>5
<1> QED
  BY <1>5 DEF Arranged

\* A sort as a sequence, by its first number.
LEMMA ArrangedAscends ==
    ASSUME NEW S, NEW first, NEW second, Sortable(S, first, second),
           NEW s, s = Arranged(S, first, second)
    PROVE  /\ s \in Seq(S) /\ Len(s) = Cardinality(S) /\ Len(s) \in Nat
           /\ \A x \in S : \E n \in 1..Len(s) : s[n] = x
           /\ \A m, n \in 1..Len(s) : s[m] = s[n] => m = n
           /\ \A m, n \in 1..Len(s) : m <= n => first[s[m]] <= first[s[n]]
<1>1. /\ Cardinality(S) \in Nat
      /\ s \in [1..Cardinality(S) -> S]
      /\ \A x \in S : \E n \in 1..Cardinality(S) : s[n] = x
      /\ \A m, n \in 1..Cardinality(S) : s[m] = s[n] => m = n
      /\ \A m, n \in 1..Cardinality(S) : m < n => Ahead(first, second, s[m], s[n])
  BY ArrangedIsSorted
<1>2. s \in Seq(S) /\ Len(s) = Cardinality(S)
  BY <1>1
<1>3. ASSUME NEW m \in 1..Len(s), NEW n \in 1..Len(s), m <= n
      PROVE  first[s[m]] <= first[s[n]]
  <2>1. s[m] \in S /\ s[n] \in S /\ first[s[m]] \in Int /\ first[s[n]] \in Int
    BY <1>1, <1>2 DEF Sortable
  <2>2. CASE m = n
    BY <2>1, <2>2
  <2>3. CASE m < n
    BY <1>1, <1>2, <2>1, <2>3 DEF Ahead
  <2> QED
    BY <1>3, <2>2, <2>3
<1> QED
  BY <1>1, <1>2, <1>3
-----------------------------------------------------------------------------
(* The catalog *)

\* The registry's sort gives the same tools, by ascending ids.
LEMMA SortedIsSorted ==
    ASSUME NEW T, NEW tools \in Seq(T), \A k \in DOMAIN tools : tools[k].id \in Int
    PROVE  /\ Sorted(tools) \in Seq(T)
           /\ DOMAIN Sorted(tools) = DOMAIN tools
           /\ Len(Sorted(tools)) = Len(tools)
           /\ \A m \in DOMAIN tools : \E k \in DOMAIN tools : Sorted(tools)[m] = tools[k]
           /\ (\A k, l \in DOMAIN tools : tools[k].id = tools[l].id => k = l)
              => \A m, l \in DOMAIN tools :
                    m < l => Sorted(tools)[m].id < Sorted(tools)[l].id
<1> DEFINE n == Len(tools)
           ids == [k \in DOMAIN tools |-> tools[k].id]
           places == [k \in DOMAIN tools |-> k]
           order == Arranged(DOMAIN tools, ids, places)
<1>1. n \in Nat /\ DOMAIN tools = 1..n /\ tools \in [1..n -> T]
  OBVIOUS
<1>2. Sorted(tools) = [m \in DOMAIN tools |-> tools[order[m]]]
  BY DEF Sorted
<1>3. \A k \in DOMAIN tools : ids[k] = tools[k].id /\ places[k] = k
  OBVIOUS
<1>4. Len(tools) = n
  OBVIOUS
<1> HIDE DEF n, ids, places
<1>5. IsFiniteSet(DOMAIN tools) /\ Cardinality(DOMAIN tools) = n
  BY <1>1, FS_Interval
<1>6. Sortable(DOMAIN tools, ids, places)
  BY <1>1, <1>3, <1>5 DEF Sortable
<1> HIDE DEF order
<1>7. /\ order \in [1..n -> DOMAIN tools]
      /\ \A m, l \in 1..n : order[m] = order[l] => m = l
      /\ \A m, l \in 1..n : m < l => Ahead(ids, places, order[m], order[l])
  BY <1>5, <1>6, ArrangedIsSorted DEF order
<1>8. Sorted(tools) \in [1..n -> T]
  BY <1>1, <1>2, <1>7
<1>9. \A m \in 1..n : \E k \in 1..n : Sorted(tools)[m] = tools[k]
  BY <1>1, <1>2, <1>7
<1>10. ASSUME \A k, l \in DOMAIN tools : tools[k].id = tools[l].id => k = l,
              NEW m \in 1..n, NEW l \in 1..n, m < l
       PROVE  Sorted(tools)[m].id < Sorted(tools)[l].id
  <2>1. order[m] \in 1..n /\ order[l] \in 1..n /\ order[m] # order[l]
    BY <1>1, <1>7, <1>10
  <2>2. tools[order[m]].id < tools[order[l]].id \/ tools[order[m]].id = tools[order[l]].id
    <3>1. Ahead(ids, places, order[m], order[l])
      BY <1>7, <1>10
    <3> QED
      BY <1>1, <1>3, <2>1, <3>1 DEF Ahead
  <2>3. tools[order[m]].id # tools[order[l]].id
    BY <1>1, <1>10, <2>1
  <2>4. Sorted(tools)[m] = tools[order[m]] /\ Sorted(tools)[l] = tools[order[l]]
    BY <1>1, <1>2
  <2> QED
    BY <2>2, <2>3, <2>4
<1>11. Sorted(tools) \in Seq(T) /\ DOMAIN Sorted(tools) = 1..n /\ Len(Sorted(tools)) = n
  BY <1>1, <1>8
<1> QED
  BY <1>1, <1>4, <1>9, <1>10, <1>11

USE DEF Uploads

\* What is known of a request stays while it does not move and no row is taken away.
LEMMA BodyStays ==
    ASSUME NEW q \in Callers, BodyInv(q), req'[q] = req[q],
           \A v \in Versions : table[v] # Absent => table'[v] = table[v]
    PROVE  BodyInv(q)'
<1>1. ASSUME req[q].pc \in Preparing
      PROVE  req[q].version \in Versions /\ req[q].row = table'[req[q].version]
  BY <1>1 DEF BodyInv
<1>2. /\ req'[q].pc = req[q].pc /\ req'[q].version = req[q].version /\ req'[q].want = req[q].want
      /\ req'[q].tools = req[q].tools /\ req'[q].i = req[q].i /\ req'[q].at = req[q].at
      /\ req'[q].row = req[q].row
  OBVIOUS
<1> QED
  BY <1>1, <1>2 DEF BodyInv

LEMMA AnswerStays ==
    ASSUME NEW q \in Callers, AnswerInv(q), req'[q] = req[q], answer'[q] = answer[q],
           \A v \in Versions : table[v] # Absent =>
              /\ table'[v] = table[v]
              /\ req'[table[v].created] = req[table[v].created]
    PROVE  AnswerInv(q)'
<1>1. /\ req'[q].pc = req[q].pc /\ req'[q].version = req[q].version /\ req'[q].want = req[q].want
      /\ req'[q].tools = req[q].tools /\ req'[q].i = req[q].i /\ req'[q].at = req[q].at
      /\ req'[q].known = req[q].known
  OBVIOUS
<1> QED
  BY <1>1 DEF AnswerInv, Answered, Tool

\* The rows stay as they were checked if their makers do not move.
LEMMA RowsStay ==
    ASSUME CatalogInv, table' = table,
           \A v \in Versions : table[v] # Absent =>
              req'[table[v].created] = req[table[v].created],
           \A v \in Versions, c \in Callers : writer'[v] = c =>
              table[v] = Absent /\ req'[c].version = v /\ req'[c].pc \in {"select", "commit"}
    PROVE  RowInv'
<1>1. ASSUME NEW v \in Versions, table[v] # Absent
      PROVE  LET tools == table[v].tools
                 keeper == table[v].created
             IN /\ Digest(tools) = v /\ Ascending(tools, Len(tools))
                /\ req'[keeper].pc = "done" /\ req'[keeper].at \in Processes
                /\ Compiled(req'[keeper].at, tools, Len(tools))
  BY <1>1 DEF CatalogInv, RowInv
<1> QED
  BY <1>1 DEF RowInv, Compiled, Ascending

\* A committed row was made by a request that is done, so nobody else's step moves it.
LEMMA KeeperStays ==
    ASSUME CatalogInv, NEW r \in Callers, req[r].pc # "done",
           \A q \in Callers \ {r} : req'[q] = req[q],
           UNCHANGED <<table, writer>>, req'[r].version = req[r].version,
           req[r].pc \in {"select", "commit"} /\ writer[req[r].version] = r =>
              req'[r].pc \in {"select", "commit"}
    PROVE  RowInv'
<1>1. ASSUME NEW v \in Versions, table[v] # Absent
      PROVE  req'[table[v].created] = req[table[v].created]
  BY <1>1 DEF CatalogInv, CatalogTypeOK, RowInv, Row
<1>2. \A v \in Versions, c \in Callers : writer'[v] = c =>
         table[v] = Absent /\ req'[c].version = v /\ req'[c].pc \in {"select", "commit"}
  BY DEF CatalogInv, RowInv
<1> QED
  BY <1>1, <1>2, RowsStay

\* A step of one request keeps the invariant of the others if it takes no row away.
LEMMA OneMoves ==
    ASSUME CatalogInv, CatalogTypeOK', RowInv', NEW r \in Callers, req[r].pc # "done",
           \A q \in Callers \ {r} : req'[q] = req[q] /\ answer'[q] = answer[q],
           \A v \in Versions : /\ table[v] # Absent => table'[v] = table[v]
                               /\ \A q \in Callers \ {r} : writer[v] = q => writer'[v] = q,
           BodyInv(r)', FoundInv(r)', AnswerInv(r)'
    PROVE  CatalogInv'
<1>1. ASSUME NEW q \in Callers, q # r
      PROVE  BodyInv(q)'
  BY <1>1, BodyStays DEF CatalogInv
<1>2. ASSUME NEW q \in Callers, q # r
      PROVE  FoundInv(q)'
  BY <1>2 DEF CatalogInv, FoundInv, BodyInv, Storing, RowInv
<1>3. ASSUME NEW q \in Callers, q # r
      PROVE  AnswerInv(q)'
  <2>1. \A v \in Versions : table[v] # Absent =>
           /\ table'[v] = table[v]
           /\ req'[table[v].created] = req[table[v].created]
    <3>1. \A v \in Versions : table[v] # Absent =>
             table[v].created \in Callers /\ req[table[v].created].pc = "done"
      BY DEF CatalogInv, CatalogTypeOK, RowInv, Row
    <3> QED
      BY <3>1
  <2> QED
    BY <1>3, <2>1, AnswerStays DEF CatalogInv
<1> QED
  BY <1>1, <1>2, <1>3 DEF CatalogInv

\* Only the place of a request changes.
LEMMA MovedRequest ==
    ASSUME NEW q \in Request, NEW pc \in Places
    PROVE  [q EXCEPT !.pc = pc] \in Request
  BY DEF Request

\* A request that goes on without an answer and outside its transaction disturbs
\* nothing but how far its own checks have come.
LEMMA Moving ==
    ASSUME CatalogInv, CatalogTypeOK', NEW r \in Callers,
           req[r].pc \notin {"select", "commit", "done"},
           req'[r].pc \notin {"select", "commit", "done"},
           \A q \in Callers \ {r} : req'[q] = req[q],
           req'[r].known = req[r].known, req'[r].version = req[r].version,
           UNCHANGED <<answer, table, writer>>, BodyInv(r)'
    PROVE  CatalogInv'
<1>1. RowInv'
  BY KeeperStays
<1>2. FoundInv(r)'
  BY DEF CatalogInv, FoundInv
<1>3. answer[r] = Absent
  BY DEF CatalogInv, AnswerInv
<1>4. AnswerInv(r)'
  BY <1>3 DEF AnswerInv, Answered
<1> QED
  BY <1>1, <1>2, <1>4, OneMoves

\* Caches hold what their cores compile, within the limit.
CachesKept ==
    /\ cache \in [Processes -> SUBSET Schemas]
    /\ \A p \in Processes : /\ cache[p] \subseteq Takes(p) /\ IsFiniteSet(cache[p])
                            /\ Cardinality(cache[p]) <= MaxSchemas

\* A request that is answered disturbs nothing if its answer is right.
LEMMA AnsweringBesides ==
    ASSUME CatalogInv, NEW r \in Callers, NEW status, NEW info,
           req[r].pc # "done", Leave(r, status, info), UNCHANGED table, CachesKept',
           AnswerInv(r)'
    PROVE  CatalogInv'
<1> USE DEF Leave, Go
<1>1. /\ req' = [req EXCEPT ![r].pc = "done"]
      /\ req \in [Callers -> Request]
  BY DEF CatalogInv, CatalogTypeOK
<1>2. CatalogTypeOK'
  <2>1. req' \in [Callers -> Request]
    <3>1. "done" \in Places
      BY DEF Places
    <3>2. [req[r] EXCEPT !.pc = "done"] \in Request
      BY <1>1, <3>1, MovedRequest
    <3> QED
      BY <1>1, <3>2
  <2>2. writer' \in [Versions -> Callers \cup {Absent}] /\ DOMAIN answer' = Callers
    BY DEF CatalogInv, CatalogTypeOK
  <2> QED
    BY <2>1, <2>2 DEF CatalogInv, CatalogTypeOK, CachesKept
<1>3. RowInv'
  <2>1. ASSUME NEW v \in Versions, table[v] # Absent
        PROVE  req'[table[v].created] = req[table[v].created]
    BY <1>1, <2>1 DEF CatalogInv, CatalogTypeOK, RowInv, Row
  <2> QED
    BY <1>1, <2>1, CatalogAssumption DEF CatalogInv, RowInv
<1>4. BodyInv(r)'
  BY <1>1 DEF CatalogInv, BodyInv, Checking, Storing, Preparing
<1>5. FoundInv(r)'
  BY <1>1 DEF CatalogInv, FoundInv
<1>6. /\ \A q \in Callers \ {r} : req'[q] = req[q] /\ answer'[q] = answer[q]
      /\ \A v \in Versions : /\ table[v] # Absent => table'[v] = table[v]
                             /\ \A q \in Callers \ {r} : writer[v] = q => writer'[v] = q
  BY <1>1 DEF CatalogInv, CatalogTypeOK
<1> QED
  BY <1>2, <1>3, <1>4, <1>5, <1>6, OneMoves

LEMMA Answering ==
    ASSUME CatalogInv, NEW r \in Callers, NEW status, NEW info,
           req[r].pc # "done", Leave(r, status, info), UNCHANGED <<table, cache>>,
           AnswerInv(r)'
    PROVE  CatalogInv'
<1>1. CachesKept'
  BY DEF CatalogInv, CatalogTypeOK, CachesKept
<1> QED
  BY <1>1, AnsweringBesides

\* A body that fails a check is refused; the one of a registry for a schema only.
LEMMA Refusing ==
    ASSUME CatalogInv, NEW r \in Callers, NEW info,
           req[r].pc # "done", Leave(r, 422, info), UNCHANGED <<table, cache>>, Uploads(r),
           req[r].want.kind = "bootstrap" =>
              /\ info = "SCHEMA_UNSUPPORTED"
              /\ ~ {Tool(r).input, Tool(r).output} \subseteq Takes(req[r].at) \cup {Absent}
    PROVE  CatalogInv'
<1>1. AnswerInv(r)'
  BY DEF CatalogInv, CatalogTypeOK, Request, Leave, Go, AnswerInv, Answered, Tool
<1> QED
  BY <1>1, Answering

\* What is put into a cache compiles, and a cache does not outgrow its limit.
LEMMA InsertKeeps ==
    ASSUME NEW compiled, NEW held \in SUBSET compiled, NEW s \in compiled,
           IsFiniteSet(held), Cardinality(held) <= MaxSchemas
    PROVE  /\ Insert(held, s) \in SUBSET compiled
           /\ IsFiniteSet(Insert(held, s))
           /\ Cardinality(Insert(held, s)) <= MaxSchemas
<1>1. IsFiniteSet(held) /\ Cardinality(held) \in Nat /\ Cardinality(held) <= MaxSchemas
  BY FS_CardinalityType
<1>2. IsFiniteSet({s}) /\ Cardinality({s}) = 1 /\ MaxSchemas \in Nat \ {0}
  BY FS_Singleton, CatalogAssumption
<1>3. /\ IsFiniteSet(held \cup {s})
      /\ Cardinality(held) < MaxSchemas => Cardinality(held \cup {s}) <= MaxSchemas
  <2>1. /\ IsFiniteSet(held \cup {s})
        /\ Cardinality(held \cup {s}) = IF s \in held THEN Cardinality(held) ELSE Cardinality(held) + 1
    BY <1>1, FS_AddElement
  <2> QED
    BY <1>1, <1>2, <2>1
<1> QED
  BY <1>1, <1>2, <1>3 DEF Insert

\* What a core compiles are schemas.
LEMMA TakesSchemas ==
    ASSUME NEW p \in Processes
    PROVE  Takes(p) \subseteq Schemas
  BY CatalogAssumption DEF Takes

LEMMA CacheGrows ==
    ASSUME CatalogInv, NEW p \in Processes, NEW s \in Takes(p),
           cache' = [cache EXCEPT ![p] = Insert(cache[p], s)]
    PROVE  CachesKept'
<1>1. /\ cache \in [Processes -> SUBSET Schemas]
      /\ \A x \in Processes : /\ cache[x] \in SUBSET Takes(x) /\ IsFiniteSet(cache[x])
                              /\ Cardinality(cache[x]) <= MaxSchemas
  BY DEF CatalogInv, CatalogTypeOK
<1> DEFINE held == Insert(cache[p], s)
<1>2. held \in SUBSET Takes(p) /\ IsFiniteSet(held) /\ Cardinality(held) <= MaxSchemas
  BY <1>1, InsertKeeps
<1> HIDE DEF held
<1>3. held \in SUBSET Schemas
  BY <1>2, TakesSchemas
<1>4. /\ cache' \in [Processes -> SUBSET Schemas]
      /\ \A x \in Processes : cache'[x] = IF x = p THEN held ELSE cache[x]
  BY <1>1, <1>3 DEF held
<1> QED
  BY <1>1, <1>2, <1>4 DEF CachesKept

\* A request that goes to another place keeps every type.
LEMMA Going ==
    ASSUME CatalogInv, NEW r \in Callers, NEW pc \in Places, Go(r, pc),
           UNCHANGED <<answer, table, writer, cache>>
    PROVE  /\ CatalogTypeOK'
           /\ req' = [req EXCEPT ![r].pc = pc]
           /\ req'[r] = [req[r] EXCEPT !.pc = pc]
           /\ \A q \in Callers \ {r} : req'[q] = req[q]
<1>1. req \in [Callers -> Request] /\ req' = [req EXCEPT ![r].pc = pc]
  BY DEF CatalogInv, CatalogTypeOK, Go
<1>2. [req[r] EXCEPT !.pc = pc] \in Request
  BY <1>1, MovedRequest
<1>3. req' \in [Callers -> Request]
  BY <1>1, <1>2
<1> QED
  BY <1>1, <1>3 DEF CatalogInv, CatalogTypeOK

\* The answer of the negotiation is followed by the upload.
LEMMA KeepNegotiate ==
    ASSUME CatalogInv, NEW r \in Callers, Negotiate(r)
    PROVE  CatalogInv'
<1>1. "check" \in Places
  BY DEF Places
<1>2. Go(r, "check") /\ UNCHANGED <<answer, table, writer, cache>>
  BY DEF Negotiate
<1>3. req[r] \in Request /\ req[r].pc = "negotiate"
  BY DEF Negotiate, CatalogInv, CatalogTypeOK
<1>4. CatalogTypeOK' /\ req'[r] = [req[r] EXCEPT !.pc = "check"] /\ \A q \in Callers \ {r} : req'[q] = req[q]
  BY <1>1, <1>2, Going
<1>5. BodyInv(r)'
  BY <1>3, <1>4 DEF CatalogInv, BodyInv, Checking, Storing, Preparing, Request
<1> QED
  BY <1>2, <1>3, <1>4, <1>5, Moving DEF Request

\* The checks of the whole body.
LEMMA KeepCheck ==
    ASSUME CatalogInv, NEW r \in Callers, Check(r)
    PROVE  CatalogInv'
<1>1. req[r] \in Request /\ req[r].pc = "check" /\ req[r].tools \in Seq(Descriptor)
  BY DEF Check, CatalogInv, CatalogTypeOK, Request
<1>2. UNCHANGED <<table, cache>>
  BY DEF Check
<1>3. CASE req[r].tools = <<>> \/ Digest(req[r].tools) # req[r].version
  <2>1. PICK info : Leave(r, 422, info)
    BY <1>3 DEF Check
  <2>2. req[r].want.kind # "bootstrap" /\ Uploads(r)
    BY <1>1, <1>3 DEF CatalogInv, BodyInv
  <2> QED
    BY <1>1, <1>2, <2>1, <2>2, Refusing
<1>4. CASE req[r].tools # <<>> /\ Digest(req[r].tools) = req[r].version
  <2>1. Go(r, "tool") /\ UNCHANGED <<answer, writer>> /\ "tool" \in Places
    BY <1>4 DEF Check, Places, Checking
  <2>2. CatalogTypeOK' /\ req'[r] = [req[r] EXCEPT !.pc = "tool"] /\ \A q \in Callers \ {r} : req'[q] = req[q]
    BY <1>2, <2>1, Going
  <2>3. BodyInv(r)'
    BY <1>1, <1>4, <2>2 DEF CatalogInv, BodyInv, Checking, Storing, Preparing, Request,
                            Compiled, Ascending
  <2> QED
    BY <1>1, <1>2, <2>1, <2>2, <2>3, Moving DEF Request
<1> QED
  BY <1>3, <1>4

\* The next tool's id is compared, and its schema looked up.
LEMMA KeepNextTool ==
    ASSUME CatalogInv, NEW r \in Callers, NextTool(r)
    PROVE  CatalogInv'
<1> DEFINE q == req[r]
<1>1. /\ q \in Request /\ q.pc = "tool" /\ q.tools \in Seq(Descriptor) /\ q.i \in Nat \ {0}
      /\ BodyInv(r)
  BY DEF NextTool, CatalogInv, CatalogTypeOK, Request
<1>2. UNCHANGED <<table, cache>>
  BY DEF NextTool
<1>3. /\ q.i <= Len(q.tools) + 1 /\ Compiled(q.at, q.tools, q.i - 1) /\ Ascending(q.tools, q.i - 1)
      /\ q.at \in Processes /\ Uploads(r)
      /\ q.want.kind = "bootstrap" => Ascending(q.tools, Len(q.tools))
  BY <1>1 DEF BodyInv, Checking, Storing, Preparing
<1>4. \A k \in 1..Len(q.tools) : q.tools[k].id \in Int
  <2>1. \A k \in 1..Len(q.tools) : q.tools[k] \in Descriptor
    BY <1>1
  <2> QED
    BY <2>1 DEF Descriptor
<1> HIDE DEF q
<1>5. CASE q.i > Len(q.tools)
  <2>1. Go(r, "insert") /\ UNCHANGED <<answer, writer>> /\ "insert" \in Places
    BY <1>5 DEF NextTool, Places, Storing, q
  <2>2. CatalogTypeOK' /\ req'[r] = [q EXCEPT !.pc = "insert"] /\ \A c \in Callers \ {r} : req'[c] = req[c]
    BY <1>2, <2>1, Going DEF q
  <2>3. q.i - 1 = Len(q.tools)
    BY <1>1, <1>3, <1>5
  <2>4. BodyInv(r)'
    BY <1>1, <1>3, <2>2, <2>3
    DEF BodyInv, Checking, Storing, Preparing, Request, Compiled, Ascending, q
  <2> QED
    BY <1>1, <1>2, <2>1, <2>2, <2>4, Moving DEF Request, q
<1>6. CASE q.i <= Len(q.tools) /\ q.i > 1 /\ q.tools[q.i].id <= q.tools[q.i - 1].id
  <2>1. Leave(r, 422, "CATALOG_INVALID")
    BY <1>1, <1>6 DEF NextTool, Tool, q
  <2>2. q.want.kind # "bootstrap"
    <3>1. ~Ascending(q.tools, Len(q.tools))
      <4>1. q.i - 1 \in 1..Len(q.tools) /\ q.i \in 1..Len(q.tools) /\ q.i - 1 < q.i
        BY <1>1, <1>6
      <4>2. ~(q.tools[q.i - 1].id < q.tools[q.i].id)
        BY <1>4, <1>6, <4>1
      <4> QED
        BY <4>1, <4>2 DEF Ascending
    <3> QED
      BY <1>3, <3>1
  <2> QED
    BY <1>1, <1>2, <1>3, <2>1, <2>2, Refusing DEF q
<1>7. CASE /\ q.i <= Len(q.tools)
           /\ q.i > 1 => ~(q.tools[q.i].id <= q.tools[q.i - 1].id)
  <2>1. PICK pc \in {"compile", "output"} :
           /\ Go(r, pc) /\ UNCHANGED <<answer, writer>>
           /\ pc = "output" => q.tools[q.i].input \in cache[q.at]
    BY <1>1, <1>7 DEF NextTool, Tool, q
  <2>2. CatalogTypeOK' /\ req'[r] = [q EXCEPT !.pc = pc] /\ \A c \in Callers \ {r} : req'[c] = req[c]
    BY <1>2, <2>1, Going DEF Places, Checking, q
  <2>3. Ascending(q.tools, q.i)
    <3>1. ASSUME NEW k \in 1..q.i, k < q.i PROVE q.tools[k].id < q.tools[q.i].id
      <4>1. q.i > 1 /\ q.i - 1 \in 1..Len(q.tools) /\ q.i \in 1..Len(q.tools) /\ k \in 1..Len(q.tools)
        BY <1>1, <1>7, <3>1
      <4>2. q.tools[q.i - 1].id < q.tools[q.i].id
        BY <1>4, <1>7, <4>1
      <4>3. k = q.i - 1 \/ q.tools[k].id < q.tools[q.i - 1].id
        BY <1>1, <1>3, <3>1, <4>1 DEF Ascending
      <4> QED
        BY <1>4, <4>1, <4>2, <4>3
    <3>2. ASSUME NEW k \in 1..q.i, NEW l \in 1..q.i, k < l PROVE q.tools[k].id < q.tools[l].id
      <4>1. CASE l = q.i
        BY <3>1, <3>2, <4>1
      <4>2. CASE l # q.i
        <5>1. k \in 1..(q.i - 1) /\ l \in 1..(q.i - 1) /\ Ascending(q.tools, q.i - 1)
          BY <1>1, <1>3, <3>2, <4>2
        <5> QED
          BY <3>2, <5>1 DEF Ascending
      <4> QED
        BY <4>1, <4>2
    <3> QED
      BY <3>2 DEF Ascending
  <2>4. pc = "output" => q.tools[q.i].input \in Takes(q.at)
    <3>1. q.at \in Processes
      BY <1>1 DEF BodyInv, q
    <3> QED
      BY <2>1, <3>1 DEF CatalogInv, CatalogTypeOK
  <2>5. BodyInv(r)'
    BY <1>1, <1>3, <1>7, <2>1, <2>2, <2>3, <2>4
    DEF BodyInv, Checking, Storing, Preparing, Request, q
  <2> QED
    BY <1>1, <1>2, <2>1, <2>2, <2>5, Moving DEF Request, q
<1> QED
  BY <1>1, <1>5, <1>6, <1>7

\* An input schema is compiled and kept.
LEMMA KeepCompile ==
    ASSUME CatalogInv, NEW r \in Callers, Compile(r)
    PROVE  CatalogInv'
<1> DEFINE q == req[r]
<1>1. q \in Request /\ q.pc = "compile" /\ q.at \in Processes /\ BodyInv(r)
  BY DEF Compile, CatalogInv, CatalogTypeOK, BodyInv
<1>2. table' = table
  BY DEF Compile
<1>3. /\ q.tools \in Seq(Descriptor) /\ q.i \in Nat \ {0} /\ q.i <= Len(q.tools)
      /\ Uploads(r) /\ q.tools[q.i] \in Descriptor
  BY <1>1 DEF BodyInv, Request, Checking
<1>4. CASE q.tools[q.i].input \notin Takes(q.at)
  <2>1. Leave(r, 422, "SCHEMA_UNSUPPORTED") /\ UNCHANGED <<table, cache>>
    BY <1>4 DEF Compile, Tool
  <2>2. q.tools[q.i].input # Absent
    BY <1>3, CatalogAssumption DEF Descriptor
  <2> QED
    BY <1>1, <1>3, <1>4, <2>1, <2>2, Refusing DEF Tool
<1>5. CASE q.tools[q.i].input \in Takes(q.at)
  <2>1. /\ cache' = [cache EXCEPT ![q.at] = Insert(cache[q.at], q.tools[q.i].input)]
        /\ Go(r, "output") /\ UNCHANGED <<answer, writer>>
    BY <1>5 DEF Compile, Tool
  <2>2. /\ req' = [req EXCEPT ![r].pc = "output"] /\ req \in [Callers -> Request]
        /\ "output" \in Places
    BY <2>1 DEF Go, CatalogInv, CatalogTypeOK, Places, Checking
  <2>3. [q EXCEPT !.pc = "output"] \in Request
    BY <1>1, <2>2, MovedRequest
  <2>4. /\ req' \in [Callers -> Request] /\ req'[r] = [q EXCEPT !.pc = "output"]
        /\ \A c \in Callers \ {r} : req'[c] = req[c]
    BY <2>2, <2>3
  <2>7. CachesKept'
    BY <1>1, <1>5, <2>1, CacheGrows
  <2>8. CatalogTypeOK'
    BY <1>2, <2>1, <2>4, <2>7 DEF CatalogInv, CatalogTypeOK, CachesKept
  <2>9. BodyInv(r)'
    BY <1>1, <1>5, <2>4 DEF BodyInv, Checking, Storing, Preparing, Request
  <2> QED
    BY <1>1, <1>2, <2>1, <2>4, <2>8, <2>9, Moving DEF Request
<1> QED
  BY <1>4, <1>5

\* An output schema is compiled and the tool is done.
LEMMA KeepOutput ==
    ASSUME CatalogInv, NEW r \in Callers, Output(r)
    PROVE  CatalogInv'
<1> DEFINE q == req[r]
<1>1. q \in Request /\ q.pc = "output" /\ BodyInv(r) /\ UNCHANGED <<table, cache>>
  BY DEF Output, CatalogInv, CatalogTypeOK
<1>2. /\ q.tools \in Seq(Descriptor) /\ q.i \in Nat \ {0} /\ q.i <= Len(q.tools)
      /\ Compiled(q.at, q.tools, q.i - 1) /\ Ascending(q.tools, q.i) /\ Uploads(r)
      /\ q.tools[q.i].input \in Takes(q.at)
  BY <1>1 DEF BodyInv, Request, Checking
<1>3. CASE q.tools[q.i].output \in Takes(q.at) \cup {Absent}
  <2>1. /\ req' = [req EXCEPT ![r].pc = "tool", ![r].i = @ + 1] /\ UNCHANGED <<answer, writer>>
        /\ req \in [Callers -> Request]
    BY <1>3 DEF Output, Tool, CatalogInv, CatalogTypeOK
  <2>2. [q EXCEPT !.pc = "tool", !.i = @ + 1] \in Request
    <3>1. "tool" \in Places /\ q.i + 1 \in Nat \ {0}
      BY <1>2 DEF Places, Checking
    <3> QED
      BY <1>1, <3>1 DEF Request
  <2>3. /\ req' \in [Callers -> Request] /\ req'[r] = [q EXCEPT !.pc = "tool", !.i = @ + 1]
        /\ \A c \in Callers \ {r} : req'[c] = req[c]
    BY <2>1, <2>2
  <2>4. CatalogTypeOK'
    BY <1>1, <2>1, <2>3 DEF CatalogInv, CatalogTypeOK
  <2>5. Compiled(q.at, q.tools, q.i) /\ q.i + 1 - 1 = q.i /\ q.i + 1 <= Len(q.tools) + 1
    <3>1. \A k \in 1..q.i : k \in 1..(q.i - 1) \/ k = q.i
      BY <1>2
    <3>2. q.i + 1 - 1 = q.i /\ q.i + 1 <= Len(q.tools) + 1
      BY <1>2
    <3> QED
      BY <1>2, <1>3, <3>1, <3>2 DEF Compiled
  <2>6. BodyInv(r)'
    BY <1>1, <1>2, <2>3, <2>5 DEF BodyInv, Checking, Storing, Preparing, Request
  <2> QED
    BY <1>1, <2>1, <2>3, <2>4, <2>6, Moving DEF Request
<1>4. CASE q.tools[q.i].output \notin Takes(q.at) \cup {Absent}
  <2>1. Leave(r, 422, "SCHEMA_UNSUPPORTED")
    BY <1>4 DEF Output, Tool
  <2> QED
    BY <1>1, <1>2, <1>4, <2>1, Refusing DEF Tool
<1> QED
  BY <1>3, <1>4

\* The INSERT takes the place of a row that is not there.
LEMMA KeepStore ==
    ASSUME CatalogInv, NEW r \in Callers, Store(r)
    PROVE  CatalogInv'
<1> DEFINE q == req[r]
           v == q.version
<1>1. q \in Request /\ q.pc = "insert" /\ BodyInv(r) /\ UNCHANGED <<answer, table, cache>>
  BY DEF Store, CatalogInv, CatalogTypeOK
<1>2. v \in Versions /\ writer[v] = Absent /\ answer[r] = Absent
  BY <1>1 DEF Store, CatalogInv, BodyInv, AnswerInv, Storing
<1>3. /\ writer \in [Versions -> Callers \cup {Absent}] /\ table \in [Versions -> Row \cup {Absent}]
      /\ writer' = [writer EXCEPT ![v] = IF table[v] = Absent THEN r ELSE @]
      /\ req' = [req EXCEPT ![r].pc = "select"] /\ req \in [Callers -> Request]
  BY DEF Store, Go, CatalogInv, CatalogTypeOK
<1>4. /\ req' \in [Callers -> Request] /\ req'[r] = [q EXCEPT !.pc = "select"]
      /\ \A c \in Callers \ {r} : req'[c] = req[c]
  <2>1. "select" \in Places
    BY DEF Places, Storing
  <2>2. [q EXCEPT !.pc = "select"] \in Request
    BY <1>1, <2>1, MovedRequest
  <2> QED
    BY <1>3, <2>2
<1> HIDE DEF v
<1>5. /\ writer' \in [Versions -> Callers \cup {Absent}]
      /\ writer'[v] = IF table[v] = Absent THEN r ELSE Absent
      /\ \A u \in Versions \ {v} : writer'[u] = writer[u]
  BY <1>2, <1>3
<1>6. CatalogTypeOK'
  BY <1>1, <1>4, <1>5 DEF CatalogInv, CatalogTypeOK
<1>7. /\ req'[r].pc = "select" /\ req'[r].version = v /\ req'[r].known = q.known
      /\ req'[r].want = q.want /\ req'[r].tools = q.tools /\ req'[r].at = q.at
  BY <1>1, <1>4 DEF Request, v
<1>8. Absent \notin Callers
  BY CatalogAssumption
<1>9. RowInv'
  <2>1. ASSUME NEW u \in Versions, NEW c \in Callers, writer'[u] = c
        PROVE  table[u] = Absent /\ req'[c].version = u /\ req'[c].pc \in {"select", "commit"}
    <3>1. CASE u = v
      BY <1>5, <1>7, <1>8, <2>1, <3>1
    <3>2. CASE u # v
      <4>1. writer[u] = c
        BY <1>5, <2>1, <3>2
      <4>2. table[u] = Absent /\ req[c].version = u /\ req[c].pc \in {"select", "commit"}
        BY <4>1 DEF CatalogInv, RowInv
      <4> QED
        BY <1>1, <1>4, <4>2
    <3> QED
      BY <3>1, <3>2
  <2>2. ASSUME NEW u \in Versions, table[u] # Absent
        PROVE  req'[table[u].created] = req[table[u].created]
    BY <1>1, <1>4, <2>2 DEF CatalogInv, CatalogTypeOK, RowInv, Row
  <2> QED
    BY <1>1, <2>1, <2>2, RowsStay
<1>10. BodyInv(r)'
  BY <1>1, <1>7 DEF BodyInv, Checking, Storing, Preparing, v
<1>11. FoundInv(r)'
  BY <1>1, <1>2, <1>5, <1>7 DEF CatalogInv, FoundInv, v
<1>12. AnswerInv(r)'
  BY <1>1, <1>2 DEF AnswerInv, Answered
<1>13. \A u \in Versions, c \in Callers : writer[u] = c => writer'[u] = c
  BY <1>2, <1>5, <1>8
<1> QED
  BY <1>1, <1>4, <1>6, <1>9, <1>10, <1>11, <1>12, <1>13, OneMoves

\* The SELECT finds the own row or a committed one.
LEMMA KeepCompare ==
    ASSUME CatalogInv, NEW r \in Callers, Compare(r)
    PROVE  CatalogInv'
<1> DEFINE q == req[r]
           v == q.version
           row == IF writer[v] = r THEN [tools |-> q.tools, created |-> r] ELSE table[v]
<1>1. q \in Request /\ q.pc = "select" /\ BodyInv(r) /\ FoundInv(r) /\ UNCHANGED <<table, cache>>
  BY DEF Compare, CatalogInv, CatalogTypeOK
<1>2. v \in Versions /\ answer[r] = Absent /\ q.tools \in Seq(Descriptor)
  BY <1>1 DEF CatalogInv, BodyInv, AnswerInv, Storing, Request
<1>3. /\ row \in Row
      /\ table[v] # Absent => row = table[v]
      /\ table[v] = Absent => row.created = r
  <2>1. CASE writer[v] = r
    <3>1. table[v] = Absent
      BY <1>2, <2>1 DEF CatalogInv, RowInv
    <3>2. [tools |-> q.tools, created |-> r] \in Row
      BY <1>2 DEF Row
    <3> QED
      BY <2>1, <3>1, <3>2
  <2>2. CASE writer[v] # r
    <3>1. table[v] # Absent /\ table[v] \in Row \cup {Absent}
      BY <1>1, <1>2, <2>2 DEF FoundInv, CatalogInv, CatalogTypeOK
    <3> QED
      BY <2>2, <3>1
  <2> QED
    BY <2>1, <2>2
<1>4. /\ row.tools # q.tools => Leave(r, 409, "CATALOG_IMMUTABLE")
      /\ row.tools = q.tools => /\ req' = [req EXCEPT ![r].pc = "commit", ![r].row = row]
                                /\ UNCHANGED <<answer, writer>>
  BY DEF Compare
<1>5. CASE row.tools # q.tools
  <2>1. table[v] # Absent /\ row = table[v]
    <3>1. writer[v] # r
      BY <1>5
    <3> QED
      BY <1>1, <3>1 DEF FoundInv
  <2> HIDE DEF row
  <2>2. AnswerInv(r)'
    <3>1. /\ answer'[r] = [status |-> 409, info |-> "CATALOG_IMMUTABLE"]
          /\ req'[r] = [q EXCEPT !.pc = "done"] /\ table' = table
      BY <1>1, <1>4, <1>5 DEF CatalogInv, CatalogTypeOK, Leave, Go
    <3>2. req'[r].pc = "done" /\ req'[r].version = v /\ req'[r].tools = q.tools
      BY <1>1, <3>1 DEF Request
    <3> QED
      BY <1>2, <1>5, <2>1, <3>1, <3>2 DEF AnswerInv, Answered
  <2> QED
    BY <1>1, <1>4, <1>5, <2>2, Answering
<1> HIDE DEF row
<1>6. CASE row.tools = q.tools
  <2>1. req' = [req EXCEPT ![r].pc = "commit", ![r].row = row] /\ UNCHANGED <<answer, writer>>
    BY <1>4, <1>6
  <2>2. [q EXCEPT !.pc = "commit", !.row = row] \in Request
    <3>1. "commit" \in Places
      BY DEF Places, Storing
    <3> QED
      BY <1>1, <1>3, <3>1 DEF Request
  <2>3. /\ req' \in [Callers -> Request] /\ req'[r] = [q EXCEPT !.pc = "commit", !.row = row]
        /\ \A c \in Callers \ {r} : req'[c] = req[c]
    BY <2>1, <2>2 DEF CatalogInv, CatalogTypeOK
  <2>4. /\ req'[r].pc = "commit" /\ req'[r].version = v /\ req'[r].known = q.known
        /\ req'[r].want = q.want /\ req'[r].tools = q.tools /\ req'[r].at = q.at
        /\ req'[r].row = row
    BY <1>1, <2>3 DEF Request
  <2>5. CatalogTypeOK'
    BY <1>1, <2>1, <2>3 DEF CatalogInv, CatalogTypeOK
  <2>6. RowInv'
    BY <1>1, <2>1, <2>3, <2>4, KeeperStays
  <2>7. BodyInv(r)'
    BY <1>1, <2>4 DEF BodyInv, Checking, Storing, Preparing
  <2>8. FoundInv(r)'
    BY <1>1, <1>3, <1>6, <2>1, <2>4 DEF FoundInv
  <2>9. AnswerInv(r)'
    BY <1>2, <2>1 DEF AnswerInv, Answered
  <2> QED
    BY <1>1, <2>1, <2>3, <2>5, <2>6, <2>7, <2>8, <2>9, OneMoves
<1> QED
  BY <1>5, <1>6

\* The commit makes the row that was found everybody's.
LEMMA KeepCommit ==
    ASSUME CatalogInv, NEW r \in Callers, Commit(r)
    PROVE  CatalogInv'
<1> DEFINE q == req[r]
           v == q.version
<1>1. q \in Request /\ q.pc = "commit" /\ BodyInv(r) /\ FoundInv(r) /\ cache' = cache
  BY DEF Commit, CatalogInv, CatalogTypeOK
<1>2. /\ v \in Versions /\ answer[r] = Absent /\ q.row \in Row /\ q.row.tools = q.tools
      /\ Digest(q.tools) = v /\ Compiled(q.at, q.tools, Len(q.tools)) /\ q.at \in Processes
      /\ Ascending(q.tools, Len(q.tools)) /\ (table[v] # Absent => q.row = table[v])
      /\ table[v] = Absent => q.row.created = r
      /\ Uploads(r)
  BY <1>1 DEF CatalogInv, BodyInv, FoundInv, AnswerInv, Storing
<1>3. PICK status, info :
         /\ Leave(r, status, info)
         /\ table' = [table EXCEPT ![v] = IF writer[v] = r THEN q.row ELSE @]
         /\ (status = 200 /\ info = q.row.created) \/ status = 500
  BY DEF Commit
<1>4. /\ req' = [req EXCEPT ![r].pc = "done"] /\ req \in [Callers -> Request]
      /\ answer' = [answer EXCEPT ![r] = [status |-> status, info |-> info]] /\ DOMAIN answer = Callers
      /\ writer' = [u \in Versions |-> IF writer[u] = r THEN Absent ELSE writer[u]]
      /\ writer \in [Versions -> Callers \cup {Absent}] /\ table \in [Versions -> Row \cup {Absent}]
  BY <1>3 DEF Leave, Go, CatalogInv, CatalogTypeOK
<1>5. Absent \notin Callers /\ Absent \notin Row
  BY CatalogAssumption
<1>6. /\ req' \in [Callers -> Request] /\ req'[r] = [q EXCEPT !.pc = "done"]
      /\ \A c \in Callers \ {r} : req'[c] = req[c]
  <2>1. "done" \in Places
    BY DEF Places
  <2>2. [q EXCEPT !.pc = "done"] \in Request
    BY <1>1, <2>1, MovedRequest
  <2> QED
    BY <1>4, <2>2
<1>7. /\ req'[r].pc = "done" /\ req'[r].version = v /\ req'[r].known = q.known
      /\ req'[r].want = q.want /\ req'[r].tools = q.tools /\ req'[r].at = q.at
  BY <1>1, <1>6 DEF Request
<1> HIDE DEF v
<1>8. /\ table' \in [Versions -> Row \cup {Absent}]
      /\ table'[v] = q.row
      /\ \A u \in Versions \ {v} : table'[u] = table[u]
  <2>1. writer[v] = r \/ table[v] # Absent
    BY <1>1 DEF FoundInv, v
  <2> QED
    BY <1>2, <1>3, <1>4, <2>1
<1>9. writer' \in [Versions -> Callers \cup {Absent}] /\ DOMAIN answer' = Callers
  BY <1>4
<1>10. CatalogTypeOK'
  BY <1>1, <1>6, <1>8, <1>9 DEF CatalogInv, CatalogTypeOK
<1>11. RowInv'
  <2>1. ASSUME NEW u \in Versions, table'[u] # Absent
        PROVE  LET keeper == table'[u].created IN
               /\ Digest(table'[u].tools) = u /\ Ascending(table'[u].tools, Len(table'[u].tools))
               /\ req'[keeper].pc = "done" /\ req'[keeper].at \in Processes
               /\ Compiled(req'[keeper].at, table'[u].tools, Len(table'[u].tools))
    <3>1. CASE table[u] # Absent
      <4>1. table'[u] = table[u] /\ table[u].created \in Callers
        BY <1>2, <1>8, <3>1 DEF CatalogInv, CatalogTypeOK, Row
      <4>2. req[table[u].created].pc = "done"
        BY <3>1 DEF CatalogInv, RowInv
      <4>3. req'[table[u].created] = req[table[u].created]
        BY <1>1, <1>6, <4>1, <4>2
      <4> QED
        BY <3>1, <4>1, <4>2, <4>3 DEF CatalogInv, RowInv
    <3>2. CASE table[u] = Absent
      <4>1. u = v /\ table'[u] = q.row /\ q.row.created = r
        BY <1>2, <1>8, <2>1, <3>2
      <4> QED
        BY <1>2, <1>7, <4>1
    <3> QED
      BY <3>1, <3>2
  <2>2. ASSUME NEW u \in Versions, NEW c \in Callers, writer'[u] = c
        PROVE  table'[u] = Absent /\ req'[c].version = u /\ req'[c].pc \in {"select", "commit"}
    <3>1. writer[u] = c /\ c # r
      BY <1>4, <1>5, <2>2
    <3>2. table[u] = Absent /\ req[c].version = u /\ req[c].pc \in {"select", "commit"}
      BY <3>1 DEF CatalogInv, RowInv
    <3>3. u # v
      <4>1. writer[v] = r \/ table[v] # Absent
        BY <1>1 DEF FoundInv, v
      <4> QED
        BY <3>1, <3>2, <4>1
    <3> QED
      BY <1>6, <1>8, <3>1, <3>2, <3>3
  <2> QED
    BY <2>1, <2>2 DEF RowInv, Compiled, Ascending
<1>12. BodyInv(r)'
  BY <1>7 DEF BodyInv, Checking, Storing, Preparing
<1>13. FoundInv(r)'
  BY <1>1, <1>2, <1>5, <1>7, <1>8 DEF FoundInv
<1>14. AnswerInv(r)'
  <2>1. answer'[r].status = status /\ answer'[r].info = info
    BY <1>4
  <2>2. req'[r].want.kind \in {"bootstrap", "put"} /\ status \in {200, 500}
    BY <1>2, <1>3, <1>7
  <2> QED
    BY <1>2, <1>3, <1>5, <1>7, <1>8, <2>1, <2>2 DEF AnswerInv, Answered
<1>15. /\ \A c \in Callers \ {r} : answer'[c] = answer[c]
       /\ \A u \in Versions : /\ table[u] # Absent => table'[u] = table[u]
                              /\ \A c \in Callers \ {r} : writer[u] = c => writer'[u] = c
  BY <1>2, <1>4, <1>5, <1>8
<1> QED
  BY <1>1, <1>6, <1>10, <1>11, <1>12, <1>13, <1>14, <1>15, OneMoves

\* Who brings no body is answered with the row that is there.
LEMMA Granting ==
    ASSUME CatalogInv, NEW r \in Callers, ~Uploads(r), req[r].version \in Versions,
           table[req[r].version] # Absent, table' = table,
           Leave(r, 200, table[req[r].version].created)
    PROVE  AnswerInv(r)'
<1>1. req \in [Callers -> Request] /\ DOMAIN answer = Callers
  BY DEF CatalogInv, CatalogTypeOK
<1>2. /\ answer'[r].status = 200 /\ answer'[r].info = table[req[r].version].created
      /\ req'[r] = [req[r] EXCEPT !.pc = "done"]
  BY <1>1 DEF Leave, Go
<1>3. /\ req'[r].pc = "done" /\ req'[r].version = req[r].version /\ req'[r].want = req[r].want
  BY <1>1, <1>2 DEF Request
<1> QED
  BY <1>2, <1>3 DEF AnswerInv, Answered

\* A failure leaves no transaction open.
LEMMA KeepFail ==
    ASSUME CatalogInv, NEW r \in Callers, Fail(r)
    PROVE  CatalogInv'
<1>1. Leave(r, 500, Absent) /\ UNCHANGED <<table, cache>> /\ req[r].pc # "done"
  BY DEF Fail
<1>2. AnswerInv(r)'
  BY <1>1, CatalogAssumption
  DEF CatalogInv, CatalogTypeOK, Request, Leave, Go, AnswerInv, Answered
<1> QED
  BY <1>1, <1>2, Answering

\* A read answers with the committed row, a preparation goes on with it.
LEMMA KeepRead ==
    ASSUME CatalogInv, NEW r \in Callers, Read(r)
    PROVE  CatalogInv'
<1> DEFINE v == req[r].version
<1>1. /\ UNCHANGED <<table, cache>> /\ req[r].pc = "read" /\ req[r] \in Request
      /\ v \in Versions /\ ~Uploads(r)
      /\ req[r].known # Absent => table[v] # Absent
      /\ answer[r] = Absent /\ req \in [Callers -> Request] /\ DOMAIN answer = Callers
  BY DEF Read, CatalogInv, CatalogTypeOK, BodyInv, FoundInv, AnswerInv
<1>2. CASE table[v] = Absent /\ Leave(r, 404, "CATALOG_NOT_FOUND")
  <2>1. AnswerInv(r)'
    BY <1>1, <1>2
    DEF CatalogInv, CatalogTypeOK, Request, Leave, Go, AnswerInv, Answered
  <2> QED
    BY <1>1, <1>2, <2>1, Answering
<1>3. CASE table[v] # Absent /\ Leave(r, 200, table[v].created)
  <2>1. AnswerInv(r)'
    BY <1>1, <1>3, Granting
  <2> QED
    BY <1>1, <1>3, <2>1, Answering
<1>4. ASSUME table[v] # Absent, req[r].want.kind = "prepare", UNCHANGED <<answer, writer>>,
             NEW k \in DOMAIN table[v].tools,
             req' = [req EXCEPT ![r].pc = "lookup", ![r].row = table[v], ![r].i = k]
      PROVE  CatalogInv'
  <2> DEFINE next == [req[r] EXCEPT !.pc = "lookup", !.row = table[v], !.i = k]
  <2>1. table[v] \in Row
    BY <1>1, <1>4 DEF CatalogInv, CatalogTypeOK
  <2>2. table[v].tools \in Seq(Descriptor)
    BY <2>1 DEF Row
  <2>3. k \in Nat \ {0}
    <3>1. DOMAIN table[v].tools = 1..Len(table[v].tools) /\ Len(table[v].tools) \in Nat
      BY <2>2
    <3> QED
      BY <1>4, <3>1
  <2>4. next \in Request
    BY <1>1, <2>1, <2>3 DEF Request, Places, Preparing
  <2>5. /\ next.pc = "lookup" /\ next.row = table[v] /\ next.i = k /\ next.at = req[r].at
        /\ next.version = v /\ next.want = req[r].want /\ next.known = req[r].known
    BY <1>1 DEF Request
  <2> HIDE DEF next
  <2>6. /\ req' \in [Callers -> Request] /\ req'[r] = next
        /\ \A q \in Callers \ {r} : req'[q] = req[q]
    BY <1>1, <1>4, <2>4 DEF next
  <2>7. CatalogTypeOK'
    BY <1>1, <1>4, <2>6 DEF CatalogInv, CatalogTypeOK
  <2>8. BodyInv(r)'
    <3>1. req[r].at \in Processes
      BY <1>1 DEF CatalogInv, BodyInv
    <3> QED
      BY <1>1, <1>4, <2>5, <2>6, <3>1 DEF BodyInv, Checking, Storing, Preparing
  <2> QED
    BY <1>1, <1>4, <2>5, <2>6, <2>7, <2>8, Moving
<1> QED
  BY <1>1, <1>2, <1>3, <1>4, SMTT(30) DEF Read

\* The schema of the selected tool is in the cache, or is compiled.
LEMMA KeepLookup ==
    ASSUME CatalogInv, NEW r \in Callers, Lookup(r)
    PROVE  CatalogInv'
<1>1. /\ UNCHANGED <<table, cache>> /\ req[r].pc = "lookup" /\ req[r] \in Request
      /\ req[r].version \in Versions /\ ~Uploads(r) /\ BodyInv(r)
      /\ req[r].row # Absent /\ req[r].row = table[req[r].version]
  BY DEF Lookup, CatalogInv, CatalogTypeOK, BodyInv, Preparing
<1>2. CASE Leave(r, 200, req[r].row.created)
  <2>1. AnswerInv(r)'
    BY <1>1, <1>2, Granting
  <2> QED
    BY <1>1, <1>2, <2>1, Answering
<1>3. CASE Go(r, "build") /\ UNCHANGED <<answer, writer>>
  <2>1. "build" \in Places
    BY DEF Places, Preparing
  <2>2. CatalogTypeOK' /\ req'[r] = [req[r] EXCEPT !.pc = "build"] /\ \A q \in Callers \ {r} : req'[q] = req[q]
    BY <1>1, <1>3, <2>1, Going
  <2>3. /\ req'[r].pc = "build" /\ req'[r].version = req[r].version /\ req'[r].known = req[r].known
        /\ req'[r].want = req[r].want /\ req'[r].at = req[r].at /\ req'[r].row = req[r].row
        /\ req'[r].i = req[r].i
    BY <1>1, <2>2 DEF Request
  <2>4. BodyInv(r)'
    BY <1>1, <2>3 DEF BodyInv, Checking, Storing, Preparing
  <2> QED
    BY <1>1, <1>3, <2>2, <2>3, <2>4, Moving
<1> QED
  BY <1>2, <1>3 DEF Lookup

\* A selected tool that a core does not compile was kept by a core of the other kind.
LEMMA KeepBuild ==
    ASSUME CatalogInv, NEW r \in Callers, Build(r)
    PROVE  CatalogInv'
<1> DEFINE q == req[r]
           p == q.at
           s == q.row.tools[q.i].input
<1>1. /\ table' = table /\ q.pc = "build" /\ q \in Request /\ p \in Processes
      /\ q.version \in Versions /\ ~Uploads(r) /\ q.want.kind = "prepare"
      /\ q.row # Absent /\ q.row = table[q.version] /\ q.i \in DOMAIN q.row.tools
      /\ q.row \in Row /\ answer[r] = Absent
      /\ req \in [Callers -> Request] /\ DOMAIN answer = Callers
  BY DEF Build, CatalogInv, CatalogTypeOK, BodyInv, AnswerInv, Preparing
<1>2. CASE s \notin Takes(p)
  <2>1. PICK status \in {422, 500} :
           Leave(r, status, "SCHEMA_UNSUPPORTED") /\ UNCHANGED cache
    BY <1>2 DEF Build, Picked
  <2> DEFINE keeper == q.row.created
  <2>2. /\ req[keeper].pc = "done" /\ req[keeper].at \in Processes /\ keeper \in Callers
        /\ Compiled(req[keeper].at, q.row.tools, Len(q.row.tools))
    BY <1>1 DEF CatalogInv, RowInv, Row
  <2>3. q.i \in 1..Len(q.row.tools)
    <3>1. q.row.tools \in Seq(Descriptor)
      BY <1>1 DEF Row
    <3>2. DOMAIN q.row.tools = 1..Len(q.row.tools)
      BY <3>1
    <3> QED
      BY <1>1, <3>2
  <2>4. s \in Takes(req[keeper].at)
    BY <2>2, <2>3 DEF Compiled
  <2>5. Language[p] # Language[req[keeper].at]
    <3> SUFFICES ASSUME Language[p] = Language[req[keeper].at]
                 PROVE  FALSE
      OBVIOUS
    <3>1. Takes(p) = Takes(req[keeper].at)
      BY DEF Takes
    <3> QED
      BY <1>2, <2>4, <3>1
  <2>6. /\ answer'[r].status = status /\ answer'[r].info = "SCHEMA_UNSUPPORTED"
        /\ req'[r] = [q EXCEPT !.pc = "done"] /\ req'[keeper] = req[keeper]
    BY <1>1, <2>1, <2>2 DEF Leave, Go
  <2>7. /\ req'[r].pc = "done" /\ req'[r].version = q.version /\ req'[r].at = p
        /\ req'[r].want = q.want
    BY <1>1, <2>6 DEF Request
  <2>8. AnswerInv(r)'
    BY <1>1, <2>1, <2>5, <2>6, <2>7 DEF AnswerInv, Answered
  <2> QED
    BY <1>1, <2>1, <2>8, Answering
<1>3. CASE s \in Takes(p)
  <2>1. /\ cache' = [cache EXCEPT ![p] = Insert(cache[p], s)]
        /\ Leave(r, 200, q.row.created)
    BY <1>3 DEF Build, Picked
  <2>2. CachesKept'
    BY <1>1, <1>3, <2>1, CacheGrows
  <2>3. AnswerInv(r)'
    BY <1>1, <2>1, Granting
  <2> QED
    BY <1>1, <2>1, <2>2, <2>3, AnsweringBesides
<1> QED
  BY <1>2, <1>3

\* What a request sends is a body, and the body of a registry passes every check but
\* those of its schemas.
LEMMA BodyFacts ==
    ASSUME NEW w \in Wants
    PROVE  /\ Version(w) \in Versions /\ Body(w) \in Seq(Descriptor)
           /\ w.kind = "bootstrap" /\ Registers(w) =>
                 /\ Body(w) # <<>> /\ Ascending(Body(w), Len(Body(w)))
                 /\ Digest(Body(w)) = Version(w)
<1>1. Version(w) \in Versions
  BY DEF Versions
<1>2. w.tools \in Seq(Descriptor) /\ \A k \in DOMAIN w.tools : w.tools[k].id \in Int
  <2>1. w.tools \in Seq(Descriptor)
    BY CatalogAssumption
  <2>2. \A k \in DOMAIN w.tools : w.tools[k] \in Descriptor
    BY <2>1
  <2> QED
    BY <2>1, <2>2 DEF Descriptor
<1> DEFINE sorted == Sorted(w.tools)
<1>3. /\ sorted \in Seq(Descriptor)
      /\ DOMAIN sorted = DOMAIN w.tools
      /\ Len(sorted) = Len(w.tools)
      /\ \A m \in DOMAIN w.tools : \E k \in DOMAIN w.tools : sorted[m] = w.tools[k]
      /\ (\A k, l \in DOMAIN w.tools : w.tools[k].id = w.tools[l].id => k = l)
         => \A m, l \in DOMAIN w.tools : m < l => sorted[m].id < sorted[l].id
  BY <1>2, SortedIsSorted
<1> HIDE DEF sorted
<1>4. Body(w) \in Seq(Descriptor)
  BY <1>2, <1>3 DEF Body, sorted
<1>5. ASSUME w.kind = "bootstrap", Registers(w)
      PROVE  sorted # <<>> /\ Ascending(sorted, Len(sorted))
  <2>1. sorted # <<>>
    <3>1. w.tools # <<>>
      BY <1>5 DEF Registers
    <3>2. Len(w.tools) # 0
      BY <1>2, <3>1
    <3> QED
      BY <1>3, <3>2
  <2>3. ASSUME NEW m \in DOMAIN w.tools, NEW l \in DOMAIN w.tools, m < l
        PROVE  sorted[m].id < sorted[l].id
    BY <1>3, <1>5, <2>3 DEF Registers
  <2>4. DOMAIN w.tools = 1..Len(sorted)
    BY <1>3
  <2> QED
    BY <2>1, <2>3, <2>4 DEF Ascending
<1>6. w.kind = "bootstrap" => Body(w) = sorted /\ Digest(sorted) = Version(w)
  BY DEF Body, Version, sorted
<1> QED
  BY <1>1, <1>4, <1>5, <1>6

\* Who was given a version was told when a stored row of it was made.
LEMMA ToldOfARow ==
    ASSUME CatalogInv, NEW v \in Versions
    PROVE  /\ Told(v) \in Callers \cup {Absent}
           /\ Told(v) # Absent => table[v] # Absent
<1> DEFINE told == {c \in Callers : answer[c] # Absent /\ req[c].version = v /\ answer[c].status = 200}
<1>1. \A c \in told : table[v] # Absent /\ table[v].created = answer[c].info
  BY DEF CatalogInv, AnswerInv, Answered
<1>2. table[v] # Absent => table[v].created \in Callers
  BY DEF CatalogInv, CatalogTypeOK, Row
<1>3. CASE told = {}
  BY <1>3 DEF Told
<1>4. CASE told # {}
  <2> DEFINE c == CHOOSE r \in told : TRUE
  <2>1. c \in told
    BY <1>4
  <2>2. Told(v) = answer[c].info
    BY <1>4 DEF Told
  <2> HIDE DEF c, told
  <2> QED
    BY <1>1, <1>2, <2>1, <2>2
<1> QED
  BY <1>3, <1>4

\* A request sets out with a body of its own.
LEMMA KeepArrive ==
    ASSUME CatalogInv, NEW r \in Callers, Arrive(r)
    PROVE  CatalogInv'
<1>1. /\ req[r].pc = "new" /\ UNCHANGED <<table, writer, cache>>
      /\ req \in [Callers -> Request] /\ req[r] \in Request
      /\ answer[r] = Absent /\ DOMAIN answer = Callers /\ BodyInv(r)
  BY DEF Arrive, CatalogInv, CatalogTypeOK, AnswerInv
<1>2. PICK w \in Wants, p \in Processes :
         IF w.kind = "bootstrap" /\ ~Registers(w)
         THEN /\ Go(r, "done")
              /\ answer' = [answer EXCEPT ![r] = [status |-> 0, info |-> Absent]]
         ELSE req' = [req EXCEPT ![r] = Begun(req[r], w, p)] /\ UNCHANGED answer
  BY DEF Arrive
<1>3. /\ w.kind \in {"bootstrap", "put", "get", "prepare"} /\ Absent \notin Row
      /\ Absent # "SCHEMA_UNSUPPORTED"
  BY CatalogAssumption
<1>4. CASE w.kind = "bootstrap" /\ ~Registers(w)
  <2>1. /\ req' = [req EXCEPT ![r].pc = "done"]
        /\ answer' = [answer EXCEPT ![r] = [status |-> 0, info |-> Absent]]
    BY <1>2, <1>4 DEF Go
  <2>2. [req[r] EXCEPT !.pc = "done"] \in Request
    <3>1. "done" \in Places
      BY DEF Places
    <3> QED
      BY <1>1, <3>1 DEF Request
  <2>3. /\ req' \in [Callers -> Request] /\ DOMAIN answer' = Callers
        /\ req'[r] = [req[r] EXCEPT !.pc = "done"]
        /\ answer'[r] = [status |-> 0, info |-> Absent]
        /\ \A c \in Callers \ {r} : req'[c] = req[c] /\ answer'[c] = answer[c]
    BY <1>1, <2>1, <2>2
  <2>4. CatalogTypeOK'
    BY <1>1, <2>3 DEF CatalogInv, CatalogTypeOK
  <2>5. req'[r].pc = "done" /\ req'[r].known = req[r].known /\ req'[r].version = req[r].version
    BY <1>1, <2>3 DEF Request
  <2>6. RowInv'
    BY <1>1, <2>3, <2>5, KeeperStays
  <2>7. BodyInv(r)'
    BY <2>5 DEF BodyInv, Checking, Storing, Preparing
  <2>8. FoundInv(r)'
    BY <1>1, <2>5 DEF CatalogInv, FoundInv
  <2>9. AnswerInv(r)'
    BY <1>3, <2>3, <2>5 DEF AnswerInv, Answered
  <2> QED
    BY <1>1, <2>3, <2>4, <2>6, <2>7, <2>8, <2>9, OneMoves
<1>5. CASE ~(w.kind = "bootstrap" /\ ~Registers(w))
  <2> DEFINE pc == CASE w.kind = "bootstrap" -> "negotiate"
                     [] w.kind = "put" -> "check" [] OTHER -> "read"
             next == [req[r] EXCEPT !.pc = pc, !.want = w, !.at = p, !.version = Version(w),
                                    !.tools = Body(w), !.known = Told(Version(w))]
  <2>1. req' = [req EXCEPT ![r] = next] /\ UNCHANGED answer
    BY <1>2, <1>5 DEF Begun
  <2>2. /\ pc \in {"negotiate", "check", "read"} /\ pc \in Places
        /\ w.kind \in {"get", "prepare"} <=> pc = "read"
    BY <1>3 DEF Places
  <2> HIDE DEF pc
  <2>3. /\ Version(w) \in Versions /\ Body(w) \in Seq(Descriptor)
        /\ Told(Version(w)) \in Callers \cup {Absent}
        /\ Told(Version(w)) # Absent => table[Version(w)] # Absent
    BY BodyFacts, ToldOfARow
  <2>4. next \in Request
    BY <1>1, <2>2, <2>3 DEF Request
  <2>5. /\ next.pc = pc /\ next.want = w /\ next.at = p /\ next.version = Version(w)
        /\ next.tools = Body(w) /\ next.known = Told(Version(w)) /\ next.i = 1
    BY <1>1 DEF Request, BodyInv
  <2> HIDE DEF next
  <2>6. /\ req' \in [Callers -> Request] /\ req'[r] = next
        /\ \A c \in Callers \ {r} : req'[c] = req[c]
    BY <1>1, <2>1, <2>4
  <2>7. CatalogTypeOK'
    BY <1>1, <2>1, <2>6 DEF CatalogInv, CatalogTypeOK
  <2>8. RowInv'
    <3>1. ASSUME NEW v \in Versions, table[v] # Absent
          PROVE  req'[table[v].created] = req[table[v].created]
      BY <1>1, <2>6, <3>1 DEF CatalogInv, CatalogTypeOK, RowInv, Row
    <3>2. \A v \in Versions, c \in Callers : writer'[v] = c =>
             table[v] = Absent /\ req'[c].version = v /\ req'[c].pc \in {"select", "commit"}
      BY <1>1, <2>6 DEF CatalogInv, RowInv
    <3> QED
      BY <1>1, <3>1, <3>2, RowsStay
  <2>9. BodyInv(r)'
    BY <1>3, <1>5, <2>2, <2>3, <2>5, <2>6, BodyFacts DEF BodyInv, Checking, Storing, Preparing
  <2>10. FoundInv(r)'
    BY <1>1, <2>2, <2>3, <2>5, <2>6 DEF FoundInv
  <2>11. AnswerInv(r)'
    BY <1>1, <2>1 DEF AnswerInv, Answered
  <2> QED
    BY <1>1, <2>1, <2>6, <2>7, <2>8, <2>9, <2>10, <2>11, OneMoves
<1> QED
  BY <1>4, <1>5

\* A process that dies takes its open transactions with it and leaves every row.
LEMMA KeepCrash ==
    ASSUME CatalogInv, NEW p \in Processes, Crash(p)
    PROVE  CatalogInv'
<1> DEFINE lost == {r \in Callers : req[r].at = p /\ req[r].pc # "done"}
<1>1. /\ UNCHANGED <<answer, table>> /\ cache' = [cache EXCEPT ![p] = {}]
      /\ writer' = [v \in Versions |-> IF writer[v] \in lost THEN Absent ELSE writer[v]]
      /\ req' = [r \in Callers |-> IF r \in lost THEN [req[r] EXCEPT !.pc = "done"] ELSE req[r]]
      /\ req \in [Callers -> Request] /\ cache \in [Processes -> SUBSET Schemas]
      /\ writer \in [Versions -> Callers \cup {Absent}]
  BY DEF Crash, CatalogInv, CatalogTypeOK
<1>2. Absent \notin Callers
  BY CatalogAssumption
<1>3. ASSUME NEW r \in Callers
      PROVE  /\ req'[r] \in Request
             /\ r \notin lost => req'[r] = req[r]
             /\ r \in lost => /\ req'[r].pc = "done" /\ req'[r].known = req[r].known
                              /\ req'[r].version = req[r].version /\ answer[r] = Absent
  <2>1. CASE r \in lost
    <3>1. "done" \in Places
      BY DEF Places
    <3>2. req'[r] = [req[r] EXCEPT !.pc = "done"] /\ req[r] \in Request
      BY <1>1, <2>1
    <3>3. answer[r] = Absent
      BY <2>1 DEF CatalogInv, AnswerInv
    <3> QED
      BY <2>1, <3>1, <3>2, <3>3, MovedRequest DEF Request
  <2>2. CASE r \notin lost
    BY <1>1, <2>2
  <2> QED
    BY <2>1, <2>2
<1> HIDE DEF lost
<1>4. \A v \in Versions, r \in Callers : writer'[v] = r <=> writer[v] = r /\ r \notin lost
  BY <1>1, <1>2
<1>5. CatalogTypeOK'
  <2>1. cache' \in [Processes -> SUBSET Schemas] /\ writer' \in [Versions -> Callers \cup {Absent}]
    BY <1>1
  <2>2. IsFiniteSet({}) /\ Cardinality({}) <= MaxSchemas
    BY FS_EmptySet, CatalogAssumption
  <2>3. ASSUME NEW q \in Processes
        PROVE  /\ cache'[q] \subseteq Takes(q) /\ IsFiniteSet(cache'[q])
               /\ Cardinality(cache'[q]) <= MaxSchemas
    BY <1>1, <2>2 DEF CatalogInv, CatalogTypeOK
  <2>4. req' \in [Callers -> Request]
    BY <1>1, <1>3
  <2> QED
    BY <1>1, <2>1, <2>3, <2>4 DEF CatalogInv, CatalogTypeOK
<1>6. ASSUME NEW v \in Versions, table[v] # Absent
      PROVE  req'[table[v].created] = req[table[v].created]
  <2>1. table[v].created \in Callers /\ req[table[v].created].pc = "done"
    BY <1>6 DEF CatalogInv, CatalogTypeOK, RowInv, Row
  <2> QED
    BY <1>3, <2>1 DEF lost
<1>8. RowInv'
  <2>1. \A v \in Versions, c \in Callers : writer'[v] = c =>
           table[v] = Absent /\ req'[c].version = v /\ req'[c].pc \in {"select", "commit"}
    BY <1>3, <1>4 DEF CatalogInv, RowInv
  <2> QED
    BY <1>1, <1>6, <2>1, RowsStay
<1>7. ASSUME NEW r \in Callers
      PROVE  BodyInv(r)' /\ FoundInv(r)' /\ AnswerInv(r)'
  <2>1. CASE r \in lost
    <3>1. BodyInv(r)'
      BY <1>3, <2>1 DEF BodyInv, Checking, Storing, Preparing
    <3>2. FoundInv(r)'
      BY <1>1, <1>3, <2>1 DEF CatalogInv, FoundInv
    <3>3. AnswerInv(r)'
      BY <1>1, <1>3, <2>1 DEF AnswerInv, Answered
    <3> QED
      BY <3>1, <3>2, <3>3
  <2>2. CASE r \notin lost
    <3>1. BodyInv(r)'
      BY <1>1, <1>3, <2>2, BodyStays DEF CatalogInv
    <3>2. FoundInv(r)'
      BY <1>1, <1>3, <1>4, <2>2 DEF CatalogInv, FoundInv, BodyInv, Storing
    <3>3. AnswerInv(r)'
      BY <1>1, <1>3, <1>6, <2>2, AnswerStays DEF CatalogInv
    <3> QED
      BY <3>1, <3>2, <3>3
  <2> QED
    BY <2>1, <2>2
<1> QED
  BY <1>5, <1>7, <1>8 DEF CatalogInv

\* The catalog begins empty.
LEMMA CatalogInitially == CatalogInit => CatalogInv
<1> SUFFICES ASSUME CatalogInit
             PROVE  CatalogInv
  OBVIOUS
<1> DEFINE fresh == [pc |-> "new", want |-> Absent, at |-> Absent, version |-> Absent,
                     tools |-> <<>>, i |-> 1, row |-> Absent, known |-> Absent]
<1>1. /\ req = [r \in Callers |-> fresh] /\ answer = [r \in Callers |-> Absent]
      /\ table = [v \in Versions |-> Absent] /\ writer = [v \in Versions |-> Absent]
      /\ cache = [p \in Processes |-> {}]
  BY DEF CatalogInit
<1>2. Absent \notin Callers
  BY CatalogAssumption
<1>3. fresh \in Request
  BY DEF Request, Places
<1>4. IsFiniteSet({}) /\ Cardinality({}) <= MaxSchemas
  BY FS_EmptySet, CatalogAssumption
<1>5. CatalogTypeOK
  <2> HIDE DEF fresh
  <2> QED
    BY <1>1, <1>3, <1>4 DEF CatalogTypeOK
<1>6. RowInv
  BY <1>1, <1>2 DEF RowInv
<1>7. ASSUME NEW r \in Callers
      PROVE  BodyInv(r) /\ FoundInv(r) /\ AnswerInv(r)
  BY <1>1 DEF BodyInv, FoundInv, AnswerInv, Answered, Checking, Storing, Preparing
<1> QED
  BY <1>5, <1>6, <1>7 DEF CatalogInv

\* Every step keeps the invariant, one lemma for each action.
LEMMA CatalogInductive == CatalogInv /\ [CatalogNext]_catalogVars => CatalogInv'
<1> SUFFICES ASSUME CatalogInv, [CatalogNext]_catalogVars
             PROVE  CatalogInv'
  OBVIOUS
<1>1. ASSUME NEW r \in Callers,
             \/ Arrive(r) \/ Negotiate(r) \/ Check(r) \/ NextTool(r)
             \/ Compile(r) \/ Output(r) \/ Store(r) \/ Compare(r)
             \/ Commit(r) \/ Fail(r) \/ Read(r) \/ Lookup(r) \/ Build(r)
      PROVE  CatalogInv'
  BY <1>1, KeepArrive, KeepNegotiate, KeepCheck, KeepNextTool, KeepCompile, KeepOutput,
     KeepStore, KeepCompare, KeepCommit, KeepFail, KeepRead,
     KeepLookup, KeepBuild
<1>2. ASSUME NEW p \in Processes, Crash(p)
      PROVE  CatalogInv'
  BY <1>2, KeepCrash, SMTT(30)
<1>3. CASE UNCHANGED catalogVars
  BY <1>3
  DEF catalogVars, CatalogInv, CatalogTypeOK, RowInv, BodyInv, FoundInv, AnswerInv,
      Answered, Tool
<1> QED
  BY <1>1, <1>2, <1>3 DEF CatalogNext

\* What the invariant says of answers and rows is what the properties say.
LEMMA CatalogPromises ==
    CatalogInv => VersionsAreImmutable /\ OnlyTheCheckedIsKept
<1> SUFFICES ASSUME CatalogInv
             PROVE  VersionsAreImmutable /\ OnlyTheCheckedIsKept
  OBVIOUS
<1>1. VersionsAreImmutable
  BY DEF CatalogInv, AnswerInv, VersionsAreImmutable
<1>2. ASSUME NEW v \in Versions, table[v] # Absent
      PROVE  LET tools == table[v].tools
                 keeper == req[table[v].created].at
             IN /\ Digest(tools) = v
                /\ \A k \in DOMAIN tools :
                      /\ {tools[k].input, tools[k].output} \subseteq Takes(keeper) \cup {Absent}
                      /\ \A l \in DOMAIN tools : k < l => tools[k].id < tools[l].id
  <2> DEFINE tools == table[v].tools
             keeper == req[table[v].created].at
  <2>1. Digest(tools) = v /\ Compiled(keeper, tools, Len(tools)) /\ Ascending(tools, Len(tools))
    BY <1>2 DEF CatalogInv, RowInv
  <2>2. tools \in Seq(Descriptor)
    BY <1>2 DEF CatalogInv, CatalogTypeOK, Row
  <2> HIDE DEF tools, keeper
  <2>3. DOMAIN tools = 1..Len(tools)
    BY <2>2
  <2>4. \A k \in DOMAIN tools :
           /\ {tools[k].input, tools[k].output} \subseteq Takes(keeper) \cup {Absent}
           /\ \A l \in DOMAIN tools : k < l => tools[k].id < tools[l].id
    BY <2>1, <2>3 DEF Compiled, Ascending
  <2> QED
    BY <2>1, <2>4 DEF tools, keeper
<1>3. ASSUME NEW r \in Callers, req[r].want # Absent, answer[r] # Absent
      PROVE  /\ req[r].want.kind = "bootstrap" /\ answer[r].status = 422 =>
                /\ answer[r].info = "SCHEMA_UNSUPPORTED"
                /\ ~ {Tool(r).input, Tool(r).output} \subseteq Takes(req[r].at) \cup {Absent}
             /\ req[r].want.kind = "prepare" /\ answer[r].status # 200
                /\ answer[r].info = "SCHEMA_UNSUPPORTED" =>
                   Language[req[r].at] # Language[req[table[req[r].version].created].at]
  BY <1>3 DEF CatalogInv, AnswerInv, Answered
<1>4. \A p \in Processes : cache[p] \subseteq Takes(p) /\ Cardinality(cache[p]) <= MaxSchemas
  BY DEF CatalogInv, CatalogTypeOK
<1>5. OnlyTheCheckedIsKept
  BY <1>2, <1>3, <1>4 DEF OnlyTheCheckedIsKept
<1> QED
  BY <1>1, <1>5

\* The invariant of the catalog holds in every state.
THEOREM CatalogInvariance == CatalogSpec => []CatalogInv
<1>1. CatalogInit => CatalogInv
  BY CatalogInitially
<1>2. CatalogInv /\ [CatalogNext]_catalogVars => CatalogInv'
  BY CatalogInductive
<1> QED
  BY <1>1, <1>2, PTL DEF CatalogSpec

\* A version is one body with one creation time for ever.
THEOREM Immutability == CatalogSpec => []VersionsAreImmutable
<1>1. CatalogInv => VersionsAreImmutable
  BY CatalogPromises
<1> QED
  BY <1>1, CatalogInvariance, PTL

\* What a core keeps its own compiler took, a registry's body is refused only for a schema
\* that this core does not compile, and a selected tool only by the other kind of core.
THEOREM CheckedOnly == CatalogSpec => []OnlyTheCheckedIsKept
<1>1. CatalogInv => OnlyTheCheckedIsKept
  BY CatalogPromises
<1> QED
  BY <1>1, CatalogInvariance, PTL
-----------------------------------------------------------------------------
(* Retrieval *)

\* Tools are numbers, and so are the limits of requests.
LEMMA ToolsAreNumbers == \A t \in Tools : t \in Nat /\ t \in Int
BY RankingAssumption

\* A limit of a request is at most what a core exposes.
LEMMA LimitsAreNumbers ==
    ASSUME NEW r \in Requests, r.limit # None
    PROVE  r.limit \in Nat /\ r.limit <= MostExposed
<1>1. r.limit \in 1..MostExposed /\ MostExposed \in Nat
  BY RankingAssumption, SelectionAssumption
<1> QED
  BY <1>1

\* The first n of a sequence.
LEMMA TakeReturns ==
    ASSUME NEW S, NEW s \in Seq(S), NEW n \in Nat
    PROVE  /\ Take(n, s) \in Seq(S)
           /\ Len(Take(n, s)) = IF Len(s) <= n THEN Len(s) ELSE n
           /\ \A i \in 1..Len(Take(n, s)) : i \in 1..Len(s) /\ Take(n, s)[i] = s[i]
BY DEF Take

\* The tools by ID.
LEMMA ByIdReturns ==
    ASSUME NEW tools, tools \subseteq Tools, IsFiniteSet(tools)
    PROVE  /\ ById(tools) \in Seq(tools)
           /\ Len(ById(tools)) = Cardinality(tools)
           /\ \A t \in tools : \E n \in 1..Len(ById(tools)) : ById(tools)[n] = t
           /\ \A m, n \in 1..Len(ById(tools)) : m < n => ById(tools)[m] < ById(tools)[n]
<1> DEFINE zero == [t \in tools |-> 0]
           id == [t \in tools |-> t]
           s == ById(tools)
<1>1. Sortable(tools, zero, id)
  <2>1. \A t \in tools : zero[t] = 0 /\ id[t] = t
    OBVIOUS
  <2> HIDE DEF zero, id
  <2> QED
    BY <2>1, ToolsAreNumbers DEF Sortable
<1>2. s = Arranged(tools, zero, id)
  BY DEF ById
<1>3. \A x, y \in tools : Ahead(zero, id, x, y) => x < y
  BY DEF Ahead
<1> HIDE DEF s, zero, id
<1>4. /\ Cardinality(tools) \in Nat
      /\ s \in [1..Cardinality(tools) -> tools]
      /\ \A t \in tools : \E n \in 1..Cardinality(tools) : s[n] = t
      /\ \A m, n \in 1..Cardinality(tools) : m < n => Ahead(zero, id, s[m], s[n])
  BY <1>1, <1>2, ArrangedIsSorted
<1>5. \A m, n \in 1..Cardinality(tools) : m < n => s[m] < s[n]
  BY <1>3, <1>4
<1>6. s \in Seq(tools) /\ Len(s) = Cardinality(tools)
  BY <1>4
<1> QED
  BY <1>4, <1>5, <1>6 DEF s

\* A score is a number of hits.
LEMMA ScoreType ==
    ASSUME NEW t, NEW query, IsFiniteSet(query)
    PROVE  Score(t, query) \in Nat
<1> DEFINE hits(field) == Cardinality(Words[t][field] \cap query)
<1>1. \A field : hits(field) \in Nat
  <2> TAKE field
  <2>1. IsFiniteSet(Words[t][field] \cap query)
    BY FS_Subset
  <2> QED
    BY <2>1, FS_CardinalityType
<1>2. Score(t, query) = 10 * hits("name") + 5 * hits("aliases") + 3 * hits("title")
                            + 2 * hits("tags") + hits("description")
  BY DEF Score
<1> HIDE DEF hits
<1> QED
  BY <1>1, <1>2

\* A list has every tool once, and the best tools first.
HasEach(s, tools) ==
    /\ s \in Seq(tools) /\ Len(s) \in Nat
    /\ \A t \in tools : \E n \in 1..Len(s) : s[n] = t
    /\ \A m, n \in 1..Len(s) : s[m] = s[n] => m = n
Descends(s, query) == \A m, n \in 1..Len(s) : m <= n => Score(s[m], query) >= Score(s[n], query)

\* The scored tools, best first.
LEMMA BestFirstReturns ==
    ASSUME NEW tools, tools \subseteq Tools, IsFiniteSet(tools), NEW query, IsFiniteSet(query),
           NEW s, s = BestFirst(tools, query)
    PROVE  HasEach(s, tools) /\ Descends(s, query)
<1> DEFINE worst == [t \in tools |-> -Score(t, query)]
           id == [t \in tools |-> t]
<1>1. \A t \in tools : Score(t, query) \in Nat
  BY ScoreType
<1>2. Sortable(tools, worst, id)
  BY <1>1, ToolsAreNumbers DEF Sortable
<1>3. s = Arranged(tools, worst, id)
  BY DEF BestFirst
<1>4. \A t \in tools : worst[t] = -Score(t, query)
  OBVIOUS
<1> HIDE DEF worst, id
<1>5. /\ s \in Seq(tools) /\ Len(s) \in Nat
      /\ \A t \in tools : \E n \in 1..Len(s) : s[n] = t
      /\ \A m, n \in 1..Len(s) : s[m] = s[n] => m = n
      /\ \A m, n \in 1..Len(s) : m <= n => worst[s[m]] <= worst[s[n]]
  BY <1>2, <1>3, ArrangedAscends
<1>6. ASSUME NEW m \in 1..Len(s), NEW n \in 1..Len(s), m <= n
      PROVE  Score(s[m], query) >= Score(s[n], query)
  <2>1. s[m] \in tools /\ s[n] \in tools
    BY <1>5
  <2>2. worst[s[m]] <= worst[s[n]]
    BY <1>5, <1>6
  <2> QED
    BY <1>1, <1>4, <2>1, <2>2
<1> QED
  BY <1>5, <1>6 DEF HasEach, Descends

\* What retrieve() promises: tools the actor may use, each once and no more than the
\* limit, and none left out that is better than what is there.
LEMMA RetrieveReturns ==
    ASSUME NEW allowed, NEW query, allowed \subseteq Tools, IsFiniteSet(allowed), IsFiniteSet(query)
    PROVE  /\ Retrieve(allowed, query) \in Seq(allowed)
           /\ Len(Retrieve(allowed, query)) <= Kept
           /\ \A m, n \in 1..Len(Retrieve(allowed, query)) :
                 Retrieve(allowed, query)[m] = Retrieve(allowed, query)[n] => m = n
           /\ \A t \in allowed \ ToSet(Retrieve(allowed, query)) :
                 /\ Cardinality(allowed) > ScoreFrom
                 /\ \/ Score(t, query) = 0
                    \/ /\ Len(Retrieve(allowed, query)) = Kept
                       /\ \A c \in ToSet(Retrieve(allowed, query)) :
                             Score(c, query) >= Score(t, query)
<1> DEFINE found == Retrieve(allowed, query)
<1>1. Cardinality(allowed) \in Nat /\ ScoreFrom \in Nat /\ Kept \in Nat /\ ScoreFrom <= Kept
  BY FS_CardinalityType, RankingAssumption
<1>2. \A t \in allowed : Score(t, query) \in Nat /\ t \in Int
  BY ScoreType, RankingAssumption
<1>3. CASE Cardinality(allowed) <= ScoreFrom
  <2>1. found = ById(allowed)
    BY <1>3 DEF Retrieve
  <2> HIDE DEF found
  <2>2. /\ found \in Seq(allowed) /\ Len(found) = Cardinality(allowed)
        /\ \A t \in allowed : \E n \in 1..Len(found) : found[n] = t
        /\ \A m, n \in 1..Len(found) : m < n => found[m] < found[n]
    BY <2>1, ByIdReturns
  <2>3. \A m, n \in 1..Len(found) : found[m] = found[n] => m = n
    <3> SUFFICES ASSUME NEW m \in 1..Len(found), NEW n \in 1..Len(found), found[m] = found[n], m # n
                 PROVE  FALSE
      OBVIOUS
    <3>1. found[m] \in Int /\ (m < n \/ n < m)
      BY <1>2, <2>2
    <3> QED
      BY <2>2, <3>1
  <2>4. allowed \ ToSet(found) = {}
    BY <2>2 DEF ToSet
  <2>5. Len(found) <= Kept
    BY <1>1, <1>3, <2>2
  <2> QED
    BY <2>2, <2>3, <2>4, <2>5 DEF found
<1>4. CASE Cardinality(allowed) > ScoreFrom
  <2> DEFINE scored == {t \in allowed : Score(t, query) > 0}
             best == BestFirst(scored, query)
  <2>1. found = Take(Kept, best)
    BY <1>1, <1>4 DEF Retrieve
  <2>2. scored \subseteq Tools /\ IsFiniteSet(scored)
    BY FS_Subset
  <2>3. \A t \in allowed \ scored : Score(t, query) = 0
    BY <1>2
  <2>4. scored \subseteq allowed
    OBVIOUS
  <2> HIDE DEF found, best, scored
  <2>5. HasEach(best, scored) /\ Descends(best, query)
    BY <2>2, BestFirstReturns DEF best
  <2>6. /\ best \in Seq(scored) /\ Len(best) \in Nat
        /\ \A t \in scored : \E n \in 1..Len(best) : best[n] = t
        /\ \A m, n \in 1..Len(best) : best[m] = best[n] => m = n
    BY <2>5 DEF HasEach
  <2>7. \A m, n \in 1..Len(best) : m <= n => Score(best[m], query) >= Score(best[n], query)
    BY <2>5 DEF Descends
  <2>8. /\ found \in Seq(scored)
        /\ Len(found) = IF Len(best) <= Kept THEN Len(best) ELSE Kept
        /\ \A i \in 1..Len(found) : i \in 1..Len(best) /\ found[i] = best[i]
    <3>1. best \in Seq(scored) /\ Kept \in Nat
      BY <1>1, <2>6
    <3> QED
      BY <2>1, <3>1, TakeReturns
  <2>9. found \in Seq(allowed) /\ Len(found) <= Kept
    BY <1>1, <2>4, <2>6, <2>8
  <2>10. \A m, n \in 1..Len(found) : found[m] = found[n] => m = n
    BY <2>6, <2>8
  <2>11. ASSUME NEW t \in scored, t \notin ToSet(found)
        PROVE  /\ Len(found) = Kept
               /\ \A c \in ToSet(found) : Score(c, query) >= Score(t, query)
    <3>1. PICK n \in 1..Len(best) : best[n] = t
      BY <2>6
    <3>2. n \notin 1..Len(found)
      BY <2>8, <2>11, <3>1 DEF ToSet
    <3>3. Len(found) = Kept /\ \A i \in 1..Len(found) : i <= n
      BY <1>1, <2>6, <2>8, <3>2
    <3>4. \A c \in ToSet(found) : \E i \in 1..Len(found) : c = found[i]
      BY <2>8 DEF ToSet
    <3>5. \A i \in 1..Len(found) : found[i] = best[i] /\ Score(best[i], query) >= Score(best[n], query)
      BY <2>8, <2>7, <3>1, <3>3
    <3> QED
      BY <3>1, <3>3, <3>4, <3>5
  <2> QED
    BY <1>4, <2>3, <2>9, <2>10, <2>11 DEF found
<1> QED
  BY <1>1, <1>3, <1>4

\* What a workflow includes are some of its candidates.
LEMMA IncludedReturns ==
    ASSUME NEW tools \in Seq(Tools), NEW raws
    PROVE  /\ Included(tools, raws) \subseteq ToSet(tools)
           /\ Included(tools, raws) \subseteq Tools
           /\ IsFiniteSet(Included(tools, raws))
           /\ Cardinality(Included(tools, raws)) <= Len(tools)
<1> DEFINE yes == {j \in DOMAIN tools : /\ raws[j].choice = 1
                                        /\ raws[j].p[1] >= Bar(tools[j]).threshold}
<1>1. Included(tools, raws) = {tools[i] : i \in yes}
  BY DEF Included
<1>2. yes \subseteq DOMAIN tools /\ DOMAIN tools = 1..Len(tools) /\ Len(tools) \in Nat
  OBVIOUS
<1> HIDE DEF yes
<1>3. IsFiniteSet(yes) /\ Cardinality(yes) <= Len(tools) /\ Cardinality(yes) \in Nat
  <2>1. IsFiniteSet(DOMAIN tools) /\ Cardinality(DOMAIN tools) = Len(tools)
    BY <1>2, UpToIsFinite
  <2>2. IsFiniteSet(yes) /\ Cardinality(yes) <= Len(tools)
    BY <1>2, <2>1, FS_Subset
  <2> QED
    BY <2>2, FS_CardinalityType
<1>4. IsFiniteSet({tools[i] : i \in yes}) /\ Cardinality({tools[i] : i \in yes}) <= Len(tools)
  <2> DEFINE image == {tools[i] : i \in yes}
             f == [i \in yes |-> tools[i]]
  <2>1. f \in Surjection(yes, image)
    BY DEF Surjection
  <2> HIDE DEF image, f
  <2>2. IsFiniteSet(image) /\ Cardinality(image) <= Cardinality(yes)
    BY <1>3, <2>1, FS_Surjection
  <2>3. Cardinality(image) \in Nat
    BY <2>2, FS_CardinalityType
  <2>4. Cardinality(image) <= Len(tools)
    BY <1>2, <1>3, <2>2, <2>3
  <2> QED
    BY <2>2, <2>4 DEF image
<1> QED
  BY <1>1, <1>2, <1>4 DEF ToSet

\* What of it is exposed: the first ones by ID, within the limit.
LEMMA ExposeReturns ==
    ASSUME NEW included, included \subseteq Tools, IsFiniteSet(included), NEW tools,
           NEW limit, limit # None => limit \in Nat,
           NEW e, e = Expose(included, tools, limit)
    PROVE  /\ e \in Seq(Tools) /\ e \in Seq(included) /\ ToSet(e) \subseteq included
           /\ \A m, n \in 1..Len(e) : m < n => e[m] < e[n]
           /\ \A t \in ToSet(e), u \in included \ ToSet(e) : t < u
           /\ limit # None => Len(e) <= limit
           /\ Len(e) \in Nat /\ Len(e) <= Cardinality(included)
<1> DEFINE s == ById(included)
<1>1. /\ s \in Seq(included) /\ Len(s) = Cardinality(included)
      /\ \A t \in included : \E n \in 1..Len(s) : s[n] = t
      /\ \A m, n \in 1..Len(s) : m < n => s[m] < s[n]
  BY ByIdReturns
<1>2. e = IF limit = None THEN s ELSE Take(limit, s)
  BY DEF Expose
<1>3. \A t \in included : t \in Int
  BY RankingAssumption
<1> HIDE DEF s
<1>4. /\ e \in Seq(included) /\ Len(e) <= Len(s)
      /\ \A i \in 1..Len(e) : i \in 1..Len(s) /\ e[i] = s[i]
      /\ limit # None => Len(e) <= limit
  <2>1. CASE limit = None
    BY <1>1, <1>2, <2>1
  <2>2. CASE limit # None
    <3>1. e = Take(limit, s) /\ limit \in Nat
      BY <1>2, <2>2
    <3>2. /\ e \in Seq(included) /\ Len(e) = IF Len(s) <= limit THEN Len(s) ELSE limit
          /\ \A i \in 1..Len(e) : i \in 1..Len(s) /\ e[i] = s[i]
      BY <1>1, <3>1, TakeReturns
    <3>3. Len(s) \in Nat
      BY <1>1
    <3> QED
      BY <3>1, <3>2, <3>3
  <2> QED
    BY <2>1, <2>2
<1>5. ASSUME NEW t \in ToSet(e), NEW u \in included \ ToSet(e)
      PROVE  t < u
  <2>1. PICK m \in 1..Len(e) : t = e[m]
    BY <1>4 DEF ToSet
  <2>2. PICK n \in 1..Len(s) : u = s[n]
    BY <1>1
  <2>3. n \notin 1..Len(e)
    BY <1>4, <1>5, <2>2 DEF ToSet
  <2>4. m < n /\ m \in 1..Len(s) /\ t = s[m]
    BY <1>1, <1>4, <2>1, <2>2, <2>3
  <2> QED
    BY <1>1, <2>2, <2>4
<1>6. e \in Seq(Tools) /\ ToSet(e) \subseteq included
  BY <1>4 DEF ToSet
<1>7. \A m, n \in 1..Len(e) : m < n => e[m] < e[n]
  BY <1>1, <1>4
<1>8. Len(e) \in Nat /\ Len(e) <= Cardinality(included)
  BY <1>1, <1>4
<1> QED
  BY <1>4, <1>5, <1>6, <1>7, <1>8

\* No view of a workflow is None.
LEMMA WorkflowViewIsOne ==
    ASSUME NEW exposed \in Seq(Tools), NEW count \in Nat
    PROVE  WorkflowView(exposed, count) # None /\ WorkflowView(exposed, count).kind = "workflow"
<1>1. WorkflowView(exposed, count)
        \in [kind : {"workflow"}, count : Nat,
            status : {"no_match", "needs_refinement", "prepared"}, operations : Seq(Tools)]
  BY DEF WorkflowView
<1>2. WorkflowView(exposed, count).kind = "workflow"
  BY DEF WorkflowView
<1> QED
  BY <1>1, <1>2, SelectionAssumption

-----------------------------------------------------------------------------
(* Preparations *)

\* The tools a preparation has in hand are what retrieve() returned for its request.
CandidatesInv ==
    /\ stage = "new" => candidates = <<>> /\ answers = None /\ trace = None /\ view = None
    /\ stage \in {"first", "second"} => view = None
    /\ stage = "second" => request.kind = "choice"
    /\ candidates # <<>> \/ stage \in {"first", "second"} =>
          /\ request.allowed \subseteq Tools
          /\ candidates = Retrieve(request.allowed, request.query)
    /\ stage \in {"first", "second"} => candidates # <<>> \/ Workflow
    /\ (candidates = <<>> /\ view = None) \/ mode \in {"core", "joint"}
    /\ mode \in {"core", "joint"} => request \in Requests
    /\ stage = "first" => answers = None

\* The request's limit of operations is part of the view.
Pooled == WorkflowView(Expose(Included(candidates, answers), candidates, request.limit), Len(candidates))

\* What was returned is what the last answers give, or nobody was asked.
ViewInv ==
    view # None =>
        \/ view.kind = "error" /\ (answers # None /\ request.kind # "choice" => Undecodable(answers))
        \/ /\ candidates = <<>> /\ answers = None
           /\ view \in {Empty, NoMatch("no_retrieval_match")}
        \/ /\ request.kind = "choice"
           /\ \E n \in 1..Len(candidates) :
                 /\ Decodes(answers, 0..n)
                 /\ view = Judge(Take(n, candidates), answers.p, n = Len(candidates))
        \/ /\ request.kind # "choice" /\ DOMAIN answers = DOMAIN candidates
           /\ ~Undecodable(answers)
           /\ view = IF Workflow THEN Pooled ELSE ReduceBinary(candidates, answers)

\* The trace tells of the candidates, and of the rest if there is a view.
FullTrace ==
    LET included == Included(candidates, answers) IN
    [retrieved |-> Indices(candidates),
     included |-> IF Done("workflow") THEN Indices(ById(included)) ELSE None,
     exposed |-> IF Done("workflow") THEN Indices(Expose(included, candidates, request.limit)) ELSE None]
\* The header is there when a workflow with a limit is, and tells just that.
TraceInv == trace # None \/ (stage = "first" /\ Traced) => Traced /\ trace = FullTrace

\* What a core returned, and why.
SelectionInv == CandidatesInv /\ ViewInv /\ TraceInv

\* The candidates are tools that the actor may use, each once, and those left out are
\* no better.
LEMMA CandidatesAreAllowed ==
    ASSUME CandidatesInv
    PROVE  /\ candidates \in Seq(request.allowed) /\ Len(candidates) <= Kept
           /\ \A m, n \in 1..Len(candidates) : candidates[m] = candidates[n] => m = n
           /\ candidates # <<>> =>
                 /\ request.allowed \subseteq Tools /\ request \in Requests
                 /\ \A t \in request.allowed \ ToSet(candidates) :
                       /\ Cardinality(request.allowed) > ScoreFrom
                       /\ \/ Score(t, request.query) = 0
                          \/ /\ Len(candidates) = Kept
                             /\ \A c \in ToSet(candidates) :
                                   Score(c, request.query) >= Score(t, request.query)
<1>1. CASE candidates = <<>>
  <2>1. Kept \in Nat
    BY RankingAssumption
  <2> QED
    BY <1>1, <2>1
<1>2. CASE candidates # <<>>
  <2>1. /\ request \in Requests /\ request.allowed \subseteq Tools
        /\ candidates = Retrieve(request.allowed, request.query)
    BY <1>2 DEF CandidatesInv
  <2>2. IsFiniteSet(request.allowed) /\ IsFiniteSet(request.query)
    BY <2>1, SelectionAssumption
  <2> QED
    BY <2>1, <2>2, RetrieveReturns
<1> QED
  BY <1>1, <1>2

\* In particular they are tools.
LEMMA CandidatesAreTools ==
    ASSUME CandidatesInv
    PROVE  candidates \in Seq(Tools)
<1>1. CASE candidates = <<>>
  BY <1>1
<1>2. CASE candidates # <<>>
  BY <1>2, CandidatesAreAllowed
<1> QED
  BY <1>1, <1>2

\* A preparation that has not begun has nothing in hand.
LEMMA KeepAskCore ==
    ASSUME NEW r \in Requests, AskCore(r), mode' = mode
    PROVE  SelectionInv'
BY DEF AskCore, SelectionInv, CandidatesInv, ViewInv, TraceInv, Done

\* Nor has one whose end is on record.
LEMMA KeepRest ==
    ASSUME SelectionInv, Rest, UNCHANGED <<mode, request>>
    PROVE  SelectionInv'
BY DEF Rest, SelectionInv, CandidatesInv, ViewInv, TraceInv, Done

\* The checks of a request, and retrieve().
LEMMA KeepStart ==
    ASSUME SelectionInv, Start, mode \in {"core", "joint"}, mode' = mode
    PROVE  SelectionInv'
<1> DEFINE found == Retrieve(request.allowed, request.query)
<1>1. /\ candidates = <<>> /\ answers = None /\ trace = None /\ view = None
      /\ UNCHANGED <<request, answers>> /\ request \in Requests
  BY DEF Start, SelectionInv, CandidatesInv
<1>2. CASE UNCHANGED <<candidates, trace>> /\ \E v : Finish(v) /\ v \in {Failure("INVALID_REQUEST"), Empty,
                Failure("DATA_PROCESSING_NOT_CONFIGURED"), Failure("PAYLOAD_TOO_LARGE")}
  <2>1. PICK v : Finish(v) /\ v \in {Failure("INVALID_REQUEST"), Empty,
                Failure("DATA_PROCESSING_NOT_CONFIGURED"), Failure("PAYLOAD_TOO_LARGE")}
    BY <1>2
  <2>2. stage' = "done" /\ view' = v /\ candidates' = <<>> /\ answers' = None /\ trace' = None
    BY <1>1, <1>2, <2>1 DEF Finish
  <2>3. CandidatesInv'
    BY <1>1, <2>2 DEF CandidatesInv, SelectionInv
  <2>4. ViewInv'
    BY <1>1, <2>1, <2>2 DEF ViewInv, Failure, Empty, Workflow
  <2> QED
    BY <2>2, <2>3, <2>4 DEF TraceInv, SelectionInv
<1>3. CASE /\ request.allowed \subseteq Tools
           /\ candidates' = found
           /\ trace' = IF Traced THEN [retrieved |-> Indices(found), included |-> None,
                                       exposed |-> None] ELSE trace
           /\ IF found = <<>> /\ ~Workflow THEN Finish(NoMatch("no_retrieval_match"))
              ELSE stage' = "first" /\ UNCHANGED view
  <2> HIDE DEF found
  <2>1. CandidatesInv'
    <3>1. /\ stage' \in {"first", "done"}
          /\ stage' = "first" => view' = None /\ (found # <<>> \/ Workflow)
      BY <1>1, <1>3 DEF Finish
    <3> QED
      BY <1>1, <1>3, <3>1 DEF CandidatesInv, found, Workflow
  <2>2. ViewInv' /\ ~Done("workflow")'
    BY <1>1, <1>3 DEF ViewInv, Finish, Done, NoMatch
  <2>3. TraceInv'
    <3>1. Traced' = Traced /\ (stage' = "first" => Traced \/ trace' = None)
      BY <1>1, <1>3 DEF Traced, Workflow
    <3>2. Traced => trace' = FullTrace'
      BY <1>3, <2>2 DEF FullTrace
    <3> QED
      BY <1>1, <1>3, <3>1, <3>2 DEF TraceInv
  <2> QED
    BY <2>1, <2>2, <2>3 DEF SelectionInv
<1> QED
  BY <1>1, <1>2, <1>3 DEF Start

\* One question: the answer is not one, decides, or is followed by another question.
LEMMA KeepAskChoice ==
    ASSUME SelectionInv, AskChoice, mode \in {"core", "joint"}, mode' = mode
    PROVE  SelectionInv'
<1> DEFINE n == Covered
<1>1. /\ stage \in {"first", "second"} /\ request.kind = "choice" /\ view = None
      /\ UNCHANGED <<request, candidates, trace>>
  BY DEF AskChoice, SelectionInv, CandidatesInv
<1>2. PICK raw \in Replies(n) :
             /\ answers' = raw
             /\ IF ~Decodes(raw, 0..n) THEN Finish(Failure("SELECTOR_INVALID_RESPONSE"))
                ELSE LET v == Judge(Take(n, candidates), raw.p, n = Len(candidates)) IN
                     IF v = None THEN stage' = "second" /\ UNCHANGED view ELSE Finish(v)
  BY DEF AskChoice
<1> HIDE DEF n
<1>3. trace = None
  BY <1>1 DEF SelectionInv, TraceInv, Traced, Workflow
<1>4. CandidatesInv'
  <2>1. (stage' = "second" /\ view' = view) \/ stage' = "done"
    BY <1>2 DEF Finish
  <2> QED
    BY <1>1, <1>3, <2>1 DEF SelectionInv, CandidatesInv, Workflow
<1>5. ViewInv'
  <2>1. CASE ~Decodes(raw, 0..n)
    BY <1>1, <1>2, <2>1 DEF ViewInv, Finish, Failure
  <2>2. CASE Decodes(raw, 0..n) /\ view' = None
    BY <2>2 DEF ViewInv
  <2>3. CASE Decodes(raw, 0..n) /\ view' # None
    <3>1. view' = Judge(Take(n, candidates), raw.p, n = Len(candidates))
      BY <1>1, <1>2, <2>3 DEF Finish
    <3>2. n \in 1..Len(candidates)
      <4>1. candidates # <<>> /\ candidates \in Seq(request.allowed)
        BY <1>1, CandidatesAreAllowed DEF SelectionInv, CandidatesInv, Workflow
      <4>2. Len(candidates) \in Nat \ {0} /\ FirstPass \in Nat \ {0}
        BY <4>1, RankingAssumption
      <4> QED
        BY <4>2 DEF n, Covered
    <3> QED
      BY <1>1, <1>2, <2>3, <3>1, <3>2 DEF ViewInv
  <2> QED
    BY <2>1, <2>2, <2>3
<1> QED
  BY <1>1, <1>3, <1>4, <1>5 DEF SelectionInv, TraceInv, Traced, Workflow

\* A question about each candidate: all answers are one, or the request fails.
LEMMA KeepAskEach ==
    ASSUME SelectionInv, AskEach, mode \in {"core", "joint"}, mode' = mode
    PROVE  SelectionInv'
<1>1. /\ stage = "first" /\ request.kind = "binary" /\ view = None
      /\ UNCHANGED <<request, candidates, trace>>
  BY DEF AskEach, SelectionInv, CandidatesInv
<1>2. PICK raws \in [DOMAIN candidates -> Replies(1)] :
          /\ answers' = raws
          /\ Finish(IF Undecodable(raws) THEN Failure("SELECTOR_INVALID_RESPONSE")
                    ELSE ReduceBinary(candidates, raws))
  BY DEF AskEach
<1>3. trace = None
  BY <1>1 DEF SelectionInv, TraceInv, Traced, Workflow
<1>4. CandidatesInv'
  BY <1>1, <1>2, <1>3 DEF SelectionInv, CandidatesInv, Finish
<1>5. ViewInv'
  <2>1. CASE Undecodable(raws)
    BY <1>1, <1>2, <2>1 DEF ViewInv, Finish, Failure
  <2>2. CASE ~Undecodable(raws)
    <3>1. view' = ReduceBinary(candidates, raws)
      BY <1>2, <2>2 DEF Finish
    <3>2. /\ request'.kind # "choice" /\ ~Workflow' /\ DOMAIN answers' = DOMAIN candidates'
          /\ ~Undecodable(answers)' /\ view' = ReduceBinary(candidates, answers)'
      BY <1>1, <1>2, <2>2, <3>1 DEF Workflow
    <3> QED
      BY <3>2 DEF ViewInv
  <2> QED
    BY <2>1, <2>2
<1> QED
  BY <1>1, <1>3, <1>4, <1>5 DEF SelectionInv, TraceInv, Traced, Workflow

\* The questions of a workflow.
LEMMA KeepAskWorkflow ==
    ASSUME SelectionInv, AskWorkflow, mode \in {"core", "joint"}, mode' = mode
    PROVE  SelectionInv'
<1>1. /\ stage = "first" /\ Workflow /\ view = None
      /\ UNCHANGED <<request, candidates>>
  BY DEF AskWorkflow, SelectionInv, CandidatesInv
<1> DEFINE included(raws) == Included(candidates, raws)
           exposed(raws) == Expose(included(raws), candidates, request.limit)
<1>2. PICK raws \in [DOMAIN candidates -> Replies(1)] :
          /\ answers' = raws
          /\ IF Undecodable(raws)
             THEN Finish(Failure("SELECTOR_INVALID_RESPONSE")) /\ UNCHANGED trace
             ELSE /\ Finish(WorkflowView(exposed(raws), Len(candidates)))
                  /\ trace' = IF Traced THEN [trace EXCEPT !.included = Indices(ById(included(raws))),
                                                           !.exposed = Indices(exposed(raws))] ELSE trace
  BY DEF AskWorkflow
<1>3. stage' = "done" /\ Workflow' /\ request'.kind # "choice"
  BY <1>1, <1>2 DEF Finish, Workflow
<1>4. CandidatesInv'
  BY <1>1, <1>3 DEF SelectionInv, CandidatesInv
<1>5. CASE Undecodable(raws)
  <2>1. /\ view' = Failure("SELECTOR_INVALID_RESPONSE") /\ trace' = trace /\ answers' = raws
        /\ ~Done("workflow")' /\ view'.kind = "error"
    BY <1>2, <1>5 DEF Finish, Failure, Done
  <2>2. ViewInv'
    BY <1>5, <2>1 DEF ViewInv
  <2>3. ~Done("workflow")
    BY <1>1 DEF Done
  <2>4. TraceInv'
    <3>1. FullTrace' = FullTrace
      BY <1>1, <2>1, <2>3 DEF FullTrace
    <3>2. Traced' = Traced /\ stage' = "done"
      BY <1>1, <1>3 DEF Traced, Workflow
    <3> QED
      BY <2>1, <3>1, <3>2 DEF TraceInv, SelectionInv
  <2> QED
    BY <1>4, <2>2, <2>4 DEF SelectionInv
<1>7. ASSUME ~Undecodable(raws)
      PROVE  Done("workflow")'
  <2>1. view' = WorkflowView(exposed(raws), Len(candidates))
    BY <1>2, <1>7 DEF Finish
  <2>2. candidates \in Seq(Tools) /\ (request.limit # None => request.limit \in Nat)
    BY <1>1, CandidatesAreTools, LimitsAreNumbers DEF SelectionInv, CandidatesInv
  <2>3. exposed(raws) \in Seq(Tools)
    <3>1. included(raws) \subseteq Tools /\ IsFiniteSet(included(raws))
      BY <2>2, IncludedReturns
    <3> HIDE DEF included
    <3> QED
      BY <2>2, <3>1, ExposeReturns
  <2> HIDE DEF exposed
  <2> QED
    BY <2>1, <2>2, <2>3, WorkflowViewIsOne DEF Done
<1>6. CASE ~Undecodable(raws)
  <2>1. /\ view' = Pooled' /\ ~Undecodable(answers)' /\ DOMAIN answers' = DOMAIN candidates'
    BY <1>1, <1>2, <1>6 DEF Finish, Pooled
  <2>2. ViewInv'
    BY <1>3, <2>1 DEF ViewInv
  <2>3. TraceInv'
    <3>1. Traced' = Traced /\ stage' = "done"
      BY <1>1, <1>3 DEF Traced, Workflow
    <3>2. CASE Traced
      <4>1. trace' = [trace EXCEPT !.included = Indices(ById(included(raws))),
                                   !.exposed = Indices(exposed(raws))]
        BY <1>2, <1>6, <3>2
      <4>2. trace = [retrieved |-> Indices(candidates), included |-> None, exposed |-> None]
        BY <1>1, <3>2 DEF TraceInv, FullTrace, SelectionInv, Done
      <4> HIDE DEF included, exposed
      <4>3. trace' = [retrieved |-> Indices(candidates), included |-> Indices(ById(included(raws))),
                      exposed |-> Indices(exposed(raws))]
        BY <4>1, <4>2
      <4>4. Done("workflow")'
        BY <1>6, <1>7
      <4>5. trace' = FullTrace'
        BY <1>1, <1>2, <4>3, <4>4 DEF FullTrace, included, exposed
      <4> QED
        BY <3>1, <3>2, <4>5 DEF TraceInv
    <3>3. CASE ~Traced
      BY <1>1, <1>2, <1>6, <3>1, <3>3 DEF TraceInv, SelectionInv
    <3> QED
      BY <3>2, <3>3
  <2> QED
    BY <1>4, <2>2, <2>3 DEF SelectionInv
<1> QED
  BY <1>5, <1>6

\* No answer.
LEMMA KeepSelectorFails ==
    ASSUME SelectionInv, SelectorFails, mode \in {"core", "joint"}, mode' = mode
    PROVE  SelectionInv'
<1>1. /\ stage \in {"first", "second"} /\ view = None /\ stage' = "done"
      /\ view' = Failure("SELECTOR_UNAVAILABLE") /\ UNCHANGED <<request, candidates, answers, trace>>
  BY DEF SelectorFails, SelectionInv, CandidatesInv, Finish
<1>2. CandidatesInv'
  BY <1>1 DEF SelectionInv, CandidatesInv
<1>3. ViewInv'
  <2>1. view'.kind = "error"
    BY <1>1 DEF Failure
  <2>2. request.kind # "choice" => answers = None
    <3>1. stage = "second" => request.kind = "choice"
      BY DEF SelectionInv, CandidatesInv
    <3> QED
      BY <1>1, <3>1 DEF SelectionInv, CandidatesInv
  <2> QED
    BY <1>1, <2>1, <2>2 DEF ViewInv
<1>4. TraceInv'
  <2>1. ~Done("workflow") /\ ~Done("workflow")'
    BY <1>1 DEF Done, Failure
  <2>2. FullTrace' = FullTrace /\ Traced' = Traced
    BY <1>1, <2>1 DEF FullTrace, Traced, Workflow
  <2> QED
    BY <1>1, <2>2 DEF TraceInv, SelectionInv
<1> QED
  BY <1>2, <1>3, <1>4 DEF SelectionInv

\* An agent that calls the tools itself asks no core.
LEMMA KeepAgent ==
    ASSUME SelectionInv, Agent \/ UNCHANGED allVars
    PROVE  SelectionInv'
<1>1. UNCHANGED vars /\ (mode' = mode \/ {mode, mode'} \cap {"core", "joint"} = {})
  BY DEF Agent, Call, CallEnds, GiveUp, TakeRecord, allVars, evaluation
<1>2. CandidatesInv'
  BY <1>1 DEF SelectionInv, CandidatesInv, Workflow, vars
<1>3. ViewInv'
  BY <1>1, ZenonT(60) DEF SelectionInv, ViewInv, Undecodable, Decodes, Empty, Workflow, Pooled, vars
<1>4. TraceInv'
  BY <1>1 DEF SelectionInv, TraceInv, Traced, Workflow, FullTrace, Done, vars
<1> QED
  BY <1>2, <1>3, <1>4 DEF SelectionInv

\* Nobody was asked.
LEMMA SelectionInitially == EvaluationInit => SelectionInv
BY DEF EvaluationInit, Init, SelectionInv, CandidatesInv, ViewInv, TraceInv, Traced, Workflow

\* Every step keeps what is known of the candidates, the view and the trace.
LEMMA SelectionInductive == SelectionInv /\ [EvaluationNext]_allVars => SelectionInv'
<1> SUFFICES ASSUME SelectionInv, [EvaluationNext]_allVars
             PROVE  SelectionInv'
  OBVIOUS
<1>1. CASE Core
  <2>1. mode \in {"core", "joint"} /\ mode' = mode /\ Next
    BY <1>1 DEF Core, evaluation
  <2> QED
    BY <2>1, KeepStart, KeepAskChoice, KeepAskEach, KeepAskWorkflow, KeepSelectorFails DEF Next
<1>2. CASE Preparation
  <2>1. ASSUME NEW readable \in BOOLEAN, Retry(readable)
        PROVE  SelectionInv'
    <3>1. request \in Requests /\ AskCore(request) /\ mode' = mode
      BY <2>1 DEF Retry, SelectionInv, CandidatesInv
    <3> QED
      BY <3>1, KeepAskCore
  <2>2. ASSUME NEW arrived \in BOOLEAN, NEW readable \in BOOLEAN, NEW stored \in BOOLEAN,
               PrepareEnds(arrived, readable, stored)
        PROVE  SelectionInv'
    BY <2>2, KeepRest DEF PrepareEnds
  <2>3. ASSUME PrepareAgain
        PROVE  SelectionInv'
    <3>1. PICK r \in Again : AskCore(r) /\ mode' = mode
      BY <2>3 DEF PrepareAgain, evaluation
    <3>2. r \in Requests
      BY EvaluationAssumption
    <3> QED
      BY <3>1, <3>2, KeepAskCore
  <2> QED
    BY <1>2, <2>1, <2>2, <2>3 DEF Preparation
<1> QED
  BY <1>1, <1>2, KeepAgent DEF EvaluationNext

\* Where a preparation stands is known from its request and its last answers.
THEOREM SelectionInvariance == EvaluationSpec => []SelectionInv
<1> QED
  BY SelectionInitially, SelectionInductive, PTL DEF EvaluationSpec

\* What ascends has nothing twice.
LEMMA AscendingIsInjective ==
    ASSUME NEW s \in Seq(Tools), \A m, n \in 1..Len(s) : m < n => s[m] < s[n]
    PROVE  \A m, n \in 1..Len(s) : s[m] = s[n] => m = n
<1> SUFFICES ASSUME NEW m \in 1..Len(s), NEW n \in 1..Len(s), s[m] = s[n], m # n
             PROVE  FALSE
  OBVIOUS
<1>1. s[m] \in Tools /\ (m < n \/ n < m)
  OBVIOUS
<1>2. s[m] \in Int
  BY <1>1, ToolsAreNumbers
<1> QED
  BY <1>1, <1>2

\* Indices name the same tools.
LEMMA IndicesReturn ==
    ASSUME NEW s \in Seq(Tools)
    PROVE  /\ Indices(s) \in Seq(Int) /\ Len(Indices(s)) = Len(s)
           /\ \A i \in 1..Len(s) : Indices(s)[i] = s[i] - 1
           /\ ToSet(Indices(s)) = {t - 1 : t \in ToSet(s)}
           /\ (\A m, n \in 1..Len(s) : s[m] = s[n] => m = n) => IsInjective(Indices(s))
<1>1. \A i \in 1..Len(s) : s[i] \in Int
  <2>1. \A t \in Tools : t \in Int
    BY RankingAssumption
  <2> QED
    BY <2>1
<1>2. Indices(s) = [i \in 1..Len(s) |-> s[i] - 1] /\ Len(s) \in Nat
  BY DEF Indices
<1>3. Indices(s) \in Seq(Int) /\ Len(Indices(s)) = Len(s)
  BY <1>1, <1>2
<1>4. ToSet(Indices(s)) = {t - 1 : t \in ToSet(s)}
  BY <1>2 DEF ToSet
<1> QED
  BY <1>1, <1>2, <1>3, <1>4 DEF IsInjective

\* A view that is not of a workflow.
LEMMA OthersAreNoWorkflow ==
    /\ \A subset, p, last : Judge(subset, p, last) # None => Judge(subset, p, last).kind # "workflow"
    /\ \A tools, raws : ReduceBinary(tools, raws).kind # "workflow"
BY DEF Judge, ReduceBinary, Selected, NoMatch, Choose

\* How the view of a workflow came about.
LEMMA WorkflowOfAnswers ==
    ASSUME SelectionInv, Done("workflow")
    PROVE  /\ Workflow
           /\ \/ candidates = <<>> /\ answers = None /\ view = WorkflowView(<<>>, 0)
              \/ view = Pooled
           /\ request \in Requests
<1>1. view # None /\ view.kind = "workflow" /\ ViewInv /\ request \in Requests
  BY DEF Done, SelectionInv, CandidatesInv
<1>2. CASE candidates = <<>> /\ answers = None /\ view \in {Empty, NoMatch("no_retrieval_match")}
  BY <1>1, <1>2 DEF Empty, NoMatch, WorkflowView
<1>3. CASE /\ request.kind = "choice"
           /\ \E n \in 1..Len(candidates) :
                 /\ Decodes(answers, 0..n)
                 /\ view = Judge(Take(n, candidates), answers.p, n = Len(candidates))
  BY <1>1, <1>3, OthersAreNoWorkflow
<1>4. CASE /\ request.kind # "choice" /\ DOMAIN answers = DOMAIN candidates
           /\ ~Undecodable(answers)
           /\ view = IF Workflow THEN Pooled ELSE ReduceBinary(candidates, answers)
  <2>1. Workflow /\ view = Pooled
    BY <1>1, <1>4, OthersAreNoWorkflow
  <2> QED
    BY <1>1, <2>1
<1>5. view.kind # "error"
  BY <1>1
<1> QED
  BY <1>1, <1>2, <1>3, <1>4, <1>5 DEF ViewInv

\* The provider takes the trace that a core sends, whatever the selector answered.
LEMMA TraceIsRead ==
    ASSUME SelectionInv, trace # None
    PROVE  Reads(trace)
<1> DEFINE included == Included(candidates, answers)
           exposed == Expose(included, candidates, request.limit)
<1>1. Traced /\ trace = FullTrace
  BY DEF SelectionInv, TraceInv
<1>2. /\ candidates \in Seq(Tools) /\ Len(candidates) <= Kept /\ Len(candidates) \in Nat
      /\ \A m, n \in 1..Len(candidates) : candidates[m] = candidates[n] => m = n
  BY CandidatesAreAllowed, CandidatesAreTools DEF SelectionInv
<1>3. Kept \in Nat /\ MostExposed \in Nat
  BY RankingAssumption
<1>4. trace.retrieved = Indices(candidates) /\ IndexList(trace.retrieved)
  BY <1>1, <1>2, IndicesReturn DEF FullTrace, IndexList
<1>5. CASE Done("workflow")
  <2>1. request.limit \in Nat /\ request.limit <= MostExposed /\ request.limit # None
    BY <1>1, <1>5, WorkflowOfAnswers, LimitsAreNumbers DEF Traced
  <2>2. /\ included \subseteq ToSet(candidates) /\ included \subseteq Tools /\ IsFiniteSet(included)
        /\ Cardinality(included) <= Len(candidates) /\ Cardinality(included) \in Nat
    BY <1>2, IncludedReturns, FS_CardinalityType
  <2> HIDE DEF included
  <2>3. /\ ById(included) \in Seq(included) /\ Len(ById(included)) = Cardinality(included)
        /\ \A t \in included : \E n \in 1..Len(ById(included)) : ById(included)[n] = t
        /\ \A m, n \in 1..Len(ById(included)) : m < n => ById(included)[m] < ById(included)[n]
    BY <2>2, ByIdReturns
  <2>4. /\ exposed \in Seq(Tools) /\ ToSet(exposed) \subseteq included
        /\ \A m, n \in 1..Len(exposed) : m < n => exposed[m] < exposed[n]
        /\ Len(exposed) <= request.limit /\ Len(exposed) <= Cardinality(included) /\ Len(exposed) \in Nat
    BY <2>1, <2>2, ExposeReturns
  <2> HIDE DEF exposed
  <2>5. trace.included = Indices(ById(included)) /\ trace.exposed = Indices(exposed)
    BY <1>1, <1>5 DEF FullTrace, included, exposed
  <2>6. ById(included) \in Seq(Tools) /\ ToSet(ById(included)) = included
    BY <2>2, <2>3 DEF ToSet
  <2>7. IndexList(trace.included)
    <3>1. \A m, n \in 1..Len(ById(included)) : ById(included)[m] = ById(included)[n] => m = n
      BY <2>3, <2>6, AscendingIsInjective
    <3>2. IsInjective(Indices(ById(included))) /\ Len(Indices(ById(included))) = Len(ById(included))
      BY <2>6, <3>1, IndicesReturn
    <3>3. Len(ById(included)) <= Kept
      BY <1>2, <1>3, <2>2, <2>3
    <3> QED
      BY <2>5, <3>2, <3>3 DEF IndexList
  <2>8. IndexList(trace.exposed) /\ Len(trace.exposed) <= MostExposed
    <3>1. \A m, n \in 1..Len(exposed) : exposed[m] = exposed[n] => m = n
      BY <2>4, AscendingIsInjective
    <3>2. Len(exposed) \in Nat /\ Len(Indices(exposed)) = Len(exposed) /\ IsInjective(Indices(exposed))
      BY <2>4, <3>1, IndicesReturn
    <3> QED
      BY <1>2, <1>3, <2>1, <2>2, <2>4, <2>5, <3>2 DEF IndexList
  <2>9. /\ ToSet(trace.included) \subseteq ToSet(trace.retrieved)
        /\ ToSet(trace.exposed) \subseteq ToSet(trace.included)
    <3>1. /\ ToSet(trace.retrieved) = {t - 1 : t \in ToSet(candidates)}
          /\ ToSet(trace.included) = {t - 1 : t \in included}
          /\ ToSet(trace.exposed) = {t - 1 : t \in ToSet(exposed)}
      BY <1>2, <1>4, <2>4, <2>5, <2>6, IndicesReturn
    <3> QED
      BY <2>2, <2>4, <3>1
  <2>10. trace.included # None
    BY <2>5, <2>6, IndicesReturn, RankingAssumption
  <2> QED
    BY <1>4, <2>7, <2>8, <2>9, <2>10 DEF Reads
<1>6. CASE ~Done("workflow")
  <2>1. trace.included = None /\ trace.exposed = None
    BY <1>1, <1>6 DEF FullTrace
  <2> QED
    BY <1>4, <2>1 DEF Reads
<1> QED
  BY <1>5, <1>6

\* It takes the view too, and the view leaves out only what comes last.
LEMMA ViewIsAccepted ==
    ASSUME SelectionInv, Done("workflow")
    PROVE  LET included == IF candidates = <<>> THEN {} ELSE Included(candidates, answers) IN
           /\ Accepts(view, request)
           /\ \A t \in ToSet(view.operations), u \in included \ ToSet(view.operations) : t < u
           /\ Cardinality(included) <= MostExposed => view.status # "needs_refinement"
<1> DEFINE included == IF candidates = <<>> THEN {} ELSE Included(candidates, answers)
           pooled == Included(candidates, answers)
           exposed == Expose(pooled, candidates, request.limit)
<1>1. request.limit # None => request.limit \in Nat
  BY WorkflowOfAnswers, LimitsAreNumbers
<1>2. MostExposed \in Nat \ {0}
  BY RankingAssumption
<1>3. CASE candidates = <<>> /\ view = WorkflowView(<<>>, 0)
  <2>1. view.operations = <<>> /\ view.status = "no_match" /\ Len(<<>>) = 0
    BY <1>2, <1>3 DEF WorkflowView
  <2>2. request.limit # None => 0 <= request.limit
    BY <1>1
  <2>3. ToSet(view.operations) = {} /\ IsInjective(view.operations)
    BY <2>1 DEF ToSet, IsInjective
  <2>4. included = {}
    BY <1>3
  <2> QED
    BY <2>1, <2>2, <2>3, <2>4 DEF Accepts
<1>4. CASE view = Pooled
  <2>1. /\ candidates \in Seq(Tools) /\ candidates \in Seq(request.allowed)
        /\ ToSet(candidates) \subseteq request.allowed
    BY CandidatesAreAllowed, CandidatesAreTools DEF SelectionInv, ToSet
  <2>2. /\ pooled \subseteq ToSet(candidates) /\ pooled \subseteq Tools /\ IsFiniteSet(pooled)
        /\ Cardinality(pooled) \in Nat
    BY <2>1, IncludedReturns, FS_CardinalityType
  <2>3. included = pooled
    BY <2>2 DEF ToSet
  <2> HIDE DEF pooled, included
  <2>4. /\ exposed \in Seq(Tools) /\ ToSet(exposed) \subseteq pooled
        /\ \A m, n \in 1..Len(exposed) : m < n => exposed[m] < exposed[n]
        /\ \A t \in ToSet(exposed), u \in pooled \ ToSet(exposed) : t < u
        /\ request.limit # None => Len(exposed) <= request.limit
        /\ Len(exposed) <= Cardinality(pooled) /\ Len(exposed) \in Nat
    BY <1>1, <2>2, ExposeReturns
  <2>5. view = WorkflowView(exposed, Len(candidates))
    BY <1>4 DEF Pooled, pooled
  <2> HIDE DEF exposed
  <2>6. IsInjective(exposed)
    BY <2>4, AscendingIsInjective DEF IsInjective
  <2>7. CASE Len(exposed) > MostExposed
    <3>1. view.operations = <<>> /\ view.status = "needs_refinement"
      BY <1>2, <2>4, <2>5, <2>7 DEF WorkflowView
    <3>2. ToSet(view.operations) = {} /\ IsInjective(view.operations) /\ Len(<<>>) = 0
      BY <3>1 DEF ToSet, IsInjective
    <3>3. Cardinality(included) > MostExposed
      BY <1>2, <2>2, <2>3, <2>4, <2>7
    <3>4. Cardinality(included) \in Nat
      BY <2>2, <2>3
    <3>5. request.limit # None => 0 <= request.limit
      BY <1>1
    <3> QED
      BY <1>2, <3>1, <3>2, <3>3, <3>4, <3>5 DEF Accepts, included
  <2>8. CASE ~(Len(exposed) > MostExposed)
    <3>1. view.operations = exposed /\ view.status = IF exposed = <<>> THEN "no_match" ELSE "prepared"
      BY <2>5, <2>8 DEF WorkflowView
    <3>2. ToSet(exposed) \subseteq request.allowed
      BY <2>1, <2>2, <2>4
    <3>3. Accepts(view, request)
      BY <2>4, <2>6, <3>1, <3>2 DEF Accepts
    <3> QED
      BY <2>3, <2>4, <3>1, <3>3 DEF included
  <2> QED
    BY <2>7, <2>8
<1> QED
  BY <1>3, <1>4, WorkflowOfAnswers

\* The provider takes every workflow and every trace that a core returns.
THEOREM TakenWorkflow == EvaluationSpec => []WorkflowIsTaken
<1>1. SelectionInv => WorkflowIsTaken
  BY TraceIsRead, ViewIsAccepted DEF WorkflowIsTaken
<1> QED
  BY <1>1, SelectionInvariance, PTL

\* Probabilities of finitely many options.
Probabilities(p, options) ==
    options \subseteq Nat /\ IsFiniteSet(options) /\ \A o \in options : p[o] \in Int

\* The options of an answer, the most probable first.
LEMMA RankedReturns ==
    ASSUME NEW p, NEW options, Probabilities(p, options),
           NEW s, s = Ranked(p, options)
    PROVE  /\ s \in Seq(options) /\ Len(s) = Cardinality(options) /\ Len(s) \in Nat
           /\ \A o \in options : \E n \in 1..Len(s) : s[n] = o
           /\ \A m, n \in 1..Len(s) : s[m] = s[n] => m = n
           /\ \A m, n \in 1..Len(s) : m <= n => p[s[m]] >= p[s[n]]
<1> DEFINE worst == [o \in options |-> -p[o]]
           id == [o \in options |-> o]
<1>0. options \subseteq Nat /\ IsFiniteSet(options) /\ \A o \in options : p[o] \in Int
  BY DEF Probabilities
<1>1. Sortable(options, worst, id)
  BY <1>0 DEF Sortable
<1>2. s = Arranged(options, worst, id)
  BY DEF Ranked
<1>3. \A o \in options : worst[o] = -p[o]
  OBVIOUS
<1> HIDE DEF worst, id
<1>4. /\ s \in Seq(options) /\ Len(s) = Cardinality(options) /\ Len(s) \in Nat
      /\ \A o \in options : \E n \in 1..Len(s) : s[n] = o
      /\ \A m, n \in 1..Len(s) : s[m] = s[n] => m = n
      /\ \A m, n \in 1..Len(s) : m <= n => worst[s[m]] <= worst[s[n]]
  BY <1>1, <1>2, ArrangedAscends
<1>5. ASSUME NEW m \in 1..Len(s), NEW n \in 1..Len(s), m <= n
      PROVE  p[s[m]] >= p[s[n]]
  <2>1. s[m] \in options /\ s[n] \in options
    BY <1>4
  <2>2. worst[s[m]] <= worst[s[n]]
    BY <1>4, <1>5
  <2>3. /\ p[s[m]] \in Int /\ worst[s[m]] = -p[s[m]]
        /\ p[s[n]] \in Int /\ worst[s[n]] = -p[s[n]]
    BY <1>0, <1>3, <2>1
  <2> QED
    BY <2>2, <2>3
<1> QED
  BY <1>4, <1>5

\* The probabilities of an answer are numbers.
LEMMA AnswersAreNumbers ==
    ASSUME NEW raw, NEW options, Decodes(raw, options)
    PROVE  DOMAIN raw.p = options /\ \A o \in options : raw.p[o] \in Int
<1>1. DOMAIN raw.p = options /\ \A o \in options : raw.p[o] \in 0..100
  BY DEF Decodes
<1>2. \A o \in options : raw.p[o] \in Int
  <2> TAKE o \in options
  <2>1. raw.p[o] \in 0..100
    BY <1>1
  <2> QED
    BY <2>1
<1> QED
  BY <1>1, <1>2

\* A tool that a question about several selects leads every other option.
LEMMA JudgeSelects ==
    ASSUME NEW n \in Nat \ {0}, NEW p, DOMAIN p = 0..n, \A o \in 0..n : p[o] \in Int,
           NEW subset, NEW last,
           Judge(subset, p, last) # None, Judge(subset, p, last).kind = "selected"
    PROVE  \E top \in 1..n :
              /\ Judge(subset, p, last).tool = subset[top]
              /\ \A o \in 0..n \ {top} : Confident(subset[top], p[top], p[o])
<1> DEFINE order == Ranked(p, DOMAIN p)
           top == order[1]
           second == IF Len(order) > 1 THEN p[order[2]] ELSE 0
<1>1. /\ top # 0 /\ Confident(subset[top], p[top], second)
      /\ Judge(subset, p, last) = Selected(subset[top])
  BY DEF Judge, Selected, NoMatch, Choose
<1> DEFINE options == 0..n
<1>0. /\ options \subseteq Nat /\ IsFiniteSet(options) /\ Cardinality(options) = n + 1
      /\ \A o \in options : p[o] \in Int
  BY FS_Interval
<1>6. order = Ranked(p, options)
  OBVIOUS
<1>8. Probabilities(p, options)
  BY <1>0 DEF Probabilities
<1> HIDE DEF order, options
<1>2. /\ order \in Seq(options) /\ Len(order) = Cardinality(options) /\ Len(order) \in Nat
      /\ \A o \in options : \E m \in 1..Len(order) : order[m] = o
  BY <1>6, <1>8, RankedReturns
<1>9. \A k, m \in 1..Len(order) : order[k] = order[m] => k = m
  BY <1>6, <1>8, RankedReturns
<1>10. \A k, m \in 1..Len(order) : k <= m => p[order[k]] >= p[order[m]]
  BY <1>6, <1>8, RankedReturns
<1>7. /\ 1 \in 1..Len(order) /\ 2 \in 1..Len(order) /\ Len(order) > 1
      /\ order[1] \in options /\ order[2] \in options
  BY <1>0, <1>2
<1>3. top \in 1..n /\ second = p[order[2]] /\ order[2] \in options
  BY <1>1, <1>7 DEF options
<1>4. ASSUME NEW o \in 0..n \ {top}
      PROVE  Confident(subset[top], p[top], p[o])
  <2>1. PICK m \in 1..Len(order) : order[m] = o
    BY <1>2 DEF options
  <2>2. m # 1
    BY <2>1
  <2>6. 2 <= m
    BY <1>2, <2>2
  <2>3. second >= p[o]
    BY <1>3, <1>7, <1>10, <2>1, <2>6
  <2>4. second \in Int /\ p[o] \in Int /\ p[top] \in Int
    BY <1>0, <1>3, SMTT(30) DEF options
  <2> HIDE DEF top, second
  <2>5. Bar(subset[top]).margin \in Int
    BY DEF Bar
  <2> QED
    BY <1>1, <2>3, <2>4, <2>5, SMTT(30) DEF Confident
<1>5. Judge(subset, p, last).tool = subset[top]
  BY <1>1 DEF Selected
<1> QED
  BY <1>3, <1>4, <1>5

\* A sequence has each member of a set once.
Lists(s, S) == /\ s \in Seq(S) /\ Len(s) \in Nat /\ Len(s) = Cardinality(S)
               /\ \A x \in S : \E n \in 1..Len(s) : s[n] = x
               /\ \A m, n \in 1..Len(s) : s[m] = s[n] => m = n

\* The places of the candidates that were found suitable.
Suitable(tools, raws) == {i \in 1..Len(tools) : raws[i].choice = 1}

\* Their order: by how little suits them ...
Doubt(tools, raws) == [i \in Suitable(tools, raws) |-> -raws[i].p[1]]
\* ... and, among equals, their IDs.
IdsOf(tools, raws) == [i \in Suitable(tools, raws) |-> tools[i]]

\* Candidates, each once, with an answer each.
Judged(tools, raws) ==
    /\ tools \in Seq(Tools)
    /\ \A m, n \in 1..Len(tools) : tools[m] = tools[n] => m = n
    /\ \A i \in 1..Len(tools) : Decodes(raws[i], 0..1)

\* The order of the positive answers is a sort.
LEMMA PositivesSort ==
    ASSUME NEW tools, NEW raws, Judged(tools, raws)
    PROVE  /\ Sortable(Suitable(tools, raws), Doubt(tools, raws), IdsOf(tools, raws))
           /\ Positives(tools, raws)
                = Arranged(Suitable(tools, raws), Doubt(tools, raws), IdsOf(tools, raws))
           /\ \A i \in Suitable(tools, raws) :
                 Doubt(tools, raws)[i] = -raws[i].p[1] /\ raws[i].p[1] \in Int
<1> DEFINE yes == Suitable(tools, raws)
           worst == Doubt(tools, raws)
           id == IdsOf(tools, raws)
<1>1. Len(tools) \in Nat /\ DOMAIN tools = 1..Len(tools) /\ tools \in Seq(Tools)
  BY DEF Judged
<1>2. ASSUME NEW i \in 1..Len(tools)
      PROVE  raws[i].p[1] \in Int
  <2>1. Decodes(raws[i], 0..1) /\ 1 \in 0..1
    BY DEF Judged
  <2> QED
    BY <2>1, AnswersAreNumbers
<1>3. IsFiniteSet(yes)
  <2>1. IsFiniteSet(1..Len(tools))
    BY <1>1, UpToIsFinite
  <2> QED
    BY <2>1, FS_Subset DEF Suitable
<1>4. \A i \in yes : worst[i] = -raws[i].p[1] /\ id[i] = tools[i] /\ tools[i] \in Int
  BY <1>1, ToolsAreNumbers DEF Doubt, IdsOf, Suitable
<1>5. \A i \in yes : raws[i].p[1] \in Int
  BY <1>2 DEF Suitable
<1>6. \A i \in yes : worst[i] \in Int
  <2> TAKE i \in yes
  <2> DEFINE a == raws[i].p[1]
  <2>1. a \in Int /\ worst[i] = -a
    BY <1>4, <1>5
  <2> HIDE DEF a
  <2> QED
    BY <2>1
<1>7. \A i, j \in yes : id[i] = id[j] => i = j
  BY <1>4 DEF Suitable, Judged
<1>8. Positives(tools, raws) = Arranged(yes, worst, id)
  BY <1>1 DEF Positives, Suitable, Doubt, IdsOf
<1> HIDE DEF yes, worst, id
<1>9. Sortable(yes, worst, id)
  BY <1>3, <1>4, <1>6, <1>7 DEF Sortable
<1>10. \A i \in yes : worst[i] = -raws[i].p[1] /\ raws[i].p[1] \in Int
  BY <1>4, <1>5
<1> QED
  BY <1>8, <1>9, <1>10 DEF yes, worst, id

\* The candidates that were found suitable, the most probable first.
LEMMA PositivesReturn ==
    ASSUME NEW tools, NEW raws, Judged(tools, raws), NEW s, s = Positives(tools, raws)
    PROVE  /\ Lists(s, Suitable(tools, raws))
           /\ \A m, n \in 1..Len(s) : m <= n => raws[s[m]].p[1] >= raws[s[n]].p[1]
<1> DEFINE yes == Suitable(tools, raws)
           worst == Doubt(tools, raws)
           id == IdsOf(tools, raws)
<1>1. Sortable(yes, worst, id) /\ s = Arranged(yes, worst, id)
  BY PositivesSort
<1>2. \A i \in yes : worst[i] = -raws[i].p[1] /\ raws[i].p[1] \in Int
  BY PositivesSort
<1> HIDE DEF worst, id, yes
<1>3. /\ s \in Seq(yes) /\ Len(s) = Cardinality(yes) /\ Len(s) \in Nat
      /\ \A i \in yes : \E n \in 1..Len(s) : s[n] = i
      /\ \A m, n \in 1..Len(s) : s[m] = s[n] => m = n
      /\ \A m, n \in 1..Len(s) : m <= n => worst[s[m]] <= worst[s[n]]
  BY <1>1, ArrangedAscends
<1>4. ASSUME NEW m \in 1..Len(s), NEW n \in 1..Len(s), m <= n
      PROVE  raws[s[m]].p[1] >= raws[s[n]].p[1]
  <2> DEFINE a == raws[s[m]].p[1]
             b == raws[s[n]].p[1]
  <2>1. s[m] \in yes /\ s[n] \in yes
    BY <1>3
  <2>2. worst[s[m]] = -a /\ worst[s[n]] = -b /\ a \in Int /\ b \in Int
    BY <1>2, <2>1
  <2>3. worst[s[m]] <= worst[s[n]]
    BY <1>3, <1>4
  <2> HIDE DEF a, b
  <2>4. a >= b
    BY <2>2, <2>3
  <2> QED
    BY <2>4 DEF a, b
<1> QED
  BY <1>3, <1>4 DEF yes, Lists

\* A bar that is cleared against a rival is cleared against a weaker one.
LEMMA ConfidentOver ==
    ASSUME NEW t, NEW p \in Int, NEW q \in Int, NEW r \in Int, Confident(t, p, q), r <= q
    PROVE  Confident(t, p, r)
<1>1. Bar(t).margin \in Int
  BY DEF Bar
<1> QED
  BY <1>1 DEF Confident

\* A candidate that is selected after a question about each leads its own "none" and
\* every other positive answer.
LEMMA ReduceSelects ==
    ASSUME NEW tools, NEW raws, Judged(tools, raws),
           ReduceBinary(tools, raws).kind = "selected"
    PROVE  \E i \in 1..Len(tools) :
              /\ ReduceBinary(tools, raws).tool = tools[i]
              /\ Confident(tools[i], raws[i].p[1], raws[i].p[0])
              /\ \A j \in 1..Len(tools) \ {i} :
                    raws[j].choice = 1 => Confident(tools[i], raws[i].p[1], raws[j].p[1])
<1> DEFINE order == Positives(tools, raws)
           yes == Suitable(tools, raws)
           top == order[1]
           up == RunnerUp(raws, order)
<1>1. /\ order # <<>> /\ Confident(tools[top], raws[top].p[1], up)
      /\ ReduceBinary(tools, raws).tool = tools[top]
  BY DEF ReduceBinary, Selected, NoMatch, Choose
<1>2. order = Positives(tools, raws)
  OBVIOUS
<1> HIDE DEF order
<1>14. Lists(order, yes)
  BY <1>2, PositivesReturn
<1>3. /\ order \in Seq(yes) /\ Len(order) \in Nat
      /\ \A i \in yes : \E n \in 1..Len(order) : order[n] = i
  BY <1>14 DEF Lists
<1>15. yes = {i \in 1..Len(tools) : raws[i].choice = 1}
  BY DEF Suitable
<1>4. \A m, n \in 1..Len(order) : m <= n => raws[order[m]].p[1] >= raws[order[n]].p[1]
  BY <1>2, PositivesReturn
<1>5. 1 \in 1..Len(order) /\ top \in yes
  BY <1>1, <1>3
<1> HIDE DEF yes
<1>6. \A i \in 1..Len(tools) : raws[i].p[1] \in Int /\ raws[i].p[0] \in Int
  <2> TAKE i \in 1..Len(tools)
  <2>1. Decodes(raws[i], 0..1) /\ 0 \in 0..1 /\ 1 \in 0..1
    BY DEF Judged
  <2> QED
    BY <2>1, AnswersAreNumbers
<1> DEFINE no == raws[top].p[0]
           next == IF Len(order) > 1 THEN raws[order[2]].p[1] ELSE no
<1>7. no \in Int /\ next \in Int
  <2>1. Len(order) > 1 => order[2] \in yes
    BY <1>3
  <2> QED
    BY <1>5, <1>6, <1>15, <2>1
<1>8. up = IF next > no THEN next ELSE no
  BY DEF RunnerUp
<1>9. ASSUME NEW j \in yes, j # top
      PROVE  Len(order) > 1 /\ next >= raws[j].p[1]
  <2>1. PICK m \in 1..Len(order) : order[m] = j
    BY <1>3
  <2>2. m # 1
    BY <1>9, <2>1
  <2>3. 2 <= m /\ 2 \in 1..Len(order) /\ Len(order) > 1
    BY <1>3, <2>2
  <2> QED
    BY <1>4, <2>1, <2>3
<1> HIDE DEF up, no, next, top
<1>10. up \in Int /\ no <= up /\ next <= up
  BY <1>7, <1>8
<1>11. top \in 1..Len(tools) /\ raws[top].p[1] \in Int /\ raws[top].p[0] = no
  BY <1>5, <1>6, <1>15 DEF no
<1>12. Confident(tools[top], raws[top].p[1], raws[top].p[0])
  BY <1>1, <1>7, <1>10, <1>11, ConfidentOver
<1>13. ASSUME NEW j \in 1..Len(tools) \ {top}, raws[j].choice = 1
       PROVE  Confident(tools[top], raws[top].p[1], raws[j].p[1])
  <2> DEFINE a == raws[j].p[1]
  <2>1. a \in Int
    BY <1>6
  <2>2. next >= a
    BY <1>9, <1>13, <1>15
  <2> HIDE DEF a
  <2>3. a <= up
    BY <1>7, <1>10, <2>1, <2>2
  <2>4. Confident(tools[top], raws[top].p[1], a)
    BY <1>1, <1>10, <1>11, <2>1, <2>3, ConfidentOver
  <2> QED
    BY <2>4 DEF a
<1> QED
  BY <1>1, <1>11, <1>12, <1>13

\* The one place of a candidate.
LEMMA PlaceOfCandidate ==
    ASSUME CandidatesInv, NEW i \in 1..Len(candidates)
    PROVE  i = CHOOSE n \in DOMAIN candidates : candidates[n] = candidates[i]
<1>1. /\ candidates \in Seq(Tools) /\ DOMAIN candidates = 1..Len(candidates)
      /\ \A m, n \in 1..Len(candidates) : candidates[m] = candidates[n] => m = n
  BY CandidatesAreAllowed, CandidatesAreTools
<1> DEFINE j == CHOOSE n \in DOMAIN candidates : candidates[n] = candidates[i]
<1>2. j \in DOMAIN candidates /\ candidates[j] = candidates[i]
  BY <1>1
<1> HIDE DEF j
<1>3. i = j
  BY <1>1, <1>2
<1> QED
  BY <1>3 DEF j

\* What confidence means for the two kinds of effect.
LEMMA ConfidentMeans ==
    ASSUME NEW t, NEW p, NEW r, Confident(t, p, r)
    PROVE  /\ p >= IF Effect[t] = "read" THEN 70 ELSE 85
           /\ p - r >= IF Effect[t] = "read" THEN 15 ELSE 25
BY DEF Confident, Bar

\* Which answers a selected tool comes from.
LEMMA SelectedOfAnswers ==
    ASSUME SelectionInv, Done("selected")
    PROVE  \/ /\ request.kind = "choice"
              /\ \E n \in 1..Len(candidates) :
                    /\ Decodes(answers, 0..n)
                    /\ view = Judge(Take(n, candidates), answers.p, n = Len(candidates))
           \/ /\ request.kind # "choice" /\ DOMAIN answers = DOMAIN candidates
              /\ ~Undecodable(answers) /\ view = ReduceBinary(candidates, answers)
<1>1. view # None /\ view.kind = "selected" /\ ViewInv
  BY DEF Done, SelectionInv
<1>2. view \notin {Empty, NoMatch("no_retrieval_match")}
  BY <1>1 DEF Empty, NoMatch, WorkflowView
<1>3. view # Pooled
  BY <1>1 DEF Pooled, WorkflowView
<1> QED
  BY <1>1, <1>2, <1>3 DEF ViewInv

\* It is one of the candidates, and it earned it.
LEMMA SelectedByChoice ==
    ASSUME SelectionInv, Done("selected"), request.kind = "choice"
    PROVE  \E i \in 1..Len(candidates) :
              /\ view.tool = candidates[i] /\ i \in DOMAIN answers.p
              /\ \E o \in DOMAIN answers.p : o # i
              /\ \A o \in DOMAIN answers.p \ {i} :
                    Confident(candidates[i], answers.p[i], answers.p[o])
<1>1. PICK n \in 1..Len(candidates) :
                    /\ Decodes(answers, 0..n)
                    /\ view = Judge(Take(n, candidates), answers.p, n = Len(candidates))
  BY SelectedOfAnswers
<1> DEFINE p == answers.p
           subset == Take(n, candidates)
           last == n = Len(candidates)
<1>2. DOMAIN p = 0..n /\ \A o \in 0..n : p[o] \in Int
  BY <1>1, AnswersAreNumbers
<1>3. candidates \in Seq(Tools) /\ n \in Nat \ {0}
  BY CandidatesAreTools DEF SelectionInv
<1>4. \A i \in 1..n : i \in 1..Len(candidates) /\ subset[i] = candidates[i]
  BY <1>3 DEF Take
<1>5. view = Judge(subset, p, last) /\ view # None /\ view.kind = "selected"
  BY <1>1 DEF Done
<1> HIDE DEF p, subset, last
<1>6. PICK i \in 1..n :
              /\ view.tool = subset[i]
              /\ \A o \in 0..n \ {i} : Confident(subset[i], p[i], p[o])
  BY <1>2, <1>3, <1>5, JudgeSelects
<1>7. 0 \in 0..n /\ i # 0 /\ i \in 0..n
  BY <1>3
<1> QED
  BY <1>2, <1>4, <1>6, <1>7 DEF p

\* When a core has an answer about each candidate.
LEMMA CandidatesAreAnswered ==
    ASSUME SelectionInv, DOMAIN answers = DOMAIN candidates, ~Undecodable(answers)
    PROVE  DOMAIN candidates = 1..Len(candidates) /\ Judged(candidates, answers)
<1>1. /\ candidates \in Seq(Tools) /\ DOMAIN candidates = 1..Len(candidates)
      /\ \A m, n \in 1..Len(candidates) : candidates[m] = candidates[n] => m = n
  BY CandidatesAreAllowed, CandidatesAreTools DEF SelectionInv
<1>2. \A i \in 1..Len(candidates) : Decodes(answers[i], 0..1)
  BY <1>1 DEF Undecodable
<1> QED
  BY <1>1, <1>2 DEF Judged

\* Likewise with a question about each candidate.
LEMMA SelectedByEach ==
    ASSUME SelectionInv, Done("selected"), request.kind # "choice"
    PROVE  \E i \in 1..Len(candidates) :
              /\ view.tool = candidates[i] /\ DOMAIN answers = 1..Len(candidates)
              /\ Confident(candidates[i], answers[i].p[1], answers[i].p[0])
              /\ \A j \in 1..Len(candidates) \ {i} :
                    answers[j].choice = 1 => Confident(candidates[i], answers[i].p[1], answers[j].p[1])
<1>1. /\ DOMAIN answers = DOMAIN candidates /\ ~Undecodable(answers)
      /\ view = ReduceBinary(candidates, answers) /\ view.kind = "selected"
  BY SelectedOfAnswers DEF Done
<1>2. DOMAIN candidates = 1..Len(candidates) /\ Judged(candidates, answers)
  BY <1>1, CandidatesAreAnswered
<1> QED
  BY <1>1, <1>2, ReduceSelects

\* A selected tool is one the actor may use, and it cleared its bar against every other
\* answer.
THEOREM EarnedSelection == EvaluationSpec => []SelectionIsEarned
<1>1. ASSUME SelectionInv, Done("selected")
      PROVE  SelectionIsEarned
  <2>1. candidates \in Seq(request.allowed)
    BY <1>1, CandidatesAreAllowed DEF SelectionInv
  <2>2. CASE request.kind = "choice"
    <3>1. PICK i \in 1..Len(candidates) :
              /\ view.tool = candidates[i] /\ i \in DOMAIN answers.p
              /\ \E o \in DOMAIN answers.p : o # i
              /\ \A o \in DOMAIN answers.p \ {i} :
                    Confident(candidates[i], answers.p[i], answers.p[o])
      BY <1>1, <2>2, SelectedByChoice
    <3>2. i = CHOOSE n \in DOMAIN candidates : candidates[n] = view.tool
      BY <1>1, <3>1, PlaceOfCandidate DEF SelectionInv
    <3>3. view.tool \in request.allowed
      BY <2>1, <3>1
    <3>4. answers.p[i] >= IF Effect[view.tool] = "read" THEN 70 ELSE 85
      BY <3>1, ConfidentMeans
    <3>5. \A o \in DOMAIN answers.p \ {i} :
              answers.p[i] - answers.p[o] >= IF Effect[view.tool] = "read" THEN 15 ELSE 25
      BY <3>1, ConfidentMeans
    <3> DEFINE place == CHOOSE n \in DOMAIN candidates : candidates[n] = view.tool
    <3>6. place = i
      BY <3>2
    <3> HIDE DEF place
    <3> QED
      BY <2>2, <3>3, <3>4, <3>5, <3>6 DEF SelectionIsEarned, place
  <2>3. CASE request.kind # "choice"
    <3>1. PICK i \in 1..Len(candidates) :
              /\ view.tool = candidates[i] /\ DOMAIN answers = 1..Len(candidates)
              /\ Confident(candidates[i], answers[i].p[1], answers[i].p[0])
              /\ \A j \in 1..Len(candidates) \ {i} :
                    answers[j].choice = 1 => Confident(candidates[i], answers[i].p[1], answers[j].p[1])
      BY <1>1, <2>3, SelectedByEach
    <3>2. i = CHOOSE n \in DOMAIN candidates : candidates[n] = view.tool
      BY <1>1, <3>1, PlaceOfCandidate DEF SelectionInv
    <3>3. view.tool \in request.allowed
      BY <2>1, <3>1
    <3>4. /\ answers[i].p[1] >= IF Effect[view.tool] = "read" THEN 70 ELSE 85
          /\ answers[i].p[1] - answers[i].p[0] >= IF Effect[view.tool] = "read" THEN 15 ELSE 25
      BY <3>1, ConfidentMeans
    <3>5. \A j \in {k \in DOMAIN answers \ {i} : answers[k].choice = 1} :
              answers[i].p[1] - answers[j].p[1] >= IF Effect[view.tool] = "read" THEN 15 ELSE 25
      BY <3>1, ConfidentMeans
    <3> DEFINE place == CHOOSE n \in DOMAIN candidates : candidates[n] = view.tool
    <3>6. place = i
      BY <3>2
    <3> HIDE DEF place
    <3> QED
      BY <2>3, <3>3, <3>4, <3>5, <3>6 DEF SelectionIsEarned, place
  <2> QED
    BY <2>2, <2>3
<1>2. SelectionInv => SelectionIsEarned
  BY <1>1 DEF SelectionIsEarned
<1> QED
  BY <1>2, SelectionInvariance, PTL

\* A question about some candidates only selects a tool or is followed by another.
LEMMA JudgeDecides ==
    ASSUME NEW subset, NEW p, NEW last, Judge(subset, p, last) # None,
           \/ Judge(subset, p, last).kind = "needs_choice"
           \/ Judge(subset, p, last) = NoMatch("selector_abstained")
    PROVE  /\ last
           /\ Judge(subset, p, last).kind = "needs_choice" =>
                 LET others == Ranked(p, DOMAIN p \ {0}) IN
                 Judge(subset, p, last) = Choose([i \in DOMAIN others |-> subset[others[i]]])
BY DEF Judge, Selected, NoMatch, Choose

\* Which answers a choice, or an abstention, comes from: those about every candidate.
LEMMA UndecidedAfterAll ==
    ASSUME SelectionInv, request.kind = "choice",
           Done("needs_choice") \/ view = NoMatch("selector_abstained")
    PROVE  /\ candidates # <<>> /\ Decodes(answers, 0..Len(candidates))
           /\ view # None
           /\ view = Judge(Take(Len(candidates), candidates), answers.p, TRUE)
<1>1. view # None /\ view.kind \in {"needs_choice", "no_match"} /\ ViewInv
  BY SelectionAssumption DEF Done, SelectionInv, NoMatch
<1>2. view \notin {Empty, NoMatch("no_retrieval_match")}
  BY DEF Done, Empty, NoMatch, WorkflowView, Workflow
<1>3. PICK n \in 1..Len(candidates) :
                    /\ Decodes(answers, 0..n)
                    /\ view = Judge(Take(n, candidates), answers.p, n = Len(candidates))
  BY <1>1, <1>2 DEF ViewInv
<1>4. n = Len(candidates)
  BY <1>1, <1>3, JudgeDecides DEF Done
<1>5. candidates # <<>>
  <2>1. CASE candidates = <<>>
    BY <2>1
  <2> QED
    BY <2>1
<1> QED
  BY <1>1, <1>3, <1>4, <1>5

\* What is shown of a choice are its most probable candidates.
LEMMA ChoiceShowsBest ==
    ASSUME SelectionInv, request.kind = "choice", Done("needs_choice")
    PROVE  /\ Len(view.tools) \in 2..Shown
           /\ \A i, j \in DOMAIN candidates :
                 candidates[i] \in ToSet(view.tools) /\ candidates[j] \notin ToSet(view.tools)
                    => answers.p[i] >= answers.p[j]
<1> DEFINE n == Len(candidates)
           p == answers.p
           subset == Take(n, candidates)
           options == 1..n
           others == Ranked(p, options)
           tools == [i \in DOMAIN others |-> subset[others[i]]]
<1>1. /\ candidates \in Seq(Tools) /\ DOMAIN candidates = 1..n /\ n \in Nat
      /\ \A k, m \in 1..n : candidates[k] = candidates[m] => k = m
  BY CandidatesAreAllowed, CandidatesAreTools DEF SelectionInv
<1>2. /\ Decodes(answers, 0..n) /\ view # None /\ view.kind = "needs_choice"
      /\ view = Judge(subset, p, TRUE)
  BY UndecidedAfterAll DEF Done
<1>3. DOMAIN p = 0..n /\ \A o \in 0..n : p[o] \in Int
  BY <1>2, AnswersAreNumbers
<1>4. DOMAIN p \ {0} = options
  BY <1>1, <1>3
<1>5. view = Choose(tools)
  <2> HIDE DEF p, subset, options, n
  <2>1. view = LET o == Ranked(p, DOMAIN p \ {0}) IN Choose([i \in DOMAIN o |-> subset[o[i]]])
    BY <1>2, JudgeDecides
  <2> QED
    BY <1>4, <2>1
<1>6. ~(Len(tools) < 2) /\ view.tools = Take(Shown, tools)
  <2> HIDE DEF tools
  <2>1. CASE Len(tools) < 2
    <3>1. view = NoMatch("selector_abstained")
      BY <1>5, <2>1 DEF Choose
    <3>2. view.kind = "no_match"
      BY <3>1 DEF NoMatch
    <3>3. view.kind = "needs_choice"
      BY <1>2
    <3> QED
      BY <3>2, <3>3
  <2>2. CASE ~(Len(tools) < 2)
    <3>1. view = [kind |-> "needs_choice", tools |-> Take(Shown, tools)]
      BY <1>5, <2>2 DEF Choose
    <3> QED
      BY <2>2, <3>1
  <2> QED
    BY <2>1, <2>2
<1>7. Probabilities(p, options)
  <2>1. options \subseteq Nat /\ IsFiniteSet(options)
    BY <1>1, UpToIsFinite
  <2>2. \A o \in options : p[o] \in Int
    BY <1>1, <1>3
  <2> QED
    BY <2>1, <2>2 DEF Probabilities
<1>8. \A m \in 1..n : subset[m] = candidates[m]
  BY <1>1 DEF Take
<1>9. Cardinality(options) = n
  BY <1>1, UpToIsFinite
<1> DEFINE ranked == others
<1>10. ranked = Ranked(p, options)
  OBVIOUS
<1> HIDE DEF p, subset, options, ranked
<1>11. ranked \in Seq(options) /\ Len(ranked) = Cardinality(options) /\ Len(ranked) \in Nat
  BY <1>7, <1>10, RankedReturns
<1>12. \A o \in options : \E m \in 1..Len(ranked) : ranked[m] = o
  BY <1>7, <1>10, RankedReturns
<1>13. \A k, m \in 1..Len(ranked) : k <= m => p[ranked[k]] >= p[ranked[m]]
  BY <1>7, <1>10, RankedReturns
<1>14. tools = [i \in 1..n |-> subset[ranked[i]]]
  BY <1>9, <1>10, <1>11
<1>15. \A i \in 1..n : ranked[i] \in 1..n
  BY <1>9, <1>11 DEF options
<1> HIDE DEF tools
<1>16. tools \in Seq(Tools) /\ Len(tools) = n /\ \A i \in 1..n : tools[i] = candidates[ranked[i]]
  BY <1>1, <1>8, <1>14, <1>15
<1>17. Shown \in Nat /\ Shown >= 2
  BY RankingAssumption
<1> DEFINE shown == view.tools
<1>18. /\ shown \in Seq(Tools) /\ Len(shown) = IF n <= Shown THEN n ELSE Shown
       /\ \A i \in 1..Len(shown) : i \in 1..n /\ shown[i] = tools[i]
  BY <1>6, <1>16, <1>17, TakeReturns
<1> HIDE DEF shown, n
<1>19. Len(shown) \in 2..Shown
  BY <1>1, <1>6, <1>16, <1>17, <1>18
<1>20. ASSUME NEW i \in 1..n, NEW j \in 1..n, candidates[i] \in ToSet(shown),
              candidates[j] \notin ToSet(shown)
       PROVE  p[i] >= p[j]
  <2>1. PICK a \in 1..Len(shown) : candidates[i] = shown[a]
    BY <1>18, <1>20 DEF ToSet
  <2>2. a \in 1..n /\ i = ranked[a]
    BY <1>1, <1>15, <1>16, <1>18, <2>1
  <2>3. PICK b \in 1..n : ranked[b] = j
    BY <1>9, <1>11, <1>12 DEF options
  <2>4. b \notin 1..Len(shown)
    BY <1>16, <1>18, <1>20, <2>3 DEF ToSet
  <2>5. a <= b
    BY <1>1, <1>18, <2>1, <2>3, <2>4
  <2> QED
    BY <1>9, <1>11, <1>13, <2>2, <2>3, <2>5
<1> QED
  BY <1>1, <1>19, <1>20 DEF shown, p

\* What is left out of the candidates or of a choice is never better than what is kept,
\* and nothing is refused before all were asked about.
THEOREM KeptBest == EvaluationSpec => []BestIsNeverHidden
<1>1. ASSUME SelectionInv
      PROVE  BestIsNeverHidden
  <2>1. candidates # <<>> => \A t \in request.allowed \ ToSet(candidates) :
          /\ Cardinality(request.allowed) > ScoreFrom
          /\ \/ Score(t, request.query) = 0
             \/ /\ Len(candidates) = Kept
                /\ \A c \in ToSet(candidates) : Score(c, request.query) >= Score(t, request.query)
    BY <1>1, CandidatesAreAllowed DEF SelectionInv
  <2>2. request.kind = "choice" /\ (Done("needs_choice") \/ view = NoMatch("selector_abstained"))
           => DOMAIN answers.p = 0..Len(candidates)
    BY <1>1, UndecidedAfterAll, AnswersAreNumbers
  <2> QED
    BY <1>1, <2>1, <2>2, ChoiceShowsBest DEF BestIsNeverHidden
<1> QED
  BY <1>1, SelectionInvariance, PTL

\* The candidates and their answers in another order.
Reordered(s, order) == [k \in DOMAIN order |-> s[order[k]]]

\* An order of the places of n candidates.
LEMMA OrderMeans ==
    ASSUME NEW n, NEW order \in Bijection(1..n, 1..n)
    PROVE  /\ order \in [1..n -> 1..n] /\ DOMAIN order = 1..n
           /\ \A k, m \in 1..n : order[k] = order[m] => k = m
           /\ \A i \in 1..n : \E k \in 1..n : order[k] = i
BY DEF Bijection, Injection, Surjection, IsInjective

\* What an order of the candidates leaves as it is.
LEMMA ReorderedIsAnswered ==
    ASSUME NEW tools, NEW raws, Judged(tools, raws),
           NEW order \in Bijection(1..Len(tools), 1..Len(tools))
    PROVE  /\ Judged(Reordered(tools, order), Reordered(raws, order))
           /\ Len(Reordered(tools, order)) = Len(tools)
           /\ \A k \in 1..Len(tools) : /\ order[k] \in 1..Len(tools)
                                       /\ Reordered(tools, order)[k] = tools[order[k]]
                                       /\ Reordered(raws, order)[k] = raws[order[k]]
<1> DEFINE n == Len(tools)
           t == Reordered(tools, order)
           r == Reordered(raws, order)
<1>1. n \in Nat /\ tools \in Seq(Tools) /\ \A i \in 1..n : tools[i] \in Tools
  BY DEF Judged
<1>2. /\ order \in [1..n -> 1..n] /\ DOMAIN order = 1..n
      /\ \A k, m \in 1..n : order[k] = order[m] => k = m
  BY OrderMeans
<1> HIDE DEF n
<1>3. /\ t = [k \in 1..n |-> tools[order[k]]]
      /\ \A k \in 1..n : t[k] = tools[order[k]] /\ r[k] = raws[order[k]]
  BY <1>2 DEF Reordered
<1>4. t \in Seq(Tools) /\ Len(t) = n
  BY <1>1, <1>2, <1>3
<1>5. \A k, m \in 1..n : t[k] = t[m] => k = m
  <2>1. \A i, j \in 1..n : tools[i] = tools[j] => i = j
    BY DEF Judged, n
  <2> QED
    BY <1>2, <1>3, <2>1
<1>6. \A k \in 1..n : Decodes(r[k], 0..1)
  <2>1. \A i \in 1..n : Decodes(raws[i], 0..1)
    BY DEF Judged, n
  <2> QED
    BY <1>2, <1>3, <2>1
<1> HIDE DEF t, r
<1>7. Judged(t, r)
  BY <1>4, <1>5, <1>6 DEF Judged
<1> QED
  BY <1>2, <1>3, <1>4, <1>7 DEF t, r, n

\* A workflow includes the same tools.
LEMMA IncludedIsTheSame ==
    ASSUME NEW tools, NEW raws, Judged(tools, raws),
           NEW order \in Bijection(1..Len(tools), 1..Len(tools))
    PROVE  Included(Reordered(tools, order), Reordered(raws, order)) = Included(tools, raws)
<1> DEFINE n == Len(tools)
           t == Reordered(tools, order)
           r == Reordered(raws, order)
           In(i) == raws[i].choice = 1 /\ raws[i].p[1] >= Bar(tools[i]).threshold
           InToo(k) == r[k].choice = 1 /\ r[k].p[1] >= Bar(t[k]).threshold
<1>1. /\ DOMAIN t = 1..n /\ DOMAIN tools = 1..n
      /\ \A k \in 1..n : /\ order[k] \in 1..n /\ t[k] = tools[order[k]] /\ r[k] = raws[order[k]]
  <2>1. Judged(t, r) /\ Len(t) = n
    BY ReorderedIsAnswered
  <2>2. DOMAIN t = 1..n /\ DOMAIN tools = 1..n
    BY <2>1 DEF Judged
  <2> QED
    BY <2>2, ReorderedIsAnswered
<1>2. \A i \in 1..n : \E k \in 1..n : order[k] = i
  BY OrderMeans
<1>3. /\ Included(tools, raws) = {tools[i] : i \in {j \in 1..n : In(j)}}
      /\ Included(t, r) = {t[i] : i \in {j \in 1..n : InToo(j)}}
  BY <1>1 DEF Included
<1>4. \A k \in 1..n : InToo(k) <=> In(order[k])
  BY <1>1
<1> HIDE DEF t, r, In, InToo, n
<1>5. {tools[i] : i \in {j \in 1..n : In(j)}} = {t[i] : i \in {j \in 1..n : InToo(j)}}
  <2>1. ASSUME NEW i \in 1..n, In(i)
        PROVE  \E k \in 1..n : InToo(k) /\ t[k] = tools[i]
    <3>1. PICK k \in 1..n : order[k] = i
      BY <1>2
    <3> QED
      BY <1>1, <1>4, <2>1, <3>1
  <2>2. ASSUME NEW k \in 1..n, InToo(k)
        PROVE  order[k] \in 1..n /\ In(order[k]) /\ t[k] = tools[order[k]]
    BY <1>1, <1>4, <2>2
  <2> QED
    BY <2>1, <2>2
<1> QED
  BY <1>3, <1>5 DEF t, r

\* The suitable candidates come in the same order: by their answers and IDs.
LEMMA PositivesAreTheSame ==
    ASSUME NEW tools, NEW raws, Judged(tools, raws),
           NEW order \in Bijection(1..Len(tools), 1..Len(tools)),
           NEW a, a = Positives(tools, raws),
           NEW b, b = Positives(Reordered(tools, order), Reordered(raws, order))
    PROVE  /\ Len(b) \in Nat /\ DOMAIN b = 1..Len(b) /\ DOMAIN a = DOMAIN b /\ Len(a) = Len(b)
           /\ \A k \in 1..Len(b) : b[k] \in 1..Len(tools) /\ a[k] = order[b[k]]
<1> DEFINE n == Len(tools)
           t == Reordered(tools, order)
           r == Reordered(raws, order)
           yes == Suitable(tools, raws)
           yesToo == Suitable(t, r)
           f == Doubt(tools, raws)
           g == IdsOf(tools, raws)
           fToo == Doubt(t, r)
           gToo == IdsOf(t, r)
           c == [k \in 1..Cardinality(yes) |-> order[b[k]]]
<1>1. /\ Judged(t, r) /\ Len(t) = n
      /\ \A k \in 1..n : order[k] \in 1..n /\ t[k] = tools[order[k]] /\ r[k] = raws[order[k]]
  BY ReorderedIsAnswered
<1>2. /\ \A k, m \in 1..n : order[k] = order[m] => k = m
      /\ \A i \in 1..n : \E k \in 1..n : order[k] = i
  BY OrderMeans
<1>3. /\ yes = {i \in 1..n : raws[i].choice = 1} /\ yesToo = {k \in 1..n : r[k].choice = 1}
      /\ \A i \in yes : f[i] = -raws[i].p[1] /\ g[i] = tools[i]
      /\ \A k \in yesToo : fToo[k] = -r[k].p[1] /\ gToo[k] = t[k]
  BY <1>1 DEF Suitable, Doubt, IdsOf
<1>4. /\ Sortable(yes, f, g) /\ a = Arranged(yes, f, g)
      /\ Sortable(yesToo, fToo, gToo) /\ b = Arranged(yesToo, fToo, gToo)
  BY <1>1, PositivesSort
<1> HIDE DEF n, t, r, yes, yesToo, f, g, fToo, gToo
<1>5. \A k \in 1..n : k \in yesToo <=> order[k] \in yes
  BY <1>1, <1>3
<1>6. \A k \in yesToo : k \in 1..n /\ order[k] \in yes /\ fToo[k] = f[order[k]] /\ gToo[k] = g[order[k]]
  <2> TAKE k \in yesToo
  <2>1. k \in 1..n /\ order[k] \in yes
    BY <1>3, <1>5
  <2>2. r[k] = raws[order[k]] /\ t[k] = tools[order[k]]
    BY <1>1, <2>1
  <2> QED
    BY <1>3, <2>1, <2>2
<1>7. Cardinality(yesToo) = Cardinality(yes) /\ Cardinality(yes) \in Nat
  <2> DEFINE move == [k \in yesToo |-> order[k]]
  <2>1. \A i \in yes : \E k \in yesToo : order[k] = i
    BY <1>2, <1>3, <1>5
  <2>2. move \in Bijection(yesToo, yes)
    BY <1>2, <1>6, <2>1 DEF Bijection, Injection, Surjection, IsInjective
  <2> HIDE DEF move
  <2>3. IsFiniteSet(yes) /\ IsFiniteSet(yesToo)
    BY <1>4 DEF Sortable
  <2>4. ExistsBijection(yesToo, yes)
    BY <2>2 DEF ExistsBijection
  <2>5. Cardinality(yes) \in Nat /\ Cardinality(yesToo) \in Nat
    BY <2>3, FS_CardinalityType
  <2> QED
    BY <2>3, <2>4, <2>5, FS_Bijection
<1>8. /\ b \in [1..Cardinality(yesToo) -> yesToo]
      /\ \A k, m \in 1..Cardinality(yesToo) : k < m => Ahead(fToo, gToo, b[k], b[m])
  BY <1>4, ArrangedIsSorted
<1>9. \A k \in 1..Cardinality(yes) : b[k] \in yesToo /\ c[k] = order[b[k]] /\ c[k] \in yes
  BY <1>6, <1>7, <1>8
<1>10. c \in [1..Cardinality(yes) -> yes]
  BY <1>9
<1>11. ASSUME NEW k \in 1..Cardinality(yes), NEW m \in 1..Cardinality(yes), k < m
       PROVE  Ahead(f, g, c[k], c[m])
  <2>1. Ahead(fToo, gToo, b[k], b[m])
    BY <1>7, <1>8, <1>11
  <2>2. /\ fToo[b[k]] = f[c[k]] /\ gToo[b[k]] = g[c[k]]
        /\ fToo[b[m]] = f[c[m]] /\ gToo[b[m]] = g[c[m]]
    BY <1>6, <1>9
  <2> QED
    BY <2>1, <2>2 DEF Ahead
<1> HIDE DEF c
<1>12. a = c
  BY <1>4, <1>10, <1>11, ArrangedIsUnique
<1>13. /\ DOMAIN b = 1..Cardinality(yes) /\ DOMAIN a = 1..Cardinality(yes)
       /\ Len(b) = Cardinality(yes) /\ Len(a) = Cardinality(yes)
  BY <1>7, <1>8, <1>10, <1>12
<1> QED
  BY <1>6, <1>7, <1>9, <1>12, <1>13 DEF n

\* So the same tool is selected, or the same tools are shown.
LEMMA ReductionIsTheSame ==
    ASSUME NEW tools, NEW raws, Judged(tools, raws),
           NEW order \in Bijection(1..Len(tools), 1..Len(tools))
    PROVE  ReduceBinary(Reordered(tools, order), Reordered(raws, order)) = ReduceBinary(tools, raws)
<1> DEFINE t == Reordered(tools, order)
           r == Reordered(raws, order)
           a == Positives(tools, raws)
           b == Positives(t, r)
<1>1. /\ Len(b) \in Nat /\ DOMAIN b = 1..Len(b) /\ DOMAIN a = DOMAIN b /\ Len(a) = Len(b)
      /\ \A k \in 1..Len(b) : b[k] \in 1..Len(tools) /\ a[k] = order[b[k]]
  BY PositivesAreTheSame
<1>2. \A k \in 1..Len(tools) : t[k] = tools[order[k]] /\ r[k] = raws[order[k]]
  BY ReorderedIsAnswered
<1> DEFINE shownA == [k \in DOMAIN a |-> tools[a[k]]]
           shownB == [k \in DOMAIN b |-> t[b[k]]]
           upA == RunnerUp(raws, a)
           upB == RunnerUp(r, b)
<1>3. /\ ReduceBinary(tools, raws) =
            IF a = <<>> THEN NoMatch("selector_abstained")
            ELSE IF Confident(tools[a[1]], raws[a[1]].p[1], upA) THEN Selected(tools[a[1]])
            ELSE Choose(shownA)
      /\ ReduceBinary(t, r) =
            IF b = <<>> THEN NoMatch("selector_abstained")
            ELSE IF Confident(t[b[1]], r[b[1]].p[1], upB) THEN Selected(t[b[1]])
            ELSE Choose(shownB)
  BY DEF ReduceBinary
<1> HIDE DEF t, r, a, b
<1>4. \A k \in 1..Len(b) : t[b[k]] = tools[a[k]] /\ r[b[k]] = raws[a[k]]
  BY <1>1, <1>2
<1>5. shownA = shownB
  BY <1>1, <1>4
<1>6. a = <<>> <=> b = <<>>
  <2>1. DOMAIN <<>> = {} /\ Len(<<>>) = 0
    OBVIOUS
  <2> QED
    BY <1>1, <2>1
<1>7. ASSUME b # <<>>
      PROVE  /\ t[b[1]] = tools[a[1]] /\ r[b[1]] = raws[a[1]]
             /\ upA = upB
  <2>1. 1 \in 1..Len(b)
    BY <1>1, <1>7
  <2>2. t[b[1]] = tools[a[1]] /\ r[b[1]] = raws[a[1]]
    BY <1>4, <2>1
  <2>3. Len(b) > 1 => r[b[2]] = raws[a[2]]
    BY <1>1, <1>4
  <2> QED
    BY <1>1, <2>2, <2>3 DEF RunnerUp
<1> HIDE DEF shownA, shownB, upA, upB
<1>8. ReduceBinary(tools, raws) = ReduceBinary(t, r)
  <2>1. CASE b = <<>>
    BY <1>3, <1>6, <2>1
  <2>2. CASE b # <<>>
    BY <1>3, <1>5, <1>6, <1>7, <2>2
  <2> QED
    BY <2>1, <2>2
<1> QED
  BY <1>8 DEF t, r

\* The order that the candidates were retrieved in decides nothing.
THEOREM UndecidedByOrder == EvaluationSpec => []OrderDoesNotDecide
<1>1. ASSUME SelectionInv, request.kind # "choice", answers # None, view # None,
             NEW order \in Bijection(DOMAIN candidates, DOMAIN candidates)
      PROVE  LET tools == [k \in DOMAIN order |-> candidates[order[k]]]
                 same == [k \in DOMAIN order |-> answers[order[k]]]
             IN \/ Undecodable(answers)
                \/ view = IF Workflow
                          THEN WorkflowView(Expose(Included(tools, same), tools, request.limit), Len(tools))
                          ELSE ReduceBinary(tools, same)
  <2> DEFINE tools == Reordered(candidates, order)
             same == Reordered(answers, order)
  <2> SUFFICES ASSUME ~Undecodable(answers)
               PROVE  view = IF Workflow
                             THEN WorkflowView(Expose(Included(tools, same), tools, request.limit), Len(tools))
                             ELSE ReduceBinary(tools, same)
    BY DEF Reordered
  <2>1. /\ DOMAIN answers = DOMAIN candidates
        /\ view = IF Workflow THEN Pooled ELSE ReduceBinary(candidates, answers)
    BY <1>1 DEF SelectionInv, ViewInv
  <2>2. /\ Judged(candidates, answers)
        /\ order \in Bijection(1..Len(candidates), 1..Len(candidates))
    BY <1>1, <2>1, CandidatesAreAnswered
  <2>3. /\ Included(tools, same) = Included(candidates, answers)
        /\ ReduceBinary(tools, same) = ReduceBinary(candidates, answers)
        /\ Len(tools) = Len(candidates)
    BY <2>2, IncludedIsTheSame, ReductionIsTheSame, ReorderedIsAnswered
  <2> QED
    BY <2>1, <2>3 DEF Pooled, Expose
<1>2. SelectionInv => OrderDoesNotDecide
  BY <1>1 DEF OrderDoesNotDecide
<1> QED
  BY <1>2, SelectionInvariance, PTL

-----------------------------------------------------------------------------
(* Losses *)

\* What a record holds of an attempt, and what the attempt was.
StageRecords == {None} \cup [retrieved : Seq(Tools), included : Seq(Tools) \cup {None},
                             exposed : Seq(Tools) \cup {None}]
\* An event of the provider, and an attempt of the core.
EventRecords == [remoteStart : Nat, remoteEnd : Nat, exposed : Seq(Tools)]
Attempts == [arrived : BOOLEAN, readable : BOOLEAN, delivered : BOOLEAN, retrieved : SUBSET Tools,
             asked : BOOLEAN, included : SUBSET Tools, shown : SUBSET Tools]

\* The stages tell what the attempt did, or nothing was read of it.
Tell(s, h) ==
    /\ h.arrived
    /\ s = None <=> ~h.readable
    /\ s # None =>
          /\ ToSet(s.retrieved) = h.retrieved
          /\ s.included = None <=> ~h.asked
          /\ s.exposed = None <=> ~h.asked
          /\ h.asked => ToSet(s.included) = h.included /\ ToSet(s.exposed) = h.shown
          /\ ~h.asked => h.included = {}
          /\ h.shown \subseteq h.included /\ h.included \subseteq h.retrieved

\* All stages on record, of preparations that ended or of the one under way.
Merged(remote) == UNION {ToSet(remote[m]) : m \in DOMAIN remote}
Stored == Merged(host.remote) \cup ToSet(host.hops)
\* The attempts whose answers arrived, and what was offered in all.
Arrived == {history[i] : i \in {j \in DOMAIN history : history[j].arrived}}
Shared(events) == UNION {ToSet(events[e].exposed) : e \in DOMAIN events}

\* What the record and the attempts are made of.
HostType ==
    /\ host \in [remote : Seq(Seq(StageRecords)), events : Seq(EventRecords), hops : Seq(StageRecords)]
    /\ history \in Seq(Attempts)

\* Each event has the diagnostics of its own preparation.
EventsInv ==
    /\ Len(host.events) = Len(host.remote)
    /\ \A e \in DOMAIN host.events : /\ host.events[e].remoteStart = e - 1
                                     /\ host.events[e].remoteEnd = e

\* The record tells of every attempt whose answer arrived, and of no other.
RecordInv ==
    /\ \A s \in Stored : \E h \in Arrived : Tell(s, h)
    /\ \A h \in Arrived : \E s \in Stored : Tell(s, h)
    /\ Shared(host.events) = UNION {h.shown : h \in {a \in Arrived : a.delivered}}

\* A preparation that ended has left nothing under way.
JointInv == mode = "joint" => Traced /\ (stage = "done" /\ view = None => host.hops = <<>>)

\* The record of the provider, all of it.
LossInv == HostType /\ EventsInv /\ RecordInv /\ JointInv

\* One more member.
LEMMA ToSetOfAppend ==
    ASSUME NEW S, NEW s \in Seq(S), NEW x \in S
    PROVE  /\ Append(s, x) \in Seq(S) /\ Len(Append(s, x)) = Len(s) + 1
           /\ DOMAIN Append(s, x) = DOMAIN s \cup {Len(s) + 1}
           /\ Append(s, x)[Len(s) + 1] = x /\ \A i \in DOMAIN s : Append(s, x)[i] = s[i]
           /\ ToSet(Append(s, x)) = ToSet(s) \cup {x}
<1>1. Append(s, x) \in Seq(S) /\ Len(Append(s, x)) = Len(s) + 1 /\ Len(s) \in Nat
  OBVIOUS
<1>2. DOMAIN Append(s, x) = 1..(Len(s) + 1) /\ DOMAIN s = 1..Len(s)
  BY <1>1
<1>3. 1..(Len(s) + 1) = 1..Len(s) \cup {Len(s) + 1}
  BY <1>1
<1>4. Append(s, x)[Len(s) + 1] = x /\ \A i \in DOMAIN s : Append(s, x)[i] = s[i]
  OBVIOUS
<1>5. ToSet(Append(s, x)) = ToSet(s) \cup {x}
  BY <1>2, <1>3, <1>4 DEF ToSet
<1> QED
  BY <1>1, <1>2, <1>3, <1>4, <1>5

\* The attempts whose answers arrived, with one more.
LEMMA ArrivedOfAppend ==
    ASSUME HostType, NEW h \in Attempts, history' = Append(history, h)
    PROVE  /\ history' \in Seq(Attempts)
           /\ Arrived' = Arrived \cup {x \in {h} : x.arrived}
<1>1. /\ history' \in Seq(Attempts) /\ DOMAIN history' = DOMAIN history \cup {Len(history) + 1}
      /\ history'[Len(history) + 1] = h /\ \A i \in DOMAIN history : history'[i] = history[i]
  BY ToSetOfAppend DEF HostType
<1> QED
  BY <1>1 DEF Arrived

\* What is on record when a preparation ends, and what was offered.
LEMMA RecordOfAppend ==
    /\ \A remote \in Seq(Seq(StageRecords)), hops \in Seq(StageRecords) :
          Merged(Append(remote, hops)) = Merged(remote) \cup ToSet(hops)
    /\ \A events \in Seq(EventRecords), e \in EventRecords :
          Shared(Append(events, e)) = Shared(events) \cup ToSet(e.exposed)
<1>1. ASSUME NEW remote \in Seq(Seq(StageRecords)), NEW hops \in Seq(StageRecords),
             NEW r, r = Append(remote, hops)
      PROVE  Merged(r) = Merged(remote) \cup ToSet(hops)
  <2> DEFINE n == Len(remote) + 1
  <2>1. /\ DOMAIN r = DOMAIN remote \cup {n}
        /\ r[n] = hops /\ \A i \in DOMAIN remote : r[i] = remote[i]
    BY <1>1, ToSetOfAppend
  <2> HIDE DEF n
  <2>2. \A x : /\ x \in Merged(r) <=> \E m \in DOMAIN r : x \in ToSet(r[m])
               /\ x \in Merged(remote) <=> \E m \in DOMAIN remote : x \in ToSet(remote[m])
    BY Zenon DEF Merged
  <2>3. \A x : (\E m \in DOMAIN r : x \in ToSet(r[m]))
                  <=> (\E m \in DOMAIN remote : x \in ToSet(remote[m])) \/ x \in ToSet(hops)
    BY <2>1
  <2> QED
    BY <2>2, <2>3
<1>2. ASSUME NEW events \in Seq(EventRecords), NEW e \in EventRecords,
             NEW r, r = Append(events, e)
      PROVE  Shared(r) = Shared(events) \cup ToSet(e.exposed)
  <2> DEFINE n == Len(events) + 1
  <2>1. /\ DOMAIN r = DOMAIN events \cup {n}
        /\ r[n] = e /\ \A i \in DOMAIN events : r[i] = events[i]
    BY <1>2, ToSetOfAppend
  <2> HIDE DEF n
  <2>2. \A x : /\ x \in Shared(r) <=> \E m \in DOMAIN r : x \in ToSet(r[m].exposed)
               /\ x \in Shared(events) <=> \E m \in DOMAIN events : x \in ToSet(events[m].exposed)
    BY Zenon DEF Shared
  <2>3. \A x : (\E m \in DOMAIN r : x \in ToSet(r[m].exposed))
                  <=> (\E m \in DOMAIN events : x \in ToSet(events[m].exposed)) \/ x \in ToSet(e.exposed)
    BY <2>1
  <2> QED
    BY <2>2, <2>3
<1> QED
  BY <1>1, <1>2

\* A workflow under a cap: what it shows, of what it includes, of what was found.
LEMMA WorkflowStages ==
    ASSUME SelectionInv, Done("workflow"), Traced,
           NEW included, included = Included(candidates, answers),
           NEW e, e = Expose(included, candidates, request.limit)
    PROVE  /\ e \in Seq(Tools) /\ view.operations = e
           /\ ToSet(e) \subseteq included /\ included \subseteq ToSet(candidates)
           /\ included \subseteq Tools
           /\ ById(included) \in Seq(Tools) /\ ToSet(ById(included)) = included
<1>1. candidates \in Seq(Tools)
  BY CandidatesAreTools DEF SelectionInv
<1>2. included \subseteq ToSet(candidates) /\ included \subseteq Tools /\ IsFiniteSet(included)
  BY <1>1, IncludedReturns
<1>3. request.limit \in Nat /\ request.limit <= MostExposed /\ request.limit # None /\ MostExposed \in Nat
  BY WorkflowOfAnswers, LimitsAreNumbers, RankingAssumption DEF Traced
<1>4. /\ e \in Seq(Tools) /\ ToSet(e) \subseteq included
      /\ Len(e) <= request.limit /\ Len(e) \in Nat
  BY <1>2, <1>3, ExposeReturns
<1>5. ById(included) \in Seq(Tools) /\ ToSet(ById(included)) = included
  <2>1. /\ ById(included) \in Seq(included)
        /\ \A t \in included : \E n \in 1..Len(ById(included)) : ById(included)[n] = t
    BY <1>2, ByIdReturns
  <2> QED
    BY <1>2, <2>1 DEF ToSet
<1>6. view.operations = e
  <2>1. CASE candidates = <<>> /\ view = WorkflowView(<<>>, 0)
    <3>1. included = {}
      BY <1>2, <2>1 DEF ToSet
    <3>2. e = <<>>
      <4>1. Len(e) # 0 => e[1] \in ToSet(e)
        BY <1>4 DEF ToSet
      <4>2. Len(e) = 0
        BY <1>4, <3>1, <4>1
      <4> QED
        BY <1>4, <4>2
    <3>3. view.operations = <<>>
      BY <2>1 DEF WorkflowView
    <3> QED
      BY <3>2, <3>3
  <2>2. CASE view = Pooled
    <3>1. view = WorkflowView(e, Len(candidates)) /\ ~(Len(e) > MostExposed)
      BY <1>3, <1>4, <2>2 DEF Pooled
    <3> QED
      BY <3>1 DEF WorkflowView
  <2> QED
    BY <2>1, <2>2, WorkflowOfAnswers
<1> QED
  BY <1>2, <1>4, <1>5, <1>6

\* An attempt is one.
LEMMA AttemptType ==
    ASSUME SelectionInv, Traced, NEW arrived \in BOOLEAN, NEW readable \in BOOLEAN, NEW stored \in BOOLEAN
    PROVE  Attempt(arrived, readable, stored) \in Attempts /\ Exposed \in Seq(Tools)
<1>1. candidates \in Seq(Tools) /\ ToSet(candidates) \subseteq Tools
  BY CandidatesAreTools DEF SelectionInv, ToSet
<1>2. Included(candidates, answers) \subseteq Tools
  BY <1>1, IncludedReturns
<1>3. Exposed \in Seq(Tools)
  <2>1. CASE Done("workflow")
    BY <2>1, WorkflowStages DEF Exposed
  <2>2. CASE ~Done("workflow")
    BY <2>2 DEF Exposed
  <2> QED
    BY <2>1, <2>2
<1>4. ToSet(Exposed) \subseteq Tools
  BY <1>3 DEF ToSet
<1>5. Done("workflow") \in BOOLEAN
  BY DEF Done
<1> HIDE DEF Exposed
<1> QED
  BY <1>1, <1>2, <1>3, <1>4, <1>5 DEF Attempt, Attempts

\* The names of indices are the tools that the indices were made of.
LEMMA NamesOfIndices ==
    ASSUME NEW s \in Seq(Tools)
    PROVE  Names(Indices(s)) = s /\ Indices(s) # None
<1>1. /\ Indices(s) \in Seq(Int) /\ Len(Indices(s)) = Len(s)
      /\ \A i \in 1..Len(s) : Indices(s)[i] = s[i] - 1
  BY IndicesReturn
<1>2. Indices(s) # None
  BY <1>1, RankingAssumption
<1>3. DOMAIN Indices(s) = 1..Len(s) /\ Names(Indices(s)) = [i \in 1..Len(s) |-> Indices(s)[i] + 1]
  BY <1>1 DEF Names
<1>4. \A i \in 1..Len(s) : s[i] \in Int
  BY ToolsAreNumbers
<1>5. \A i \in 1..Len(s) : Names(Indices(s))[i] = s[i]
  BY <1>1, <1>3, <1>4
<1>6. s = [i \in 1..Len(s) |-> s[i]]
  OBVIOUS
<1> QED
  BY <1>2, <1>3, <1>5, <1>6

\* The stages that a provider reads tell what its core did.
LEMMA StagesTell ==
    ASSUME SelectionInv, Traced, NEW readable \in BOOLEAN, NEW stored \in BOOLEAN
    PROVE  Stages(readable) \in StageRecords /\ Tell(Stages(readable), Attempt(TRUE, readable, stored))
<1> DEFINE h == Attempt(TRUE, readable, stored)
           s == Stages(readable)
           included == Included(candidates, answers)
           e == Expose(included, candidates, request.limit)
<1>1. /\ h.arrived /\ h.readable = (readable /\ trace # None) /\ h.retrieved = ToSet(candidates)
      /\ h.asked = Done("workflow")
      /\ h.included = IF Done("workflow") /\ candidates # <<>> THEN included ELSE {}
      /\ h.shown = ToSet(Exposed)
  BY DEF Attempt
<1>2. CASE ~readable \/ trace = None
  <2>1. s = None /\ ~h.readable
    BY <1>1, <1>2 DEF Stages
  <2> QED
    BY <1>1, <2>1 DEF Tell, StageRecords
<1>3. CASE readable /\ trace # None
  <2>1. trace = FullTrace
    BY <1>3 DEF SelectionInv, TraceInv
  <2>2. candidates \in Seq(Tools)
    BY CandidatesAreTools DEF SelectionInv
  <2>3. Names(trace.retrieved) = candidates
    BY <2>1, <2>2, NamesOfIndices DEF FullTrace
  <2>4. CASE Done("workflow")
    <3>1. /\ e \in Seq(Tools) /\ view.operations = e
          /\ ToSet(e) \subseteq included /\ included \subseteq ToSet(candidates)
          /\ ById(included) \in Seq(Tools) /\ ToSet(ById(included)) = included
      BY <2>4, WorkflowStages
    <3>2. trace.included = Indices(ById(included)) /\ trace.exposed = Indices(e)
      BY <2>1, <2>4 DEF FullTrace
    <3>3. /\ trace.included # None /\ Names(trace.included) = ById(included)
          /\ trace.exposed # None /\ Names(trace.exposed) = e
      BY <3>1, <3>2, NamesOfIndices
    <3>4. h.included = included /\ h.shown = ToSet(e)
      <4>1. candidates = <<>> => included = {}
        BY <3>1 DEF ToSet
      <4>2. Exposed = e
        BY <2>4, <3>1 DEF Exposed
      <4> QED
        BY <1>1, <2>4, <4>1, <4>2
    <3> HIDE DEF included, e
    <3>5. s = [retrieved |-> candidates, included |-> ById(included), exposed |-> e]
      BY <1>3, <2>3, <3>3 DEF Stages
    <3>6. s \in [retrieved : Seq(Tools), included : Seq(Tools) \cup {None},
                 exposed : Seq(Tools) \cup {None}]
      BY <2>2, <3>1, <3>5
    <3>7. s # None /\ s \in StageRecords
      BY <3>6, EvaluationAssumption DEF StageRecords
    <3>8. Seq(Tools) \subseteq Seq(Int)
      BY ToolsAreNumbers
    <3>9. ById(included) # None /\ e # None
      BY <3>1, <3>8, RankingAssumption
    <3>10. /\ s.retrieved = candidates /\ s.included = ById(included) /\ s.exposed = e
      BY <3>5
    <3> HIDE DEF s, h
    <3>11. Tell(s, h)
      BY <1>1, <1>3, <2>4, <3>1, <3>4, <3>7, <3>9, <3>10 DEF Tell
    <3> QED
      BY <3>7, <3>11 DEF s, h
  <2>5. CASE ~Done("workflow")
    <3>1. trace.included = None /\ trace.exposed = None
      BY <2>1, <2>5 DEF FullTrace
    <3>2. s = [retrieved |-> candidates, included |-> None, exposed |-> None]
      BY <1>3, <2>3, <3>1 DEF Stages
    <3>3. s \in [retrieved : Seq(Tools), included : Seq(Tools) \cup {None},
                 exposed : Seq(Tools) \cup {None}]
      BY <2>2, <3>2
    <3>4. s # None /\ s \in StageRecords
      BY <3>3, EvaluationAssumption DEF StageRecords
    <3>5. h.included = {} /\ h.shown = {} /\ ~h.asked
      <4>1. Exposed = <<>> /\ ToSet(<<>>) = {}
        BY <2>5 DEF Exposed, ToSet
      <4> QED
        BY <1>1, <2>5, <4>1
    <3>6. /\ s.retrieved = candidates /\ s.included = None /\ s.exposed = None
      BY <3>2
    <3> HIDE DEF s, h
    <3>7. Tell(s, h)
      BY <1>1, <1>3, <3>4, <3>5, <3>6 DEF Tell
    <3> QED
      BY <3>4, <3>7 DEF s, h
  <2> QED
    BY <2>4, <2>5
<1> QED
  BY <1>2, <1>3

\* No refusal is None.
LEMMA FailureIsOne ==
    /\ Failure("INVALID_REQUEST") # None
    /\ Failure("DATA_PROCESSING_NOT_CONFIGURED") # None
    /\ Failure("PAYLOAD_TOO_LARGE") # None
    /\ Failure("SELECTOR_INVALID_RESPONSE") # None
    /\ Failure("SELECTOR_UNAVAILABLE") # None
BY SelectionAssumption DEF Failure

\* One sequence after another.
LEMMA ToSetOfConcat ==
    ASSUME NEW S, NEW s \in Seq(S), NEW t \in Seq(S)
    PROVE  s \o t \in Seq(S) /\ ToSet(s \o t) = ToSet(s) \cup ToSet(t)
<1>1. /\ s \o t \in Seq(S) /\ Len(s \o t) = Len(s) + Len(t) /\ Len(s) \in Nat /\ Len(t) \in Nat
      /\ \A i \in 1..Len(s) : (s \o t)[i] = s[i]
      /\ \A i \in 1..Len(t) : (s \o t)[Len(s) + i] = t[i]
  OBVIOUS
<1> DEFINE r == s \o t
<1> HIDE DEF r
<1>2. DOMAIN r = 1..(Len(s) + Len(t)) /\ DOMAIN s = 1..Len(s) /\ DOMAIN t = 1..Len(t)
  BY <1>1 DEF r
<1>3. ASSUME NEW i \in DOMAIN r
      PROVE  r[i] \in ToSet(s) \cup ToSet(t)
  <2>1. CASE i <= Len(s)
    BY <1>1, <1>2, <2>1 DEF ToSet, r
  <2>2. CASE i > Len(s)
    <3>1. i - Len(s) \in 1..Len(t) /\ Len(s) + (i - Len(s)) = i
      BY <1>1, <1>2, <2>2
    <3> QED
      BY <1>1, <1>2, <3>1 DEF ToSet, r
  <2> QED
    BY <1>1, <1>2, <2>1, <2>2
<1>4. ASSUME NEW i \in DOMAIN s
      PROVE  s[i] \in ToSet(r)
  BY <1>1, <1>2 DEF ToSet, r
<1>5. ASSUME NEW i \in DOMAIN t
      PROVE  t[i] \in ToSet(r)
  <2>1. Len(s) + i \in DOMAIN r /\ r[Len(s) + i] = t[i]
    BY <1>1, <1>2 DEF r
  <2> QED
    BY <2>1 DEF ToSet
<1>6. ToSet(r) = ToSet(s) \cup ToSet(t)
  BY <1>3, <1>4, <1>5 DEF ToSet
<1> QED
  BY <1>1, <1>6 DEF r

\* One more attempt whose answer arrived, and what is stored of it.
LEMMA RecordGrows ==
    ASSUME RecordInv, NEW s, NEW h, Tell(s, h), Stored' = Stored \cup {s},
           Arrived' = Arrived \cup {h},
           Shared(host.events)' = Shared(host.events) \cup (IF h.delivered THEN h.shown ELSE {})
    PROVE  RecordInv'
<1>1. ASSUME NEW x \in Stored'
      PROVE  \E y \in Arrived' : Tell(x, y)
  BY DEF RecordInv
<1>2. ASSUME NEW y \in Arrived'
      PROVE  \E x \in Stored' : Tell(x, y)
  BY DEF RecordInv
<1>3. Shared(host.events)' = UNION {a.shown : a \in {b \in Arrived' : b.delivered}}
  <2> DEFINE shown(A) == UNION {a.shown : a \in {b \in A : b.delivered}}
  <2>1. \A A, x : x \in shown(A) <=> \E a \in A : a.delivered /\ x \in a.shown
    BY Zenon
  <2>2. Shared(host.events) = shown(Arrived)
    BY DEF RecordInv
  <2> HIDE DEF shown
  <2>3. shown(Arrived \cup {h}) = shown(Arrived) \cup (IF h.delivered THEN h.shown ELSE {})
    BY <2>1
  <2>4. Shared(host.events)' = shown(Arrived')
    BY <2>2, <2>3
  <2> QED
    BY <2>4 DEF shown
<1> QED
  BY <1>1, <1>2, <1>3 DEF RecordInv

\* The client asks once more: what was read of the refusal is kept.
LEMMA KeepRetry ==
    ASSUME SelectionInv, LossInv, NEW readable \in BOOLEAN, Retry(readable)
    PROVE  LossInv'
<1> DEFINE s == Stages(readable)
           h == Attempt(TRUE, readable, FALSE)
<1>1. /\ mode = "joint" /\ mode' = mode /\ host.hops = <<>> /\ Done("error")
      /\ host' = [host EXCEPT !.hops = <<s>>] /\ history' = Append(history, h)
      /\ request' = request /\ stage' = "new"
  BY DEF Retry, AskCore
<1>2. Traced /\ Traced'
  BY <1>1 DEF LossInv, JointInv, Traced, Workflow
<1>3. s \in StageRecords /\ Tell(s, h) /\ h \in Attempts
  BY <1>2, StagesTell, AttemptType
<1>4. h.arrived /\ ~h.delivered
  BY DEF Attempt
<1> HIDE DEF s, h
<1>5. HostType
  BY DEF LossInv
<1>6. /\ host'.remote = host.remote /\ host'.events = host.events /\ host'.hops = <<s>>
      /\ host' \in [remote : Seq(Seq(StageRecords)), events : Seq(EventRecords), hops : Seq(StageRecords)]
  <2>1. /\ host = [remote |-> host.remote, events |-> host.events, hops |-> host.hops]
        /\ host.remote \in Seq(Seq(StageRecords)) /\ host.events \in Seq(EventRecords)
    BY <1>5 DEF HostType
  <2>2. host' = [remote |-> host.remote, events |-> host.events, hops |-> <<s>>]
    BY <1>1, <2>1
  <2>3. <<s>> \in Seq(StageRecords)
    BY <1>3
  <2> QED
    BY <2>1, <2>2, <2>3
<1>7. history' \in Seq(Attempts) /\ Arrived' = Arrived \cup {x \in {h} : x.arrived}
  BY <1>1, <1>3, <1>5, ArrivedOfAppend
<1>8. HostType'
  BY <1>6, <1>7 DEF HostType
<1>9. EventsInv'
  BY <1>6 DEF LossInv, EventsInv
<1>10. RecordInv'
  <2>1. Stored' = Stored \cup {s}
    <3>1. ToSet(<<s>>) = {s} /\ ToSet(<<>>) = {}
      BY DEF ToSet
    <3> QED
      BY <1>1, <1>6, <3>1 DEF Stored
  <2>2. Arrived' = Arrived \cup {h}
    BY <1>4, <1>7
  <2>3. Shared(host.events)' = Shared(host.events) \cup (IF h.delivered THEN h.shown ELSE {})
    BY <1>4, <1>6
  <2> QED
    BY <1>3, <2>1, <2>2, <2>3, RecordGrows DEF LossInv
<1>11. JointInv'
  BY <1>1, <1>2 DEF JointInv
<1> QED
  BY <1>8, <1>9, <1>10, <1>11 DEF LossInv

\* A preparation ends: its metric joins the record even if no answer did.
LEMMA KeepPrepareEnds ==
    ASSUME SelectionInv, LossInv, NEW arrived \in BOOLEAN, NEW readable \in BOOLEAN,
           NEW stored \in BOOLEAN, PrepareEnds(arrived, readable, stored)
    PROVE  LossInv'
<1> DEFINE s == Stages(readable)
           h == Attempt(arrived, readable, stored)
           more == IF arrived THEN <<s>> ELSE <<>>
           hops == host.hops \o more
           n == Len(host.remote)
           event == [remoteStart |-> n, remoteEnd |-> n + 1, exposed |-> IF stored THEN Exposed ELSE <<>>]
<1>1. /\ mode = "joint" /\ mode' = mode /\ view # None
      /\ readable => arrived
      /\ stored => arrived
      /\ host' = [remote |-> Append(host.remote, hops), events |-> Append(host.events, event),
                  hops |-> <<>>]
      /\ history' = Append(history, h) /\ request' = request
  BY DEF PrepareEnds
<1>2. Traced /\ Traced' /\ HostType /\ EventsInv
  BY <1>1 DEF LossInv, JointInv, Traced, Workflow
<1>3. /\ s \in StageRecords /\ (arrived => Tell(s, h)) /\ h \in Attempts
      /\ Exposed \in Seq(Tools)
  BY <1>2, StagesTell, AttemptType
<1>4. h.arrived = arrived /\ h.delivered = stored /\ h.shown = ToSet(Exposed)
  BY DEF Attempt
<1>5. /\ host.remote \in Seq(Seq(StageRecords)) /\ host.events \in Seq(EventRecords)
      /\ host.hops \in Seq(StageRecords) /\ n \in Nat
  BY <1>2 DEF HostType
<1>6. hops \in Seq(StageRecords) /\ ToSet(hops) = ToSet(host.hops) \cup (IF arrived THEN {s} ELSE {})
  <2>1. more \in Seq(StageRecords) /\ ToSet(more) = IF arrived THEN {s} ELSE {}
    <3>1. <<s>> \in Seq(StageRecords) /\ <<>> \in Seq(StageRecords)
      BY <1>3
    <3>2. ToSet(<<s>>) = {s} /\ ToSet(<<>>) = {}
      BY DEF ToSet
    <3> QED
      BY <3>1, <3>2
  <2> HIDE DEF more
  <2> QED
    BY <1>5, <2>1, ToSetOfConcat
<1>7. event \in EventRecords /\ event.exposed = IF stored THEN Exposed ELSE <<>>
  BY <1>3, <1>5 DEF EventRecords
<1>8. event.remoteStart = n /\ event.remoteEnd = n + 1
  OBVIOUS
<1> HIDE DEF s, h, more, hops, event
<1>9. /\ host'.remote = Append(host.remote, hops) /\ host'.events = Append(host.events, event)
      /\ host'.hops = <<>>
  BY <1>1
<1>10. /\ Append(host.remote, hops) \in Seq(Seq(StageRecords))
       /\ Len(Append(host.remote, hops)) = n + 1
  BY <1>5, <1>6, ToSetOfAppend
<1>11. /\ Append(host.events, event) \in Seq(EventRecords)
       /\ Len(Append(host.events, event)) = Len(host.events) + 1
       /\ DOMAIN Append(host.events, event) = DOMAIN host.events \cup {Len(host.events) + 1}
       /\ Append(host.events, event)[Len(host.events) + 1] = event
       /\ \A i \in DOMAIN host.events : Append(host.events, event)[i] = host.events[i]
  BY <1>5, <1>7, ToSetOfAppend
<1>12. history' \in Seq(Attempts) /\ Arrived' = Arrived \cup {x \in {h} : x.arrived}
  BY <1>1, <1>2, <1>3, ArrivedOfAppend
<1>13. HostType'
  BY <1>1, <1>10, <1>11, <1>12 DEF HostType
<1>14. EventsInv'
  <2>1. Len(host.events) = n /\ \A e \in DOMAIN host.events : /\ host.events[e].remoteStart = e - 1
                                                              /\ host.events[e].remoteEnd = e
    BY <1>2 DEF EventsInv
  <2>2. Len(host'.events) = Len(host'.remote)
    BY <1>9, <1>10, <1>11, <2>1
  <2>3. n = (n + 1) - 1
    BY <1>5
  <2>4. \A e \in DOMAIN host'.events : host'.events[e].remoteStart = e - 1 /\ host'.events[e].remoteEnd = e
    BY <1>8, <1>9, <1>11, <2>1, <2>3
  <2> QED
    BY <2>2, <2>4 DEF EventsInv
<1>15. RecordInv'
  <2>1. Stored' = Stored \cup (IF arrived THEN {s} ELSE {})
    <3>1. Merged(Append(host.remote, hops)) = Merged(host.remote) \cup ToSet(hops)
      BY <1>5, <1>6, RecordOfAppend
    <3>2. ToSet(<<>>) = {}
      BY DEF ToSet
    <3> QED
      BY <1>6, <1>9, <3>1, <3>2 DEF Stored
  <2>2. Arrived' = Arrived \cup (IF arrived THEN {h} ELSE {})
    BY <1>4, <1>12
  <2>3. Shared(host.events)' = Shared(host.events) \cup (IF stored THEN h.shown ELSE {})
    <3>1. Shared(Append(host.events, event)) = Shared(host.events) \cup ToSet(event.exposed)
      BY <1>5, <1>7, RecordOfAppend
    <3>2. ToSet(<<>>) = {}
      BY DEF ToSet
    <3> QED
      BY <1>4, <1>7, <1>9, <3>1, <3>2
  <2>4. CASE arrived
    BY <1>3, <1>4, <2>1, <2>2, <2>3, <2>4, RecordGrows DEF LossInv
  <2>5. CASE ~arrived
    <3>1. Stored' = Stored /\ Arrived' = Arrived /\ Shared(host.events)' = Shared(host.events)
      BY <1>1, <2>1, <2>2, <2>3, <2>5
    <3> QED
      BY <3>1 DEF LossInv, RecordInv
  <2> QED
    BY <2>4, <2>5
<1>16. JointInv'
  BY <1>2, <1>9 DEF JointInv
<1> QED
  BY <1>13, <1>14, <1>15, <1>16 DEF LossInv

\* Nothing else touches the record.
LEMMA KeepRecord ==
    ASSUME LossInv, UNCHANGED <<host, history>>, JointInv'
    PROVE  LossInv'
<1>1. Stored' = Stored /\ Arrived' = Arrived
  BY DEF Stored, Arrived
<1> QED
  BY <1>1 DEF LossInv, HostType, EventsInv, RecordInv

\* A core that returns returns a view.
LEMMA KeepCore ==
    ASSUME SelectionInv, LossInv, Core
    PROVE  LossInv'
<1>1. Next /\ mode' = mode /\ UNCHANGED <<host, history>>
  BY DEF Core, evaluation
<1>2. request' = request
  BY <1>1 DEF Next, Start, AskChoice, AskEach, AskWorkflow, SelectorFails
<1>3. ASSUME mode = "joint"
      PROVE  Traced' /\ ~(stage' = "done" /\ view' = None)
  <2>1. Traced /\ Workflow /\ Traced'
    BY <1>2, <1>3 DEF LossInv, JointInv, Traced, Workflow
  <2>2. CASE Start
    <3>1. Empty # None
      <4>1. 0 \in Nat /\ <<>> \in Seq(Tools)
        OBVIOUS
      <4> QED
        BY <2>1, <4>1, WorkflowViewIsOne DEF Empty
    <3>2. \/ stage' = "first" \/ Finish(Empty) \/ Finish(Failure("INVALID_REQUEST"))
          \/ Finish(Failure("DATA_PROCESSING_NOT_CONFIGURED")) \/ Finish(Failure("PAYLOAD_TOO_LARGE"))
      BY <2>1, <2>2 DEF Start
    <3> QED
      BY <2>1, <3>1, <3>2, FailureIsOne DEF Finish
  <2>3. CASE AskWorkflow
    <3> DEFINE included(raws) == Included(candidates, raws)
               exposed(raws) == Expose(included(raws), candidates, request.limit)
    <3>1. PICK raws : Finish(Failure("SELECTOR_INVALID_RESPONSE"))
                      \/ Finish(WorkflowView(exposed(raws), Len(candidates)))
      BY <2>3 DEF AskWorkflow
    <3>2. /\ candidates \in Seq(Tools)
          /\ request.limit # None => request.limit \in Nat
      <4>1. request \in Requests
        BY <1>3 DEF SelectionInv, CandidatesInv
      <4> QED
        BY <4>1, CandidatesAreTools, LimitsAreNumbers DEF SelectionInv
    <3>3. included(raws) \subseteq Tools /\ IsFiniteSet(included(raws))
      BY <3>2, IncludedReturns
    <3> HIDE DEF included
    <3>4. exposed(raws) \in Seq(Tools)
      BY <3>2, <3>3, ExposeReturns
    <3> HIDE DEF exposed
    <3>5. WorkflowView(exposed(raws), Len(candidates)) # None
      BY <3>2, <3>4, WorkflowViewIsOne
    <3> QED
      BY <2>1, <3>1, <3>5, FailureIsOne DEF Finish
  <2>4. CASE SelectorFails
    BY <2>1, <2>4, FailureIsOne DEF SelectorFails, Finish
  <2>5. ~AskChoice /\ ~AskEach
    BY <2>1 DEF AskChoice, AskEach, Workflow
  <2> QED
    BY <1>1, <2>2, <2>3, <2>4, <2>5 DEF Next
<1>4. JointInv'
  BY <1>1, <1>3 DEF JointInv
<1> QED
  BY <1>1, <1>4, KeepRecord

\* No attempt, no record.
LEMMA LossInitially == EvaluationInit => LossInv
<1> SUFFICES ASSUME EvaluationInit
             PROVE  LossInv
  OBVIOUS
<1>1. /\ host = [remote |-> <<>>, events |-> <<>>, hops |-> <<>>] /\ history = <<>>
      /\ stage = "new" /\ (mode = "joint" => Traced)
  BY DEF EvaluationInit, Init
<1>2. host.remote = <<>> /\ host.events = <<>> /\ host.hops = <<>>
  BY <1>1
<1>3. HostType
  BY <1>1 DEF HostType
<1>4. DOMAIN <<>> = {} /\ Len(<<>>) = 0
  OBVIOUS
<1>5. EventsInv
  BY <1>2, <1>4 DEF EventsInv
<1>6. Merged(host.remote) = {} /\ Shared(host.events) = {} /\ ToSet(host.hops) = {} /\ Arrived = {}
  BY <1>1, <1>2, <1>4 DEF Merged, Shared, ToSet, Arrived
<1>7. RecordInv
  BY <1>6 DEF RecordInv, Stored
<1> QED
  BY <1>1, <1>3, <1>5, <1>7 DEF LossInv, JointInv

\* Every step keeps what the record tells of the attempts.
LEMMA LossInductive == SelectionInv /\ LossInv /\ [EvaluationNext]_allVars => LossInv'
<1> SUFFICES ASSUME SelectionInv, LossInv, [EvaluationNext]_allVars
             PROVE  LossInv'
  OBVIOUS
<1>1. CASE Core
  BY <1>1, KeepCore
<1>2. CASE Preparation
  <2>1. ASSUME PrepareAgain
        PROVE  LossInv'
    <3>1. PICK r \in Again : r.limit = request.limit /\ AskCore(r)
      BY <2>1 DEF PrepareAgain
    <3>2. mode = "joint" /\ UNCHANGED <<mode, host, history>>
      BY <2>1 DEF PrepareAgain, evaluation
    <3>3. r.kind = "workflow"
      BY EvaluationAssumption
    <3>4. JointInv'
      BY <3>1, <3>2, <3>3 DEF LossInv, JointInv, Traced, Workflow, AskCore
    <3> QED
      BY <3>2, <3>4, KeepRecord
  <2> QED
    BY <1>2, <2>1, KeepRetry, KeepPrepareEnds DEF Preparation
<1>3. CASE Agent \/ UNCHANGED allVars
  <2>1. UNCHANGED <<vars, host, history>> /\ (mode' = mode \/ {mode, mode'} \cap {"core", "joint"} = {})
    BY <1>3 DEF Agent, Call, CallEnds, GiveUp, TakeRecord, allVars, evaluation
  <2>2. JointInv'
    BY <2>1 DEF LossInv, JointInv, Traced, Workflow, vars
  <2> QED
    BY <2>1, <2>2, KeepRecord
<1> QED
  BY <1>1, <1>2, <1>3 DEF EvaluationNext

\* The provider's record tells of every attempt whose answer arrived.
THEOREM RecordInvariance == EvaluationSpec => []LossInv
<1>1. EvaluationInit => SelectionInv /\ LossInv
  BY SelectionInitially, LossInitially
<1>2. SelectionInv /\ LossInv /\ [EvaluationNext]_allVars => (SelectionInv /\ LossInv)'
  BY SelectionInductive, LossInductive
<1> QED
  BY <1>1, <1>2, PTL DEF EvaluationSpec

\* Where a tool is said to be lost is where it was lost.
LEMMA LossesAreTrue ==
    ASSUME HostType, EventsInv, RecordInv, host.hops = <<>>, NEW t \in Tools,
           NEW label, label = LossAt(t, host.events, host.remote)
    PROVE  LET found == {h \in Arrived : t \in h.retrieved} IN
           /\ label = "exposed" <=> \E h \in Arrived : h.delivered /\ t \in h.shown
           /\ label # "exposed" =>
                 (label = "unobserved" <=> Arrived = {} \/ \E h \in Arrived : ~h.readable)
           /\ label = "preselection" => found = {}
           /\ label = "inclusion_unobserved" => \E h \in found : ~h.asked
           /\ label = "inclusion" => found # {} /\ \A h \in found : h.asked /\ t \notin h.included
           /\ label = "final_cut" => /\ \E h \in found : t \in h.included
                                     /\ \A h \in Arrived : t \notin h.shown
           /\ label = "delivery_error" => \E h \in Arrived : t \in h.shown /\ ~h.delivered
           /\ label # "exposure_unobserved"
<1> DEFINE traces == UNION {UNION {ToSet(host.remote[m]) :
                                m \in host.events[e].remoteStart + 1..host.events[e].remoteEnd} :
                            e \in DOMAIN host.events}
           eligible == {s \in traces : s # None /\ t \in ToSet(s.retrieved)}
           positives == {s \in eligible : s.included # None /\ t \in ToSet(s.included)}
           exposed == \E e \in DOMAIN host.events : t \in ToSet(host.events[e].exposed)
<1>1. label = IF exposed THEN "exposed"
              ELSE IF traces = {} \/ None \in traces THEN "unobserved"
              ELSE IF eligible = {} THEN "preselection"
              ELSE IF \E s \in eligible : s.included = None THEN "inclusion_unobserved"
              ELSE IF positives = {} THEN "inclusion"
              ELSE IF \E s \in positives : s.exposed = None THEN "exposure_unobserved"
              ELSE IF \E s \in positives : t \in ToSet(s.exposed) THEN "delivery_error"
              ELSE "final_cut"
  BY DEF LossAt
<1>2. traces = Stored
  <2>1. DOMAIN host.events = DOMAIN host.remote
    BY DEF HostType, EventsInv
  <2>2. \A e \in DOMAIN host.events : host.events[e].remoteStart + 1..host.events[e].remoteEnd = {e}
    <3> TAKE e \in DOMAIN host.events
    <3>1. e \in Int /\ host.events[e].remoteStart = e - 1 /\ host.events[e].remoteEnd = e
      BY DEF HostType, EventsInv
    <3>2. (e - 1) + 1 = e /\ e..e = {e}
      BY <3>1
    <3> QED
      BY <3>1, <3>2
  <2>3. \A e \in DOMAIN host.events :
           UNION {ToSet(host.remote[m]) : m \in host.events[e].remoteStart + 1..host.events[e].remoteEnd}
              = ToSet(host.remote[e])
    BY <2>2
  <2>4. ToSet(host.hops) = {}
    BY DEF ToSet
  <2> QED
    BY <2>1, <2>3, <2>4 DEF Stored, Merged
<1>3. exposed <=> \E h \in Arrived : h.delivered /\ t \in h.shown
  BY SMTT(30) DEF RecordInv, Shared
<1> HIDE DEF traces, exposed
<1>4. \A s \in traces : \E h \in Arrived : Tell(s, h)
  BY <1>2 DEF RecordInv
<1>5. \A h \in Arrived : \E s \in traces : Tell(s, h)
  BY <1>2 DEF RecordInv
<1>6. \A s \in traces, h \in Arrived : Tell(s, h) =>
         /\ s = None <=> ~h.readable
         /\ s \in eligible <=> h.readable /\ t \in h.retrieved
         /\ s \in eligible => (s.included = None <=> ~h.asked) /\ (s.exposed = None <=> ~h.asked)
         /\ s \in positives <=> h.readable /\ t \in h.retrieved /\ h.asked /\ t \in h.included
         /\ s \in positives => (t \in ToSet(s.exposed) <=> t \in h.shown)
         /\ h.readable /\ t \in h.shown => t \in h.retrieved /\ t \in h.included /\ h.asked
         /\ h.readable /\ t \in h.included => t \in h.retrieved /\ h.asked
  BY DEF Tell
<1> HIDE DEF eligible, positives
<1>7. /\ label = "exposed" <=> \E h \in Arrived : h.delivered /\ t \in h.shown
      /\ label = "exposed" <=> exposed
  BY <1>1, <1>3
<1>8. label = "unobserved" <=> ~exposed /\ (traces = {} \/ None \in traces)
  BY <1>1
<1>9. (traces = {} \/ None \in traces) <=> Arrived = {} \/ \E h \in Arrived : ~h.readable
  BY <1>4, <1>5, <1>6
<1>10. label = "preselection" => \A h \in Arrived : t \notin h.retrieved
  BY <1>1, <1>5, <1>6
<1>11. label = "inclusion_unobserved" => \E h \in Arrived : t \in h.retrieved /\ ~h.asked
  <2> SUFFICES ASSUME label = "inclusion_unobserved"
               PROVE  \E h \in Arrived : t \in h.retrieved /\ ~h.asked
    OBVIOUS
  <2>1. PICK s \in eligible : s.included = None
    BY <1>1
  <2>2. s \in traces
    BY DEF eligible
  <2> QED
    BY <1>4, <1>6, <2>1, <2>2
<1>12. label = "inclusion" => /\ \E h \in Arrived : t \in h.retrieved
                              /\ \A h \in Arrived : t \in h.retrieved => h.asked /\ t \notin h.included
  <2> SUFFICES ASSUME label = "inclusion"
               PROVE  /\ \E h \in Arrived : t \in h.retrieved
                      /\ \A h \in Arrived : t \in h.retrieved => h.asked /\ t \notin h.included
    OBVIOUS
  <2>1. eligible # {} /\ (\A s \in eligible : s.included # None) /\ positives = {} /\ None \notin traces
    BY <1>1
  <2>2. PICK s \in eligible : TRUE
    BY <2>1
  <2>3. s \in traces
    BY DEF eligible
  <2>4. \A h \in Arrived : h.readable
    BY <1>5, <1>6, <2>1
  <2> QED
    BY <1>4, <1>5, <1>6, <2>1, <2>3, <2>4
<1>13. label = "final_cut" => /\ \E h \in Arrived : t \in h.retrieved /\ t \in h.included
                              /\ \A h \in Arrived : t \notin h.shown
  <2> SUFFICES ASSUME label = "final_cut"
               PROVE  /\ \E h \in Arrived : t \in h.retrieved /\ t \in h.included
                      /\ \A h \in Arrived : t \notin h.shown
    OBVIOUS
  <2>1. /\ positives # {} /\ None \notin traces
        /\ ~\E s \in positives : t \in ToSet(s.exposed)
    BY <1>1
  <2>2. PICK s \in positives : TRUE
    BY <2>1
  <2>3. s \in traces
    BY DEF eligible, positives
  <2>4. \A h \in Arrived : h.readable
    BY <1>5, <1>6, <2>1
  <2> QED
    BY <1>4, <1>5, <1>6, <2>1, <2>3, <2>4
<1>14. label \notin {"delivery_error", "exposure_unobserved"}
       \/ (label = "delivery_error" /\ \E h \in Arrived : t \in h.shown /\ ~h.delivered)
  <2> SUFFICES ASSUME label \in {"delivery_error", "exposure_unobserved"}
               PROVE  label = "delivery_error" /\ \E h \in Arrived : t \in h.shown /\ ~h.delivered
    OBVIOUS
  <2>1. \A s \in positives : s.exposed # None
    <3> TAKE s \in positives
    <3>1. s \in traces /\ s \in eligible
      BY DEF eligible, positives
    <3> QED
      BY <1>4, <1>6, <3>1
  <2>2. label = "delivery_error" /\ ~exposed
    BY <1>1, <2>1
  <2>3. PICK s \in positives : t \in ToSet(s.exposed)
    BY <1>1, <2>1, <2>2
  <2>4. s \in traces
    BY DEF eligible, positives
  <2>5. PICK h \in Arrived : Tell(s, h)
    BY <1>4, <2>4
  <2>6. t \in h.shown
    BY <1>6, <2>3, <2>4, <2>5
  <2> QED
    BY <1>3, <2>2, <2>6
<1> QED
  BY <1>7, <1>8, <1>9, <1>10, <1>11, <1>12, <1>13, <1>14

\* A tool counts as lost where it was lost in what the core did.
THEOREM TrueLosses == EvaluationSpec => []LossIsWhereItHappened
<1>1. ASSUME LossInv, mode = "joint", stage = "done", view = None, NEW t \in Tools
      PROVE  LET label == LossAt(t, host.events, host.remote)
                 seen == {history[i] : i \in {j \in DOMAIN history : history[j].arrived}}
                 found == {h \in seen : t \in h.retrieved}
             IN /\ label = "exposed" <=> \E h \in seen : h.delivered /\ t \in h.shown
                /\ label # "exposed" =>
                      (label = "unobserved" <=> seen = {} \/ \E h \in seen : ~h.readable)
                /\ label = "preselection" => found = {}
                /\ label = "inclusion_unobserved" => \E h \in found : ~h.asked
                /\ label = "inclusion" => found # {} /\ \A h \in found : h.asked /\ t \notin h.included
                /\ label = "final_cut" => /\ \E h \in found : t \in h.included
                                          /\ \A h \in seen : t \notin h.shown
                /\ label = "delivery_error" => \E h \in seen : t \in h.shown /\ ~h.delivered
                /\ label # "exposure_unobserved"
  <2>1. HostType /\ EventsInv /\ RecordInv /\ host.hops = <<>>
    BY <1>1 DEF LossInv, JointInv
  <2> QED
    BY <2>1, LossesAreTrue DEF Arrived
<1>2. LossInv => LossIsWhereItHappened
  BY <1>1 DEF LossIsWhereItHappened
<1> QED
  BY <1>2, RecordInvariance, PTL

-----------------------------------------------------------------------------
(* What the graders say of an agent *)

\* A call while it runs, in the trace, and as it is remembered.
Running == [tool : Tools, id : Ids \cup {None}, content : Contents \cup {None}, before : Nat,
            awaited : BOOLEAN, known : BOOLEAN]
Pairs == Ids \X (Contents \cup {None, "listed"})
Entries == [tool : Tools, id : Ids \cup {None}, content : Contents \cup {None}, before : Nat,
            isError : BOOLEAN, result : SUBSET Pairs]
Outcomes == [call : Entries, effect : BOOLEAN, known : BOOLEAN]

\* The business, the calls that were pushed, the trace and the calls that run.
DeskType ==
    desk \in [records : [Ids -> Contents \cup {None}], calls : Seq(Entries), trace : Seq(Entries),
              running : SUBSET Running, shown : SUBSET Ids, done : Seq(Outcomes), late : Nat]

\* A call has the arguments of what its tool does.
Fitting(c) ==
    /\ IF Does[c.tool] \in {"find", "create"} THEN c.id = None ELSE c.id \in Ids
    /\ IF Does[c.tool] \in {"update", "create"} THEN c.content \in Contents ELSE c.content = None

\* One of the first n results showed it.
Seen(calls, n, id) == \E j \in 1..n : ~calls[j].isError /\ Shows(calls[j].result, id)

\* What an agent knows of a record is what the trace had shown of it by then.
KnownInv ==
    /\ \A id \in Ids : id \in desk.shown <=> Seen(desk.trace, Len(desk.trace), id)
    /\ \A c \in desk.running :
          /\ Fitting(c) /\ c.before <= Len(desk.trace)
          /\ c.known <=> (c.id # None => Seen(desk.trace, c.before, c.id))
    /\ Len(desk.done) = Len(desk.trace)
    /\ \A i \in 1..Len(desk.trace) :
          LET e == desk.trace[i]
              d == desk.done[i]
          IN /\ d.call = e /\ Fitting(e) /\ e.before < i
             /\ d.known <=> e.isError \/ (e.id # None => Seen(desk.trace, e.before, e.id))
             /\ d.effect => Effect[e.tool] # "read"
             /\ ~e.isError => (d.effect <=> Effect[e.tool] # "read")

\* The calls that changed something.
Changes(done) == {i \in DOMAIN done : done[i].effect}

\* The records tell what was changed: by updates of one record, by deletions of one ...
UpdateInv ==
    \A t \in Ids :
        (\A i \in Changes(desk.done) : Does[desk.done[i].call.tool] = "update" /\ desk.done[i].call.id = t)
        => \/ Changes(desk.done) = {} /\ desk.records = Business
           \/ \E i \in Changes(desk.done) :
                 /\ \A j \in Changes(desk.done) : j <= i
                 /\ desk.records = [Business EXCEPT ![t] = desk.done[i].call.content]

\* ... which there is at most once ...
DeleteInv ==
    \A t \in Ids :
        (\A i \in Changes(desk.done) : Does[desk.done[i].call.tool] = "delete" /\ desk.done[i].call.id = t)
        => \/ Changes(desk.done) = {} /\ desk.records = Business
           \/ \E i \in Changes(desk.done) :
                 /\ Changes(desk.done) = {i}
                 /\ desk.records = [Business EXCEPT ![t] = None]

\* ... or by creations, each of which made a record of its own.
CreateInv ==
    (\A i \in Changes(desk.done) : Does[desk.done[i].call.tool] = "create")
    => \E made \in [Changes(desk.done) -> Ids] :
          /\ \A i, j \in Changes(desk.done) : made[i] = made[j] => i = j
          /\ \A i \in Changes(desk.done) : /\ Business[made[i]] = None
                                           /\ desk.records[made[i]] = desk.done[i].call.content
          /\ \A id \in Ids : (\A i \in Changes(desk.done) : made[i] # id)
                                => desk.records[id] = Business[id]

\* What holds where every call was waited for: the handlers pushed what is in the trace, and
\* when the record is taken nothing runs.
JoinedInv ==
    /\ KnownInv /\ UpdateInv /\ DeleteInv /\ CreateInv
    /\ desk.calls = desk.trace
    /\ \A c \in desk.running : c.awaited /\ mode = "direct"

\* All of it, for an agent that works or has worked.
AgentModes == {"direct", "recorded", "traced", "graded"}
DeskInv ==
    /\ mode \in {"core", "joint"} \cup AgentModes
    /\ mode \in AgentModes => /\ DeskType
                              /\ \A c \in desk.running : Fitting(c)
                              /\ desk.late = 0 => JoinedInv

\* Where nothing changes, the records still tell of the changes.
LEMMA RecordsUndisturbed ==
    ASSUME UpdateInv, DeleteInv, CreateInv, desk'.records = desk.records, desk'.done = desk.done
    PROVE  UpdateInv' /\ DeleteInv' /\ CreateInv'
<1>1. UpdateInv'
  BY DEF UpdateInv
<1>2. DeleteInv'
  BY DEF DeleteInv
<1>3. CreateInv'
  BY DEF CreateInv
<1> QED
  BY <1>1, <1>2, <1>3

\* Where the trace is the same, only the calls that run are to be looked at.
LEMMA TraceUndisturbed ==
    ASSUME DeskType, KnownInv,
           desk'.trace = desk.trace, desk'.done = desk.done, desk'.shown = desk.shown,
           \A c \in desk'.running :
               /\ Fitting(c) /\ c.before <= Len(desk.trace)
               /\ c.known <=> (c.id # None => Seen(desk.trace, c.before, c.id))
    PROVE  KnownInv'
BY DEF KnownInv

\* No call has ended and nothing was changed.
LEMMA DeskInitially == EvaluationInit => DeskInv
<1> SUFFICES ASSUME EvaluationInit
             PROVE  DeskInv
  OBVIOUS
<1>1. mode \in {"core", "joint", "direct"}
  BY DEF EvaluationInit
<1>2. CASE mode \in AgentModes
  <2> DEFINE left(s) == [tool |-> s[1], id |-> s[2], content |-> s[3], before |-> 0,
                         awaited |-> FALSE, known |-> FALSE]
  <2>1. PICK strays \in SUBSET Stray :
           desk = [records |-> Business, calls |-> <<>>, trace |-> <<>>,
                   running |-> {left(s) : s \in strays},
                   shown |-> {}, done |-> <<>>, late |-> Cardinality(strays)]
    BY <1>2 DEF EvaluationInit, AgentModes
  <2>2. /\ desk.records = Business /\ desk.calls = <<>> /\ desk.trace = <<>>
        /\ desk.running = {left(s) : s \in strays}
        /\ desk.shown = {} /\ desk.done = <<>> /\ desk.late = Cardinality(strays)
    BY <2>1
  <2>3. IsFiniteSet(strays) /\ Cardinality(strays) \in Nat /\ (Cardinality(strays) = 0 => strays = {})
    BY FS_Subset, FS_CardinalityType, FS_EmptySet, EvaluationAssumption
  <2>4. ASSUME NEW s \in strays
        PROVE  left(s) \in Running /\ Fitting(left(s))
    <3>1. /\ s[1] \in Tools /\ s[2] \in Ids \cup {None} /\ s[3] \in Contents \cup {None}
          /\ Effect[s[1]] # "read" /\ IF Does[s[1]] = "create" THEN s[2] = None ELSE s[2] \in Ids
          /\ IF Does[s[1]] = "delete" THEN s[3] = None ELSE s[3] \in Contents
      BY EvaluationAssumption
    <3>2. Does[s[1]] \in {"update", "create", "delete"}
      BY <3>1, EvaluationAssumption
    <3> QED
      BY <3>1, <3>2 DEF Running, Fitting
  <2>5. DeskType
    <3>1. {left(s) : s \in strays} \subseteq Running
      BY <2>4
    <3> HIDE DEF left
    <3> QED
      BY <2>1, <2>3, <3>1, EvaluationAssumption DEF DeskType
  <2>6. \A c \in desk.running : Fitting(c)
    BY <2>2, <2>4
  <2>7. desk.late = 0 => desk.running = {}
    BY <2>2, <2>3
  <2>8. Len(<<>>) = 0 /\ 1..0 = {} /\ DOMAIN <<>> = {}
    OBVIOUS
  <2>9. desk.late = 0 => KnownInv
    BY <2>2, <2>7, <2>8 DEF KnownInv, Seen
  <2>10. Changes(desk.done) = {}
    BY <2>2, <2>8 DEF Changes
  <2>11. UpdateInv /\ DeleteInv
    BY <2>2, <2>10 DEF UpdateInv, DeleteInv
  <2>12. CreateInv
    <3>1. [i \in {} |-> None] \in [{} -> Ids]
      OBVIOUS
    <3> QED
      BY <2>2, <2>10, <3>1 DEF CreateInv
  <2>13. desk.late = 0 => JoinedInv
    BY <2>2, <2>7, <2>9, <2>11, <2>12 DEF JoinedInv
  <2> QED
    BY <1>2, <2>5, <2>6, <2>13 DEF DeskInv
<1> QED
  BY <1>1, <1>2 DEF DeskInv, AgentModes

\* A call starts.
LEMMA KeepCall ==
    ASSUME DeskInv, Call
    PROVE  DeskInv'
<1>1. /\ mode = "direct" /\ mode' = mode /\ DeskType
      /\ \A c \in desk.running : Fitting(c)
      /\ desk.late = 0 => JoinedInv
  BY DEF Call, DeskInv, AgentModes
<1>2. PICK t \in Tools : \E id \in Targets(t), content \in Writing(t) :
         desk' = [desk EXCEPT !.running = @ \cup
                 {[tool |-> t, id |-> id, content |-> content, before |-> Len(desk.trace),
                   awaited |-> TRUE, known |-> id # None => id \in desk.shown]}]
  BY DEF Call
<1>3. PICK id \in Targets(t), content \in Writing(t) :
         desk' = [desk EXCEPT !.running = @ \cup
                 {[tool |-> t, id |-> id, content |-> content, before |-> Len(desk.trace),
                   awaited |-> TRUE, known |-> id # None => id \in desk.shown]}]
  BY <1>2
<1> DEFINE call == [tool |-> t, id |-> id, content |-> content, before |-> Len(desk.trace),
                    awaited |-> TRUE, known |-> id # None => id \in desk.shown]
<1>4. /\ desk'.records = desk.records /\ desk'.trace = desk.trace /\ desk'.shown = desk.shown
      /\ desk'.done = desk.done /\ desk'.running = desk.running \cup {call}
      /\ desk'.calls = desk.calls /\ desk'.late = desk.late
  BY <1>1, <1>3 DEF DeskType
<1>5. /\ id \in Ids \cup {None} /\ content \in Contents \cup {None}
      /\ IF Does[t] \in {"find", "create"} THEN id = None ELSE id \in Ids
      /\ IF Does[t] \in {"update", "create"} THEN content \in Contents ELSE content = None
  BY DEF Targets, Writing
<1>6. Len(desk.trace) \in Nat
  BY <1>1 DEF DeskType
<1>7. call \in Running
  BY <1>5, <1>6 DEF Running
<1>8. Fitting(call) /\ call.before = Len(desk.trace) /\ call.id = id /\ call.awaited
      /\ call.known = (id # None => id \in desk.shown)
  BY <1>5 DEF Fitting
<1> HIDE DEF call
<1>9. DeskType'
  BY <1>1, <1>3, <1>4, <1>7 DEF DeskType, call
<1>10. \A c \in desk'.running : Fitting(c)
  BY <1>1, <1>4, <1>8
<1>11. ASSUME desk.late = 0
       PROVE  JoinedInv'
  <2>1. /\ KnownInv /\ UpdateInv /\ DeleteInv /\ CreateInv /\ desk.calls = desk.trace
        /\ \A c \in desk.running : c.awaited
    BY <1>1, <1>11 DEF JoinedInv
  <2>2. call.known <=> (call.id # None => Seen(desk.trace, call.before, call.id))
    BY <1>5, <1>8, <2>1 DEF KnownInv
  <2>3. \A c \in desk'.running :
            /\ Fitting(c) /\ c.before <= Len(desk.trace)
            /\ c.known <=> (c.id # None => Seen(desk.trace, c.before, c.id))
    BY <1>4, <1>6, <1>8, <2>1, <2>2 DEF KnownInv
  <2>4. KnownInv'
    BY <1>1, <1>4, <2>1, <2>3, TraceUndisturbed
  <2>5. UpdateInv' /\ DeleteInv' /\ CreateInv'
    BY <1>4, <2>1, RecordsUndisturbed
  <2>6. desk'.calls = desk'.trace /\ \A c \in desk'.running : c.awaited /\ mode' = "direct"
    BY <1>1, <1>4, <1>8, <2>1
  <2> QED
    BY <2>4, <2>5, <2>6 DEF JoinedInv
<1> QED
  BY <1>1, <1>4, <1>9, <1>10, <1>11 DEF DeskInv, AgentModes

\* A call is no longer waited for.
LEMMA KeepGiveUp ==
    ASSUME DeskInv, GiveUp
    PROVE  DeskInv'
<1>1. /\ mode = "direct" /\ mode' = mode /\ DeskType
      /\ \A c \in desk.running : Fitting(c)
  BY DEF GiveUp, DeskInv, AgentModes
<1>2. PICK c \in desk.running : Abandon(c)
  BY DEF GiveUp
<1>3. c \in Running
  BY <1>1 DEF DeskType
<1> DEFINE left == [c EXCEPT !.awaited = FALSE]
<1>4. /\ left \in Running /\ left.tool = c.tool /\ left.id = c.id /\ left.content = c.content
  BY <1>3 DEF Running
<1>5. desk' = [desk EXCEPT !.running = (@ \ {c}) \cup {left}, !.late = @ + 1]
  BY <1>2 DEF Abandon
<1> HIDE DEF left
<1>6. /\ desk'.running = (desk.running \ {c}) \cup {left}
      /\ desk'.late = desk.late + 1 /\ desk.late \in Nat
  BY <1>1, <1>5 DEF DeskType
<1>7. DeskType'
  <2>1. desk' = [records |-> desk.records, calls |-> desk.calls, trace |-> desk.trace,
                 running |-> desk'.running, shown |-> desk.shown, done |-> desk.done,
                 late |-> desk'.late]
    BY <1>1, <1>5, <1>6 DEF DeskType
  <2>2. desk'.running \subseteq Running /\ desk'.late \in Nat
    BY <1>1, <1>4, <1>6 DEF DeskType
  <2> QED
    BY <1>1, <2>1, <2>2 DEF DeskType
<1>8. Fitting(c) <=> Fitting(left)
  BY <1>4 DEF Fitting
<1>9. \A d \in desk'.running : Fitting(d)
  BY <1>1, <1>6, <1>8
<1>10. desk'.late # 0
  BY <1>6
<1> QED
  BY <1>1, <1>7, <1>9, <1>10 DEF DeskInv, AgentModes

\* What a call changes and tells is of the right kind.
LEMMA EffectsAreTyped ==
    ASSUME DeskType, NEW c \in Running, Fitting(c),
           NEW effect \in BOOLEAN, NEW isError \in BOOLEAN, NEW records,
           effect \/ ~isError => (c.id # None => Exists(c.id)),
           effect /\ Does[c.tool] = "create" => \E i \in Ids : Unused(i),
           records = IF effect THEN Changed(c) ELSE desk.records
    PROVE  /\ records \in [Ids -> Contents \cup {None}]
           /\ ~isError => Tells(c, records) \in SUBSET Pairs
<1>1. /\ desk.records \in [Ids -> Contents \cup {None}] /\ c.tool \in Tools
      /\ Does[c.tool] \in {"find", "get", "update", "create", "delete"}
  BY EvaluationAssumption DEF DeskType, Running
<1>2. Changed(c) \in [Ids -> Contents \cup {None}] \/ ~effect
  <2>1. CASE Does[c.tool] = "update"
    <3>1. Changed(c) = [desk.records EXCEPT ![c.id] = c.content] /\ c.content \in Contents
      BY <2>1 DEF Changed, Fitting
    <3> QED
      BY <1>1, <3>1
  <2>2. CASE Does[c.tool] = "delete"
    <3>1. Changed(c) = [desk.records EXCEPT ![c.id] = None]
      BY <2>2 DEF Changed
    <3> QED
      BY <1>1, <3>1
  <2>3. CASE Does[c.tool] = "create"
    <3>1. /\ Changed(c) = [desk.records EXCEPT ![CHOOSE i \in Ids : Unused(i)] = c.content]
          /\ c.content \in Contents
      BY <2>3 DEF Changed, Fitting
    <3> QED
      BY <1>1, <3>1
  <2>4. CASE Does[c.tool] \in {"find", "get"}
    BY <1>1, <2>4 DEF Changed
  <2> QED
    BY <1>1, <2>1, <2>2, <2>3, <2>4
<1>3. records \in [Ids -> Contents \cup {None}]
  BY <1>1, <1>2
<1>4. Tells(c, records) \in SUBSET Pairs
  <2>1. CASE Does[c.tool] = "find"
    BY <2>1 DEF Tells, Pairs
  <2>2. CASE Does[c.tool] = "delete"
    BY <2>2 DEF Tells, Pairs, Fitting
  <2>3. CASE Does[c.tool] = "create"
    <3>1. c.content \in Contents
      BY <2>3 DEF Fitting
    <3> QED
      BY <2>3, <3>1 DEF Tells, Pairs
  <2>4. CASE Does[c.tool] \in {"get", "update"}
    <3>1. c.id \in Ids
      BY <2>4 DEF Fitting
    <3>2. Tells(c, records) = {<<c.id, records[c.id]>>}
      BY <2>4 DEF Tells
    <3>3. records[c.id] \in Contents \cup {None}
      BY <1>3, <3>1
    <3> QED
      BY <3>1, <3>2, <3>3 DEF Pairs
  <2> QED
    BY <1>1, <2>1, <2>2, <2>3, <2>4
<1> QED
  BY <1>3, <1>4

\* One result more.
LEMMA SeenAfterOne ==
    ASSUME NEW calls \in Seq(Entries), NEW e \in Entries, NEW id
    PROVE  /\ \A n \in 0..Len(calls) : Seen(Append(calls, e), n, id) <=> Seen(calls, n, id)
           /\ Seen(Append(calls, e), Len(calls) + 1, id) <=>
                 Seen(calls, Len(calls), id) \/ (~e.isError /\ Shows(e.result, id))
<1>1. /\ Len(calls) \in Nat /\ Append(calls, e)[Len(calls) + 1] = e
      /\ \A j \in 1..Len(calls) : Append(calls, e)[j] = calls[j]
  OBVIOUS
<1>2. 1..(Len(calls) + 1) = 1..Len(calls) \cup {Len(calls) + 1}
  BY <1>1
<1>3. \A n \in 0..Len(calls) : 1..n \subseteq 1..Len(calls)
  BY <1>1
<1>4. \A n \in 0..Len(calls) : Seen(Append(calls, e), n, id) <=> Seen(calls, n, id)
  <2> TAKE n \in 0..Len(calls)
  <2>1. \A j \in 1..n : Append(calls, e)[j] = calls[j]
    BY <1>1, <1>3
  <2> QED
    BY <2>1 DEF Seen
<1>5. Seen(Append(calls, e), Len(calls) + 1, id) <=>
         Seen(calls, Len(calls), id) \/ (~e.isError /\ Shows(e.result, id))
  BY <1>1, <1>2 DEF Seen
<1> QED
  BY <1>4, <1>5

\* A call ends: what is known after it.
LEMMA KnownAfterOne ==
    ASSUME DeskType, KnownInv, NEW c \in desk.running, NEW e \in Entries, NEW d, NEW effect \in BOOLEAN,
           d = [call |-> e, effect |-> effect, known |-> e.isError \/ c.known],
           e.tool = c.tool, e.id = c.id, e.content = c.content, e.before = c.before,
           e.isError => e.result = {},
           effect => Effect[c.tool] # "read", ~e.isError => effect = (Effect[c.tool] # "read"),
           desk'.trace = Append(desk.trace, e), desk'.done = Append(desk.done, d),
           desk'.running = desk.running \ {c},
           desk'.shown = desk.shown \cup {pair[1] : pair \in e.result}
    PROVE  KnownInv'
<1> DEFINE n == Len(desk.trace)
<1>1. /\ desk.trace \in Seq(Entries) /\ n \in Nat /\ n = Len(desk.done) /\ desk.running \subseteq Running
      /\ desk.done \in Seq(Outcomes)
  BY DEF DeskType, KnownInv
<1>2. /\ Len(desk'.trace) = n + 1 /\ Len(desk'.done) = n + 1
      /\ \A i \in 1..n : desk'.trace[i] = desk.trace[i] /\ desk'.done[i] = desk.done[i]
      /\ desk'.trace[n + 1] = e /\ desk'.done[n + 1] = d
  BY <1>1
<1>3. \A id : /\ \A k \in 0..n : Seen(desk'.trace, k, id) <=> Seen(desk.trace, k, id)
              /\ Seen(desk'.trace, n + 1, id) <=>
                    Seen(desk.trace, n, id) \/ (~e.isError /\ Shows(e.result, id))
  <2> TAKE id
  <2>1. PICK calls : calls = desk.trace
    OBVIOUS
  <2>2. calls \in Seq(Entries)
    BY <1>1, <2>1
  <2>3. /\ \A k \in 0..Len(calls) : Seen(Append(calls, e), k, id) <=> Seen(calls, k, id)
        /\ Seen(Append(calls, e), Len(calls) + 1, id) <=>
              Seen(calls, Len(calls), id) \/ (~e.isError /\ Shows(e.result, id))
    BY <2>2, SeenAfterOne
  <2> QED
    BY <2>1, <2>3
<1>4. \A k \in desk.running : k.before \in 0..n
  BY <1>1 DEF KnownInv, Running
<1> HIDE DEF n
<1>5. \A id \in Ids : id \in desk'.shown <=> Seen(desk'.trace, n + 1, id)
  <2> TAKE id \in Ids
  <2>1. id \in desk'.shown <=> id \in desk.shown \/ Shows(e.result, id)
    BY DEF Shows
  <2>2. id \in desk.shown <=> Seen(desk.trace, n, id)
    BY DEF KnownInv, n
  <2>3. ~(e.isError /\ Shows(e.result, id))
    BY DEF Shows
  <2> QED
    BY <1>3, <2>1, <2>2, <2>3
<1>6. \A k \in desk'.running :
         /\ Fitting(k) /\ k.before <= n + 1
         /\ k.known <=> (k.id # None => Seen(desk'.trace, k.before, k.id))
  <2> TAKE k \in desk'.running
  <2>1. k \in desk.running /\ k.before \in 0..n
    BY <1>4
  <2>2. /\ Fitting(k)
        /\ k.known <=> (k.id # None => Seen(desk.trace, k.before, k.id))
    BY <2>1 DEF KnownInv
  <2>3. Seen(desk'.trace, k.before, k.id) <=> Seen(desk.trace, k.before, k.id)
    BY <1>3, <2>1
  <2>4. k.before <= n + 1
    BY <1>1, <2>1
  <2>5. k.known <=> (k.id # None => Seen(desk'.trace, k.before, k.id))
    BY <2>2, <2>3
  <2> QED
    BY <2>2, <2>4, <2>5
<1>7. \A i \in 1..n :
         LET a == desk'.trace[i]
             b == desk'.done[i]
         IN /\ b.call = a /\ Fitting(a) /\ a.before < i
            /\ b.known <=> a.isError \/ (a.id # None => Seen(desk'.trace, a.before, a.id))
            /\ b.effect => Effect[a.tool] # "read"
            /\ ~a.isError => (b.effect <=> Effect[a.tool] # "read")
  <2> TAKE i \in 1..n
  <2>1. i \in 1..Len(desk.trace) /\ desk'.trace[i] = desk.trace[i] /\ desk'.done[i] = desk.done[i]
    BY <1>2 DEF n
  <2>2. desk.trace[i].before \in 0..n
    <3>1. desk.trace[i] \in Entries
      BY <1>1, <2>1
    <3>2. desk.trace[i].before < i /\ i <= n /\ i \in Nat
      BY <1>1, <2>1 DEF KnownInv
    <3> QED
      BY <1>1, <3>1, <3>2 DEF Entries
  <2>3. Seen(desk'.trace, desk.trace[i].before, desk.trace[i].id)
           <=> Seen(desk.trace, desk.trace[i].before, desk.trace[i].id)
    BY <1>3, <2>2
  <2> QED
    BY <2>1, <2>3 DEF KnownInv
<1>8. c.before \in 0..n /\ Fitting(c) /\ (c.known <=> (c.id # None => Seen(desk.trace, c.before, c.id)))
  BY <1>4 DEF KnownInv
<1>9. Fitting(e) /\ e.before < n + 1
  BY <1>1, <1>8 DEF Fitting
<1>10. d.known <=> e.isError \/ (e.id # None => Seen(desk'.trace, e.before, e.id))
  BY <1>3, <1>8
<1>11. d.call = e /\ d.effect = effect
  OBVIOUS
<1>12. 1..(n + 1) = 1..n \cup {n + 1}
  BY <1>1
<1> QED
  BY <1>2, <1>5, <1>6, <1>7, <1>9, <1>10, <1>11, <1>12 DEF KnownInv

\* One call more that changed something, or did not.
LEMMA ChangesAfterOne ==
    ASSUME NEW D, NEW done \in Seq(D), NEW d \in D, d.effect \in BOOLEAN
    PROVE  /\ Changes(done) \subseteq 1..Len(done)
           /\ \A i \in Changes(done) : Append(done, d)[i] = done[i]
           /\ Append(done, d)[Len(done) + 1] = d
           /\ d.effect => Changes(Append(done, d)) = Changes(done) \cup {Len(done) + 1}
           /\ ~d.effect => Changes(Append(done, d)) = Changes(done)
<1>1. Len(done) \in Nat /\ DOMAIN done = 1..Len(done)
  OBVIOUS
<1>2. /\ Append(done, d)[Len(done) + 1] = d
      /\ \A i \in 1..Len(done) : Append(done, d)[i] = done[i]
      /\ DOMAIN Append(done, d) = 1..(Len(done) + 1)
  OBVIOUS
<1>3. 1..(Len(done) + 1) = 1..Len(done) \cup {Len(done) + 1}
  BY <1>1
<1>4. Changes(done) \subseteq 1..Len(done)
  BY <1>1 DEF Changes
<1>5. d.effect => Changes(Append(done, d)) = Changes(done) \cup {Len(done) + 1}
  BY <1>1, <1>2, <1>3 DEF Changes
<1>6. ~d.effect => Changes(Append(done, d)) = Changes(done)
  BY <1>1, <1>2, <1>3 DEF Changes
<1> QED
  BY <1>2, <1>4, <1>5, <1>6

\* What a call that ends does to the records and to the list of what was done.
Ended(c, d) ==
    /\ c \in Running /\ Fitting(c) /\ d \in Outcomes
    /\ d.call.tool = c.tool /\ d.call.id = c.id /\ d.call.content = c.content
    /\ desk'.done = Append(desk.done, d)
    /\ desk'.records = IF d.effect THEN Changed(c) ELSE desk.records
    /\ d.effect => /\ Effect[c.tool] # "read"
                   /\ c.id # None => Exists(c.id)
                   /\ Does[c.tool] = "create" => \E i \in Ids : Unused(i)

\* What of it the changes are.
LEMMA EndedChanges ==
    ASSUME DeskType, NEW c, NEW d, Ended(c, d)
    PROVE  /\ Len(desk.done) \in Nat
           /\ \A i \in Changes(desk.done) :
                 i \in 1..Len(desk.done) /\ i <= Len(desk.done) + 1 /\ desk'.done[i] = desk.done[i]
           /\ desk'.done[Len(desk.done) + 1] = d
           /\ d.effect => Changes(desk'.done) = Changes(desk.done) \cup {Len(desk.done) + 1}
           /\ ~d.effect => Changes(desk'.done) = Changes(desk.done) /\ desk'.records = desk.records
<1>1. PICK done : done = desk.done
  OBVIOUS
<1>2. done \in Seq(Outcomes) /\ d \in Outcomes /\ d.effect \in BOOLEAN
  BY <1>1 DEF DeskType, Ended, Outcomes
<1>3. Len(done) \in Nat
  BY <1>2
<1>4. /\ Changes(done) \subseteq 1..Len(done)
      /\ \A i \in Changes(done) : Append(done, d)[i] = done[i]
      /\ Append(done, d)[Len(done) + 1] = d
      /\ d.effect => Changes(Append(done, d)) = Changes(done) \cup {Len(done) + 1}
      /\ ~d.effect => Changes(Append(done, d)) = Changes(done)
  BY <1>2, ChangesAfterOne
<1>5. desk'.done = Append(done, d) /\ (~d.effect => desk'.records = desk.records)
  BY <1>1 DEF Ended
<1>6. \A i \in Changes(done) : i \in 1..Len(done) /\ i <= Len(done) + 1
  BY <1>3, <1>4
<1> QED
  BY <1>1, <1>3, <1>4, <1>5, <1>6

\* Updates of one record leave what the last of them wrote.
LEMMA UpdatesAfterOne ==
    ASSUME DeskType, UpdateInv, NEW c, NEW d, Ended(c, d)
    PROVE  UpdateInv'
<1> DEFINE n == Len(desk.done) + 1
<1>1. /\ Len(desk.done) \in Nat
      /\ \A i \in Changes(desk.done) : i <= n /\ desk'.done[i] = desk.done[i]
      /\ desk'.done[n] = d
      /\ d.effect => Changes(desk'.done) = Changes(desk.done) \cup {n}
      /\ ~d.effect => Changes(desk'.done) = Changes(desk.done) /\ desk'.records = desk.records
  BY EndedChanges
<1>2. n <= n
  BY <1>1
<1> HIDE DEF n
<1> SUFFICES ASSUME NEW t \in Ids,
                    \A i \in Changes(desk'.done) :
                        Does[desk'.done[i].call.tool] = "update" /\ desk'.done[i].call.id = t
             PROVE  \/ Changes(desk'.done) = {} /\ desk'.records = Business
                    \/ \E i \in Changes(desk'.done) :
                          /\ \A j \in Changes(desk'.done) : j <= i
                          /\ desk'.records = [Business EXCEPT ![t] = desk'.done[i].call.content]
  BY DEF UpdateInv
<1>3. Changes(desk.done) \subseteq Changes(desk'.done)
  BY <1>1, EvaluationAssumption DEF Ended, Outcomes
<1>4. \/ Changes(desk.done) = {} /\ desk.records = Business
      \/ \E i \in Changes(desk.done) :
            /\ \A j \in Changes(desk.done) : j <= i
            /\ desk.records = [Business EXCEPT ![t] = desk.done[i].call.content]
  <2>1. \A i \in Changes(desk.done) :
           Does[desk.done[i].call.tool] = "update" /\ desk.done[i].call.id = t
    BY <1>1, <1>3
  <2> QED
    BY <2>1 DEF UpdateInv
<1>5. CASE d.effect
  <2>0. n \in Changes(desk'.done) /\ desk'.done[n] = d
    BY <1>1, <1>5
  <2>1. Does[c.tool] = "update" /\ c.id = t /\ n \in Changes(desk'.done)
    BY <2>0 DEF Ended
  <2>2. desk'.records = [desk.records EXCEPT ![t] = c.content]
    BY <1>5, <2>1 DEF Ended, Changed
  <2>3. desk.records = Business \/ \E x : desk.records = [Business EXCEPT ![t] = x]
    BY <1>4
  <2>4. desk'.records = [Business EXCEPT ![t] = c.content]
    BY <2>2, <2>3, EvaluationAssumption
  <2>5. desk'.done[n].call.content = c.content
    BY <1>1 DEF Ended
  <2>6. \A j \in Changes(desk'.done) : j <= n
    BY <1>1, <1>2, <1>5
  <2> QED
    BY <2>1, <2>4, <2>5, <2>6
<1>6. CASE ~d.effect
  BY <1>1, <1>4, <1>6
<1> QED
  BY <1>5, <1>6

\* A record is deleted once.
LEMMA DeletionsAfterOne ==
    ASSUME DeskType, DeleteInv, NEW c, NEW d, Ended(c, d)
    PROVE  DeleteInv'
<1> DEFINE n == Len(desk.done) + 1
<1>1. /\ Len(desk.done) \in Nat
      /\ \A i \in Changes(desk.done) : i <= n /\ desk'.done[i] = desk.done[i]
      /\ desk'.done[n] = d
      /\ d.effect => Changes(desk'.done) = Changes(desk.done) \cup {n}
      /\ ~d.effect => Changes(desk'.done) = Changes(desk.done) /\ desk'.records = desk.records
  BY EndedChanges
<1> HIDE DEF n
<1> SUFFICES ASSUME NEW t \in Ids,
                    \A i \in Changes(desk'.done) :
                        Does[desk'.done[i].call.tool] = "delete" /\ desk'.done[i].call.id = t
             PROVE  \/ Changes(desk'.done) = {} /\ desk'.records = Business
                    \/ \E i \in Changes(desk'.done) :
                          /\ Changes(desk'.done) = {i}
                          /\ desk'.records = [Business EXCEPT ![t] = None]
  BY DEF DeleteInv
<1>2. Changes(desk.done) \subseteq Changes(desk'.done)
  BY <1>1, EvaluationAssumption DEF Ended, Outcomes
<1>3. \/ Changes(desk.done) = {} /\ desk.records = Business
      \/ desk.records = [Business EXCEPT ![t] = None]
  <2>1. \A i \in Changes(desk.done) :
           Does[desk.done[i].call.tool] = "delete" /\ desk.done[i].call.id = t
    BY <1>1, <1>2
  <2> QED
    BY <2>1 DEF DeleteInv
<1>4. CASE d.effect
  <2>1. Does[c.tool] = "delete" /\ c.id = t /\ n \in Changes(desk'.done)
    BY <1>1, <1>4, ZenonT(60) DEF Ended
  <2>2. desk'.records = [desk.records EXCEPT ![t] = None]
    BY <1>4, <2>1 DEF Ended, Changed
  <2>3. desk.records[t] # None
    <3>1. t # None
      BY EvaluationAssumption
    <3> QED
      BY <1>4, <2>1, <3>1 DEF Ended, Exists
  <2>4. desk.records # [Business EXCEPT ![t] = None]
    BY <2>3, EvaluationAssumption
  <2> QED
    BY <1>1, <1>3, <1>4, <2>2, <2>4
<1>5. CASE ~d.effect
  <2>1. \A i \in Changes(desk.done) :
           Does[desk.done[i].call.tool] = "delete" /\ desk.done[i].call.id = t
    BY <1>1, <1>2
  <2> QED
    BY <1>1, <1>5, <2>1 DEF DeleteInv
<1> QED
  BY <1>4, <1>5

\* Each creation adds a record that was not there.
LEMMA CreationsAfterOne ==
    ASSUME DeskType, KnownInv, CreateInv, NEW c, NEW d, Ended(c, d)
    PROVE  CreateInv'
<1> DEFINE n == Len(desk.done) + 1
<1>1. /\ Len(desk.done) \in Nat
      /\ \A i \in Changes(desk.done) : i \in 1..Len(desk.done) /\ desk'.done[i] = desk.done[i]
      /\ desk'.done[n] = d
      /\ d.effect => Changes(desk'.done) = Changes(desk.done) \cup {n}
      /\ ~d.effect => Changes(desk'.done) = Changes(desk.done) /\ desk'.records = desk.records
  BY EndedChanges
<1>2. n \notin Changes(desk.done)
  BY <1>1
<1> HIDE DEF n
<1> SUFFICES ASSUME \A i \in Changes(desk'.done) : Does[desk'.done[i].call.tool] = "create"
             PROVE  \E made \in [Changes(desk'.done) -> Ids] :
                       /\ \A i, j \in Changes(desk'.done) : made[i] = made[j] => i = j
                       /\ \A i \in Changes(desk'.done) :
                             /\ Business[made[i]] = None
                             /\ desk'.records[made[i]] = desk'.done[i].call.content
                       /\ \A id \in Ids : (\A i \in Changes(desk'.done) : made[i] # id)
                             => desk'.records[id] = Business[id]
  BY DEF CreateInv
<1>3. Changes(desk.done) \subseteq Changes(desk'.done)
  BY <1>1, EvaluationAssumption DEF Ended, Outcomes
<1>4. \A i \in Changes(desk.done) : Does[desk.done[i].call.tool] = "create"
  BY <1>1, <1>3
<1>5. PICK made \in [Changes(desk.done) -> Ids] :
         /\ \A i, j \in Changes(desk.done) : made[i] = made[j] => i = j
         /\ \A i \in Changes(desk.done) : /\ Business[made[i]] = None
                                          /\ desk.records[made[i]] = desk.done[i].call.content
         /\ \A id \in Ids : (\A i \in Changes(desk.done) : made[i] # id)
                               => desk.records[id] = Business[id]
  BY <1>4 DEF CreateInv
<1>6. CASE d.effect
  <2>0. Does[c.tool] = "create"
    <3>1. n \in Changes(desk'.done) /\ desk'.done[n] = d
      BY <1>1, <1>6
    <3> QED
      BY <3>1 DEF Ended
  <2>1. PICK new \in Ids : Unused(new) /\ new = CHOOSE i \in Ids : Unused(i)
    <3>1. \E i \in Ids : Unused(i)
      BY <1>6, <2>0 DEF Ended
    <3> QED
      BY <3>1
  <2>2. desk'.records = [desk.records EXCEPT ![new] = c.content]
    <3>1. Does[c.tool] = "create"
      BY <2>0
    <3>2. Changed(c) = [desk.records EXCEPT ![CHOOSE i \in Ids : Unused(i)] = c.content]
      BY <3>1 DEF Changed
    <3> QED
      BY <1>6, <2>1, <3>2 DEF Ended
  <2>3. desk.records[new] = None /\ Business[new] = None
    BY <2>1 DEF Unused, Exists
  <2>4. \A i \in Changes(desk.done) : made[i] # new
    <3> TAKE i \in Changes(desk.done)
    <3>1. i \in 1..Len(desk.trace) /\ desk.done[i].call = desk.trace[i] /\ Fitting(desk.trace[i])
      BY <1>1 DEF KnownInv
    <3>2. desk.done[i].call.content # None
      BY <1>4, <3>1, EvaluationAssumption DEF Fitting
    <3> QED
      BY <1>5, <2>3, <3>2
  <2> DEFINE more == [i \in Changes(desk'.done) |-> IF i = n THEN new ELSE made[i]]
  <2>5. more \in [Changes(desk'.done) -> Ids]
    BY <1>1, <1>5, <1>6
  <2>6. more[n] = new /\ \A i \in Changes(desk.done) : more[i] = made[i]
    BY <1>1, <1>2, <1>6
  <2> HIDE DEF more
  <2>7. Changes(desk'.done) = Changes(desk.done) \cup {n}
    BY <1>1, <1>6
  <2>8. \A i, j \in Changes(desk'.done) : more[i] = more[j] => i = j
    BY <1>5, <2>4, <2>6, <2>7
  <2>9. desk.records \in [Ids -> Contents \cup {None}]
    BY DEF DeskType
  <2>10. \A i \in Changes(desk'.done) : /\ Business[more[i]] = None
                                        /\ desk'.records[more[i]] = desk'.done[i].call.content
    <3>1. Business[more[n]] = None /\ desk'.records[more[n]] = desk'.done[n].call.content
      BY <1>1, <2>2, <2>3, <2>6, <2>9 DEF Ended
    <3>2. \A i \in Changes(desk.done) : /\ Business[more[i]] = None
                                        /\ desk'.records[more[i]] = desk'.done[i].call.content
      BY <1>1, <1>5, <2>2, <2>4, <2>6, <2>9
    <3> QED
      BY <2>7, <3>1, <3>2
  <2>11. ASSUME NEW id \in Ids, \A i \in Changes(desk'.done) : more[i] # id
         PROVE  desk'.records[id] = Business[id]
    <3>1. id # new /\ \A i \in Changes(desk.done) : made[i] # id
      BY <2>6, <2>7, <2>11
    <3> QED
      BY <1>5, <2>2, <2>9, <3>1
  <2> QED
    BY <2>5, <2>8, <2>10, <2>11
<1>7. CASE ~d.effect
  <2>1. Changes(desk'.done) = Changes(desk.done) /\ desk'.records = desk.records
    BY <1>1, <1>7
  <2>2. \A i \in Changes(desk'.done) : /\ Business[made[i]] = None
                                       /\ desk'.records[made[i]] = desk'.done[i].call.content
    BY <1>1, <1>5, <2>1
  <2>3. made \in [Changes(desk'.done) -> Ids]
    BY <1>5, <2>1
  <2>4. \A i, j \in Changes(desk'.done) : made[i] = made[j] => i = j
    BY <1>5, <2>1
  <2>5. \A id \in Ids : (\A i \in Changes(desk'.done) : made[i] # id)
                           => desk'.records[id] = Business[id]
    BY <1>5, <2>1
  <2> QED
    BY <2>2, <2>3, <2>4, <2>5
<1> QED
  BY <1>6, <1>7

\* A call ends.
LEMMA KeepCallEnds ==
    ASSUME DeskInv, CallEnds
    PROVE  DeskInv'
<1>1. /\ mode \in AgentModes /\ mode \in {"direct", "recorded", "traced"} /\ mode' = mode /\ DeskType
      /\ \A c \in desk.running : Fitting(c)
      /\ desk.late = 0 => JoinedInv
  BY DEF CallEnds, DeskInv, AgentModes
<1>0. PICK c \in desk.running, isError \in BOOLEAN, effect \in BOOLEAN, traced \in BOOLEAN :
         Ends(c, isError, effect, traced)
  BY DEF CallEnds
<1> DEFINE records == IF effect THEN Changed(c) ELSE desk.records
           result == IF isError THEN {} ELSE Tells(c, records)
           entry == [tool |-> c.tool, id |-> c.id, content |-> c.content, before |-> c.before,
                     isError |-> isError, result |-> result]
           d == [call |-> entry, effect |-> effect, known |-> isError \/ c.known]
           pushed == IF mode = "direct" THEN Append(desk.calls, entry) ELSE desk.calls
           noted == IF traced THEN Append(desk.trace, entry) ELSE desk.trace
           seen == IF c.awaited THEN desk.shown \cup {pair[1] : pair \in result} ELSE desk.shown
<1>2. /\ records = IF effect THEN Changed(c) ELSE desk.records
      /\ result = IF isError THEN {} ELSE Tells(c, records)
      /\ entry = [tool |-> c.tool, id |-> c.id, content |-> c.content, before |-> c.before,
                  isError |-> isError, result |-> result]
      /\ d = [call |-> entry, effect |-> effect, known |-> isError \/ c.known]
      /\ pushed = IF mode = "direct" THEN Append(desk.calls, entry) ELSE desk.calls
      /\ noted = IF traced THEN Append(desk.trace, entry) ELSE desk.trace
      /\ seen = IF c.awaited THEN desk.shown \cup {pair[1] : pair \in result} ELSE desk.shown
      /\ IF mode = "traced" THEN ~traced ELSE c.awaited => traced
      /\ ~isError => effect = (Effect[c.tool] # "read")
      /\ effect => Effect[c.tool] # "read"
      /\ (~isError \/ effect) /\ c.id # None => Exists(c.id)
      /\ effect /\ Does[c.tool] = "create" => \E i \in Ids : Unused(i)
      /\ desk' = [desk EXCEPT !.records = records, !.running = @ \ {c},
                    !.calls = pushed, !.trace = noted, !.shown = seen, !.done = Append(@, d)]
  BY <1>0 DEF Ends
<1> HIDE DEF records, result, entry, d, pushed, noted, seen
<1>3. /\ desk'.records = records /\ desk'.running = desk.running \ {c}
      /\ desk'.calls = pushed /\ desk'.trace = noted /\ desk'.shown = seen
      /\ desk'.done = Append(desk.done, d) /\ desk'.late = desk.late
  BY <1>1, <1>2 DEF DeskType
<1>4. c \in Running /\ Fitting(c) /\ c.known \in BOOLEAN
  BY <1>1 DEF DeskType, Running
<1>5. /\ records \in [Ids -> Contents \cup {None}]
      /\ ~isError => Tells(c, records) \in SUBSET Pairs
  <2>1. effect \/ ~isError => (c.id # None => Exists(c.id))
    BY <1>2
  <2> QED
    BY <1>1, <1>2, <1>4, <2>1, EffectsAreTyped
<1>6. result \in SUBSET Pairs
  BY <1>2, <1>5
<1>7. entry \in Entries /\ entry.result = result /\ entry.isError = isError
      /\ entry.tool = c.tool /\ entry.id = c.id /\ entry.content = c.content /\ entry.before = c.before
  BY <1>2, <1>4, <1>6 DEF Entries, Running
<1>8. d \in Outcomes /\ d.call = entry /\ d.effect = effect
  BY <1>2, <1>4, <1>7 DEF Outcomes
<1>9. DeskType'
  <2>1. {pair[1] : pair \in result} \subseteq Ids
    BY <1>6 DEF Pairs
  <2>2. pushed \in Seq(Entries) /\ noted \in Seq(Entries) /\ seen \subseteq Ids
    BY <1>1, <1>2, <1>7, <2>1 DEF DeskType
  <2>3. Append(desk.done, d) \in Seq(Outcomes)
    BY <1>1, <1>8 DEF DeskType
  <2>4. desk' = [records |-> records, calls |-> pushed, trace |-> noted,
                 running |-> desk.running \ {c}, shown |-> seen, done |-> Append(desk.done, d),
                 late |-> desk.late]
    BY <1>1, <1>2 DEF DeskType
  <2>5. desk.running \ {c} \subseteq Running /\ desk.late \in Nat
    BY <1>1 DEF DeskType
  <2> QED
    BY <1>5, <2>2, <2>3, <2>4, <2>5 DEF DeskType
<1>10. \A k \in desk'.running : Fitting(k)
  BY <1>1, <1>3
<1>11. ASSUME desk.late = 0
       PROVE  JoinedInv'
  <2>1. /\ KnownInv /\ UpdateInv /\ DeleteInv /\ CreateInv /\ desk.calls = desk.trace
        /\ mode = "direct" /\ c.awaited /\ \A k \in desk.running : k.awaited
    BY <1>1, <1>11 DEF JoinedInv
  <2>2. /\ desk'.trace = Append(desk.trace, entry) /\ desk'.calls = Append(desk.trace, entry)
        /\ desk'.shown = desk.shown \cup {pair[1] : pair \in entry.result}
    BY <1>2, <1>3, <1>7, <2>1
  <2>3. KnownInv'
    <3>1. entry.isError => entry.result = {}
      BY <1>2, <1>7
    <3>2. d = [call |-> entry, effect |-> effect, known |-> entry.isError \/ c.known]
      BY <1>2, <1>7
    <3>3. /\ ~entry.isError => effect = (Effect[c.tool] # "read")
          /\ effect => Effect[c.tool] # "read"
      BY <1>2, <1>7
    <3> QED
      BY <1>1, <1>3, <1>7, <2>1, <2>2, <3>1, <3>2, <3>3, KnownAfterOne
  <2>4. Ended(c, d)
    BY <1>2, <1>3, <1>4, <1>7, <1>8 DEF Ended
  <2>5. UpdateInv' /\ DeleteInv' /\ CreateInv'
    BY <1>1, <2>1, <2>4, UpdatesAfterOne, DeletionsAfterOne, CreationsAfterOne
  <2>6. desk'.calls = desk'.trace /\ \A k \in desk'.running : k.awaited /\ mode' = "direct"
    BY <1>1, <1>3, <2>1, <2>2
  <2> QED
    BY <2>3, <2>5, <2>6 DEF JoinedInv
<1> QED
  BY <1>1, <1>3, <1>9, <1>10, <1>11 DEF DeskInv

\* Every step of an agent, and every other one, keeps what is known of the desk.
LEMMA DeskInductive == DeskInv /\ [EvaluationNext]_allVars => DeskInv'
<1> SUFFICES ASSUME DeskInv, [EvaluationNext]_allVars
             PROVE  DeskInv'
  OBVIOUS
<1>1. ASSUME UNCHANGED desk, (mode' \in AgentModes) <=> (mode \in AgentModes),
             mode' \in {"core", "joint"} \cup AgentModes,
             mode' = mode \/ \A c \in desk.running : ~c.awaited
      PROVE  DeskInv'
  <2>1. CASE mode' \in AgentModes
    <3>1. DeskType /\ (\A c \in desk.running : Fitting(c)) /\ (desk.late = 0 => JoinedInv)
      BY <1>1, <2>1 DEF DeskInv
    <3>2. DeskType' /\ (\A c \in desk'.running : Fitting(c))
      BY <1>1, <3>1 DEF DeskType
    <3>3. ASSUME desk.late = 0
          PROVE  JoinedInv'
      <4>1. /\ KnownInv /\ UpdateInv /\ DeleteInv /\ CreateInv /\ desk.calls = desk.trace
            /\ \A c \in desk.running : c.awaited /\ mode = "direct"
        BY <3>1, <3>3 DEF JoinedInv
      <4>2. KnownInv'
        BY <1>1, <4>1 DEF KnownInv
      <4>3. UpdateInv' /\ DeleteInv' /\ CreateInv'
        BY <1>1, <4>1, RecordsUndisturbed
      <4>4. desk'.calls = desk'.trace /\ \A c \in desk'.running : c.awaited /\ mode' = "direct"
        BY <1>1, <4>1
      <4> QED
        BY <4>2, <4>3, <4>4 DEF JoinedInv
    <3> QED
      BY <1>1, <3>2, <3>3 DEF DeskInv
  <2>2. CASE mode' \notin AgentModes
    BY <1>1, <2>2 DEF DeskInv
  <2> QED
    BY <2>1, <2>2
<1>2. CASE Core \/ Preparation \/ UNCHANGED allVars
  <2>1. UNCHANGED desk /\ mode' = mode
    BY <1>2 DEF Core, Preparation, Retry, PrepareEnds, PrepareAgain, allVars, evaluation
  <2> QED
    BY <1>1, <2>1 DEF DeskInv
<1>3. CASE TakeRecord
  <2>1. /\ UNCHANGED desk /\ mode \in AgentModes /\ mode' \in AgentModes
        /\ \A c \in desk.running : ~c.awaited
    BY <1>3 DEF TakeRecord, AgentModes
  <2> QED
    BY <1>1, <2>1
<1> QED
  BY <1>2, <1>3, KeepCall, KeepCallEnds, KeepGiveUp DEF EvaluationNext, Agent

\* Where every call was waited for, the records, and what an agent knows, are what the trace
\* tells, and the provider's calls are those of the trace.
THEOREM DeskInvariance == EvaluationSpec => []DeskInv
BY DeskInitially, DeskInductive, PTL DEF EvaluationSpec

\* A set of natural numbers has a least element.
LEMMA LeastOf ==
    ASSUME NEW S \in SUBSET Nat, S # {}
    PROVE  \E x \in S : \A y \in S : x <= y
<1>1. PICK x \in S : \A y \in S : ~(<<y, x>> \in OpToRel(<, Nat))
  BY NatLessThanWellFounded, WFMin, Zenon
<1>2. \A y \in S : ~(y < x)
  BY <1>1 DEF OpToRel
<1> QED
  BY <1>2

\* The first call that fits a step, given what fits those it depends on.
First(calls, step, m) ==
    LET fit == {i \in DOMAIN calls : Fits(calls, step, i, m)} IN
    IF fit = {} THEN None ELSE CHOOSE i \in fit : \A j \in fit : i <= j

\* Steps that depend on earlier ones.
Ordered(steps) == DOMAIN steps = 1..Len(steps) /\ Len(steps) \in Nat
                  /\ \A k \in DOMAIN steps : steps[k].dependsOn \subseteq 1..k - 1

\* It is there, or no call fits.
LEMMA FirstIsFirst ==
    ASSUME NEW calls \in Seq(Entries), NEW step, NEW m
    PROVE  /\ First(calls, step, m) = None => \A i \in DOMAIN calls : ~Fits(calls, step, i, m)
           /\ First(calls, step, m) # None =>
                 /\ First(calls, step, m) \in DOMAIN calls
                 /\ Fits(calls, step, First(calls, step, m), m)
           /\ \A i \in DOMAIN calls : Fits(calls, step, i, m) =>
                 First(calls, step, m) # None /\ First(calls, step, m) <= i
<1> DEFINE fit == {i \in DOMAIN calls : Fits(calls, step, i, m)}
           least == CHOOSE i \in fit : \A j \in fit : i <= j
<1>1. First(calls, step, m) = IF fit = {} THEN None ELSE least
  BY DEF First
<1>2. fit \in SUBSET Nat /\ None \notin fit
  BY RankingAssumption
<1>3. fit # {} => least \in fit /\ \A j \in fit : least <= j
  BY <1>2, LeastOf
<1> HIDE DEF least
<1> QED
  BY <1>1, <1>2, <1>3

\* What comes first depends on the matches of the earlier steps alone.
LEMMA FirstDepends ==
    ASSUME NEW calls, NEW step, NEW m, NEW o, \A k \in step.dependsOn : m[k] = o[k]
    PROVE  First(calls, step, m) = First(calls, step, o)
<1>1. \A i \in DOMAIN calls : Fits(calls, step, i, m) <=> Fits(calls, step, i, o)
  BY DEF Fits
<1> DEFINE one == {i \in DOMAIN calls : Fits(calls, step, i, m)}
           other == {i \in DOMAIN calls : Fits(calls, step, i, o)}
<1>2. one = other
  BY <1>1
<1>3. /\ First(calls, step, m) = IF one = {} THEN None ELSE CHOOSE i \in one : \A j \in one : i <= j
      /\ First(calls, step, o) = IF other = {} THEN None ELSE CHOOSE i \in other : \A j \in other : i <= j
  BY DEF First
<1> HIDE DEF one, other
<1> QED
  BY <1>2, <1>3

\* The matches of the first n steps.
Matches(calls, steps, n, m) == m = [k \in 1..n |-> First(calls, steps[k], m)]

\* There are such, one step after the other.
LEMMA MatchesExist ==
    ASSUME NEW calls, NEW steps, Ordered(steps)
    PROVE  \E m : Matches(calls, steps, Len(steps), m)
<1> DEFINE Bad == {n \in Nat : n <= Len(steps) /\ ~\E m : Matches(calls, steps, n, m)}
<1>1. Len(steps) \in Nat
  BY DEF Ordered
<1>2. SUFFICES ASSUME Bad # {}
               PROVE  FALSE
  BY <1>1
<1>3. PICK n \in Bad : \A i \in Bad : n <= i
  BY <1>2, LeastOf
<1>4. n \in Nat /\ n <= Len(steps) /\ ~\E m : Matches(calls, steps, n, m)
  BY <1>3
<1>5. n # 0
  <2>1. [k \in 1..0 |-> None] = [k \in 1..0 |-> First(calls, steps[k], [i \in 1..0 |-> None])]
    OBVIOUS
  <2>2. Matches(calls, steps, 0, [i \in 1..0 |-> None])
    BY <2>1 DEF Matches
  <2> QED
    BY <1>4, <2>2
<1>6. n - 1 \in Nat /\ n - 1 <= Len(steps) /\ n - 1 \notin Bad
  BY <1>1, <1>3, <1>4, <1>5
<1>7. PICK m : Matches(calls, steps, n - 1, m)
  BY <1>6
<1> DEFINE more == [k \in 1..n |-> IF k = n THEN First(calls, steps[n], m) ELSE m[k]]
<1>8. /\ \A k \in 1..n - 1 : more[k] = m[k]
      /\ more[n] = First(calls, steps[n], m) /\ DOMAIN more = 1..n
  BY <1>4, <1>5
<1>9. \A k \in 1..n : steps[k].dependsOn \subseteq 1..n - 1
  <2> TAKE k \in 1..n
  <2>1. k \in DOMAIN steps /\ 1..k - 1 \subseteq 1..n - 1
    BY <1>1, <1>4 DEF Ordered
  <2> QED
    BY <2>1 DEF Ordered
<1>10. ASSUME NEW k \in 1..n
       PROVE  more[k] = First(calls, steps[k], more)
  <2>1. \A i \in steps[k].dependsOn : more[i] = m[i]
    BY <1>8, <1>9
  <2> HIDE DEF more
  <2>2. First(calls, steps[k], more) = First(calls, steps[k], m)
    BY <2>1, FirstDepends
  <2>3. k \in 1..n - 1 => m[k] = First(calls, steps[k], m)
    BY <1>7 DEF Matches
  <2>4. k \in 1..n - 1 \/ k = n
    BY <1>4
  <2> QED
    BY <1>8, <2>2, <2>3, <2>4
<1>11. more = [k \in 1..n |-> First(calls, steps[k], more)]
  <2>1. more = [k \in 1..n |-> more[k]]
    OBVIOUS
  <2> HIDE DEF more
  <2> QED
    BY <1>10, <2>1
<1> HIDE DEF more
<1>12. Matches(calls, steps, n, more)
  BY <1>11 DEF Matches
<1> QED
  BY <1>4, <1>12

\* The graders' matches are those.
LEMMA MatchedMatches ==
    ASSUME NEW calls, NEW steps, Ordered(steps)
    PROVE  Matches(calls, steps, Len(steps), Matched(calls, steps))
<1>1. DOMAIN steps = 1..Len(steps)
  BY DEF Ordered
<1>2. Matched(calls, steps) = CHOOSE m : m = [k \in DOMAIN steps |-> First(calls, steps[k], m)]
  BY DEF Matched, First
<1>3. \E m : m = [k \in DOMAIN steps |-> First(calls, steps[k], m)]
  <2>1. PICK m : Matches(calls, steps, Len(steps), m)
    BY MatchesExist
  <2>2. m = [k \in 1..Len(steps) |-> First(calls, steps[k], m)]
    BY <2>1 DEF Matches
  <2> QED
    BY <1>1, <2>2
<1> QED
  BY <1>1, <1>2, <1>3 DEF Matches

\* A sequence is found if there is any: every step's first call is no later than any other.
LEMMA FirstMatchesSuffice ==
    ASSUME NEW calls \in Seq(Entries), NEW steps, Ordered(steps)
    PROVE  CompleteSequence(calls, steps) <=>
              \E f \in [DOMAIN steps -> DOMAIN calls] :
                  \A k \in DOMAIN steps : Fits(calls, steps[k], f[k], f)
<1> DEFINE m == Matched(calls, steps)
<1>1. m = [k \in DOMAIN steps |-> First(calls, steps[k], m)]
  BY MatchedMatches DEF Matches, Ordered
<1> HIDE DEF m
<1>2. DOMAIN m = DOMAIN steps /\ \A k \in DOMAIN steps : m[k] = First(calls, steps[k], m)
  BY <1>1
<1>3. CompleteSequence(calls, steps) <=> \A k \in DOMAIN steps : m[k] # None
  BY <1>2 DEF CompleteSequence, Range, m
<1>4. ASSUME \A k \in DOMAIN steps : m[k] # None
      PROVE  \E f \in [DOMAIN steps -> DOMAIN calls] :
                 \A k \in DOMAIN steps : Fits(calls, steps[k], f[k], f)
  <2>1. \A k \in DOMAIN steps : m[k] \in DOMAIN calls /\ Fits(calls, steps[k], m[k], m)
    BY <1>2, <1>4, FirstIsFirst
  <2>2. m \in [DOMAIN steps -> DOMAIN calls]
    BY <1>1, <1>2, <2>1
  <2> QED
    BY <2>1, <2>2
<1>5. ASSUME NEW f \in [DOMAIN steps -> DOMAIN calls],
             \A k \in DOMAIN steps : Fits(calls, steps[k], f[k], f)
      PROVE  \A k \in DOMAIN steps : m[k] # None
  <2> DEFINE Bad == {k \in DOMAIN steps : ~(m[k] # None /\ m[k] <= f[k])}
  <2>1. SUFFICES ASSUME Bad # {}
                 PROVE  FALSE
    OBVIOUS
  <2>2. PICK k \in Bad : \A j \in Bad : k <= j
    <3>1. Bad \in SUBSET Nat
      BY DEF Ordered
    <3> HIDE DEF Bad
    <3> QED
      BY <2>1, <3>1, LeastOf
  <2>3. k \in DOMAIN steps /\ k \in Nat /\ f[k] \in DOMAIN calls
    BY DEF Ordered
  <2>4. ASSUME NEW d \in steps[k].dependsOn
        PROVE  m[d] # None /\ m[d] < f[k] /\ m[d] <= calls[f[k]].before
    <3>1. d \in 1..k - 1 /\ d \in DOMAIN steps
      BY <2>3 DEF Ordered
    <3>2. m[d] # None /\ m[d] <= f[d]
      BY <2>2, <2>3, <3>1
    <3>3. f[d] < f[k] /\ f[d] <= calls[f[k]].before
      BY <1>5, <2>3 DEF Fits
    <3>4. m[d] \in DOMAIN calls /\ f[d] \in DOMAIN calls
      BY <1>2, <3>1, <3>2, FirstIsFirst
    <3>5. m[d] \in Nat /\ f[d] \in Nat /\ f[k] \in Nat /\ calls[f[k]].before \in Nat
      <4>1. calls[f[k]] \in Entries
        BY <2>3
      <4> QED
        BY <2>3, <3>4, <4>1 DEF Entries
    <3> QED
      BY <3>2, <3>3, <3>5
  <2>5. Fits(calls, steps[k], f[k], m)
    BY <1>5, <2>3, <2>4 DEF Fits
  <2>6. m[k] # None /\ m[k] <= f[k]
    BY <1>2, <2>3, <2>5, FirstIsFirst
  <2> QED
    BY <2>6
<1> QED
  BY <1>3, <1>4, <1>5

\* What is asked of the calls that are writes, and of those that changed something.
Proper(case, e) ==
    Effect[e.tool] # "read" =>
        case.goal # "read" /\ e.tool = case.tool /\ Subset(e, case.target, None)
AsAsked(case) ==
    CASE case.goal = "read" -> Changes(desk.done) = {}
      [] case.goal = "update" -> \E i \in Changes(desk.done) :
                                    /\ \A j \in Changes(desk.done) : j <= i
                                    /\ desk.done[i].call.content = case.content
      [] OTHER -> \E i \in Changes(desk.done) : /\ Changes(desk.done) = {i}
                                                 /\ desk.done[i].call.content = case.content

\* The trace is the list of what was done.
LEMMA TraceIsDone ==
    ASSUME DeskType, KnownInv
    PROVE  /\ DOMAIN desk.trace = 1..Len(desk.trace) /\ DOMAIN desk.done = 1..Len(desk.trace)
           /\ Len(desk.trace) \in Nat
           /\ \A i \in 1..Len(desk.trace) :
                 /\ desk.trace[i] \in Entries /\ desk.done[i].call = desk.trace[i]
                 /\ desk.done[i].effect \in BOOLEAN
           /\ Changes(desk.done) \subseteq 1..Len(desk.trace)
<1>1. /\ desk.trace \in Seq(Entries) /\ desk.done \in Seq(Outcomes) /\ Len(desk.done) = Len(desk.trace)
      /\ \A i \in 1..Len(desk.trace) : desk.done[i].call = desk.trace[i]
  BY DEF DeskType, KnownInv, Outcomes
<1>2. DOMAIN desk.trace = 1..Len(desk.trace) /\ DOMAIN desk.done = 1..Len(desk.trace)
      /\ Len(desk.trace) \in Nat
  BY <1>1
<1>3. \A i \in 1..Len(desk.trace) : desk.trace[i] \in Entries /\ desk.done[i] \in Outcomes
  BY <1>1, <1>2
<1>4. \A i \in 1..Len(desk.trace) : desk.done[i].effect \in BOOLEAN
  BY <1>3 DEF Outcomes
<1> QED
  BY <1>1, <1>2, <1>3, <1>4 DEF Changes

\* An agent's identifiers are grounded if it knew them when it used them.
LEMMA GroundedIsKnown ==
    ASSUME DeskType, KnownInv
    PROVE  GroundedIds(desk.trace) <=> \A i \in DOMAIN desk.done : desk.done[i].known
<1> DEFINE n == Len(desk.trace)
           shows(i) == \E j \in Succeeded(desk.trace) :
                          j < i /\ j <= desk.trace[i].before /\ Shows(desk.trace[j].result, desk.trace[i].id)
<1>1. /\ DOMAIN desk.trace = 1..n /\ DOMAIN desk.done = 1..n /\ n \in Nat
      /\ \A i \in 1..n : desk.trace[i] \in Entries
  BY TraceIsDone
<1>2. ASSUME NEW i \in 1..n
      PROVE  shows(i) <=> Seen(desk.trace, desk.trace[i].before, desk.trace[i].id)
  <2>1. desk.trace[i].before \in Nat /\ desk.trace[i].before < i /\ i \in Nat /\ i <= n
    BY <1>1, <1>2 DEF KnownInv, Entries
  <2>2. \A j : j \in Succeeded(desk.trace) /\ j < i /\ j <= desk.trace[i].before
                  <=> j \in 1..desk.trace[i].before /\ ~desk.trace[j].isError
    <3> TAKE j
    <3>1. j \in Succeeded(desk.trace) <=> j \in 1..n /\ ~desk.trace[j].isError
      BY <1>1 DEF Succeeded
    <3> QED
      BY <1>1, <2>1, <3>1
  <2> QED
    BY <2>2 DEF Seen
<1>3. \A i \in 1..n : desk.done[i].known <=>
                         desk.trace[i].isError \/ (desk.trace[i].id # None => shows(i))
  BY <1>2 DEF KnownInv
<1>4. GroundedIds(desk.trace) <=>
         \A i \in 1..n : ~desk.trace[i].isError => (desk.trace[i].id # None => shows(i))
  BY <1>1 DEF GroundedIds, Succeeded
<1> HIDE DEF shows
<1> QED
  BY <1>1, <1>3, <1>4

\* No write is improper if every one is what the case asks for.
LEMMA ProperIsNotImproper ==
    ASSUME DeskType, KnownInv, NEW case
    PROVE  ImproperMutations(desk.trace, case) = {} <=>
              \A i \in DOMAIN desk.done : Proper(case, desk.done[i].call)
<1>1. /\ DOMAIN desk.trace = DOMAIN desk.done
      /\ \A i \in DOMAIN desk.trace : desk.done[i].call = desk.trace[i]
  BY TraceIsDone
<1> QED
  BY <1>1 DEF ImproperMutations, Writes, Proper

\* Where nothing was changed the records are those of the reset.
LEMMA NothingChanged ==
    ASSUME DeskType, CreateInv, Changes(desk.done) = {}
    PROVE  desk.records = Business
<1>1. \A id \in Ids : desk.records[id] = Business[id]
  BY DEF CreateInv
<1>2. desk.records \in [Ids -> Contents \cup {None}] /\ Business \in [Ids -> Contents \cup {None}]
  BY EvaluationAssumption DEF DeskType
<1> QED
  BY <1>1, <1>2

\* The records are the ones the case asks for if the changes are.
LEMMA StateIsAsAsked ==
    ASSUME DeskType, KnownInv, UpdateInv, DeleteInv, CreateInv, NEW case \in Cases,
           \A i \in DOMAIN desk.done : Proper(case, desk.done[i].call)
    PROVE  VerifyState(case, Business, desk.records) <=> AsAsked(case)
<1> DEFINE changes == Changes(desk.done)
<1>1. ASSUME NEW i \in changes
      PROVE  /\ i \in 1..Len(desk.trace) /\ i \in Nat
             /\ case.goal # "read" /\ desk.done[i].call.tool = case.tool
             /\ Subset(desk.done[i].call, case.target, None) /\ Fitting(desk.done[i].call)
  <2>1. i \in 1..Len(desk.trace) /\ i \in DOMAIN desk.done /\ desk.done[i].effect
    BY TraceIsDone DEF Changes
  <2>2. Effect[desk.done[i].call.tool] # "read" /\ Fitting(desk.done[i].call)
    BY <2>1 DEF KnownInv
  <2>3. Proper(case, desk.done[i].call)
    BY <2>1
  <2> QED
    BY <2>1, <2>2, <2>3 DEF Proper
<1>2. /\ desk.records \in [Ids -> Contents \cup {None}] /\ Business \in [Ids -> Contents \cup {None}]
      /\ None \notin Ids /\ None \notin Contents
      /\ case.goal \in {"read", "update", "create", "delete"}
      /\ case.goal # "read" => Does[case.tool] = case.goal
      /\ case.goal \in {"update", "delete"} => case.target \in Ids /\ Business[case.target] # None
      /\ case.goal = "update" => case.content \in Contents \ {Business[case.target]}
      /\ case.goal = "create" => case.target = None /\ case.content \in Contents
      /\ case.goal = "delete" => case.content = None
  BY EvaluationAssumption DEF DeskType
<1>3. CASE case.goal = "read"
  <2>1. changes = {}
    BY <1>1, <1>3
  <2> QED
    BY <1>3, <2>1, NothingChanged DEF VerifyState, AsAsked
<1>4. CASE case.goal = "update"
  <2> DEFINE t == case.target
  <2>1. t \in Ids /\ t # None /\ case.content # Business[t]
    BY <1>2, <1>4
  <2>2. \A i \in changes : Does[desk.done[i].call.tool] = "update" /\ desk.done[i].call.id = t
    BY <1>1, <1>2, <1>4, <2>1 DEF Subset
  <2>3. \/ changes = {} /\ desk.records = Business
        \/ \E i \in changes : /\ \A j \in changes : j <= i
                              /\ desk.records = [Business EXCEPT ![t] = desk.done[i].call.content]
    BY <2>1, <2>2 DEF UpdateInv
  <2>4. VerifyState(case, Business, desk.records) <=> desk.records = [Business EXCEPT ![t] = case.content]
    BY <1>4 DEF VerifyState
  <2>5. AsAsked(case) <=> \E i \in changes : /\ \A j \in changes : j <= i
                                             /\ desk.done[i].call.content = case.content
    BY <1>4 DEF AsAsked
  <2>6. CASE changes = {} /\ desk.records = Business
    BY <1>2, <2>1, <2>4, <2>5, <2>6
  <2>7. ASSUME NEW i \in changes, \A j \in changes : j <= i,
               desk.records = [Business EXCEPT ![t] = desk.done[i].call.content]
        PROVE  VerifyState(case, Business, desk.records) <=> AsAsked(case)
    <3>1. \A k \in changes : (\A j \in changes : j <= k) => k = i
      BY <1>1, <2>7
    <3>2. AsAsked(case) <=> desk.done[i].call.content = case.content
      BY <2>5, <2>7, <3>1
    <3>3. desk.records[t] = desk.done[i].call.content
      BY <1>2, <2>1, <2>7
    <3>4. desk.records = [Business EXCEPT ![t] = case.content] => desk.records[t] = case.content
      BY <1>2, <2>1
    <3> QED
      BY <2>4, <2>7, <3>2, <3>3, <3>4
  <2> QED
    BY <2>3, <2>6, <2>7
<1>5. CASE case.goal = "delete"
  <2> DEFINE t == case.target
  <2>1. t \in Ids /\ t # None /\ Business[t] # None
    BY <1>2, <1>5
  <2>2. \A i \in changes : /\ Does[desk.done[i].call.tool] = "delete" /\ desk.done[i].call.id = t
                           /\ desk.done[i].call.content = case.content
    BY <1>1, <1>2, <1>5, <2>1 DEF Subset, Fitting
  <2>3. \/ changes = {} /\ desk.records = Business
        \/ \E i \in changes : changes = {i} /\ desk.records = [Business EXCEPT ![t] = None]
    BY <2>1, <2>2 DEF DeleteInv
  <2>4. VerifyState(case, Business, desk.records) <=> desk.records = [Business EXCEPT ![t] = None]
    BY <1>5 DEF VerifyState
  <2>5. AsAsked(case) <=> \E i \in changes : changes = {i} /\ desk.done[i].call.content = case.content
    BY <1>5 DEF AsAsked
  <2>6. Business # [Business EXCEPT ![t] = None]
    BY <1>2, <2>1
  <2> QED
    BY <2>2, <2>3, <2>4, <2>5, <2>6
<1>6. CASE case.goal = "create"
  <2>1. \A i \in changes : Does[desk.done[i].call.tool] = "create" /\ desk.done[i].call.content \in Contents
    BY <1>1, <1>2, <1>6 DEF Fitting
  <2>2. PICK made \in [changes -> Ids] :
           /\ \A i, j \in changes : made[i] = made[j] => i = j
           /\ \A i \in changes : /\ Business[made[i]] = None
                                 /\ desk.records[made[i]] = desk.done[i].call.content
           /\ \A id \in Ids : (\A i \in changes : made[i] # id) => desk.records[id] = Business[id]
    BY <2>1 DEF CreateInv
  <2> HIDE DEF changes
  <2> DEFINE added == Added(Business, desk.records)
  <2>3. \A id \in Ids : id \in added <=> \E i \in changes : made[i] = id
    BY <1>2, <2>1, <2>2 DEF Added
  <2>4. added \subseteq Ids
    BY DEF Added
  <2>5. VerifyState(case, Business, desk.records) <=>
           \E x \in Ids : /\ added = {x} /\ desk.records[x] = case.content
                          /\ desk.records = [Business EXCEPT ![x] = desk.records[x]]
    BY <1>6 DEF VerifyState
  <2>6. AsAsked(case) <=> \E i \in changes : changes = {i} /\ desk.done[i].call.content = case.content
    BY <1>6 DEF AsAsked, changes
  <2> HIDE DEF added
  <2>7. ASSUME NEW x \in Ids, added = {x}, desk.records[x] = case.content
        PROVE  AsAsked(case)
    <3>1. PICK i \in changes : made[i] = x
      BY <2>3, <2>7
    <3>2. \A j \in changes : made[j] = x
      BY <2>2, <2>3, <2>7
    <3>3. changes = {i}
      BY <2>2, <3>1, <3>2
    <3> QED
      BY <2>2, <2>6, <2>7, <3>1, <3>3
  <2>8. ASSUME NEW i \in changes, changes = {i}, desk.done[i].call.content = case.content
        PROVE  VerifyState(case, Business, desk.records)
    <3> DEFINE x == made[i]
    <3>1. x \in Ids /\ added = {x} /\ desk.records[x] = case.content
      BY <2>2, <2>3, <2>4, <2>8
    <3> HIDE DEF x
    <3>2. \A id \in Ids : id # x => desk.records[id] = Business[id]
      BY <2>2, <2>8 DEF x
    <3>3. desk.records = [Business EXCEPT ![x] = desk.records[x]]
      BY <1>2, <3>1, <3>2
    <3> QED
      BY <2>5, <3>1, <3>3
  <2> QED
    BY <2>5, <2>6, <2>7, <2>8
<1> QED
  BY <1>2, <1>3, <1>4, <1>5, <1>6

\* The writes and what was known, and the changes: what a success requires of the calls.
LEMMA EarnedIsChecked ==
    ASSUME DeskType, KnownInv, UpdateInv, DeleteInv, CreateInv, NEW case \in Cases
    PROVE  Earned(case) <=>
              /\ GroundedIds(desk.trace)
              /\ VerifyState(case, Business, desk.records)
              /\ ImproperMutations(desk.trace, case) = {}
<1> DEFINE known == \A i \in DOMAIN desk.done : desk.done[i].known
           proper == \A i \in DOMAIN desk.done : Proper(case, desk.done[i].call)
<1>1. Earned(case) <=> known /\ proper /\ AsAsked(case)
  <2>1. {i \in DOMAIN desk.done : desk.done[i].effect} = Changes(desk.done)
    BY DEF Changes
  <2> QED
    BY <2>1 DEF Earned, Proper, AsAsked
<1>2. GroundedIds(desk.trace) <=> known
  BY GroundedIsKnown
<1>3. ImproperMutations(desk.trace, case) = {} <=> proper
  BY ProperIsNotImproper
<1>4. proper => (VerifyState(case, Business, desk.records) <=> AsAsked(case))
  BY StateIsAsAsked
<1> HIDE DEF known, proper
<1> QED
  BY <1>1, <1>2, <1>3, <1>4

\* What the first grading of v3 calls a success of a write has the change that v2 looks for
\* and no write that it calls wrong, whatever is in no list.
LEMMA SuccessIsPersisted ==
    ASSUME DeskType, NEW case \in Cases, NEW calls, case.goal # "read",
           VerifyState(case, Business, desk.records), WrongMutationCalls(calls, case) = {}
    PROVE  /\ GradeV2(calls, case).wrongMutationCalls = {}
           /\ PersistedMutation(case, desk.records)
<1>1. /\ desk.records \in [Ids -> Contents \cup {None}] /\ Business \in [Ids -> Contents \cup {None}]
      /\ case.goal \in {"update", "create", "delete"}
      /\ case.goal \in {"update", "delete"} => case.target \in Ids
  BY EvaluationAssumption DEF DeskType
<1>2. \A k \in Writes(calls) : calls[k].tool = case.tool
  BY DEF WrongMutationCalls
<1>3. GradeV2(calls, case).wrongMutationCalls = {}
  BY <1>2 DEF GradeV2
<1>4. CASE case.goal = "create"
  BY <1>3, <1>4 DEF PersistedMutation, VerifyState
<1>5. CASE case.goal = "update"
  <2>1. desk.records = [Business EXCEPT ![case.target] = case.content]
    BY <1>5 DEF VerifyState
  <2>2. desk.records[case.target] = case.content
    BY <1>1, <1>5, <2>1
  <2> QED
    BY <1>3, <1>5, <2>2 DEF PersistedMutation
<1>6. CASE case.goal = "delete"
  <2>1. desk.records = [Business EXCEPT ![case.target] = None]
    BY <1>6 DEF VerifyState
  <2>2. desk.records[case.target] = None
    BY <1>1, <1>6, <2>1
  <2> QED
    BY <1>3, <1>6, <2>2 DEF PersistedMutation
<1> QED
  BY <1>1, <1>4, <1>5, <1>6

\* Where every call was waited for, it has the write itself, with its arguments.
LEMMA SuccessHasItsWrite ==
    ASSUME DeskType, KnownInv, UpdateInv, DeleteInv, CreateInv, NEW case \in Cases,
           case.goal # "read", VerifyState(case, Business, desk.records),
           WrongMutationCalls(desk.trace, case) = {}
    PROVE  /\ GradeV2(desk.trace, case).eventualToolCorrect
           /\ GradeV2(desk.trace, case).exactArguments
<1>1. /\ None \notin Ids /\ None \notin Contents
      /\ case.goal \in {"update", "create", "delete"} /\ Does[case.tool] = case.goal
      /\ case.goal \in {"update", "delete"} => case.target \in Ids
      /\ case.goal = "update" => case.content \in Contents
      /\ case.goal = "create" => case.target = None /\ case.content \in Contents
      /\ case.goal = "delete" => case.content = None
  BY EvaluationAssumption DEF DeskType
<1>2. /\ DOMAIN desk.trace = 1..Len(desk.trace) /\ DOMAIN desk.done = 1..Len(desk.trace)
      /\ \A i \in 1..Len(desk.trace) : desk.done[i].call = desk.trace[i]
      /\ Changes(desk.done) \subseteq 1..Len(desk.trace)
  BY TraceIsDone
<1>3. \A i \in 1..Len(desk.trace) : Effect[desk.trace[i].tool] # "read" =>
         desk.trace[i].tool = case.tool /\ Subset(desk.trace[i], case.target, case.content)
  BY <1>2 DEF WrongMutationCalls, Writes
<1>4. \A i \in DOMAIN desk.done : Proper(case, desk.done[i].call)
  BY <1>2, <1>3 DEF Proper, Subset
<1>5. AsAsked(case)
  BY <1>4, StateIsAsAsked
<1>6. PICK i \in Changes(desk.done) : TRUE
  BY <1>1, <1>5 DEF AsAsked
<1>7. /\ i \in DOMAIN desk.trace /\ desk.trace[i].tool = case.tool
      /\ Subset(desk.trace[i], case.target, case.content) /\ Fitting(desk.trace[i])
  <2>1. i \in 1..Len(desk.trace) /\ desk.done[i].effect
    BY <1>2, <1>6 DEF Changes
  <2>2. Effect[desk.trace[i].tool] # "read" /\ Fitting(desk.trace[i])
    BY <2>1 DEF KnownInv
  <2> QED
    BY <1>2, <1>3, <2>1, <2>2
<1>8. desk.trace[i].id = case.target /\ desk.trace[i].content = case.content
  BY <1>1, <1>7 DEF Subset, Fitting
<1> QED
  BY <1>7, <1>8 DEF GradeV2

\* An agent succeeds if and only if it earned it; what a case asks of its answer aside.
LEMMA VerdictIsEarned ==
    ASSUME DeskType, JoinedInv, NEW case \in Cases, NEW reply
    PROVE  /\ Evaluate(Record(reply), case) <=>
                 /\ CompleteAnswer(Record(reply), case)
                 /\ EvidenceFacts(Record(reply), case) /\ Relations(Record(reply), case)
                 /\ \A e \in case.entities : Shows(Evidence(desk.trace), e)
                 /\ Earned(case)
           /\ FinalEvaluate(Record(reply), case) => Earned(case)
<1>1. KnownInv /\ UpdateInv /\ DeleteInv /\ CreateInv /\ desk.calls = desk.trace
  BY DEF JoinedInv
<1>2. /\ Record(reply).completed /\ Record(reply).trace = desk.trace
      /\ Record(reply).calls = desk.trace
      /\ Record(reply).baseline = Business /\ Record(reply).final = desk.records
  BY <1>1 DEF Record
<1>3. Earned(case) <=> /\ GroundedIds(desk.trace)
                       /\ VerifyState(case, Business, desk.records)
                       /\ ImproperMutations(desk.trace, case) = {}
  BY <1>1, EarnedIsChecked
<1> DEFINE saw == \A e \in case.entities : Shows(Evidence(desk.trace), e)
<1>4. ASSUME NEW answered, NEW related
      PROVE  Success(Record(reply), case, answered, related) <=>
                answered /\ EvidenceFacts(Record(reply), case) /\ related /\ saw /\ Earned(case)
  BY <1>2, <1>3 DEF Success
<1> HIDE DEF saw
<1>5. Evaluate(Record(reply), case) <=>
         /\ CompleteAnswer(Record(reply), case)
         /\ EvidenceFacts(Record(reply), case) /\ Relations(Record(reply), case)
         /\ saw /\ Earned(case)
  <2>1. PICK answered, related :
           answered = CompleteAnswer(Record(reply), case) /\ related = Relations(Record(reply), case)
    OBVIOUS
  <2>2. Evaluate(Record(reply), case) <=> Success(Record(reply), case, answered, related)
    BY <2>1 DEF Evaluate
  <2>3. Success(Record(reply), case, answered, related) <=>
           answered /\ EvidenceFacts(Record(reply), case) /\ related /\ saw /\ Earned(case)
    BY <1>4
  <2> QED
    BY <2>1, <2>2, <2>3
<1>6. FinalEvaluate(Record(reply), case) => Earned(case)
  BY <1>4, Zenon DEF FinalEvaluate
<1> QED
  BY <1>5, <1>6 DEF saw

\* The clarifications take a success away with the patterns only.
LEMMA OnlyPatternsTake ==
    ASSUME NEW case, NEW reply \in Answers(case),
           Evaluate(Record(reply), case), ~FinalEvaluate(Record(reply), case)
    PROVE  ~reply.clarified
<1>1. reply.clarified \in BOOLEAN /\ reply.affirms \in BOOLEAN /\ reply.raised \in BOOLEAN
  BY DEF Answers
<1>2. Record(reply).answer = reply
  BY DEF Record
<1>3. SUFFICES ASSUME reply.clarified
               PROVE  FinalEvaluate(Record(reply), case)
  OBVIOUS
<1>4. CompleteAnswer(Record(reply), case) /\ Relations(Record(reply), case)
  BY DEF Evaluate, Success
<1>5. case.goal = "read" \/ reply.affirms
  BY <1>2, <1>4 DEF CompleteAnswer
<1> QED
  BY <1>2, <1>3, <1>4, <1>5 DEF Evaluate, FinalEvaluate, Success

\* Where the patterns were kept, or are fewer, it takes none.
LEMMA OnlyOtherPatternsTake ==
    ASSUME NEW case, case.patterns \in {"kept", "fewer", "replaced"}, NEW reply \in Answers(case),
           Evaluate(Record(reply), case), ~FinalEvaluate(Record(reply), case)
    PROVE  case.patterns = "replaced" /\ ~reply.clarified
<1>1. ~reply.clarified
  BY OnlyPatternsTake
<1>2. reply.full
  <2>1. CompleteAnswer(Record(reply), case) /\ Record(reply).answer = reply
    BY DEF Evaluate, Success, Record
  <2> QED
    BY <2>1 DEF CompleteAnswer
<1>3. /\ case.patterns = "kept" => reply.clarified = reply.full
      /\ case.patterns = "fewer" => (reply.full => reply.clarified)
  BY DEF Answers
<1> QED
  BY <1>1, <1>2, <1>3

\* What each verdict means.
LEMMA GradesAreEarned ==
    ASSUME DeskType, desk.late = 0 => JoinedInv, NEW case \in Cases
    PROVE  /\ desk.late = 0 =>
                 \A reply \in Answers(case) :
                     /\ Evaluate(Record(reply), case) <=>
                           /\ CompleteAnswer(Record(reply), case)
                           /\ EvidenceFacts(Record(reply), case) /\ Relations(Record(reply), case)
                           /\ \A e \in case.entities : Shows(Evidence(desk.trace), e)
                           /\ Earned(case)
                     /\ FinalEvaluate(Record(reply), case) => Earned(case)
                     /\ Evaluate(Record(reply), case) /\ ~FinalEvaluate(Record(reply), case) =>
                           case.patterns = "replaced" /\ ~reply.clarified
           /\ CompleteSequence(desk.trace, case.steps) <=>
                 \E f \in [DOMAIN case.steps -> DOMAIN desk.trace] :
                     \A k \in DOMAIN case.steps : Fits(desk.trace, case.steps[k], f[k], f)
           /\ case.goal # "read" /\ WorkflowSuccess(Record(None), case) =>
                 /\ GradeV2(desk.calls, case).wrongMutationCalls = {}
                 /\ PersistedMutation(case, desk.records)
                 /\ desk.late = 0 => /\ GradeV2(desk.calls, case).eventualToolCorrect
                                     /\ GradeV2(desk.calls, case).exactArguments
<1>1. ASSUME desk.late = 0, NEW reply \in Answers(case)
      PROVE  /\ Evaluate(Record(reply), case) <=>
                   /\ CompleteAnswer(Record(reply), case)
                   /\ EvidenceFacts(Record(reply), case) /\ Relations(Record(reply), case)
                   /\ \A e \in case.entities : Shows(Evidence(desk.trace), e)
                   /\ Earned(case)
             /\ FinalEvaluate(Record(reply), case) => Earned(case)
             /\ Evaluate(Record(reply), case) /\ ~FinalEvaluate(Record(reply), case) =>
                   case.patterns = "replaced" /\ ~reply.clarified
  <2>1. case.patterns \in {"kept", "fewer", "replaced"}
    BY EvaluationAssumption
  <2>2. Evaluate(Record(reply), case) /\ ~FinalEvaluate(Record(reply), case) =>
           case.patterns = "replaced" /\ ~reply.clarified
    BY <2>1, OnlyOtherPatternsTake
  <2>3. /\ Evaluate(Record(reply), case) <=>
              /\ CompleteAnswer(Record(reply), case)
              /\ EvidenceFacts(Record(reply), case) /\ Relations(Record(reply), case)
              /\ \A e \in case.entities : Shows(Evidence(desk.trace), e)
              /\ Earned(case)
        /\ FinalEvaluate(Record(reply), case) => Earned(case)
    BY <1>1, VerdictIsEarned
  <2> QED
    BY <2>2, <2>3
<1>2. CompleteSequence(desk.trace, case.steps) <=>
         \E f \in [DOMAIN case.steps -> DOMAIN desk.trace] :
             \A k \in DOMAIN case.steps : Fits(desk.trace, case.steps[k], f[k], f)
  <2>1. PICK calls, steps : calls = desk.trace /\ steps = case.steps
    OBVIOUS
  <2>2. calls \in Seq(Entries)
    BY <2>1 DEF DeskType
  <2>3. Ordered(steps)
    <3>1. /\ DOMAIN steps = 1..Len(steps) /\ Len(steps) \in Nat
      BY <2>1, EvaluationAssumption
    <3>2. \A k \in DOMAIN steps : steps[k].dependsOn \subseteq 1..k - 1
      BY <2>1, EvaluationAssumption
    <3> QED
      BY <3>1, <3>2 DEF Ordered
  <2>4. CompleteSequence(calls, steps) <=>
           \E f \in [DOMAIN steps -> DOMAIN calls] :
               \A k \in DOMAIN steps : Fits(calls, steps[k], f[k], f)
    BY <2>2, <2>3, FirstMatchesSuffice
  <2> QED
    BY <2>1, <2>4
<1>3. ASSUME case.goal # "read", WorkflowSuccess(Record(None), case)
      PROVE  /\ GradeV2(desk.calls, case).wrongMutationCalls = {}
             /\ PersistedMutation(case, desk.records)
             /\ desk.late = 0 => /\ GradeV2(desk.calls, case).eventualToolCorrect
                                 /\ GradeV2(desk.calls, case).exactArguments
  <2>1. /\ VerifyState(case, Business, desk.records)
        /\ WrongMutationCalls(desk.calls, case) = {}
    BY <1>3 DEF WorkflowSuccess, Record
  <2>2. PICK calls : calls = desk.calls
    OBVIOUS
  <2>3. GradeV2(calls, case).wrongMutationCalls = {} /\ PersistedMutation(case, desk.records)
    BY <1>3, <2>1, <2>2, SuccessIsPersisted
  <2>4. ASSUME desk.late = 0
        PROVE  GradeV2(desk.calls, case).eventualToolCorrect /\ GradeV2(desk.calls, case).exactArguments
    <3>1. KnownInv /\ UpdateInv /\ DeleteInv /\ CreateInv /\ desk.calls = desk.trace
      BY <2>4 DEF JoinedInv
    <3> QED
      BY <1>3, <2>1, <3>1, SuccessHasItsWrite
  <2> QED
    BY <2>2, <2>3, <2>4
<1> QED
  BY <1>1, <1>2, <1>3

\* Where every call was waited for, an agent succeeds if and only if it wrote what it was
\* asked to and attempted no other write, used what it had been shown, and saw and said what
\* the case asks for, and the clarifications give no success that was not earned.  They take
\* one away only where they replaced the patterns and the answer has none of the new ones.
\* The reference path is found wherever it is in the trace; and a success of v3 has the
\* change that v2 looks for and no write that it calls wrong, whatever calls came late.
THEOREM EarnedGrades == EvaluationSpec => []GradeIsEarned
<1>1. DeskInv => GradeIsEarned
  <2> SUFFICES ASSUME DeskInv, mode = "graded"
               PROVE  GradeIsEarned
    BY DEF GradeIsEarned
  <2>1. DeskType /\ (desk.late = 0 => JoinedInv)
    BY DEF DeskInv, AgentModes
  <2> QED
    BY <2>1, GradesAreEarned DEF GradeIsEarned
<1> QED
  BY <1>1, DeskInvariance, PTL
=============================================================================
