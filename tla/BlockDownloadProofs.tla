------------------------ MODULE BlockDownloadProofs ------------------------
(***************************************************************************)
(* mapBlocksInFlight, the lists vBlocksInFlight of the nodes and           *)
(* nQueuedValidatedHeaders agree in every state of BlockDownload, and      *)
(* nSyncStarted counts the nodes with fSyncStarted, for any number of      *)
(* nodes and blocks and any limits.                                        *)
(*                                                                         *)
(* The lemmas are about values Q, F and c: the lists by node, the map and  *)
(* the counter.  MarkBlockAsReceived and MarkBlockAsInFlight keep Agree    *)
(* and Enough, whatever they are called with; the rest of the state does   *)
(* not matter to these two.                                                *)
(***************************************************************************)
EXTENDS BlockDownload, FiniteSetTheorems, WellFoundedInduction, TLAPS

-----------------------------------------------------------------------------
(* Induction up to a bound. *)

\* A set that holds 0, and n + 1 whenever it holds n, holds the numbers up to the
\* bound.
LEMMA UpTo ==
    ASSUME NEW N \in Nat, NEW T, 0 \in T, \A n \in 0 .. N - 1 : n \in T => n + 1 \in T
    PROVE  \A n \in 0 .. N : n \in T
<1> DEFINE bad == {n \in Nat : n <= N /\ n \notin T}
           less == {ss \in Nat \X Nat : ss[1] < ss[2]}
<1>1. SUFFICES bad = {}
  OBVIOUS
<1>2. SUFFICES ASSUME bad # {} PROVE FALSE
  OBVIOUS
<1>3. IsWellFoundedOn(less, Nat)
  BY Zenon, NatLessThanWellFounded DEF OpToRel
<1>4. PICK n \in bad : \A m \in bad : ~(<<m, n>> \in less)
  <2>1. bad \subseteq Nat
    OBVIOUS
  <2> HIDE DEF bad, less
  <2> QED BY Zenon, <1>2, <1>3, <2>1, WFMin
<1>5. n # 0 /\ n - 1 \in 0 .. N - 1 /\ n = (n - 1) + 1
  OBVIOUS
<1>6. n - 1 \notin T
  BY Zenon, <1>5
<1>7. n - 1 \in bad /\ <<n - 1, n>> \in less
  BY <1>5, <1>6
<1> QED BY Zenon, <1>4, <1>7

-----------------------------------------------------------------------------
(* A list of requests. *)

Request == [hash : Blocks, fValidatedHeaders : BOOLEAN]

\* No block is in the list twice.
Distinct(q) == \A l, m \in 1 .. Len(q) : q[l].hash = q[m].hash => l = m

\* list::erase takes one request from the list and keeps the others.
LEMMA ErasedParts ==
    ASSUME NEW q \in Seq(Request), Distinct(q), NEW m \in 1 .. Len(q)
    PROVE  /\ Erased(q, m) \in Seq(Request) /\ Len(Erased(q, m)) = Len(q) - 1
           /\ Distinct(Erased(q, m)) /\ Range(Erased(q, m)) = Range(q) \ {q[m]}
<1> DEFINE e == Erased(q, m)
<1>1. e \in Seq(Request) /\ Len(e) = Len(q) - 1 /\ DOMAIN e = 1 .. Len(q) - 1
  BY DEF Erased
<1>2. \A l \in 1 .. Len(q) - 1 : e[l] = IF l < m THEN q[l] ELSE q[l + 1]
  BY DEF Erased
<1> HIDE DEF e
<1>3. Distinct(e)
  <2>1. SUFFICES ASSUME NEW k \in 1 .. Len(q) - 1, NEW l \in 1 .. Len(q) - 1, e[k].hash = e[l].hash PROVE k = l
    BY <1>1 DEF Distinct
  <2> QED BY SMTT(30), <1>2, <2>1 DEF Distinct
<1>4. Range(e) \subseteq Range(q) \ {q[m]}
  <2>1. SUFFICES ASSUME NEW l \in 1 .. Len(q) - 1 PROVE e[l] \in Range(q) \ {q[m]}
    BY <1>1 DEF Range
  <2>2. PICK k \in 1 .. Len(q) : k # m /\ e[l] = q[k]
    BY <1>2
  <2>3. q[k] # q[m]
    BY <2>2 DEF Distinct
  <2> QED BY <2>2, <2>3 DEF Range
<1>5. Range(q) \ {q[m]} \subseteq Range(e)
  <2>1. SUFFICES ASSUME NEW k \in 1 .. Len(q), k # m PROVE q[k] \in Range(e)
    BY DEF Range
  <2>2. PICK l \in 1 .. Len(q) - 1 : e[l] = q[k]
    <3>1. CASE k < m
      BY <1>2, <3>1
    <3>2. CASE k > m
      <4>1. k - 1 \in 1 .. Len(q) - 1 /\ ~(k - 1 < m) /\ (k - 1) + 1 = k
        BY <3>2
      <4> QED BY Zenon, <1>2, <4>1
    <3> QED BY <2>1, <3>1, <3>2
  <2> QED BY <1>1, <2>2 DEF Range
<1> QED BY <1>1, <1>3, <1>4, <1>5 DEF e

\* list::insert at the end adds a request.
LEMMA AppendParts ==
    ASSUME NEW q \in Seq(Request), Distinct(q), NEW e \in Request, \A x \in Range(q) : x.hash # e.hash
    PROVE  /\ Append(q, e) \in Seq(Request) /\ Len(Append(q, e)) = Len(q) + 1
           /\ Distinct(Append(q, e)) /\ Range(Append(q, e)) = Range(q) \cup {e}
<1> DEFINE a == Append(q, e)
<1>1. /\ a \in Seq(Request) /\ Len(a) = Len(q) + 1 /\ DOMAIN a = 1 .. Len(q) + 1 /\ a[Len(q) + 1] = e
      /\ \A m \in 1 .. Len(q) : a[m] = q[m]
  OBVIOUS
<1> HIDE DEF a
<1>2. \A m \in 1 .. Len(q) + 1 : m \in 1 .. Len(q) \/ m = Len(q) + 1
  OBVIOUS
<1>3. \A m \in 1 .. Len(q) : q[m] \in Range(q)
  BY DEF Range
<1>4. Distinct(a)
  BY <1>1, <1>2, <1>3 DEF Distinct
<1>5. Range(a) = Range(q) \cup {e}
  BY <1>1, <1>2 DEF Range
<1> QED BY <1>1, <1>4, <1>5 DEF a

\* In a list without duplicates the iterator for a block finds its request.
LEMMA PositionParts ==
    ASSUME NEW q \in Seq(Request), Distinct(q), NEW e \in Range(q)
    PROVE  Position(q, e.hash) \in 1 .. Len(q) /\ q[Position(q, e.hash)] = e
<1>1. PICK m \in 1 .. Len(q) : q[m] = e
  BY DEF Range
<1>2. Position(q, e.hash) \in 1 .. Len(q) /\ q[Position(q, e.hash)].hash = e.hash
  BY <1>1 DEF Position
<1>3. Position(q, e.hash) = m
  BY <1>1, <1>2 DEF Distinct
<1> QED BY <1>1, <1>3

-----------------------------------------------------------------------------
(* The lists Q, the map F and the counter c. *)

\* The lists and the map hold the same requests.
Agree(Q, F) ==
    /\ Q \in [DOMAIN Q -> Seq(Request)] /\ F \in [DOMAIN F -> DOMAIN Q] /\ IsFiniteSet(DOMAIN F)
    /\ \A n \in DOMAIN Q : Distinct(Q[n])
    /\ \A n \in DOMAIN Q : \A e \in Range(Q[n]) : e.hash \in DOMAIN F /\ F[e.hash] = n
    /\ \A b \in DOMAIN F : \E e \in Range(Q[F[b]]) : e.hash = b

\* The blocks that are in flight and had a header when they were requested
ValidatedIn(Q, F) == {b \in DOMAIN F : \E e \in Range(Q[F[b]]) : e.hash = b /\ e.fValidatedHeaders}

\* The counter has counted these at least.
Enough(Q, F, c) == c \in Nat /\ Cardinality(ValidatedIn(Q, F)) <= c

\* The requests of a list are those of its type.
LEMMA RangeRequest ==
    ASSUME NEW q \in Seq(Request), NEW e \in Range(q)
    PROVE  e \in Request
BY DEF Range

\* Two requests for a block that are listed anywhere are the same one.
LEMMA SameRequest ==
    ASSUME NEW Q, NEW F, Agree(Q, F), NEW n \in DOMAIN Q, NEW m \in DOMAIN Q,
           NEW e \in Range(Q[n]), NEW f \in Range(Q[m]), e.hash = f.hash
    PROVE  n = m /\ e = f
<1>1. n = m
  BY DEF Agree
<1>2. Q[n] \in Seq(Request) /\ Distinct(Q[n])
  BY DEF Agree
<1> QED BY <1>1, <1>2, PositionParts

\* What MarkBlockAsReceived makes of the lists and of the counter, when block b is
\* in flight, and MarkBlockAsInFlight, when it is not.
ListsWithout(Q, F, b) == [Q EXCEPT ![F[b]] = Erased(Q[F[b]], Position(Q[F[b]], b))]

CountWithout(Q, F, b, c) == c - Counted(Q[F[b]][Position(Q[F[b]], b)])

ListsWith(Q, n, e) == [Q EXCEPT ![n] = Append(Q[n], e)]

\* MarkBlockAsReceived takes a request from its list, the map and the counter.
LEMMA ReceivedAgree ==
    ASSUME NEW Q, NEW F, NEW c, Agree(Q, F), Enough(Q, F, c), NEW b \in DOMAIN F
    PROVE  /\ Agree(ListsWithout(Q, F, b), Without(F, {b}))
           /\ Enough(ListsWithout(Q, F, b), Without(F, {b}), CountWithout(Q, F, b, c))
           /\ DOMAIN ListsWithout(Q, F, b) = DOMAIN Q /\ b \notin DOMAIN Without(F, {b})
           /\ \A n \in DOMAIN Q : Len(ListsWithout(Q, F, b)[n]) <= Len(Q[n])
<1> DEFINE k == F[b]
           q == Q[k]
           m == Position(q, b)
           R == ListsWithout(Q, F, b)
           G == Without(F, {b})
<1>0. /\ R = [Q EXCEPT ![k] = Erased(q, m)] /\ G = Without(F, {b}) /\ CountWithout(Q, F, b, c) = c - Counted(q[m])
      /\ m = Position(q, b) /\ q = Q[k] /\ k = F[b]
  BY Zenon DEF ListsWithout, CountWithout
<1> SUFFICES /\ Agree(R, G) /\ Enough(R, G, c - Counted(q[m]))
             /\ DOMAIN R = DOMAIN Q /\ b \notin DOMAIN G
             /\ \A n \in DOMAIN Q : Len(R[n]) <= Len(Q[n])
  BY <1>0
<1> HIDE DEF k, q, m, R, G
<1>1. k \in DOMAIN Q /\ q \in Seq(Request) /\ Distinct(q) /\ F \in [DOMAIN F -> DOMAIN Q] /\ Q \in [DOMAIN Q -> Seq(Request)]
  BY <1>0 DEF Agree
<1>2. PICK e \in Range(q) : e.hash = b
  BY <1>0 DEF Agree
<1>3. m \in 1 .. Len(q) /\ q[m] = e
  BY <1>0, <1>1, <1>2, PositionParts
<1>4. /\ Erased(q, m) \in Seq(Request) /\ Len(Erased(q, m)) = Len(q) - 1
      /\ Distinct(Erased(q, m)) /\ Range(Erased(q, m)) = Range(q) \ {e}
  BY <1>1, <1>3, ErasedParts
<1>5. /\ R \in [DOMAIN Q -> Seq(Request)] /\ DOMAIN R = DOMAIN Q /\ R[k] = Erased(q, m)
      /\ \A n \in DOMAIN Q \ {k} : R[n] = Q[n]
  BY <1>0, <1>1, <1>4
<1>6. /\ DOMAIN G = DOMAIN F \ {b} /\ G \in [DOMAIN G -> DOMAIN Q] /\ \A x \in DOMAIN G : G[x] = F[x]
  BY <1>0, <1>1 DEF Without
<1>7. IsFiniteSet(DOMAIN G)
  <2>1. IsFiniteSet(DOMAIN F)
    BY DEF Agree
  <2> QED BY <1>6, <2>1, FS_RemoveElement
<1>8. \A n \in DOMAIN Q : Range(R[n]) = Range(Q[n]) \ {e}
  <2>1. \A n \in DOMAIN Q \ {k} : e \notin Range(Q[n])
    BY <1>0, <1>2 DEF Agree
  <2> QED BY <1>0, <1>4, <1>5, <2>1
<1>9. \A n \in DOMAIN Q : \A x \in Range(Q[n]) : x # e => x.hash # b
  BY <1>0, <1>1, <1>2, SameRequest
<1>10. \A n \in DOMAIN R : Distinct(R[n])
  BY Zenon, <1>4, <1>5 DEF Agree
<1>11. \A n \in DOMAIN R : \A x \in Range(R[n]) : x.hash \in DOMAIN G /\ G[x.hash] = n
  <2>1. ASSUME NEW n \in DOMAIN Q, NEW x \in Range(R[n]) PROVE x.hash \in DOMAIN G /\ G[x.hash] = n
    <3>1. x \in Range(Q[n]) /\ x # e
      BY Zenon, <1>8, <2>1
    <3>2. x.hash \in DOMAIN F /\ F[x.hash] = n /\ x.hash # b
      BY <1>9, <3>1 DEF Agree
    <3> QED BY <1>6, <3>2
  <2> QED BY Zenon, <1>5, <2>1
<1>12. \A a \in DOMAIN G : \E x \in Range(R[G[a]]) : x.hash = a
  <2>1. SUFFICES ASSUME NEW a \in DOMAIN G PROVE \E x \in Range(R[G[a]]) : x.hash = a
    OBVIOUS
  <2>2. a \in DOMAIN F /\ a # b /\ G[a] = F[a] /\ F[a] \in DOMAIN Q
    BY <1>1, <1>6
  <2>3. PICK x \in Range(Q[F[a]]) : x.hash = a
    BY <2>2 DEF Agree
  <2>4. x \in Range(R[G[a]])
    BY <1>2, <1>8, <2>2, <2>3
  <2> QED BY Zenon, <2>3, <2>4
<1>13. Agree(R, G)
  BY <1>5, <1>6, <1>7, <1>10, <1>11, <1>12 DEF Agree
<1>14. ValidatedIn(R, G) = ValidatedIn(Q, F) \ {b}
  <2>1. ASSUME NEW a \in DOMAIN G, NEW x \in Range(Q[F[a]]), x.hash = a PROVE x \in Range(R[G[a]])
    BY <1>1, <1>2, <1>6, <1>8, <2>1
  <2>2. ASSUME NEW a \in DOMAIN G, NEW x \in Range(R[G[a]]) PROVE x \in Range(Q[F[a]])
    BY <1>1, <1>6, <1>8
  <2> QED BY Zenon, <1>6, <2>1, <2>2 DEF ValidatedIn
<1>15. IsFiniteSet(ValidatedIn(Q, F)) /\ Cardinality(ValidatedIn(Q, F)) \in Nat
  <2>1. ValidatedIn(Q, F) \subseteq DOMAIN F
    BY DEF ValidatedIn
  <2> QED BY <2>1, FS_Subset, FS_CardinalityType DEF Agree
<1>16. Cardinality(ValidatedIn(R, G)) = IF b \in ValidatedIn(Q, F) THEN Cardinality(ValidatedIn(Q, F)) - 1
                                       ELSE Cardinality(ValidatedIn(Q, F))
  <2> DEFINE V == ValidatedIn(Q, F)
  <2>1. IsFiniteSet(V) /\ ValidatedIn(R, G) = V \ {b}
    BY <1>14, <1>15
  <2> HIDE DEF V
  <2>2. Cardinality(V \ {b}) = IF b \in V THEN Cardinality(V) - 1 ELSE Cardinality(V)
    BY Zenon, <2>1, FS_RemoveElement
  <2> QED BY <2>1, <2>2 DEF V
<1>17. IsFiniteSet(ValidatedIn(R, G)) /\ Cardinality(ValidatedIn(R, G)) \in Nat
  <2> DEFINE V == ValidatedIn(Q, F)
  <2>1. IsFiniteSet(V) /\ ValidatedIn(R, G) = V \ {b}
    BY <1>14, <1>15
  <2> HIDE DEF V
  <2>2. IsFiniteSet(V \ {b})
    BY <2>1, FS_RemoveElement
  <2> QED BY <2>1, <2>2, FS_CardinalityType
<1>18. CASE e.fValidatedHeaders
  <2>1. b \in ValidatedIn(Q, F)
    BY <1>0, <1>2, <1>18 DEF ValidatedIn
  <2>2. Counted(q[m]) = 1
    BY <1>3, <1>18 DEF Counted
  <2>3. c \in Nat /\ Cardinality(ValidatedIn(Q, F)) <= c
    BY DEF Enough
  <2> QED BY <1>0, <1>5, <1>6, <1>13, <1>15, <1>16, <1>17, <1>4, <2>1, <2>2, <2>3 DEF Enough
<1>19. CASE ~ e.fValidatedHeaders
  <2>1. b \notin ValidatedIn(Q, F)
    BY <1>1, <1>2, <1>9, <1>19 DEF ValidatedIn
  <2>2. Counted(q[m]) = 0
    BY <1>3, <1>19 DEF Counted
  <2>3. c \in Nat /\ Cardinality(ValidatedIn(Q, F)) <= c
    BY DEF Enough
  <2> QED BY <1>0, <1>5, <1>6, <1>13, <1>15, <1>16, <1>17, <1>4, <2>1, <2>2, <2>3 DEF Enough
<1> QED BY <1>18, <1>19

\* R, G and d agree, and R is Q with one more request to node n.
OneMore(Q, n, R, G, d) ==
    /\ Agree(R, G) /\ Enough(R, G, d) /\ DOMAIN R = DOMAIN Q /\ Len(R[n]) = Len(Q[n]) + 1
    /\ \A m \in DOMAIN Q \ {n} : R[m] = Q[m]

\* MarkBlockAsInFlight adds a request that was not in flight to all three.
LEMMA RequestedAgree ==
    ASSUME NEW Q, NEW F, NEW c, Agree(Q, F), Enough(Q, F, c), NEW n \in DOMAIN Q,
           NEW e \in Request, e.hash \notin DOMAIN F
    PROVE  OneMore(Q, n, ListsWith(Q, n, e), With(F, e.hash, n), c + Counted(e))
<1> DEFINE b == e.hash
           v == e.fValidatedHeaders
           R == ListsWith(Q, n, e)
           G == With(F, b, n)
<1>0. R = [Q EXCEPT ![n] = Append(Q[n], e)] /\ G = With(F, b, n) /\ b = e.hash /\ v = e.fValidatedHeaders
      /\ b \notin DOMAIN F /\ v \in BOOLEAN
  BY DEF ListsWith, Request
<1> SUFFICES /\ Agree(R, G) /\ Enough(R, G, c + Counted(e))
             /\ DOMAIN R = DOMAIN Q /\ Len(R[n]) = Len(Q[n]) + 1
             /\ \A m \in DOMAIN Q \ {n} : R[m] = Q[m]
  BY Zenon DEF OneMore
<1> HIDE DEF b, v, R, G
<1>1. /\ F \in [DOMAIN F -> DOMAIN Q] /\ Q \in [DOMAIN Q -> Seq(Request)] /\ Q[n] \in Seq(Request) /\ Distinct(Q[n])
      /\ e \in Request /\ e.hash = b /\ e.fValidatedHeaders = v
  BY <1>0 DEF Agree
<1>2. \A m \in DOMAIN Q : \A x \in Range(Q[m]) : x.hash # b
  BY <1>0 DEF Agree
<1>3. /\ Append(Q[n], e) \in Seq(Request) /\ Len(Append(Q[n], e)) = Len(Q[n]) + 1
      /\ Distinct(Append(Q[n], e)) /\ Range(Append(Q[n], e)) = Range(Q[n]) \cup {e}
  BY <1>1, <1>2, AppendParts
<1>4. /\ R \in [DOMAIN Q -> Seq(Request)] /\ DOMAIN R = DOMAIN Q /\ R[n] = Append(Q[n], e)
      /\ \A m \in DOMAIN Q \ {n} : R[m] = Q[m]
  BY <1>0, <1>1, <1>3
<1>5. /\ DOMAIN G = DOMAIN F \cup {b} /\ G \in [DOMAIN G -> DOMAIN Q] /\ G[b] = n /\ \A x \in DOMAIN F : G[x] = F[x]
  BY <1>0, <1>1 DEF With
<1>6. IsFiniteSet(DOMAIN G)
  <2>1. IsFiniteSet(DOMAIN F)
    BY DEF Agree
  <2> QED BY <1>5, <2>1, FS_AddElement
<1>7. \A m \in DOMAIN R : Distinct(R[m])
  BY Zenon, <1>3, <1>4 DEF Agree
<1>8. \A m \in DOMAIN R : \A x \in Range(R[m]) : x.hash \in DOMAIN G /\ G[x.hash] = m
  BY <1>0, <1>1, <1>3, <1>4, <1>5 DEF Agree
<1>9. \A a \in DOMAIN F : Range(Q[F[a]]) \subseteq Range(R[G[a]])
  BY Zenon, <1>1, <1>3, <1>4, <1>5
<1>10. e \in Range(R[G[b]])
  BY Zenon, <1>3, <1>4, <1>5
<1>11. Agree(R, G)
  <2>1. \A a \in DOMAIN G : \E x \in Range(R[G[a]]) : x.hash = a
    BY Zenon, <1>1, <1>5, <1>9, <1>10 DEF Agree
  <2> QED BY Zenon, <1>4, <1>5, <1>6, <1>7, <1>8, <2>1 DEF Agree
<1>12. ValidatedIn(R, G) = IF v THEN ValidatedIn(Q, F) \cup {b} ELSE ValidatedIn(Q, F)
  <2>1. ASSUME NEW a \in DOMAIN F, NEW x \in Range(R[G[a]]), x.hash = a PROVE x \in Range(Q[F[a]])
    BY Zenon, <1>1, <1>3, <1>4, <1>5, <2>1
  <2>2. ASSUME NEW a \in DOMAIN F PROVE a \in ValidatedIn(R, G) <=> a \in ValidatedIn(Q, F)
    BY Zenon, <1>5, <1>9, <2>1 DEF ValidatedIn
  <2>3. ASSUME NEW x \in Range(R[G[b]]), x.hash = b PROVE x = e
    BY Zenon, <1>1, <1>2, <1>3, <1>4, <1>5, <2>3
  <2>4. b \in ValidatedIn(R, G) <=> v
    BY <1>1, <1>5, <1>10, <2>3 DEF ValidatedIn
  <2>5. ValidatedIn(R, G) \subseteq DOMAIN F \cup {b} /\ ValidatedIn(Q, F) \subseteq DOMAIN F
    BY <1>5 DEF ValidatedIn
  <2>6. CASE v
    BY <2>2, <2>4, <2>5, <2>6
  <2>7. CASE ~ v
    <3>1. \A a : a \in ValidatedIn(R, G) <=> a \in ValidatedIn(Q, F)
      <4>1. b \notin ValidatedIn(Q, F) /\ b \notin ValidatedIn(R, G)
        BY <1>0, <2>4, <2>5, <2>7
      <4> QED BY Zenon, <2>2, <2>5, <4>1
    <3>2. ValidatedIn(R, G) = ValidatedIn(Q, F)
      BY Zenon, <3>1
    <3> QED BY <2>7, <3>2
  <2> QED BY <2>6, <2>7
<1>13. IsFiniteSet(ValidatedIn(Q, F)) /\ Cardinality(ValidatedIn(Q, F)) \in Nat /\ b \notin ValidatedIn(Q, F)
  <2>1. ValidatedIn(Q, F) \subseteq DOMAIN F
    BY DEF ValidatedIn
  <2> QED BY <1>0, <2>1, FS_Subset, FS_CardinalityType DEF Agree
<1>14. c \in Nat /\ Cardinality(ValidatedIn(Q, F)) <= c
  BY DEF Enough
<1>15. Enough(R, G, c + Counted(e))
  <2>1. CASE v
    <3>1. Cardinality(ValidatedIn(R, G)) = Cardinality(ValidatedIn(Q, F)) + 1
      BY Zenon, <1>12, <1>13, <2>1, FS_AddElement
    <3>2. Counted(e) = 1
      BY Zenon, <1>1, <2>1 DEF Counted
    <3> QED BY <1>13, <1>14, <3>1, <3>2 DEF Enough
  <2>2. CASE ~ v
    <3>1. ValidatedIn(R, G) = ValidatedIn(Q, F)
      BY Zenon, <1>12, <2>2
    <3>2. Counted(e) = 0
      BY Zenon, <1>1, <2>2 DEF Counted
    <3> QED BY <1>13, <1>14, <3>1, <3>2 DEF Enough
  <2> QED BY Zenon, <2>1, <2>2
<1>16. Len(R[n]) = Len(Q[n]) + 1
  BY Zenon, <1>3, <1>4
<1> QED BY Zenon, <1>4, <1>11, <1>15, <1>16

-----------------------------------------------------------------------------
(* The state net. *)

Lists(s) == [n \in DOMAIN s.nodes |-> s.nodes[n].vBlocksInFlight]

\* s is a record of node states, a map and a counter that agree.
NetOK(s) ==
    /\ DOMAIN s = {"nodes", "inFlight", "nQueuedValidatedHeaders"}
    /\ \A n \in DOMAIN s.nodes : "vBlocksInFlight" \in DOMAIN s.nodes[n]
    /\ Agree(Lists(s), s.inFlight) /\ Enough(Lists(s), s.inFlight, s.nQueuedValidatedHeaders)

\* r has the nodes of s, and m requests more to node n at the most.
Grown(s, r, n, m) ==
    /\ DOMAIN r.nodes = DOMAIN s.nodes
    /\ \A l \in DOMAIN s.nodes : Len(Lists(r)[l]) <= Len(Lists(s)[l]) + (IF l = n THEN m ELSE 0)

\* The lists of requests are all that matters of the node states.
LEMMA SameLists ==
    ASSUME NEW s, NetOK(s), NEW r, DOMAIN r = DOMAIN s, r.inFlight = s.inFlight,
           r.nQueuedValidatedHeaders = s.nQueuedValidatedHeaders, DOMAIN r.nodes = DOMAIN s.nodes,
           \A n \in DOMAIN s.nodes :
              "vBlocksInFlight" \in DOMAIN r.nodes[n] /\ r.nodes[n].vBlocksInFlight = s.nodes[n].vBlocksInFlight
    PROVE  NetOK(r) /\ Lists(r) = Lists(s)
<1>1. Lists(r) = Lists(s)
  BY DEF Lists
<1> QED BY <1>1 DEF NetOK

\* The lists hold requests.
LEMMA ListsType ==
    ASSUME NEW s, NetOK(s)
    PROVE  \A n \in DOMAIN s.nodes :
              /\ Lists(s)[n] \in Seq(Request) /\ Len(Lists(s)[n]) \in Nat
              /\ Lists(s)[n] = s.nodes[n].vBlocksInFlight
<1>1. DOMAIN Lists(s) = DOMAIN s.nodes /\ \A n \in DOMAIN s.nodes : Lists(s)[n] = s.nodes[n].vBlocksInFlight
  BY DEF Lists
<1>2. Lists(s) \in [DOMAIN Lists(s) -> Seq(Request)]
  BY Zenon DEF NetOK, Agree
<1>3. \A n \in DOMAIN s.nodes : Lists(s)[n] \in Seq(Request)
  BY Zenon, <1>1, <1>2
<1>4. \A q \in Seq(Request) : Len(q) \in Nat
  OBVIOUS
<1> QED BY Zenon, <1>1, <1>3, <1>4

\* MarkBlockAsReceived, for any block
LEMMA Received ==
    ASSUME NEW s, NetOK(s), NEW b, NEW r, r = MarkBlockAsReceived(s, b)
    PROVE  NetOK(r) /\ b \notin DOMAIN r.inFlight /\ \A n : Grown(s, r, n, 0)
<1>1. ASSUME NEW n \in DOMAIN s.nodes PROVE Lists(s)[n] \in Seq(Request) /\ Len(Lists(s)[n]) \in Nat
  BY Zenon, ListsType
<1>2. CASE b \notin DOMAIN s.inFlight
  <2>1. r = s
    BY <1>2 DEF MarkBlockAsReceived
  <2> QED BY <1>1, <1>2, <2>1 DEF Grown
<1>3. CASE b \in DOMAIN s.inFlight
  <2> DEFINE n == s.inFlight[b]
             queue == s.nodes[n].vBlocksInFlight
             m == Position(queue, b)
             e == Erased(queue, m)
  <2>1. n \in DOMAIN s.nodes /\ queue = Lists(s)[n]
    <3>1. DOMAIN Lists(s) = DOMAIN s.nodes
      BY DEF Lists
    <3>2. n \in DOMAIN s.nodes
      BY <1>3, <3>1 DEF NetOK, Agree
    <3> QED BY Zenon, <3>2, ListsType
  <2>2. /\ r.nodes = [s.nodes EXCEPT ![n] = [s.nodes[n] EXCEPT !.vBlocksInFlight = e, !.fStalling = FALSE]]
        /\ r.inFlight = Without(s.inFlight, {b})
        /\ r.nQueuedValidatedHeaders = s.nQueuedValidatedHeaders - Counted(queue[m])
        /\ DOMAIN r = {"nodes", "inFlight", "nQueuedValidatedHeaders"}
    BY <1>3 DEF MarkBlockAsReceived
  <2>3. /\ DOMAIN r.nodes = DOMAIN s.nodes /\ r.nodes[n].vBlocksInFlight = e
        /\ \A l \in DOMAIN s.nodes : l # n => r.nodes[l] = s.nodes[l]
        /\ \A l \in DOMAIN s.nodes : "vBlocksInFlight" \in DOMAIN r.nodes[l]
    <3> HIDE DEF n, e
    <3> QED BY <2>1, <2>2 DEF NetOK
  <2>4. Lists(r) = [Lists(s) EXCEPT ![n] = e]
    <3> HIDE DEF n, e
    <3> QED BY <2>1, <2>3 DEF Lists
  <2>5. DOMAIN Lists(s) = DOMAIN s.nodes
    BY DEF Lists
  <2>6. /\ Agree(Lists(r), r.inFlight) /\ Enough(Lists(r), r.inFlight, r.nQueuedValidatedHeaders) /\ b \notin DOMAIN r.inFlight
        /\ \A l \in DOMAIN s.nodes : Len(Lists(r)[l]) <= Len(Lists(s)[l])
    <3> DEFINE Q == Lists(s)
               F == s.inFlight
               c == s.nQueuedValidatedHeaders
               R == Lists(r)
               G == r.inFlight
    <3>1. /\ Agree(Q, F) /\ Enough(Q, F, c) /\ b \in DOMAIN F /\ R = ListsWithout(Q, F, b) /\ G = Without(F, {b})
          /\ r.nQueuedValidatedHeaders = CountWithout(Q, F, b, c)
      BY Zenon, <1>3, <2>1, <2>2, <2>4 DEF NetOK, ListsWithout, CountWithout
    <3> HIDE DEF n, queue, m, Q, F, c, R, G
    <3>2. /\ Agree(ListsWithout(Q, F, b), Without(F, {b}))
          /\ Enough(ListsWithout(Q, F, b), Without(F, {b}), CountWithout(Q, F, b, c))
          /\ b \notin DOMAIN Without(F, {b})
          /\ \A l \in DOMAIN Q : Len(ListsWithout(Q, F, b)[l]) <= Len(Q[l])
      BY Zenon, <3>1, ReceivedAgree
    <3>3. /\ Agree(R, G) /\ Enough(R, G, r.nQueuedValidatedHeaders) /\ b \notin DOMAIN G
          /\ \A l \in DOMAIN Q : Len(R[l]) <= Len(Q[l])
      BY <3>1, <3>2
    <3> QED BY Zenon, <2>5, <3>3 DEF Q, R, G
  <2>7. \A k : Grown(s, r, k, 0)
    <3>1. \A l \in DOMAIN s.nodes : Len(Lists(r)[l]) <= Len(Lists(s)[l]) + 0
      BY <1>1, <2>6
    <3> QED BY <2>3, <3>1 DEF Grown
  <2> QED BY Zenon, <2>2, <2>3, <2>6, <2>7 DEF NetOK
<1> QED BY <1>2, <1>3

\* MarkBlockAsInFlight, for any block and a node that exists
LEMMA InFlight ==
    ASSUME NEW s, NetOK(s), NEW n \in DOMAIN s.nodes, NEW b \in Blocks, NEW v \in BOOLEAN,
           NEW t, t = MarkBlockAsInFlight(s, n, b, v)
    PROVE  NetOK(t) /\ Grown(s, t, n, 1)
<1> DEFINE r == MarkBlockAsReceived(s, b)
           e == [hash |-> b, fValidatedHeaders |-> v]
           a == Append(r.nodes[n].vBlocksInFlight, e)
<1>1. NetOK(r) /\ b \notin DOMAIN r.inFlight /\ Grown(s, r, n, 0)
  BY Received
<1>2. /\ t.nodes = [r.nodes EXCEPT ![n] = [r.nodes[n] EXCEPT !.vBlocksInFlight = a]]
      /\ t.inFlight = With(r.inFlight, b, n)
      /\ t.nQueuedValidatedHeaders = r.nQueuedValidatedHeaders + Counted(e)
      /\ DOMAIN t = {"nodes", "inFlight", "nQueuedValidatedHeaders"}
  <2>1. t = [nodes    |-> [r.nodes EXCEPT ![n] = [r.nodes[n] EXCEPT !.vBlocksInFlight = Append(r.nodes[n].vBlocksInFlight, e)]],
             inFlight |-> With(r.inFlight, b, n), nQueuedValidatedHeaders |-> r.nQueuedValidatedHeaders + Counted(e)]
    BY DEF MarkBlockAsInFlight
  <2> HIDE DEF r
  <2> QED BY <2>1
<1> HIDE DEF r
<1>3. n \in DOMAIN r.nodes /\ DOMAIN r.nodes = DOMAIN s.nodes /\ Lists(r)[n] = r.nodes[n].vBlocksInFlight /\ DOMAIN Lists(r) = DOMAIN r.nodes
  BY <1>1 DEF Grown, Lists
<1>4. /\ DOMAIN t.nodes = DOMAIN r.nodes /\ t.nodes[n].vBlocksInFlight = a
      /\ \A l \in DOMAIN r.nodes : l # n => t.nodes[l] = r.nodes[l]
      /\ \A l \in DOMAIN r.nodes : "vBlocksInFlight" \in DOMAIN t.nodes[l]
  <2> HIDE DEF a
  <2> QED BY <1>1, <1>2, <1>3 DEF NetOK
<1>5. Lists(t) = [Lists(r) EXCEPT ![n] = Append(Lists(r)[n], e)]
  <2>1. Lists(t) = [Lists(r) EXCEPT ![n] = a]
    <3> HIDE DEF a
    <3> QED BY <1>3, <1>4 DEF Lists
  <2> QED BY <1>3, <2>1
<1>6. /\ Agree(Lists(t), t.inFlight) /\ Enough(Lists(t), t.inFlight, t.nQueuedValidatedHeaders)
      /\ Len(Lists(t)[n]) = Len(Lists(r)[n]) + 1 /\ \A l \in DOMAIN Lists(r) \ {n} : Lists(t)[l] = Lists(r)[l]
  <2> DEFINE Q == Lists(r)
             F == r.inFlight
             c == r.nQueuedValidatedHeaders
             R == Lists(t)
             G == t.inFlight
  <2>1. /\ Agree(Q, F) /\ Enough(Q, F, c) /\ n \in DOMAIN Q /\ b \notin DOMAIN F
        /\ R = ListsWith(Q, n, e) /\ G = With(F, b, n) /\ t.nQueuedValidatedHeaders = c + Counted(e)
    BY Zenon, <1>1, <1>2, <1>3, <1>5 DEF NetOK, ListsWith
  <2>2. e \in Request /\ e.hash = b
    BY DEF Request
  <2> HIDE DEF e, Q, F, c, R, G
  <2>3. OneMore(Q, n, R, G, t.nQueuedValidatedHeaders)
    <3>1. e.hash \notin DOMAIN F
      BY Zenon, <2>1, <2>2
    <3>2. OneMore(Q, n, ListsWith(Q, n, e), With(F, e.hash, n), c + Counted(e))
      BY Zenon, <2>1, <2>2, <3>1, RequestedAgree
    <3> QED BY Zenon, <2>1, <2>2, <3>2
  <2>4. /\ Agree(R, G) /\ Enough(R, G, t.nQueuedValidatedHeaders) /\ Len(R[n]) = Len(Q[n]) + 1
        /\ \A l \in DOMAIN Q \ {n} : R[l] = Q[l]
    BY Zenon, <2>3 DEF OneMore
  <2> QED BY Zenon, <2>4 DEF Q, R, G
<1>7. Grown(s, t, n, 1)
  <2>1. \A l \in DOMAIN s.nodes : Len(Lists(r)[l]) \in Nat /\ Len(Lists(s)[l]) \in Nat
    <3>1. \A l \in DOMAIN s.nodes : Lists(r)[l] \in Seq(Request)
      BY <1>1, <1>3 DEF NetOK, Agree
    <3>2. \A l \in DOMAIN s.nodes : Lists(s)[l] \in Seq(Request)
      BY Zenon, ListsType
    <3> QED BY <3>1, <3>2
  <2>2. \A l \in DOMAIN s.nodes : Len(Lists(r)[l]) <= Len(Lists(s)[l])
    BY <1>1, <2>1 DEF Grown
  <2>3. \A l \in DOMAIN s.nodes : Len(Lists(t)[l]) <= Len(Lists(s)[l]) + (IF l = n THEN 1 ELSE 0)
    <3>1. ASSUME NEW l \in DOMAIN s.nodes, l # n PROVE Len(Lists(t)[l]) <= Len(Lists(s)[l]) + 0
      BY <1>3, <1>6, <2>1, <2>2, <3>1
    <3>2. Len(Lists(t)[n]) <= Len(Lists(s)[n]) + 1
      BY <1>6, <2>1, <2>2
    <3> QED BY Zenon, <3>1, <3>2
  <2> QED BY Zenon, <1>3, <1>4, <2>3 DEF Grown
<1> QED BY Zenon, <1>2, <1>3, <1>4, <1>6, <1>7 DEF NetOK

\* The requests of one SendMessages, one after the other
LEMMA RequestedGrown ==
    ASSUME NEW s, NetOK(s), NEW n \in DOMAIN s.nodes, NEW q \in Seq(Blocks)
    PROVE  NetOK(Requested(s, n, q)) /\ Grown(s, Requested(s, n, q), n, Len(q))
<1> DEFINE N == Len(q)
           Is(g) == g = [m \in 0 .. N |-> IF m = 0 THEN s ELSE MarkBlockAsInFlight(g[m - 1], n, q[m], TRUE)]
           f == CHOOSE g : Is(g)
           Starts(g, m) == g[0] = s /\ \A l \in 1 .. m : g[l] = MarkBlockAsInFlight(g[l - 1], n, q[l], TRUE)
           T == {m \in 0 .. N : \E g : Starts(g, m)}
<1>1. N \in Nat /\ \A m \in 1 .. N : q[m] \in Blocks
  OBVIOUS
<1>2. 0 \in T
  <2>1. Starts([m \in {0} |-> s], 0) /\ 0 \in 0 .. N
    BY <1>1
  <2> QED BY Zenon, <2>1
<1>3. ASSUME NEW m \in 0 .. N - 1, m \in T PROVE m + 1 \in T
  <2>1. PICK g : Starts(g, m)
    BY Zenon, <1>3
  <2> DEFINE w == MarkBlockAsInFlight(g[m], n, q[m + 1], TRUE)
             h == [l \in 0 .. m + 1 |-> IF l <= m THEN g[l] ELSE w]
  <2> HIDE DEF w
  <2>2. \A l \in 0 .. m : h[l] = g[l]
    OBVIOUS
  <2>3. h[m + 1] = w
    OBVIOUS
  <2>4. m + 1 \in 0 .. N
    BY <1>1
  <2> HIDE DEF h
  <2>5. h[0] = s
    BY <2>1, <2>2
  <2>6. ASSUME NEW l \in 1 .. m + 1 PROVE h[l] = MarkBlockAsInFlight(h[l - 1], n, q[l], TRUE)
    <3>1. CASE l = m + 1
      <4>1. h[l - 1] = g[m]
        BY <2>2, <3>1
      <4> QED BY Zenon, <2>3, <3>1, <4>1 DEF w
    <3>2. CASE l # m + 1
      <4>1. l \in 0 .. m /\ l - 1 \in 0 .. m /\ l \in 1 .. m
        BY <3>2
      <4> QED BY Zenon, <2>1, <2>2, <4>1
    <3> QED BY Zenon, <3>1, <3>2
  <2> QED BY Zenon, <2>4, <2>5, <2>6
<1>4. PICK g : Starts(g, N)
  <2>1. \A m \in 0 .. N : m \in T
    <3> HIDE DEF T, N
    <3> QED BY Zenon, <1>1, <1>2, <1>3, UpTo
  <2>2. N \in 0 .. N
    BY <1>1
  <2> QED BY Zenon, <2>1, <2>2
<1>5. Is([m \in 0 .. N |-> g[m]])
  <2> DEFINE h == [m \in 0 .. N |-> g[m]]
  <2>1. \A m \in 0 .. N : h[m] = g[m]
    OBVIOUS
  <2>2. \A m \in 0 .. N : m # 0 => m \in 1 .. N /\ m - 1 \in 0 .. N
    BY <1>1
  <2>3. h = [m \in 0 .. N |-> IF m = 0 THEN s ELSE MarkBlockAsInFlight(h[m - 1], n, q[m], TRUE)]
    <3>1. ASSUME NEW m \in 0 .. N PROVE g[m] = IF m = 0 THEN s ELSE MarkBlockAsInFlight(h[m - 1], n, q[m], TRUE)
      <4> HIDE DEF h, N
      <4>1. CASE m = 0
        BY <1>4, <4>1
      <4>2. CASE m # 0
        BY Zenon, <1>4, <2>1, <2>2, <4>2
      <4> QED BY Zenon, <4>1, <4>2
    <3> HIDE DEF N
    <3> QED BY Zenon, <3>1
  <2> QED BY Zenon, <2>3
<1>6. Is(f) /\ Requested(s, n, q) = f[N]
  <2>1. Requested(s, n, q) = f[N]
    BY DEF Requested
  <2> HIDE DEF Is
  <2> QED BY Zenon, <1>5, <2>1
<1> HIDE DEF f
<1>7. f[0] = s
  BY <1>1, <1>6
<1>8. ASSUME NEW m \in 1 .. N PROVE f[m] = MarkBlockAsInFlight(f[m - 1], n, q[m], TRUE)
  <2>1. m \in 0 .. N /\ m # 0
    BY <1>1
  <2> QED BY Zenon, <1>6, <2>1
<1> DEFINE S == {m \in 0 .. N : NetOK(f[m]) /\ Grown(s, f[m], n, m)}
<1>9. \A l \in DOMAIN s.nodes : Len(Lists(s)[l]) \in Nat
  BY Zenon, ListsType
<1>10. 0 \in S
  <2>1. Grown(s, s, n, 0)
    BY <1>9 DEF Grown
  <2> QED BY <1>1, <1>7, <2>1
<1>11. ASSUME NEW m \in 0 .. N - 1, m \in S PROVE m + 1 \in S
  <2>1. m + 1 \in 1 .. N /\ (m + 1) - 1 = m /\ m + 1 \in 0 .. N /\ m \in Nat
    BY <1>1
  <2>2. f[m + 1] = MarkBlockAsInFlight(f[m], n, q[m + 1], TRUE)
    BY Zenon, <1>8, <2>1
  <2>3. NetOK(f[m]) /\ Grown(s, f[m], n, m) /\ DOMAIN f[m].nodes = DOMAIN s.nodes
    BY Zenon, <1>11 DEF Grown
  <2>4. NetOK(f[m + 1]) /\ Grown(f[m], f[m + 1], n, 1)
    BY Zenon, <1>1, <2>1, <2>2, <2>3, InFlight
  <2>5. Grown(s, f[m + 1], n, m + 1)
    <3>1. \A l \in DOMAIN s.nodes : Len(Lists(f[m])[l]) \in Nat /\ Len(Lists(f[m + 1])[l]) \in Nat
      <4>1. \A l \in DOMAIN s.nodes : Lists(f[m])[l] \in Seq(Request)
        BY Zenon, <2>3, ListsType
      <4>2. \A l \in DOMAIN s.nodes : Lists(f[m + 1])[l] \in Seq(Request)
        BY <2>3, <2>4, ListsType DEF Grown
      <4> QED BY <4>1, <4>2
    <3>2. DOMAIN f[m + 1].nodes = DOMAIN s.nodes
      BY <2>3, <2>4 DEF Grown
    <3>3. n \in DOMAIN s.nodes /\ Len(Lists(f[m + 1])[n]) <= Len(Lists(s)[n]) + (m + 1)
      <4>1. Len(Lists(f[m + 1])[n]) <= Len(Lists(f[m])[n]) + 1 /\ Len(Lists(f[m])[n]) <= Len(Lists(s)[n]) + m
        BY Zenon, <2>3, <2>4 DEF Grown
      <4>2. Len(Lists(f[m + 1])[n]) \in Nat /\ Len(Lists(f[m])[n]) \in Nat /\ Len(Lists(s)[n]) \in Nat
        BY <1>9, <3>1
      <4>3. \A x, y, z \in Nat : x <= y + 1 /\ y <= z + m => x <= z + (m + 1)
        BY <2>1
      <4> QED BY Zenon, <4>1, <4>2, <4>3
    <3>4. ASSUME NEW l \in DOMAIN s.nodes, l # n PROVE Len(Lists(f[m + 1])[l]) <= Len(Lists(s)[l]) + 0
      <4>1. Len(Lists(f[m + 1])[l]) <= Len(Lists(f[m])[l]) + 0 /\ Len(Lists(f[m])[l]) <= Len(Lists(s)[l]) + 0
        BY Zenon, <2>3, <2>4, <3>4 DEF Grown
      <4> QED BY <1>9, <3>1, <4>1
    <3> QED BY Zenon, <3>2, <3>3, <3>4 DEF Grown
  <2> QED BY Zenon, <2>1, <2>4, <2>5
<1>12. N \in S
  <2>1. \A m \in 0 .. N : m \in S
    <3> HIDE DEF S, N
    <3> QED BY Zenon, <1>1, <1>10, <1>11, UpTo
  <2>2. N \in 0 .. N
    BY <1>1
  <2> QED BY Zenon, <2>1, <2>2
<1> QED BY Zenon, <1>6, <1>12
-----------------------------------------------------------------------------
(* The blocks of a chain, by their height. *)

\* The place of b in a set S of blocks of one chain
Rank(S, b) == Cardinality({c \in S : Height[c] < Height[b]})

\* S is a finite set of blocks of different heights.
OneChain(S) == S \subseteq Blocks /\ IsFiniteSet(S) /\ \A b, c \in S : Height[b] = Height[c] => b = c

\* The ancestors of a block are such a set.
LEMMA AncestorsChain ==
    ASSUME NEW x \in Blocks, NEW S, S \subseteq Ancestors[x]
    PROVE  OneChain(S)
<1>1. Ancestors[x] \subseteq Blocks
  BY AncestorsAssumption
<1>2. \A b, c \in Ancestors[x] : Height[b] = Height[c] => b = c
  BY <1>1, AncestorsAssumption
<1>3. \A b \in Ancestors[x] : Height[b] \in 0 .. Height[x]
  <2>1. \A b \in Ancestors[x] : Height[b] <= Height[x]
    BY AncestorsAssumption
  <2>2. \A b \in Ancestors[x] : Height[b] \in Nat
    BY <1>1, TreeAssumption
  <2>3. Height[x] \in Nat
    BY TreeAssumption
  <2> QED BY <2>1, <2>2, <2>3
<1>4. [b \in S |-> Height[b]] \in Injection(S, 0 .. Height[x])
  BY <1>2, <1>3 DEF Injection, IsInjective
<1>5. IsFiniteSet(0 .. Height[x])
  BY FS_Interval, TreeAssumption
<1>6. IsFiniteSet(S)
  BY <1>4, <1>5, FS_Injection
<1> QED BY <1>1, <1>2, <1>6 DEF OneChain

\* Blocks of different heights have different places, from 0 upwards.
LEMMA RankParts ==
    ASSUME NEW S, OneChain(S)
    PROVE  /\ \A b \in S : Rank(S, b) \in 0 .. Cardinality(S) - 1
           /\ \A b, c \in S : Rank(S, b) = Rank(S, c) => b = c
<1> DEFINE Below(b) == {c \in S : Height[c] < Height[b]}
<1>1. \A b \in S : Height[b] \in Nat
  BY TreeAssumption DEF OneChain
<1>2. \A b \in S : IsFiniteSet(Below(b)) /\ Cardinality(Below(b)) \in Nat
  BY FS_Subset, FS_CardinalityType DEF OneChain
<1>3. IsFiniteSet(S) /\ Cardinality(S) \in Nat
  BY FS_CardinalityType DEF OneChain
<1>4. ASSUME NEW b \in S, NEW X, IsFiniteSet(X), Below(b) \cup {b} \subseteq X PROVE Cardinality(Below(b)) < Cardinality(X)
  <2>1. b \notin Below(b)
    BY <1>1
  <2>2. IsFiniteSet(Below(b) \cup {b}) /\ Cardinality(Below(b) \cup {b}) = Cardinality(Below(b)) + 1
    <3> HIDE DEF Below
    <3> QED BY Zenon, <1>2, <2>1, FS_AddElement
  <2>3. Cardinality(Below(b) \cup {b}) <= Cardinality(X) /\ Cardinality(X) \in Nat
    <3> HIDE DEF Below
    <3> QED BY <1>4, FS_Subset, FS_CardinalityType
  <2> QED BY <1>2, <2>2, <2>3
<1>5. ASSUME NEW b \in S PROVE Rank(S, b) \in 0 .. Cardinality(S) - 1
  <2>1. Cardinality(Below(b)) < Cardinality(S)
    BY <1>3, <1>4
  <2>2. Rank(S, b) = Cardinality(Below(b))
    BY Zenon DEF Rank
  <2> HIDE DEF Below
  <2> QED BY <1>2, <1>3, <2>1, <2>2
<1>6. ASSUME NEW b \in S, NEW c \in S, Height[b] < Height[c] PROVE Rank(S, b) < Rank(S, c)
  <2>1. Below(b) \cup {b} \subseteq Below(c)
    BY <1>1, <1>6
  <2>2. Cardinality(Below(b)) < Cardinality(Below(c))
    BY <1>2, <1>4, <2>1
  <2> QED BY <2>2 DEF Rank
<1>7. ASSUME NEW b \in S, NEW c \in S, Rank(S, b) = Rank(S, c) PROVE b = c
  <2>1. Rank(S, b) \in Int /\ ~(Rank(S, b) < Rank(S, c)) /\ ~(Rank(S, c) < Rank(S, b))
    BY <1>5, <1>7
  <2>2. Height[b] = Height[c]
    BY <1>1, <1>6, <2>1
  <2> QED BY <2>2 DEF OneChain
<1> QED BY <1>5, <1>7

\* ByHeight lists the blocks of S.
LEMMA ByHeightParts ==
    ASSUME NEW S, OneChain(S)
    PROVE  ByHeight(S) \in Seq(Blocks) /\ Len(ByHeight(S)) = Cardinality(S)
<1> DEFINE N == Cardinality(S)
           rank == [b \in S |-> Rank(S, b)]
<1>1. IsFiniteSet(S) /\ N \in Nat /\ S \subseteq Blocks
  BY FS_CardinalityType DEF OneChain
<1>2. rank \in Injection(S, 0 .. N - 1)
  BY RankParts DEF Injection, IsInjective
<1>3. IsFiniteSet(0 .. N - 1) /\ Cardinality(0 .. N - 1) = N
  <2>1. 0 \in Int /\ N - 1 \in Int
    BY <1>1
  <2> HIDE DEF N
  <2>2. IsFiniteSet(0 .. N - 1) /\ Cardinality(0 .. N - 1) = IF 0 > N - 1 THEN 0 ELSE (N - 1) - 0 + 1
    BY <2>1, FS_Interval
  <2> QED BY <1>1, <2>2
<1>4. rank \in Surjection(S, 0 .. N - 1)
  <2> DEFINE U == 0 .. N - 1
  <2>1. rank \in Injection(S, U) /\ IsFiniteSet(U) /\ Cardinality(S) = Cardinality(U)
    BY <1>2, <1>3
  <2> HIDE DEF U, rank
  <2>2. rank \in Surjection(S, U)
    BY <2>1, FS_Injection
  <2> QED BY <2>2 DEF U
<1>5. ASSUME NEW m \in 1 .. N PROVE \E b \in S : Rank(S, b) = m - 1
  <2>1. m - 1 \in 0 .. N - 1
    BY <1>1
  <2>2. PICK b \in S : rank[b] = m - 1
    <3> HIDE DEF rank
    <3> QED BY <1>4, <2>1 DEF Surjection
  <2> QED BY <2>2
<1>6. ASSUME NEW m \in 1 .. N PROVE (CHOOSE b \in S : Cardinality({c \in S : Height[c] < Height[b]}) = m - 1) \in Blocks
  <2>1. (CHOOSE b \in S : Rank(S, b) = m - 1) \in S
    BY Zenon, <1>5
  <2>2. (CHOOSE b \in S : Cardinality({c \in S : Height[c] < Height[b]}) = m - 1) \in S
    BY Zenon, <2>1 DEF Rank
  <2> QED BY <1>1, <2>2
<1>7. ByHeight(S) = [m \in 1 .. N |-> CHOOSE b \in S : Cardinality({c \in S : Height[c] < Height[b]}) = m - 1]
  BY Zenon DEF ByHeight
<1>8. ByHeight(S) \in [1 .. N -> Blocks]
  <2> HIDE DEF N
  <2> QED BY Zenon, <1>6, <1>7
<1> QED BY <1>1, <1>8

\* FindNextBlocksToDownload finds as many blocks as it was asked for at the most.
LEMMA FetchBound ==
    ASSUME NEW missing, OneChain(missing), NEW count \in Nat, NEW fetch, fetch \subseteq {b \in missing : Rank(missing, b) < count}
    PROVE  OneChain(fetch) /\ Cardinality(fetch) <= count
<1>1. fetch \subseteq missing
  OBVIOUS
<1>2. OneChain(fetch)
  BY <1>1, FS_Subset DEF OneChain
<1> DEFINE rank == [b \in fetch |-> Rank(missing, b)]
<1>3. rank \in Injection(fetch, 0 .. count - 1)
  <2>1. \A b \in fetch : Rank(missing, b) \in 0 .. count - 1
    <3>1. \A b \in missing : Rank(missing, b) \in 0 .. Cardinality(missing) - 1
      BY RankParts
    <3>2. Cardinality(missing) \in Nat
      BY FS_CardinalityType DEF OneChain
    <3> QED BY <3>1, <3>2
  <2>2. \A b, c \in fetch : rank[b] = rank[c] => b = c
    BY <1>1, RankParts
  <2> QED BY <2>1, <2>2 DEF Injection, IsInjective
<1>4. IsFiniteSet(0 .. count - 1) /\ Cardinality(0 .. count - 1) = count
  <2>1. 0 \in Int /\ count - 1 \in Int
    OBVIOUS
  <2>2. IsFiniteSet(0 .. count - 1) /\ Cardinality(0 .. count - 1) = IF 0 > count - 1 THEN 0 ELSE (count - 1) - 0 + 1
    BY <2>1, FS_Interval
  <2> QED BY <2>2
<1>5. Cardinality(fetch) <= Cardinality(0 .. count - 1)
  <2> DEFINE U == 0 .. count - 1
  <2>1. rank \in Injection(fetch, U) /\ IsFiniteSet(U)
    BY <1>3, <1>4
  <2> HIDE DEF U, rank
  <2>2. Cardinality(fetch) <= Cardinality(U)
    BY <2>1, FS_Injection
  <2> QED BY <2>2 DEF U
<1> QED BY <1>2, <1>4, <1>5

\* The requests that FindNextBlocksToDownload asks for fit below the limit.
LEMMA FoundParts ==
    ASSUME NEW state, NEW n, NEW common, state.pindexBestKnownBlock \in Blocks,
           Len(state.vBlocksInFlight) \in Nat, Len(state.vBlocksInFlight) < MaxInTransit
    PROVE  /\ FindNextBlocksToDownload(state, n, common).fetch \in Seq(Blocks)
           /\ Len(FindNextBlocksToDownload(state, n, common).fetch) <= MaxInTransit - Len(state.vBlocksInFlight)
<1> DEFINE nWindowEnd == Height[common] + Window
           count   == MaxInTransit - Len(state.vBlocksInFlight)
           walk    == {b \in Ancestors[state.pindexBestKnownBlock] \ Ancestors[common] :
                          Height[b] <= nWindowEnd + 1 /\ ~ Invalid(b)}
           have    == data \cup Ancestors[Tip]
           missing == walk \ (have \cup DOMAIN net.inFlight)
           fetch   == {b \in missing : /\ InWindow(b, nWindowEnd)
                                       /\ Cardinality({c \in missing : Height[c] < Height[b]}) < count}
<1>1. count \in Nat
  BY BlockDownloadAssumption
<1>2. OneChain(missing)
  <2>1. missing \subseteq Ancestors[state.pindexBestKnownBlock]
    OBVIOUS
  <2> HIDE DEF missing
  <2> QED BY <2>1, AncestorsChain
<1>3. FindNextBlocksToDownload(state, n, common).fetch = ByHeight(fetch)
  BY Zenon DEF FindNextBlocksToDownload
<1>4. OneChain(fetch) /\ Cardinality(fetch) <= count
  <2> HIDE DEF missing, count, nWindowEnd
  <2>1. fetch \subseteq {b \in missing : Rank(missing, b) < count}
    BY Zenon DEF Rank
  <2> HIDE DEF fetch
  <2> QED BY <1>1, <1>2, <2>1, FetchBound
<1> HIDE DEF fetch, count
<1>5. ByHeight(fetch) \in Seq(Blocks) /\ Len(ByHeight(fetch)) = Cardinality(fetch)
  BY <1>4, ByHeightParts
<1>6. Len(ByHeight(fetch)) <= count
  BY <1>4, <1>5
<1> QED BY Zenon, <1>3, <1>5, <1>6 DEF count

-----------------------------------------------------------------------------
(* The inductive invariant. *)

\* The nodes that have a state are those that the socket thread holds; the message
\* thread works on some of them.
ConnInv ==
    /\ vNodes \cap vNodesDisconnected = {} /\ vNodes \cup vNodesDisconnected \subseteq used /\ used \subseteq Nodes
    /\ copy \subseteq vNodes \cup vNodesDisconnected
    /\ DOMAIN net.nodes = vNodes \cup vNodesDisconnected

\* No node has more requests than the limit.
Within(s) == \A n \in DOMAIN s.nodes : Len(Lists(s)[n]) <= MaxInTransit

DownloadInv == ConnInv /\ NetOK(net) /\ Within(net)

\* UpdateBlockAvailability and ProcessBlockAvailability keep the requests.
LEMMA AvailabilityParts ==
    ASSUME NEW state, NEW b, NEW known, "vBlocksInFlight" \in DOMAIN state
    PROVE  /\ "vBlocksInFlight" \in DOMAIN ProcessBlockAvailability(state, known)
           /\ ProcessBlockAvailability(state, known).vBlocksInFlight = state.vBlocksInFlight
           /\ "vBlocksInFlight" \in DOMAIN UpdateBlockAvailability(state, b, known)
           /\ UpdateBlockAvailability(state, b, known).vBlocksInFlight = state.vBlocksInFlight
<1> DEFINE p == ProcessBlockAvailability(state, known)
<1>1. "vBlocksInFlight" \in DOMAIN p /\ p.vBlocksInFlight = state.vBlocksInFlight
  BY DEF ProcessBlockAvailability
<1>2. \/ UpdateBlockAvailability(state, b, known) = [p EXCEPT !.hashLastUnknownBlock = b]
      \/ UpdateBlockAvailability(state, b, known) = [p EXCEPT !.pindexBestKnownBlock = IF Better(p, b) THEN b ELSE p.pindexBestKnownBlock]
  BY Zenon DEF UpdateBlockAvailability
<1> HIDE DEF p
<1>3. /\ "vBlocksInFlight" \in DOMAIN UpdateBlockAvailability(state, b, known)
      /\ UpdateBlockAvailability(state, b, known).vBlocksInFlight = p.vBlocksInFlight
  BY <1>1, <1>2
<1> QED BY <1>1, <1>3 DEF p

\* A node state is replaced by one with the same requests.
LEMMA StateReplaced ==
    ASSUME NEW s, NetOK(s), NEW n \in DOMAIN s.nodes, NEW state, "vBlocksInFlight" \in DOMAIN state,
           state.vBlocksInFlight = s.nodes[n].vBlocksInFlight, NEW r, r = [s EXCEPT !.nodes[n] = state]
    PROVE  /\ NetOK(r) /\ Lists(r) = Lists(s) /\ DOMAIN r.nodes = DOMAIN s.nodes /\ r.nodes[n] = state
           /\ r.inFlight = s.inFlight
<1>1. DOMAIN s = {"nodes", "inFlight", "nQueuedValidatedHeaders"} /\ \A m \in DOMAIN s.nodes : "vBlocksInFlight" \in DOMAIN s.nodes[m]
  BY DEF NetOK
<1>2. /\ DOMAIN r = DOMAIN s /\ r.inFlight = s.inFlight /\ r.nQueuedValidatedHeaders = s.nQueuedValidatedHeaders
      /\ r.nodes = [s.nodes EXCEPT ![n] = state]
  BY <1>1
<1>3. /\ DOMAIN r.nodes = DOMAIN s.nodes /\ r.nodes[n] = state
      /\ \A m \in DOMAIN s.nodes : m # n => r.nodes[m] = s.nodes[m]
  BY <1>2
<1>4. \A m \in DOMAIN s.nodes :
         "vBlocksInFlight" \in DOMAIN r.nodes[m] /\ r.nodes[m].vBlocksInFlight = s.nodes[m].vBlocksInFlight
  BY <1>1, <1>3
<1> QED BY Zenon, <1>2, <1>3, <1>4, SameLists

\* InitializeNode adds a node without requests.
LEMMA InitializedAgree ==
    ASSUME NEW Q, NEW F, NEW c, Agree(Q, F), Enough(Q, F, c), NEW n, n \notin DOMAIN Q
    PROVE  Agree(With(Q, n, <<>>), F) /\ Enough(With(Q, n, <<>>), F, c)
<1> DEFINE R == With(Q, n, <<>>)
<1>1. /\ Q \in [DOMAIN Q -> Seq(Request)] /\ F \in [DOMAIN F -> DOMAIN Q] /\ IsFiniteSet(DOMAIN F)
      /\ \A m \in DOMAIN Q : Distinct(Q[m])
      /\ \A m \in DOMAIN Q : \A e \in Range(Q[m]) : e.hash \in DOMAIN F /\ F[e.hash] = m
      /\ \A b \in DOMAIN F : \E e \in Range(Q[F[b]]) : e.hash = b
  BY Zenon DEF Agree
<1>2. /\ DOMAIN R = DOMAIN Q \cup {n} /\ R[n] = <<>> /\ R \in [DOMAIN R -> Seq(Request)]
      /\ \A m \in DOMAIN Q : R[m] = Q[m]
  BY <1>1 DEF With
<1> HIDE DEF R
<1>3. Distinct(<<>>) /\ Range(<<>>) = {}
  BY DEF Distinct, Range
<1>4. F \in [DOMAIN F -> DOMAIN R] /\ \A b \in DOMAIN F : R[F[b]] = Q[F[b]]
  BY <1>1, <1>2
<1>5. \A m \in DOMAIN R : Distinct(R[m]) /\ \A e \in Range(R[m]) : e.hash \in DOMAIN F /\ F[e.hash] = m
  BY <1>1, <1>2, <1>3
<1>6. \A b \in DOMAIN F : \E e \in Range(R[F[b]]) : e.hash = b
  BY <1>1, <1>4
<1>7. Agree(R, F)
  BY Zenon, <1>1, <1>2, <1>4, <1>5, <1>6 DEF Agree
<1>8. ValidatedIn(R, F) = ValidatedIn(Q, F)
  BY <1>4 DEF ValidatedIn
<1> QED BY <1>7, <1>8 DEF Enough, R

\* FinalizeNode takes a node and its requests from the lists and the map; the
\* counter stays as it is.
LEMMA FinalizedAgree ==
    ASSUME NEW Q, NEW F, NEW c, Agree(Q, F), Enough(Q, F, c), NEW n \in DOMAIN Q,
           NEW H, H = {e.hash : e \in Range(Q[n])}
    PROVE  Agree(Without(Q, {n}), Without(F, H)) /\ Enough(Without(Q, {n}), Without(F, H), c)
<1> DEFINE R == Without(Q, {n})
           G == Without(F, H)
<1>1. /\ Q \in [DOMAIN Q -> Seq(Request)] /\ F \in [DOMAIN F -> DOMAIN Q] /\ IsFiniteSet(DOMAIN F)
      /\ \A m \in DOMAIN Q : Distinct(Q[m])
      /\ \A m \in DOMAIN Q : \A e \in Range(Q[m]) : e.hash \in DOMAIN F /\ F[e.hash] = m
      /\ \A b \in DOMAIN F : \E e \in Range(Q[F[b]]) : e.hash = b
  BY Zenon DEF Agree
<1>2. \A b \in DOMAIN F : b \in H <=> F[b] = n
  BY <1>1
<1>3. /\ DOMAIN R = DOMAIN Q \ {n} /\ R \in [DOMAIN R -> Seq(Request)] /\ \A m \in DOMAIN R : R[m] = Q[m]
  BY <1>1 DEF Without
<1>4. /\ DOMAIN G = DOMAIN F \ H /\ G \in [DOMAIN G -> DOMAIN R] /\ \A b \in DOMAIN G : G[b] = F[b]
  <2>1. DOMAIN G = DOMAIN F \ H /\ \A b \in DOMAIN G : G[b] = F[b]
    BY DEF Without
  <2>2. G = [b \in DOMAIN G |-> G[b]]
    BY DEF Without
  <2> HIDE DEF G
  <2> QED BY Zenon, <1>1, <1>2, <1>3, <2>1, <2>2
<1> HIDE DEF R, G
<1>5. IsFiniteSet(DOMAIN G)
  BY <1>1, <1>4, FS_Subset
<1>6. \A m \in DOMAIN R : Distinct(R[m]) /\ \A e \in Range(R[m]) : e.hash \in DOMAIN G /\ G[e.hash] = m
  BY <1>1, <1>2, <1>3, <1>4
<1>7. \A b \in DOMAIN G : b \in DOMAIN F /\ R[G[b]] = Q[F[b]]
  BY <1>3, <1>4
<1>8. \A b \in DOMAIN G : \E e \in Range(R[G[b]]) : e.hash = b
  BY <1>1, <1>7
<1>9. Agree(R, G)
  BY Zenon, <1>3, <1>4, <1>5, <1>6, <1>8 DEF Agree
<1>10. ValidatedIn(R, G) \subseteq ValidatedIn(Q, F) /\ ValidatedIn(Q, F) \subseteq DOMAIN F
  BY <1>7 DEF ValidatedIn
<1>11. IsFiniteSet(ValidatedIn(Q, F)) /\ Cardinality(ValidatedIn(Q, F)) \in Nat
  BY <1>1, <1>10, FS_Subset, FS_CardinalityType
<1>12. Cardinality(ValidatedIn(R, G)) \in Nat /\ Cardinality(ValidatedIn(R, G)) <= Cardinality(ValidatedIn(Q, F))
  BY <1>10, <1>11, FS_Subset, FS_CardinalityType
<1> QED BY <1>9, <1>11, <1>12 DEF Enough, R, G

\* A node is connected.
LEMMA InitializeNodeStep ==
    ASSUME DownloadInv, NEW n \in Nodes, InitializeNode(n)
    PROVE  DownloadInv'
<1>1. /\ n \notin used /\ used' = used \cup {n} /\ vNodes' = vNodes \cup {n} /\ vNodesDisconnected' = vNodesDisconnected
      /\ copy' = copy /\ net' = [net EXCEPT !.nodes = With(net.nodes, n, NewNodeState)]
  BY DEF InitializeNode
<1>2. n \notin DOMAIN net.nodes
  BY <1>1 DEF DownloadInv, ConnInv
<1>3. /\ net'.nodes = With(net.nodes, n, NewNodeState) /\ net'.inFlight = net.inFlight
      /\ net'.nQueuedValidatedHeaders = net.nQueuedValidatedHeaders
      /\ DOMAIN net' = {"nodes", "inFlight", "nQueuedValidatedHeaders"}
  BY <1>1 DEF DownloadInv, NetOK
<1>4. NewNodeState.vBlocksInFlight = <<>> /\ "vBlocksInFlight" \in DOMAIN NewNodeState
  BY DEF NewNodeState
<1>5. /\ DOMAIN net'.nodes = DOMAIN net.nodes \cup {n} /\ net'.nodes[n] = NewNodeState
      /\ \A m \in DOMAIN net.nodes : net'.nodes[m] = net.nodes[m]
  BY <1>2, <1>3 DEF With
<1>6. Lists(net') = With(Lists(net), n, <<>>) /\ DOMAIN Lists(net) = DOMAIN net.nodes
  BY <1>2, <1>4, <1>5 DEF Lists, With
<1>7. Agree(Lists(net'), net'.inFlight) /\ Enough(Lists(net'), net'.inFlight, net'.nQueuedValidatedHeaders)
  <2>1. Agree(Lists(net), net.inFlight) /\ Enough(Lists(net), net.inFlight, net.nQueuedValidatedHeaders) /\ n \notin DOMAIN Lists(net)
    BY Zenon, <1>2, <1>6 DEF DownloadInv, NetOK
  <2>2. Agree(With(Lists(net), n, <<>>), net.inFlight) /\ Enough(With(Lists(net), n, <<>>), net.inFlight, net.nQueuedValidatedHeaders)
    BY Zenon, <2>1, InitializedAgree
  <2> QED BY <1>3, <1>6, <2>2
<1>8. \A m \in DOMAIN net'.nodes : "vBlocksInFlight" \in DOMAIN net'.nodes[m]
  BY <1>4, <1>5 DEF DownloadInv, NetOK
<1>9. NetOK(net')
  BY Zenon, <1>3, <1>7, <1>8 DEF NetOK
<1>10. \A m \in DOMAIN net'.nodes : Len(Lists(net')[m]) <= MaxInTransit
  <2>1. Lists(net')[n] = <<>> /\ \A m \in DOMAIN net.nodes : Lists(net')[m] = Lists(net)[m]
    BY <1>2, <1>6 DEF With
  <2>2. Len(<<>>) <= MaxInTransit
    BY BlockDownloadAssumption
  <2> QED BY <1>5, <2>1, <2>2 DEF DownloadInv, Within
<1>11. ConnInv'
  BY <1>1, <1>5 DEF DownloadInv, ConnInv
<1> QED BY Zenon, <1>9, <1>10, <1>11 DEF DownloadInv, Within, NetOK, Lists

\* A disconnected node is deleted.
LEMMA FinalizeNodeStep ==
    ASSUME DownloadInv, NEW n \in Nodes, FinalizeNode(n)
    PROVE  DownloadInv'
<1>1. /\ n \in vNodesDisconnected /\ n \notin copy /\ vNodesDisconnected' = vNodesDisconnected \ {n}
      /\ vNodes' = vNodes /\ copy' = copy /\ used' = used
      /\ net' = [net EXCEPT !.nodes = Without(net.nodes, {n}), !.inFlight = Without(net.inFlight, InFlightFrom(n))]
  BY DEF FinalizeNode
<1>2. n \in DOMAIN net.nodes
  BY <1>1 DEF DownloadInv, ConnInv
<1>3. /\ net'.nodes = Without(net.nodes, {n}) /\ net'.inFlight = Without(net.inFlight, InFlightFrom(n))
      /\ net'.nQueuedValidatedHeaders = net.nQueuedValidatedHeaders
      /\ DOMAIN net' = {"nodes", "inFlight", "nQueuedValidatedHeaders"}
  BY <1>1 DEF DownloadInv, NetOK
<1>4. /\ DOMAIN net'.nodes = DOMAIN net.nodes \ {n} /\ \A m \in DOMAIN net'.nodes : net'.nodes[m] = net.nodes[m]
  BY <1>3 DEF Without
<1>5. /\ Lists(net') = Without(Lists(net), {n}) /\ n \in DOMAIN Lists(net) /\ Lists(net)[n] = net.nodes[n].vBlocksInFlight
      /\ \A m \in DOMAIN net'.nodes : Lists(net')[m] = Lists(net)[m]
  BY <1>2, <1>4 DEF Lists, Without
<1>6. Agree(Lists(net'), net'.inFlight) /\ Enough(Lists(net'), net'.inFlight, net'.nQueuedValidatedHeaders)
  <2>1. Agree(Lists(net), net.inFlight) /\ Enough(Lists(net), net.inFlight, net.nQueuedValidatedHeaders) /\ n \in DOMAIN Lists(net)
    BY Zenon, <1>5 DEF DownloadInv, NetOK
  <2>2. InFlightFrom(n) = {e.hash : e \in Range(Lists(net)[n])}
    BY Zenon, <1>5 DEF InFlightFrom
  <2>3. /\ Agree(Without(Lists(net), {n}), Without(net.inFlight, InFlightFrom(n)))
        /\ Enough(Without(Lists(net), {n}), Without(net.inFlight, InFlightFrom(n)), net.nQueuedValidatedHeaders)
    BY Zenon, <2>1, <2>2, FinalizedAgree
  <2> QED BY <1>3, <1>5, <2>3
<1>7. \A m \in DOMAIN net'.nodes : "vBlocksInFlight" \in DOMAIN net'.nodes[m]
  BY <1>4 DEF DownloadInv, NetOK
<1>8. NetOK(net')
  BY Zenon, <1>3, <1>6, <1>7 DEF NetOK
<1>9. \A m \in DOMAIN net'.nodes : Len(Lists(net')[m]) <= MaxInTransit
  BY Zenon, <1>4, <1>5 DEF DownloadInv, Within
<1>10. ConnInv'
  BY <1>1, <1>4 DEF DownloadInv, ConnInv
<1> QED BY Zenon, <1>8, <1>9, <1>10 DEF DownloadInv, Within, NetOK, Lists

\* As many requests as fit are added.
LEMMA GrownWithin ==
    ASSUME NEW s, NetOK(s), Within(s), NEW n \in DOMAIN s.nodes, NEW m \in Nat, Len(Lists(s)[n]) + m <= MaxInTransit,
           NEW r, Grown(s, r, n, m), NetOK(r)
    PROVE  Within(r)
<1>1. \A l \in DOMAIN s.nodes : Len(Lists(s)[l]) \in Nat
  BY Zenon, ListsType
<1>2. \A l \in DOMAIN r.nodes : Len(Lists(r)[l]) \in Nat
  BY Zenon, ListsType
<1>3. SUFFICES ASSUME NEW l \in DOMAIN s.nodes PROVE Len(Lists(r)[l]) <= MaxInTransit
  BY DEF Within, Grown
<1>4. /\ Len(Lists(r)[l]) \in Nat /\ Len(Lists(s)[l]) \in Nat /\ Len(Lists(s)[n]) \in Nat
      /\ Len(Lists(s)[l]) <= MaxInTransit /\ MaxInTransit \in Nat
  BY <1>1, <1>2, BlockDownloadAssumption DEF Grown, Within
<1>5. CASE l = n
  <2>1. Len(Lists(r)[n]) <= Len(Lists(s)[n]) + m
    BY Zenon DEF Grown
  <2> QED BY <1>4, <1>5, <2>1
<1>6. CASE l # n
  <2>1. Len(Lists(r)[l]) <= Len(Lists(s)[l]) + 0
    BY Zenon, <1>6 DEF Grown
  <2> QED BY <1>4, <2>1
<1> QED BY <1>5, <1>6

\* A step of the message thread, which works on nodes that exist
LEMMA MessageStep ==
    ASSUME DownloadInv, UNCHANGED <<vNodes, vNodesDisconnected, copy, used>>, NetOK(net'), Within(net'),
           DOMAIN net'.nodes = DOMAIN net.nodes
    PROVE  DownloadInv'
<1>1. ConnInv'
  BY DEF DownloadInv, ConnInv
<1> QED BY Zenon, <1>1 DEF DownloadInv, Within, NetOK, Lists

\* A step that changes no list
LEMMA ListsKept ==
    ASSUME DownloadInv, UNCHANGED <<vNodes, vNodesDisconnected, copy, used>>, NetOK(net'), Lists(net') = Lists(net),
           DOMAIN net'.nodes = DOMAIN net.nodes
    PROVE  DownloadInv'
<1>1. Within(net')
  BY DEF DownloadInv, Within
<1> QED BY Zenon, <1>1, MessageStep

\* A state of a node in the copy of the message thread
LEMMA InCopy ==
    ASSUME DownloadInv, NEW n \in copy
    PROVE  /\ n \in Nodes /\ n \in DOMAIN net.nodes /\ "vBlocksInFlight" \in DOMAIN net.nodes[n]
           /\ Lists(net)[n] = net.nodes[n].vBlocksInFlight /\ Lists(net)[n] \in Seq(Request) /\ NetOK(net) /\ Within(net)
BY Zenon DEF DownloadInv, ConnInv, NetOK, Agree, Lists

\* "inv"
LEMMA ReceiveInvStep ==
    ASSUME DownloadInv, NEW n \in copy, NEW b \in Announced[n], ReceiveInv(n, b)
    PROVE  DownloadInv'
<1> DEFINE state == UpdateBlockAvailability(net.nodes[n], b, index)
           s == [net EXCEPT !.nodes[n] = state]
<1>1. b \in Blocks
  BY InCopy, BlockDownloadAssumption
<1>2. UNCHANGED <<vNodes, vNodesDisconnected, copy, used>>
  BY DEF ReceiveInv, connVars
<1>3. "vBlocksInFlight" \in DOMAIN state /\ state.vBlocksInFlight = net.nodes[n].vBlocksInFlight
  <2>1. "vBlocksInFlight" \in DOMAIN net.nodes[n]
    BY Zenon, InCopy
  <2> QED BY <2>1, AvailabilityParts
<1>4. \/ net' = s
      \/ Len(s.nodes[n].vBlocksInFlight) < MaxInTransit /\ net' = MarkBlockAsInFlight(s, n, b, FALSE)
  BY Zenon DEF ReceiveInv
<1> HIDE DEF state
<1>5. NetOK(s) /\ Lists(s) = Lists(net) /\ DOMAIN s.nodes = DOMAIN net.nodes /\ s.nodes[n] = state
  <2>1. NetOK(net) /\ n \in DOMAIN net.nodes
    BY Zenon, InCopy
  <2> QED BY <1>3, <2>1, StateReplaced
<1> HIDE DEF s
<1>6. CASE net' = s
  BY <1>2, <1>5, <1>6, ListsKept
<1>7. CASE Len(s.nodes[n].vBlocksInFlight) < MaxInTransit /\ net' = MarkBlockAsInFlight(s, n, b, FALSE)
  <2>1. n \in DOMAIN s.nodes
    BY <1>5, InCopy
  <2>2. NetOK(net') /\ Grown(s, net', n, 1)
    BY Zenon, <1>1, <1>5, <1>7, <2>1, InFlight
  <2>3. Len(Lists(s)[n]) + 1 <= MaxInTransit
    <3>1. Lists(s)[n] = s.nodes[n].vBlocksInFlight /\ Len(Lists(s)[n]) \in Nat /\ MaxInTransit \in Nat
      <4>1. Lists(s)[n] = s.nodes[n].vBlocksInFlight /\ Lists(s)[n] \in Seq(Request)
        BY Zenon, <1>3, <1>5, InCopy
      <4>2. MaxInTransit \in Nat
        BY Zenon, BlockDownloadAssumption
      <4> QED BY <4>1, <4>2
    <3> QED BY <1>7, <3>1
  <2>4. Within(s)
    BY Zenon, <1>5, InCopy DEF Within
  <2>5. Within(net')
    BY <1>5, <2>1, <2>2, <2>3, <2>4, GrownWithin
  <2>6. DOMAIN net'.nodes = DOMAIN net.nodes
    BY <1>5, <2>2 DEF Grown
  <2> QED BY <1>2, <2>2, <2>5, <2>6, MessageStep
<1> QED BY Zenon, <1>4, <1>6, <1>7

\* "headers"
LEMMA ReceiveHeadersStep ==
    ASSUME DownloadInv, NEW n \in copy, NEW b, ReceiveHeaders(n, b)
    PROVE  DownloadInv'
<1> DEFINE state == UpdateBlockAvailability(net.nodes[n], b, index')
<1>1. UNCHANGED <<vNodes, vNodesDisconnected, copy, used>>
  BY DEF ReceiveHeaders, connVars
<1>2. net' = net \/ net' = [net EXCEPT !.nodes[n] = state]
  BY Zenon DEF ReceiveHeaders
<1>3. "vBlocksInFlight" \in DOMAIN state /\ state.vBlocksInFlight = net.nodes[n].vBlocksInFlight
  <2>1. "vBlocksInFlight" \in DOMAIN net.nodes[n]
    BY Zenon, InCopy
  <2> QED BY <2>1, AvailabilityParts
<1> HIDE DEF state
<1>4. CASE net' = net
  BY <1>1, <1>4, ListsKept, InCopy
<1>5. CASE net' = [net EXCEPT !.nodes[n] = state]
  <2>1. NetOK(net') /\ Lists(net') = Lists(net) /\ DOMAIN net'.nodes = DOMAIN net.nodes
    BY <1>3, <1>5, StateReplaced, InCopy
  <2> QED BY <1>1, <2>1, ListsKept
<1> QED BY <1>2, <1>4, <1>5

\* "block": MarkBlockAsReceived
LEMMA ReceivedWithin ==
    ASSUME DownloadInv, NEW b, NEW r, r = MarkBlockAsReceived(net, b)
    PROVE  NetOK(r) /\ Within(r) /\ DOMAIN r.nodes = DOMAIN net.nodes
<1>1. NetOK(net) /\ Within(net)
  BY DEF DownloadInv
<1>2. NetOK(r) /\ \A n : Grown(net, r, n, 0)
  BY <1>1, Received
<1>3. \A n \in DOMAIN net.nodes : Len(Lists(r)[n]) <= Len(Lists(net)[n]) /\ Len(Lists(net)[n]) <= MaxInTransit
  <2>1. \A n \in DOMAIN net.nodes : Len(Lists(net)[n]) \in Nat
    BY Zenon, <1>1, ListsType
  <2>2. \A n \in DOMAIN net.nodes : Len(Lists(r)[n]) <= Len(Lists(net)[n]) + 0
    BY <1>2 DEF Grown
  <2> QED BY <1>1, <2>1, <2>2 DEF Within
<1>4. DOMAIN r.nodes = DOMAIN net.nodes
  BY <1>2 DEF Grown
<1>5. \A n \in DOMAIN net.nodes : Len(Lists(net)[n]) \in Nat /\ Len(Lists(r)[n]) \in Nat
  BY Zenon, <1>1, <1>2, <1>4, ListsType
<1>6. MaxInTransit \in Nat
  BY BlockDownloadAssumption
<1> QED BY <1>2, <1>3, <1>4, <1>5, <1>6 DEF Within

\* SendMessages: the requests
LEMMA FetchBlocksStep ==
    ASSUME DownloadInv, NEW n \in copy, FetchBlocks(n)
    PROVE  DownloadInv'
<1> DEFINE state == ProcessBlockAvailability(net.nodes[n], index)
           common == CommonBlock(state)
           found == FindNextBlocksToDownload(state, n, common)
           next == [state EXCEPT !.pindexLastCommonBlock = found.common]
           s == [net EXCEPT !.nodes[n] = next]
           r == Requested(s, n, found.fetch)
<1>1. UNCHANGED <<vNodes, vNodesDisconnected, copy, used>> /\ Len(net.nodes[n].vBlocksInFlight) < MaxInTransit
  BY Zenon DEF FetchBlocks, connVars
<1>2. \/ net' = [net EXCEPT !.nodes[n] = state]
      \/ /\ state.pindexBestKnownBlock \in Blocks
         /\ net' = r \/ net' = [r EXCEPT !.nodes[found.staller].fStalling = TRUE]
  BY Zenon DEF FetchBlocks
<1>3. "vBlocksInFlight" \in DOMAIN state /\ state.vBlocksInFlight = net.nodes[n].vBlocksInFlight
  BY Zenon, InCopy, AvailabilityParts
<1>4. CASE net' = [net EXCEPT !.nodes[n] = state]
  <2> HIDE DEF state
  <2>1. NetOK(net') /\ Lists(net') = Lists(net) /\ DOMAIN net'.nodes = DOMAIN net.nodes
    <3>1. NetOK(net) /\ n \in DOMAIN net.nodes
      BY Zenon, InCopy
    <3> QED BY <1>3, <1>4, <3>1, StateReplaced
  <2> QED BY Zenon, <1>1, <2>1, ListsKept
<1>5. CASE /\ state.pindexBestKnownBlock \in Blocks
           /\ net' = r \/ net' = [r EXCEPT !.nodes[found.staller].fStalling = TRUE]
  <2> HIDE DEF state, common
  <2>1. Len(state.vBlocksInFlight) \in Nat /\ Len(state.vBlocksInFlight) < MaxInTransit /\ Lists(net)[n] = state.vBlocksInFlight
    BY <1>1, <1>3, InCopy
  <2>2. found.fetch \in Seq(Blocks) /\ Len(found.fetch) <= MaxInTransit - Len(state.vBlocksInFlight)
    BY <1>5, <2>1, FoundParts
  <2> HIDE DEF found
  <2>3. "vBlocksInFlight" \in DOMAIN next /\ next.vBlocksInFlight = net.nodes[n].vBlocksInFlight
    BY <1>3
  <2> HIDE DEF next
  <2>4. NetOK(s) /\ Lists(s) = Lists(net) /\ DOMAIN s.nodes = DOMAIN net.nodes
    BY <2>3, StateReplaced, InCopy
  <2> HIDE DEF s
  <2>5. NetOK(r) /\ Grown(s, r, n, Len(found.fetch))
    BY Zenon, <2>2, <2>4, RequestedGrown, InCopy
  <2> HIDE DEF r
  <2>6. Within(r)
    <3>1. Len(Lists(s)[n]) + Len(found.fetch) <= MaxInTransit /\ Len(found.fetch) \in Nat
      <4> DEFINE x == Len(found.fetch)
                 y == Len(state.vBlocksInFlight)
      <4>1. x \in Nat /\ y \in Nat /\ MaxInTransit \in Nat /\ x <= MaxInTransit - y /\ Len(Lists(s)[n]) = y
        <5>1. MaxInTransit \in Nat
          BY Zenon, BlockDownloadAssumption
        <5>2. x \in Nat /\ x <= MaxInTransit - y
          BY <2>2
        <5> QED BY Zenon, <2>1, <2>4, <5>1, <5>2
      <4> HIDE DEF x, y
      <4>2. y + x <= MaxInTransit
        BY <4>1
      <4> QED BY Zenon, <4>1, <4>2 DEF x
    <3>2. Within(s) /\ n \in DOMAIN s.nodes
      BY <2>4, InCopy DEF Within
    <3> QED BY Zenon, <2>4, <2>5, <3>1, <3>2, GrownWithin
  <2>7. DOMAIN r.nodes = DOMAIN net.nodes
    BY <2>4, <2>5 DEF Grown
  <2>8. CASE net' = r
    BY <1>1, <2>5, <2>6, <2>7, <2>8, MessageStep
  <2>9. CASE net' = [r EXCEPT !.nodes[found.staller].fStalling = TRUE]
    <3>1. /\ DOMAIN net' = DOMAIN r /\ net'.inFlight = r.inFlight
          /\ net'.nQueuedValidatedHeaders = r.nQueuedValidatedHeaders
          /\ net'.nodes = [r.nodes EXCEPT ![found.staller] = [r.nodes[found.staller] EXCEPT !.fStalling = TRUE]]
      BY <2>5, <2>9 DEF NetOK
    <3>2. DOMAIN net'.nodes = DOMAIN r.nodes
      BY <3>1
    <3>3. \A m \in DOMAIN r.nodes : "vBlocksInFlight" \in DOMAIN net'.nodes[m] /\ net'.nodes[m].vBlocksInFlight = r.nodes[m].vBlocksInFlight
      BY <2>5, <3>1 DEF NetOK
    <3>4. NetOK(net') /\ Lists(net') = Lists(r)
      BY SMTT(30), <2>5, <3>1, <3>2, <3>3, SameLists
    <3>5. Within(net')
      BY <2>6, <3>2, <3>4 DEF Within
    <3> QED BY <1>1, <2>7, <3>2, <3>4, <3>5, MessageStep
  <2> QED BY <1>5, <2>8, <2>9
<1> QED BY Zenon, <1>2, <1>4, <1>5

\* At the start nothing is in flight.
LEMMA DownloadInvInit ==
    ASSUME DownloadInit
    PROVE  DownloadInv
<1>1. /\ net = [nodes |-> NoFunction, inFlight |-> NoFunction, nQueuedValidatedHeaders |-> 0]
      /\ vNodes = {} /\ vNodesDisconnected = {} /\ copy = {} /\ used = {}
  BY DEF DownloadInit
<1>2. /\ net.nodes = NoFunction /\ net.inFlight = NoFunction /\ net.nQueuedValidatedHeaders = 0
      /\ DOMAIN net = {"nodes", "inFlight", "nQueuedValidatedHeaders"}
  BY <1>1
<1>3. DOMAIN NoFunction = {} /\ NoFunction = [x \in {} |-> NoFunction[x]]
  BY DEF NoFunction
<1>4. DOMAIN Lists(net) = {} /\ Lists(net) = [x \in {} |-> Lists(net)[x]]
  BY <1>2, <1>3 DEF Lists
<1>5. IsFiniteSet({}) /\ Cardinality({}) = 0
  BY FS_EmptySet
<1>6. Agree(Lists(net), NoFunction)
  <2>1. Lists(net) \in [DOMAIN Lists(net) -> Seq(Request)] /\ NoFunction \in [DOMAIN NoFunction -> DOMAIN Lists(net)]
    BY <1>3, <1>4
  <2> QED BY <1>3, <1>4, <1>5, <2>1 DEF Agree
<1>7. ValidatedIn(Lists(net), NoFunction) = {}
  BY <1>3 DEF ValidatedIn
<1>8. Enough(Lists(net), NoFunction, 0)
  BY <1>5, <1>7 DEF Enough
<1>9. NetOK(net)
  BY <1>2, <1>3, <1>6, <1>8 DEF NetOK
<1>10. ConnInv /\ Within(net)
  BY <1>1, <1>2, <1>3 DEF ConnInv, Within
<1> QED BY <1>9, <1>10 DEF DownloadInv

\* Every step keeps the requests in agreement.
LEMMA DownloadInvStep ==
    ASSUME DownloadInv, [DownloadNext]_downloadVars
    PROVE  DownloadInv'
<1>1. ASSUME net' = net, ConnInv' PROVE DownloadInv'
  BY <1>1 DEF DownloadInv, NetOK, Within, Lists
<1>2. CASE BeginLoop \/ EndLoop
  <2>1. net' = net /\ ConnInv'
    BY <1>2 DEF BeginLoop, EndLoop, DownloadInv, ConnInv
  <2> QED BY <1>1, <2>1
<1>3. ASSUME NEW n \in copy,
             (\E b \in Announced[n] : ReceiveInv(n, b)) \/ (\E b \in HeadersUpTo[n] : ReceiveHeaders(n, b))
      PROVE DownloadInv'
  BY <1>3, ReceiveInvStep, ReceiveHeadersStep
<1>4. ASSUME NEW n \in copy, NEW b, ReceiveBlock(n, b) PROVE DownloadInv'
  <2>1. net' = MarkBlockAsReceived(net, b) /\ UNCHANGED <<vNodes, vNodesDisconnected, copy, used>>
    BY <1>4 DEF ReceiveBlock, connVars
  <2> QED BY <2>1, ReceivedWithin, MessageStep
<1>5. ASSUME NEW n \in copy, NEW b, ReceiveCorruptBlock(n, b) PROVE DownloadInv'
  <2> DEFINE r == MarkBlockAsReceived(net, b)
             state == [r.nodes[n] EXCEPT !.fShouldBan = TRUE]
  <2>1. UNCHANGED <<vNodes, vNodesDisconnected, copy, used>> /\ net' = [r EXCEPT !.nodes[n].fShouldBan = TRUE]
    BY <1>5 DEF ReceiveCorruptBlock, connVars
  <2>2. NetOK(r) /\ Within(r) /\ DOMAIN r.nodes = DOMAIN net.nodes
    BY ReceivedWithin
  <2> HIDE DEF r
  <2>3. n \in DOMAIN r.nodes /\ "vBlocksInFlight" \in DOMAIN r.nodes[n]
    BY <2>2, InCopy DEF NetOK
  <2>4. "vBlocksInFlight" \in DOMAIN state /\ state.vBlocksInFlight = r.nodes[n].vBlocksInFlight
    BY <2>3
  <2>5. net' = [r EXCEPT !.nodes[n] = state]
    BY <2>1
  <2> HIDE DEF state
  <2>6. NetOK(net') /\ Lists(net') = Lists(r) /\ DOMAIN net'.nodes = DOMAIN r.nodes
    BY <2>2, <2>3, <2>4, <2>5, StateReplaced
  <2>7. Within(net')
    BY <2>2, <2>6 DEF Within
  <2> QED BY <2>1, <2>2, <2>6, <2>7, MessageStep
<1>6. ASSUME NEW n \in copy, BanNode(n) PROVE DownloadInv'
  <2> DEFINE state == [net.nodes[n] EXCEPT !.fShouldBan = FALSE]
  <2>1. UNCHANGED <<vNodes, vNodesDisconnected, copy, used>> /\ net' = [net EXCEPT !.nodes[n] = state]
    BY <1>6 DEF BanNode, Disconnect
  <2>2. "vBlocksInFlight" \in DOMAIN state /\ state.vBlocksInFlight = net.nodes[n].vBlocksInFlight
    BY InCopy
  <2> HIDE DEF state
  <2>3. NetOK(net') /\ Lists(net') = Lists(net) /\ DOMAIN net'.nodes = DOMAIN net.nodes
    BY <2>1, <2>2, StateReplaced, InCopy
  <2> QED BY <2>1, <2>3, ListsKept
<1>7. ASSUME NEW n \in copy, TimeOut(n) PROVE DownloadInv'
  <2>1. net' = net /\ ConnInv'
    BY <1>7 DEF TimeOut, Disconnect, DownloadInv, ConnInv
  <2> QED BY <1>1, <2>1
<1>8. ASSUME NEW n \in copy, FetchBlocks(n) PROVE DownloadInv'
  BY <1>8, FetchBlocksStep
<1>14. ASSUME NEW n \in copy, NEW recent, StartSync(n, recent) PROVE DownloadInv'
  <2>1. net' = net /\ ConnInv'
    BY <1>14 DEF StartSync, connVars, DownloadInv, ConnInv
  <2> QED BY <1>1, <2>1
<1>9. ASSUME NEW n \in Nodes, CloseSocketDisconnect(n) \/ RemoveNode(n) PROVE DownloadInv'
  <2>1. net' = net /\ ConnInv'
    BY <1>9 DEF CloseSocketDisconnect, RemoveNode, DownloadInv, ConnInv
  <2> QED BY <1>1, <2>1
<1>10. ASSUME NEW n \in Nodes, InitializeNode(n) \/ FinalizeNode(n) PROVE DownloadInv'
  BY <1>10, InitializeNodeStep, FinalizeNodeStep
<1>11. CASE MessageThread
  BY Zenon, <1>11, <1>2, <1>3, <1>4, <1>5, <1>6, <1>7, <1>8, <1>14 DEF MessageThread
<1>12. CASE SocketThread
  BY Zenon, <1>12, <1>9, <1>10 DEF SocketThread
<1>13. CASE UNCHANGED downloadVars
  <2>1. net' = net /\ ConnInv'
    BY <1>13 DEF downloadVars, connVars, DownloadInv, ConnInv
  <2> QED BY <1>1, <2>1
<1> QED BY Zenon, <1>11, <1>12, <1>13 DEF DownloadNext

\* nSyncStarted is the number of nodes with fSyncStarted.
SyncInv == IsFiniteSet(fSyncStarted) /\ nSyncStarted = Cardinality(fSyncStarted)

\* nSyncStarted goes up and down with fSyncStarted: SendMessages and FinalizeNode.
LEMMA SyncInvStep ==
    ASSUME SyncInv, [DownloadNext]_downloadVars
    PROVE  SyncInv'
<1>1. ASSUME NEW n, NEW recent, StartSync(n, recent) PROVE SyncInv'
  <2>1. n \notin fSyncStarted /\ fSyncStarted' = fSyncStarted \cup {n} /\ nSyncStarted' = nSyncStarted + 1
    BY Zenon, <1>1 DEF StartSync
  <2> QED BY <2>1, FS_AddElement DEF SyncInv
<1>2. ASSUME NEW n, FinalizeNode(n) PROVE SyncInv'
  <2>1. /\ fSyncStarted' = fSyncStarted \ {n}
        /\ nSyncStarted' = IF n \in fSyncStarted THEN nSyncStarted - 1 ELSE nSyncStarted
    BY Zenon, <1>2 DEF FinalizeNode
  <2> QED BY <2>1, FS_RemoveElement DEF SyncInv
<1>3. CASE UNCHANGED <<fSyncStarted, nSyncStarted>>
  BY <1>3 DEF SyncInv
<1>4. CASE MessageThread
  <2>1. \/ \E n \in copy, recent \in BOOLEAN : StartSync(n, recent)
        \/ UNCHANGED <<fSyncStarted, nSyncStarted>>
    BY Zenon, <1>4 DEF MessageThread, BeginLoop, EndLoop, ReceiveInv, ReceiveHeaders, ReceiveBlock,
       ReceiveCorruptBlock, BanNode, TimeOut, Disconnect, FetchBlocks, syncVars
  <2> QED BY Zenon, <1>1, <1>3, <2>1
<1>5. CASE SocketThread
  <2>1. (\E n \in Nodes : FinalizeNode(n)) \/ UNCHANGED <<fSyncStarted, nSyncStarted>>
    BY Zenon, <1>5 DEF SocketThread, InitializeNode, CloseSocketDisconnect, RemoveNode, syncVars
  <2> QED BY Zenon, <1>2, <1>3, <2>1
<1>6. CASE UNCHANGED downloadVars
  BY Zenon, <1>3, <1>6 DEF downloadVars, syncVars
<1> QED BY Zenon, <1>4, <1>5, <1>6 DEF DownloadNext

\* The blocks in flight from node n
Entries(F, n) == {b \in DOMAIN F : F[b] = n}

\* The list of a node is as long as the map has entries for the node.
LEMMA ListLength ==
    ASSUME NEW Q, NEW F, Agree(Q, F), NEW n \in DOMAIN Q
    PROVE  Len(Q[n]) = Cardinality(Entries(F, n))
<1> DEFINE N == Len(Q[n])
           B == {b \in DOMAIN F : F[b] = n}
           f == [m \in 1 .. N |-> Q[n][m].hash]
<1>1. Q[n] \in Seq(Request) /\ N \in Nat /\ Distinct(Q[n]) /\ DOMAIN Q[n] = 1 .. N
  BY DEF Agree
<1>2. \A m \in 1 .. N : Q[n][m] \in Range(Q[n])
  BY <1>1 DEF Range
<1>3. f \in [1 .. N -> B]
  BY <1>2 DEF Agree
<1>4. \A l, m \in 1 .. N : f[l] = f[m] => l = m
  BY <1>1 DEF Distinct
<1>5. ASSUME NEW b \in B PROVE \E m \in 1 .. N : f[m] = b
  <2>1. PICK e \in Range(Q[n]) : e.hash = b
    BY <1>5 DEF Agree
  <2>2. PICK m \in 1 .. N : Q[n][m] = e
    BY <1>1 DEF Range
  <2> QED BY <2>1, <2>2
<1>6. f \in Bijection(1 .. N, B)
  <2> HIDE DEF f, B, N
  <2> QED BY <1>3, <1>4, <1>5 DEF Bijection, Injection, IsInjective, Surjection
<1>7. IsFiniteSet(1 .. N) /\ Cardinality(1 .. N) = N
  <2>1. 1 \in Int /\ N \in Int
    BY <1>1
  <2> HIDE DEF N
  <2>2. IsFiniteSet(1 .. N) /\ Cardinality(1 .. N) = IF 1 > N THEN 0 ELSE N - 1 + 1
    BY <2>1, FS_Interval
  <2> QED BY <1>1, <2>2
<1>8. Cardinality(B) = Cardinality(1 .. N)
  <2> DEFINE U == 1 .. N
  <2>1. ExistsBijection(U, B) /\ IsFiniteSet(U)
    BY Zenon, <1>6, <1>7 DEF ExistsBijection
  <2> HIDE DEF U, B
  <2>2. Cardinality(B) = Cardinality(U)
    BY <2>1, FS_Bijection
  <2> QED BY <2>2 DEF U
<1>9. B = Entries(F, n)
  BY Zenon DEF Entries
<1> QED BY Zenon, <1>7, <1>8, <1>9

\* What RequestsConsistent and TimeoutLongEnough say follows from the invariants.
LEMMA DownloadInvConsistent ==
    ASSUME DownloadInv, SyncInv
    PROVE  RequestsConsistent /\ TimeoutLongEnough
<1>1. Agree(Lists(net), net.inFlight) /\ Enough(Lists(net), net.inFlight, net.nQueuedValidatedHeaders) /\ Within(net)
  BY DEF DownloadInv, NetOK
<1>2. DOMAIN Lists(net) = DOMAIN net.nodes /\ \A n \in DOMAIN net.nodes : Lists(net)[n] = net.nodes[n].vBlocksInFlight
  BY DEF Lists
<1>3. copy \subseteq DOMAIN net.nodes
  BY DEF DownloadInv, ConnInv
<1>4. \A b \in DOMAIN net.inFlight : net.inFlight[b] \in DOMAIN net.nodes
  BY <1>1, <1>2 DEF Agree
<1>5. ASSUME NEW n \in DOMAIN net.nodes
      PROVE  LET queue == net.nodes[n].vBlocksInFlight
             IN /\ \A m \in 1 .. Len(queue) : queue[m].hash \in DOMAIN net.inFlight /\ net.inFlight[queue[m].hash] = n
                /\ Len(queue) = Cardinality({b \in DOMAIN net.inFlight : net.inFlight[b] = n})
                /\ Len(queue) <= MaxInTransit
  <2> DEFINE queue == net.nodes[n].vBlocksInFlight
  <2>1. queue = Lists(net)[n] /\ queue \in Seq(Request)
    BY <1>1, <1>2 DEF Agree
  <2>2. \A m \in 1 .. Len(queue) : queue[m] \in Range(queue)
    BY SMTT(30), <2>1 DEF Range
  <2>3. \A m \in 1 .. Len(queue) : queue[m].hash \in DOMAIN net.inFlight /\ net.inFlight[queue[m].hash] = n
    BY <1>1, <1>2, <2>1, <2>2 DEF Agree
  <2>4. Len(queue) = Cardinality({b \in DOMAIN net.inFlight : net.inFlight[b] = n})
    <3>1. n \in DOMAIN Lists(net)
      BY <1>2
    <3>2. Len(Lists(net)[n]) = Cardinality(Entries(net.inFlight, n))
      BY Zenon, <1>1, <3>1, ListLength
    <3> QED BY Zenon, <2>1, <3>2 DEF Entries
  <2>5. Len(queue) <= MaxInTransit
    BY <1>1, <2>1 DEF Within
  <2> QED BY Zenon, <2>3, <2>4, <2>5
<1>6. RequestsConsistent
  BY Zenon, <1>3, <1>4, <1>5 DEF RequestsConsistent, SyncInv
<1>7. TimeoutLongEnough
  <2> DEFINE V == {b \in DOMAIN net.inFlight :
                      \E q \in Range(net.nodes[net.inFlight[b]].vBlocksInFlight) : q.hash = b /\ q.fValidatedHeaders}
  <2>1. V = ValidatedIn(Lists(net), net.inFlight)
    BY <1>2, <1>4 DEF ValidatedIn
  <2>2. IsFiniteSet(V) /\ Cardinality(V) \in Nat
    <3>1. V \subseteq DOMAIN net.inFlight /\ IsFiniteSet(DOMAIN net.inFlight)
      BY <1>1 DEF Agree
    <3> HIDE DEF V
    <3> QED BY <3>1, FS_Subset, FS_CardinalityType
  <2>3. net.nQueuedValidatedHeaders \in Nat /\ Cardinality(V) <= net.nQueuedValidatedHeaders
    <3> HIDE DEF V
    <3> QED BY <1>1, <2>1 DEF Enough
  <2>4. TimeoutLongEnough <=> net.nQueuedValidatedHeaders >= Cardinality(V)
    BY Zenon DEF TimeoutLongEnough
  <2> HIDE DEF V
  <2> QED BY <2>2, <2>3, <2>4
<1> QED BY <1>6, <1>7

\* mapBlocksInFlight and the lists of the nodes agree while nodes come and go,
\* blocks arrive from any of them and requests time out, so that the iterators in
\* the map are good, a block is in flight from one node at most, and no node has
\* more requests than MAX_BLOCKS_IN_TRANSIT_PER_PEER.  nSyncStarted stays the number
\* of nodes with fSyncStarted, so that it is 0 again when all of them are gone.
THEOREM RequestsConsistentAlways == DownloadSpec => []RequestsConsistent
<1>1. DownloadInit => DownloadInv /\ SyncInv
  BY DownloadInvInit, FS_EmptySet DEF DownloadInit, SyncInv
<1>2. DownloadInv /\ SyncInv /\ [DownloadNext]_downloadVars => DownloadInv' /\ SyncInv'
  BY DownloadInvStep, SyncInvStep
<1>3. DownloadInv /\ SyncInv => RequestsConsistent
  BY DownloadInvConsistent
<1> QED BY <1>1, <1>2, <1>3, PTL DEF DownloadSpec

\* The number of requests that the timeout of a block allows for is never less
\* than those with a header that are in flight.
THEOREM TimeoutLongEnoughAlways == DownloadSpec => []TimeoutLongEnough
<1>1. DownloadInit => DownloadInv /\ SyncInv
  BY DownloadInvInit, FS_EmptySet DEF DownloadInit, SyncInv
<1>2. DownloadInv /\ SyncInv /\ [DownloadNext]_downloadVars => DownloadInv' /\ SyncInv'
  BY DownloadInvStep, SyncInvStep
<1>3. DownloadInv /\ SyncInv => TimeoutLongEnough
  BY DownloadInvConsistent
<1> QED BY <1>1, <1>2, <1>3, PTL DEF DownloadSpec

=============================================================================
