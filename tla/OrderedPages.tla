----------------------------- MODULE OrderedPages -----------------------------
(***************************************************************************)
(* What ORDER BY ... LIMIT n gives of a finite table: the rows that fewer  *)
(* than n others come before.  The lemmas are cited by the proofs about    *)
(* both paged lists of the server, GET /sync/changes and GET /items.       *)
(***************************************************************************)
EXTENDS Naturals, FiniteSets, FiniteSetTheorems, WellFoundedInduction, TLAPS

\* An order is a set of pairs: <<q, r>> is in it when q comes before r.
TotalOrder(L, S) ==
    /\ \A r \in S : <<r, r>> \notin L
    /\ \A p, q, r \in S : <<p, q>> \in L /\ <<q, r>> \in L => <<p, r>> \in L
    /\ \A q, r \in S : q = r \/ <<q, r>> \in L \/ <<r, q>> \in L

Below(L, S, r) == {q \in S : <<q, r>> \in L}
FirstRows(L, S, n) == {r \in S : Cardinality(Below(L, S, r)) < n}

\* A set of numbers that is not empty has a least one.
LEMMA LeastExists ==
    ASSUME NEW T, T \subseteq Nat, T # {}
    PROVE  \E x \in T : \A y \in T : x <= y
<1> DEFINE R == {ss \in Nat \X Nat : ss[1] < ss[2]}
<1>1. IsWellFoundedOn(R, Nat)
  BY NatLessThanWellFounded DEF OpToRel
<1>2. \E x \in T : \A y \in T : ~(<<y, x>> \in R)
  <2> HIDE DEF R
  <2> QED
    BY <1>1, WFMin
<1>3. PICK x \in T : \A y \in T : ~(<<y, x>> \in R)
  BY <1>2
<1>4. ASSUME NEW y \in T PROVE x <= y
  <2>1. ~(<<y, x>> \in R)
    BY <1>3
  <2>2. <<y, x>> \in Nat \X Nat /\ <<y, x>>[1] = y /\ <<y, x>>[2] = x
    OBVIOUS
  <2>3. ~(y < x)
    BY <2>1, <2>2
  <2> QED
    BY <2>3
<1> QED
  BY <1>4

\* A set of numbers up to a bound that is not empty has a greatest one.
LEMMA GreatestExists ==
    ASSUME NEW b \in Nat, NEW T, T \subseteq 0 .. b, T # {}
    PROVE  \E x \in T : \A y \in T : y <= x
<1> DEFINE U == {b - x : x \in T}
<1>1. U \subseteq Nat /\ U # {}
  <2>1. PICK x : x \in T
    OBVIOUS
  <2>2. b - x \in U
    BY <2>1
  <2>3. ASSUME NEW y \in T PROVE b - y \in Nat
    <3>1. y \in 0 .. b
      OBVIOUS
    <3> QED
      BY <3>1
  <2> QED
    BY <2>2, <2>3
<1>2. PICK u \in U : \A v \in U : u <= v
  <2> HIDE DEF U
  <2> QED
    BY <1>1, LeastExists
<1>3. PICK x \in T : u = b - x
  OBVIOUS
<1>4. ASSUME NEW y \in T PROVE y <= x
  <2>1. b - y \in U
    OBVIOUS
  <2>2. u <= b - y
    BY <1>2, <2>1
  <2> QED
    BY <1>3, <2>2
<1> QED
  BY <1>4

\* Of two rows the later one has more rows before it.
LEMMA RankGrows ==
    ASSUME NEW S, IsFiniteSet(S), NEW L, TotalOrder(L, S),
           NEW q \in S, NEW r \in S, <<q, r>> \in L
    PROVE  /\ Cardinality(Below(L, S, q)) \in Nat
           /\ Cardinality(Below(L, S, r)) \in Nat
           /\ Cardinality(Below(L, S, q)) < Cardinality(Below(L, S, r))
<1> DEFINE A == Below(L, S, q)
           B == Below(L, S, r)
<1>1. A \subseteq B /\ B \subseteq S
  BY DEF Below, TotalOrder
<1>2. q \in B /\ q \notin A
  BY DEF Below, TotalOrder
<1> HIDE DEF A, B
<1>3. IsFiniteSet(B) /\ Cardinality(B) \in Nat
  BY <1>1, FS_Subset, FS_CardinalityType
<1>4. /\ IsFiniteSet(A) /\ Cardinality(A) <= Cardinality(B)
      /\ Cardinality(A) = Cardinality(B) => B = A
  BY <1>1, <1>3, FS_Subset
<1>5. Cardinality(A) \in Nat
  BY <1>4, FS_CardinalityType
<1>6. Cardinality(A) # Cardinality(B)
  BY <1>2, <1>4
<1> QED
  BY <1>3, <1>4, <1>5, <1>6 DEF A, B

\* A row that comes before one of the first n rows is one of them.
LEMMA FirstRowsClosed ==
    ASSUME NEW S, IsFiniteSet(S), NEW L, TotalOrder(L, S), NEW n \in Nat,
           NEW q \in S, NEW r \in FirstRows(L, S, n), <<q, r>> \in L
    PROVE  q \in FirstRows(L, S, n)
<1>1. r \in S /\ Cardinality(Below(L, S, r)) < n
  BY DEF FirstRows
<1>2. /\ Cardinality(Below(L, S, q)) \in Nat /\ Cardinality(Below(L, S, r)) \in Nat
      /\ Cardinality(Below(L, S, q)) < Cardinality(Below(L, S, r))
  BY <1>1, RankGrows
<1>3. Cardinality(Below(L, S, q)) < n
  BY <1>1, <1>2
<1> QED
  BY <1>3 DEF FirstRows

\* Rows of a finite table have a first and a last among them.
LEMMA EndsExist ==
    ASSUME NEW S, IsFiniteSet(S), NEW L, TotalOrder(L, S), NEW T, T \subseteq S, T # {}
    PROVE  /\ \E r \in T : \A q \in T : q = r \/ <<r, q>> \in L
           /\ \E r \in T : \A q \in T : q = r \/ <<q, r>> \in L
<1> DEFINE rank(r) == Cardinality(Below(L, S, r))
           ranks == {rank(r) : r \in T}
<1>1. ASSUME NEW r \in S PROVE rank(r) \in 0 .. Cardinality(S)
  <2>1. Below(L, S, r) \in SUBSET S
    BY DEF Below
  <2>2. /\ IsFiniteSet(Below(L, S, r))
        /\ Cardinality(Below(L, S, r)) <= Cardinality(S)
    BY <2>1, FS_Subset
  <2>3. Cardinality(Below(L, S, r)) \in Nat /\ Cardinality(S) \in Nat
    BY <2>2, FS_CardinalityType
  <2> QED
    BY <2>2, <2>3
<1>2. \A q, r \in S : <<q, r>> \in L => rank(q) < rank(r)
  BY RankGrows
<1>3. \A q, r \in T : q = r \/ <<q, r>> \in L \/ <<r, q>> \in L
  BY DEF TotalOrder
<1> HIDE DEF rank
<1>4. ranks \subseteq 0 .. Cardinality(S) /\ ranks # {}
  BY <1>1
<1>5. Cardinality(S) \in Nat
  BY FS_CardinalityType
<1>6. PICK least \in ranks : \A x \in ranks : least <= x
  <2>1. ranks \subseteq Nat
    BY <1>4, <1>5
  <2> HIDE DEF ranks
  <2> QED
    BY <1>4, <2>1, LeastExists
<1>7. PICK greatest \in ranks : \A x \in ranks : x <= greatest
  <2> HIDE DEF ranks
  <2> QED
    BY <1>4, <1>5, GreatestExists
<1>8. PICK first \in T : rank(first) = least
  OBVIOUS
<1>9. PICK last \in T : rank(last) = greatest
  OBVIOUS
<1>10. ASSUME NEW q \in T PROVE rank(q) \in Nat /\ rank(first) <= rank(q) /\ rank(q) <= rank(last)
  <2>1. rank(q) \in ranks
    OBVIOUS
  <2> QED
    BY <1>1, <1>5, <1>6, <1>7, <1>8, <1>9, <2>1
<1>11. ASSUME NEW q \in T PROVE ~(<<q, first>> \in L) /\ ~(<<last, q>> \in L)
  BY <1>2, <1>10
<1> QED
  BY <1>3, <1>11

\* A page that is not full is the whole table.
LEMMA ShortPageIsAll ==
    ASSUME NEW S, IsFiniteSet(S), NEW L, TotalOrder(L, S), NEW n \in Nat \ {0},
           Cardinality(FirstRows(L, S, n)) # n
    PROVE  FirstRows(L, S, n) = S
<1> DEFINE page == FirstRows(L, S, n)
           rest == S \ page
<1>1. page \subseteq S
  BY DEF FirstRows
<1> SUFFICES ASSUME rest # {} PROVE FALSE
  BY <1>1
<1>2. PICK r \in rest : \A q \in rest : q = r \/ <<r, q>> \in L
  <2>1. rest \subseteq S
    OBVIOUS
  <2> HIDE DEF rest
  <2> QED
    BY <2>1, EndsExist
<1>3. page = Below(L, S, r)
  <2>1. ASSUME NEW q \in Below(L, S, r) PROVE q \in page
    <3>1. q \in S /\ <<q, r>> \in L
      BY <2>1 DEF Below
    <3>2. q # r /\ ~(<<r, q>> \in L)
      BY <3>1 DEF TotalOrder
    <3> QED
      BY <1>2, <3>1, <3>2
  <2>2. ASSUME NEW p \in page PROVE p \in Below(L, S, r)
    <3>1. p \in S /\ p # r
      BY <1>1
    <3>2. ~(<<r, p>> \in L)
      BY FirstRowsClosed
    <3> QED
      BY <3>1, <3>2 DEF TotalOrder, Below
  <2> QED
    BY <2>1, <2>2
<1>4. Cardinality(Below(L, S, r)) \in Nat /\ ~(Cardinality(Below(L, S, r)) < n)
  <2>1. ~(Cardinality(Below(L, S, r)) < n)
    BY DEF FirstRows
  <2>2. IsFiniteSet(Below(L, S, r))
    BY <1>1, <1>3, FS_Subset
  <2> QED
    BY <2>1, <2>2, FS_CardinalityType
<1>5. page # {}
  BY <1>3, <1>4, FS_EmptySet
<1>6. PICK p \in page : \A q \in page : q = p \/ <<q, p>> \in L
  BY <1>1, <1>5, EndsExist
<1>7. page = Below(L, S, p) \cup {p}
  <2>1. Below(L, S, p) \subseteq page
    BY FirstRowsClosed DEF Below
  <2>2. page \subseteq Below(L, S, p) \cup {p}
    BY <1>1, <1>6 DEF Below
  <2> QED
    BY <2>1, <2>2
<1>8. Cardinality(Below(L, S, p)) < n
  BY DEF FirstRows
<1>9. IsFiniteSet(Below(L, S, p)) /\ p \notin Below(L, S, p)
  <2>1. Below(L, S, p) \in SUBSET S
    BY DEF Below
  <2>2. IsFiniteSet(Below(L, S, p))
    BY <2>1, FS_Subset
  <2> QED
    BY <1>1, <2>2 DEF Below, TotalOrder
<1>10. /\ Cardinality(Below(L, S, p)) \in Nat
       /\ Cardinality(page) = Cardinality(Below(L, S, p)) + 1
  BY <1>7, <1>9, FS_AddElement, FS_CardinalityType
<1>11. Cardinality(page) = Cardinality(Below(L, S, r))
  BY <1>3
<1>12. Cardinality(page) = n
  <2> HIDE DEF page
  <2> QED
    BY <1>4, <1>8, <1>10, <1>11
<1> QED
  BY <1>12
=============================================================================
