--------------------------- MODULE VaultItems_proofs ---------------------------
(***************************************************************************)
(* A walk over the pages of GET /items misses no row, for every table,     *)
(* number of connections and clamp of the limit.                           *)
(***************************************************************************)
EXTENDS VaultItems, OrderedPages

----------------------------------------------------------------------------
(* The inductive invariant *)

WalkShape == walk \in [limit : 0 .. MaxLimit, cursor : SUBSET Rows, owed : SUBSET Item]
TableFinite == IsFiniteSet(row)
LimitKept == walk # NoWalk => walk.limit # 0

\* What the reader is owed lies past its cursor.
OwedAhead == \A i \in walk.owed : \E r \in Past(walk.cursor) : r.id = i

IInv == TypeOK /\ WalkShape /\ TableFinite /\ LimitKept /\ OwedAhead

\* Fields of rows are numbers.
LEMMA RowFields ==
    ASSUME NEW r \in Rows
    PROVE  r.id \in Nat /\ r.at \in Nat /\ r.id \in Item /\ r.at \in 0 .. MaxTime
<1>1. r.id \in Item /\ r.at \in 0 .. MaxTime
  BY DEF Rows
<1>2. r.at \in Nat
  BY <1>1, BoundAssumption
<1>3. r.id \in Nat
  BY <1>1, ItemAssumption
<1> QED
  BY <1>1, <1>2, <1>3

\* The keyset order is total on rows with different ids, and transitive.
LEMMA BeforeIsOrder ==
    ASSUME NEW p \in Rows, NEW q \in Rows, NEW r \in Rows
    PROVE  /\ ~Before(r, r)
           /\ Before(p, q) /\ Before(q, r) => Before(p, r)
           /\ q.id # r.id => Before(q, r) \/ Before(r, q)
<1>1. /\ p.id \in Nat /\ q.id \in Nat /\ r.id \in Nat
      /\ p.at \in Nat /\ q.at \in Nat /\ r.at \in Nat
  BY RowFields
<1> QED
  BY <1>1 DEF Before

\* The clamp of the limit gives 1 to MaxLimit for whatever a client asks.
LEMMA LimitClamped ==
    ASSUME NEW asked \in Nat
    PROVE  Limit(asked) \in 1 .. MaxLimit
BY LimitAssumption DEF Limit

\* What a page leaves out lies past the cursor it offers, and a page that
\* offers none leaves nothing out (repo.go:150).
LEMMA PageFacts ==
    ASSUME TypeOK, TableFinite, NEW cursor, NEW limit \in Nat \ {0}
    PROVE  LET page == Page(cursor, limit)
               next == NextCursor(page, limit)
           IN  /\ page \subseteq Past(cursor) /\ next \subseteq page
               /\ \A c, d \in next : c = d
               /\ \A c \in next : \A r \in Past(cursor) \ page : Before(c, r)
               /\ next = {} => page = Past(cursor)
<1> DEFINE S == Past(cursor)
           L == {p \in S \X S : Before(p[1], p[2])}
           page == Page(cursor, limit)
           next == NextCursor(page, limit)
<1>1. S \subseteq row /\ S \subseteq Rows
  BY DEF Past, TypeOK
<1>2. IsFiniteSet(S)
  BY <1>1, FS_Subset DEF TableFinite
<1>3. \A q, r \in S : <<q, r>> \in L <=> Before(q, r)
  OBVIOUS
<1>4. \A q, r \in S : q = r \/ Before(q, r) \/ Before(r, q)
  BY <1>1, BeforeIsOrder DEF TypeOK
<1>5. page = {r \in S : Cardinality({q \in S : Before(q, r)}) < limit}
  BY DEF Page
<1>6. next = IF Cardinality(page) = limit THEN {r \in page : \A q \in page : ~Before(r, q)}
             ELSE {}
  BY DEF NextCursor
<1>7. page \subseteq S
  BY <1>5
<1> HIDE DEF L, page, next
<1>8. TotalOrder(L, S)
  <2>1. \A p, q, r \in S : ~Before(r, r) /\ (Before(p, q) /\ Before(q, r) => Before(p, r))
    BY <1>1, BeforeIsOrder
  <2> HIDE DEF S
  <2> QED
    BY <1>3, <1>4, <2>1 DEF TotalOrder
<1>9. page = FirstRows(L, S, limit)
  <2>1. \A r \in S : Below(L, S, r) = {q \in S : Before(q, r)}
    BY <1>3 DEF Below
  <2> HIDE DEF S
  <2> QED
    BY <1>5, <2>1 DEF FirstRows
<1>10. next \subseteq page /\ \A c, d \in next : c = d
  BY <1>4, <1>6, <1>7
<1>11. ASSUME NEW c \in next, NEW r \in S \ page PROVE Before(c, r)
  <2>1. c \in S /\ c \in page /\ c # r
    BY <1>7, <1>10
  <2>2. ~Before(r, c)
    <3>1. ASSUME <<r, c>> \in L PROVE FALSE
      <4> HIDE DEF S
      <4> QED
        BY <1>2, <1>8, <1>9, <2>1, <3>1, FirstRowsClosed
    <3> QED
      BY <1>3, <2>1, <3>1
  <2> QED
    BY <1>4, <2>1, <2>2
<1>12. ASSUME next = {} PROVE page = S
  <2>1. CASE Cardinality(page) # limit
    <3> HIDE DEF S
    <3> QED
      BY <1>2, <1>8, <1>9, <2>1, ShortPageIsAll
  <2>2. CASE Cardinality(page) = limit
    <3>1. page # {}
      BY <2>2, FS_EmptySet
    <3>2. PICK r \in page : \A q \in page : q = r \/ <<q, r>> \in L
      <4> HIDE DEF S
      <4> QED
        BY <1>2, <1>7, <1>8, <3>1, EndsExist
    <3>3. \A q \in page : ~Before(r, q)
      <4>1. ASSUME NEW q \in page, Before(r, q) PROVE FALSE
        <5>1. r \in S /\ q \in S /\ r \in Rows /\ q \in Rows
          BY <1>1, <1>7
        <5>2. q # r
          BY <4>1, <5>1, BeforeIsOrder
        <5>3. Before(q, r)
          BY <1>3, <3>2, <5>1, <5>2
        <5> QED
          BY <4>1, <5>1, <5>3, BeforeIsOrder
      <4> QED
        BY <4>1
    <3> QED
      BY <1>6, <1>12, <2>2, <3>3
  <2> QED
    BY <2>1, <2>2
<1> QED
  BY <1>7, <1>10, <1>11, <1>12 DEF page, next

----------------------------------------------------------------------------
(* Every step preserves the invariant *)

\* No row and no walk.
LEMMA InitInvariant == Init => IInv
<1> SUFFICES ASSUME Init PROVE IInv
  OBVIOUS
<1>1. IsFiniteSet({})
  BY FS_EmptySet
<1>2. walk = NoWalk /\ row = {} /\ now = 0 /\ tx = [t \in Tx |-> Idle]
  BY DEF Init
<1>3. walk.limit = 0 /\ walk.cursor = {} /\ walk.owed = {}
  BY <1>2 DEF NoWalk
<1>4. MaxLimit \in Nat
  BY LimitAssumption
<1>5. WalkShape
  BY <1>2, <1>4 DEF WalkShape, NoWalk
<1>6. TypeOK
  BY <1>2, <1>3, <1>4, BoundAssumption DEF TypeOK
<1> QED
  BY <1>1, <1>2, <1>3, <1>5, <1>6 DEF IInv, TableFinite, LimitKept, OwedAhead

\* A commit moves a row the reader is owed forward, or the reader is told off it.
LEMMA CommitKeeps ==
    ASSUME IInv, NEW t \in Tx, Commit(t)
    PROVE  IInv'
<1> DEFINE new == Written(t)
           back == SetBack(new)
<1>0. TypeOK /\ WalkShape /\ TableFinite /\ LimitKept /\ OwedAhead
  BY DEF IInv
<1>1. /\ tx[t] # Idle /\ now' = now
      /\ row' = {r \in row : r.id \notin Ids(new)} \cup new
      /\ walk' = [walk EXCEPT !.owed = @ \ Ids(back)]
      /\ tx' = [tx EXCEPT ![t] = Idle]
  BY DEF Commit
<1>2. tx[t].at \in 0 .. MaxTime
  <2>1. tx[t] \in [op : {"insert", "update"}, id : Item, at : 0 .. now] /\ now \in 0 .. MaxTime
    BY <1>0, <1>1 DEF TypeOK
  <2>2. tx[t].at \in 0 .. now
    BY <2>1
  <2> QED
    BY <2>1, <2>2, BoundAssumption
<1>3. /\ \A n \in new : n \in Rows /\ n.id = tx[t].id
      /\ \A n, m \in new : n = m
      /\ IsFiniteSet(new)
  <2> DEFINE ids == {tx[t].id} \cap
                      (IF tx[t].op = "insert" THEN Item \ Ids(row) ELSE Ids(row))
  <2>1. new = {[id |-> i, at |-> tx[t].at] : i \in ids}
    BY DEF Written
  <2>2. \A i \in ids : i \in Item /\ i = tx[t].id
    BY <1>0 DEF TypeOK, Ids, Rows
  <2> HIDE DEF ids
  <2>3. new = {} \/ new = {[id |-> tx[t].id, at |-> tx[t].at]}
    BY <2>1, <2>2
  <2>4. \A n \in new : n \in Rows /\ n.id = tx[t].id
    BY <1>2, <2>1, <2>2 DEF Rows
  <2> HIDE DEF new
  <2>5. IsFiniteSet(new)
    BY <2>3, FS_EmptySet, FS_Singleton
  <2> QED
    BY <2>3, <2>4, <2>5
<1> HIDE DEF new
<1>4. /\ row' \subseteq Rows
      /\ \A r, q \in row' : r.id = q.id => r = q
  BY <1>0, <1>1, <1>3 DEF TypeOK, Ids
<1>5. TableFinite'
  <2>1. {r \in row : r.id \notin Ids(new)} \in SUBSET row
    OBVIOUS
  <2>2. IsFiniteSet({r \in row : r.id \notin Ids(new)})
    BY <1>0, <2>1, FS_Subset DEF TableFinite
  <2> QED
    BY <1>1, <1>3, <2>2, FS_Union DEF TableFinite
<1> HIDE DEF back
<1>6. /\ walk' \in [limit : 0 .. MaxLimit, cursor : SUBSET Rows, owed : SUBSET Item]
      /\ walk'.limit = walk.limit /\ walk'.cursor = walk.cursor
      /\ walk'.owed = walk.owed \ Ids(back)
  BY <1>0, <1>1 DEF WalkShape
<1>7. TypeOK'
  BY <1>0, <1>1, <1>4, <1>6 DEF TypeOK
<1>8. LimitKept'
  <2>1. walk = NoWalk => walk'.limit = 0 /\ walk'.cursor = {} /\ walk'.owed = {}
    BY <1>6 DEF NoWalk
  <2>2. walk = NoWalk => walk' = NoWalk
    BY <1>6, <2>1 DEF NoWalk
  <2> QED
    BY <1>0, <1>6, <2>2 DEF LimitKept
<1>9. ASSUME NEW i \in walk'.owed PROVE \E r \in Past(walk.cursor)' : r.id = i
  <2>1. PICK r \in Past(walk.cursor) : r.id = i
    BY <1>0, <1>6 DEF OwedAhead
  <2>2. r \in row /\ \A c \in walk.cursor : Before(c, r)
    BY DEF Past
  <2>3. CASE r.id \notin Ids(new)
    <3>1. r \in row'
      BY <1>1, <2>2, <2>3
    <3> QED
      BY <1>6, <2>1, <2>2, <3>1 DEF Past
  <2>4. CASE r.id \in Ids(new)
    <3>1. PICK n \in new : n.id = r.id
      BY <2>4 DEF Ids
    <3>2. ~Before(n, r)
      <4>1. n \notin back
        BY <1>6, <2>1, <3>1 DEF Ids
      <4> QED
        BY <2>2, <3>1, <4>1 DEF SetBack, back
    <3>3. ASSUME NEW c \in walk.cursor PROVE Before(c, n)
      <4>1. c \in Rows /\ r \in Rows /\ n \in Rows
        BY <1>0, <1>3, <2>2 DEF TypeOK
      <4>2. /\ c.id \in Nat /\ r.id \in Nat /\ n.id \in Nat
            /\ c.at \in Nat /\ r.at \in Nat /\ n.at \in Nat
        BY <4>1, RowFields
      <4>3. Before(c, r)
        BY <2>2
      <4> QED
        BY <3>1, <3>2, <4>2, <4>3 DEF Before
    <3>4. n \in row'
      BY <1>1
    <3> QED
      BY <1>6, <2>1, <3>1, <3>3, <3>4 DEF Past
  <2> QED
    BY <2>3, <2>4
<1>10. OwedAhead'
  BY <1>6, <1>9 DEF OwedAhead, Past
<1> QED
  BY <1>5, <1>6, <1>7, <1>8, <1>10 DEF IInv, WalkShape

\* A transaction begins or is given up, and the clock goes on: the table and
\* the reader stay as they are.
LEMMA OthersKeep ==
    ASSUME IInv
    PROVE  /\ \A t \in Tx, op \in {"insert", "update"}, i \in Item : Begin(t, op, i) => IInv'
           /\ \A t \in Tx : Rollback(t) => IInv'
           /\ Tick => IInv'
           /\ UNCHANGED vars => IInv'
<1>1. TypeOK /\ WalkShape /\ TableFinite /\ LimitKept /\ OwedAhead
  BY DEF IInv
<1>2. ASSUME UNCHANGED <<row, walk>>, TypeOK' PROVE IInv'
  <2>1. WalkShape' /\ TableFinite' /\ LimitKept'
    BY <1>1, <1>2 DEF WalkShape, TableFinite, LimitKept
  <2>2. OwedAhead'
    BY <1>1, <1>2 DEF OwedAhead, Past
  <2> QED
    BY <1>2, <2>1, <2>2 DEF IInv
<1>3. ASSUME NEW t \in Tx, NEW op \in {"insert", "update"}, NEW i \in Item, Begin(t, op, i)
      PROVE  IInv'
  <2>1. /\ UNCHANGED <<now, row, walk>>
        /\ tx' = [tx EXCEPT ![t] = [op |-> op, id |-> i, at |-> now]]
    BY <1>3 DEF Begin
  <2>2. now \in 0 .. now
    BY <1>1, BoundAssumption DEF TypeOK
  <2> DEFINE new == [op |-> op, id |-> i, at |-> now]
  <2>3. new \in [op : {"insert", "update"}, id : Item, at : 0 .. now]
    BY <2>2
  <2> HIDE DEF new
  <2>4. tx' = [tx EXCEPT ![t] = new]
    BY <2>1 DEF new
  <2>5. TypeOK'
    BY <1>1, <2>1, <2>3, <2>4 DEF TypeOK
  <2> QED
    BY <1>2, <2>1, <2>5
<1>4. ASSUME NEW t \in Tx, Rollback(t) PROVE IInv'
  <2>1. UNCHANGED <<now, row, walk>> /\ tx' = [tx EXCEPT ![t] = Idle]
    BY <1>4 DEF Rollback
  <2>2. TypeOK'
    BY <1>1, <2>1 DEF TypeOK
  <2> QED
    BY <1>2, <2>1, <2>2
<1>5. ASSUME Tick PROVE IInv'
  <2>1. now < MaxTime /\ now' = now + 1 /\ UNCHANGED <<row, tx, walk>>
    BY <1>5 DEF Tick
  <2>2. now' \in 0 .. MaxTime /\ 0 .. now \subseteq 0 .. now'
    BY <1>1, <2>1, BoundAssumption DEF TypeOK
  <2>3. \A t \in Tx : tx[t] = Idle \/ tx[t] \in [op : {"insert", "update"}, id : Item, at : 0 .. now']
    BY <1>1, <2>2 DEF TypeOK
  <2>4. TypeOK'
    BY <1>1, <2>1, <2>2, <2>3 DEF TypeOK
  <2> QED
    BY <1>2, <2>1, <2>4
<1>6. ASSUME UNCHANGED vars PROVE IInv'
  <2>1. TypeOK'
    BY <1>1, <1>6 DEF TypeOK, vars
  <2> QED
    BY <1>2, <1>6, <2>1 DEF vars
<1> QED
  BY <1>3, <1>4, <1>5, <1>6

\* A walk begins with a clamped limit and is owed what the table holds; it ends
\* with nothing.
LEMMA WalkBounds ==
    ASSUME IInv
    PROVE  /\ \A n \in Limits : StartWalk(n) => IInv'
           /\ LastPage => IInv'
<1>1. TypeOK /\ WalkShape /\ TableFinite /\ LimitKept /\ OwedAhead
  BY DEF IInv
<1>2. ASSUME NEW n \in Limits, StartWalk(n) PROVE IInv'
  <2>1. walk' = [limit |-> Limit(n), cursor |-> {}, owed |-> Ids(row)]
        /\ UNCHANGED <<now, row, tx>>
    BY <1>2 DEF StartWalk
  <2>2. Limit(n) \in 1 .. MaxLimit
    BY LimitClamped, LimitAssumption
  <2>3. Limit(n) \in 0 .. MaxLimit /\ Limit(n) # 0
    BY <2>2, LimitAssumption
  <2> DEFINE lim == Limit(n)
  <2>4. walk'.limit = lim /\ walk'.cursor = {} /\ walk'.owed = Ids(row)
    BY <2>1
  <2>5. Ids(row) \subseteq Item
    BY <1>1 DEF TypeOK, Ids, Rows
  <2>6. WalkShape'
    <3> HIDE DEF lim
    <3>1. walk' = [limit |-> lim, cursor |-> {}, owed |-> Ids(row)]
      BY <2>1 DEF lim
    <3>2. lim \in 0 .. MaxLimit
      BY <2>3 DEF lim
    <3> QED
      BY <2>5, <3>1, <3>2 DEF WalkShape
  <2>7. TypeOK'
    BY <1>1, <2>1, <2>3, <2>4, <2>5 DEF TypeOK
  <2>8. OwedAhead'
    <3>1. Past({})' = row
      BY <2>1 DEF Past
    <3>2. \A i \in Ids(row) : \E r \in row : r.id = i
      BY DEF Ids
    <3>3. Past(walk.cursor)' = row
      BY <2>1, <2>4 DEF Past
    <3> QED
      BY <2>4, <3>2, <3>3 DEF OwedAhead
  <2>9. TableFinite' /\ LimitKept'
    BY <1>1, <2>1, <2>3, <2>4 DEF TableFinite, LimitKept
  <2> QED
    BY <2>6, <2>7, <2>8, <2>9 DEF IInv
<1>3. ASSUME LastPage PROVE IInv'
  <2>1. walk' = NoWalk /\ UNCHANGED <<now, row, tx>>
    BY <1>3 DEF LastPage
  <2>2. walk'.limit = 0 /\ walk'.cursor = {} /\ walk'.owed = {}
    BY <2>1 DEF NoWalk
  <2>3. WalkShape'
    BY <2>1, LimitAssumption DEF WalkShape, NoWalk
  <2>4. TypeOK'
    BY <1>1, <2>1, <2>2, LimitAssumption DEF TypeOK
  <2>5. TableFinite' /\ LimitKept' /\ OwedAhead'
    BY <1>1, <2>1, <2>2 DEF TableFinite, LimitKept, OwedAhead
  <2> QED
    BY <2>3, <2>4, <2>5 DEF IInv
<1> QED
  BY <1>2, <1>3

\* What a page did not send lies past the cursor it handed out.
LEMMA NextPageKeeps ==
    ASSUME IInv, NextPage
    PROVE  IInv'
<1> DEFINE page == Page(walk.cursor, walk.limit)
           next == NextCursor(page, walk.limit)
<1>1. TypeOK /\ WalkShape /\ TableFinite /\ LimitKept /\ OwedAhead
  BY DEF IInv
<1>2. /\ walk # NoWalk /\ next # {} /\ UNCHANGED <<now, row, tx>>
      /\ walk' = [walk EXCEPT !.cursor = next, !.owed = @ \ Ids(page)]
  BY DEF NextPage
<1>3. walk.limit \in Nat \ {0}
  BY <1>1, <1>2, LimitAssumption DEF TypeOK, LimitKept
<1>4. /\ page \subseteq Past(walk.cursor) /\ next \subseteq page
      /\ \A c, d \in next : c = d
      /\ \A c \in next : \A r \in Past(walk.cursor) \ page : Before(c, r)
  BY <1>1, <1>3, PageFacts
<1> HIDE DEF page, next
<1>5. Past(walk.cursor) \subseteq row /\ row \subseteq Rows
  BY <1>1 DEF Past, TypeOK
<1>6. /\ walk' \in [limit : 0 .. MaxLimit, cursor : SUBSET Rows, owed : SUBSET Item]
      /\ walk'.limit = walk.limit /\ walk'.cursor = next
      /\ walk'.owed = walk.owed \ Ids(page)
  BY <1>1, <1>2, <1>4, <1>5 DEF WalkShape
<1>7. TypeOK'
  BY <1>1, <1>2, <1>4, <1>6 DEF TypeOK
<1>8. LimitKept'
  BY <1>3, <1>6 DEF LimitKept
<1>9. ASSUME NEW i \in walk'.owed PROVE \E r \in Past(walk.cursor)' : r.id = i
  <2>1. PICK r \in Past(walk.cursor) : r.id = i
    BY <1>1, <1>6 DEF OwedAhead
  <2>2. r \notin page
    BY <1>6, <2>1 DEF Ids
  <2>3. r \in row' /\ \A c \in walk'.cursor : Before(c, r)
    BY <1>2, <1>4, <1>5, <1>6, <2>1, <2>2
  <2> QED
    BY <2>1, <2>3 DEF Past
<1> QED
  BY <1>1, <1>2, <1>6, <1>7, <1>8, <1>9 DEF IInv, WalkShape, TableFinite, OwedAhead

\* The invariant is kept by every step.
LEMMA StepKeeps == IInv /\ [Next]_vars => IInv'
<1> SUFFICES ASSUME IInv, [Next]_vars PROVE IInv'
  OBVIOUS
<1>1. CASE \E t \in Tx, op \in {"insert", "update"}, i \in Item : Begin(t, op, i)
  BY <1>1, OthersKeep
<1>2. CASE \E t \in Tx : Commit(t)
  BY <1>2, CommitKeeps
<1>3. CASE \E t \in Tx : Rollback(t)
  BY <1>3, OthersKeep
<1>4. CASE Tick \/ UNCHANGED vars
  BY <1>4, OthersKeep
<1>5. CASE (\E n \in Limits : StartWalk(n)) \/ LastPage
  BY <1>5, WalkBounds
<1>6. CASE NextPage
  BY <1>6, NextPageKeeps
<1> QED
  BY <1>1, <1>2, <1>3, <1>4, <1>5, <1>6 DEF Next

\* The walk that ends has a page with everything past its cursor, so with
\* everything it was still owed.
LEMMA LastPageSends ==
    ASSUME IInv, LastPage
    PROVE  walk.owed \subseteq Ids(Page(walk.cursor, walk.limit))
<1> DEFINE page == Page(walk.cursor, walk.limit)
<1>1. TypeOK /\ TableFinite /\ LimitKept /\ OwedAhead
  BY DEF IInv
<1>2. walk # NoWalk /\ NextCursor(page, walk.limit) = {}
  BY DEF LastPage
<1>3. walk.limit \in Nat \ {0}
  BY <1>1, <1>2, LimitAssumption DEF TypeOK, LimitKept
<1>4. page = Past(walk.cursor)
  BY <1>1, <1>2, <1>3, PageFacts
<1> QED
  BY <1>1, <1>4 DEF OwedAhead, Ids

----------------------------------------------------------------------------
(* Theorems *)

\* The invariant holds throughout.
LEMMA Invariance == Spec => []IInv
BY InitInvariant, StepKeeps, PTL DEF Spec

\* Rows, transactions and the reader have their types, whatever commits.
THEOREM TypeCorrect == Spec => []TypeOK
<1>1. IInv => TypeOK
  BY DEF IInv
<1> QED
  BY <1>1, Invariance, PTL

\* A walk that ends has been sent every row that was there when it began and
\* that no update moved back (repo.go:150), for every table and every limit.
THEOREM WalkFindsRowsCorrect == Spec => WalkFindsRows
<1>1. IInv => (LastPage => walk.owed \subseteq Ids(Page(walk.cursor, walk.limit)))
  BY LastPageSends
<1> QED
  BY <1>1, Invariance, PTL DEF Spec, WalkFindsRows
=============================================================================
