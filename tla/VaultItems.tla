------------------------------ MODULE VaultItems ------------------------------
(***************************************************************************)
(* The item table of one vault as it is read in pages: transactions of     *)
(* modules/vault-storage that stamp a row with the time they began, and a  *)
(* client that walks the pages of GET /items.  What an item holds, and the *)
(* log behind the directory, are in AccountKeys and VaultSync; a tombstone *)
(* is an update here, as its row stays in the pages.                       *)
(*                                                                         *)
(*   now   the database clock                                              *)
(*   row   id and updated_at of each committed row                         *)
(*   tx    the item transaction open on each connection                    *)
(*   walk  the reader: its limit, its cursor (a set of one row, empty at   *)
(*         first) and what it owes: the ids of the rows there when it      *)
(*         began that it has not been sent, without those whose stamp has  *)
(*         gone down since                                                 *)
(***************************************************************************)
EXTENDS Naturals, FiniteSets

CONSTANTS
    Item,          \* item ids, ordered as uuids are
    Tx,            \* database connections
    DefaultLimit, MaxLimit,
    Limits,        \* the limits clients ask for
    MaxTime        \* bound: the clock stops here

ASSUME ItemAssumption == Item \subseteq Nat
ASSUME LimitAssumption ==
    /\ DefaultLimit \in Nat \ {0} /\ MaxLimit \in Nat
    /\ DefaultLimit <= MaxLimit /\ Limits \subseteq Nat
ASSUME BoundAssumption == MaxTime \in Nat

VARIABLES now, row, tx, walk
vars == <<now, row, tx, walk>>

Rows == [id : Item, at : 0 .. MaxTime]
Ids(rows) == {r.id : r \in rows}
Idle == [op |-> "idle", id |-> 0, at |-> 0]
NoWalk == [limit |-> 0, cursor |-> {}, owed |-> {}]

TypeOK ==
    /\ now \in 0 .. MaxTime
    /\ row \subseteq Rows /\ \A r, q \in row : r.id = q.id => r = q
    /\ \A t \in Tx : tx[t] = Idle \/ tx[t] \in [op : {"insert", "update"}, id : Item, at : 0 .. now]
    /\ walk.limit \in 0 .. MaxLimit
    /\ walk.cursor \subseteq Rows /\ \A r, q \in walk.cursor : r = q
    /\ walk.owed \subseteq Item

Init ==
    /\ now = 0
    /\ row = {}
    /\ tx = [t \in Tx |-> Idle]
    /\ walk = NoWalk

----------------------------------------------------------------------------
(* Pages *)

\* Mutant: the limit is not clamped.
LimitUnclamped(asked) == IF asked < 1 THEN DefaultLimit ELSE asked

\* Limit: what is not a positive number is the default.
Limit(asked) == CASE asked < 1 -> DefaultLimit
                  [] asked > MaxLimit -> MaxLimit
                  [] OTHER -> asked

\* Mutant: the cursor is the stamp alone.
BeforeByStamp(r, q) == r.at < q.at

\* ORDER BY updated_at, id, and (updated_at, id) > ($2, $3).
Before(r, q) == r.at < q.at \/ (r.at = q.at /\ r.id < q.id)

\* Mutant: the row of the cursor is sent again.
PastInclusive(cursor) == {r \in row : \A c \in cursor : ~Before(r, c)}

Past(cursor) == {r \in row : \A c \in cursor : Before(c, r)}

Page(cursor, limit) ==
    {r \in Past(cursor) : Cardinality({q \in Past(cursor) : Before(q, r)}) < limit}

\* The handler offers the last row as cursor, after a full page only.
NextCursor(page, limit) ==
    IF Cardinality(page) = limit THEN {r \in page : \A q \in page : ~Before(r, q)} ELSE {}

----------------------------------------------------------------------------
(* Transactions: now() is the time of BEGIN, the row is written when the   *)
(* lock on it is had, and a reader sees it at COMMIT.                      *)

Begin(t, op, i) ==
    /\ tx[t] = Idle
    /\ tx' = [tx EXCEPT ![t] = [op |-> op, id |-> i, at |-> now]]
    /\ UNCHANGED <<now, row, walk>>

\* The row that the transaction leaves; an id that is taken is refused (409)
\* and an update of one that is not there changes nothing (404).
Written(t) ==
    {[id |-> i, at |-> tx[t].at] : i \in {tx[t].id} \cap
        (IF tx[t].op = "insert" THEN Item \ Ids(row) ELSE Ids(row))}

\* The rows of a commit that are now before where they were.
SetBack(new) == {n \in new : \E r \in row : r.id = n.id /\ Before(n, r)}

Commit(t) ==
    LET new == Written(t)
    IN  /\ tx[t] # Idle
        /\ row' = {r \in row : r.id \notin Ids(new)} \cup new
        /\ walk' = [walk EXCEPT !.owed = @ \ Ids(SetBack(new))]
        /\ tx' = [tx EXCEPT ![t] = Idle]
        /\ UNCHANGED now

Rollback(t) ==
    /\ tx[t] # Idle
    /\ tx' = [tx EXCEPT ![t] = Idle]
    /\ UNCHANGED <<now, row, walk>>

Tick ==
    /\ now < MaxTime
    /\ now' = now + 1
    /\ UNCHANGED <<row, tx, walk>>

----------------------------------------------------------------------------
(* The reader *)

StartWalk(asked) ==
    /\ walk = NoWalk
    /\ walk' = [limit |-> Limit(asked), cursor |-> {}, owed |-> Ids(row)]
    /\ UNCHANGED <<now, row, tx>>

NextPage ==
    LET page == Page(walk.cursor, walk.limit)
        next == NextCursor(page, walk.limit)
    IN  /\ walk # NoWalk /\ next # {}
        /\ walk' = [walk EXCEPT !.cursor = next, !.owed = @ \ Ids(page)]
        /\ UNCHANGED <<now, row, tx>>

LastPage ==
    /\ walk # NoWalk /\ NextCursor(Page(walk.cursor, walk.limit), walk.limit) = {}
    /\ walk' = NoWalk
    /\ UNCHANGED <<now, row, tx>>

Next ==
    \/ \E t \in Tx :
         \/ \E op \in {"insert", "update"}, i \in Item : Begin(t, op, i)
         \/ Commit(t)
         \/ Rollback(t)
    \/ Tick
    \/ \E n \in Limits : StartWalk(n)
    \/ NextPage
    \/ LastPage

\* The client goes on to ask for pages; writers may stop at any point.
Fairness == WF_vars(NextPage \/ LastPage)
Spec == Init /\ [][Next]_vars /\ Fairness

----------------------------------------------------------------------------
(* Properties *)

\* A walk that ends has been sent every row that was there when it began,
\* whatever is written meanwhile: a row that is touched moves to a later page.
\* Only an update that began before the row's last one and committed after it
\* may hide a row, for it moves the row back over the cursor (repo.go:150).
WalkFindsRows ==
    [][LastPage => walk.owed \subseteq Ids(Page(walk.cursor, walk.limit))]_vars

\* A walk ends: every cursor lies after the one before, so it goes round in no
\* circle.  That the clock stops bounds how long writers can keep it going.
WalkEnds == walk # NoWalk ~> walk = NoWalk
=============================================================================
