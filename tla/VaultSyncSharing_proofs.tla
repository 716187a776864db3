----------------------- MODULE VaultSyncSharing_proofs -----------------------
(***************************************************************************)
(* How far what one device knows reaches the others, for every set of      *)
(* devices and items and every page limit.  What is missed and what the    *)
(* manifests forget is bounded under every fault; the two theorems on what *)
(* the log holds name the faults they allow, and the run lost_delta shows  *)
(* what the others do.                                                     *)
(***************************************************************************)
EXTENDS VaultSync_proofs, OrderedPages

----------------------------------------------------------------------------
(* The inductive invariant, by the faults its parts withstand *)

\* Ids of sync_change are drawn once, and no client has seen one not yet drawn.
IdsOK ==
    /\ IsFiniteSet(log)
    /\ \A r \in log \cup open : r.id < nextId
    /\ \A r, s \in log \cup open : r.id = s.id => r = s
    /\ log \cap open = {}
    /\ \A d \in Device : cursor[d] < nextId

\* A causal past is transitively closed, and what has been taken is in the document.
PastsOK ==
    /\ \A c \in DOMAIN change :
         /\ change[c].past \subseteq DOMAIN change
         /\ \A b \in change[c].past : change[b].past \subseteq change[c].past
    /\ \A d \in Device : saved[d] \subseteq have[d]

\* Only the delta a device has just sent may be missing from the log, while the
\* command waits for it or after its answer was lost.
Sent(d) ==
    \/ have[d] \subseteq Shared(log)
    \/ \E r \in open :
         /\ have[d] \subseteq Shared(log) \cup r.delta
         /\ IF pc[d] = "commit" THEN r.id = cmd[d].ticket
            ELSE "reply_lost" \in Faults /\ pc[d] # "sign"

DeltasClosed ==
    /\ LogCausallyClosed
    /\ \A r \in open : \A c \in r.delta : change[c].past \subseteq Shared(log) \cup r.delta

\* The snapshot that is signed is closed, and what was not shared when it was
\* signed is named.
BaseOK ==
    /\ vault.base \subseteq DOMAIN change
    /\ \A c \in vault.base : change[c].past \subseteq vault.base
    /\ vault.base \subseteq vault.unshared \cup Shared(log)

\* Every delta that is sent is committed, and is so before the next one is made.
DeltasArrive ==
    /\ Faults \subseteq {"crash", "overlap", "reply_lost"}
    /\ ~({"overlap", "reply_lost"} \subseteq Faults)

BookInv == IInv /\ IdsOK /\ PastsOK
ShareInv == BookInv /\ DeltasClosed /\ \A d \in Device : Sent(d)
BaseInv == BookInv /\ BaseOK /\ BaseDelivered

----------------------------------------------------------------------------
(* The steps, by what they do to documents, rows and cursors *)

\* A step that moves no change: commands begin, go on or end.
Quiet ==
    /\ UNCHANGED <<vault, nextId, open, log, have, saved, cursor, change>>
    /\ \A d \in Device :
         \/ pc'[d] = pc[d] /\ cmd'[d] = cmd[d] /\ known'[d] = known[d]
         \/ /\ pc[d] # "commit" /\ pc'[d] \notin {"commit", "sign"}
            /\ pc'[d] \in Merged => pc[d] \in Merged /\ known'[d] = known[d]

\* Every step is quiet or is one of the nine that are not.
LEMMA StepKinds ==
    ASSUME IInv, [Next]_vars
    PROVE  \/ Quiet
           \/ \E r \in open : CommitChange(r) /\ UNCHANGED clientVars
           \/ /\ "rollback" \in Faults
              /\ \E r \in open : RollbackChange(r) /\ UNCHANGED clientVars
           \/ \E d \in Device : \/ Pull(d) \/ SendDelta(d) \/ DeltaAccepted(d) \/ DeltaFailed(d)
                                \/ DropSession(d)
                                \/ \E reply \in BOOLEAN : SignManifest(d, reply)
                                \/ "request_lost" \in Faults /\ LoseDelta(d)
<1> USE DEF IInv
<1>0. /\ pc \in [Device -> Resting \cup Calling] /\ cmd \in [Device -> Command]
      /\ known \in [Device -> Nat]
  BY DEF TypeOK
<1>1. CASE UNCHANGED vars
  BY <1>1 DEF vars, serverVars, clientVars, Quiet, Merged
<1>2. CASE ServerStep
  BY <1>2 DEF ServerStep
<1>3. ASSUME NEW d \in Device, Login(d) \/ FetchManifest(d) \/ ListItems(d) \/ LoseRequest(d)
      PROVE  Quiet
  <2>1. CASE Login(d)
    BY <1>0, <2>1 DEF Login, serverVars, Quiet, Merged
  <2>2. CASE FetchManifest(d)
    <3>1. /\ pc[d] = "vault" /\ pc'[d] \in {"idle", "items"}
          /\ \A e \in Device \ {d} : pc'[e] = pc[e] /\ cmd'[e] = cmd[e] /\ known'[e] = known[e]
      BY <1>0, <2>2, ReturnStep DEF FetchManifest
    <3> QED
      BY <2>2, <3>1 DEF FetchManifest, serverVars, Quiet, Merged
  <2>3. CASE ListItems(d) \/ LoseRequest(d)
    <3>1. /\ pc[d] # "commit" /\ pc'[d] = "idle" /\ known' = known
          /\ \A e \in Device \ {d} : pc'[e] = pc[e] /\ cmd'[e] = cmd[e]
      BY <2>3, ReturnStep DEF ListItems, LoseRequest
    <3> QED
      BY <2>3, <3>1 DEF ListItems, LoseRequest, serverVars, Quiet, Merged
  <2> QED
    BY <1>3, <2>1, <2>2, <2>3
<1>4. ASSUME NEW d \in Device, NEW op, NEW i, Start(d, op, i) PROVE Quiet
  BY <1>0, <1>4 DEF Start, serverVars, Quiet, Merged
<1>5. ASSUME NEW d \in Device, NEW reply \in BOOLEAN, WriteItem(d, reply) PROVE Quiet
  <2>1. UNCHANGED <<vault, nextId, open, log, have, saved, cursor, known, change>>
    BY <1>5 DEF WriteItem, WriteRow, InsertItem, UpdateItem, DeleteItem, serverVars
  <2>2. /\ pc[d] = "write" /\ pc'[d] \in {"idle", "push"}
        /\ \A e \in Device \ {d} : pc'[e] = pc[e] /\ cmd'[e] = cmd[e]
    BY <1>0, <1>5, ReturnStep DEF WriteItem
  <2> QED
    BY <2>1, <2>2 DEF Quiet, Merged
<1>6. ASSUME NEW d \in Device, UserStep(d) PROVE Quiet \/ DropSession(d)
  BY <1>3, <1>4, <1>6 DEF UserStep, Lock, StartList, StartCreate, StartEdit
<1>7. ASSUME NEW d \in Device, CallStep(d)
      PROVE  \/ Quiet \/ Pull(d) \/ SendDelta(d) \/ DeltaAccepted(d) \/ DeltaFailed(d)
             \/ \E reply \in BOOLEAN : SignManifest(d, reply)
  BY <1>3, <1>5, <1>7 DEF CallStep, Replies
<1>8. ASSUME NEW d \in Device, FaultStep(d)
      PROVE  Quiet \/ DropSession(d) \/ ("request_lost" \in Faults /\ LoseDelta(d))
  BY <1>3, <1>8 DEF FaultStep, Crash, LoseDelta
<1> QED
  BY <1>1, <1>2, <1>6, <1>7, <1>8 DEF Next

\* What a device knows is closed under causal pasts.
LEMMA KnownClosed ==
    ASSUME IInv, PastsOK, NEW d \in Device, NEW c \in Known(d)
    PROVE  change[c].past \subseteq Known(d)
<1>1. have[d] \subseteq DOMAIN change
  BY DEF IInv, HistoryOK
<1>2. c \in DOMAIN change /\ change[c].past \subseteq have[d]
  BY <1>1 DEF Known, Applied
<1>3. \A b \in change[c].past : change[b].past \subseteq change[c].past
  BY <1>2 DEF PastsOK
<1> QED
  BY <1>2, <1>3 DEF Known, Applied

\* What record_item_change does to the history and to the documents.
LEMMA Recorded ==
    ASSUME IInv, NEW d \in Device, RecordItemChange(d)
    PROVE  /\ \A c \in DOMAIN change : c \in DOMAIN change' /\ change'[c] = change[c]
           /\ \A e \in Device \ {d} : have'[e] = have[e]
           /\ have[d] \subseteq have'[d] /\ Known(d)' \subseteq have'[d]
           /\ \A c \in have'[d] \ have[d] : c \in Known(d)' /\ c \notin DOMAIN change
           /\ \A c \in DOMAIN change' : c \in DOMAIN change
                                        \/ (c \in have'[d] /\ change'[c].past = Known(d))
           /\ \A c \in have'[d] : c \in DOMAIN change'
<1> DEFINE new == NewChange(d)
           n == Len(change) + 1
<1>1. /\ change \in Seq(Change) /\ have \in [Device -> SUBSET Nat]
      /\ have[d] \subseteq DOMAIN change
  BY DEF IInv, TypeOK, HistoryOK
<1>2. Known(d) \subseteq have[d]
  BY DEF Known, Applied
<1>3. CASE UNCHANGED <<change, have>>
  <2>1. Known(d)' = Known(d)
    BY <1>3 DEF Known, Applied
  <2> QED
    BY <1>1, <1>2, <1>3, <2>1
<1>4. CASE change' = Append(change, new) /\ have' = [have EXCEPT ![d] = @ \cup {Len(change')}]
  <2>1. new.past = Known(d)
    BY DEF NewChange
  <2> HIDE DEF new
  <2>2. /\ DOMAIN change = 1 .. Len(change) /\ Len(change) \in Nat
        /\ DOMAIN change' = 1 .. n /\ Len(change') = n
        /\ \A c \in DOMAIN change : change'[c] = change[c]
        /\ change'[n] = new
    BY <1>1, <1>4
  <2>3. have'[d] = have[d] \cup {n} /\ \A e \in Device \ {d} : have'[e] = have[e]
    BY <1>1, <1>4, <2>2
  <2>4. n \notin DOMAIN change /\ n \in DOMAIN change' /\ DOMAIN change' = DOMAIN change \cup {n}
    BY <2>2
  <2>5. n \in Known(d)'
    BY <1>2, <2>1, <2>2, <2>3 DEF Known, Applied
  <2>6. Known(d)' \subseteq have'[d]
    BY DEF Known, Applied
  <2>7. change'[n].past = Known(d) /\ n \in have'[d]
    BY <2>1, <2>2, <2>3
  <2> HIDE DEF n
  <2>8. /\ \A c \in DOMAIN change : c \in DOMAIN change' /\ change'[c] = change[c]
        /\ \A c \in DOMAIN change' : c \in DOMAIN change
                                     \/ (c \in have'[d] /\ change'[c].past = Known(d))
    BY <2>2, <2>4, <2>7
  <2>9. /\ have[d] \subseteq have'[d]
        /\ \A c \in have'[d] \ have[d] : c \in Known(d)' /\ c \notin DOMAIN change
        /\ \A c \in have'[d] : c \in DOMAIN change'
    BY <1>1, <2>3, <2>4, <2>5
  <2> QED
    BY <2>3, <2>6, <2>8, <2>9
<1> QED
  BY <1>3, <1>4 DEF RecordItemChange

\* A page is an initial piece of the committed rows after the cursor, and all
\* of them when the server offers no next cursor (sync/repo.go:35).
LEMMA PageFacts ==
    ASSUME IInv, IdsOK, NEW since \in Nat
    PROVE  LET page == ListChanges(since)
           IN  /\ page \subseteq log
               /\ \A r \in log, q \in page : r.id > since /\ r.id <= q.id => r \in page
               /\ ~HasNextCursor(page) => \A r \in log : r.id > since => r \in page
<1> DEFINE page == ListChanges(since)
           later == {r \in log : r.id > since}
           L == {p \in later \X later : p[1].id < p[2].id}
<1>1. \A q, r \in later : <<q, r>> \in L <=> q.id < r.id
  OBVIOUS
<1>2. \A r \in later : r.id \in Nat
  BY DEF IInv, TypeOK, ServerTypeOK, DeltaRow
<1>3. \A q, r \in later : q.id = r.id => q = r
  BY DEF IdsOK
<1>4. IsFiniteSet(later)
  BY FS_Subset DEF IdsOK
<1>5. page = {r \in later : Cardinality({q \in later : q.id < r.id}) < PageLimit}
  BY DEF ListChanges
<1> HIDE DEF L, page
<1>6. TotalOrder(L, later)
  <2> HIDE DEF later
  <2> QED
    BY <1>1, <1>2, <1>3 DEF TotalOrder
<1>7. page = FirstRows(L, later, PageLimit)
  <2>1. \A r \in later : Below(L, later, r) = {q \in later : q.id < r.id}
    BY <1>1 DEF Below
  <2> HIDE DEF later
  <2> QED
    BY <1>5, <2>1 DEF FirstRows
<1>8. page \subseteq later
  BY <1>5
<1>9. ASSUME NEW r \in log, NEW q \in page, r.id > since, r.id <= q.id PROVE r \in page
  <2>1. r \in later /\ q \in later
    BY <1>8, <1>9
  <2>2. r = q \/ r.id < q.id
    BY <1>2, <1>3, <1>9, <2>1
  <2>3. r = q \/ <<r, q>> \in L
    BY <1>1, <2>1, <2>2
  <2> HIDE DEF later
  <2> QED
    BY <1>4, <1>6, <1>7, <2>1, <2>3, FirstRowsClosed, PageLimitAssumption
<1>10. ASSUME Cardinality(page) # PageLimit PROVE page = later
  <2> HIDE DEF later
  <2> QED
    BY <1>4, <1>6, <1>7, <1>10, ShortPageIsAll, PageLimitAssumption
<1> QED
  BY <1>8, <1>9, <1>10 DEF page, HasNextCursor

----------------------------------------------------------------------------
(* Bookkeeping, whatever faults happen *)

\* Initially the bookkeeping of documents, log and rows is in order.
LEMMA BookInit == Init => BookInv
<1> SUFFICES ASSUME Init PROVE BookInv
  OBVIOUS
<1>1. IInv
  BY InitInvariant
<1>2. IsFiniteSet({})
  BY FS_EmptySet
<1> QED
  BY <1>1, <1>2 DEF Init, ServerInit, BookInv, IdsOK, PastsOK

\* Ids and pasts stay in order through every step.
LEMMA BookStep ==
    ASSUME BookInv, [Next]_vars PROVE BookInv'
<1>0. IInv /\ IdsOK /\ PastsOK
  BY DEF BookInv
<1>1. IInv'
  BY <1>0, StepInvariant
<1>t. /\ nextId \in Nat /\ cursor \in [Device -> Nat] /\ have \in [Device -> SUBSET Nat]
      /\ saved \in [Device -> SUBSET Nat]
      /\ \A r \in log \cup open : r.id \in Nat /\ r.id > 0
  BY <1>0 DEF IInv, TypeOK, ServerTypeOK, DeltaRow
<1> SUFFICES IdsOK' /\ PastsOK'
  BY <1>1 DEF BookInv
<1>2. ASSUME NEW d \in Device, RecordItemChange(d), TakePendingChanges(d) PROVE PastsOK'
  <2>1. /\ \A c \in DOMAIN change : c \in DOMAIN change' /\ change'[c] = change[c]
        /\ \A e \in Device \ {d} : have'[e] = have[e]
        /\ have[d] \subseteq have'[d] /\ Known(d)' \subseteq have'[d]
        /\ \A c \in DOMAIN change' : c \in DOMAIN change \/ change'[c].past = Known(d)
    BY <1>0, <1>2, Recorded
  <2>2. Known(d) \subseteq DOMAIN change /\ \A c \in Known(d) : change[c].past \subseteq Known(d)
    BY <1>0, KnownClosed DEF IInv, HistoryOK, Known, Applied
  <2>3. saved' = [saved EXCEPT ![d] = Known(d)']
    BY <1>2 DEF TakePendingChanges
  <2>4. \A e \in Device : saved'[e] \subseteq have'[e]
    BY <1>0, <1>t, <2>1, <2>3 DEF PastsOK
  <2>5. ASSUME NEW c \in DOMAIN change'
        PROVE  /\ change'[c].past \subseteq DOMAIN change'
               /\ \A b \in change'[c].past : change'[b].past \subseteq change'[c].past
    <3>1. CASE c \in DOMAIN change
      BY <1>0, <2>1, <3>1 DEF PastsOK
    <3>2. CASE change'[c].past = Known(d)
      BY <2>1, <2>2, <3>2
    <3> QED
      BY <2>1, <3>1, <3>2
  <2> QED
    BY <2>4, <2>5 DEF PastsOK
<1>3. CASE Quiet
  BY <1>0, <1>3 DEF Quiet, IdsOK, PastsOK
<1>4. ASSUME NEW r \in open, CommitChange(r), UNCHANGED clientVars PROVE IdsOK' /\ PastsOK'
  <2>1. /\ open' = open \ {r} /\ log' = log \cup {r} /\ nextId' = nextId
        /\ UNCHANGED <<cursor, have, saved, change>>
    BY <1>4 DEF CommitChange, clientVars
  <2>2. IsFiniteSet(log')
    BY <1>0, <2>1, FS_AddElement DEF IdsOK
  <2> QED
    BY <1>0, <2>1, <2>2 DEF IdsOK, PastsOK
<1>5. ASSUME NEW r \in open, RollbackChange(r), UNCHANGED clientVars PROVE IdsOK' /\ PastsOK'
  BY <1>0, <1>5 DEF RollbackChange, clientVars, IdsOK, PastsOK
<1>6. ASSUME NEW d \in Device, Pull(d) PROVE IdsOK' /\ PastsOK'
  <2> DEFINE page == ListChanges(cursor[d])
  <2>1. page \subseteq log
    BY DEF ListChanges
  <2>2. \A c \in CursorAfter(page, d) : c < nextId
    BY <1>0, <2>1 DEF CursorAfter, NextCursor, IdsOK
  <2> HIDE DEF page
  <2>3. /\ have' = [have EXCEPT ![d] = @ \cup Shared(page)]
        /\ \E c \in CursorAfter(page, d) : cursor' = [cursor EXCEPT ![d] = c]
        /\ UNCHANGED <<nextId, open, log, saved, change>>
    BY <1>6 DEF Pull, page, serverVars
  <2> QED
    BY <1>0, <1>t, <2>2, <2>3 DEF IdsOK, PastsOK
<1>7. ASSUME NEW d \in Device, SendDelta(d) PROVE IdsOK' /\ PastsOK'
  <2>1. RecordItemChange(d) /\ TakePendingChanges(d) /\ InsertChange(Pending(d)) /\ cursor' = cursor
    BY <1>7 DEF SendDelta
  <2>2. /\ open' = open \cup {[id |-> nextId, delta |-> Pending(d)]}
        /\ nextId' = nextId + 1 /\ log' = log
    BY <2>1 DEF InsertChange
  <2>3. IdsOK'
    <3> DEFINE new == [id |-> nextId, delta |-> Pending(d)]
    <3>1. new.id = nextId
      OBVIOUS
    <3>2. open' = open \cup {new}
      BY <2>2
    <3> HIDE DEF new
    <3> QED
      BY <1>0, <1>t, <2>1, <2>2, <3>1, <3>2 DEF IdsOK
  <2> QED
    BY <1>2, <2>1, <2>3
<1>8. ASSUME NEW d \in Device, DeltaAccepted(d) \/ DeltaFailed(d) \/ (\E reply \in BOOLEAN : SignManifest(d, reply))
      PROVE  IdsOK' /\ PastsOK'
  <2>1. UNCHANGED <<nextId, open, log, have, saved, cursor, change>>
    BY <1>8 DEF DeltaAccepted, DeltaFailed, SignManifest, UpdateManifest, serverVars
  <2> QED
    BY <1>0, <2>1 DEF IdsOK, PastsOK
<1>9. ASSUME NEW d \in Device, DropSession(d) PROVE IdsOK' /\ PastsOK'
  <2>1. /\ cursor' = [cursor EXCEPT ![d] = 0]
        /\ have' = [have EXCEPT ![d] = {}] /\ saved' = [saved EXCEPT ![d] = {}]
        /\ UNCHANGED <<nextId, open, log, change>>
    BY <1>9 DEF DropSession, serverVars
  <2>2. 0 < nextId
    BY <1>0 DEF IInv, TypeOK, ServerTypeOK
  <2> QED
    BY <1>0, <1>t, <2>1, <2>2 DEF IdsOK, PastsOK
<1>10. ASSUME NEW d \in Device, LoseDelta(d) PROVE IdsOK' /\ PastsOK'
  <2>1. RecordItemChange(d) /\ TakePendingChanges(d) /\ UNCHANGED <<nextId, open, log, cursor>>
    BY <1>10 DEF LoseDelta, serverVars
  <2> QED
    BY <1>0, <1>2, <2>1 DEF IdsOK
<1> QED
  BY <1>0, <1>3, <1>4, <1>5, <1>6, <1>7, <1>8, <1>9, <1>10, StepKinds

----------------------------------------------------------------------------
(* Deltas that all arrive: nothing is missing from the log *)

\* Initially no change has been sent and the log is empty.
LEMMA ShareInit == Init => ShareInv
<1> SUFFICES ASSUME Init PROVE ShareInv
  OBVIOUS
<1>1. BookInv
  BY BookInit
<1> QED
  BY <1>1 DEF Init, ServerInit, ShareInv, DeltasClosed, LogCausallyClosed, Sent, Shared

\* What a device sends, with what is in the log, holds all that it knows.
LEMMA SendKeeps ==
    ASSUME DeltasArrive, ShareInv, NEW d \in Device, SendDelta(d)
    PROVE  DeltasClosed' /\ \A e \in Device : Sent(e)'
<1> DEFINE new == [id |-> nextId, delta |-> Pending(d)]
<1>0. IInv /\ IdsOK /\ PastsOK /\ DeltasClosed /\ \A e \in Device : Sent(e)
  BY DEF ShareInv, BookInv
<1>1. /\ pc[d] = "push" /\ RecordItemChange(d) /\ ("overlap" \in Faults \/ open = {})
      /\ open' = open \cup {new} /\ log' = log
      /\ pc' = [pc EXCEPT ![d] = "commit"]
      /\ cmd' = [cmd EXCEPT ![d].ticket = nextId]
  BY DEF SendDelta, InsertChange
<1>2. /\ pc'[d] = "commit" /\ cmd'[d].ticket = nextId
      /\ \A e \in Device \ {d} : pc'[e] = pc[e] /\ cmd'[e] = cmd[e]
  BY <1>0, <1>1 DEF IInv, TypeOK, Command
<1>3. have[d] \subseteq Shared(log)
  BY <1>0, <1>1 DEF Sent, DeltasArrive
<1>4. /\ \A c \in DOMAIN change : c \in DOMAIN change' /\ change'[c] = change[c]
      /\ \A e \in Device \ {d} : have'[e] = have[e]
      /\ Known(d)' \subseteq have'[d]
      /\ \A c \in have'[d] \ have[d] : c \in Known(d)' /\ c \notin DOMAIN change
      /\ \A c \in DOMAIN change' : c \in DOMAIN change
                                   \/ (c \in have'[d] /\ change'[c].past = Known(d))
      /\ \A c \in have'[d] : c \in DOMAIN change'
  BY <1>0, <1>1, Recorded
<1>5. /\ saved[d] \subseteq DOMAIN change /\ Known(d) \subseteq have[d]
      /\ \A e \in Device : have[e] \subseteq DOMAIN change
      /\ \A r \in log \cup open : r.delta \subseteq DOMAIN change
  BY <1>0 DEF IInv, HistoryOK, PastsOK, Known, Applied
<1>6. new.id = nextId /\ new.delta = Known(d)' \ saved[d]
  BY DEF Pending
<1> HIDE DEF new
<1>7. have'[d] \subseteq Shared(log) \cup new.delta
  BY <1>3, <1>4, <1>5, <1>6
<1>8. Sent(d)'
  BY <1>1, <1>2, <1>6, <1>7 DEF Sent
<1>9. ASSUME NEW e \in Device \ {d} PROVE Sent(e)'
  BY <1>0, <1>1, <1>2, <1>4, <1>9 DEF Sent
<1>10. \A c \in Shared(log) : c \in DOMAIN change
  BY <1>5 DEF Shared
<1>11. LogCausallyClosed'
  BY <1>0, <1>1, <1>4, <1>10 DEF DeltasClosed, LogCausallyClosed
<1>12. ASSUME NEW c \in new.delta PROVE change'[c].past \subseteq Shared(log)
  <2>1. c \in have'[d] /\ c \in DOMAIN change'
    BY <1>4, <1>6
  <2>2. CASE c \in DOMAIN change
    <3>1. c \in Shared(log)
      BY <1>3, <1>4, <2>1, <2>2
    <3> QED
      BY <1>0, <1>4, <2>2, <3>1 DEF DeltasClosed, LogCausallyClosed
  <2>3. CASE change'[c].past = Known(d)
    BY <1>3, <1>5, <2>3
  <2> QED
    BY <1>4, <2>1, <2>2, <2>3
<1>13. ASSUME NEW r \in open, NEW c \in r.delta
       PROVE  change'[c].past \subseteq Shared(log) \cup r.delta
  BY <1>0, <1>4, <1>5 DEF DeltasClosed
<1>14. DeltasClosed'
  BY <1>1, <1>11, <1>12, <1>13 DEF DeltasClosed
<1> QED
  BY <1>8, <1>9, <1>14

\* No step takes a change out of the reach of the log.
LEMMA ShareStep ==
    ASSUME DeltasArrive, ShareInv, [Next]_vars PROVE ShareInv'
<1>0. /\ BookInv /\ IInv /\ IdsOK /\ PastsOK /\ DeltasClosed
      /\ \A d \in Device : Sent(d)
  BY DEF ShareInv, BookInv
<1>1. BookInv'
  BY <1>0, BookStep
<1>t. /\ pc \in [Device -> Resting \cup Calling] /\ cmd \in [Device -> Command]
      /\ have \in [Device -> SUBSET Nat]
  BY <1>0 DEF IInv, TypeOK
<1> DEFINE Goal == DeltasClosed' /\ \A d \in Device : Sent(d)'
<1> SUFFICES Goal
  BY <1>1 DEF ShareInv
<1>2. ASSUME UNCHANGED <<open, log, change>> PROVE DeltasClosed'
  BY <1>0, <1>2 DEF DeltasClosed, LogCausallyClosed
<1>3. CASE Quiet
  <2>1. UNCHANGED <<open, log, have, change>>
    BY <1>3 DEF Quiet
  <2>2. ASSUME NEW e \in Device PROVE Sent(e)'
    <3>1. Sent(e)
      BY <1>0
    <3>2. CASE pc'[e] = pc[e] /\ cmd'[e] = cmd[e]
      BY <2>1, <3>1, <3>2 DEF Sent
    <3>3. CASE pc[e] # "commit" /\ pc'[e] \notin {"commit", "sign"}
      BY <2>1, <3>1, <3>3 DEF Sent
    <3> QED
      BY <1>3, <3>2, <3>3 DEF Quiet
  <2> QED
    BY <1>2, <2>1, <2>2
<1>4. ASSUME NEW r \in open, CommitChange(r), UNCHANGED clientVars PROVE Goal
  <2>1. /\ open' = open \ {r} /\ log' = log \cup {r}
        /\ UNCHANGED <<pc, cmd, have, change>>
    BY <1>4 DEF CommitChange, clientVars
  <2>2. Shared(log') = Shared(log) \cup r.delta
    BY <2>1 DEF Shared
  <2>3. ASSUME NEW e \in Device PROVE Sent(e)'
    BY <1>0, <2>1, <2>2 DEF Sent
  <2>4. DeltasClosed'
    BY <1>0, <2>1, <2>2 DEF DeltasClosed, LogCausallyClosed
  <2> QED
    BY <2>3, <2>4
<1>5. ASSUME NEW d \in Device, Pull(d) PROVE Goal
  <2>1. ListChanges(cursor[d]) \subseteq log
    BY DEF ListChanges
  <2>2. Shared(ListChanges(cursor[d])) \subseteq Shared(log)
    BY <2>1 DEF Shared
  <2>3. /\ have'[d] = have[d] \cup Shared(ListChanges(cursor[d]))
        /\ pc[d] = "pull" /\ pc'[d] \notin {"commit", "sign"}
        /\ \A e \in Device \ {d} : pc'[e] = pc[e] /\ have'[e] = have[e]
        /\ UNCHANGED <<open, log, cmd, change>>
    BY <1>5, <1>t DEF Pull, serverVars
  <2>4. ASSUME NEW e \in Device PROVE Sent(e)'
    <3>1. Sent(e)
      BY <1>0
    <3>2. CASE e = d
      BY <2>2, <2>3, <3>1, <3>2 DEF Sent
    <3>3. CASE e # d
      BY <2>3, <3>1, <3>3 DEF Sent
    <3> QED
      BY <3>2, <3>3
  <2> QED
    BY <1>2, <2>3, <2>4
<1>6. ASSUME NEW d \in Device, SendDelta(d) PROVE Goal
  BY <1>6, SendKeeps
<1>7. ASSUME NEW d \in Device, DeltaAccepted(d) PROVE Goal
  <2>1. /\ pc[d] = "commit" /\ Ended(log, cmd[d].ticket)
        /\ \A e \in Device \ {d} : pc'[e] = pc[e]
        /\ UNCHANGED <<open, log, cmd, have, change>>
    BY <1>7, <1>t DEF DeltaAccepted, serverVars
  <2>2. \A r \in open : r.id # cmd[d].ticket
    BY <1>0, <2>1 DEF Ended, IdsOK
  <2>3. have[d] \subseteq Shared(log)
    BY <1>0, <2>1, <2>2 DEF Sent
  <2>4. \A e \in Device : Sent(e)'
    BY <1>0, <2>1, <2>3 DEF Sent
  <2> QED
    BY <1>2, <2>1, <2>4
<1>8. ASSUME NEW d \in Device, DeltaFailed(d) PROVE Goal
  <2>1. /\ pc[d] = "commit" /\ pc'[d] = "idle"
        /\ \A e \in Device \ {d} : pc'[e] = pc[e] /\ cmd'[e] = cmd[e]
        /\ UNCHANGED <<open, log, have, change>>
    BY <1>8, <1>0, ReturnStep DEF DeltaFailed, serverVars, IInv
  <2>2. \A e \in Device \ {d} : Sent(e)'
    BY <1>0, <2>1 DEF Sent
  <2>3. CASE ~Ended(log \cup open, cmd[d].ticket)
    <3>1. \A r \in open : r.id # cmd[d].ticket
      BY <2>3 DEF Ended
    <3>2. have[d] \subseteq Shared(log)
      BY <1>0, <2>1, <3>1 DEF Sent
    <3> QED
      BY <1>2, <2>1, <2>2, <3>2 DEF Sent
  <2>4. CASE "reply_lost" \in Faults
    <3>1. Sent(d)'
      BY <1>0, <2>1, <2>4 DEF Sent
    <3> QED
      BY <1>2, <2>1, <2>2, <3>1
  <2> QED
    BY <1>8, <2>3, <2>4 DEF DeltaFailed
<1>9. ASSUME NEW d \in Device, NEW reply \in BOOLEAN, SignManifest(d, reply) PROVE Goal
  <2>1. /\ pc[d] = "sign" /\ pc'[d] = "idle"
        /\ \A e \in Device \ {d} : pc'[e] = pc[e] /\ cmd'[e] = cmd[e]
        /\ UNCHANGED <<open, log, have, change>>
    BY <1>9, <1>0, ReturnStep DEF SignManifest, UpdateManifest, IInv
  <2>2. \A e \in Device : Sent(e)'
    BY <1>0, <2>1 DEF Sent
  <2> QED
    BY <1>2, <2>1, <2>2
<1>10. ASSUME NEW d \in Device, DropSession(d) PROVE Goal
  <2>1. /\ have'[d] = {}
        /\ \A e \in Device \ {d} : pc'[e] = pc[e] /\ cmd'[e] = cmd[e] /\ have'[e] = have[e]
        /\ UNCHANGED <<open, log, change>>
    BY <1>10, <1>t DEF DropSession, serverVars
  <2>2. \A e \in Device : Sent(e)'
    BY <1>0, <2>1 DEF Sent
  <2> QED
    BY <1>2, <2>1, <2>2
<1>11. "rollback" \notin Faults /\ "request_lost" \notin Faults
  BY DEF DeltasArrive
<1> HIDE DEF Goal
<1> QED
  BY <1>0, <1>3, <1>4, <1>5, <1>6, <1>7, <1>8, <1>9, <1>10, <1>11, StepKinds

----------------------------------------------------------------------------
(* What is missed, whatever faults happen *)

\* A step that takes nothing from a document and moves no cursor adds to the
\* rows a device has missed only the one it commits.
LEMMA MissedKept ==
    ASSUME IInv, IdsOK, NEW d \in Device, have[d] \subseteq have'[d], cursor'[d] = cursor[d],
           \/ log' = log
           \/ \E r \in open : log' = log \cup {r}
    PROVE  Missed(d)' \ Missed(d) \subseteq {r \in open : r.id <= cursor[d]}
BY DEF Missed

\* Nothing else than a late commit makes a device miss a row.
LEMMA MissedStep ==
    ASSUME BookInv, [Next]_vars, NEW d \in Device
    PROVE  Missed(d)' \ Missed(d) \subseteq {r \in open : r.id <= cursor[d]}
<1>0. BookInv /\ IInv /\ IdsOK
  BY DEF BookInv
<1>t. /\ cursor \in [Device -> Nat] /\ have \in [Device -> SUBSET Nat]
      /\ \A r \in log : r.id \in Nat /\ r.id > 0
  BY <1>0 DEF IInv, TypeOK, ServerTypeOK, DeltaRow
<1>1. CASE Quiet
  BY <1>0, <1>1, MissedKept DEF Quiet
<1>2. ASSUME NEW r \in open, CommitChange(r), UNCHANGED clientVars
      PROVE  Missed(d)' \ Missed(d) \subseteq {q \in open : q.id <= cursor[d]}
  BY <1>0, <1>2, MissedKept DEF CommitChange, clientVars
<1>3. ASSUME NEW r \in open, RollbackChange(r), UNCHANGED clientVars
      PROVE  Missed(d)' \ Missed(d) \subseteq {q \in open : q.id <= cursor[d]}
  BY <1>0, <1>3, MissedKept DEF RollbackChange, clientVars
<1>4. ASSUME NEW e \in Device, Pull(e)
      PROVE  Missed(d)' \ Missed(d) \subseteq {q \in open : q.id <= cursor[d]}
  <2> DEFINE page == ListChanges(cursor[e])
  <2>1. \A r \in log, q \in page : r.id > cursor[e] /\ r.id <= q.id => r \in page
    BY <1>0, <1>t, PageFacts
  <2>2. \A c \in CursorAfter(page, e) : c = cursor[e] \/ \E q \in page : c = q.id
    BY DEF CursorAfter, NextCursor
  <2> HIDE DEF page
  <2>3. /\ have' = [have EXCEPT ![e] = @ \cup Shared(page)]
        /\ \E c \in CursorAfter(page, e) : cursor' = [cursor EXCEPT ![e] = c]
        /\ log' = log
    BY <1>4 DEF Pull, page, serverVars
  <2>4. CASE d # e
    BY <1>0, <1>t, <2>3, <2>4, MissedKept
  <2>5. CASE d = e
    <3>1. /\ have'[d] = have[d] \cup Shared(page)
          /\ cursor'[d] = cursor[d] \/ \E q \in page : cursor'[d] = q.id
      BY <1>t, <2>2, <2>3, <2>5
    <3>2. ASSUME NEW r \in log, r.id <= cursor'[d], ~(r.delta \subseteq have'[d])
          PROVE  r \in Missed(d)
      <4>1. r \notin page
        BY <3>1, <3>2 DEF Shared
      <4>2. r.id <= cursor[d]
        BY <1>t, <2>1, <2>5, <3>1, <3>2, <4>1
      <4> QED
        BY <3>1, <3>2, <4>2 DEF Missed
    <3> QED
      BY <2>3, <3>2 DEF Missed
  <2> QED
    BY <2>4, <2>5
<1>5. ASSUME NEW e \in Device, RecordItemChange(e), cursor' = cursor, log' = log
      PROVE  Missed(d)' \ Missed(d) \subseteq {q \in open : q.id <= cursor[d]}
  <2>1. have[d] \subseteq have'[d]
    BY <1>0, <1>5, Recorded
  <2> QED
    BY <1>0, <1>5, <2>1, MissedKept
<1>6. ASSUME NEW e \in Device, SendDelta(e) \/ LoseDelta(e)
      PROVE  Missed(d)' \ Missed(d) \subseteq {q \in open : q.id <= cursor[d]}
  BY <1>5, <1>6 DEF SendDelta, LoseDelta, InsertChange, serverVars
<1>7. ASSUME NEW e \in Device,
             DeltaAccepted(e) \/ DeltaFailed(e) \/ (\E reply \in BOOLEAN : SignManifest(e, reply))
      PROVE  Missed(d)' \ Missed(d) \subseteq {q \in open : q.id <= cursor[d]}
  <2>1. UNCHANGED <<log, have, cursor>>
    BY <1>7 DEF DeltaAccepted, DeltaFailed, SignManifest, UpdateManifest, serverVars
  <2> QED
    BY <1>0, <2>1, MissedKept
<1>8. ASSUME NEW e \in Device, DropSession(e)
      PROVE  Missed(d)' \ Missed(d) \subseteq {q \in open : q.id <= cursor[d]}
  <2>1. /\ cursor' = [cursor EXCEPT ![e] = 0] /\ have' = [have EXCEPT ![e] = {}]
        /\ log' = log
    BY <1>8 DEF DropSession, serverVars
  <2>2. CASE d # e
    BY <1>0, <1>t, <2>1, <2>2, MissedKept
  <2>3. CASE d = e
    <3>1. cursor'[d] = 0 /\ \A r \in log : ~(r.id <= 0)
      BY <1>t, <2>1, <2>3
    <3> QED
      BY <2>1, <3>1 DEF Missed
  <2> QED
    BY <2>2, <2>3
<1> QED
  BY <1>0, <1>1, <1>2, <1>3, <1>4, <1>6, <1>7, <1>8, StepKinds

----------------------------------------------------------------------------
(* What a manifest can forget, whatever faults happen *)

\* A change stays undelivered to a device that does not get it, while the log
\* and the cursor only grow.
LEMMA StillUndelivered ==
    ASSUME NEW d \in Device, log \subseteq log', cursor'[d] = cursor[d],
           NEW b, b \in Shared(Missed(d)), b \notin have'[d]
    PROVE  b \in Shared(Missed(d)')
<1>1. PICK r \in Missed(d) : b \in r.delta
  BY DEF Shared
<1>2. r \in Missed(d)'
  BY <1>1 DEF Missed
<1> QED
  BY <1>1, <1>2 DEF Shared

\* Initially the manifest is of no change.
LEMMA BaseInit == Init => BaseInv
<1> SUFFICES ASSUME Init PROVE BaseInv
  OBVIOUS
<1>1. BookInv
  BY BookInit
<1> QED
  BY <1>1 DEF Init, ServerInit, BaseInv, BaseOK, BaseDelivered
\* A step that leaves the vault row and the cursors alone keeps the manifest
\* delivered, if every device that has now read the log to its end had done so
\* and knew the same version.
LEMMA DeliveredKept ==
    ASSUME IInv, BaseOK, BaseDelivered, log \subseteq log', vault' = vault,
           \A c \in DOMAIN change : c \in DOMAIN change' /\ change'[c] = change[c],
           \A e \in Device : pc'[e] \in Merged =>
               /\ pc[e] \in Merged /\ known'[e] = known[e]
               /\ have[e] \subseteq have'[e] /\ cursor'[e] = cursor[e]
    PROVE  BaseOK' /\ BaseDelivered'
<1>1. Shared(log) \subseteq Shared(log')
  BY DEF Shared
<1>2. BaseOK'
  BY <1>1 DEF BaseOK
<1>3. ASSUME NEW e \in Device, pc'[e] \in Merged, known'[e] = vault'.version,
             NEW b \in vault'.base \ have'[e]
      PROVE  b \in vault'.unshared \cup Shared(Missed(e))'
  <2>1. b \in vault.unshared \cup Shared(Missed(e))
    BY <1>3 DEF BaseDelivered
  <2> QED
    BY <1>3, <2>1, StillUndelivered DEF Shared
<1> QED
  BY <1>2, <1>3 DEF BaseDelivered

\* The last page of a pull brings a device every row that its cursor has not passed.
LEMMA PullDelivers ==
    ASSUME BaseInv, NEW d \in Device, Pull(d)
    PROVE  BaseOK' /\ BaseDelivered'
<1> DEFINE page == ListChanges(cursor[d])
<1>0. IInv /\ IdsOK /\ BaseOK /\ BaseDelivered
  BY DEF BaseInv, BookInv
<1>t. /\ pc \in [Device -> Resting \cup Calling] /\ have \in [Device -> SUBSET Nat]
      /\ cursor \in [Device -> Nat] /\ \A r \in log : r.id \in Nat
  BY <1>0 DEF IInv, TypeOK, ServerTypeOK, DeltaRow
<1>1. /\ have'[d] = have[d] \cup Shared(page)
      /\ HasNextCursor(page) => pc'[d] = "pull"
      /\ ~HasNextCursor(page) => cursor'[d] = cursor[d]
      /\ \A e \in Device \ {d} : pc'[e] = pc[e] /\ have'[e] = have[e] /\ cursor'[e] = cursor[e]
      /\ UNCHANGED <<vault, log, known, change>>
  BY <1>t DEF Pull, CursorAfter, serverVars
<1>2. ASSUME ~HasNextCursor(page), NEW b \in Shared(log) \ have'[d]
      PROVE  b \in Shared(Missed(d)')
  <2>1. PICK r \in log : b \in r.delta
    BY <1>2 DEF Shared
  <2>2. \A q \in log : q.id > cursor[d] => q \in page
    BY <1>0, <1>t, <1>2, PageFacts
  <2>3. r \notin page
    BY <1>1, <1>2, <2>1 DEF Shared
  <2>4. r.id <= cursor'[d]
    BY <1>t, <1>1, <1>2, <2>2, <2>3
  <2>5. r \in Missed(d)'
    BY <1>1, <1>2, <2>1, <2>4 DEF Missed
  <2> QED
    BY <2>1, <2>5 DEF Shared
<1> HIDE DEF page
<1>3. BaseOK'
  BY <1>0, <1>1 DEF BaseOK
<1>4. ASSUME NEW e \in Device, pc'[e] \in Merged, known'[e] = vault'.version,
             NEW b \in vault'.base \ have'[e]
      PROVE  b \in vault'.unshared \cup Shared(Missed(e))'
  <2>1. CASE e = d
    <3>1. ~HasNextCursor(page)
      BY <1>1, <1>4, <2>1 DEF Merged
    <3>2. b \in vault.unshared \/ b \in Shared(log)
      BY <1>0, <1>1, <1>4 DEF BaseOK
    <3> QED
      BY <1>1, <1>2, <1>4, <2>1, <3>1, <3>2 DEF Shared
  <2>2. CASE e # d
    <3>1. b \in vault.unshared \cup Shared(Missed(e))
      BY <1>0, <1>1, <1>4, <2>2 DEF BaseDelivered
    <3> QED
      BY <1>1, <1>4, <2>2, <3>1, StillUndelivered DEF Shared
  <2> QED
    BY <2>1, <2>2
<1> QED
  BY <1>3, <1>4 DEF BaseDelivered

\* What is signed is what the device has applied, and no device but the signer
\* knows the new version.
LEMMA SignDelivers ==
    ASSUME BaseInv, NEW d \in Device, NEW reply \in BOOLEAN, SignManifest(d, reply)
    PROVE  BaseOK' /\ BaseDelivered'
<1>0. IInv /\ PastsOK /\ BaseOK /\ BaseDelivered
  BY DEF BaseInv, BookInv
<1>t. /\ known \in [Device -> Nat] /\ vault.version \in Nat
      /\ \A e \in Device : known[e] <= vault.version
  BY <1>0 DEF IInv, TypeOK, ServerTypeOK, Manifest, KnownVersionBounded
<1>1. /\ pc'[d] = "idle"
      /\ \A e \in Device \ {d} : pc'[e] = pc[e] /\ cmd'[e] = cmd[e]
      /\ UNCHANGED <<log, have, cursor, change>>
  BY <1>0, ReturnStep DEF SignManifest, UpdateManifest, IInv
<1>2. /\ vault' = IF Conflicts(known[d] + 1) THEN vault
                  ELSE [version |-> known[d] + 1, base |-> Known(d),
                        unshared |-> Known(d) \ Shared(log)]
      /\ known' = IF reply /\ ~Conflicts(known[d] + 1)
                  THEN [known EXCEPT ![d] = @ + 1] ELSE known
  BY DEF SignManifest, UpdateManifest
<1>3. CASE Conflicts(known[d] + 1)
  <2>1. vault' = vault /\ known' = known
    BY <1>2, <1>3
  <2>2. \A e \in Device : pc'[e] \in Merged => pc[e] \in Merged
    BY <1>1 DEF Merged
  <2> QED
    BY <1>0, <1>1, <2>1, <2>2, DeliveredKept
<1>4. CASE ~Conflicts(known[d] + 1)
  <2>1. vault' = [version |-> known[d] + 1, base |-> Known(d), unshared |-> Known(d) \ Shared(log)]
    BY <1>2, <1>4
  <2>2. /\ vault'.version = known[d] + 1 /\ vault'.base = Known(d)
        /\ vault'.unshared = Known(d) \ Shared(log)
    BY <2>1
  <2>3. known[d] = vault.version
    BY <1>t, <1>4 DEF Conflicts
  <2>4. \A e \in Device \ {d} : known'[e] = known[e]
    BY <1>t, <1>2
  <2>5. \A e \in Device : pc'[e] \in Merged => known'[e] # vault'.version
    BY <1>t, <1>1, <2>2, <2>3, <2>4 DEF Merged
  <2>6. /\ \A c \in Known(d) : change[c].past \subseteq Known(d)
        /\ Known(d) \subseteq DOMAIN change
    BY <1>0, KnownClosed DEF IInv, HistoryOK, Known, Applied
  <2> QED
    BY <1>1, <2>2, <2>5, <2>6 DEF BaseOK, BaseDelivered
<1> QED
  BY <1>3, <1>4

\* No step leaves a device that may sign without a change that was delivered.
LEMMA BaseStep ==
    ASSUME BaseInv, [Next]_vars PROVE BaseInv'
<1>0. BookInv /\ IInv /\ BaseOK /\ BaseDelivered
  BY DEF BaseInv, BookInv
<1>1. BookInv'
  BY <1>0, BookStep
<1>t. /\ pc \in [Device -> Resting \cup Calling] /\ known \in [Device -> Nat]
      /\ have \in [Device -> SUBSET Nat] /\ cursor \in [Device -> Nat]
  BY <1>0 DEF IInv, TypeOK
<1> DEFINE Goal == BaseOK' /\ BaseDelivered'
<1> SUFFICES Goal
  BY <1>1 DEF BaseInv
<1>2. CASE Quiet
  <2>1. UNCHANGED <<vault, log, have, cursor, change>>
    BY <1>2 DEF Quiet
  <2>2. \A e \in Device : pc'[e] \in Merged => pc[e] \in Merged /\ known'[e] = known[e]
    BY <1>2 DEF Quiet
  <2> QED
    BY <1>0, <2>1, <2>2, DeliveredKept
<1>3. ASSUME NEW r \in open, CommitChange(r) \/ RollbackChange(r), UNCHANGED clientVars PROVE Goal
  <2>1. log \subseteq log' /\ UNCHANGED <<vault, pc, known, have, cursor, change>>
    BY <1>3 DEF CommitChange, RollbackChange, clientVars
  <2> QED
    BY <1>0, <2>1, DeliveredKept
<1>4. ASSUME NEW d \in Device, Pull(d) PROVE Goal
  BY <1>4, PullDelivers
<1>5. ASSUME NEW d \in Device, SendDelta(d) \/ LoseDelta(d) PROVE Goal
  <2>1. /\ pc[d] = "push" /\ RecordItemChange(d)
        /\ UNCHANGED <<vault, log, known, cursor>>
    BY <1>5 DEF SendDelta, LoseDelta, InsertChange, serverVars
  <2>2. \A e \in Device \ {d} : pc'[e] = pc[e]
    <3>1. CASE SendDelta(d)
      BY <1>t, <3>1 DEF SendDelta
    <3>2. CASE LoseDelta(d)
      BY <1>0, <3>2, ReturnStep DEF LoseDelta, IInv
    <3> QED
      BY <1>5, <3>1, <3>2
  <2>3. /\ \A c \in DOMAIN change : c \in DOMAIN change' /\ change'[c] = change[c]
        /\ \A e \in Device : have[e] \subseteq have'[e]
    BY <1>0, <2>1, Recorded
  <2>4. \A e \in Device : pc'[e] \in Merged => pc[e] \in Merged
    BY <2>1, <2>2 DEF Merged
  <2> QED
    BY <1>0, <2>1, <2>3, <2>4, DeliveredKept
<1>6. ASSUME NEW d \in Device, DeltaAccepted(d) \/ DeltaFailed(d) PROVE Goal
  <2>1. /\ pc[d] = "commit" /\ UNCHANGED <<vault, log, known, have, cursor, change>>
    BY <1>6 DEF DeltaAccepted, DeltaFailed, serverVars
  <2>2. \A e \in Device \ {d} : pc'[e] = pc[e]
    <3>1. CASE DeltaAccepted(d)
      BY <1>t, <3>1 DEF DeltaAccepted
    <3>2. CASE DeltaFailed(d)
      BY <1>0, <3>2, ReturnStep DEF DeltaFailed, IInv
    <3> QED
      BY <1>6, <3>1, <3>2
  <2>3. \A e \in Device : pc'[e] \in Merged => pc[e] \in Merged
    BY <2>1, <2>2 DEF Merged
  <2> QED
    BY <1>0, <2>1, <2>3, DeliveredKept
<1>7. ASSUME NEW d \in Device, NEW reply \in BOOLEAN, SignManifest(d, reply) PROVE Goal
  BY <1>7, SignDelivers
<1>8. ASSUME NEW d \in Device, DropSession(d) PROVE Goal
  <2>1. /\ pc'[d] = "locked"
        /\ \A e \in Device \ {d} : /\ pc'[e] = pc[e] /\ known'[e] = known[e]
                                   /\ have'[e] = have[e] /\ cursor'[e] = cursor[e]
        /\ UNCHANGED <<vault, log, change>>
    BY <1>8, <1>t DEF DropSession, serverVars
  <2>2. \A e \in Device : pc'[e] \in Merged => e # d /\ pc[e] \in Merged
    BY <2>1 DEF Merged
  <2> QED
    BY <1>0, <2>1, <2>2, DeliveredKept
<1> HIDE DEF Goal
<1> QED
  BY <1>0, <1>2, <1>3, <1>4, <1>5, <1>6, <1>7, <1>8, StepKinds

\* When an accepted manifest forgets a change, its signer lacks that change or
\* one of its past, and what it lacks was not delivered to it.
ForgetsOnlyUndelivered ==
    [][\A c \in vault.base \ vault'.base : \E d \in Device :
         /\ pc[d] = "sign" /\ pc'[d] = "idle"
         /\ \E b \in {c} \cup change[c].past :
              b \in (vault.unshared \cup Shared(Missed(d))) \ have[d]]_vars

\* The step that replaces a manifest, in any state of the invariant.
LEMMA SignForgets ==
    ASSUME BaseInv, [Next]_vars, NEW c \in vault.base \ vault'.base
    PROVE  \E d \in Device :
              /\ pc[d] = "sign" /\ pc'[d] = "idle"
              /\ \E b \in {c} \cup change[c].past :
                   b \in (vault.unshared \cup Shared(Missed(d))) \ have[d]
<1>0. IInv /\ BaseOK /\ BaseDelivered
  BY DEF BaseInv, BookInv
<1>1. PICK d \in Device, reply \in BOOLEAN : SignManifest(d, reply)
  BY <1>0, OtherSteps
<1>2. /\ pc[d] = "sign" /\ pc'[d] = "idle" /\ vault'.base = Known(d)
  <2>1. pc[d] = "sign" /\ pc'[d] = "idle"
    BY <1>0, <1>1, ReturnStep DEF SignManifest, IInv
  <2> QED
    BY <1>1, <2>1 DEF SignManifest, UpdateManifest
<1>3. known[d] = vault.version
  BY <1>0, <1>1, SignIsPublish
<1>4. vault.base \ have[d] \subseteq vault.unshared \cup Shared(Missed(d))
  BY <1>0, <1>2, <1>3 DEF BaseDelivered, Merged
<1>5. PICK b \in {c} \cup change[c].past : b \notin have[d]
  BY <1>2 DEF Known, Applied
<1>6. b \in vault.base
  BY <1>0 DEF BaseOK
<1> QED
  BY <1>2, <1>4, <1>5, <1>6

----------------------------------------------------------------------------
(* What every behaviour of VaultSync satisfies *)

\* Whatever requests, answers, transactions or processes fail and overlap, a
\* device misses a row only when its transaction commits behind the device's
\* cursor (vault_sync.rs:37-41, sync/repo.go:35).
THEOREM MissedOnlyByLateCommitCorrect == Spec => MissedOnlyByLateCommit
<1>1. BaseInv /\ [Next]_vars => BaseInv'
  BY BaseStep
<1>2. BaseInv /\ [Next]_vars
      => [\A d \in Device : Missed(d)' \ Missed(d) \subseteq {r \in open : r.id <= cursor[d]}]_vars
  BY MissedStep DEF BaseInv
<1> QED
  BY <1>1, <1>2, BaseInit, PTL DEF Spec, MissedOnlyByLateCommit

\* Whatever fails, a device that has read the log to its end and may sign the
\* next manifest has all of the last one but what was not delivered to it.
THEOREM BaseDeliveredCorrect == Spec => []BaseDelivered
<1>1. BaseInv /\ [Next]_vars => BaseInv'
  BY BaseStep
<1>2. BaseInv => BaseDelivered
  BY DEF BaseInv
<1> QED
  BY <1>1, <1>2, BaseInit, PTL DEF Spec

\* Whatever fails, an accepted manifest forgets a change only where a delta of
\* the change or of its past was lost, unfinished or skipped (items.rs:261-264).
THEOREM ForgetsOnlyUndeliveredCorrect == Spec => ForgetsOnlyUndelivered
<1>1. BaseInv /\ [Next]_vars => BaseInv'
  BY BaseStep
<1>2. BaseInv /\ [Next]_vars
      => [\A c \in vault.base \ vault'.base : \E d \in Device :
            /\ pc[d] = "sign" /\ pc'[d] = "idle"
            /\ \E b \in {c} \cup change[c].past :
                 b \in (vault.unshared \cup Shared(Missed(d))) \ have[d]]_vars
  BY SignForgets
<1> QED
  BY <1>1, <1>2, BaseInit, PTL DEF Spec, ForgetsOnlyUndelivered

\* Where every delta that is sent arrives before its device makes another, the
\* log can be applied from its start: crashes do no harm, nor does a lost answer
\* or the order in which transactions commit, alone (sync/mod.rs:108-113).
THEOREM LogClosedCorrect ==
    ASSUME DeltasArrive
    PROVE  Spec => []LogCausallyClosed
<1>1. ShareInv /\ [Next]_vars => ShareInv'
  BY ShareStep
<1>2. ShareInv => LogCausallyClosed
  BY DEF ShareInv, DeltasClosed
<1> QED
  BY <1>1, <1>2, ShareInit, PTL DEF Spec

\* What take_pending_changes has handed out is on the server when the command
\* is over, though devices crash and transactions overlap (sync/mod.rs:108-113).
THEOREM TakenSharedCorrect ==
    ASSUME Faults \subseteq {"crash", "overlap"}
    PROVE  Spec => []TakenChangesShared
<1>1. DeltasArrive /\ "reply_lost" \notin Faults
  BY DEF DeltasArrive
<1>2. ShareInv /\ [Next]_vars => ShareInv'
  BY <1>1, ShareStep
<1>3. ShareInv => TakenChangesShared
  BY <1>1 DEF ShareInv, BookInv, PastsOK, Sent, TakenChangesShared
<1> QED
  BY <1>2, <1>3, ShareInit, PTL DEF Spec

=============================================================================
