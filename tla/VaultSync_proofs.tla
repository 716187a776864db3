-------------------------- MODULE VaultSync_proofs --------------------------
(***************************************************************************)
(* What holds of VaultSync for every set of devices and items, every page  *)
(* limit and every combination of faults.                                  *)
(***************************************************************************)
EXTENDS VaultSync, TLAPS

USE DEF Resting, Calling, WriteOp, RowState

----------------------------------------------------------------------------
(* Facts about the directory operators *)

\* The packed register of a version that has been counted up is above 1.
LEMMA PackType ==
    ASSUME NEW v \in Nat \ {0}, NEW b \in BOOLEAN
    PROVE  Pack(v, b) \in Nat \ {0, 1}
BY DEF Pack

\* The low bit of a packed register is the tombstone flag.
LEMMA PackDeleted ==
    ASSUME NEW v \in Nat, NEW b \in BOOLEAN
    PROVE  Deleted(Pack(v, b)) <=> b
BY DEF Pack, Deleted

\* Unpacking a register gives a version.
LEMMA VersionType ==
    ASSUME NEW val \in Nat
    PROVE  Version(val) \in Nat
BY DEF Version

\* Every version of a snapshot of typed changes is a natural number.
LEMMA CurrentVersionType ==
    ASSUME NEW H, NEW A, \A c \in A : H[c].val \in Nat, NEW i
    PROVE  CurrentVersion(H, A, i) \in Nat
<1>1. ASSUME NEW j, NEW v \in Resolved(H, A, j)
      PROVE  v \in Nat
  BY <1>1 DEF Resolved, Candidates
<1>2. \A r \in Snapshot(H, A) : r.version \in Nat
  BY <1>1, VersionType DEF Snapshot
<1>3. QED
  BY <1>2 DEF CurrentVersion

----------------------------------------------------------------------------
(* The inductive invariant *)

\* Documents and sync_change rows hold only changes that some device made.
HistoryOK ==
    /\ \A d \in Device : have[d] \subseteq DOMAIN change
    /\ \A r \in open \cup log : r.delta \subseteq DOMAIN change

\* A command that is about to record its change has written the row of its item.
CommandOK ==
    \A d \in Device : pc[d] = "push" =>
        /\ cmd[d].op \in WriteOp
        /\ cmd[d].item \in Item
        /\ row[cmd[d].item] # "absent"
        /\ cmd[d].op = "delete" => row[cmd[d].item] = "deleted"

IInv ==
    /\ TypeOK
    /\ HistoryOK
    /\ CommandOK
    /\ KnownVersionBounded
    /\ RowBeforeDirectory
    /\ TombstoneAfterDelete

\* The invariant holds of an empty vault and locked devices.
LEMMA InitInvariant == Init => IInv
BY PageLimitAssumption, NoItemAssumption
   DEF Init, ServerInit, IInv, TypeOK, ServerTypeOK, Manifest, DeltaRow, Command, NoCommand,
       HistoryOK, CommandOK, KnownVersionBounded, RowBeforeDirectory, TombstoneAfterDelete

\* What a device would record is a well-formed change of the item whose row its
\* command has written.
LEMMA NewChangeOK ==
    ASSUME IInv, NEW d \in Device, pc[d] = "push"
    PROVE  /\ NewChange(d) \in Change
           /\ row[NewChange(d).item] # "absent"
           /\ Deleted(NewChange(d).val) => row[NewChange(d).item] = "deleted"
<1> DEFINE op == cmd[d].op
           item == cmd[d].item
<1>1. /\ op \in WriteOp
      /\ item \in Item
      /\ row[item] # "absent"
      /\ op = "delete" => row[item] = "deleted"
  BY DEF IInv, CommandOK
<1>2. Known(d) \subseteq DOMAIN change
  BY DEF IInv, HistoryOK, Known, Applied
<1>3. Known(d) \subseteq Nat
  BY DEF IInv, TypeOK, Known, Applied
<1>4. CurrentVersion(change, Known(d), item) \in Nat
  <2>1. \A c \in DOMAIN change : change[c] \in Change
    BY DEF IInv, TypeOK
  <2>2. \A c \in Known(d) : change[c].val \in Nat
    BY <1>2, <2>1 DEF Change
  <2>3. QED
    BY <2>2, CurrentVersionType
<1>5. NewVersion(d) \in Nat \ {0}
  BY <1>4 DEF NewVersion
<1>6. NewChange(d).val \in Nat \ {0, 1}
  BY <1>5, PackType DEF NewChange
<1>7. Deleted(NewChange(d).val) => op = "delete"
  BY <1>5, PackDeleted DEF NewChange
<1>8. QED
  BY <1>1, <1>3, <1>6, <1>7 DEF NewChange, Change

\* The part of the invariant that record_item_change can disturb, in the two
\* actions that perform it.
LEMMA RecordStep ==
    ASSUME IInv, NEW d \in Device, pc[d] = "push", RecordItemChange(d),
           row' = row
    PROVE  /\ change' \in Seq(Change)
           /\ DOMAIN change \subseteq DOMAIN change'
           /\ have' \in [Device -> SUBSET Nat]
           /\ \A e \in Device : have'[e] \subseteq DOMAIN change'
           /\ RowBeforeDirectory'
           /\ TombstoneAfterDelete'
<1> DEFINE new == NewChange(d)
<1>1. change \in Seq(Change) /\ have \in [Device -> SUBSET Nat]
  BY DEF IInv, TypeOK
<1>2. \A e \in Device : have[e] \subseteq DOMAIN change
  BY DEF IInv, HistoryOK
<1>3. RowBeforeDirectory /\ TombstoneAfterDelete
  BY DEF IInv
<1>4. CASE UNCHANGED <<change, have>>
  BY <1>1, <1>2, <1>3, <1>4 DEF RowBeforeDirectory, TombstoneAfterDelete
<1>5. CASE /\ change' = Append(change, new)
           /\ have' = [have EXCEPT ![d] = @ \cup {Len(change')}]
  <2>1. /\ new \in Change
        /\ row[new.item] # "absent"
        /\ Deleted(new.val) => row[new.item] = "deleted"
    BY NewChangeOK
  <2> HIDE DEF new
  <2>2. /\ change' \in Seq(Change)
        /\ DOMAIN change' = 1 .. Len(change) + 1
        /\ Len(change') = Len(change) + 1
        /\ DOMAIN change = 1 .. Len(change)
        /\ \A c \in DOMAIN change : change'[c] = change[c]
        /\ change'[Len(change) + 1] = new
    BY <1>1, <1>5, <2>1
  <2>3. /\ have' \in [Device -> SUBSET Nat]
        /\ \A e \in Device : have'[e] \subseteq DOMAIN change'
    BY <1>1, <1>2, <1>5, <2>2
  <2>4. \A c \in DOMAIN change' : c \in DOMAIN change \/ change'[c] = new
    BY <1>1, <2>2
  <2>5. RowBeforeDirectory'
    BY <1>3, <2>1, <2>2, <2>4 DEF RowBeforeDirectory
  <2>6. TombstoneAfterDelete'
    BY <1>3, <2>1, <2>2, <2>4 DEF TombstoneAfterDelete
  <2>7. DOMAIN change \subseteq DOMAIN change'
    BY <1>1, <2>2
  <2>8. QED
    BY <2>2, <2>3, <2>5, <2>6, <2>7
<1>6. QED
  BY <1>4, <1>5 DEF RecordItemChange

\* A command that returns leaves its device idle and the others as they were.
LEMMA ReturnStep ==
    ASSUME TypeOK, NEW d \in Device, Return(d)
    PROVE  /\ pc' \in [Device -> Resting \cup Calling]
           /\ cmd' \in [Device -> Command]
           /\ pc'[d] = "idle"
           /\ \A e \in Device \ {d} : pc'[e] = pc[e] /\ cmd'[e] = cmd[e]
BY NoItemAssumption DEF Return, NoCommand, TypeOK, Command

\* Every step of the server, a user, a command or a fault preserves the invariant.
LEMMA StepInvariant == IInv /\ [Next]_vars => IInv'
<1> SUFFICES ASSUME IInv, [Next]_vars PROVE IInv'
  OBVIOUS
<1> USE DEF IInv
<1>1. CASE UNCHANGED vars
  BY <1>1 DEF vars, serverVars, clientVars, TypeOK, ServerTypeOK, HistoryOK, CommandOK,
              KnownVersionBounded, RowBeforeDirectory, TombstoneAfterDelete
<1>2. ASSUME NEW r \in open, CommitChange(r) \/ RollbackChange(r), UNCHANGED clientVars
      PROVE  IInv'
  BY <1>2 DEF CommitChange, RollbackChange, clientVars, TypeOK, ServerTypeOK, HistoryOK,
              CommandOK, KnownVersionBounded, RowBeforeDirectory, TombstoneAfterDelete
<1>3. ASSUME NEW d \in Device, Login(d)
      PROVE  IInv'
  BY <1>3 DEF Login, serverVars, TypeOK, ServerTypeOK, Manifest, HistoryOK,
              CommandOK, KnownVersionBounded, RowBeforeDirectory, TombstoneAfterDelete
<1>4. ASSUME NEW d \in Device, DropSession(d)
      PROVE  IInv'
  BY <1>4, NoItemAssumption
     DEF DropSession, serverVars, TypeOK, ServerTypeOK, Manifest, Command, NoCommand, HistoryOK,
         CommandOK, KnownVersionBounded, RowBeforeDirectory, TombstoneAfterDelete
<1>5. ASSUME NEW d \in Device, NEW op \in {"list"} \cup WriteOp, NEW i \in Item \cup {NoItem},
             Start(d, op, i)
      PROVE  IInv'
  BY <1>5 DEF Start, serverVars, TypeOK, ServerTypeOK, Command, HistoryOK,
              CommandOK, KnownVersionBounded, RowBeforeDirectory, TombstoneAfterDelete
<1>6. ASSUME NEW d \in Device, Pull(d)
      PROVE  IInv'
  <2> DEFINE page == ListChanges(cursor[d])
  <2>1. page \subseteq log
    BY DEF ListChanges
  <2>2. Shared(page) \subseteq DOMAIN change /\ Shared(page) \subseteq Nat
    BY <2>1 DEF Shared, HistoryOK, TypeOK, ServerTypeOK, DeltaRow
  <2>3. CursorAfter(page, d) \subseteq Nat
    BY <2>1 DEF CursorAfter, NextCursor, TypeOK, ServerTypeOK, DeltaRow
  <2> HIDE DEF page
  <2>4. /\ have' = [have EXCEPT ![d] = @ \cup Shared(page)]
        /\ \E c \in Nat : cursor' = [cursor EXCEPT ![d] = c]
        /\ pc' \in [Device -> Resting \cup Calling]
        /\ pc'[d] # "push" /\ \A e \in Device \ {d} : pc'[e] = pc[e]
        /\ UNCHANGED <<serverVars, cmd, saved, known, shown, change>>
    BY <1>6, <2>3 DEF Pull, page, TypeOK
  <2>5. TypeOK'
    BY <2>2, <2>4 DEF TypeOK, ServerTypeOK, serverVars
  <2>6. HistoryOK'
    BY <2>2, <2>4 DEF HistoryOK, TypeOK, serverVars
  <2>7. QED
    BY <2>4, <2>5, <2>6
       DEF CommandOK, KnownVersionBounded, RowBeforeDirectory, TombstoneAfterDelete, serverVars
<1>7. ASSUME NEW d \in Device, FetchManifest(d)
      PROVE  IInv'
  <2>1. UNCHANGED <<serverVars, have, saved, cursor, shown, change>>
    BY <1>7 DEF FetchManifest
  <2>2. /\ pc' \in [Device -> Resting \cup Calling]
        /\ cmd' \in [Device -> Command]
        /\ pc'[d] # "push"
        /\ \A e \in Device \ {d} : pc'[e] = pc[e] /\ cmd'[e] = cmd[e]
    <3>1. CASE Return(d)
      BY <3>1, ReturnStep
    <3>2. CASE pc' = [pc EXCEPT ![d] = "items"] /\ UNCHANGED cmd
      BY <3>2 DEF TypeOK
    <3>3. QED
      BY <1>7, <3>1, <3>2 DEF FetchManifest
  <2>3. known' = known \/ known' = [known EXCEPT ![d] = vault.version]
    BY <1>7 DEF FetchManifest
  <2>4. vault.version \in Nat
    BY DEF TypeOK, ServerTypeOK, Manifest
  <2>5. known' \in [Device -> Nat]
    BY <2>3, <2>4 DEF TypeOK
  <2>6. TypeOK'
    BY <2>1, <2>2, <2>5 DEF serverVars, TypeOK, ServerTypeOK
  <2>7. KnownVersionBounded'
    <3>1. vault' = vault /\ known \in [Device -> Nat]
      BY <2>1 DEF serverVars, TypeOK
    <3>2. \A e \in Device : known'[e] <= vault.version
      BY <2>3, <2>4, <3>1 DEF KnownVersionBounded
    <3>3. QED
      BY <3>1, <3>2 DEF KnownVersionBounded
  <2>8. CommandOK'
    BY <2>1, <2>2 DEF CommandOK, serverVars
  <2>9. QED
    BY <2>1, <2>6, <2>7, <2>8 DEF HistoryOK, RowBeforeDirectory, TombstoneAfterDelete, serverVars
<1>8. ASSUME NEW d \in Device, ListItems(d)
      PROVE  IInv'
  <2>1. PICK S \in SUBSET Item : shown' = [shown EXCEPT ![d] = S]
    BY <1>8 DEF ListItems
  <2>2. Return(d) /\ UNCHANGED <<serverVars, have, saved, cursor, known, change>>
    BY <1>8 DEF ListItems
  <2>3. TypeOK'
    BY <2>1, <2>2, ReturnStep DEF serverVars, TypeOK, ServerTypeOK
  <2>4. CommandOK'
    BY <2>2, ReturnStep DEF CommandOK, serverVars
  <2>5. QED
    BY <2>2, <2>3, <2>4
       DEF HistoryOK, KnownVersionBounded, RowBeforeDirectory, TombstoneAfterDelete, serverVars
<1>9. ASSUME NEW d \in Device, NEW reply \in BOOLEAN, WriteItem(d, reply)
      PROVE  IInv'
  <2>1. PICK i \in Item :
          /\ WriteRow(cmd[d].op, i)
          /\ IF reply
             THEN /\ pc' = [pc EXCEPT ![d] = "push"]
                  /\ cmd' = [cmd EXCEPT ![d].item = i]
             ELSE Return(d)
    BY <1>9 DEF WriteItem
  <2>2. UNCHANGED <<have, saved, cursor, known, shown, change>>
    BY <1>9 DEF WriteItem
  <2>3. /\ row' \in [Item -> RowState]
        /\ cmd[d].op \in WriteOp
        /\ row'[i] # "absent"
        /\ cmd[d].op = "delete" => row'[i] = "deleted"
        /\ \A j \in Item : /\ row[j] # "absent" => row'[j] # "absent"
                           /\ row[j] = "deleted" => row'[j] = "deleted"
        /\ UNCHANGED <<vault, nextId, open, log>>
    BY <2>1 DEF WriteRow, InsertItem, UpdateItem, DeleteItem, TypeOK, ServerTypeOK, serverVars
  <2>4. /\ pc' \in [Device -> Resting \cup Calling]
        /\ cmd' \in [Device -> Command]
        /\ \A e \in Device \ {d} : pc'[e] = pc[e] /\ cmd'[e] = cmd[e]
        /\ pc'[d] = "push" => cmd'[d].op = cmd[d].op /\ cmd'[d].item = i
    <3>1. CASE reply
      <4>1. /\ pc' = [pc EXCEPT ![d] = "push"]
            /\ cmd' = [cmd EXCEPT ![d].item = i]
        BY <2>1, <3>1
      <4>2. cmd[d] \in Command /\ [cmd[d] EXCEPT !.item = i] \in Command
        BY DEF TypeOK, Command
      <4>3. pc' \in [Device -> Resting \cup Calling] /\ cmd' \in [Device -> Command]
        BY <4>1, <4>2 DEF TypeOK
      <4>4. QED
        BY <4>1, <4>2, <4>3 DEF TypeOK, Command
    <3>2. CASE ~reply
      BY <2>1, <3>2, ReturnStep
    <3>3. QED
      BY <3>1, <3>2
  <2>5. TypeOK'
    BY <2>2, <2>3, <2>4 DEF TypeOK, ServerTypeOK
  <2>6. CommandOK'
    BY <2>3, <2>4 DEF CommandOK
  <2>7. RowBeforeDirectory' /\ TombstoneAfterDelete'
    <3>1. \A c \in DOMAIN change : change[c] \in Change
      BY DEF TypeOK
    <3>2. \A c \in DOMAIN change : change[c].item \in Item
      BY <3>1 DEF Change
    <3>3. QED
      BY <2>2, <2>3, <3>2 DEF RowBeforeDirectory, TombstoneAfterDelete
  <2>8. QED
    BY <2>2, <2>3, <2>5, <2>6, <2>7 DEF HistoryOK, KnownVersionBounded
<1>10. ASSUME NEW d \in Device, SendDelta(d)
       PROVE  IInv'
  <2>1. /\ pc[d] = "push"
        /\ RecordItemChange(d)
        /\ saved' = [saved EXCEPT ![d] = Known(d)']
        /\ InsertChange(Pending(d))
        /\ pc' = [pc EXCEPT ![d] = "commit"]
        /\ cmd' = [cmd EXCEPT ![d].ticket = nextId]
        /\ UNCHANGED <<cursor, known, shown>>
    BY <1>10 DEF SendDelta, TakePendingChanges
  <2>2. UNCHANGED <<row, vault, log>>
    BY <2>1 DEF InsertChange
  <2>3. /\ change' \in Seq(Change)
        /\ DOMAIN change \subseteq DOMAIN change'
        /\ have' \in [Device -> SUBSET Nat]
        /\ \A e \in Device : have'[e] \subseteq DOMAIN change'
        /\ RowBeforeDirectory'
        /\ TombstoneAfterDelete'
    BY <2>1, <2>2, RecordStep
  <2>4. Known(d)' \subseteq Nat /\ Known(d)' \subseteq DOMAIN change'
    BY <2>3 DEF Known, Applied
  <2>5. /\ open' = open \cup {[id |-> nextId, delta |-> Pending(d)]}
        /\ nextId' = nextId + 1
        /\ Pending(d) \subseteq Nat
        /\ Pending(d) \subseteq DOMAIN change'
    BY <2>1, <2>4 DEF InsertChange, Pending
  <2>6. TypeOK'
    <3>1. ServerTypeOK'
      BY <2>2, <2>5 DEF TypeOK, ServerTypeOK, DeltaRow
    <3>2. cmd' \in [Device -> Command] /\ pc' \in [Device -> Resting \cup Calling]
      BY <2>1 DEF TypeOK, ServerTypeOK, Command
    <3>3. saved' \in [Device -> SUBSET Nat]
      BY <2>1, <2>4 DEF TypeOK
    <3>4. QED
      BY <2>1, <2>3, <3>1, <3>2, <3>3 DEF TypeOK
  <2>7. HistoryOK'
    BY <2>2, <2>3, <2>5 DEF HistoryOK
  <2>8. CommandOK'
    BY <2>1, <2>2 DEF CommandOK, TypeOK
  <2>9. QED
    BY <2>1, <2>2, <2>3, <2>6, <2>7, <2>8 DEF KnownVersionBounded
<1>11. ASSUME NEW d \in Device, DeltaAccepted(d)
       PROVE  IInv'
  BY <1>11
     DEF DeltaAccepted, serverVars, TypeOK, ServerTypeOK, Manifest, Command,
         HistoryOK, CommandOK, KnownVersionBounded, RowBeforeDirectory, TombstoneAfterDelete
<1>12. ASSUME NEW d \in Device, NEW reply \in BOOLEAN, SignManifest(d, reply)
       PROVE  IInv'
  <2> DEFINE n == known[d] + 1
             base == Known(d)
             unshared == Known(d) \ Shared(log)
  <2>1. base \subseteq Nat /\ unshared \subseteq Nat
    BY DEF Known, Applied, TypeOK
  <2> HIDE DEF base, unshared
  <2>2. /\ vault' = IF vault.version < n
                     THEN [version |-> n, base |-> base, unshared |-> unshared] ELSE vault
        /\ known' = IF reply /\ vault.version < n THEN [known EXCEPT ![d] = n] ELSE known
        /\ UNCHANGED <<row, nextId, open, log, have, saved, cursor, shown, change>>
        /\ Return(d)
    BY <1>12 DEF SignManifest, UpdateManifest, Conflicts, TypeOK, base, unshared
  <2>3. n \in Nat \ {0}
    BY DEF TypeOK
  <2>4. /\ vault' \in Manifest
        /\ known' \in [Device -> Nat]
        /\ KnownVersionBounded'
    BY <2>1, <2>2, <2>3 DEF TypeOK, ServerTypeOK, Manifest, KnownVersionBounded
  <2>5. /\ pc' \in [Device -> Resting \cup Calling]
        /\ cmd' \in [Device -> Command]
        /\ pc'[d] = "idle"
        /\ \A e \in Device \ {d} : pc'[e] = pc[e] /\ cmd'[e] = cmd[e]
    BY <2>2, ReturnStep
  <2>6. TypeOK'
    BY <2>2, <2>4, <2>5 DEF TypeOK, ServerTypeOK
  <2>7. QED
    BY <2>2, <2>4, <2>5, <2>6
       DEF HistoryOK, CommandOK, RowBeforeDirectory, TombstoneAfterDelete
<1>13. ASSUME NEW d \in Device, Return(d),
              UNCHANGED <<serverVars, have, saved, cursor, known, shown, change>>
       PROVE  IInv'
  BY <1>13, NoItemAssumption
     DEF Return, NoCommand, serverVars, TypeOK, ServerTypeOK, Manifest, Command,
         HistoryOK, CommandOK, KnownVersionBounded, RowBeforeDirectory, TombstoneAfterDelete
<1>14. ASSUME NEW d \in Device, LoseDelta(d)
       PROVE  IInv'
  <2>1. /\ pc[d] = "push"
        /\ RecordItemChange(d)
        /\ saved' = [saved EXCEPT ![d] = Known(d)']
        /\ Return(d)
        /\ UNCHANGED <<row, vault, nextId, open, log, cursor, known, shown>>
    BY <1>14 DEF LoseDelta, TakePendingChanges, serverVars
  <2>2. /\ change' \in Seq(Change)
        /\ DOMAIN change \subseteq DOMAIN change'
        /\ have' \in [Device -> SUBSET Nat]
        /\ \A e \in Device : have'[e] \subseteq DOMAIN change'
        /\ RowBeforeDirectory'
        /\ TombstoneAfterDelete'
    BY <2>1, RecordStep
  <2>3. Known(d)' \subseteq Nat
    BY <2>2 DEF Known, Applied
  <2>4. /\ pc' \in [Device -> Resting \cup Calling]
        /\ cmd' \in [Device -> Command]
        /\ pc'[d] = "idle"
        /\ \A e \in Device \ {d} : pc'[e] = pc[e] /\ cmd'[e] = cmd[e]
    BY <2>1, ReturnStep
  <2>5. TypeOK'
    BY <2>1, <2>2, <2>3, <2>4 DEF TypeOK, ServerTypeOK
  <2>6. QED
    BY <2>1, <2>2, <2>4, <2>5 DEF HistoryOK, CommandOK, KnownVersionBounded
<1>15. CASE ServerStep
  BY <1>2, <1>15 DEF ServerStep
<1>16. ASSUME NEW d \in Device, UserStep(d)
       PROVE  IInv'
  <2>1. shown[d] \subseteq Item
    BY DEF TypeOK
  <2>2. QED
    BY <1>3, <1>4, <1>5, <1>16, <2>1
       DEF UserStep, Lock, StartList, StartCreate, StartEdit
<1>17. ASSUME NEW d \in Device, CallStep(d)
       PROVE  IInv'
  BY <1>6, <1>7, <1>8, <1>9, <1>10, <1>11, <1>12, <1>13, <1>17
     DEF CallStep, DeltaFailed, Replies
<1>18. ASSUME NEW d \in Device, FaultStep(d)
       PROVE  IInv'
  BY <1>4, <1>13, <1>14, <1>18 DEF FaultStep, Crash, LoseRequest
<1>19. QED
  BY <1>1, <1>15, <1>16, <1>17, <1>18 DEF Next

----------------------------------------------------------------------------
(* What every behaviour of VaultSync satisfies *)

\* The invariant holds in every behaviour.
LEMMA Invariance == Spec => []IInv
BY InitInvariant, StepInvariant, PTL DEF Spec

\* Types: every document, row, manifest and cursor is of its set, and the
\* version a register records is never 0.
THEOREM TypeCorrect == Spec => []TypeOK
BY Invariance, PTL DEF IInv

\* No client ever knows a manifest version that the vault row has not reached
\* (vault_sync.rs:68, 83), whatever requests, replies or processes are lost.
THEOREM KnownVersionCorrect == Spec => []KnownVersionBounded
BY Invariance, PTL DEF IInv

\* No change of any document names an item without a row (items.rs:276-290).
THEOREM RowBeforeDirectoryCorrect == Spec => []RowBeforeDirectory
BY Invariance, PTL DEF IInv

\* No document holds a tombstone of an item the server still calls live
\* (items.rs:403-408).
THEOREM TombstoneCorrect == Spec => []TombstoneAfterDelete
BY Invariance, PTL DEF IInv

\* A manifest is accepted only from a client that knows the version before it.
LEMMA SignIsPublish ==
    ASSUME IInv, NEW d \in Device, NEW reply \in BOOLEAN, SignManifest(d, reply)
    PROVE  \/ vault' = vault /\ known' = known
           \/ /\ known[d] = vault.version
              /\ vault'.version = vault.version + 1
              /\ \/ known' = [known EXCEPT ![d] = vault'.version]
                 \/ known' = known
<1> DEFINE n == known[d] + 1
<1>1. /\ known[d] \in Nat /\ vault.version \in Nat
      /\ known[d] <= vault.version
  BY DEF IInv, KnownVersionBounded, TypeOK, ServerTypeOK, Manifest
<1>2. /\ vault' = IF vault.version < n
                   THEN [version |-> n, base |-> Known(d), unshared |-> Known(d) \ Shared(log)]
                   ELSE vault
      /\ known' = IF reply /\ vault.version < n THEN [known EXCEPT ![d] = n] ELSE known
  BY <1>1 DEF SignManifest, UpdateManifest, Conflicts, IInv, TypeOK
<1>3. CASE vault.version < n
  BY <1>1, <1>2, <1>3
<1>4. CASE ~(vault.version < n)
  BY <1>2, <1>4
<1>5. QED
  BY <1>3, <1>4

\* Every other step leaves the vault row alone, and moves a known version only
\* to the one in the row or, when a session ends, to none.
LEMMA OtherSteps ==
    ASSUME IInv, [Next]_vars
    PROVE  \/ \E d \in Device, reply \in BOOLEAN : SignManifest(d, reply)
           \/ vault' = vault /\ known' = known
           \/ /\ vault' = vault
              /\ \E d \in Device : \/ known' = [known EXCEPT ![d] = vault.version]
                                   \/ known' = [known EXCEPT ![d] = 0]
<1>1. CASE UNCHANGED vars
  BY <1>1 DEF vars, serverVars, clientVars
<1>2. CASE ServerStep
  BY <1>2 DEF ServerStep, CommitChange, RollbackChange, clientVars
<1>3. ASSUME NEW d \in Device, UserStep(d)
      PROVE  /\ vault' = vault
             /\ \/ known' = known
                \/ known' = [known EXCEPT ![d] = vault.version]
                \/ known' = [known EXCEPT ![d] = 0]
  BY <1>3 DEF UserStep, Login, Lock, DropSession, StartList, StartCreate, StartEdit, Start,
              serverVars
<1>4. ASSUME NEW d \in Device, CallStep(d)
      PROVE  \/ \E reply \in BOOLEAN : SignManifest(d, reply)
             \/ vault' = vault /\ known' = known
             \/ vault' = vault /\ known' = [known EXCEPT ![d] = vault.version]
  <2>1. CASE Pull(d) \/ FetchManifest(d) \/ ListItems(d) \/ DeltaAccepted(d) \/ DeltaFailed(d)
    BY <2>1 DEF Pull, FetchManifest, ListItems, DeltaAccepted, DeltaFailed, serverVars
  <2>2. CASE SendDelta(d)
    BY <2>2 DEF SendDelta, InsertChange
  <2>3. ASSUME NEW reply \in BOOLEAN, WriteItem(d, reply)
        PROVE  vault' = vault /\ known' = known
    BY <2>3 DEF WriteItem, WriteRow, InsertItem, UpdateItem, DeleteItem, serverVars
  <2>4. QED
    BY <1>4, <2>1, <2>2, <2>3 DEF CallStep, Replies
<1>5. ASSUME NEW d \in Device, FaultStep(d)
      PROVE  vault' = vault /\ (known' = known \/ known' = [known EXCEPT ![d] = 0])
  BY <1>5 DEF FaultStep, LoseRequest, LoseDelta, Crash, DropSession, serverVars
<1>6. QED
  BY <1>1, <1>2, <1>3, <1>4, <1>5 DEF Next

\* The version of the vault row moves by one or not at all, so of two devices
\* that sign from the same version one is refused (repo.go:70).
THEOREM StepsByOneCorrect == Spec => ManifestStepsByOne
<1>1. IInv /\ [Next]_vars => [vault' # vault => vault'.version = vault.version + 1]_vars
  BY OtherSteps, SignIsPublish
<1>2. QED
  BY <1>1, Invariance, PTL DEF Spec, ManifestStepsByOne

\* The clients and the server implement the ledger: a signature that the
\* server accepts publishes the next version, a login or a list_items reads,
\* the end of a session forgets, and every other step stutters.
THEOREM LedgerImplemented == Spec => LedgerSpec
<1>1. Init => Ledger!Init
  BY DEF Init, ServerInit, Ledger!Init
<1>2. IInv /\ [Next]_vars => [Ledger!Next]_(Ledger!ledgerVars)
  <2> SUFFICES ASSUME IInv, [Next]_vars
               PROVE  [Ledger!Next]_(Ledger!ledgerVars)
    OBVIOUS
  <2>1. ASSUME NEW d \in Device, NEW reply \in BOOLEAN, SignManifest(d, reply)
        PROVE  Ledger!Publish(d) \/ UNCHANGED Ledger!ledgerVars
    BY <2>1, SignIsPublish DEF Ledger!Publish, Ledger!ledgerVars
  <2>2. ASSUME vault' = vault, NEW d \in Device,
               \/ known' = [known EXCEPT ![d] = vault.version]
               \/ known' = [known EXCEPT ![d] = 0]
        PROVE  Ledger!Read(d) \/ Ledger!Forget(d)
    BY <2>2 DEF Ledger!Read, Ledger!Forget
  <2>3. QED
    BY <2>1, <2>2, OtherSteps DEF Ledger!Next, Ledger!ledgerVars
<1>3. QED
  BY <1>1, <1>2, Invariance, PTL DEF Spec, LedgerSpec, Ledger!Spec
=============================================================================
