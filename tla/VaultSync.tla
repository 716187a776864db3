------------------------------ MODULE VaultSync ------------------------------
(***************************************************************************)
(* The desktop clients of one account (frontend/desktop/src-tauri) and the *)
(* vault server they share.  A command of items.rs holds the session mutex *)
(* from its first line to its return, so a device runs one command at a    *)
(* time; between the HTTP calls of the command the other devices and the   *)
(* server's transactions run freely.                                       *)
(*                                                                         *)
(*   pc      the call the running command is about to make, "idle" when no *)
(*           command holds the mutex, "locked" without an UnlockedVault    *)
(*   cmd     the command, the item it is for and the sync_change row it    *)
(*           waits for                                                     *)
(*   have    changes in sync_doc, queued ones included                     *)
(*   saved   changes take_pending_changes has marked as shared             *)
(*   cursor  sync_cursor, 0 for None                                       *)
(*   known   manifest_version, 0 when locked                               *)
(*   shown   the ids the last list_items returned to the screen            *)
(*   change  what each change id (a hash in Automerge) stands for          *)
(***************************************************************************)
EXTENDS VaultServer, SyncDoc, Sequences

CONSTANTS
    Device,
    NoItem,      \* the item of a command that has none
    Faults,      \* the faults and timings of FaultKind that may happen
    MaxChanges,  \* bound: no write starts once the history has this length
    MaxRows      \* bound: no write starts after this many sync_change ids

FaultKind == {"request_lost", "reply_lost", "crash", "rollback", "overlap"}

ASSUME NoItemAssumption == NoItem \notin Item
ASSUME FaultsAssumption == Faults \subseteq FaultKind
ASSUME BoundsAssumption == MaxChanges \in Nat /\ MaxRows \in Nat

VARIABLES pc, cmd, have, saved, cursor, known, shown, change

clientVars == <<pc, cmd, have, saved, cursor, known, shown, change>>
vars == <<serverVars, clientVars>>

WriteOp == {"create", "update", "delete"}
NoCommand == [op |-> "none", item |-> NoItem, ticket |-> 0]
Command == [op : {"none", "list"} \cup WriteOp, item : Item \cup {NoItem}, ticket : Nat]
Resting == {"locked", "idle"}
Calling == {"pull", "vault", "items", "write", "push", "commit", "sign"}
Change == [item : Item, val : Nat \ {0, 1}, past : SUBSET Nat]  \* versions start at 1

TypeOK ==
    /\ ServerTypeOK
    /\ pc \in [Device -> Resting \cup Calling]
    /\ cmd \in [Device -> Command]
    /\ have \in [Device -> SUBSET Nat]
    /\ saved \in [Device -> SUBSET Nat]
    /\ cursor \in [Device -> Nat]
    /\ known \in [Device -> Nat]
    /\ shown \in [Device -> SUBSET Item]
    /\ change \in Seq(Change)

Init ==
    /\ ServerInit
    /\ pc = [d \in Device |-> "locked"]
    /\ cmd = [d \in Device |-> NoCommand]
    /\ have = [d \in Device |-> {}]
    /\ saved = [d \in Device |-> {}]
    /\ cursor = [d \in Device |-> 0]
    /\ known = [d \in Device |-> 0]
    /\ shown = [d \in Device |-> {}]
    /\ change = <<>>

Known(d) == Applied(change, have[d])
Directory(d) == Snapshot(change, Known(d))

\* The answer to a request reaches the client, or the connection fails after
\* the server has done its part.
Replies == IF "reply_lost" \in Faults THEN BOOLEAN ELSE {TRUE}

\* The command returns, with Ok or Err, and the mutex is released.
Return(d) ==
    /\ pc' = [pc EXCEPT ![d] = "idle"]
    /\ cmd' = [cmd EXCEPT ![d] = NoCommand]

----------------------------------------------------------------------------
(* The session *)

\* Mutant: the session starts from version 1, the one registration published.
LoginFromRegistration(d) ==
    /\ pc[d] = "locked"
    /\ pc' = [pc EXCEPT ![d] = "idle"]
    /\ known' = [known EXCEPT ![d] = 1]
    /\ UNCHANGED <<serverVars, cmd, have, saved, cursor, shown, change>>

\* login: a new UnlockedVault with an empty document, no cursor, and the
\* version of the manifest it has just verified against minimum version 0.
Login(d) ==
    /\ pc[d] = "locked"
    /\ pc' = [pc EXCEPT ![d] = "idle"]
    /\ known' = [known EXCEPT ![d] = vault.version]
    /\ UNCHANGED <<serverVars, cmd, have, saved, cursor, shown, change>>

DropSession(d) ==
    /\ pc' = [pc EXCEPT ![d] = "locked"]
    /\ cmd' = [cmd EXCEPT ![d] = NoCommand]
    /\ have' = [have EXCEPT ![d] = {}]
    /\ saved' = [saved EXCEPT ![d] = {}]
    /\ cursor' = [cursor EXCEPT ![d] = 0]
    /\ known' = [known EXCEPT ![d] = 0]
    /\ shown' = [shown EXCEPT ![d] = {}]
    /\ UNCHANGED <<serverVars, change>>

\* lock, and the watchdog, wait for the mutex.
Lock(d) == pc[d] = "idle" /\ DropSession(d)

\* The process dies in the middle of a command.
Crash(d) == "crash" \in Faults /\ pc[d] \in Calling /\ DropSession(d)

----------------------------------------------------------------------------
(* Starting a command *)

WithinBounds == Len(change) < MaxChanges /\ nextId <= MaxRows

\* Bound: the commands that still have to draw an id each find an unused one.
IdsRemain ==
    Cardinality({i \in Item : row[i] = "absent"}) >
        Cardinality({d \in Device : cmd[d].op = "create" /\ pc[d] \in {"pull", "write"}})

Start(d, op, i) ==
    /\ pc[d] = "idle"
    /\ pc' = [pc EXCEPT ![d] = "pull"]
    /\ cmd' = [cmd EXCEPT ![d] = [op |-> op, item |-> i, ticket |-> 0]]
    /\ UNCHANGED <<serverVars, have, saved, cursor, known, shown, change>>

StartList(d) == Start(d, "list", NoItem)

StartCreate(d) == WithinBounds /\ IdsRemain /\ Start(d, "create", NoItem)

\* The editor opens on an item of the list the screen shows.
StartEdit(d) ==
    /\ WithinBounds
    /\ \E op \in {"update", "delete"}, i \in shown[d] : Start(d, op, i)

----------------------------------------------------------------------------
(* The HTTP calls of a command *)

\* Mutant: next_cursor is never stored.
CursorKept(page, d) == {cursor[d]}

CursorAfter(page, d) == IF HasNextCursor(page) THEN NextCursor(page) ELSE {cursor[d]}

\* One page of pull_and_merge.
Pull(d) ==
    LET page == ListChanges(cursor[d])
        next == IF HasNextCursor(page) THEN "pull"
                ELSE IF cmd[d].op = "list" THEN "vault" ELSE "write"
    IN  /\ pc[d] = "pull"
        /\ have' = [have EXCEPT ![d] = @ \cup Shared(page)]
        /\ \E c \in CursorAfter(page, d) : cursor' = [cursor EXCEPT ![d] = c]
        /\ pc' = [pc EXCEPT ![d] = next]
        /\ UNCHANGED <<serverVars, cmd, saved, known, shown, change>>

\* fetch_and_verify_manifest, the second call of list_items: a version below
\* the known one fails the command.
FetchManifest(d) ==
    /\ pc[d] = "vault"
    /\ IF vault.version < known[d]
       THEN Return(d) /\ UNCHANGED known
       ELSE /\ known' = [known EXCEPT ![d] = vault.version]
            /\ pc' = [pc EXCEPT ![d] = "items"]
            /\ UNCHANGED cmd
    /\ UNCHANGED <<serverVars, have, saved, cursor, shown, change>>

\* GET /v1/items: the rows, tombstoned or not, whose id the directory lists.
ListItems(d) ==
    /\ pc[d] = "items"
    /\ shown' = [shown EXCEPT ![d] =
                    {i \in Item : row[i] # "absent" /\ \E r \in Directory(d) : r.item = i}]
    /\ Return(d)
    /\ UNCHANGED <<serverVars, have, saved, cursor, known, change>>

\* POST, PUT or DELETE of the item.  create_item draws a fresh random id.
WriteRow(op, i) ==
    \/ op = "create" /\ InsertItem(i)
    \/ op = "update" /\ UpdateItem(i)
    \/ op = "delete" /\ DeleteItem(i)

\* Mutant: the status of the call is not checked.
WriteItemUnchecked(d, reply) ==
    /\ pc[d] = "write"
    /\ \E i \in Item :
        /\ cmd[d].op # "create" => cmd[d].item = i
        /\ IF reply THEN WriteRow(cmd[d].op, i) ELSE UNCHANGED serverVars
        /\ pc' = [pc EXCEPT ![d] = "push"]
        /\ cmd' = [cmd EXCEPT ![d].item = i]
    /\ UNCHANGED <<have, saved, cursor, known, shown, change>>

WriteItem(d, reply) ==
    /\ pc[d] = "write"
    /\ \E i \in Item :
        /\ cmd[d].op # "create" => cmd[d].item = i
        /\ WriteRow(cmd[d].op, i)
        /\ IF reply
           THEN /\ pc' = [pc EXCEPT ![d] = "push"]
                /\ cmd' = [cmd EXCEPT ![d].item = i]
           ELSE Return(d)
    /\ UNCHANGED <<have, saved, cursor, known, shown, change>>

\* record_item_change then take_pending_changes: the document after the put of
\* the command's item, and the changes applied since the last take, the ones
\* merged from other devices included.
\* Mutant NewVersionFromZero: a created item starts at version 0.
NewVersionFromZero(d) == IF cmd[d].op = "create" THEN 0
                         ELSE CurrentVersion(change, Known(d), cmd[d].item) + 1
NewVersion(d) == IF cmd[d].op = "create" THEN 1
                 ELSE CurrentVersion(change, Known(d), cmd[d].item) + 1

NewChange(d) == [item |-> cmd[d].item,
                 val |-> Pack(NewVersion(d), cmd[d].op = "delete"),
                 past |-> Known(d)]

RecordItemChange(d) ==
    IF IsNoop(change, Known(d), cmd[d].item, NewChange(d).val)
    THEN UNCHANGED <<change, have>>
    ELSE /\ change' = Append(change, NewChange(d))
         /\ have' = [have EXCEPT ![d] = @ \cup {Len(change')}]

TakePendingChanges(d) == saved' = [saved EXCEPT ![d] = Known(d)']
\* Mutant PendingEarly: the delta is taken before the change is recorded.
PendingEarly(d) == Known(d) \ saved[d]
Pending(d) == Known(d)' \ saved[d]

\* POST /v1/sync/changes: the row gets its id.  Without "overlap" the server
\* runs one such transaction at a time.
SendDelta(d) ==
    /\ pc[d] = "push"
    /\ "overlap" \in Faults \/ open = {}
    /\ RecordItemChange(d)
    /\ TakePendingChanges(d)
    /\ InsertChange(Pending(d))
    /\ pc' = [pc EXCEPT ![d] = "commit"]
    /\ cmd' = [cmd EXCEPT ![d].ticket = nextId]
    /\ UNCHANGED <<cursor, known, shown>>

\* The request never reaches the server.  The document has the change, the
\* marker has moved, and the bytes are dropped with the Err.
LoseDelta(d) ==
    /\ "request_lost" \in Faults
    /\ pc[d] = "push"
    /\ RecordItemChange(d)
    /\ TakePendingChanges(d)
    /\ Return(d)
    /\ UNCHANGED <<serverVars, cursor, known, shown>>

Ended(rows, ticket) == \E r \in rows : r.id = ticket

\* 202 Accepted.
DeltaAccepted(d) ==
    /\ pc[d] = "commit"
    /\ Ended(log, cmd[d].ticket)
    /\ pc' = [pc EXCEPT ![d] = "sign"]
    /\ UNCHANGED <<serverVars, cmd, have, saved, cursor, known, shown, change>>

\* 500 after a rollback, or no answer.
DeltaFailed(d) ==
    /\ pc[d] = "commit"
    /\ \/ ~Ended(log \cup open, cmd[d].ticket)
       \/ "reply_lost" \in Faults
    /\ Return(d)
    /\ UNCHANGED <<serverVars, have, saved, cursor, known, shown, change>>

\* resign_manifest: version known + 1 over the directory of the document;
\* known moves only on 200.
SignManifest(d, reply) ==
    /\ pc[d] = "sign"
    /\ UpdateManifest(known[d] + 1, Known(d))
    /\ known' = IF reply /\ ~Conflicts(known[d] + 1)
                THEN [known EXCEPT ![d] = @ + 1] ELSE known
    /\ Return(d)
    /\ UNCHANGED <<have, saved, cursor, shown, change>>

\* Mutant: manifest_version moves before the PUT is known to have succeeded.
LoseRequestAfterBump(d) ==
    /\ "request_lost" \in Faults
    /\ pc[d] \in {"pull", "vault", "items", "write", "sign"}
    /\ known' = IF pc[d] = "sign" THEN [known EXCEPT ![d] = @ + 1] ELSE known
    /\ Return(d)
    /\ UNCHANGED <<serverVars, have, saved, cursor, shown, change>>

\* Any other request may not reach the server, or be refused with a 401.
LoseRequest(d) ==
    /\ "request_lost" \in Faults
    /\ pc[d] \in {"pull", "vault", "items", "write", "sign"}
    /\ Return(d)
    /\ UNCHANGED <<serverVars, have, saved, cursor, known, shown, change>>

----------------------------------------------------------------------------

ServerStep ==
    \E r \in open : \/ CommitChange(r) /\ UNCHANGED clientVars
                    \/ /\ "rollback" \in Faults
                       /\ RollbackChange(r)
                       /\ UNCHANGED clientVars

UserStep(d) == Login(d) \/ Lock(d) \/ StartList(d) \/ StartCreate(d) \/ StartEdit(d)

CallStep(d) ==
    \/ Pull(d) \/ FetchManifest(d) \/ ListItems(d)
    \/ \E reply \in Replies : WriteItem(d, reply) \/ SignManifest(d, reply)
    \/ SendDelta(d) \/ DeltaAccepted(d) \/ DeltaFailed(d)

FaultStep(d) == LoseRequest(d) \/ LoseDelta(d) \/ Crash(d)

Next == ServerStep \/ \E d \in Device : UserStep(d) \/ CallStep(d) \/ FaultStep(d)

Spec == Init /\ [][Next]_vars

\* The server ends every transaction it has begun and a running command makes
\* its next call or gives up; the user need not do anything.
Fairness == WF_vars(ServerStep) /\ \A d \in Device : WF_vars(CallStep(d))
FairSpec == Spec /\ Fairness

----------------------------------------------------------------------------
(* What the project claims of this system *)

\* The devices and the server together keep the version sequence of the
\* manifest that ManifestLedger promises (vault_sync.rs:48-107, repo.go:68-79).
Ledger == INSTANCE ManifestLedger WITH version <- vault.version
LedgerSpec == Ledger!Spec

\* manifest_version never runs ahead of the vault row, so fetch_and_verify_manifest
\* never fails on an honest server and resign_manifest skips no version
\* (vault_sync.rs:68, 83).
KnownVersionBounded == \A d \in Device : known[d] <= vault.version

\* Every accepted manifest takes the next version and no other: of two devices
\* that sign from the same version one is refused (repo.go:70).
ManifestStepsByOne ==
    [][vault' # vault => vault'.version = vault.version + 1]_vars

\* A change names only items whose row exists: the item is written before the
\* directory mentions it, whatever call fails in between (items.rs:276-290).
RowBeforeDirectory ==
    \A c \in DOMAIN change : row[change[c].item] # "absent"

\* A tombstone is recorded only over a row the server has already marked deleted
\* (items.rs:403-408).
TombstoneAfterDelete ==
    \A c \in DOMAIN change : Deleted(change[c].val) => row[change[c].item] = "deleted"

\* Every committed row at or below the cursor has been merged (vault_sync.rs:13:
\* all the deltas not yet seen).
NothingBelowCursorMissed ==
    \A d \in Device : \A r \in log : r.id <= cursor[d] => r.delta \subseteq have[d]

\* A row the device's cursor has passed and whose delta it has not merged.
Missed(d) == {r \in log : r.id <= cursor[d] /\ ~(r.delta \subseteq have[d])}

\* A row is missed in one way only: its own transaction commits after a page
\* took the cursor past its id.  No full page, lost answer, crash or rollback
\* adds another (vault_sync.rs:37-41, sync/repo.go:35, sync/handler.go:46-47).
MissedOnlyByLateCommit ==
    [][\A d \in Device : Missed(d)' \ Missed(d) \subseteq {r \in open : r.id <= cursor[d]}]_vars

\* A device that loads the whole log can apply all of it: no row depends on a
\* change that no row carries (sync/mod.rs:108-113).
LogCausallyClosed ==
    \A c \in Shared(log) : change[c].past \subseteq Shared(log)

\* At rest, what take_pending_changes has handed out is on the server
\* (sync/mod.rs:108-113).
TakenChangesShared ==
    \A d \in Device : pc[d] = "idle" => saved[d] \subseteq Shared(log)

\* The snapshot signed at version n + 1 knows every change the one signed at
\* version n knew, so no accepted manifest forgets an entry (items.rs:261-264).
ManifestNeverForgets == [][vault.base \subseteq vault'.base]_vars

\* A device that has read the log to its end and knows the version of the vault
\* row has every change of the signed manifest but those not delivered to it:
\* in no committed row when the manifest was signed, or in a row its cursor has
\* passed.  Whatever else fails, the manifest it signs next forgets no more than
\* these (items.rs:261-264).
Merged == {"vault", "write", "push", "commit", "sign"}
BaseDelivered ==
    \A d \in Device : pc[d] \in Merged /\ known[d] = vault.version =>
        vault.base \ have[d] \subseteq vault.unshared \cup Shared(Missed(d))

\* While no command runs, the manifest is the directory that the shared deltas
\* resolve to (items.rs:2-3).
ManifestMatchesDirectory ==
    (\A d \in Device : pc[d] \in Resting) /\ open = {}
    => Snapshot(change, vault.base) = Snapshot(change, Applied(change, Shared(log)))

\* A put has a larger version than every put of the item its writer knew
\* (items.rs:315, sync/mod.rs:82).
VersionsGrow ==
    \A c \in DOMAIN change : \A b \in change[c].past :
        change[b].item = change[c].item => Version(change[b].val) < Version(change[c].val)

\* Every command returns and releases the mutex (vault_sync.rs:17-44 loops over
\* the pages).
CommandsReturn ==
    \A d \in Device : pc[d] \in Calling ~> pc[d] \in Resting
=============================================================================
