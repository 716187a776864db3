# Verification project for kunuk

kunuk is a zero-knowledge password manager. Devices hold the vault key; the
server stores ciphertext. This project models the accounts and their keys, the
part in which several devices and the server keep one vault consistent, the part
of one device that locks the vault again, and the generator with the clipboard it
copies to. TLC checks them on small instances; TLAPS proves the safety properties of the
passing runs for every value of the constants, and the refinement. Two are only
model-checked: `NothingBelowCursorMissed` and `ManifestNeverForgets`, which hold
because their run lets no transactions overlap and no request be lost. What remains
true without such limits is stated by other properties, and those are proved.

    tlc -config VaultSync_faults.cfg MCVaultSync     # and the other VaultSync_*.cfg
    tlc -config AutoLock_session.cfg AutoLock        # and the other AutoLock_*.cfg
    tlc -config Accounts.cfg MCAccounts
    tlc -config VaultItems.cfg VaultItems
    tlc -config GeneratorScreen.cfg MCGeneratorScreen
    tlapm VaultSync_proofs.tla                       # and the other *_proofs.tla

## 1. Inventory

| part | state | operations | interacts with |
|---|---|---|---|
| directory document, `crypto-core/src/sync/mod.rs` | an Automerge document: one register `version<<1 \| deleted` per item, the marker of shared changes | `record_item_change`, `take_pending_changes`, `apply_changes`, `snapshot` | called by the item commands |
| item commands, `src-tauri/src/items.rs`, `vault_sync.rs` | none of their own; they hold the session mutex | `list_items`, `create_item`, `update_item`, `delete_item`, made of `pull_and_merge`, `fetch_and_verify_manifest`, `resign_manifest` | HTTP to vault-storage and sync |
| session, `session.rs`, `commands.rs`, `lib.rs` | `Option<UnlockedVault>` and `last_activity`, two mutexes | `register`, `login`, `lock`, `touch`, the watchdog thread | shared by all commands |
| settings, `settings.rs` | file and cache | `load`, `get`, `save` | read by the watchdog and the UI |
| user interface, `frontend/desktop/src` | React state, idle timer | screens, `useAutoLock` | calls the commands |
| clipboard, `shared-ui/clipboard.ts` | one timer | copy, clear | system clipboard |
| vault-storage, `core/modules/vault-storage` | tables `item`, `vault`, `envelope` | create/update/delete/list items, compare-and-set of the manifest, envelopes | Postgres |
| sync, `core/modules/sync` | table `sync_change` | push deltas, list deltas after a cursor | Postgres |
| transactions, `core/db` | `app.account_id` of a transaction, row-level security | `WithAccountTx` | every module |
| auth, sessions, accounts | tables `account`, `session`, `webauthn_*`, `email_verification_token` | register, login, verify e-mail, revoke, delete | Postgres, pre-auth decoys |
| account cryptography, `crypto-core/src` | none | key derivation, envelopes, signing key and manifest, items, recovery | called by commands |
| generator, `crypto-core/src/generator` | none | `generate_password`, `generate_passphrase` | called by commands, shown by `GeneratorScreen.tsx` |
| HTTP server and middleware | a limiter for each address | routing, bearer authentication, pages | in front of every module |
| CLI ceremonies, `apps/cli` | files of a run | an end-to-end script | the same HTTP API |

What must be true of each part:

- *Document*: devices with the same changes see the same directory; a deletion
  beats an edit of the same version; versions grow along causality.
- *Commands*: a command that fails half-way leaves nothing that misleads another
  device; they terminate; a signature never forgets what an earlier one knew.
- *Server*: one version sequence of manifests; a reader with a cursor misses no
  delta; a deleted item stays deleted.
- *Session*: locked when idle, never in the middle of a command.
- *Auth*: a challenge is used once; registration is all or nothing; a session is
  for the account that was proved and goes with it; an expired session opens
  nothing.
- *Account cryptography*: what register stores opens for its owner with what a
  login is told, and for nobody else.
- *Item pages*: a walk over the pages finds every row that was there, and ends.
- *Generator and clipboard*: draws are uniform; the screen shows a value of its
  policy; what is copied leaves the clipboard by the timer of the last copy.

Hard behaviours: devices interleave between the HTTP calls of a command;
transactions commit in another order than their ids or their time stamps; a login
runs over three transactions between which its account may go; requests and
answers are lost or sent twice; the process dies between two calls and its memory
with it; transactions roll back; the clipboard answers late or refuses. `PROJECT.json` lists every hazard at its line.

## 2. Modules

| module | role |
|---|---|
| `SyncDoc` | the operators of the document: packing, causal application, candidates, snapshot |
| `VaultServer` | the rows of one vault and the transactions on them, to be composed |
| `VaultSync` | the devices, composed with `VaultServer` and `SyncDoc`; all properties |
| `ManifestLedger` | abstract specification: what the signed manifest promises |
| `MCVaultSync` | model values' sets and symmetry for TLC |
| `VaultSync_proofs` | its theorems under every fault, and the refinement |
| `VaultSyncSharing_proofs` | its theorems on what reaches other devices, three of them under every fault |
| `OrderedPages` | lemmas on `ORDER BY ... LIMIT n` over a finite table, for both paged lists |
| `AutoLock` | one process: session mutex, commands, watchdog, settings, screens |
| `AutoLock_proofs` | its theorems |
| `AccountKeys` | derivations, envelopes, signatures, items and recovery as terms |
| `Accounts` | clients and the handlers of auth and accounts, composed with `AccountKeys` |
| `MCAccounts` | symmetry for TLC |
| `Accounts_proofs` | its theorems about the handlers |
| `AccountsClients_proofs` | its types, and its theorems about the clients |
| `VaultItems` | the `item` table as it is written by transactions and read in pages |
| `VaultItems_proofs` | its theorems |
| `Generator` | the two generators |
| `Clipboard` | copies that clear themselves, and the clipboard of the system |
| `GeneratorScreen` | the screen, composed with `Generator` and `Clipboard` |
| `MCGeneratorScreen` | symbols and wordlists for TLC |
| `GeneratorScreen_proofs` | its theorems |

`VaultSync` and `AutoLock` meet in the item command: `VaultSync` models its calls
and takes the mutex for granted, `AutoLock` models the mutex and takes the calls
as one step that may last. A session that `AutoLock` closes is `Lock` in
`VaultSync`. `Accounts` models how a session is earned and what its key is;
`VaultSync` takes both for granted, as `VaultItems` takes the vault.

### `SyncDoc`

A change is a number; `H[c]` is its item, its packed register and its causal
past. Automerge is outside the repository's code and is modelled from how it is used:
`load_incremental` queues a change until its past is there (`Applied`);
`get_all` returns the puts no applied put has overwritten (`Candidates`); the
put of an unchanged value is no change (`IsNoop`); `save_incremental` returns
every applied change since the last take, merged ones included.

### `VaultServer` and `VaultSync`

| code | model |
|---|---|
| the `item` table | `row`: absent, live, deleted. Nothing removes a row, so the 404 paths are unreachable for an id a client has seen |
| the `vault` row | `vault`: version, and the changes the signed snapshot was resolved from; `unshared`, those of them no committed delta carried at that time, is history for the properties |
| `sync_change` | `nextId` (the IDENTITY), `open` (inserted, not committed), `log` (visible) |
| the command on a device and its next HTTP call | `cmd`, `pc`. The mutex is held from first to last line, so one command at a time |
| `sync_doc` | `have` (changes loaded) and `saved` (marker) |
| `sync_cursor`, `manifest_version` | `cursor`, `known` |
| the list on the screen | `shown`: only these items can be edited or deleted |

An HTTP call that reads, or writes one row, is one action: the server's
transaction is one statement, and what the client does with the answer is
invisible to others until its next call. Sending a delta is three actions
(`SendDelta`, `CommitChange` or `RollbackChange`, `DeltaAccepted` or
`DeltaFailed`), because its id is drawn before its row is visible. Login is one
action at its `GET /v1/vault`: later parts of it touch nothing that others see.

Faults are a constant, a subset of `FaultKind`:

| fault | what it allows |
|---|---|
| `request_lost` | a call fails before the server does anything (no connection, 401) |
| `reply_lost` | the server does its part and the client gets an error |
| `crash` | the process dies inside a command and loses its memory |
| `rollback` | a push's transaction rolls back after its id was drawn |
| `overlap` | two pushes' transactions are open at once |

`overlap` is no fault: Postgres runs the transactions of two devices together.
It is a switch because it breaks `NothingBelowCursorMissed` (finding 2), and the run
without it shows that nothing else does. The run with it shows how far the damage
goes: `MissedOnlyByLateCommit` and `BaseDelivered` hold under every fault.

### `AutoLock`

| code | model |
|---|---|
| `session.unlocked`, its mutex, `last_activity` | `unlocked`, `mutex`, `idle` (time since) |
| `settings.json`, `SettingsStore.current` | `disk` (`Unreadable` when absent or cut short), `timeout` |
| the watchdog thread | `watchdog`: asleep, about to measure, about to lock; `limit`, the timeout of this round; `wake`, how long it has slept |
| Tauri's command threads | `Workers`, `task` (command and step), `queue` (invocations not yet taken), `replies` (promises to resolve) |
| `Screen` of `App.tsx` | `screen`; `login` stands for both forms |
| `settings` of `VaultScreen`, `lastActivityRef` | `uiTimeout`, `away` (time since) |

A command is split where the mutex, the clock, the file or the cache can change
hands: an item command touches the clock, takes the mutex, makes its calls,
returns; `login` and `register` make their calls without the mutex, store the
session, touch the clock; `save` empties the file, writes it, updates the cache.

`api.rs:2` says that commands which are not `async` run on a pool; Tauri runs
them on its main thread. `Workers` covers both: the theorems hold for any set,
the runs use one worker. With two workers TLC finds the same invariants true
except `SettingsOnDisk`, which two saves at once break.

Time advances by `Tick`, one check of the idle timer at a time. A thread that can
run does so before the next tick; a command that waits for the network may wait
for any number of ticks, with or without the mutex. Clocks stop at `Cap`.

### `AccountKeys` and `Accounts`

Cryptography is symbolic: a derived key is the tuple of its HKDF label and its
inputs, a ciphertext a record of key, authenticated data and plaintext, a signature
a pair of public key and message. The libraries are taken to be ideal; which
label, which authenticated data and which comparison each function uses is the
code's. Argon2id costs are kept as below, at or above the permanent minimum.

A registration is a number `n`. Everything that one `register` draws at random is
a term of `n` (`Random`), everything it sends is `Bundle(n)`; `reg[n]` is the
e-mail and the password the user typed. A number is drawn whether the request
arrives or not, and two registrations may have one e-mail.

| code | model |
|---|---|
| rows of `account`, `vault`, `envelope`, `webauthn_credential` | `account`, the numbers stored: `register_account` inserts all in one transaction, `ON DELETE CASCADE` removes all |
| `session` | `session`; `handle` and `proof` are history, which no step reads |
| `webauthn_challenge` | `challenge`; `handles` numbers the handles drawn |
| a goroutine with a request | `worker`: the handler (`op`), its next transaction (`step`), what came with the request, the account read (`found`) |
| `register` and `login` of the desktop | `client`: the next call (`pc`), and the worker it waits for |
| the Secret Key on the screen | `kit` |

A handler has one step for each transaction: `login/finish` reads the material,
consumes the challenge, creates the session, and anything may happen between. An
error anywhere ends in `Fail`; a connection may fail under a running handler, whose
next transaction then fails or not. Clients with a passkey are external, for the
desktop has none: the server's endpoints for them are modelled with a client that
sends its request again after a failure. `register/finish` answers 201 for a taken
e-mail, and `login/start` answers for an unknown one with decoys, as in the code.

### `VaultItems`

`tx` is the item transaction on each connection: `now()` is the time of its
BEGIN, its row changes at its commit, and both are steps of their own, so rows
may be committed against the order of their stamps. `walk` is a client that
follows `next_cursor`. A tombstone is an update here.

### `Generator`, `Clipboard`, `GeneratorScreen`

`Generated(policy)` is the set of values a policy may yield, through the
acceptance of `random_index` with a word of any size. The commands are not
`async`, so Tauri runs them in order on the main thread: `queue` is first in,
first out. The clipboard is external: `calls` are answered in any order and each
may be refused. `timers` holds every timer that runs, `pending` the one that
`pendingClear` remembers. Another program may copy, and the window may close.

## 3. What is checked

| run | instance | shows |
|---|---|---|
| `faults` | 2 devices, 1 item, 2 changes, page of 1, all faults | types; `known` never ahead of the vault row; a row exists before any directory names its item; a tombstone is recorded only over a deleted row; manifests step by one; the ledger is implemented; a delta is missed only when it is committed behind a cursor; a device that may sign the next manifest has all of the last one but what was not delivered to it |
| `reliable` | 2 devices, 1 item, 2 changes, page of 2, crashes, fair | no delta at or below a cursor is missed; the log is causally closed; what was taken is shared; no manifest forgets; every command returns |
| `session` | 1 worker, timeouts 1 and 2, poll 1, 2 calls in flight, fair | types; the watchdog closes an idle vault in time unless it waits for the mutex; no command loses its vault; the login form means a closed vault; the timeouts of screen and watchdog agree; a file that can be read holds the settings in use, outside a save; once the user has gone the vault is closed for good |
| `accounts` | 2 clients, 2 workers, 1 e-mail, 2 registrations, 2 faults | types; no session without its account; one account per e-mail; a challenge earns one session; a session is for the account that was proved; an open vault has the key and the account of one registration; what is stored opens for its owner and nobody else; a Secret Key that is shown opens a stored account; whoever deletes an account uses its key or passkey, and a token earned by it |
| `items` | 3 items, 2 connections, pages of 1 and 2, fair | a walk is sent every row that was there at its start, and ends |
| `generator` | words up to 7, 2 symbols, 2 wordlists, 2 edits, 2 copies, fair | draws are uniform; the screen shows a value of its policy; the timer that fires is that of the last copy; a copy still in the clipboard has a timer or a clearing under way; what is copied leaves the clipboard |
| `hung_call` | 1 worker, timeout 2, poll 1 | finding 5 |
| `failed_save` | 1 worker, timeouts 1 and 2, poll 1 | finding 6 |
| `lost_delta`, `overlap`, `conflict`, `tombstone` | 1 or 2 items, 2 or 3 changes | findings 1 to 4 |

Bounds. `MaxChanges` and `MaxRows` stop new *writes* from starting; commands
already running finish, so a history may hold one more change per device. Two
devices are enough for every race in the code: each is between one device and
the server state another device left. Two changes suffice for a create that races
an update or a delete, three for a page that is full followed by one that is not.
A page of 1 makes every page full; a page of 2 adds partial ones. One item
suffices for the passing properties, which relate the changes of one item or
no item at all; the runs that find violations use two where one would hide them. Symmetry in devices is used in `faults`
only, as `reliable` checks a liveness property.

`ForgetsOnlyUndelivered`, the action property that `BaseDelivered` prepares, is proved
and not run: in the instance of `faults` no manifest forgets anything. The smallest
history that does has three items and three changes: a device loses one delta, signs
with its next one, and a second device signs without either. That is more than TLC
can explore with all faults; with `request_lost` alone it finds it.

In `AutoLock` two timeouts are enough to see a setting change between two
readings, a poll of one step and `Cap` of 3 to see every order of idle time,
timeout and poll, and two calls in flight, with the two a mounting screen adds,
to see a lock behind a command, two locks, two logins and a save behind a lock.
`MaxCalls` also stops the idle timer from filling the queue while a command
hangs, which the program does.

In `Accounts` every hazard is between two requests: a login and a deletion, two
registrations, a request and its repetition. Two clients and two workers give every
order of two handlers' transactions; a third request may follow when one has
ended. One e-mail makes every registration compete with every other. Two
registrations, handles and sessions are one more than a race needs, and two faults
let a request be repeated and its handler fail. Lifetimes of 1 and a clock that
stops at 1 expire a challenge or a session between any two steps. The bounds,
users who stop and windows that close end a behaviour, hence
`CHECK_DEADLOCK FALSE` in `accounts` and `generator`. Symmetry in clients and
workers is sound there: the run checks no liveness.

In `VaultItems` three rows and pages of one and two give full, partial and empty
pages; two connections commit in either order; two times give equal and different
stamps. The limits 0 and 3 are below and above what is allowed. In `Generator` 8
values of a word are not a multiple of 3, the size of one wordlist, so the
rejection is exercised; two edits give an answer to an earlier policy, two copies
an earlier timer. Lengths 0 and 1 suffice: each symbol is drawn alone.

Fairness of `reliable`: the server ends every transaction it has begun
(`WithAccountTx` commits or rolls back on every path) and a running command
makes its next call. It assumes that a call returns: the client (`api.rs`) sets
no timeout, so this is an assumption about the network. Users and faults are not
fair. The bound on rows also bounds the pull loop: a server whose log grows
faster than a device reads it would keep `pull_and_merge` busy.

Fairness of `session`: threads run, time passes, a renderer that does not hang runs
its callbacks, and calls return (the same assumption). The user, the renderer's
hanging and restarts are not fair. The fairness restricts no safety property.

Fairness of `items`: the client asks for the next page until there is none. Writers
are not fair; that the clock stops keeps them from moving rows for ever in front
of the reader, which in the program they could. Fairness of `generator`: the system
answers each kind of clipboard call, a due timer fires, time goes on.

### Findings

1. **A lost delta** (`lost_delta`, `items.rs:298`). `take_pending_changes` must
   be retried with the same bytes; the commands drop them with the error. Later
   deltas of that device depend on the lost change, and no device can apply them.
2. **A skipped delta** (`overlap`, `sync/repo.go:31`). Ids are drawn before
   rows are visible, so a cursor can pass a row that is still to be committed.
3. **A manifest left behind** (`conflict`, `vault_sync.rs:104`). Of two devices
   that sign together one gets 409, after its item and delta are stored, and
   nobody signs again until the next write.
4. **A version that restarts** (`tombstone`, `items.rs:338`). The snapshot hides
   tombstones, so an update of an item deleted elsewhere starts from 0: version 1
   overwrites the tombstone of version 2 and the item returns.

5. **A watchdog that waits** (`hung_call`, `lib.rs:82`). The backstop takes the
   mutex that a command holds over a call without a timeout: a server that does
   not answer keeps the vault open.
6. **A file behind the cache** (`failed_save`, `settings.rs:86`). `fs::write`
   empties the file first. When it then fails, the cache keeps the settings in use
   over a file that cannot be read, and the next start takes the defaults.
   `SettingsOnDisk` is what remains: the file never holds *other* valid settings.

Other observations, which contradict nothing that is written down:

- The watchdog sees commands only: who fills in a long form without calling one
  is locked out (`lib.rs:79`).
- `register` that fails after `register/finish` never shows the Secret Key, and the
  e-mail stays taken. `ShownKeyIsStored` and `OpenHoldsOwnVault` show that nothing
  worse follows.
- A commit of a transaction that began before the row's last update sets the stamp
  of the row back, and a cursor may have passed it. `WalkFindsRows` excepts these
  rows.
- A check of the clipboard that is under way when the same text is copied again
  clears the new copy early.
- After a failed draw the generator screen keeps the last value beside the error,
  and its buttons stay enabled.
- Closing the window leaves what was copied in the clipboard; `SecretLeaves`
  excepts it.

## 4. What is proved

`VaultSync_proofs` proves, for every set of devices and items, every page limit,
every bound and every subset of faults:

- `TypeCorrect`, `KnownVersionCorrect`, `RowBeforeDirectoryCorrect`,
  `TombstoneCorrect`: `Spec => []` of the properties of run `faults`;
- `StepsByOneCorrect`: the action property `ManifestStepsByOne`;
- `LedgerImplemented`: `Spec => LedgerSpec`, the refinement.

Assumptions: those declared in the modules (a page holds at least one row,
`NoItem` is no item, `Faults` is a subset of `FaultKind`, bounds are numbers).

The inductive invariant is `IInv`. The properties need two facts to be
inductive. `HistoryOK`: documents and rows hold only changes that exist, which
gives the registers in a snapshot, and so the next version, their type.
`CommandOK`: a command at the point of recording has written the row of its
item, and a delete has marked it. `RecordStep` is the heart: recording is the
only place where the history grows. The refinement uses `KnownVersionBounded`:
a signature the server accepts has `vault.version < known + 1`, and with
`known <= vault.version` the signer knew the latest version.

`VaultSyncSharing_proofs` proves, for the same constants, what one device's
knowledge means to the others:

| theorem | faults allowed | says |
|---|---|---|
| `MissedOnlyByLateCommitCorrect` | all | a device passes over a delta only when its transaction commits behind the device's cursor (finding 2 and nothing else) |
| `BaseDeliveredCorrect` | all | a device past its pull that knows the version of the vault row has every change of the signed manifest but those not delivered to it |
| `ForgetsOnlyUndeliveredCorrect` | all | when an accepted manifest forgets a change, that change or one of its past was not delivered to the signer |
| `LogClosedCorrect` | `crash`, and one of `overlap` and `reply_lost` | the log is causally closed |
| `TakenSharedCorrect` | `crash`, `overlap` | what was taken is shared when the command is over |

"Not delivered" is exact: no committed row carried the change when the manifest was
signed (its POST was lost or rolled back, or its transaction was still open), or
the row that carries it was committed behind the device's cursor. TLC violates
`BaseDelivered` when either excuse is dropped.

`request_lost` and `rollback` break the last two (finding 1). With `overlap` and
`reply_lost` together a client goes on while its transaction is still open, and
its next delta may be committed first. With `reply_lost` alone what was taken
may be in an open transaction when the command has returned.

- `IdsOK`: an id is drawn once, and no cursor has reached one that is still to be
  drawn. With `PageFacts` the first theorem follows: a cursor moves to the last row
  of a page, pages are closed under the order of ids (`FirstRowsClosed`), and a page
  that is not full is all there is (`ShortPageIsAll`).
- `BaseOK`: what was signed last is causally closed, and what of it is not in
  `unshared` is in the log. With `BaseDelivered` it is inductive: a pull that reached
  the end of the log has every closed set whose rows it did not miss
  (`PullDelivers`), what has not been delivered stays so while the device holds
  still (`StillUndelivered`), and a signature that is accepted leaves nobody else with
  a current `known` (`SignDelivers`).
- `Sent`: all a device has is shared, but for the delta it has just sent, which is
  in the transaction it waits for. `DeltasClosed`: what an open transaction
  brings depends on what is shared or on itself. Together they make the log closed
  when a transaction commits.

`AutoLock_proofs` proves, for every set of workers, every set of timeouts and
every poll interval:

- `TypeCorrect`, `ItemKeepsVaultCorrect`, `BackstopCorrect`: `Spec => []` of the
  properties of run `session`;
- `LoginScreenCorrect`, `UiTimeoutCorrect`: the same of `LoginScreenMeansLocked`
  and `UiTimeoutFresh`;
- `SettingsCorrect`: the same of `SettingsOnDisk`, for one worker, which two
  workers break. It is narrower than `settings.rs:48-50`, which finding 6 contradicts.

`BackstopInTime` is not inductive: it says nothing of how the idle time grew.
`ClockOK` does: while the watchdog sleeps, `idle < limit + wake`, so the vault was
idle for less than the timeout when the sleep began. It is established by a
measurement that does not expire, kept by ticks, which advance both sides, and by
touches, and it excepts a login between storing the session and touching the
clock. `SaveOK` says what the file holds at each step of a save.
`LoginOK` and `FreshOK` are about the order of replies, which resolve first in, first
out: over an open vault every reply of a `lock` has the reply of a later `login`
behind it, and the last reply with settings carries those in the cache.

`Accounts_proofs` proves, for every set of clients, workers, e-mails and passwords,
every lifetime and every bound:

- `NoOrphanSessionCorrect`: inductive as it stands;
- `ChallengeUsedOnceCorrect`: the strengthening is `ChallengeOK`. A handle is in
  the table, or held by one worker that is about to issue, or written in one
  session; never in two of these places. `Spent` names the last two. Consuming
  moves a handle from the first place to the second, issuing to the third
  (`VerifyKeeps`, `IssueKeeps`), and no other step moves one (`NothingSpent`);
- `OneAccountPerEmailCorrect`: needs that rows belong to drawn registrations, whose
  e-mail no later one changes, and so `RegistrationOK` of all that clients and
  workers carry towards `register_account`;
- `SessionForProvenAccountCorrect`, an action property: `ProofOK` says that from
  the check of a request to its session a worker keeps what was presented with
  the account it was checked against;
- `OwnerCanLogInCorrect` and `EnvelopesOpenOnlyForOwnerCorrect`: from lemmas on the
  operators of `AccountKeys`. The first is that both sides derive from the same
  inputs. The second is relative to ideal primitives: it shows that the labels
  and authenticated data the code chooses keep registrations apart.

`AccountsClients_proofs` proves, for the same constants, `TypeCorrect`,
`OpenHoldsOwnVaultCorrect`, `ShownKeyIsStoredCorrect` and `DeletedByHolderCorrect`.

- `Linked`, part of `TypeInv`, relates the two sides: a client that waits waits for
  a worker that runs the call of its `pc`, with its own proof. The types need it, for
  what an answer holds depends on the handler.
- `ClientHolds`: whatever a client unwraps is the vault key of its own registration,
  and every session with its token is for that registration. It rests on the lemmas
  `VaultKeyOwn` (an envelope of another registration does not open) and `ProofOwn`
  (a check that succeeds was of its own proof).
- `MayDelete`: a request to delete is, to its last step, for an account whose
  Secret Key was shown or that has a passkey, and every session with its token is for
  that account. `SessionsProven`: a session was earned by the verifier or the
  credential of its own account. Together they tie the worker that deletes, and the
  token it came with, to the account that goes.

`VaultItems_proofs` proves `TypeCorrect` and `WalkFindsRowsCorrect` for every set of
ids, clamp and number of connections. The invariant says that what a reader
is still owed lies past its cursor (`OwedAhead`); a step to the next page keeps it
by the lemmas of `OrderedPages` for the order of `(updated_at, id)`.

`GeneratorScreen_proofs` proves for any charsets, wordlists, delays, edits and copies:

- `TimerFollowsLastCopyCorrect`: at most one timer runs, the one `pendingClear`
  remembers, set by the last copy;
- `TypeCorrect`, from the elements of queue and calls;
- `EntriesEquallyLikelyCorrect`, by the bijection between the multiples of the length
  below the limit and the values that give one index;
- `ValueFitsPolicyCorrect`: the last `generate` in the queue has the policy of the
  inputs, and without one the value was drawn for it;
- `CopyAttendedCorrect`, the safety core of `SecretLeaves`: with it only the clock and
  the answers of the clipboard stand between a copy and its end.

Assumptions of all: those declared in the modules. `PolicyAssumption` says that the
entries to draw from are a sequence without repetition, no longer than a word can
count. For the wordlists that is what the tests at `generator/mod.rs:236` and `246`
say; for the charsets it follows from the symbols being distinct, but through
`SelectSeq`, whose recursion the provers cannot unfold.

Facts by induction over numbers are proved through a least counterexample
(`LeastExists`, from the library's `WFMin`), as the induction rules themselves take
an operator.

Only model-checked are

- liveness, which needs fairness and `ENABLED`: `CommandsReturn`, `EventuallyLocked`,
  `WalkEnds`, `SecretLeaves`. The safety cores `BackstopInTime` and `CopyAttended` of
  two of them are proved;
- `NothingBelowCursorMissed` and `ManifestNeverForgets` in `reliable`. A theorem
  would have to assume the overlap of transactions away, and for the second lost requests
  and rollbacks too, which nothing in the code rules out. The theorems above say
  what holds with them.

## 5. Not modelled

- Contents of items beside the directory: the last PUT wins, whatever directory
  version it belongs to.
- Ciphertexts inside `VaultSync`: every device holds the key and every delta is
  intact. `AccountKeys` says who can make and open them.
- A call the server executes after the client has given up on it, except the
  commit of a push and the handlers of `Accounts`, which are modelled.
- More than one account in `VaultSync` and `VaultItems`; row-level security is the
  scope of each statement.
- `email/verify`: nothing creates the tokens it consumes, so it never succeeds.
  `RevokeAllForAccount`, `PUT /envelopes/{type}`, `GET /items/{id}` and `GET /account`
  are called by nothing in the repository; the last two change nothing.
- The rate limiter: it keeps no state that another part reads.
- The command line client: a script of the same calls, in one thread.
- Unmounting the generator screen, React's StrictMode, labels and the strength meter.
- Poisoned mutexes: nothing panics while it holds one.
- A second webview, and reloading the page.
- Malformed input, which is rejected before any state is read.
- Parts marked `not_modelled` in `PROJECT.json`, for the reason given there.

## 6. Plan

What is left:

1. The progress of a page walk as a safety property: a page that does not end the
   walk moves the cursor forward, the step `WalkEnds` rests on; the same of
   `pull_and_merge` for `CommandsReturn`.
2. An abstract specification of sessions and accounts, of which `Accounts` is shown
   to be an implementation as `VaultSync` is of `ManifestLedger`.
3. The hazards of `PROJECT.json` without a property: first the item whose row has no
   directory entry after a lost answer (`items.rs:276`), which needs contents.
