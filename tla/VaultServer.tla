----------------------------- MODULE VaultServer -----------------------------
(***************************************************************************)
(* The rows of one account's vault in Postgres and the transactions of     *)
(* modules/vault-storage and modules/sync that read and write them.        *)
(*                                                                         *)
(*   row     the item table: tombstoned rows stay                          *)
(*   vault   the manifest row: its version and the set of changes the      *)
(*           signed snapshot was resolved from (crdt_clock); `unshared` is *)
(*           history for the properties, no column: those of them no       *)
(*           committed sync_change row carried when it was signed          *)
(*   nextId  the IDENTITY sequence of sync_change                          *)
(*   open    sync_change rows of transactions that have not ended          *)
(*   log     the committed sync_change rows                                *)
(***************************************************************************)
EXTENDS Naturals, FiniteSets

CONSTANTS
    Item,       \* item ids
    PageLimit   \* the limit of one page of GET /v1/sync/changes

ASSUME PageLimitAssumption == PageLimit \in Nat \ {0}

VARIABLES row, vault, nextId, open, log

serverVars == <<row, vault, nextId, open, log>>

RowState == {"absent", "live", "deleted"}
DeltaRow == [id : Nat \ {0}, delta : SUBSET Nat]
Manifest == [version : Nat \ {0}, base : SUBSET Nat, unshared : SUBSET Nat]

ServerTypeOK ==
    /\ row \in [Item -> RowState]
    /\ vault \in Manifest
    /\ nextId \in Nat \ {0}
    /\ open \subseteq DeltaRow
    /\ log \subseteq DeltaRow

\* register_account inserts the vault with the signed empty manifest, version 1.
ServerInit ==
    /\ row = [i \in Item |-> "absent"]
    /\ vault = [version |-> 1, base |-> {}, unshared |-> {}]
    /\ nextId = 1
    /\ open = {}
    /\ log = {}

----------------------------------------------------------------------------
(* Items *)

InsertItem(i) ==
    /\ row[i] = "absent"
    /\ row' = [row EXCEPT ![i] = "live"]
    /\ UNCHANGED <<vault, nextId, open, log>>

\* Mutant: an update that also resets the tombstone flag.
UpdateItemUndeletes(i) ==
    /\ row[i] # "absent"
    /\ row' = [row EXCEPT ![i] = "live"]
    /\ UNCHANGED <<vault, nextId, open, log>>

\* UPDATE ... WHERE id = $1 writes ciphertext and wrapped_cek whatever the
\* deleted flag says, and never clears it.
UpdateItem(i) ==
    /\ row[i] # "absent"
    /\ UNCHANGED serverVars

DeleteItem(i) ==
    /\ row[i] # "absent"
    /\ row' = [row EXCEPT ![i] = "deleted"]
    /\ UNCHANGED <<vault, nextId, open, log>>

----------------------------------------------------------------------------
(* The changes that the deltas of some rows carry. *)
Shared(rows) == UNION {r.delta : r \in rows}

----------------------------------------------------------------------------
(* The manifest: compare-and-set on the version *)

\* Mutant: the UPDATE without its condition on the stored version.
ConflictsNever(version) == FALSE

Conflicts(version) == ~(vault.version < version)

UpdateManifest(version, base) ==
    /\ vault' = IF Conflicts(version) THEN vault
                ELSE [version |-> version, base |-> base, unshared |-> base \ Shared(log)]
    /\ UNCHANGED <<row, nextId, open, log>>

----------------------------------------------------------------------------
(* The delta log.  The id of a row is drawn from the sequence when the     *)
(* INSERT runs and the row is visible when its transaction commits.        *)

InsertChange(delta) ==
    /\ open' = open \cup {[id |-> nextId, delta |-> delta]}
    /\ nextId' = nextId + 1
    /\ UNCHANGED <<row, vault, log>>

\* Mutant: a push replaces the vault's delta instead of adding to the history.
CommitChangeReplaces(r) ==
    /\ r \in open
    /\ open' = open \ {r}
    /\ log' = {r}
    /\ UNCHANGED <<row, vault, nextId>>

CommitChange(r) ==
    /\ r \in open
    /\ open' = open \ {r}
    /\ log' = log \cup {r}
    /\ UNCHANGED <<row, vault, nextId>>

RollbackChange(r) ==
    /\ r \in open
    /\ open' = open \ {r}
    /\ UNCHANGED <<row, vault, nextId, log>>

\* SELECT ... WHERE id > since ORDER BY id LIMIT PageLimit over committed rows.
ListChanges(since) ==
    LET later == {r \in log : r.id > since}
    IN  {r \in later : Cardinality({q \in later : q.id < r.id}) < PageLimit}

\* The handler offers a cursor only after a full page: the id of its last row.
\* Mutant NextCursorPast: the id after it.
HasNextCursor(page) == Cardinality(page) = PageLimit
NextCursorPast(page) == {r.id + 1 : r \in {q \in page : \A p \in page : p.id <= q.id}}
NextCursor(page) == {r.id : r \in {q \in page : \A p \in page : p.id <= q.id}}
=============================================================================
