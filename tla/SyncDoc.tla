------------------------------- MODULE SyncDoc -------------------------------
(***************************************************************************)
(* The vault directory as crypto-core/src/sync/mod.rs resolves it from an  *)
(* Automerge document.  A change is identified by its number in a history  *)
(* H, the way Automerge identifies it by its hash; H[c] says which item    *)
(* register the change puts, the packed value it puts there, and every     *)
(* change its writer had applied, which is its causal past.                *)
(***************************************************************************)
EXTENDS Naturals, Sequences, FiniteSets

\* pack and unpack: the low bit of a register is the tombstone flag, so that at
\* equal versions a deletion beats an edit.
Pack(version, deleted) == 2 * version + (IF deleted THEN 1 ELSE 0)
Version(val) == val \div 2
Deleted(val) == val % 2 = 1

\* load_incremental keeps a change whose dependencies are missing in a queue
\* until they arrive.  A causal past is transitively closed, so a change of S
\* is applied exactly when its whole past is in S.
Applied(H, S) == {c \in S : H[c].past \subseteq S}

\* get_all: the puts of item i that no other applied put of i has overwritten.
Candidates(H, A, i) ==
    LET puts == {c \in A : H[c].item = i}
    IN  {c \in puts : \A e \in puts : c \notin H[e].past}

\* snapshot: the largest concurrent value wins, and a tombstone hides the item.
Resolved(H, A, i) ==
    LET vals == {H[c].val : c \in Candidates(H, A, i)}
    IN  {v \in vals : \A w \in vals : w <= v}

Snapshot(H, A) ==
    LET items == {H[c].item : c \in A}
    IN  UNION {{[item |-> i, version |-> Version(v)] :
                   v \in {w \in Resolved(H, A, i) : ~Deleted(w)}} : i \in items}

\* The version update_item and delete_item start from: unwrap_or(0) makes it 0
\* for an item that is absent from the snapshot or tombstoned in it.
CurrentVersion(H, A, i) ==
    LET ref == {r \in Snapshot(H, A) : r.item = i}
    IN  IF ref = {} THEN 0 ELSE (CHOOSE r \in ref : TRUE).version

\* put of the value a register already holds without conflict is no change.
IsNoop(H, A, i, val) == {H[c].val : c \in Candidates(H, A, i)} = {val}
                        /\ Cardinality(Candidates(H, A, i)) = 1
=============================================================================
