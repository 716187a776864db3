--------------------------- MODULE ManifestLedger ---------------------------
(***************************************************************************)
(* What the signed manifest promises the devices of an account, whatever   *)
(* the network does: one version sequence without gaps or forks.  A device *)
(* publishes version n + 1 only if n is both the latest version and the    *)
(* latest it has seen, it may fail to learn that it has published, and it  *)
(* forgets what it has seen with its session.                              *)
(***************************************************************************)
EXTENDS Naturals

CONSTANT Device

VARIABLES
    version,  \* the latest published version
    known     \* the latest version each device has seen, 0 without a session

ledgerVars == <<version, known>>

Init == version = 1 /\ known = [d \in Device |-> 0]

Read(d) ==
    /\ known' = [known EXCEPT ![d] = version]
    /\ UNCHANGED version

Publish(d) ==
    /\ known[d] = version
    /\ version' = version + 1
    /\ \/ known' = [known EXCEPT ![d] = version']
       \/ UNCHANGED known

Forget(d) ==
    /\ known' = [known EXCEPT ![d] = 0]
    /\ UNCHANGED version

Next == \E d \in Device : Read(d) \/ Publish(d) \/ Forget(d)

Spec == Init /\ [][Next]_ledgerVars
=============================================================================
