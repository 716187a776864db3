------------------------------- MODULE Accounts -------------------------------
(***************************************************************************)
(* Registration, login and deletion of accounts: the transactions of the   *)
(* server (modules/auth, modules/accounts, internal/session and            *)
(* internal/preauth over the functions of db/migrations), the register and *)
(* login commands of the desktop (commands.rs), and clients that hold a    *)
(* passkey, for which the server has endpoints and this repository no      *)
(* program.  A call takes a worker, which runs the handler in one step per *)
(* transaction; a connection or a transaction may fail at any time.  A     *)
(* drawn number stands for everything one register draws.                  *)
(*                                                                         *)
(*   now        the clock of server and database                           *)
(*   reg        the registrations drawn so far, sent or not                *)
(*   account    those whose rows (account, envelopes, vault, credential)   *)
(*              are stored: they come and go together                      *)
(*   session    the session rows; via and handle say how they were earned  *)
(*   challenge  the webauthn_challenge rows                                *)
(*   worker     the handler a goroutine runs, before its next transaction  *)
(*   client     the command a client runs, before its next call or with    *)
(*              the worker it waits for                                    *)
(*   kit        the registrations whose Secret Key a user was shown        *)
(*   handles, tokens, faults  how many there have been                     *)
(***************************************************************************)
EXTENDS AccountKeys, FiniteSets, Sequences

CONSTANTS
    Client, Worker, Email, Password,
    NoWorker,
    ChallengeTTL, SessionTTL,
    MaxTime,     \* bound: the clock stops here
    MaxRegs,     \* bound: registrations drawn
    MaxHandles,  \* bound: challenges stored
    MaxTokens,   \* bound: sessions created
    MaxFaults    \* bound: failures of connections and transactions

ASSUME NoWorkerAssumption == NoWorker \notin Worker
ASSUME TTLAssumption == ChallengeTTL \in Nat \ {0} /\ SessionTTL \in Nat \ {0}
ASSUME BoundsAssumption ==
    /\ MaxTime \in Nat /\ MaxRegs \in Nat /\ MaxHandles \in Nat /\ MaxTokens \in Nat
    /\ MaxFaults \in Nat

VARIABLES now, reg, account, session, challenge, worker, client, kit, handles, tokens, faults

tableVars == <<account, session, challenge, handles, tokens>>
vars == <<now, reg, tableVars, worker, client, kit, faults>>

----------------------------------------------------------------------------
(* What a registration draws and what it sends *)

AccountId(n) == <<"account", n>>

Random(n) ==
    [secretKey |-> <<"secret-key", n>>, vaultId |-> <<"vault", n>>, vk |-> <<"vk", n>>,
     signingSeed |-> <<"seed", n>>, salt |-> <<"salt", n>>]
Prf(n) == <<"prf", n>>

Bundle(n) == RegisterWith(reg[n].password, IF reg[n].passkey THEN {Prf(n)} ELSE {},
                          AccountId(n), Random(n))

\* The row login_material finds for an e-mail.
AccountsOf(email) == {n \in account : reg[n].email = email}
HasPasskey(n) == reg[n].passkey

\* login/start answers for an unknown e-mail with values derived from it.
DecoyAccountId(email) == <<"decoy", email>>
DecoySalt(email) == <<"decoy-salt", email>>
DecoyUser(email) == <<"decoy-user", email>>
User(n) == <<"user", n>>
Credential(n) == <<"credential", n>>

\* found is 0 for an e-mail without an account.
LoginUser(email, found) ==
    IF found # 0 /\ HasPasskey(found) THEN User(found) ELSE DecoyUser(email)

LoginAnswer(email, found) ==
    [handle |-> handles + 1,
     id |-> IF found = 0 THEN DecoyAccountId(email) ELSE AccountId(found),
     salt |-> IF found = 0 THEN DecoySalt(email) ELSE Random(found).salt]

----------------------------------------------------------------------------

Calls == {"begin", "register", "start", "finish", "envelopes", "vault", "delete"}
Steps == {"consume", "insert", "store", "material", "issue", "lookup", "work"}
OpenState == {"open", "delete"}

\* cmd: the command; n: the registration it uses; id and salt: the account id
\* and the salt it derives with; vk: the vault key, once it has been unwrapped.
Out == [pc |-> "out", cmd |-> "none", n |-> 0, passkey |-> FALSE, id |-> <<>>,
        salt |-> <<>>, handle |-> 0, token |-> 0, vk |-> {}, worker |-> NoWorker]

\* n, proof, handle and token come with the request; found is the account read.
Idle == [op |-> "idle", step |-> "none", n |-> 0, proof |-> {}, handle |-> 0,
         token |-> 0, found |-> 0]

TypeOK ==
    /\ now \in 0 .. MaxTime
    /\ reg \in Seq([email : Email, password : Password, passkey : BOOLEAN])
    /\ account \subseteq DOMAIN reg
    /\ \A s \in session :
         /\ s.token \in 1 .. tokens
         /\ s.account \in DOMAIN reg
         /\ s.expires \in Nat
         /\ s.handle \in 0 .. handles
    /\ \A c \in challenge : c.handle \in 1 .. handles /\ c.expires \in Nat
    /\ \A w \in Worker :
         /\ worker[w].op \in Calls \cup {"idle"}
         /\ worker[w].step \in Steps \cup {"none"}
         /\ worker[w].n \in 0 .. Len(reg)
         /\ worker[w].handle \in 0 .. handles
         /\ worker[w].token \in 0 .. tokens
         /\ worker[w].found \in 0 .. Len(reg)
    /\ \A c \in Client :
         /\ client[c].pc \in {"out", "open"} \cup Calls
         /\ client[c].cmd \in {"none", "register", "login"}
         /\ client[c].n \in 0 .. Len(reg)
         /\ client[c].handle \in 0 .. handles
         /\ client[c].token \in 0 .. tokens
         /\ client[c].worker \in Worker \cup {NoWorker}
    /\ kit \subseteq DOMAIN reg
    /\ handles \in 0 .. MaxHandles
    /\ tokens \in 0 .. MaxTokens
    /\ faults \in 0 .. MaxFaults

Init ==
    /\ now = 0
    /\ reg = <<>>
    /\ account = {}
    /\ session = {}
    /\ challenge = {}
    /\ worker = [w \in Worker |-> Idle]
    /\ client = [c \in Client |-> Out]
    /\ kit = {}
    /\ handles = 0
    /\ tokens = 0
    /\ faults = 0

----------------------------------------------------------------------------
(* The tables *)

\* Mutant: only the ids are unique, not the e-mail.
ConflictsById(n) == n \in account

\* The unique columns: account.id, account.email, vault.id, credential_id.
Conflicts(n) == n \in account \/ AccountsOf(reg[n].email) # {}

\* register_account: one transaction; a unique_violation rolls it back and
\* returns NULL, which the handler answers with the same 201.
RegisterAccount(n) == account' = IF Conflicts(n) THEN account ELSE account \cup {n}

\* Mutant: the row is deleted and its sessions stay.
DeleteAccountKeepsSessions(n) ==
    /\ account' = account \ {n}
    /\ UNCHANGED session

\* Mutant: the row level security is not in force.
DeleteAccountUnscoped(n) ==
    /\ account' = {}
    /\ session' = {}

\* DELETE FROM account, and what ON DELETE CASCADE takes with it.
DeleteAccount(n) ==
    /\ account' = account \ {n}
    /\ session' = {s \in session : s.account # n}

\* Mutant: the handle is not drawn anew.
StoreChallengeSameHandle(user) ==
    /\ handles < MaxHandles
    /\ handles' = handles + 1
    /\ challenge' = challenge \cup {[handle |-> 0, user |-> user, expires |-> now + ChallengeTTL]}

\* webauthn_challenge_store: rows that have expired are deleted first.
StoreChallenge(user) ==
    /\ handles < MaxHandles
    /\ handles' = handles + 1
    /\ challenge' = {c \in challenge : c.expires >= now}
                      \cup {[handle |-> handles', user |-> user, expires |-> now + ChallengeTTL]}

FreshChallenge(handle) == {c \in challenge : c.handle = handle /\ c.expires > now}

\* Mutant: the challenge is read and not deleted.
ConsumeChallengeReads(handle) == UNCHANGED challenge

\* webauthn_challenge_consume: DELETE ... RETURNING.
ConsumeChallenge(handle) == challenge' = challenge \ FreshChallenge(handle)

\* session_lookup.  revoked is never set: nothing calls RevokeAllForAccount.
LiveSessions(token) == {s \in session : s.token = token /\ s.expires > now}

----------------------------------------------------------------------------
(* The client's side of an answer: an empty set for a connection that      *)
(* failed or a status that was not expected, else what the body says.      *)

\* Mutant: login derives with raised costs.
KdfRaised(r) == <<"argon2id", ArgonV1 + 1, r.salt>>

\* login: the costs are those of v1, whatever kdf_params says.
Kdf(r) == KdfV1(r.salt)

VaultKey(r, bundle) ==
    IF r.passkey
    THEN UNION {UnlockWithPasskey(Prf(r.n), e, r.id) : e \in bundle.passkeyEnvelope}
    ELSE UnlockWithPassword(reg[r.n].password, Random(r.n).secretKey,
                            bundle.passwordEnvelope, Kdf(r), r.id)

\* The manifest is verified with the key and the vault id of the same answer.
VaultVerified(bundle) ==
    VerifyManifest(bundle.signingPubkey, bundle.signedManifest, bundle.vaultId, 0) # {}

\* The command goes on with what the answer says.
Advance(r, answer, vk) ==
    CASE r.pc = "begin" -> [r EXCEPT !.pc = "register", !.handle = CHOOSE h \in answer : TRUE]
      [] r.pc = "register" /\ vk # {} -> [r EXCEPT !.pc = "start", !.vk = vk]
      [] r.pc = "start" ->
           LET a == CHOOSE b \in answer : TRUE
           IN  [r EXCEPT !.pc = "finish", !.handle = a.handle,
                         !.id = IF r.cmd = "register" THEN @ ELSE a.id,
                         !.salt = IF r.cmd = "register" THEN @ ELSE a.salt]
      [] r.pc = "finish" -> [r EXCEPT !.pc = IF r.cmd = "register" THEN "open" ELSE "envelopes",
                                      !.token = CHOOSE t \in answer : TRUE]
      [] r.pc = "envelopes" /\ vk # {} -> [r EXCEPT !.pc = "vault", !.vk = vk]
      [] r.pc = "vault" /\ (\E n \in answer : VaultVerified(Bundle(n))) -> [r EXCEPT !.pc = "open"]
      [] OTHER -> Out

\* What the command does with the answer to the call at r.pc.
After(r, answer) ==
    LET here == [r EXCEPT !.worker = NoWorker]
        vk == CASE r.pc = "register" -> VaultKey(r, Bundle(r.n))
                [] r.pc = "envelopes" -> UNION {VaultKey(r, Bundle(n)) : n \in answer}
                [] OTHER -> r.vk
    IN  CASE r.pc = "delete" /\ answer = {} -> [here EXCEPT !.pc = "open"]
          [] r.pc # "delete" /\ answer # {} -> Advance(here, answer, vk)
          [] OTHER -> Out

Waits(c, w) == client[c].worker = w

\* Mutant: register returns at the 201 of register/finish.
RevealsAtCreated(r, next) == r.pc = "register" /\ next.pc = "start"

\* register returns the Secret Key when its last call has succeeded.
Reveals(r, next) == r.pc = "finish" /\ next.pc = "open"

\* The handler of w ends, with an empty set for an error, and the command of
\* the client that still waits goes on.
End(w, answer) ==
    /\ worker' = [worker EXCEPT ![w] = Idle]
    /\ client' = [c \in Client |-> IF Waits(c, w) THEN After(client[c], answer) ELSE client[c]]
    /\ kit' = kit \cup {client[c].n : c \in
                          {d \in Client : Waits(d, w) /\ Reveals(client[d], client'[d])}}
    /\ UNCHANGED <<now, reg>>

Answer(w, answer) == End(w, answer) /\ UNCHANGED faults

----------------------------------------------------------------------------
(* Clients *)

\* The new account id, salt and keys are those of a number not drawn before.
StartRegister(c, email, password, passkey) ==
    /\ client[c].pc = "out"
    /\ Len(reg) < MaxRegs
    /\ reg' = Append(reg, [email |-> email, password |-> password, passkey |-> passkey])
    /\ LET n == Len(reg) + 1
       IN  client' = [client EXCEPT ![c] =
                        [Out EXCEPT !.pc = IF passkey THEN "begin" ELSE "register",
                                    !.cmd = "register", !.n = n, !.passkey = passkey,
                                    !.id = AccountId(n), !.salt = Random(n).salt]]
    /\ UNCHANGED <<now, tableVars, worker, kit, faults>>

\* With the e-mail, the password and the Secret Key of n, or with its passkey.
StartLogin(c, n, passkey) ==
    /\ client[c].pc = "out"
    /\ IF passkey THEN HasPasskey(n) ELSE n \in kit
    /\ client' = [client EXCEPT ![c] =
                    [Out EXCEPT !.pc = "start", !.cmd = "login", !.n = n, !.passkey = passkey]]
    /\ UNCHANGED <<now, reg, tableVars, worker, kit, faults>>

\* What login/finish is sent.
Proof(r) ==
    IF r.passkey THEN {Credential(r.n)}
    ELSE DeriveAuthVerifier(reg[r.n].password, Random(r.n).secretKey, Kdf(r), r.id)

FirstStep(r) ==
    CASE r.pc = "begin" -> "store"
      [] r.pc = "register" -> IF r.passkey THEN "consume" ELSE "insert"
      [] r.pc \in {"start", "finish"} -> "material"
      [] OTHER -> "lookup"

\* A goroutine takes the request.
Call(c, w) ==
    LET r == client[c]
    IN  /\ r.pc \in Calls /\ r.worker = NoWorker
        /\ worker[w].op = "idle"
        /\ worker' = [worker EXCEPT ![w] =
                        [op |-> r.pc, step |-> FirstStep(r), n |-> r.n,
                         proof |-> IF r.pc = "finish" THEN Proof(r) ELSE {},
                         handle |-> IF r.passkey THEN r.handle ELSE 0,
                         token |-> r.token, found |-> 0]]
        /\ client' = [client EXCEPT ![c].worker = w]
        /\ UNCHANGED <<now, reg, tableVars, kit, faults>>

\* DELETE /account, which the desktop does not call.
RequestDelete(c) ==
    /\ client[c].pc = "open"
    /\ client' = [client EXCEPT ![c].pc = "delete"]
    /\ UNCHANGED <<now, reg, tableVars, worker, kit, faults>>

\* The token is dropped and the session row stays.
Lock(c) ==
    /\ client[c].pc = "open"
    /\ client' = [client EXCEPT ![c] = Out]
    /\ UNCHANGED <<now, reg, tableVars, worker, kit, faults>>

\* A connection fails under a handler: the command fails, or a client of
\* another kind sends the same request again.
Disconnect(c) ==
    /\ client[c].worker # NoWorker
    /\ faults < MaxFaults
    /\ faults' = faults + 1
    /\ \/ client' = [client EXCEPT ![c] = Out]
       \/ client[c].passkey /\ client' = [client EXCEPT ![c].worker = NoWorker]
    /\ UNCHANGED <<now, reg, tableVars, worker, kit>>

----------------------------------------------------------------------------
(* The handlers *)

At(w, step) == worker[w].step = step
Goto(w, step, found) ==
    /\ worker' = [worker EXCEPT ![w].step = step, ![w].found = found]
    /\ UNCHANGED <<now, reg, client, kit, faults>>

\* The account that login_material finds for the e-mail of the request.
Found(w) == LET found == AccountsOf(reg[worker[w].n].email)
            IN  IF found = {} THEN 0 ELSE CHOOSE n \in found : TRUE

\* register/finish: verifyAttestation, for a request with an attestation.
ConsumeForRegister(w) ==
    /\ worker[w].op = "register" /\ At(w, "consume")
    /\ ConsumeChallenge(worker[w].handle)
    /\ IF FreshChallenge(worker[w].handle) = {} THEN Answer(w, {}) ELSE Goto(w, "insert", 0)
    /\ UNCHANGED <<account, session, handles, tokens>>

InsertAccount(w) ==
    /\ At(w, "insert")
    /\ RegisterAccount(worker[w].n)
    /\ Answer(w, {worker[w].n})
    /\ UNCHANGED <<session, challenge, handles, tokens>>

\* register/start: the user handle of the new credential is drawn here.
StoreForRegister(w) ==
    /\ worker[w].op = "begin" /\ At(w, "store")
    /\ StoreChallenge(User(worker[w].n))
    /\ Answer(w, {handles'})
    /\ UNCHANGED <<account, session, tokens>>

\* login/start, with what login_material has found.
LoginStart(w) ==
    /\ worker[w].op = "start" /\ At(w, "material")
    /\ Goto(w, "store", Found(w))
    /\ UNCHANGED tableVars

StoreForLogin(w) ==
    LET email == reg[worker[w].n].email
    IN  /\ worker[w].op = "start" /\ At(w, "store")
        /\ StoreChallenge(LoginUser(email, worker[w].found))
        /\ Answer(w, {LoginAnswer(email, worker[w].found)})
        /\ UNCHANGED <<account, session, tokens>>

\* Mutant: the verifier that is presented is not compared.
VerifierMatchesAny(w, found) == found # 0

\* The verifier derived from the e-mail for an unknown one matches nothing.
VerifierMatches(w, found) ==
    found # 0 /\ worker[w].proof = {Bundle(found).authVerifier}

\* login/finish up to authenticate: a passkey assertion is checked later.
LoginFinish(w) ==
    LET found == Found(w)
    IN  /\ worker[w].op = "finish" /\ At(w, "material")
        /\ IF worker[w].handle # 0 THEN Goto(w, "consume", found)
           ELSE IF VerifierMatches(w, found) THEN Goto(w, "issue", found)
           ELSE Answer(w, {})
        /\ UNCHANGED tableVars

\* ValidateLogin: the challenge is for the user of the account that was read,
\* and the assertion is made with one of its credentials.
AssertionValid(w) ==
    LET found == worker[w].found
    IN  /\ found # 0
        /\ HasPasskey(found)
        /\ worker[w].proof = {Credential(found)}
        /\ \E c \in FreshChallenge(worker[w].handle) :
             c.user = LoginUser(reg[worker[w].n].email, found)

\* verifyAssertion consumes the challenge before it looks at the assertion.
VerifyAssertion(w) ==
    /\ worker[w].op = "finish" /\ At(w, "consume")
    /\ ConsumeChallenge(worker[w].handle)
    /\ IF AssertionValid(w) THEN Goto(w, "issue", worker[w].found) ELSE Answer(w, {})
    /\ UNCHANGED <<account, session, handles, tokens>>

\* Mutant: the account is looked up by the e-mail again.
SessionOwnerByEmail(w) == Found(w)

\* The account that authenticate returned.
SessionOwner(w) == worker[w].found

\* session_create: the foreign key refuses an account that is gone.
IssueSession(w) ==
    /\ worker[w].op = "finish" /\ At(w, "issue")
    /\ IF SessionOwner(w) \in account
       THEN /\ tokens < MaxTokens
            /\ tokens' = tokens + 1
            /\ session' = session \cup
                 {[token |-> tokens', account |-> SessionOwner(w), expires |-> now + SessionTTL,
                   handle |-> worker[w].handle, proof |-> worker[w].proof]}
            /\ Answer(w, {tokens'})
       ELSE Answer(w, {}) /\ UNCHANGED <<session, tokens>>
    /\ UNCHANGED <<account, challenge, handles>>

\* The middleware: the account of the session is all the handler is told.
Authenticate(w) ==
    /\ At(w, "lookup")
    /\ \/ LiveSessions(worker[w].token) = {} /\ Answer(w, {})
       \/ \E s \in LiveSessions(worker[w].token) : Goto(w, "work", s.account)
    /\ UNCHANGED tableVars

\* GET /envelopes and /vault: rows of an account that still exists.
Read(w) ==
    /\ At(w, "work") /\ worker[w].op # "delete"
    /\ Answer(w, {worker[w].found} \cap account)
    /\ UNCHANGED tableVars

Delete(w) ==
    /\ At(w, "work") /\ worker[w].op = "delete"
    /\ DeleteAccount(worker[w].found)
    /\ Answer(w, {worker[w].found} \cap account)
    /\ UNCHANGED <<challenge, handles, tokens>>

\* A transaction fails; once the connection is gone, so does every other.
Fail(w) ==
    /\ worker[w].op # "idle"
    /\ \/ (\A c \in Client : ~Waits(c, w)) /\ UNCHANGED faults
       \/ faults < MaxFaults /\ faults' = faults + 1
    /\ End(w, {})
    /\ UNCHANGED tableVars

Tick ==
    /\ now < MaxTime
    /\ now' = now + 1
    /\ UNCHANGED <<reg, tableVars, worker, client, kit, faults>>

Next ==
    \/ \E c \in Client :
         \/ \E e \in Email, p \in Password, b \in BOOLEAN : StartRegister(c, e, p, b)
         \/ \E n \in DOMAIN reg, b \in BOOLEAN : StartLogin(c, n, b)
         \/ \E w \in Worker : Call(c, w)
         \/ RequestDelete(c)
         \/ Lock(c)
         \/ Disconnect(c)
    \/ \E w \in Worker :
         \/ ConsumeForRegister(w) \/ InsertAccount(w) \/ StoreForRegister(w)
         \/ LoginStart(w) \/ StoreForLogin(w)
         \/ LoginFinish(w) \/ VerifyAssertion(w) \/ IssueSession(w)
         \/ Authenticate(w) \/ Read(w) \/ Delete(w) \/ Fail(w)
    \/ Tick

Spec == Init /\ [][Next]_vars

----------------------------------------------------------------------------
(* Properties *)

\* A session belongs to an account that exists, whatever is deleted between
\* the login's transactions (service.go:156, the foreign key of session).
NoOrphanSession == \A s \in session : s.account \in account

\* Of any registrations under one e-mail, one account is stored (the unique
\* columns behind register_account).
OneAccountPerEmail == \A n, m \in account : reg[n].email = reg[m].email => n = m

\* Of the requests that present one challenge, one at most gets a session,
\* repeated and concurrent ones included (service.go:230, a DELETE RETURNING).
ChallengeUsedOnce ==
    \A s, t \in session : s.handle # 0 /\ s.handle = t.handle => s = t

\* A session is for the account whose verifier or credential was presented,
\* though the account under the e-mail may change during the login.
SessionForProvenAccount ==
    [][\A s \in session' \ session :
         s.proof \in {{Bundle(s.account).authVerifier}, {Credential(s.account)}}]_vars

\* An open vault holds the key and the account of one registration: after a
\* register whose e-mail was taken (201 all the same), no key of this user
\* ever meets the token of another account.
OpenHoldsOwnVault ==
    \A c \in Client : client[c].pc \in OpenState =>
        /\ client[c].vk = {Random(client[c].n).vk}
        /\ \A s \in session : s.token = client[c].token => s.account = client[c].n

OpensForOwner(n) ==
    LET a == LoginAnswer(reg[n].email, n)
        own == [n |-> n, passkey |-> FALSE, id |-> a.id, salt |-> a.salt]
        b == Bundle(n)
        next == [vaultId |-> b.vaultId, version |-> 2, items |-> {}]
    IN  /\ Proof(own) = {b.authVerifier}
        /\ VaultVerified(b)
        /\ \E vk \in VaultKey(own, b) :
             \E signed \in SignManifest(vk, b.wrappedSigningKey, b.vaultId, next) :
                VerifyManifest(b.signingPubkey, signed, b.vaultId, 1) = {next}

\* What is stored opens for its owner: with the costs of today and the id and
\* salt that login/start gives out, the verifier is the stored one, the
\* envelope opens and the manifest can be signed again (commands.rs:160-190).
OwnerCanLogIn == [][\A n \in account' \ account : OpensForOwner(n)]_vars

OpensOnlyWithKeysOf(n, m) ==
    LET b == Bundle(m)
        vk == IF n = m THEN {Random(m).vk} ELSE {}
        added == EnablePasskeyUnlock(Random(m).vk, Prf(m), AccountId(m))
        device == EnableBiometricUnlock(Random(m).vk, <<"device", m>>, AccountId(m))
        item == EncryptItem(Random(m).vk, b.vaultId, "i", "content", <<"cek", m>>)
        request == <<"request", n>>
    IN  /\ UnlockWithPassword(reg[n].password, Random(n).secretKey,
                              b.passwordEnvelope, b.kdf, AccountId(m)) = vk
        /\ RecoverUnlock(Random(n).secretKey, b.recoveryEnvelope, AccountId(m)) = vk
        /\ RecoverUnlock(Random(m).secretKey, b.recoveryEnvelope, AccountId(n)) = vk
        /\ UnlockWithPasskey(Prf(n), added, AccountId(m)) = vk
        /\ UnlockWithDeviceKey(<<"device", n>>, device, AccountId(m)) = vk
        /\ UnlockWithPasskey(Prf(m), device, AccountId(m)) = {}
        /\ UnwrapSigningKey(Random(n).vk, b.wrappedSigningKey, b.vaultId)
             = (IF n = m THEN {Random(m).signingSeed} ELSE {})
        /\ DecryptItem(Random(n).vk, b.vaultId, "i", item)
             = (IF n = m THEN {"content"} ELSE {})
        /\ DecryptItem(Random(m).vk, b.vaultId, "j", item) = {}
        /\ RecoveryVerifyRequest(b.recoveryPubkey, request,
                RecoverySignRequest(Random(n).secretKey, request)) = (n = m)

\* Neither the password of n with another Secret Key nor another account's
\* row opens an envelope, a wrapped signing key or an item, and no item opens
\* under another's id; the owner's paths all do, and those of a passkey or a
\* device added later (envelope/mod.rs:128).
EnvelopesOpenOnlyForOwner ==
    [][reg' # reg => (\A n, m \in DOMAIN reg : OpensOnlyWithKeysOf(n, m))']_vars

\* A Secret Key that register shows opens an account that is stored, though
\* register/finish answers 201 for a taken e-mail too.
ShownKeyIsStored == [][\A n \in kit' \ kit : n \in account']_vars

\* An account disappears only in a delete that a client sent which uses that
\* registration, with a token earned with its verifier or credential, and whose
\* Secret Key was shown or passkey enrolled: a request that waited while its
\* account was deleted and the e-mail registered again takes nothing of the new
\* account.
DeletedByHolder ==
    [][\A n \in account \ account' : \E w \in Worker :
         /\ worker[w].op = "delete" /\ worker'[w].op = "idle"
         /\ worker[w].n = n
         /\ n \in kit \/ HasPasskey(n)
         /\ \A s \in session : s.token = worker[w].token =>
              /\ s.account = n
              /\ s.proof \in {{Bundle(n).authVerifier}, {Credential(n)}}]_vars
=============================================================================
