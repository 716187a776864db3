----------------------------- MODULE AccountKeys -----------------------------
(***************************************************************************)
(* The keys of one account (crypto-core/src: keys, envelope, account,      *)
(* recovery, vault), as terms.  A derived key is the tuple of its HKDF     *)
(* label and of what it is derived from, a ciphertext a record of the key, *)
(* the authenticated data and the plaintext, a signature a pair of the     *)
(* public key and the message; nonces, headers and lengths are left out.   *)
(* A CoreResult is a set: {value} for Ok, {} for Err.                      *)
(*                                                                         *)
(* The primitives (Argon2id, HKDF, XChaCha20-Poly1305, Ed25519) are those  *)
(* of libraries and are taken to be ideal: distinct inputs give distinct   *)
(* keys, and only the right key and authenticated data open a ciphertext.  *)
(***************************************************************************)
EXTENDS Naturals

\* The costs of Argon2id in units of the v1 reference: what matters of
\* within_suite_v1_window is below, at or above the permanent minimum, and
\* whether the ceiling is passed.
ArgonV1 == 1
ArgonCeiling == 3
KdfV1(salt) == <<"argon2id", ArgonV1, salt>>
NoKdf == <<>>   \* EMPTY_KDF_PARAMS_CBOR

DecodeKdf(kdf) == IF kdf[2] \in ArgonV1 .. ArgonCeiling THEN {kdf} ELSE {}

----------------------------------------------------------------------------
(* Derivations *)

\* Mutant: the password alone is stretched.
StretchPasswordOnly(password, secretKey, kdf) == <<"2skd", password, <<>>, kdf>>

Stretch(password, secretKey, kdf) == <<"2skd", password, secretKey, kdf>>

PkFromStretched(root) == <<"pk/wrap", root>>
AvFromStretched(root, account) == <<"auth/verifier", root, account>>

PrfWrapKey(prf) == <<"prf/wrap", prf>>
RkWrapKey(secretKey) == <<"rk/wrap", secretKey>>
DkWrapKey(deviceKey) == <<"dk/wrap", deviceKey>>
RkAuthSeed(secretKey) == <<"rk/auth", secretKey>>

----------------------------------------------------------------------------
(* Ciphertexts and signatures *)

Encrypt(key, aad, plaintext) == [key |-> key, aad |-> aad, plaintext |-> plaintext]

Decrypt(key, aad, sealed) ==
    IF sealed.key = key /\ sealed.aad = aad THEN {sealed.plaintext} ELSE {}

PublicKey(seed) == <<"ed25519", seed>>
Sign(seed, message) == <<PublicKey(seed), message>>
Verifies(pubkey, message, signature) == signature = <<pubkey, message>>

----------------------------------------------------------------------------
(* Envelopes of the vault key *)

EnvelopeAad(account, type, kdf) == <<"envelope", account, type, kdf>>

Wrap(key, vk, account, type, kdf) ==
    [type |-> type, body |-> Encrypt(key, EnvelopeAad(account, type, kdf), vk)]

\* The type byte is compared before anything is decrypted.
Unwrap(key, envelope, account, type, kdf) ==
    IF envelope.type = type
    THEN Decrypt(key, EnvelopeAad(account, type, kdf), envelope.body)
    ELSE {}

UnlockWithPassword(password, secretKey, envelope, kdf, account) ==
    UNION {Unwrap(PkFromStretched(Stretch(password, secretKey, k)),
                  envelope, account, "password", k) : k \in DecodeKdf(kdf)}

DeriveAuthVerifier(password, secretKey, kdf, account) ==
    {AvFromStretched(Stretch(password, secretKey, k), account) : k \in DecodeKdf(kdf)}

UnlockWithPasskey(prf, envelope, account) ==
    Unwrap(PrfWrapKey(prf), envelope, account, "passkey", NoKdf)
EnablePasskeyUnlock(vk, prf, account) ==
    Wrap(PrfWrapKey(prf), vk, account, "passkey", NoKdf)

UnlockWithDeviceKey(deviceKey, envelope, account) ==
    Unwrap(DkWrapKey(deviceKey), envelope, account, "biometric", NoKdf)
EnableBiometricUnlock(vk, deviceKey, account) ==
    Wrap(DkWrapKey(deviceKey), vk, account, "biometric", NoKdf)

RecoverUnlock(secretKey, envelope, account) ==
    Unwrap(RkWrapKey(secretKey), envelope, account, "recovery", NoKdf)

RecoverySignRequest(secretKey, request) ==
    Sign(RkAuthSeed(secretKey), <<"recovery-request", request>>)
RecoveryVerifyRequest(pubkey, request, signature) ==
    Verifies(pubkey, <<"recovery-request", request>>, signature)

----------------------------------------------------------------------------
(* The vault: the signing key, the manifest and the items *)

SigningKeyAad(vaultId) == <<"signing-key", vaultId>>
WrapSigningKey(vk, seed, vaultId) == Encrypt(vk, SigningKeyAad(vaultId), seed)
UnwrapSigningKey(vk, wrapped, vaultId) == Decrypt(vk, SigningKeyAad(vaultId), wrapped)

\* encode_canonical sorts the entries: they are a set here.
SignContent(seed, content) ==
    [content |-> content, signature |-> Sign(seed, <<"manifest", content>>)]

SignManifest(vk, wrapped, vaultId, content) ==
    {SignContent(seed, content) : seed \in UnwrapSigningKey(vk, wrapped, vaultId)}

VerifyManifest(pubkey, signed, vaultId, minVersion) ==
    IF /\ Verifies(pubkey, <<"manifest", signed.content>>, signed.signature)
       /\ signed.content.vaultId = vaultId
       /\ signed.content.version >= minVersion
    THEN {signed.content}
    ELSE {}

ItemAad(label, vaultId, itemId) == <<label, vaultId, itemId>>

EncryptItem(vk, vaultId, itemId, content, cek) ==
    [ciphertext |-> Encrypt(cek, ItemAad("item", vaultId, itemId), content),
     wrappedCek |-> Encrypt(vk, ItemAad("cek", vaultId, itemId), cek)]

DecryptItem(vk, vaultId, itemId, sealed) ==
    UNION {Decrypt(cek, ItemAad("item", vaultId, itemId), sealed.ciphertext) :
             cek \in Decrypt(vk, ItemAad("cek", vaultId, itemId), sealed.wrappedCek)}

----------------------------------------------------------------------------
(* Registration.  rnd holds what register draws from the CSPRNG; prf is    *)
(* the set of PRF outputs of the passkeys registered with the account.     *)

RegisterWith(password, prf, account, rnd) ==
    LET kdf == KdfV1(rnd.salt)
        root == Stretch(password, rnd.secretKey, kdf)
        empty == [vaultId |-> rnd.vaultId, version |-> 1, items |-> {}]
    IN  [vaultId |-> rnd.vaultId,
         kdf |-> kdf,
         passwordEnvelope |-> Wrap(PkFromStretched(root), rnd.vk, account, "password", kdf),
         passkeyEnvelope |-> {Wrap(PrfWrapKey(p), rnd.vk, account, "passkey", NoKdf) : p \in prf},
         recoveryEnvelope |-> Wrap(RkWrapKey(rnd.secretKey), rnd.vk, account, "recovery", NoKdf),
         recoveryPubkey |-> PublicKey(RkAuthSeed(rnd.secretKey)),
         authVerifier |-> AvFromStretched(root, account),
         signingPubkey |-> PublicKey(rnd.signingSeed),
         wrappedSigningKey |-> WrapSigningKey(rnd.vk, rnd.signingSeed, rnd.vaultId),
         signedManifest |-> SignContent(rnd.signingSeed, empty)]
=============================================================================
