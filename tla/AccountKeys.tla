------------------------------ MODULE AccountKeys ------------------------------
(***************************************************************************)
(* The master key (MK) of one account and everything that wraps it.        *)
(*                                                                         *)
(* The server stores the MK wrapped under the password, under each         *)
(* recovery code and under a passkey, and the identity secrets encrypted   *)
(* with the MK.  Clients unwrap the MK in one place and upload it again    *)
(* wrapped for another: password change, new recovery codes, recovery by   *)
(* code (flow A), by passkey (flow B), through a logged-in device          *)
(* (flow C).  Flow D replaces the MK and the secrets.  Each of them reads  *)
(* the database, hashes or compares a password, and then writes; the       *)
(* client's part lies before that.  Sources: server/src/services/          *)
(* auth.service.ts, reset.service.ts, webauthn.service.ts, client/src/lib/ *)
(* crypto/accountKeys.ts, client/src/lib/webauthn.ts, and the pages that   *)
(* call them.                                                              *)
(*                                                                         *)
(* Master keys and passwords are numbered in the order they are set.       *)
(* "Bug:" marks mistaken versions of the definitions that follow them.     *)
(***************************************************************************)
EXTENDS Naturals

CONSTANTS
  Calls,        \* slots for calls in flight
  Tokens,       \* one-time tokens the server hands out (Redis)
  Codes,        \* RecoveryCode rows that may ever exist
  Devices,      \* devices that keep the MK in their keystore
  NoToken,      \* a call that came without a token
  NoCode,       \* a token that names no recovery code
  MaxPassword,  \* bound on password changes
  MaxKey        \* bound on master keys

ASSUME NullAssumption  == NoToken \notin Tokens /\ NoCode \notin Codes
ASSUME BoundAssumption == MaxPassword \in Nat \ {0} /\ MaxKey \in Nat \ {0}

VARIABLES
  user,      \* the User row: password, and MKs inside the two ciphertexts
  code,      \* RecoveryCode rows
  passkey,   \* the WebAuthnCredential row
  token,     \* Redis recover:* and reset_lost:* keys
  device,    \* the MK a device has in its keystore, 0 for none
  call,      \* the calls in flight
  tokenUses, \* committed resets per token (for the properties)
  codeUses,  \* committed resets per recovery code (for the properties)
  mixed,     \* an MK was stored that did not open the secrets (same)
  bare       \* the password's hash was stored without a wrap (same)

vars == <<user, code, passkey, token, device, call, tokenUses, codeUses, mixed, bare>>
ghosts == <<tokenUses, codeUses, mixed, bare>>

Keys      == 1..MaxKey
Passwords == 1..MaxPassword

(* password: the one passwordHash is of.  wrapped: the MK in               *)
(* mkPasswordWrapped, under the KEK of the password kek.                   *)
(* secrets: the MK that opens encryptedPrivateKeys.  A wrap can hold 0,    *)
(* the MK of a buffer that was zeroed; a token has the MK its client holds.*)
User    == [password : Passwords, kek : Passwords, wrapped : 0..MaxKey,
            secrets : Keys]
NoRow   == [state |-> "none", mk |-> 0]
Code    == {NoRow} \union [state : {"unused", "used", "deleted"}, mk : 0..MaxKey]
Passkey == {NoRow} \union [state : {"plain"}, mk : {0}]
                  \union [state : {"prf"}, mk : Keys]
Token   == [state : {"none", "live", "redeemed"},
            flow  : {"code", "passkey", "lost"},
            code  : Codes \union {NoCode},
            mk    : 0..MaxKey]

(* proves: the password whose loginKey the client sends along.             *)
Call == [op : {"idle", "change", "codes", "recover", "handshake", "lost"},
         pc : {"start", "fetched", "write"},
         mk : 0..MaxKey,
         proves : 0..MaxPassword,
         token  : Tokens \union {NoToken},
         code   : Codes \union {NoCode}]

Idle == [op |-> "idle", pc |-> "start", mk |-> 0, proves |-> 0,
         token |-> NoToken, code |-> NoCode]

TypeOK ==
  /\ user \in User
  /\ code \in [Codes -> Code]
  /\ passkey \in Passkey
  /\ token \in [Tokens -> Token]
  /\ device \in [Devices -> 0..MaxKey]
  /\ call \in [Calls -> Call]
  /\ tokenUses \in [Tokens -> Nat]
  /\ codeUses \in [Codes -> Nat]
  /\ mixed \in BOOLEAN
  /\ bare \in BOOLEAN

(* Row sets of recovery codes: new ones, and all old ones deleted.         *)
FreshCodes == {C \in SUBSET {c \in Codes : code[c].state = "none"} : C # {}}

ReplaceCodes(C, mk) ==
  [c \in Codes |-> IF c \in C THEN [state |-> "unused", mk |-> mk]
                   ELSE IF code[c].state = "none" THEN code[c]
                   ELSE [code[c] EXCEPT !.state = "deleted"]]

(* A new password, and mk wrapped under its KEK, in one update.            *)
StorePassword(mk) ==
  /\ user.password < MaxPassword
  /\ user' = [user EXCEPT !.password = @ + 1, !.kek = user.password + 1,
                          !.wrapped = mk]
  /\ bare' = FALSE

(* What an upload of mk means for the agreement of the wraps.              *)
NoteUpload(mk) == mixed' = (mixed \/ mk # user.secrets)

Begin(k, q) == call[k] = Idle /\ call' = [call EXCEPT ![k] = q]
Finish(k)   == call' = [call EXCEPT ![k] = Idle]
At(k, op)   == call[k].op = op /\ call[k].pc = "write"

(* Registration: everything wraps the first MK, in one transaction.        *)
Init ==
  /\ user = [password |-> 1, kek |-> 1, wrapped |-> 1, secrets |-> 1]
  /\ \E C \in SUBSET Codes \ {{}} :
       code = [c \in Codes |-> IF c \in C THEN [state |-> "unused", mk |-> 1]
                                          ELSE NoRow]
  /\ passkey = NoRow
  /\ token = [t \in Tokens |-> [state |-> "none", flow |-> "code",
                                code |-> NoCode, mk |-> 0]]
  /\ device \in [Devices -> {0, 1}]
  /\ call = [k \in Calls |-> Idle]
  /\ tokenUses = [t \in Tokens |-> 0]
  /\ codeUses = [c \in Codes |-> 0]
  /\ mixed = FALSE
  /\ bare = FALSE

(***************************************************************************)
(* Login with the password or a PRF passkey: the MK is unwrapped, the      *)
(* secrets decrypted with it, and the MK kept; a client that cannot        *)
(* decrypt them gives up.                                                  *)
(***************************************************************************)
PasswordOpens == user.kek = user.password /\ user.wrapped = user.secrets

Login(d) ==
  /\ PasswordOpens \/ passkey.mk = user.secrets
  /\ device' = [device EXCEPT ![d] = user.secrets]
  /\ UNCHANGED <<user, code, passkey, token, call, ghosts>>

(***************************************************************************)
(* Password change and new recovery codes, from the settings page.         *)
(***************************************************************************)

(* GET /auth/keys/master, opened with the password it is wrapped under,    *)
(* which the server will be asked to accept.                               *)
FetchKeys(k, op) ==
  /\ op \in {"change", "codes"}
  /\ Begin(k, [op |-> op, pc |-> "fetched", mk |-> user.wrapped,
               proves |-> user.kek, token |-> NoToken, code |-> NoCode])
  /\ UNCHANGED <<user, code, passkey, token, device, ghosts>>

(* The server reads the row and compares; hashing the new password takes   *)
(* its time.                                                               *)
CheckPassword(k) ==
  /\ call[k].pc = "fetched"
  /\ IF call[k].proves = user.password
       THEN call' = [call EXCEPT ![k].pc = "write"]
       ELSE Finish(k)
  /\ UNCHANGED <<user, code, passkey, token, device, ghosts>>

ChangeWrite(k) ==
  /\ At(k, "change")
  /\ StorePassword(call[k].mk)
  /\ NoteUpload(call[k].mk)
  /\ Finish(k)
  /\ UNCHANGED <<code, passkey, token, device, tokenUses, codeUses>>

(* PUT /users/password and an admin's reset-password store the hash of a   *)
(* password and nothing else.  The first compares the current password     *)
(* with a row it read before, the second nothing: either can come any time.*)
StoreHash ==
  /\ user.password < MaxPassword
  /\ user' = [user EXCEPT !.password = @ + 1]
  /\ bare' = TRUE
  /\ UNCHANGED <<code, passkey, token, device, call, tokenUses, codeUses, mixed>>

RegenerateWrite(k, C) ==
  /\ At(k, "codes")
  /\ C \in FreshCodes
  /\ code' = ReplaceCodes(C, call[k].mk)
  /\ NoteUpload(call[k].mk)
  /\ Finish(k)
  /\ UNCHANGED <<user, passkey, token, device, tokenUses, codeUses, bare>>

(***************************************************************************)
(* Flows A and B: recover/verify, recover/complete.                        *)
(***************************************************************************)
Issue(t, flow, c, mk) ==
  /\ token[t].state = "none"
  /\ token' = [token EXCEPT ![t] =
                 [state |-> "live", flow |-> flow, code |-> c, mk |-> mk]]
  /\ UNCHANGED <<user, code, passkey, device, call, ghosts>>

RecoverVerify(t, c) == code[c].state = "unused" /\ Issue(t, "code", c, code[c].mk)

PasskeyVerify(t) == passkey.state = "prf" /\ Issue(t, "passkey", NoCode, passkey.mk)

(* Bug: GET instead of GETDEL.                                             *)
StaysLive(t) == token

Consumed(t) == [token EXCEPT ![t].state = "redeemed"]

(* GETDEL of the token a client brings, once or again.                     *)
Redeem(k, t, op) ==
  /\ token[t].state = "live"
  /\ (op = "lost") = (token[t].flow = "lost")
  /\ token' = Consumed(t)
  /\ Begin(k, [op |-> op, pc |-> "write", mk |-> token[t].mk, proves |-> 0,
               token |-> t, code |-> token[t].code])
  /\ UNCHANGED <<user, code, passkey, device, ghosts>>

(* The page of flow B zeroes its MK before it sends the complete request.  *)
(* If that one is lost on the way or turned away by the rate limiter, the  *)
(* user tries again with the same token and what is left of the MK.        *)
LoseComplete(t) ==
  /\ token[t].state = "live" /\ token[t].flow = "passkey"
  /\ token' = [token EXCEPT ![t].mk = 0]
  /\ UNCHANGED <<user, code, passkey, device, call, ghosts>>

Expire(t) ==
  /\ token[t].state = "live"
  /\ token' = Consumed(t)
  /\ UNCHANGED <<user, code, passkey, device, call, ghosts>>

(* updateMany where usedAt is null found the row, or there is no code.     *)
CodeAccepted(c) == c # NoCode => code[c].state = "unused"

Count(f, x) == IF x \in DOMAIN f THEN [f EXCEPT ![x] = @ + 1] ELSE f

RecoverCommit(k) ==
  LET c == call[k].code IN
  /\ At(k, "recover")
  /\ CodeAccepted(c)
  /\ StorePassword(call[k].mk)
  /\ code' = IF c = NoCode THEN code ELSE [code EXCEPT ![c].state = "used"]
  /\ tokenUses' = Count(tokenUses, call[k].token)
  /\ codeUses' = Count(codeUses, c)
  /\ IF c = NoCode THEN NoteUpload(call[k].mk) ELSE UNCHANGED mixed
  /\ Finish(k)
  /\ UNCHANGED <<passkey, token, device>>

RecoverAbort(k) ==
  /\ At(k, "recover")
  /\ ~CodeAccepted(call[k].code)
  /\ Finish(k)
  /\ UNCHANGED <<user, code, passkey, token, device, ghosts>>

(***************************************************************************)
(* Passkeys: registration, deferred PRF upload, removal.                   *)
(***************************************************************************)

(* A device wraps the MK of its keystore if the authenticator has PRF.     *)
RegisterPasskey(d, prf) ==
  /\ passkey.state = "none"
  /\ device[d] # 0
  /\ passkey' = IF prf THEN [state |-> "prf", mk |-> device[d]]
                       ELSE [state |-> "plain", mk |-> 0]
  /\ IF prf THEN NoteUpload(device[d]) ELSE UNCHANGED mixed
  /\ UNCHANGED <<user, code, token, device, call, tokenUses, codeUses, bare>>

SetCredentialPrf(d) ==
  /\ passkey.state # "none"
  /\ device[d] # 0
  /\ passkey' = [state |-> "prf", mk |-> device[d]]
  /\ NoteUpload(device[d])
  /\ UNCHANGED <<user, code, token, device, call, tokenUses, codeUses, bare>>

DeletePasskey ==
  /\ passkey.state # "none"
  /\ passkey' = NoRow
  /\ UNCHANGED <<user, code, token, device, call, ghosts>>

(***************************************************************************)
(* Flow C: a logged-in device seals the MK of its keystore to the waiting  *)
(* one, which wraps it under a new password.  The handshake itself is not  *)
(* followed here.                                                          *)
(***************************************************************************)
Approve(k, d) ==
  /\ device[d] # 0
  /\ Begin(k, [op |-> "handshake", pc |-> "write", mk |-> device[d], proves |-> 0,
               token |-> NoToken, code |-> NoCode])
  /\ UNCHANGED <<user, code, passkey, token, device, ghosts>>

HandshakeWrite(k) ==
  /\ At(k, "handshake")
  /\ StorePassword(call[k].mk)
  /\ NoteUpload(call[k].mk)
  /\ Finish(k)
  /\ UNCHANGED <<code, passkey, token, device, tokenUses, codeUses>>

(***************************************************************************)
(* Flow D: authorizeReset by an admin, then completeLost.                  *)
(***************************************************************************)
AuthorizeReset(t) == Issue(t, "lost", NoCode, 0)

(* Bug: the passkey keeps its wrap.                                        *)
KeepPasskey == passkey

(* updateMany wrappedMk: null, prfSupported: false.                        *)
WipePasskey == [passkey EXCEPT !.state = IF @ = "none" THEN "none" ELSE "plain",
                               !.mk = 0]

(* One transaction.  The client generated a new MK, new secrets and codes. *)
LostWrite(k, C) ==
  /\ At(k, "lost")
  /\ C \in FreshCodes
  /\ user.password < MaxPassword /\ user.secrets < MaxKey
  /\ user' = [password |-> user.password + 1, kek |-> user.password + 1,
              wrapped |-> user.secrets + 1, secrets |-> user.secrets + 1]
  /\ code' = ReplaceCodes(C, user.secrets + 1)
  /\ passkey' = WipePasskey
  /\ tokenUses' = Count(tokenUses, call[k].token)
  /\ mixed' = FALSE /\ bare' = FALSE
  /\ Finish(k)
  /\ UNCHANGED <<token, device, codeUses>>

(* The client gives up, the process stops or the database fails before the *)
(* write: what was consumed stays consumed.                                *)
Drop(k) ==
  /\ call[k] # Idle
  /\ Finish(k)
  /\ UNCHANGED <<user, code, passkey, token, device, ghosts>>

Next ==
  \/ \E k \in Calls :
       \/ Drop(k)
       \/ \E op \in {"change", "codes"} : FetchKeys(k, op)
       \/ CheckPassword(k)
       \/ ChangeWrite(k)
       \/ \E C \in SUBSET Codes : RegenerateWrite(k, C) \/ LostWrite(k, C)
       \/ \E t \in Tokens, op \in {"recover", "lost"} : Redeem(k, t, op)
       \/ RecoverCommit(k)
       \/ RecoverAbort(k)
       \/ \E d \in Devices : Approve(k, d)
       \/ HandshakeWrite(k)
  \/ \E t \in Tokens : \/ \E c \in Codes : RecoverVerify(t, c)
                       \/ PasskeyVerify(t)
                       \/ AuthorizeReset(t)
                       \/ LoseComplete(t)
                       \/ Expire(t)
  \/ \E d \in Devices : \/ Login(d)
                        \/ \E prf \in BOOLEAN : RegisterPasskey(d, prf)
                        \/ SetCredentialPrf(d)
  \/ DeletePasskey
  \/ StoreHash

Spec == Init /\ [][Next]_vars

-------------------------------------------------------------------------------
(* A one-time token and a recovery code each authorize one reset of the    *)
(* password, however often a client verifies the same code, repeats its    *)
(* complete request, or races it against new codes.                        *)
ResetsHappenOnce ==
  /\ \A t \in Tokens : tokenUses[t] <= 1
  /\ \A c \in Codes : codeUses[c] <= 1

(* The password's wrap, every unused code and a PRF passkey hold the very  *)
(* MK that opens the identity secrets, through any number of flow-D resets *)
(* and with flow-A recoveries in flight across them, as long as no other   *)
(* upload since the last reset carried a different MK; and the password    *)
(* the server accepts opens its wrap, unless its hash was stored alone.    *)
WrapsOpenIdentity ==
  /\ bare \/ user.kek = user.password
  /\ ~mixed =>
    /\ user.wrapped = user.secrets
    /\ \A c \in Codes : code[c].state = "unused" => code[c].mk = user.secrets
    /\ passkey.state = "prf" => passkey.mk = user.secrets

(* docs/ENCRYPTION.md:34-38 has one MK per user, wrapped by the KEK and    *)
(* encrypting the private keys, and accountKeys.ts:215-217 says that       *)
(* rewrapping never changes it: what the password's wrap holds opens the   *)
(* identity.                                                               *)
PasswordOpensIdentity == user.wrapped = user.secrets

-------------------------------------------------------------------------------
(***************************************************************************)
(* The inductive invariant behind ResetsHappenOnce.                        *)
(***************************************************************************)

(* A token is used by the call that redeemed it, and by no other.          *)
TokensAreSpent ==
  /\ \A t \in Tokens : token[t].state \in {"none", "live"} => tokenUses[t] = 0
  /\ \A k \in Calls : call[k].token \in Tokens =>
       /\ token[call[k].token].state = "redeemed"
       /\ tokenUses[call[k].token] = 0
       /\ \A q \in Calls : call[q].token = call[k].token => q = k

(* A code that counts has never been counted.                              *)
CodesAreSpent ==
  \A c \in Codes : code[c].state \in {"none", "unused"} => codeUses[c] = 0

IInv == TypeOK /\ TokensAreSpent /\ CodesAreSpent /\ ResetsHappenOnce

(* Behind WrapsOpenIdentity: a recovery that names a code brings the MK of *)
(* that code's row, whatever became of the row since.                      *)
KnowsRow(c, mk) == c # NoCode => code[c].state # "none" /\ code[c].mk = mk

RecoveriesKnowMK ==
  /\ \A t \in Tokens : /\ KnowsRow(token[t].code, token[t].mk)
                       /\ token[t].code # NoCode => token[t].flow = "code"
  /\ \A k \in Calls : KnowsRow(call[k].code, call[k].mk)

WrapsInv == TypeOK /\ RecoveriesKnowMK /\ WrapsOpenIdentity
===============================================================================
