-------------------------------- MODULE Passkeys --------------------------------
(***************************************************************************)
(* The passkeys of one account: registration and the two assertion         *)
(* ceremonies (login, recovery), between the user's tabs, the              *)
(* authenticators and the server.                                          *)
(*                                                                         *)
(* A registration challenge and its PRF salt have one number; an assertion *)
(* challenge has a number of its own.  An authenticator signs for its      *)
(* key with its own counter, which some leave at zero.  AccountKeys has    *)
(* what the master key wrapped under a passkey is good for.                *)
(* Sources: client/src/lib/webauthn.ts; server/src/services/               *)
(* webauthn.service.ts and controllers/webauthn.controller.ts.             *)
(*                                                                         *)
(* "Bug:" marks a definition that is not part of the specification: the    *)
(* next one with a plausible mistake, for checking the properties.         *)
(***************************************************************************)
EXTENDS Naturals

CONSTANTS
  Passkeys,       \* credentials authenticators may create
  NoPasskey,
  Ceremonies,     \* ceremonies that may be under way, each in a tab
  MaxChallenges,  \* bound on the challenges generated
  MaxCounter      \* bound on an authenticator's counter

ASSUME PasskeyBounds ==
  /\ NoPasskey \notin Passkeys
  /\ MaxChallenges \in Nat \ {0} /\ MaxCounter \in Nat \ {0}

VARIABLES
  stash,       \* webauthn:reg:<user> in Redis: the registration challenge
  challenges,  \* assertion challenges in Redis
  generated,   \* number of challenges generated
  key,         \* the authenticators' side of each passkey
  credential,  \* WebAuthnCredential rows
  ceremony,
  suspected,   \* passkeys refused for a counter regression (for the properties)
  together     \* passkeys with two assertions at once (for the properties)

passkeyVars == <<stash, challenges, generated, key, credential, ceremony,
                 suspected, together>>

Challenge == 0..MaxChallenges
(* made: it exists.  counts: the counter moves.  prf: it evaluates the PRF *)
(* extension.                                                              *)
Key == [made : BOOLEAN, counts : BOOLEAN, prf : BOOLEAN, counter : 0..MaxCounter]
(* wrap: the salt the stored master key was wrapped under, 0 for none.     *)
Credential == [stored : BOOLEAN, counter : 0..MaxCounter, salt : Challenge,
               wrap : Challenge]
NoCredential == [stored |-> FALSE, counter |-> 0, salt |-> 0, wrap |-> 0]
Ceremony == [op : {"none", "register", "login", "recover"},
             pc : {"options", "signed", "sent", "accepted"},
             challenge : Challenge, passkey : Passkeys \union {NoPasskey},
             counter : 0..MaxCounter, wrap : Challenge]
NoCeremony == [op |-> "none", pc |-> "options", challenge |-> 0,
               passkey |-> NoPasskey, counter |-> 0, wrap |-> 0]

PasskeysTypeOK ==
  /\ stash \in Challenge /\ challenges \subseteq 1..MaxChallenges
  /\ generated \in Challenge
  /\ key \in [Passkeys -> Key] /\ credential \in [Passkeys -> Credential]
  /\ ceremony \in [Ceremonies -> Ceremony]
  /\ suspected \subseteq Passkeys /\ together \subseteq Passkeys

PasskeysInit ==
  /\ stash = 0 /\ challenges = {} /\ generated = 0
  /\ key \in [Passkeys -> [made : {FALSE}, counts : BOOLEAN, prf : BOOLEAN,
                           counter : {0}]]
  /\ credential = [p \in Passkeys |-> NoCredential]
  /\ ceremony = [c \in Ceremonies |-> NoCeremony]
  /\ suspected = {} /\ together = {}

CeremonyAt(c, op, pc) == ceremony[c].op = op /\ ceremony[c].pc = pc
Asserting(c, pc) == ceremony[c].op \in {"login", "recover"} /\ ceremony[c].pc = pc

(* The counter of a passkey after n more uses.                             *)
Used(p, n) == IF key[p].counts THEN key[p].counter + n ELSE 0
CanUse(p, n) == key[p].made /\ Used(p, n) <= MaxCounter

Over(c) == [ceremony EXCEPT ![c] = NoCeremony]

(***************************************************************************)
(* Registration.                                                           *)
(***************************************************************************)

(* registrationOptions: a later one takes the place of an earlier one.     *)
RegisterOptions(c) ==
  /\ ceremony[c].op = "none" /\ generated < MaxChallenges
  /\ generated' = generated + 1 /\ stash' = generated + 1
  /\ ceremony' = [ceremony EXCEPT ![c] = [NoCeremony EXCEPT
                    !.op = "register", !.challenge = generated + 1]]
  /\ UNCHANGED <<challenges, key, credential, suspected, together>>

(* startRegistration, which signs the counter the key begins with, and the *)
(* master key wrapped under the salt of the options when the authenticator *)
(* gives a PRF output, at once or by one more use of the key               *)
(* (evaluatePrf), which may fail.                                          *)
SignRegistration(c, p) ==
  /\ CeremonyAt(c, "register", "options") /\ ~key[p].made
  /\ \E first, more \in 0..1, w \in {0, ceremony[c].challenge} :
       /\ Used(p, first + more) <= MaxCounter
       /\ w # 0 => key[p].prf
       /\ key' = [key EXCEPT ![p] =
                    [@ EXCEPT !.made = TRUE, !.counter = Used(p, first + more)]]
       /\ ceremony' = [ceremony EXCEPT ![c] =
            [@ EXCEPT !.pc = "signed", !.passkey = p,
                      !.counter = Used(p, first), !.wrap = w]]
  /\ UNCHANGED <<stash, challenges, generated, credential, suspected,
                 together>>

(* Bug: the stash is read and its challenge not compared.                  *)
AnyChallenge(c) == stash # 0

ChallengeFits(c) == stash # 0 /\ stash = ceremony[c].challenge

(* registrationVerify.  The stash is gone whatever comes of it.            *)
RegisterVerify(c) ==
  /\ CeremonyAt(c, "register", "signed")
  /\ stash' = 0
  /\ credential' = IF ChallengeFits(c)
                   THEN [credential EXCEPT ![ceremony[c].passkey] =
                           [stored |-> TRUE, counter |-> ceremony[c].counter,
                            salt |-> stash, wrap |-> ceremony[c].wrap]]
                   ELSE credential
  /\ ceremony' = Over(c)
  /\ UNCHANGED <<challenges, generated, key, suspected, together>>

(***************************************************************************)
(* Assertions.                                                             *)
(***************************************************************************)

(* authOptions.                                                            *)
AssertOptions(c, op) ==
  /\ ceremony[c].op = "none" /\ generated < MaxChallenges
  /\ generated' = generated + 1
  /\ challenges' = challenges \union {generated + 1}
  /\ ceremony' = [ceremony EXCEPT ![c] = [NoCeremony EXCEPT
                    !.op = op, !.challenge = generated + 1]]
  /\ UNCHANGED <<stash, key, credential, suspected, together>>

Signed(p) == {c \in Ceremonies : ceremony[c].passkey = p
                                 /\ ceremony[c].op \in {"login", "recover"}
                                 /\ ceremony[c].pc \in {"signed", "sent"}}

(* startAuthentication: the user picks a passkey, stored on the server or  *)
(* not.                                                                    *)
SignAssertion(c, p) ==
  /\ Asserting(c, "options") /\ CanUse(p, 1)
  /\ key' = [key EXCEPT ![p].counter = Used(p, 1)]
  /\ ceremony' = [ceremony EXCEPT ![c] =
       [@ EXCEPT !.pc = "signed", !.passkey = p, !.counter = Used(p, 1)]]
  /\ together' = IF Signed(p) = {} THEN together ELSE together \union {p}
  /\ UNCHANGED <<stash, challenges, generated, credential, suspected>>

(* Bug: a counter that stays at zero is a regression too.                  *)
FallsBack(c) == ceremony[c].counter <= credential[ceremony[c].passkey].counter

Regressed(c) ==
  LET stored == credential[ceremony[c].passkey].counter IN
  stored > 0 /\ ceremony[c].counter <= stored

(* assertCredential up to the check: the challenge is taken, the row read. *)
assertCredential(c) ==
  LET p == ceremony[c].passkey
      taken == ceremony[c].challenge \in challenges IN
  /\ Asserting(c, "signed")
  /\ challenges' = challenges \ {ceremony[c].challenge}
  /\ suspected' = IF taken /\ credential[p].stored /\ Regressed(c)
                  THEN suspected \union {p} ELSE suspected
  /\ ceremony' = IF /\ taken /\ credential[p].stored /\ ~Regressed(c)
                    /\ ceremony[c].op = "recover" => credential[p].wrap # 0
                 THEN [ceremony EXCEPT ![c] =
                         [@ EXCEPT !.pc = "sent", !.wrap = credential[p].wrap]]
                 ELSE Over(c)
  /\ UNCHANGED <<stash, generated, key, credential, together>>

(* loginVerify and recoverVerify: the counter is stored, if the row is     *)
(* still there, and the answer sent.                                       *)
StoreCounter(c) ==
  LET p == ceremony[c].passkey IN
  /\ Asserting(c, "sent")
  /\ IF credential[p].stored
     THEN /\ credential' = [credential EXCEPT ![p].counter = ceremony[c].counter]
          /\ ceremony' = [ceremony EXCEPT ![c].pc = "accepted"]
     ELSE UNCHANGED credential /\ ceremony' = Over(c)
  /\ UNCHANGED <<stash, challenges, generated, key, suspected, together>>

(* The client unlocks the master key by one more use of the passkey, which *)
(* the server does not see; the user may dismiss it.                       *)
Unlock(c) ==
  LET p == ceremony[c].passkey IN
  /\ Asserting(c, "accepted")
  /\ \/ UNCHANGED key
     \/ /\ ceremony[c].wrap # 0 /\ CanUse(p, 1)
        /\ key' = [key EXCEPT ![p].counter = Used(p, 1)]
  /\ ceremony' = Over(c)
  /\ UNCHANGED <<stash, challenges, generated, credential, suspected,
                 together>>

(***************************************************************************)
(* Everything else.                                                        *)
(***************************************************************************)

(* The user dismisses the prompt, the tab is closed, or a request is lost. *)
GiveUp(c) ==
  /\ ceremony[c].op # "none" /\ ceremony[c].pc \in {"options", "signed"}
  /\ ceremony' = Over(c)
  /\ UNCHANGED <<stash, challenges, generated, key, credential, suspected,
                 together>>

(* Five minutes are over.                                                  *)
ChallengeExpires ==
  /\ \/ stash' = 0 /\ stash # 0 /\ UNCHANGED challenges
     \/ /\ \E n \in challenges : challenges' = challenges \ {n}
        /\ UNCHANGED stash
  /\ UNCHANGED <<generated, key, credential, ceremony, suspected, together>>

(* deleteCredential, with the right password.                              *)
DeleteCredential(p) ==
  /\ credential[p].stored
  /\ credential' = [credential EXCEPT ![p] = NoCredential]
  /\ UNCHANGED <<stash, challenges, generated, key, ceremony, suspected,
                 together>>

PasskeysNext ==
  \/ ChallengeExpires
  \/ \E p \in Passkeys : DeleteCredential(p)
  \/ \E c \in Ceremonies :
       \/ RegisterOptions(c) \/ RegisterVerify(c) \/ assertCredential(c)
       \/ StoreCounter(c) \/ Unlock(c) \/ GiveUp(c)
       \/ \E op \in {"login", "recover"} : AssertOptions(c, op)
       \/ \E p \in Passkeys : SignRegistration(c, p) \/ SignAssertion(c, p)

PasskeysSpec == PasskeysInit /\ [][PasskeysNext]_passkeyVars

(***************************************************************************)
(* Properties.                                                             *)
(***************************************************************************)

(* A stored master key opens with the salt stored beside it, however       *)
(* registrations in several tabs replace each other's challenge: the       *)
(* client wrapped it under the salt it was given, the server stores the    *)
(* salt it finds.                                                          *)
WrapFitsSalt ==
  \A p \in Passkeys : credential[p].wrap # 0 => credential[p].wrap = credential[p].salt

(* A passkey is taken for a clone only after two of its assertions were    *)
(* under way at once: the PRF evaluations the server never hears of and    *)
(* the answers that are lost leave gaps, which are harmless.               *)
OnlyRacesLookCloned == suspected \subseteq together

(***************************************************************************)
(* The inductive invariant behind both.                                    *)
(***************************************************************************)

(* A registration wraps under the salt of its own challenge; whatever was  *)
(* signed names the passkey that signed it.                                *)
CeremoniesWellFormed ==
  \A c \in Ceremonies :
    /\ ceremony[c].op = "register" => ceremony[c].wrap \in {0, ceremony[c].challenge}
    /\ ceremony[c].pc \in {"signed", "sent"} => ceremony[c].passkey \in Passkeys

(* A counter that moves is ahead of what the server stored, and of that    *)
(* strictly while a fresh signature is under way alone.                    *)
Ahead(p) ==
  /\ credential[p].counter <= key[p].counter
  /\ ~key[p].counts \/ ~key[p].made => key[p].counter = 0
  /\ \A c \in Signed(p) :
       /\ key[p].made
       /\ ceremony[c].counter <= key[p].counter
       /\ key[p].counts => ceremony[c].counter >= 1
  /\ p \notin together =>
       /\ \A c1, c2 \in Signed(p) : c1 = c2
       /\ \A c \in Signed(p) : key[p].counts /\ ceremony[c].pc = "signed"
            => credential[p].counter < ceremony[c].counter

CountersAhead == \A p \in Passkeys : Ahead(p)

Registering(p) == {c \in Ceremonies : /\ CeremonyAt(c, "register", "signed")
                                      /\ ceremony[c].passkey = p}

(* Whatever a key asserts, it signs after it was registered.               *)
RegistrationsFirst ==
  \A p \in Passkeys : \A r \in Registering(p) :
    /\ key[p].made /\ ceremony[r].counter <= key[p].counter
    /\ \A c \in Signed(p) : key[p].counts => ceremony[r].counter < ceremony[c].counter

PasskeysInv ==
  /\ PasskeysTypeOK /\ CeremoniesWellFormed /\ CountersAhead /\ RegistrationsFirst
  /\ WrapFitsSalt /\ OnlyRacesLookCloned
=================================================================================
