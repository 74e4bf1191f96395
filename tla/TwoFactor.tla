------------------------------- MODULE TwoFactor -------------------------------
(***************************************************************************)
(* Two-factor authentication of one account: the TOTP secret and its flag  *)
(* on the server, the two-factor page on several devices, and the user's   *)
(* authenticator app.                                                      *)
(*                                                                         *)
(* A device learns the flag when it signs in and when its own page changes *)
(* it.  A code is the secret the app made it from; its thirty seconds are  *)
(* not modelled.  Sources: client/src/pages/TwoFactorPage.tsx; in          *)
(* server/src/services, auth.service.ts and reset.service.ts;              *)
(* server/src/utils/totp.ts.                                               *)
(*                                                                         *)
(* "Bug:" marks a definition that is not part of the specification: the    *)
(* next one with a plausible mistake, for checking the properties.         *)
(***************************************************************************)
EXTENDS Naturals

CONSTANTS
  Pages,      \* devices, each with a two-factor page
  NoPage,
  TotpCalls,  \* calls that may be in flight
  MaxSecrets  \* bound on the secrets generated

ASSUME TotpBounds == NoPage \notin Pages /\ MaxSecrets \in Nat \ {0}

VARIABLES
  totpEnabled,
  totpSecret,  \* 0: null
  secrets,     \* number of secrets generated
  app,         \* secrets in the authenticator app
  page,
  totpCall,
  replaced,    \* a secret was set up while the flag was on (for the properties)
  crossed      \* a write fell between a read and a write (for the properties)

totpVars == <<totpEnabled, totpSecret, secrets, app, page, totpCall, replaced,
              crossed>>

(* on: user.totpEnabled in the device's store.  shown: setupData.          *)
Page == [signedIn : BOOLEAN, open : BOOLEAN, on : BOOLEAN, loading : BOOLEAN,
         shown : 0..MaxSecrets]
SignedOut == [signedIn |-> FALSE, open |-> FALSE, on |-> FALSE,
              loading |-> FALSE, shown |-> 0]
TotpCall == [op : {"none", "setup", "verify", "disable"},
             pc : {"sent", "checked", "answered"},
             ok : BOOLEAN, from : Pages \union {NoPage}, secret : 0..MaxSecrets]
NoCall == [op |-> "none", pc |-> "sent", ok |-> TRUE, from |-> NoPage, secret |-> 0]

TotpTypeOK ==
  /\ totpEnabled \in BOOLEAN /\ totpSecret \in 0..MaxSecrets
  /\ secrets \in 0..MaxSecrets /\ app \subseteq 1..MaxSecrets
  /\ page \in [Pages -> Page] /\ totpCall \in [TotpCalls -> TotpCall]
  /\ replaced \in BOOLEAN /\ crossed \in BOOLEAN

TotpInit ==
  /\ totpEnabled = FALSE /\ totpSecret = 0 /\ secrets = 0 /\ app = {}
  /\ page = [p \in Pages |-> SignedOut]
  /\ totpCall = [k \in TotpCalls |-> NoCall]
  /\ replaced = FALSE /\ crossed = FALSE

Is(k, op, pc) == totpCall[k].op = op /\ totpCall[k].pc = pc

(* The calls, with those of S sent from page p.                            *)
Sent(S, op, p, entry) ==
  [k \in TotpCalls |->
     IF k \in S THEN [NoCall EXCEPT !.op = op, !.from = p, !.secret = entry]
     ELSE totpCall[k]]

FreeCalls == {k \in TotpCalls : totpCall[k].op = "none"}

(***************************************************************************)
(* The page.                                                               *)
(***************************************************************************)

(* login asks for a code when the flag is on.                              *)
SignIn(p) ==
  /\ ~page[p].signedIn
  /\ totpEnabled => totpSecret \in app
  /\ page' = [page EXCEPT ![p] = [SignedOut EXCEPT !.signedIn = TRUE, !.on = totpEnabled]]
  /\ UNCHANGED <<totpEnabled, totpSecret, secrets, app, totpCall, replaced,
                 crossed>>

(* By the user, or because the session was revoked.                        *)
SignOut(p) ==
  /\ page[p].signedIn
  /\ page' = [page EXCEPT ![p] = SignedOut]
  /\ UNCHANGED <<totpEnabled, totpSecret, secrets, app, totpCall, replaced,
                 crossed>>

(* The effect sets a secret up when the device believes the flag is off.   *)
OpenPage(p) ==
  /\ page[p].signedIn /\ ~page[p].open
  /\ page' = [page EXCEPT ![p] = [@ EXCEPT !.open = TRUE, !.shown = 0, !.loading = FALSE]]
  /\ IF page[p].on
     THEN UNCHANGED totpCall
     ELSE \E k \in FreeCalls : totpCall' = Sent({k}, "setup", p, 0)
  /\ UNCHANGED <<totpEnabled, totpSecret, secrets, app, replaced, crossed>>

ClosePage(p) ==
  /\ page[p].open
  /\ page' = [page EXCEPT ![p].open = FALSE]
  /\ UNCHANGED <<totpEnabled, totpSecret, secrets, app, totpCall, replaced,
                 crossed>>

Scan(p) ==
  /\ page[p].open /\ ~page[p].on /\ page[p].shown # 0
  /\ app' = app \union {page[p].shown}
  /\ UNCHANGED <<totpEnabled, totpSecret, secrets, page, totpCall, replaced,
                 crossed>>

(* The code is of any entry of the app.                                    *)
Submit(p, op) ==
  /\ page[p].open /\ ~page[p].loading
  /\ page[p].on <=> op = "disable"
  /\ \E k \in FreeCalls, entry \in app : totpCall' = Sent({k}, op, p, entry)
  /\ page' = [page EXCEPT ![p].loading = TRUE]
  /\ UNCHANGED <<totpEnabled, totpSecret, secrets, app, replaced, crossed>>

(***************************************************************************)
(* The server.                                                             *)
(***************************************************************************)

(* A call read the row and has not written it.                             *)
BetweenReadAndWrite(k) == \E o \in TotpCalls \ {k} : totpCall[o].pc = "checked"

setup2FA(k) ==
  /\ Is(k, "setup", "sent") /\ secrets < MaxSecrets
  /\ secrets' = secrets + 1 /\ totpSecret' = secrets + 1
  /\ totpCall' = [totpCall EXCEPT ![k] = [@ EXCEPT !.pc = "answered",
                                                 !.secret = secrets + 1]]
  /\ replaced' = (replaced \/ totpEnabled)
  /\ crossed' = (crossed \/ BetweenReadAndWrite(k))
  /\ UNCHANGED <<totpEnabled, app, page>>

Valid(entry) == totpSecret # 0 /\ totpSecret = entry

Check(k) ==
  /\ totpCall[k].op \in {"verify", "disable"} /\ totpCall[k].pc = "sent"
  /\ totpCall' = [totpCall EXCEPT ![k] =
       [@ EXCEPT !.pc = IF Valid(totpCall[k].secret) THEN "checked" ELSE "answered",
                 !.ok = Valid(totpCall[k].secret)]]
  /\ UNCHANGED <<totpEnabled, totpSecret, secrets, app, page, replaced,
                 crossed>>

verify2FA(k) ==
  /\ Is(k, "verify", "checked")
  /\ totpEnabled' = TRUE
  /\ totpCall' = [totpCall EXCEPT ![k].pc = "answered"]
  /\ crossed' = (crossed \/ BetweenReadAndWrite(k))
  /\ UNCHANGED <<totpSecret, secrets, app, page, replaced>>

disable2FA(k) ==
  /\ Is(k, "disable", "checked")
  /\ totpEnabled' = FALSE /\ totpSecret' = 0
  /\ totpCall' = [totpCall EXCEPT ![k].pc = "answered"]
  /\ crossed' = (crossed \/ BetweenReadAndWrite(k))
  /\ UNCHANGED <<secrets, app, page, replaced>>

(* Bug: a recovery takes the secret and leaves the flag.                   *)
FlagStays == totpEnabled

FlagAfterRecovery == FALSE

(* A recovery with a code or a passkey, or a reset without one: the one    *)
(* transaction that changes the password also turns the second factor off. *)
Recovered ==
  /\ totpSecret # 0
  /\ totpEnabled' = FlagAfterRecovery /\ totpSecret' = 0
  /\ crossed' = (crossed \/ \E k \in TotpCalls : totpCall[k].pc = "checked")
  /\ UNCHANGED <<secrets, app, page, totpCall, replaced>>

(***************************************************************************)
(* The answers.                                                            *)
(***************************************************************************)

SetupAnswered(k) ==
  LET p == totpCall[k].from IN
  /\ Is(k, "setup", "answered")
  /\ page' = IF page[p].open THEN [page EXCEPT ![p].shown = totpCall[k].secret] ELSE page
  /\ totpCall' = [totpCall EXCEPT ![k] = NoCall]
  /\ UNCHANGED <<totpEnabled, totpSecret, secrets, app, replaced, crossed>>

VerifyAnswered(k) ==
  LET p == totpCall[k].from IN
  /\ Is(k, "verify", "answered")
  /\ page' = [page EXCEPT ![p] =
       [@ EXCEPT !.loading = FALSE, !.on = (page[p].on \/ totpCall[k].ok) /\ page[p].signedIn,
                 !.shown = IF totpCall[k].ok THEN 0 ELSE page[p].shown]]
  /\ totpCall' = [totpCall EXCEPT ![k] = NoCall]
  /\ UNCHANGED <<totpEnabled, totpSecret, secrets, app, replaced, crossed>>

(* A success sets a secret up once for the handler and, while the page is  *)
(* there, once more for the effect on the flag.                            *)
DisableAnswered(k) ==
  LET p == totpCall[k].from IN
  /\ Is(k, "disable", "answered")
  /\ page' = [page EXCEPT ![p] =
       [@ EXCEPT !.loading = FALSE, !.on = page[p].on /\ ~totpCall[k].ok]]
  /\ IF totpCall[k].ok
     THEN \E l \in IF page[p].open THEN FreeCalls ELSE {k} :
            totpCall' = Sent({k, l}, "setup", p, 0)
     ELSE totpCall' = [totpCall EXCEPT ![k] = NoCall]
  /\ UNCHANGED <<totpEnabled, totpSecret, secrets, app, replaced, crossed>>

TotpNext ==
  \/ Recovered
  \/ \E p \in Pages : SignIn(p) \/ SignOut(p) \/ OpenPage(p) \/ ClosePage(p) \/ Scan(p)
                      \/ Submit(p, "verify") \/ Submit(p, "disable")
  \/ \E k \in TotpCalls : setup2FA(k) \/ Check(k) \/ verify2FA(k) \/ disable2FA(k)
                          \/ SetupAnswered(k) \/ VerifyAnswered(k) \/ DisableAnswered(k)

TotpSpec == TotpInit /\ [][TotpNext]_totpVars

(* Properties.                                                             *)

(* Whoever turned the second factor on can sign in: the app has the secret *)
(* the server checks, unless a page on a device that does not know the     *)
(* flag set a new secret up (setup2FA never looks at the flag), or another *)
(* call wrote between the read and the write of one.                       *)
AppOpensAccount == totpEnabled => totpSecret \in app \/ replaced \/ crossed

(***************************************************************************)
(* The inductive invariant behind AppOpensAccount.                         *)
(***************************************************************************)

(* A code was made from a secret in the app; one that passed the check is  *)
(* of the secret there is, until another call writes.                      *)
CodesAreTheApps ==
  \A k \in TotpCalls :
    /\ totpCall[k].op \in {"verify", "disable"} => totpCall[k].secret \in app
    /\ Is(k, "verify", "checked") => crossed \/ totpSecret = totpCall[k].secret

TotpInv == TotpTypeOK /\ CodesAreTheApps /\ AppOpensAccount
=================================================================================
