------------------------------ MODULE ClientSession ------------------------------
(***************************************************************************)
(* The login state of one browser: its tabs, each with an auth store in    *)
(* memory, and what they share: localStorage, the refresh cookie and the   *)
(* keystore.  A request that is answered 401 refreshes once, with whatever *)
(* cookie the browser holds by then.                                       *)
(*                                                                         *)
(* The server rotates a refresh token in one step here; Sessions has the   *)
(* overlap of its read and its write.  An access token is valid until it   *)
(* expires, whatever becomes of its session, as authenticate checks it.    *)
(* Sources: client/src/lib/api.ts, store/authStore.ts, App.tsx,            *)
(* lib/crypto/keystore.ts, components/auth/LoginForm.tsx and               *)
(* RegisterForm.tsx; server/src/controllers/auth.controller.ts,            *)
(* services/session.service.ts, middleware/auth.ts.                        *)
(*                                                                         *)
(* "Bug:" marks a definition that is not part of the specification: the    *)
(* next one with a plausible mistake, for checking the properties.         *)
(***************************************************************************)
EXTENDS Naturals

CONSTANTS
  Tabs,
  NoTab,
  Accounts,
  NoAccount,
  Requests,     \* requests that may be in flight
  MaxSessions,  \* bound on the sessions created
  MaxRotations  \* bound on the rotations of a session

ASSUME ClientBounds ==
  /\ NoTab \notin Tabs /\ NoAccount \notin Accounts
  /\ MaxSessions \in Nat \ {0} /\ MaxRotations \in Nat \ {0}

VARIABLES
  owner,       \* whose each session is
  current,     \* number of the current refresh token of each session
  revoked,     \* sessions with revokedAt
  cookie,      \* the refreshToken cookie
  saved,       \* auth-storage in localStorage
  tab,         \* each tab
  kept,        \* accounts whose master key and private keys are in the keystore
  request,     \* api calls in flight
  reused,      \* a rotated token was presented (for the properties)
  overlapped,  \* refreshes were in flight together, or an answer was lost (idem)
  crossing     \* an account came in while another was still at work (idem)

browserVars == <<owner, current, revoked, cookie, saved, tab, kept, request,
                 reused, overlapped, crossing>>

SessionIds == 1..MaxSessions
RefreshToken    == [session : 0..MaxSessions, n : 0..MaxRotations]
NoCookie == [session |-> 0, n |-> 0]
Store    == [user : Accounts \union {NoAccount}, token : 0..MaxSessions]
NoStore  == [user |-> NoAccount, token |-> 0]
NewTab   == [store |-> NoStore, identity |-> NoAccount,
             restoring |-> NoAccount, pending |-> 0]
NoRequest == [pc |-> "idle", tab |-> NoTab, token |-> NoCookie]

ClientTypeOK ==
  /\ owner \in [SessionIds -> Accounts \union {NoAccount}]
  /\ current \in [SessionIds -> 0..MaxRotations]
  /\ revoked \subseteq SessionIds
  /\ cookie \in RefreshToken /\ saved \in Store
  /\ tab \in [Tabs -> [store : Store,
                       identity : Accounts \union {NoAccount},
                       restoring : Accounts \union {NoAccount},
                       pending : 0..MaxSessions]]
  /\ kept \subseteq Accounts
  /\ request \in [Requests -> [pc : {"idle", "refreshing", "refreshed", "refused"},
                               tab : Tabs \union {NoTab}, token : RefreshToken]]
  /\ reused \in BOOLEAN /\ overlapped \in BOOLEAN /\ crossing \in BOOLEAN

ClientInit ==
  /\ owner = [s \in SessionIds |-> NoAccount]
  /\ current = [s \in SessionIds |-> 0]
  /\ revoked = {} /\ cookie = NoCookie /\ saved = NoStore
  /\ tab = [t \in Tabs |-> NewTab]
  /\ kept = {}
  /\ request = [r \in Requests |-> NoRequest]
  /\ reused = FALSE /\ overlapped = FALSE /\ crossing = FALSE

UserIn(t) == tab[t].store.user
Busy(r) == request[r].pc # "idle"

(***************************************************************************)
(* Signing in.                                                             *)
(***************************************************************************)

(* Another tab shows another account, or something begun under it is       *)
(* still under way.                                                        *)
OthersAtWork(t, a) ==
  \/ \E o \in Tabs \ {t} : UserIn(o) \notin {a, NoAccount} \/ tab[o].pending # 0
  \/ \E o \in Tabs : tab[o].restoring \notin {a, NoAccount}
  \/ \E r \in Requests : Busy(r)

FreshSession(a, s) ==
  /\ owner[s] = NoAccount
  /\ \A o \in SessionIds : o < s => owner[o] # NoAccount
  /\ owner' = [owner EXCEPT ![s] = a]

(* Bug: the cookie of a previous login stays.                              *)
FirstCookie(s) == IF cookie = NoCookie THEN [session |-> s, n |-> 0] ELSE cookie

LoginCookie(s) == [session |-> s, n |-> 0]

(* setAuth, setActiveIdentity, and the effect of App on isAuthenticated,   *)
(* which begins to restore what the keystore has.                          *)
SignedIn(a, s) ==
  [NewTab EXCEPT !.store = [user |-> a, token |-> s],
                !.identity = a, !.restoring = a]

(* handleLogin and handlePasskeyLogin, when the answer arrives.            *)
SubmitLogin(t, a, s) ==
  /\ UserIn(t) = NoAccount /\ tab[t].pending = 0
  /\ FreshSession(a, s)
  /\ cookie' = LoginCookie(s)
  /\ tab' = [tab EXCEPT ![t] = SignedIn(a, s)]
  /\ saved' = [user |-> a, token |-> s]
  /\ crossing' = (crossing \/ OthersAtWork(t, a))
  /\ UNCHANGED <<current, revoked, kept, request, reused, overlapped>>

(* storeMasterKey and storeBlob, of a login or an enterApp; best effort.   *)
KeepKeys(t) ==
  /\ tab[t].identity # NoAccount /\ tab[t].identity = UserIn(t)
  /\ kept' = kept \union {UserIn(t)}
  /\ UNCHANGED <<owner, current, revoked, cookie, saved, tab, request, reused,
                 overlapped, crossing>>

(* onCreate: the session exists and its cookie is set, while the store     *)
(* waits for the recovery codes to be acknowledged.                        *)
Register(t, a, s) ==
  /\ UserIn(t) = NoAccount /\ tab[t].pending = 0
  /\ \A o \in SessionIds : owner[o] # a
  /\ FreshSession(a, s)
  /\ cookie' = LoginCookie(s)
  /\ tab' = [tab EXCEPT ![t].pending = s]
  /\ crossing' = (crossing \/ OthersAtWork(t, a))
  /\ UNCHANGED <<current, revoked, saved, kept, request, reused, overlapped>>

EnterApp(t) ==
  LET s == tab[t].pending IN
  /\ s # 0
  /\ tab' = [tab EXCEPT ![t] = SignedIn(owner[s], s)]
  /\ saved' = [user |-> owner[s], token |-> s]
  /\ crossing' = (crossing \/ OthersAtWork(t, owner[s]))
  /\ UNCHANGED <<owner, current, revoked, cookie, kept, request, reused,
                 overlapped>>

Kept(a) == kept \intersect {a}

(* The end of restoreKeys: the identity becomes that of the user the       *)
(* effect saw, whoever is signed in by now.  The keystore may fail.        *)
Restored(t) ==
  LET a == tab[t].restoring IN
  /\ a # NoAccount
  /\ \E i \in Kept(a) \union {tab[t].identity} :
       tab' = [tab EXCEPT ![t].restoring = NoAccount, ![t].identity = i]
  /\ UNCHANGED <<owner, current, revoked, cookie, saved, kept, request, reused,
                 overlapped, crossing>>

(***************************************************************************)
(* Signing out, and loading the page.                                      *)
(***************************************************************************)

(* The store only: the session, the cookie, the identity in memory and the *)
(* keystore stay as they are.                                              *)
LoggedOut(t) ==
  [tab[t] EXCEPT !.store = NoStore]

Logout(t) ==
  /\ UserIn(t) # NoAccount
  /\ tab' = [tab EXCEPT ![t] = LoggedOut(t)]
  /\ saved' = NoStore
  /\ UNCHANGED <<owner, current, revoked, cookie, kept, request, reused,
                 overlapped, crossing>>

(* The store is read from localStorage; calls of the page are dropped.     *)
Load(t) ==
  /\ tab' = [tab EXCEPT ![t] = [NewTab EXCEPT !.store = saved,
                                             !.restoring = saved.user]]
  /\ request' = [r \in Requests |-> IF request[r].tab = t THEN NoRequest
                                                          ELSE request[r]]
  /\ overlapped' = (overlapped \/ \E r \in Requests : request[r].tab = t
                                       /\ request[r].pc = "refreshed")
  /\ UNCHANGED <<owner, current, revoked, cookie, saved, kept, reused,
                 crossing>>

(***************************************************************************)
(* The response interceptor.                                               *)
(***************************************************************************)

(* A call is answered 401: its access token has expired (it lasts fifteen  *)
(* minutes), or it was a login with a wrong password.                      *)
Unauthorized(r, t) ==
  /\ ~Busy(r)
  /\ request' = [request EXCEPT ![r] =
                   [pc |-> IF cookie = NoCookie THEN "refused" ELSE "refreshing",
                    tab |-> t, token |-> cookie]]
  /\ overlapped' = (overlapped \/ \E q \in Requests : Busy(q))
  /\ UNCHANGED <<owner, current, revoked, cookie, saved, tab, kept, reused,
                 crossing>>

(* SessionService.rotate.                                                  *)
Rotate(r) ==
  LET s == request[r].token.session
      n == request[r].token.n IN
  /\ request[r].pc = "refreshing"
  /\ CASE s \in revoked ->
            /\ request' = [request EXCEPT ![r].pc = "refused"]
            /\ UNCHANGED <<current, revoked, reused>>
       [] s \notin revoked /\ n # current[s] ->
            /\ request' = [request EXCEPT ![r].pc = "refused"]
            /\ revoked' = revoked \union {s}
            /\ reused' = TRUE
            /\ UNCHANGED current
       [] OTHER ->
            /\ n < MaxRotations
            /\ current' = [current EXCEPT ![s] = n + 1]
            /\ request' = [request EXCEPT ![r].pc = "refreshed", ![r].token.n = n + 1]
            /\ UNCHANGED <<revoked, reused>>
  /\ UNCHANGED <<owner, cookie, saved, tab, kept, overlapped, crossing>>

(* Bug: the new refresh token does not reach the cookie.                   *)
OldCookie(r) == cookie

NewCookie(r) == request[r].token

(* setAuth, if somebody is signed in by now; the call is then repeated     *)
(* with the new token, and a second 401 is passed on.                      *)
Refreshed(r) ==
  LET t == request[r].tab
      store == [user |-> UserIn(t), token |-> request[r].token.session] IN
  /\ request[r].pc = "refreshed"
  /\ cookie' = NewCookie(r)
  /\ IF UserIn(t) = NoAccount
     THEN UNCHANGED <<tab, saved>>
     ELSE /\ tab' = [tab EXCEPT ![t].store = store]
          /\ saved' = store
  /\ request' = [request EXCEPT ![r] = NoRequest]
  /\ UNCHANGED <<owner, current, revoked, kept, reused, overlapped, crossing>>

(* The catch: logout, also after a lost answer.                            *)
RefreshFails(r) ==
  LET t == request[r].tab IN
  /\ Busy(r)
  /\ tab' = [tab EXCEPT ![t] = LoggedOut(t)]
  /\ saved' = NoStore
  /\ request' = [request EXCEPT ![r] = NoRequest]
  /\ overlapped' = (overlapped \/ request[r].pc = "refreshed")
  /\ UNCHANGED <<owner, current, revoked, cookie, kept, reused, crossing>>

(* From another device, or by a password change.                           *)
SessionRevoked(s) ==
  /\ owner[s] # NoAccount /\ s \notin revoked
  /\ revoked' = revoked \union {s}
  /\ UNCHANGED <<owner, current, cookie, saved, tab, kept, request, reused,
                 overlapped, crossing>>

ClientNext ==
  \/ \E t \in Tabs, a \in Accounts, s \in SessionIds :
       SubmitLogin(t, a, s) \/ Register(t, a, s)
  \/ \E t \in Tabs : EnterApp(t) \/ KeepKeys(t) \/ Restored(t) \/ Logout(t)
                     \/ Load(t)
  \/ \E r \in Requests, t \in Tabs : Unauthorized(r, t)
  \/ \E r \in Requests : Rotate(r) \/ Refreshed(r) \/ RefreshFails(r)
  \/ \E s \in SessionIds : SessionRevoked(s)

ClientSpec == ClientInit /\ [][ClientNext]_browserVars

(***************************************************************************)
(* Properties.                                                             *)
(***************************************************************************)

(* An account is taken for stolen (a rotated token is presented, and the   *)
(* session revoked) only after two refreshes were under way at once or the *)
(* answer of one was lost: nothing makes the tabs share a refresh.         *)
RefreshesAloneAreSafe == reused => overlapped

(* A tab that shows an account has an access token of that account and the *)
(* identity keys of that account or none, unless an account came in while  *)
(* another tab showed a different one, or while a restore or a call begun  *)
(* under a different one was under way: the answer of a refresh is stored  *)
(* under whoever is signed in by then.                                     *)
OneAccount ==
  \A t \in Tabs : UserIn(t) # NoAccount /\ ~crossing =>
    /\ owner[tab[t].store.token] = UserIn(t)
    /\ tab[t].identity \in {UserIn(t), NoAccount}

(***************************************************************************)
(* The inductive invariant behind the two.                                 *)
(***************************************************************************)

HasOwner(s) == s \in SessionIds /\ owner[s] # NoAccount

(* The request has a token to rotate, or has rotated it.                   *)
Refreshing(r) == request[r].pc \in {"refreshing", "refreshed"}

(* A token is of a session somebody created; a tab that registers shows    *)
(* nobody; what localStorage holds is on the screen of some tab.           *)
TokensAreOwned ==
  /\ cookie # NoCookie => HasOwner(cookie.session)
  /\ \A t \in Tabs :
       tab[t].pending # 0 => HasOwner(tab[t].pending) /\ UserIn(t) = NoAccount
  /\ \A r \in Requests : /\ Busy(r) => request[r].tab \in Tabs
                         /\ Refreshing(r) => HasOwner(request[r].token.session)
  /\ \A s \in SessionIds : owner[s] = NoAccount => current[s] = 0
  /\ saved.user # NoAccount => \E t \in Tabs : UserIn(t) = saved.user

(* While refreshes run alone, the cookie or the one request has the        *)
(* current token of its session.                                           *)
TokensAreCurrent ==
  ~overlapped =>
    /\ \A q, r \in Requests : Busy(q) /\ Busy(r) => q = r
    /\ \A r \in Requests :
         Refreshing(r) => request[r].token.n = current[request[r].token.session]
    /\ \/ cookie = NoCookie \/ cookie.n = current[cookie.session]
       \/ \E r \in Requests : /\ request[r].pc = "refreshed"
                              /\ request[r].token.session = cookie.session

(* Until accounts cross, the tabs, the cookie, the saved store, a          *)
(* registration and the requests under way are of one account.             *)
AccountsApart ==
  ~crossing =>
    /\ \A t \in Tabs : UserIn(t) # NoAccount =>
         /\ HasOwner(tab[t].store.token) /\ owner[tab[t].store.token] = UserIn(t)
         /\ tab[t].identity \in {UserIn(t), NoAccount}
         /\ cookie # NoCookie /\ owner[cookie.session] = UserIn(t)
         /\ \A o \in Tabs : /\ UserIn(o) \in {UserIn(t), NoAccount}
                            /\ tab[o].restoring \in {UserIn(t), NoAccount}
    /\ saved.user # NoAccount => HasOwner(saved.token) /\ owner[saved.token] = saved.user
    /\ \A t \in Tabs : tab[t].pending # 0 =>
         cookie # NoCookie /\ owner[cookie.session] = owner[tab[t].pending]
    /\ \A r \in Requests : Refreshing(r) =>
         cookie # NoCookie /\ owner[request[r].token.session] = owner[cookie.session]

ClientInv ==
  /\ ClientTypeOK /\ TokensAreOwned /\ TokensAreCurrent /\ AccountsApart
  /\ RefreshesAloneAreSafe
=================================================================================
