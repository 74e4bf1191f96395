---------------------------------- MODULE Push ----------------------------------
(***************************************************************************)
(* Web push in one browser whose accounts take turns: its subscription,    *)
(* the rows the server keeps of it, and the notifications sent for them.   *)
(*                                                                         *)
(* The chat list and the settings panel both call enablePush, so several   *)
(* calls run at once; signing out leaves the subscription alone.  Of the   *)
(* payload nothing is modelled: it names no message.  Sources: client/src/ *)
(* lib/push.ts, client/src/components/chat/ChatList.tsx and                *)
(* SlidingPanel.tsx, server/src/services/notification.service.ts and       *)
(* push/webpush.transport.ts, server/src/controllers/                      *)
(* message.controller.ts, server/src/socket/handlers/call.handler.ts.      *)
(*                                                                         *)
(* "Bug:" marks a definition that is not part of the specification: the    *)
(* next one with a plausible mistake, for checking the properties.         *)
(***************************************************************************)
CONSTANTS
  PushUsers,  \* accounts that sign in to the browser
  NoOwner,
  Endpoints,  \* subscriptions the push service hands out
  NoEndpoint,
  Enables     \* slots for calls of enablePush

ASSUME PushNames == NoOwner \notin PushUsers /\ NoEndpoint \notin Endpoints

VARIABLES
  signedIn,    \* the account of the browser
  permission,  \* Notification.permission
  sub,         \* the subscription of the browser
  handedOut,   \* endpoints used so far
  owner,       \* PushSubscription rows: the account of each endpoint
  enabling,    \* calls of enablePush
  disabling,   \* a call of disablePush
  sending,     \* rows a notification is still to be sent for
  unsettled    \* a call failed or crossed another (for the properties)

browserPush == <<signedIn, permission, sub, handedOut>>
pushCalls   == <<enabling, disabling>>
pushVars    == <<browserPush, owner, pushCalls, sending, unsettled>>

Enable  == [pc : {"idle", "prompt", "ready", "posting"},
            from : PushUsers \union {NoOwner}, endpoint : Endpoints \union {NoEndpoint}]
Disable == [pc : {"idle", "deleting", "deleted"},
            from : PushUsers \union {NoOwner}, endpoint : Endpoints \union {NoEndpoint}]
NotEnabling == [pc |-> "idle", from |-> NoOwner, endpoint |-> NoEndpoint]

PushTypeOK ==
  /\ signedIn \in PushUsers \union {NoOwner}
  /\ permission \in {"default", "granted", "denied"}
  /\ handedOut \subseteq Endpoints /\ sub \in handedOut \union {NoEndpoint}
  /\ owner \in [Endpoints -> PushUsers \union {NoOwner}]
  /\ enabling \in [Enables -> Enable] /\ disabling \in Disable
  /\ sending \subseteq Endpoints
  /\ unsettled \in BOOLEAN

PushInit ==
  /\ signedIn = NoOwner /\ permission = "default"
  /\ sub = NoEndpoint /\ handedOut = {}
  /\ owner = [e \in Endpoints |-> NoOwner]
  /\ enabling = [c \in Enables |-> NotEnabling] /\ disabling = NotEnabling
  /\ sending = {}
  /\ unsettled = FALSE

AtRest == disabling = NotEnabling /\ \A c \in Enables : enabling[c] = NotEnabling

(***************************************************************************)
(* The browser.                                                            *)
(***************************************************************************)

(* A call that starts alone settles what earlier ones left.                *)
BeginEnable(c) ==
  /\ enabling[c] = NotEnabling
  /\ enabling' = [enabling EXCEPT ![c].pc = "prompt"]
  /\ unsettled' = ~AtRest

(* Signing in mounts the chat list, which enables push, asking first if    *)
(* the user has never answered.                                            *)
SignInToChat(a, c) ==
  /\ signedIn = NoOwner /\ signedIn' = a
  /\ IF permission = "denied" THEN UNCHANGED <<enabling, unsettled>> ELSE BeginEnable(c)
  /\ UNCHANGED <<permission, sub, handedOut, owner, disabling, sending>>

LeaveChat ==
  /\ signedIn # NoOwner /\ signedIn' = NoOwner
  /\ unsettled' = (unsettled \/ ~AtRest)
  /\ UNCHANGED <<permission, sub, handedOut, owner, pushCalls, sending>>

TurnOn(c) ==
  /\ signedIn # NoOwner
  /\ BeginEnable(c)
  /\ UNCHANGED <<browserPush, owner, disabling, sending>>

(* Notification.requestPermission answers at once after the first time.    *)
PromptAnswered(c) ==
  /\ enabling[c].pc = "prompt"
  /\ permission' \in IF permission = "default" THEN {"granted", "denied"} ELSE {permission}
  /\ enabling' = [enabling EXCEPT ![c] = IF permission' = "granted"
                                         THEN [@ EXCEPT !.pc = "ready"] ELSE NotEnabling]
  /\ UNCHANGED <<signedIn, sub, handedOut, owner, disabling, sending,
                 unsettled>>

(* The subscription there is, or a new one, goes to the server under the   *)
(* account signed in by then; without one the request is refused.          *)
Subscribe(c) ==
  /\ enabling[c].pc = "ready"
  /\ sub' \in IF sub = NoEndpoint THEN Endpoints \ handedOut ELSE {sub}
  /\ handedOut' = handedOut \union {sub'}
  /\ enabling' = [enabling EXCEPT ![c] = IF signedIn = NoOwner THEN NotEnabling
                    ELSE [pc |-> "posting", from |-> signedIn, endpoint |-> sub']]
  /\ unsettled' = (unsettled \/ signedIn = NoOwner)
  /\ UNCHANGED <<signedIn, permission, owner, disabling, sending>>

(* The key cannot be fetched, or the request does not arrive.              *)
EnableFails(c) ==
  /\ enabling[c].pc \in {"ready", "posting"}
  /\ enabling' = [enabling EXCEPT ![c] = NotEnabling]
  /\ unsettled' = TRUE
  /\ UNCHANGED <<browserPush, owner, disabling, sending>>

(* disablePush, from the panel.                                            *)
TurnOff ==
  /\ signedIn # NoOwner /\ sub # NoEndpoint /\ disabling = NotEnabling
  /\ disabling' = [pc |-> "deleting", from |-> signedIn, endpoint |-> sub]
  /\ unsettled' = ~AtRest
  /\ UNCHANGED <<browserPush, owner, enabling, sending>>

(* Whatever became of the request, the browser unsubscribes; that may fail *)
(* as well.                                                                *)
Unsubscribed ==
  /\ disabling.pc = "deleted"
  /\ disabling' = NotEnabling
  /\ \/ sub' = (IF sub = disabling.endpoint THEN NoEndpoint ELSE sub) /\ UNCHANGED unsettled
     \/ sub' = sub /\ unsettled' = TRUE
  /\ UNCHANGED <<signedIn, permission, handedOut, owner, enabling,
                 sending>>

(* The browser or the push service drops the subscription.                 *)
SubscriptionExpires ==
  /\ sub # NoEndpoint /\ sub' = NoEndpoint
  /\ UNCHANGED <<signedIn, permission, handedOut, owner, pushCalls,
                 sending, unsettled>>

(***************************************************************************)
(* The server.                                                             *)
(***************************************************************************)

(* Bug: the upsert keeps the account of a row that exists.                 *)
FirstOwner(e, a) == IF owner[e] = NoOwner THEN a ELSE owner[e]

Upserted(e, a) == a

(* subscribeWebPush; the call ends with its answer.                        *)
subscribeWebPush(c) ==
  LET e == enabling[c].endpoint IN
  /\ enabling[c].pc = "posting"
  /\ owner' = [owner EXCEPT ![e] = Upserted(e, enabling[c].from)]
  /\ enabling' = [enabling EXCEPT ![c] = NotEnabling]
  /\ UNCHANGED <<browserPush, disabling, sending, unsettled>>

(* deleteMany of the caller's row, or a request that is lost.              *)
unsubscribeWebPush ==
  LET e == disabling.endpoint IN
  /\ disabling.pc = "deleting"
  /\ disabling' = [disabling EXCEPT !.pc = "deleted"]
  /\ \/ owner' = [owner EXCEPT ![e] = IF @ = disabling.from THEN NoOwner ELSE @]
     \/ owner' = owner
  /\ UNCHANGED <<browserPush, enabling, sending, unsettled>>

(* dispatch, for a member whom notifyAbsentMembers or notifyAbsentCallees  *)
(* finds without a socket: the rows of the account are read once.          *)
dispatch(a) ==
  /\ sending = {}
  /\ sending' = {e \in Endpoints : owner[e] = a}
  /\ UNCHANGED <<browserPush, owner, pushCalls, unsettled>>

(* sendWebPush, row by row.  The push service knows only the subscription  *)
(* of the browser: the row of any other is deleted, unless the service     *)
(* could not be asked.                                                     *)
sendWebPush(e) ==
  /\ e \in sending
  /\ sending' = sending \ {e}
  /\ \/ e # sub /\ owner' = [owner EXCEPT ![e] = NoOwner]
     \/ owner' = owner
  /\ UNCHANGED <<browserPush, pushCalls, unsettled>>

PushNext ==
  \/ \E c \in Enables : \/ TurnOn(c) \/ PromptAnswered(c) \/ Subscribe(c)
                        \/ EnableFails(c) \/ subscribeWebPush(c)
                        \/ \E a \in PushUsers : SignInToChat(a, c)
  \/ LeaveChat \/ TurnOff \/ unsubscribeWebPush \/ Unsubscribed \/ SubscriptionExpires
  \/ (\E a \in PushUsers : dispatch(a)) \/ (\E e \in Endpoints : sendWebPush(e))

PushSpec == PushInit /\ [][PushNext]_pushVars

(***************************************************************************)
(* Properties.                                                             *)
(***************************************************************************)

(* The subscription of a browser notifies whoever is signed in there: the  *)
(* account that left it subscribed gives it up when the next one signs in, *)
(* and pruning takes no row of a live subscription; unless a call failed   *)
(* or ran while another did or across a sign-out.                          *)
PushFollowsSignIn ==
  signedIn # NoOwner /\ sub # NoEndpoint /\ AtRest /\ ~unsettled => owner[sub] = signedIn
(***************************************************************************)
(* The inductive invariant behind it.                                      *)
(***************************************************************************)

(* Without the user's permission there is no subscription, nor any call    *)
(* past the prompt.                                                        *)
OnlyIfGranted ==
  permission # "granted" =>
    /\ sub = NoEndpoint /\ disabling = NotEnabling
    /\ \A c \in Enables : enabling[c].pc \notin {"ready", "posting"}

(* While no calls cross, there is one at most, of whoever is signed in and *)
(* about the subscription there is or has just been.                       *)
CallsAlone ==
  ~unsettled =>
    /\ \A c, d \in Enables :
         enabling[c] # NotEnabling /\ enabling[d] # NotEnabling => c = d
    /\ \A c \in Enables :
         /\ enabling[c] # NotEnabling => signedIn # NoOwner /\ disabling = NotEnabling
         /\ enabling[c].pc = "posting" => /\ enabling[c].from = signedIn
                                          /\ sub \in {enabling[c].endpoint, NoEndpoint}
    /\ disabling # NotEnabling => sub \in {disabling.endpoint, NoEndpoint}

PushInv == PushTypeOK /\ OnlyIfGranted /\ CallsAlone /\ PushFollowsSignIn
=============================================================================
