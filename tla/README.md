# Najva Messenger: a TLA+ model

Najva is an end-to-end encrypted messenger: an Express server over Postgres
(Prisma), Redis and Socket.IO, a React client that does all of the cryptography,
and a mediasoup media server for calls. This directory holds TLA+ modules
translated from that code, TLC configurations that check them on small instances,
and proofs checked by TLAPS for instances of every size. Cryptography is taken as
perfect throughout: a sealed box opens with the key it was sealed to and with no
other, and a fresh key differs from all others.

Run from this directory:

    tlc -workers 2 -config MCAccounts.cfg MCAccounts
    tlapm SignInProofs.tla

Each module begins with a comment that names its sources. Definitions whose comment
starts with "Bug:" are not used by any specification. Each is the definition after
it with a plausible mistake, and shows that the properties notice the mistake.

## The system

| Component | State it keeps | Operations | What is hard | What makes it correct |
|---|---|---|---|---|
| Membership and conversation keys (`conversation.service.ts`, `conversations.ts`, `conversationKeys.ts`) | member rows, `currentKeyVersion`, one sealed wrap per (member, version); a CK cache per device | create, add, remove with rotation, leave, fetch keys | requests read, then write in a transaction; stale versions in clients | versions do not collide, members agree on each key, a removed member learns no later key |
| Message delivery (`message.service.ts`, `message.controller.ts`, `socket/index.ts`) | message rows, socket rooms | seal, check, store, read recipients, emit, history | membership and keys move between those steps; rooms are joined once | those who stay can read, those removed cannot |
| Login sessions (`session.service.ts`, `auth.controller.ts`, `socket/middleware/auth.ts`) | `Session` rows, refresh tokens, sockets | login, refresh, logout, revoke, revoke all | overlapping refreshes; list-then-update sweeps; check-then-create logins | an exchanged token is dead, a swept session stays revoked |
| Client session and key storage (`api.ts`, `authStore.ts`, `App.tsx`, `keystore.ts`) | an auth store per tab; one cookie, localStorage and keystore per browser | sign in, register, sign out, refresh after a 401, restore keys | the tabs share a cookie and nothing makes them share a refresh; answers are stored under whoever is signed in | a tab has the token and keys of the account it shows; a lone refresh never looks like theft |
| Account keys and recovery (`auth.service.ts`, `webauthn.service.ts`, `accountKeys.ts`, settings and recovery pages) | wraps of the master key (MK) under password, codes, passkey; one-time tokens; MKs in device keystores | register, change, new codes, flows A to D, passkeys | the client unwraps an MK in one request and uploads it in another; retries | one reset per token and code; every wrap opens the identity |
| Passkey ceremonies (`webauthn.service.ts`, `webauthn.ts`) | challenges in Redis, credential rows, authenticator counters | register, log in, recover, unlock, delete | tabs replace each other's challenge; counters arrive out of order and with gaps | the salt fits the wrap; only races look like a clone |
| Reset handshake, flow C (`reset.service.ts`, `ResetApprovalListener.tsx`) | Redis `reset:*` and the active key, OTP attempts | request, approve, deny, poll, complete | read-modify-write of a JSON value, polls that answer late | wrong codes are counted, an ended reset stays ended, the MK survives, every handshake ends |
| Two-factor authentication (`auth.service.ts`, `TwoFactorPage.tsx`) | `totpSecret`, `totpEnabled`; what each device believes | setup, verify, disable, recovery | check-then-act across devices | the user's app opens the account |
| Presence (`presence.handler.ts`, `socket/index.ts`, `server/src/index.ts`, `ChatList.tsx`) | `User.status`, sockets per user, what others show | connect, heartbeat, disconnect, reset at boot | an old disconnect commits after a new connect; missed broadcasts | ONLINE exactly while a socket is open, and shown so |
| Call signalling (`call.handler.ts`, `callController.ts`, `callStore.ts`) | participants in Redis, the call store of each client, captured media | ring, answer, hang up, drop, mute, share | hang-ups overtake initiates; media granted late | the set holds who is in the call; what is captured can be stopped |
| Media server (`media-server/src/server.ts`, `room.ts`, `peer.ts`, `sfuClient.ts`) | rooms, peers, producers, consumers | join, produce, consume, resume, leave | awaits between lookup and use of a room; late listeners | everything sent is played by everybody |
| Client chat state (`chatStore.ts`, `ChatView.tsx`, `ChatList.tsx`) | messages, selection, rows, flags | load history, receive, send, delete, clear, flag | answers replace what events wrote; awaits between reading and writing a list | nothing disappears, nothing deleted comes back |
| Message composer (`MessageInput.tsx`) | recorder refs, streams, chunks | hold, lock, cancel, send, unmount | callbacks of an older take | a clip is the take the user sent; no microphone stays open unseen |
| Direct chats, pins, flags (`conversation.service.ts`, `ChatHeader.tsx`) | chats, hidden and blocked members, pinned ids | find or create, hide, delete, block, pin | check-then-act; a list read and rewritten | one key per chat, no message stays hidden, pins agree |
| File storage (`file.service.ts`, `attachments.ts`, `AttachmentView.tsx`) | attachment rows, `storageUsed`; object URLs | upload, link, download, show | quota checked before it is counted; downloads that end late | the quota is kept, URLs are released |
| Web push (`notification.service.ts`, `push.ts`) | the browser's subscription, rows | enable, disable, dispatch, prune | two enables at once, accounts that take turns | notifications go to who is signed in |
| Double ratchet, X3DH (`ratchet.ts`, `session.ts`, `x3dh.ts`) | root, chains, skipped keys | encrypt, decrypt, ratchet step | lost, late, repeated envelopes | each message opens, once |
| Typing, pre-keys, contacts, users, support, statistics, administration, UI, deployment | rows, configuration | single statements | nothing interleaves | not modelled |

The components meet here. Message delivery reads the member rows and uses the
wraps' versions (`GroupMessages` extends `ConversationKeys`). Password changes, recoveries
and resets store a password with its wrap and end in a sweep of the sessions (`Sessions`);
two routes, `PUT /users/password` and an admin's `reset-password`, store a hash and do
neither (`StoreHash`, `StoreOnlyHash`). Flow C ends in
the same write as the other flows, and appears in `AccountKeys` by its effect.
Flow D deletes the wraps of every conversation (`LostReset` in `ConversationKeys`).
Recovery turns TOTP off (`TwoFactor`). Sockets carry messages, presence and calls; each of
those modules has the connects and drops that matter to it.

## Modules

| Module | What it models |
|---|---|
| `ConversationKeys`, `ConversationKeysProofs` | one GROUP or CHANNEL: members, versions, wraps, the CK caches of devices |
| `GroupMessages`, `GroupMessagesProofs` | the same with its messages and sockets |
| `Sessions`, `SignInProofs` | the sessions of one account on the server |
| `ClientSession`, `SignInProofs` | the tabs of one browser |
| `AccountKeys`, `AccountKeysProofs` | the master key of one account and what wraps it |
| `Passkeys`, `SignInProofs` | the passkeys of one account |
| `TwoFactor`, `SignInProofs` | TOTP of one account on several devices |
| `ResetHandshake`, `ResetHandshakeProofs` | flow C: the Redis keys, the page, the approving devices |
| `CallSignals`, `CallsProofs` | ringing, answering and hanging up between two clients and the server |
| `CallSession`, `CallsProofs` | the media of one client's calls |
| `SfuRooms`, `CallsProofs` | a room of the media server and the clients that join it |
| `Presence`, `CallsProofs` | the status of one user, and what another client shows |
| `Push`, `CallsProofs` | the push subscription of one browser |
| `ChatMessages`, `ClientProofs` | the messages of a chat as one client shows them |
| `ChatSelection`, `ClientProofs` | selecting and deleting messages |
| `ChatRows`, `ClientProofs` | a chat's row in the sidebar and its flags |
| `Recorder`, `ClientProofs` | the press-and-hold recorder |
| `Attachments`, `ClientProofs` | uploads against the quota; the view of an attachment |
| `DirectChats`, `ClientProofs` | the direct chats of two users |
| `Pins`, `ClientProofs` | the pinned messages of a conversation |
| `Ratchet`, `RatchetProofs` | the double ratchet over a lossy channel |
| `SecureChannel` | the abstract channel that `Ratchet` implements |
| `KeyAgreement` | the abstract agreement on keys that `ConversationKeys` and `DirectChats` implement |
| `MC*` | compositions, symmetry, views and constants for TLC |

A convention runs through them: a handler, request or component effect is a
record with a `pc`, and there is one action per stretch of code between two awaits.
What an action reads in one stretch and uses in a later one is a field of that
record, and may be out of date by then. Ghost variables, each marked "for the
properties", record history: that two calls overlapped, that an answer was lost.

### The server's keys and messages

`ConversationKeys`. The tables are `role`, `isRemoved`, `keys[user][version]` and
`currentKeyVersion`. A request is prepared by a client (`StartCreate`,
`StartAdd`, `StartRemove`), reads (`AddRead`, `RemoveRead`), and commits or aborts.
`skipDuplicates` is `InsertSkippingDuplicates`; the unique index of the schema is
`UniqueViolation`. A CK is named by the request whose client generated it. Devices
seal to the identity key they fetched (`bundles`) and open what their identity
allows (`OpenInto`). Three abstractions: a share set that `assertShareSet`
refuses changes nothing, so `RemoveRead` chooses the accepted one; a caller who
is not ADMIN is refused before any write and is left out; one conversation is
followed, since no operation touches two.

`KeyAgreement` is what both kinds of conversation keys promise: of each slot one key is
chosen, once and for this slot alone, and every copy is of the chosen one. `End` ends
the agreement for good. Under the mapping `GroupKeys` of `ConversationKeys` the slots are
the versions, a create or a removal chooses when it commits, and the copies are the
wraps of the intact founders and what their devices cached; the agreement ends when no
founder is left intact. Under `ChatKeys` of `DirectChats` the slots are the chats, `CreateDM`
chooses, the copies are the clients' caches, and nothing ends the agreement.

`GroupMessages`. A message goes through `Seal`, `Authorize` (the member row is
read; a forward does not ask for the role a channel wants of a sender), `Store`,
`Address` (`broadcast` reads the members) and `Emit`. `Connect`
joins the rooms as `setupSocket` does; only `Disconnect` leaves one, as in the
code. `BeginHistory` and `FinishHistory` are the two reads of `getMessages`.

`DirectChats`. `OpenDM` to `Opened` are `createDirectConversation`: every opening
generates a key, `FindDM` and `CreateDM` are two awaits apart, and `Primes` says when
the client keeps its key. `StoreMessage` and `Unhide` are the two writes of a send, `Forward` the
one of a forward. The chat with the support bot is not among these chats.

`Ratchet`. Keys are symbolic terms, so two keys are equal exactly when both parties
derived them alike. `Ratchet` is shown to implement `SecureChannel` (what is read was
written by the other party, and is read once) under the mapping `Channel`, which
reads the two lists from the parties' own histories.

### Accounts

`Sessions`. `row[s]` is the row with the number of the token whose hash is stored,
`issued[s]` counts generated tokens. A handler is split at its awaits
(`RefreshRead`/`RefreshWrite`, `SetPassword`/`SweepList`/`SweepWrite`/`Create`).
A write names a row by its id only, as Prisma's `update` does, so it
applies to whatever the row holds by then. `rotated` and `outlawed` are ghosts.

`ClientSession`. Tabs have a store in memory; the cookie, localStorage and the
keystore are shared. A 401 refreshes with whatever cookie the browser holds, and
the answer is stored under whoever is signed in. The server rotates in one step here:
its read and its write are in `Sessions`.

`AccountKeys`. `user`, `code`, `passkey`, `token` and `device` hold the MK each of
them gives access to; MK 0 inside a wrap is a buffer of zeroes. A call is the tail of
a recovery, change or regeneration between its check and its write. `Drop` ends it
there: a crash, a failed transaction, a client that gives up. `StoreHash` is the two routes
that store a hash alone; `kek` says under which password the wrap is.

`Passkeys`. A registration challenge and its PRF salt have one number; an
authenticator signs with its own counter, which some leave at zero, and a registration
stores the one it was signed with. `RegisterVerify`
takes the stash whatever comes of it; `assertCredential` and `StoreCounter` are the
check and the update of an assertion. `Unlock` is a use the server never hears of.

`TwoFactor`. Each device has a page that learned the flag at sign-in. A code is the
secret it was made from; its thirty seconds are left out.

`ResetHandshake`. `reset[r]` and `active` are the two Redis keys; a handler carries
the state it loaded (`seen`). `Save` is a plain SET. `Drop` ends a handler between two round
trips; `ExpireReset` is the TTL at any moment. `page` and `poll` are
`ForgotPasswordPage`, `prompt` is `ResetApprovalListener`. A `reset:pending` event is
shown at once to the devices it reaches; a poll that finds no approval and the 60
seconds before a resend are left out.

### What reaches a client live

`CallSignals` has the queues between each client and the server, the participant set
and the steps of a handler at its Redis answers. `CallSession` has the media of one
client against any event at any time; its shares are calls of `toggleScreenShare`, which
nothing keeps from overlapping. `SfuRooms` has `joinRoom` at its awaits, the
two round trips in which a joiner does not listen, and one consumer at a time.
`Presence` has the handlers of connection, heartbeat and disconnect as write and
broadcast, the server's stop and its reset at boot. `Push` has enabling (several at
once), sign-out, the rows, and dispatch with pruning.

### The chat client

`ChatMessages` has the four writers of a message list: history answers, live
messages after their decryption, the answer of an own send, and delete or clear
events. `ChatSelection` has the drag, the confirmed deletion with its request per
message, and the ids in localStorage. `ChatRows` has the optimistic toggle and the
refresh that rewrites a row. `Recorder` has every callback of the recorder, each
reading the refs as they are when it runs; a take may begin while an earlier one still
waits for its stop event. `Attachments` has the upload, the limit an admin sets, and the
effect of the view. `Pins` has the stored list, the answers, events and refreshes.

## Runs

| Run | Bounds | Shows |
|---|---|---|
| `keys_races` | 3 users, 1 device, 4 requests, 3 versions, no resets | rotations never collide; versions step by one and stored wraps are final (`ServerKeysAreSteady`); the refinement `GroupKeysAreAgreed` |
| `keys_resets` | 3 users, 2 devices, 3 requests, 2 identities per account | founders share every version, an evicted member learns no later key |
| `keys_add_race` | as above, no resets | **violated** `ActiveMembersHoldCurrentKey` |
| `group_messages` | 3 users, 2 devices, 2 requests, 1 message | founders can open each other's messages; what an evicted member opens is old |
| `group_removed_reader` | the same with 2 users | **violated** `RemovedMemberReadsNothingNew` |
| `sessions_change` | 2 sessions, 2 handlers, 3 tokens, 3 passwords | **violated** `ChangeRevokesOthers` |
| `account_identity` | 1 call, 1 token, 1 code, no flow D | **violated** `PasswordOpensIdentity` |
| `reset_handshake` | 2 resets, 1 device, 2 handlers, 2 attempts | the MK survives, wrong codes are counted, settled resets are final, every handshake ends |
| `reset_denied` | 1 reset, 2 devices, 3 handlers, 1 attempt | **violated** `DeniedIsDead` |
| `accounts` | `Sessions` with 2 sessions, 2 handlers, 3 tokens; `AccountKeys` with 2 calls, 2 tokens, 3 codes, 3 passwords, 3 MKs; `ClientSession` with 2 tabs, 2 accounts, 2 requests; `TwoFactor` with 2 devices, 2 calls, 3 secrets; `Passkeys` with 2 passkeys, 2 ceremonies, 3 challenges, counters to 3 | eight invariants of an account, below |
| `calls` | `CallSignals` with 2 users, 2 handlers, 3 calls, 1 dropped socket or expiry; `CallSession` with 2 attempts, 2 shares; `SfuRooms` with 2 sockets, 2 tags; `Presence` with 2 sockets; `Push` with 2 accounts, 2 subscriptions, 2 enables | five invariants of the live parts |
| `client` | `ChatMessages` with 2 messages, 1 history request at a time; `ChatSelection` with 2 messages, 2 deletions; `ChatRows` with 1 refresh, 2 toggles; `Recorder` with 2 takes; `Attachments` with 3 uploads, quota to 4, 3 effects; `DirectChats` with 2 chats, 2 keys; `Pins` with 2 members, 2 messages; `Ratchet` with 3 messages a side, 4 key pairs, 1 skipped key, 1 repeat | eleven properties of the client and the refinements `ReadsOnce` and `ChatKeysAreAgreed` |

**Combined runs.** `MCAccounts`, `MCCalls` and `MCClient` extend several modules that
share no variable. A variable `part` chooses which of them a behaviour is about; the
others keep their initial values, so the state spaces add up instead of multiplying,
and each invariant is that of its own module. It saves runs, and claims nothing of an
interaction. Where the parts share an identifier (`Sessions` and `Codes`
are both model values) the sets are only renamed; in `MCCalls` the sockets are the users'
model values and the shares the handlers', so that the same permutations serve. What does interact is composed
properly: `GroupMessages` extends `ConversationKeys` and its steps interleave with all
of that module's.

**What the client invariants say.** `accounts`: exchanged tokens are dead; swept sessions
stay revoked; one reset per token and code; wraps open the identity
(`WrapsOpenIdentity`); a session is taken for stolen only after refreshes overlapped or
an answer was lost (`RefreshesAloneAreSafe`); a tab has the token and keys of the
account it shows (`OneAccount`); the app opens the account (`AppOpensAccount`); a wrap
fits its salt (`WrapFitsSalt`); only races look like a clone (`OnlyRacesLookCloned`).
`calls`: `ParticipantsAreInCall`, `MediaIsAsShown`, `EveryTrackIsPlayed`,
`StatusFollowsSockets`, `PushFollowsSignIn`. `client`: `DeletedStaysDeleted`,
`NothingElseMissing`, `ChosenAreGone`, `FlagIsServers`, `TakesAreTheUsers`,
`QuotaIsKept`, `UrlsAreReleased`, `NoMessageStaysHidden`, `PinsAgree`, `AnyOrderOpens`,
`ReadsOnce` and `ChatKeysAreAgreed`.

Many of these name their exceptions, because the code has them: two refreshes at once do
revoke a session, two pins at once do lose one, a call whose microphone is granted late
does leave it open. The ghost that excuses such a case is set by the step that causes
it and, where a later step heals it, cleared there. So the property says that the
listed exceptions are the only ones, and each one reads as a known weakness of the
code: `overlapped` and `crossing` (tabs), `replaced` and `crossed` (TOTP), `together`
(passkeys), `apart` (calls), `late`, `early`, `strayShare` (media), `deafTo` (SFU),
`crossed` and `stale` (presence), `unsettled` (push), `raced` and `unseen` (messages),
`overlapped` (deletions), `flagCrossed`, `stray` (takes), `quotaRaced` and `limitCut`
(uploads), `stopped` (sends), `forwarded`, `muddled` (pins), `mixed` (master keys), `bare`
(hashes stored alone).

**Why the bounds are enough.** A collision of rotations takes two removals and the
create, a stale add one request more. Two sessions let a sweep spare one and hit the
other, and two handlers are what a read-write race needs; three tokens make "an earlier but
not the last token" possible. Two tokens can name the same code, and three codes allow
a regeneration after a use. Group messages need one message, since messages do not
influence each other, and three users, so that two founders are left to read each other
after a removal. Two shares let one replace the other. Two resets make a late poll and a
supersession possible, and with a limit of two attempts one wrong code is stored and the next ends the reset.
Two tabs and two accounts make every crossing of accounts possible; a third
secret or challenge is one that replaces another under way. Two takes, two
deletions, two enables, two toggles and two passkey ceremonies are the races those
properties are about. Three calls let a late event of one call hit the second while a
third begins. Three envelopes a side with one skipped key reach the skip limit, a late
message across a ratchet step and a repeat of a stored key. Three uploads let two race
after one was counted. Every bound is a CONSTANT that a guard mentions, or a finite set of
slots.

**Symmetry, views, constraints.** Symmetry permutes only slots and identifiers that no
definition orders or names, and no property checked under it is a liveness property. The
views keep the variables of the part and drop what only excuses a case that already
has an excuse: a message in `raced` is exempt whether told of or not, an id in
`unseen` matters only while it is visible, `asked` is unused once pins are muddled. That of
`MCGroupMessages` forgets what devices receive whose account was not evicted, and
everything once the message is refused; `SessionState` (in `MCAccounts` and in `MCCalls`)
forgets what no action will read again. The
`Watched` constraints stop where nothing more is promised: after accounts crossed and
refreshes overlapped, after a secret was replaced, after deletions overlapped, after a
send stopped. They also cut three products: recovery codes, which are interchangeable,
are taken in order; sends in direct chats are explored while there is one chat; once
pins are muddled no chat list is fetched. `CHECK_DEADLOCK FALSE` is set where the system
may rest: after the last bounded call, message or reset nobody has to do anything.

**Fairness** is assumed in one run. `FairSpec` of `ResetHandshake` has weak fairness
of `Serve` for every handler (an async function of the server runs on or fails) and
of `ExpireReset` for every reset (every SET of such a key has an EX). Users, pages and
devices owe nothing. Under it `HandshakesEnd` holds, which is not obvious:
overlapping stores bring an expired reset back, and only because each of them uses up
an approval or an attempt does that stop. Elsewhere the code retries nothing by itself:
a handler that started may end without an effect, so nothing stronger than the safety
properties "at rest" would be justified.

### What the violations say

* `keys_add_race`: `addMembers` uses the version it read before its transaction. A
  removal that commits in between moves the conversation to a version the new member
  has no wrap of; nothing repairs it. `conversation.service.ts:10-14` promises a wrap to
  every member who must derive the key.
* `group_removed_reader`: the server stores a message under whatever version it was
  sealed with, and a removed member's socket stays in the room. The property is about the
  broadcast of another's message to a member that somebody else removed: one under way
  during the removal is delivered to that socket and opens there. `conversation.service.ts:173-175` says
  post-removal messages cannot be read. `EvictedOpenOnlyOldKeys` states what holds.
* `sessions_change`: a login that compared the old password before a `changePassword`
  creates its session after the sweep made its list, and is live when the call ends. `docs/ENCRYPTION.md:142-147` calls the change atomic.
* `account_identity`: in flow B `ForgotPasswordPage.tsx` zeroes its only copy of the MK
  before the request is sent (line 213); if that request does not arrive, the retry
  uploads a wrap of zeroes with a token that is still good, and the new password no
  longer opens the account. `accountKeys.ts:215-217` says rewrapping never changes the
  MK. `WrapsOpenIdentity` states what holds.
* `reset_denied`: `approve` stores the state it loaded whether or not the key is still
  there, so a denial from another device that deletes it in between is undone, and the
  reset is approved. `reset.service.ts:202` says that denial kills the reset
  immediately. `SettledForGood` states what holds: once no handler has a copy, a
  denied reset stays dead.

## Proofs

TLAPS checks the following for arbitrary sets of users, devices, requests, sessions,
handlers, tokens, codes, chats, tabs, accounts, passkeys, ceremonies, calls, messages, takes,
uploads and pins, and arbitrary bounds. The assumptions are the named ones of the modules:
null values are not members of the sets they complement, `Owner` is a function, bounds are
numbers, a media server has finitely many sockets (`FiniteSockets`). Each argument is an
inductive invariant, a definition of the module, that TLC checked first; its conjuncts are
named below. The type invariants, which are conjuncts too, are not repeated.

**Conversation keys** (`IInv`). Read-then-write requests are serialized only by the
unique index on (conversation, user, version), and it only helps if the wrap sets of two
rotations intersect. The invariant therefore speaks of an *intact founder* g: a member
since the creation who was never removed and never lost the identity key.
`FounderView`: g has a wrap of exactly the versions up to `currentKeyVersion`, every
committed rotation wrote g's wrap of its version, and a removal that will still succeed
carries the next version. Hence a removal that read an older version hits g's wrap and
aborts (`RotationsDoNotCollide`, `KeysAreSteady`). Two founders were both in every share
set, hence agree (`FoundersAgree`). `EvictionsSeen` and `KeysWereSealed` give
`EvictionIsEffective`. Without an intact founder the properties do fail: two removals with
disjoint remaining members can both commit.

**Groups implement the agreement** (`KeysInv`, over `IInv`). `KeysWereSealedAt`: a wrap or
cached key of a version was sealed to its owner by a committed request *of that version*.
`FounderKeys`: what a founder's device has cached is the founder's wrap, and there are none of
versions to come. While g is intact, the key of each version up to `currentKeyVersion` is that
of the one request that brought it, and g's wrap says so (`FounderHasInstalled`);
later versions have none (`NothingInstalled`). So a create or removal that commits chooses for
a version that had no key, and its key is its own (`CreateChooses`, `RemovalChooses`);
every other step keeps the choices (`AgreedKeysStay`), and a founder once lost does not come
back (`FoundersDoNotReturn`). Together these are `GroupsAgreeOnKeys`.

**Messages** (`GroupInv`, over `IInv`). Messages need `KeysWereSealedAt` and `FounderKeys`
again. `MessagesKeepKeys`: a message carries the
key of its version, sealed to its sender. With `FoundersAgree` every founder's wrap of
that version is the message's key (`FoundersReadMessages`); and a removed member who
opens a message has a key sealed to them at its version, which is older than the
removal or came from an add (`EvictedReadOldKeys`).

**Sessions** (`SessionsInv`). `TokensWereIssued`: tokens stored, in flight or exchanged
were generated before, so a fresh one is none of the exchanged ones
(`RotationIsFinal`). `SweepsAreComplete`: a session that existed when the password was
stored is on the list of the sweep or revoked, and no write clears `revokedAt`
(`SweepIsEffective`).

**Account keys** (`IInv`, `WrapsInv`). `TokensAreSpent` and `CodesAreSpent`: a redeemed
token belongs to at most one call, and a code's count is 0 until it goes from unused to used
(`ResetsAreOneShot`). `RecoveriesKnowMK`: a code that is presented or redeemed carries the
MK of its row, so that a flow-A recovery in flight across a reset can only bring the
key its code was made with (`WrapsAgree`). The stored password opens its wrap unless its
hash came alone (`bare`).

**Handshake** (`IInv`). `HandlersKnow`: a handler about to store holds a state that was
there; one about to write the password brings the MK (`MasterKeyIsKept`).
`UnissuedUntouched` makes a generated id fresh, and `DeletedUnlessStale` says a deleted
reset is back only after a stale store; together `RefusalsCount`. `SettledIsFinal`: only a
copy can bring a reset back.

**Two factors** (`TotpInv`). `CodesAreTheApps`: a code in flight was made from a secret in
the app, and one that passed its check is of the secret there is unless another call wrote
(`AppIsEnough`).

**Passkeys** (`PasskeysInv`). `CeremoniesWellFormed`: a registration wraps under the salt
of its own challenge, so comparing the challenge compares the salt (`WrapsFit`).
`Ahead`: the server's counter is never past the authenticator's, and while a
passkey never made two assertions at once, a fresh signature is strictly past the server's.
`RegistrationsFirst`: whatever a passkey asserts it signs after its registration
(`NoFalseClone`).

**The tabs of a browser** (`ClientInv`). `TokensAreCurrent`: while refreshes run alone, the
cookie, or the one request that refreshes, has the current token of its session, so the
server has no reason to revoke it (`OneRefreshAtATime`). `AccountsApart`: until accounts
cross, the tabs, the cookie, localStorage, a registration and the requests are all of
one account (`TabsShowOneAccount`).

**Calls** (`SignalsInv`). `LastWordCounts`: what a client said last is where it is, and the
server has a handler or a message that makes its set follow, or an `ended` is on the way
(`ParticipantsFollow`). It is about a user whose events did not overtake each other: `apart`
collects the others.

**Captured media** (`SessionInv`). `StreamsAreOfAttempts`: a stream that did not come late
is of the last attempt, which is no longer asking, so a press of the mute button reached it.
Of the captured screens all but the shared one and those being produced are known as strays
(`CaptureIsShown`).

**Media rooms** (`SfuInv`). `RoomsAreNumbered`: a socket that can still create a room has
not created one, which bounds them (and needs `FiniteSockets`). `TracksAreSent`: a client sends
once it is in. For every producer and every other client the property lists the places
where it can be, the joiner's list, the announcement, the queue, and each
step moves it from one place to the next (`TracksArePlayed`).

**Presence** (`PresenceInv`). `StatusSettles`: while handlers do not overlap there is one,
a disconnect exactly when no socket is left, and past its write the row says so.
`ShownSettles` says the same of what the other client was told, asked for, or
is about to be told (`PresenceFollows`).

**Push** (`PushInv`). `CallsAlone`: while calls do not cross there is one, of whoever is
signed in and about the subscription the browser has or has just dropped (`PushFollows`).

**Messages of a chat** (`ChatInv`). `EventsInOrder`: a message is announced before its
deletion is, so after a deletion was heard no further copy starts. `ToldAreListed`: a copy or an
answer that is still to come, of a message already deleted, finds it in the list, where it
changes nothing, or the race was recorded (`DeletionsAreShown`). `StoredAreFollowed`: a stored
message is in the list, counted as missed, or on its way; at rest nothing is on its way
(`NothingElseIsLost`).

**The rest of the client.** Selection: `DeletionHasAll`, while one deletion runs, its own list
has what localStorage has, and what it has left covers the rest (`DeletionsAreKept`). Rows:
`RowShowsToggle`, the row shows what the toggle under way asks for and the server has the
opposite until it is stored (`FlagsFollow`). Recorder: `TakesInOrder` and
`OnlyTheLastIsOnScreen`, a take that is not lost is the last one, and the refs are its
(`RecordingsAreTheUsers`). Storage: `UploadsCounted` is finite and `storageUsed` its
size, `CheckedAlone` has one upload at most between its check and its count, and
`CheckedFits` keeps room for it unless the limit was cut (`QuotaHolds`). View: a run of the effect that is not cancelled has a mounted view
(`UrlsDieWithTheirView`). Pins: `OneRequest` and `RequestsReadPins`, each member shows the stored
list or is about to be told it (`PinsAreShared`). Direct chats (`DirectInv`): `KeysFresh`, the
wraps of a chat are written once, with the key its creator goes on to keep (`KeysAgree`);
`KeysUsedOnce`, each opening has a key of its own and only a `created` one has stored it, so
that a chat gets a key no other has (`ChatsAgreeOnKeys`); `MissedAreHidden`, only a hidden
chat misses a message (`HiddenChatsReturn`).

**The ratchet implements its channel** (`ReadInv`). `Older` orders keys: by the length of the
root they come from, then by their step. `InOrder`: a receiving chain is as long as `recvN`
says and newer than every key that is kept, and each of these is kept once. So a key that
opened an envelope is `Spent`: it is neither kept nor derived again, whatever is handed over
(`ReadKeysAreSpent`), and a step of `Ratchet` is a step of `SecureChannel` or changes neither
list (`RatchetImplementsChannel`).

**Any order opens** (`OpenInv`). Until an envelope is handed over twice, the parties take turns
(`InTurn`): the key pairs 1, 2, ... are theirs alternately, whoever has the newest is one
ahead, and both derive the root of each from the pair and the one before it (`TakesTurns`).
What a party sent is numbered along its chains and carries their keys (`SentInTurn`). So an
envelope is in one of three places (`WhereItIs`): before the next message of the receiving
chain, where it was read or its key is kept (`BehindIsReadOrKept`); further on in that chain;
or in the chain the other party has turned to, whose key the turn derives
(`EnvelopesOpen`). A turn keeps the rest of the chain that ends because every envelope of the
next chain says how long that was.

**The combined runs.** A behaviour of `MCAccounts`, `MCCalls` or `MCClient` moves the variables
of one part and leaves the others alone, so it is a behaviour of every component's own
specification (`AccountPartsBehave`, `CallPartsBehave`, `ClientPartsBehave`). Each theorem above
therefore holds of the specification TLC runs; their combined type invariants are
proved from it (`AccountsTyped`, `CallsTyped`, `ClientTyped`).

Only model-checked: `HandshakesEnd`, since liveness under fairness is out of the prover's
reach, as are `ENABLED` and induction over recursive data.

## Not modelled

* *Typing*: the server relays it, the client neither emits nor listens.
* *Pre-key bundles*: no client uploads or fetches them. Handing one out is a find and an
  update, so two callers could get the same one; nothing depends on it.
* *Contacts, users, support, statistics, administration*: reads, and writes of a row of the
  caller or of one an admin names, some after a check of that row. The three that the other
  parts depend on are in their modules: both routes that store a hash, and the storage limit.
* *Editing, read markers, saved messages, the support chat*: each is one request whose write
  does not depend on an earlier read of another, except that saved messages are found or
  created as direct chats are (`DirectChats` has that race).
* *What mediasoup-client stops by itself when a producer closes*.
* *Native push tokens, the notification list*: no client registers or reads them.
* *Search, scrolling, drafts, the position among pins, text input*: rendering.
* *Profile changes*, which touch no key.
* *Cryptographic primitives, mediasoup, WebAuthn's own signatures, Redis and Postgres*:
  taken as correct; Redis commands and SQL statements are atomic steps.
* *Deployment*: configuration.

Four weaknesses seen while modelling have no property, since the code promises
nothing that excludes them: `PUT /users/password` and an admin's `reset-password` leave
`mkPasswordWrapped` under the old password and every session alive, so the new password signs
in but opens nothing (no client calls either); the socket handshake awaits `isActive` and joins afterwards, so a
session revoked in between keeps its socket (`ConnectCheck`, `ConnectJoin` in
`Sessions`); a newer `reset:pending` replaces the prompt whose words the user is
comparing, and the answer to an approval closes whatever prompt is shown
(`ResetApprovalListener.tsx:40` and `:86`, both in `ResetHandshake`); and an account reset by
flow D stays a member without any key, because re-sealing does not exist in the client.
