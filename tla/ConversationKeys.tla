--------------------------- MODULE ConversationKeys ---------------------------
(***************************************************************************)
(* Membership and Conversation Keys (CKs) of one GROUP or CHANNEL.         *)
(*                                                                         *)
(* The server keeps three tables about the conversation: the member rows,  *)
(* the conversation row with its currentKeyVersion, and one opaque wrap    *)
(* per (member, version).  Requests that change them read the database     *)
(* once or twice and then write in one transaction; between two of those   *)
(* awaits every other request may run.  Clients cache opened CKs, believe  *)
(* in a version they once read, and seal keys to identity keys they        *)
(* fetched earlier.  Sources: server/src/services/                         *)
(* conversation.service.ts, client/src/lib/conversations.ts, client/src/   *)
(* lib/crypto/conversationKeys.ts, and the flow-D wipe of reset.service.ts.*)
(*                                                                         *)
(* Definitions marked "Bug:" are not part of the specification.  Each is   *)
(* the next definition with a plausible mistake, for checking that the     *)
(* properties would notice it.                                             *)
(*                                                                         *)
(* A CK is named by the request whose client generated it.                 *)
(***************************************************************************)
EXTENDS Naturals

CONSTANTS
  Users,        \* accounts that may ever be members
  Devices,      \* browser tabs, each logged in to one account
  Owner,        \* Owner[d] is the account device d is logged in to
  Creator,      \* the device that creates the conversation
  Requests,     \* identifiers of the mutating HTTP requests; each is sent once
  NoCK,         \* "no conversation key": an absent row or cache entry
  MaxVersion,   \* bound on currentKeyVersion
  MaxIdentity   \* bound on the identity keys an account goes through

ASSUME OwnerAssumption == Owner \in [Devices -> Users]
ASSUME CreatorAssumption == Creator \in Devices
ASSUME NoCKAssumption  == NoCK \notin Requests
ASSUME BoundAssumption == MaxVersion \in Nat \ {0} /\ MaxIdentity \in Nat \ {0}

VARIABLES
  role,               \* ConversationMember.role, "NONE" where there is no row
  isRemoved,          \* ConversationMember.isRemoved
  keys,               \* ConversationKey rows: keys[user][version]
  currentKeyVersion,  \* Conversation.currentKeyVersion, 0 before it exists
  identity,           \* which identity key the account publishes now
  unlocked,           \* which identity secret a device holds in memory
  cache,              \* ckCache of a device for this conversation
  fetching,           \* device has GET .../keys past its membership check
  req                 \* the requests

serverVars == <<role, isRemoved, keys, currentKeyVersion>>
clientVars == <<unlocked, cache, fetching>>
vars == <<role, isRemoved, keys, currentKeyVersion, identity,
          unlocked, cache, fetching, req>>

Versions   == 1..MaxVersion
Identities == 1..MaxIdentity
Role       == {"NONE", "MEMBER", "ADMIN"}
CK         == Requests \union {NoCK}

(* A sealed box: the CK inside, and the identity key that opens it.        *)
Wrap   == [ck : CK, ik : 0..MaxIdentity]
NoWrap == [ck |-> NoCK, ik |-> 0]

(* A mutating request.  ck: the key its client sealed; bundles: the        *)
(* identity keys its client fetched to seal to; to: the users its body     *)
(* carries a wrap for; target: the member a removal names; version: the    *)
(* one the server computed from its read of the conversation row.          *)
Request ==
  [op      : {"none", "create", "add", "remove"},
   pc      : {"unsent", "read", "tx", "committed", "failed"},
   dev     : Devices,
   ck      : CK,
   bundles : [Users -> Identities],
   to      : SUBSET Users,
   target  : Users,
   version : 0..MaxVersion]

Blank(pc) ==
  [op |-> "none", pc |-> pc, dev |-> Creator, ck |-> NoCK,
   bundles |-> [u \in Users |-> 1], to |-> {}, target |-> Owner[Creator],
   version |-> 0]

Unsent == Blank("unsent")
Failed == Blank("failed")  \* a refused request leaves nothing behind

(* A request as its client sends it, sealed to the bundles of this moment. *)
Sent(op, pc, d, ck, to, target) ==
  [op |-> op, pc |-> pc, dev |-> d, ck |-> ck, bundles |-> identity,
   to |-> to, target |-> target, version |-> 0]

TypeOK ==
  /\ role \in [Users -> Role]
  /\ isRemoved \in [Users -> BOOLEAN]
  /\ keys \in [Users -> [Versions -> Wrap]]
  /\ currentKeyVersion \in 0..MaxVersion
  /\ identity \in [Users -> Identities]
  /\ unlocked \in [Devices -> Identities]
  /\ cache \in [Devices -> [Versions -> CK]]
  /\ fetching \in [Devices -> BOOLEAN]
  /\ req \in [Requests -> Request]

IsMember(u) == role[u] # "NONE"
IsAdmin(u)  == role[u] = "ADMIN"

(* Bug: a member row is enough.                                            *)
ForgetsIsRemoved(u) == IsMember(u)

Active(u) == IsMember(u) /\ ~isRemoved[u]

(***************************************************************************)
(* What the server's helpers and the database decide.                      *)
(***************************************************************************)

(* Bug: a missing share passes; a stranger's share passes.                 *)
NoMissingCheck(to, required)  == to \subseteq required
NoStrangerCheck(to, required) == required \subseteq to

(* assertShareSet: one wrap per required user, none missing, no strangers. *)
ShareSetOK(to, required) == to = required

(* The wrap for u in the body of request r.                                *)
WrapFor(r, u) == [ck |-> req[r].ck, ik |-> req[r].bundles[u]]

(* Bug: upsert instead of skipDuplicates.                                  *)
Overwriting(r, v) ==
  [u \in Users |-> IF u \in req[r].to
                     THEN [keys[u] EXCEPT ![v] = WrapFor(r, u)] ELSE keys[u]]

(* createMany with skipDuplicates: a row that exists stays as it is.       *)
InsertSkippingDuplicates(r, v) ==
  [u \in Users |-> IF u \in req[r].to /\ keys[u][v] = NoWrap
                     THEN [keys[u] EXCEPT ![v] = WrapFor(r, u)] ELSE keys[u]]

(* Bug: the unique index does not exist.                                   *)
NoUniqueIndex(r, v) == FALSE

(* createMany without it: @@unique([conversationId, userId, version])      *)
(* refuses the whole transaction when one of the rows exists.              *)
UniqueViolation(r, v) == \E u \in req[r].to : keys[u][v] # NoWrap

Insert(r, v) ==
  [u \in Users |-> IF u \in req[r].to
                     THEN [keys[u] EXCEPT ![v] = WrapFor(r, u)] ELSE keys[u]]

(* Bug: the newest row is cached under every version asked for.            *)
CacheNewest(d) ==
  [v \in Versions |->
     LET row == keys[Owner[d]][currentKeyVersion] IN
     IF cache[d][v] = NoCK /\ row.ik = unlocked[d] THEN row.ck ELSE cache[d][v]]

(* The rows a device can open, on top of what it has cached already.       *)
OpenInto(d) ==
  [v \in Versions |->
     LET row == keys[Owner[d]][v] IN
     IF cache[d][v] = NoCK /\ row.ik = unlocked[d] THEN row.ck
     ELSE cache[d][v]]

Init ==
  /\ role = [u \in Users |-> "NONE"]
  /\ isRemoved = [u \in Users |-> FALSE]
  /\ keys = [u \in Users |-> [v \in Versions |-> NoWrap]]
  /\ currentKeyVersion = 0
  /\ identity = [u \in Users |-> 1]
  /\ unlocked = [d \in Devices |-> 1]
  /\ cache = [d \in Devices |-> [v \in Versions |-> NoCK]]
  /\ fetching = [d \in Devices |-> FALSE]
  /\ req = [r \in Requests |-> Unsent]

(***************************************************************************)
(* createGroupOrChannel and POST /conversations.                           *)
(***************************************************************************)

(* The client fetches every member's bundle and seals a fresh CK.  Only    *)
(* one create concerns the conversation this module follows.               *)
StartCreate(r, others) ==
  /\ req[r].pc = "unsent"
  /\ \A q \in Requests : req[q].op # "create"
  /\ req' = [req EXCEPT ![r] =
        Sent("create", "tx", Creator, r, others \union {Owner[Creator]},
             Owner[Creator])]
  /\ UNCHANGED <<serverVars, identity, clientVars>>

(* createGroup is one nested create: members, the creator as ADMIN, and    *)
(* their version 1 wraps.  The answer primes the creator's cache.          *)
CreateCommit(r) ==
  LET d == req[r].dev IN
  /\ req[r].op = "create" /\ req[r].pc = "tx"
  /\ role' = [u \in Users |-> IF u = Owner[d] THEN "ADMIN"
                               ELSE IF u \in req[r].to THEN "MEMBER"
                               ELSE "NONE"]
  /\ keys' = Insert(r, 1)
  /\ currentKeyVersion' = 1
  /\ cache' = [cache EXCEPT ![d][1] = req[r].ck]
  /\ req' = [req EXCEPT ![r] = [@ EXCEPT !.pc = "committed", !.version = 1]]
  /\ UNCHANGED <<isRemoved, identity, unlocked, fetching>>

(***************************************************************************)
(* addMembersWithKey and POST /conversations/:id/members.                  *)
(*                                                                         *)
(* Here and for removals, a caller that is not ADMIN is refused before     *)
(* anything is written.  A role never changes once the row exists, so the  *)
(* refusal does not depend on when the row is read, and only requests      *)
(* that pass are followed.  The check does not look at isRemoved.          *)
(***************************************************************************)

(* The client seals the CK of the version its chat list shows as current.  *)
(* No event refreshes that number, so it may be any version the device has *)
(* ever held the CK of.                                                    *)
StartAdd(r, d, newMembers, v) ==
  /\ req[r].pc = "unsent"
  /\ IsAdmin(Owner[d])
  /\ newMembers # {}
  /\ cache[d][v] # NoCK
  /\ req' = [req EXCEPT ![r] =
        Sent("add", "read", d, cache[d][v], newMembers, Owner[Creator])]
  /\ UNCHANGED <<serverVars, identity, clientVars>>

(* The await before the transaction reads the version the new wraps will   *)
(* be stored under.                                                        *)
AddRead(r) ==
  /\ req[r].op = "add" /\ req[r].pc = "read"
  /\ req' = [req EXCEPT ![r] =
                           [@ EXCEPT !.pc = "tx", !.version = currentKeyVersion]]
  /\ UNCHANGED <<serverVars, identity, clientVars>>

(* The transaction.  A member row that exists, removed or not, stays.      *)
AddCommit(r) ==
  /\ req[r].op = "add" /\ req[r].pc = "tx"
  /\ role' = [u \in Users |-> IF u \in req[r].to /\ ~IsMember(u)
                               THEN "MEMBER" ELSE role[u]]
  /\ keys' = InsertSkippingDuplicates(r, req[r].version)
  /\ req' = [req EXCEPT ![r] = [@ EXCEPT !.pc = "committed"]]
  /\ UNCHANGED <<isRemoved, currentKeyVersion, identity, clientVars>>

(***************************************************************************)
(* removeMemberWithRotation and DELETE /conversations/:id/members/:userId. *)
(***************************************************************************)

(* The client fetches bundles and seals a fresh CK.                        *)
StartRemove(r, d, target) ==
  /\ req[r].pc = "unsent"
  /\ IsAdmin(Owner[d])
  /\ req' = [req EXCEPT ![r] = Sent("remove", "read", d, r, {}, target)]
  /\ UNCHANGED <<serverVars, identity, clientVars>>

(* The await before the transaction reads the version and the active       *)
(* members, and assertShareSet compares them with the list the client      *)
(* sealed to.  A list that differs is refused and changes nothing, so the  *)
(* list is chosen here, where it is compared.                              *)
RemoveRead(r) ==
  LET remaining == {u \in Users : Active(u)} \ {req[r].target} IN
  /\ req[r].op = "remove" /\ req[r].pc = "read"
  /\ currentKeyVersion < MaxVersion
  /\ \E wraps \in SUBSET Users :
       /\ ShareSetOK(wraps, remaining)
       /\ req' = [req EXCEPT ![r] = [@ EXCEPT !.pc = "tx", !.to = wraps,
                                       !.version = currentKeyVersion + 1]]
  /\ UNCHANGED <<serverVars, identity, clientVars>>

(* The transaction: hide the target, insert the wraps, store the version   *)
(* computed from the earlier read.  It is refused as a whole when the      *)
(* target has no row or one of the wraps exists.                           *)
RemoveCommit(r) ==
  LET v == req[r].version IN
  /\ req[r].op = "remove" /\ req[r].pc = "tx"
  /\ IsMember(req[r].target)
  /\ ~UniqueViolation(r, v)
  /\ isRemoved' = [isRemoved EXCEPT ![req[r].target] = TRUE]
  /\ keys' = Insert(r, v)
  /\ currentKeyVersion' = v
  /\ req' = [req EXCEPT ![r] = [@ EXCEPT !.pc = "committed"]]
  /\ UNCHANGED <<role, identity, clientVars>>

RemoveAbort(r) ==
  /\ req[r].op = "remove" /\ req[r].pc = "tx"
  /\ ~IsMember(req[r].target) \/ UniqueViolation(r, req[r].version)
  /\ req' = [req EXCEPT ![r] = Failed]
  /\ UNCHANGED <<serverVars, identity, clientVars>>

(* leaveGroup: one update, no rotation.                                    *)
LeaveGroup(u) ==
  /\ IsMember(u)
  /\ isRemoved' = [isRemoved EXCEPT ![u] = TRUE]
  /\ UNCHANGED <<role, keys, currentKeyVersion, identity, clientVars, req>>

(***************************************************************************)
(* Reading keys, losing the identity.                                      *)
(***************************************************************************)

(* GET /conversations/:id/keys: requireMember, then findMany; getCK opens  *)
(* and caches every row of the answer it can.                              *)
BeginFetch(d) ==
  /\ Active(Owner[d])
  /\ fetching' = [fetching EXCEPT ![d] = TRUE]
  /\ UNCHANGED <<serverVars, identity, unlocked, cache, req>>

FinishFetch(d) ==
  /\ fetching[d]
  /\ cache' = [cache EXCEPT ![d] = OpenInto(d)]
  /\ fetching' = [fetching EXCEPT ![d] = FALSE]
  /\ UNCHANGED <<serverVars, identity, unlocked, req>>

(* Flow D on device d: a new identity key, and the account's wraps of      *)
(* every version are deleted.  The device starts from an empty memory.     *)
LostReset(d) ==
  LET u == Owner[d] IN
  /\ identity[u] < MaxIdentity
  /\ identity' = [identity EXCEPT ![u] = @ + 1]
  /\ keys' = [keys EXCEPT ![u] = [v \in Versions |-> NoWrap]]
  /\ unlocked' = [unlocked EXCEPT ![d] = identity[u] + 1]
  /\ cache' = [cache EXCEPT ![d] = [v \in Versions |-> NoCK]]
  /\ fetching' = [fetching EXCEPT ![d] = FALSE]
  /\ UNCHANGED <<role, isRemoved, currentKeyVersion, req>>

Next ==
  \/ \E r \in Requests :
       \/ \E U \in SUBSET Users : StartCreate(r, U)
       \/ \E d \in Devices, U \in SUBSET Users, v \in Versions :
            StartAdd(r, d, U, v)
       \/ \E d \in Devices, u \in Users : StartRemove(r, d, u)
       \/ CreateCommit(r)
       \/ AddRead(r)
       \/ AddCommit(r)
       \/ RemoveRead(r)
       \/ RemoveCommit(r)
       \/ RemoveAbort(r)
  \/ \E u \in Users : LeaveGroup(u)
  \/ \E d \in Devices : \/ BeginFetch(d)
                          \/ FinishFetch(d)
                          \/ LostReset(d)

Spec == Init /\ [][Next]_vars

-------------------------------------------------------------------------------
(***************************************************************************)
(* Properties.                                                             *)
(***************************************************************************)

Creates   == {r \in Requests : req[r].op = "create" /\ req[r].pc = "committed"}
Adds      == {r \in Requests : req[r].op = "add"    /\ req[r].pc = "committed"}
Rotations == {r \in Requests : req[r].op = "remove" /\ req[r].pc = "committed"}

(* A member since the creation who never left, was never removed, and      *)
(* still has the identity key the first wrap was sealed to.                *)
IntactFounder(g) ==
  /\ ~isRemoved[g]
  /\ \E r \in Creates : g \in req[r].to /\ req[r].bundles[g] = identity[g]

(* While one founder is intact, no two removals commit under the same      *)
(* version, however their reads and transactions interleave: the unique    *)
(* index on the wraps is the only thing that serializes removeMember.      *)
OneRotationPerVersion ==
  (\E g \in Users : IntactFounder(g)) =>
    \A r1, r2 \in Rotations : r1 # r2 => req[r1].version # req[r2].version

(* Intact founders hold a wrap of every version up to the current one,     *)
(* sealed to the identity they have, and it is the same key for all of     *)
(* them: a message one of them sends under any version opens for the       *)
(* others.                                                                 *)
FoundersShareEveryVersion ==
  \A g, h \in Users : IntactFounder(g) /\ IntactFounder(h) =>
    \A v \in 1..currentKeyVersion :
      /\ keys[g][v].ck # NoCK
      /\ keys[g][v].ik = identity[g]
      /\ keys[g][v].ck = keys[h][v].ck

(* removeMember's promise: a device of a removed member never comes to     *)
(* hold the key of that removal or of a later one, although removals read  *)
(* the member list before they write and GET .../keys checks membership    *)
(* before it reads; unless an add sealed that very key to the account.     *)
EvictedLearnsNoLaterKey ==
  (\E g \in Users : IntactFounder(g)) =>
    \A evict, later \in Rotations :
      req[later].version >= req[evict].version =>
        \A d \in Devices : Owner[d] = req[evict].target =>
          \A v \in Versions : cache[d][v] = later =>
            \E a \in Adds : req[a].ck = later /\ Owner[d] \in req[a].to

(* Every stored wrap belongs to somebody who has a member row.             *)
WrapsOnlyForMembers ==
  \A u \in Users, v \in Versions : keys[u][v] # NoWrap => IsMember(u)

(* A step stores currentKeyVersion only as the next number, as long as an  *)
(* intact founder remains: a removal that read an older version does not   *)
(* set the conversation back.                                              *)
VersionStep ==
  (\E g \in Users : IntactFounder(g))'
    => currentKeyVersion' \in {currentKeyVersion, currentKeyVersion + 1}
VersionStepsByOne == [][VersionStep]_vars

(* A stored wrap is never replaced: two requests that write the same       *)
(* (user, version) leave the first one's key in place, and only the        *)
(* owner's own flow-D reset deletes it.                                    *)
WrapsStay ==
  \A u \in Users, v \in Versions :
    keys[u][v] # NoWrap /\ identity'[u] = identity[u] => keys'[u][v] = keys[u][v]
WrapsAreFinal == [][WrapsStay]_vars

(* Both hold of every step: what a client read of the keys, or of their    *)
(* version, never turns into something else.                               *)
ServerKeysAreSteady == [][VersionStep /\ WrapsStay]_vars

(* The key of a version is the one that its create or its removal brought. *)
Brings(r, v) ==
  req[r].op \in {"create", "remove"} /\ req[r].pc = "committed" /\ req[r].version = v

InstalledKeys ==
  [v \in Versions |-> IF \E r \in Requests : Brings(r, v)
                      THEN CHOOSE r \in Requests : Brings(r, v) ELSE NoCK]

(* What intact founders hold: their wraps, and what their devices cached.  *)
CopyHolders == ({"wraps"} \X Users) \union ({"cache"} \X Devices)

FounderCopies ==
  [h \in CopyHolders |-> [v \in Versions |->
     CASE h[1] = "wraps" /\ IntactFounder(h[2]) -> keys[h[2]][v].ck
       [] h[1] = "cache" /\ IntactFounder(Owner[h[2]]) -> cache[h[2]][v]
       [] OTHER -> NoCK]]

(* From the creation on, and as long as a founder is intact, the founders  *)
(* and the server agree on the key of every version: it is chosen once, of *)
(* those that racing removals generate, for no other version, and a wrap   *)
(* or a cached key of a founder is that one.                               *)
FoundersLast == Creates = {} \/ \E g \in Users : IntactFounder(g)

AgreedKeys == IF FoundersLast THEN InstalledKeys ELSE [v \in Versions |-> NoCK]

GroupKeys == INSTANCE KeyAgreement
  WITH Slots <- Versions, Keys <- Requests, NoKey <- NoCK, Holders <- CopyHolders,
       chosen <- AgreedKeys, held <- FounderCopies, lasting <- FoundersLast

GroupKeysAreAgreed == GroupKeys!AgreementSpec

(* What conversation.service.ts says of its share sets (lines 10-14):      *)
(* every member who must be able to derive the CK actually got a wrap.     *)
(* Stated for active members who never went through flow D.                *)
ActiveMembersHoldCurrentKey ==
  \A u \in Users : Active(u) /\ identity[u] = 1 =>
    keys[u][currentKeyVersion] # NoWrap

-------------------------------------------------------------------------------
(***************************************************************************)
(* The inductive invariant behind the properties above.                    *)
(***************************************************************************)

Committed == {r \in Requests : req[r].pc = "committed"}

(* What every request record says about its own progress.                  *)
RequestsWellFormed ==
  \A r \in Requests :
    /\ req[r].op = "none"   => req[r].pc \in {"unsent", "failed"}
    /\ req[r].op = "create" => /\ req[r].pc \in {"tx", "committed"}
                               /\ req[r].ck = r
                               /\ Owner[req[r].dev] \in req[r].to
    /\ req[r].op = "add"    => req[r].pc \in {"read", "tx", "committed"}
    /\ req[r].op = "remove" => /\ req[r].pc \in {"read", "tx", "committed"}
                               /\ req[r].ck = r
    /\ req[r].op = "add" /\ req[r].pc # "read" => req[r].version >= 1
    /\ req[r].op = "remove" /\ req[r].pc # "read" =>
         req[r].version >= 2 /\ req[r].target \notin req[r].to
    /\ \A u \in Users : req[r].bundles[u] <= identity[u]

(* One create, and nothing in the tables before it.                        *)
CreatedOnce ==
  /\ \A r1, r2 \in Requests :
       req[r1].op = "create" /\ req[r2].op = "create" => r1 = r2
  /\ Creates # {} => currentKeyVersion >= 1
  /\ Creates = {} =>
       /\ currentKeyVersion = 0
       /\ \A u \in Users : /\ role[u] = "NONE"
                            /\ \A v \in Versions : keys[u][v] = NoWrap
       /\ \A r \in Requests : req[r].op \in {"none", "create"}

(* A key a user has a wrap of, or a device has cached, was sealed to that  *)
(* user by a request that committed.                                       *)
SealedTo(u, k) == \E r \in Committed : req[r].ck = k /\ u \in req[r].to

KeysWereSealed ==
  /\ \A u \in Users, v \in Versions :
       keys[u][v].ck # NoCK => SealedTo(u, keys[u][v].ck)
  /\ \A d \in Devices, v \in Versions :
       cache[d][v] # NoCK => SealedTo(Owner[d], cache[d][v])

(* A request that wrote wraps, or is about to write those of a rotation,   *)
(* carries them for members.                                               *)
SentToMembers ==
  \A r \in Requests :
    req[r].pc = "committed" \/ (req[r].pc = "tx" /\ req[r].op = "remove") =>
      \A u \in req[r].to : IsMember(u)

EvictedAreRemoved == \A r \in Rotations : isRemoved[req[r].target]

(* What the tables and the requests in flight look like to a founder g     *)
(* that is intact: g holds the key of every version, each version above 1  *)
(* comes from one rotation, and a removal that has read but not written    *)
(* either carries a wrap for g or removes g.                               *)
FounderView(g) ==
  /\ \A r \in Creates : keys[g][1] = [ck |-> r, ik |-> identity[g]]
  /\ \A r \in Rotations :
       /\ g \in req[r].to
       /\ req[r].version <= currentKeyVersion
       /\ keys[g][req[r].version] = [ck |-> r, ik |-> identity[g]]
  /\ \A v \in 2..currentKeyVersion : \E r \in Rotations : req[r].version = v
  /\ \A r \in Requests : req[r].op = "remove" =>
       /\ req[r].bundles[g] = identity[g]
       /\ req[r].pc = "tx" => /\ req[r].version <= currentKeyVersion + 1
                              /\ g \in req[r].to \/ g = req[r].target
  /\ \A r \in Requests : req[r].op = "add" /\ req[r].pc = "tx"
       => req[r].version <= currentKeyVersion

(* While g is intact, a removal that can still commit read the members     *)
(* after every eviction so far, and so did every rotation after it.        *)
EvictionsSeen ==
  /\ \A r \in Requests, q \in Rotations :
       /\ req[r].op = "remove" /\ req[r].pc = "tx"
       /\ req[r].version = currentKeyVersion + 1
       => req[q].target \notin req[r].to
  /\ \A r, q \in Rotations :
       req[r].version >= req[q].version => req[q].target \notin req[r].to

IInv ==
  /\ TypeOK
  /\ RequestsWellFormed
  /\ CreatedOnce
  /\ KeysWereSealed
  /\ SentToMembers
  /\ WrapsOnlyForMembers
  /\ EvictedAreRemoved
  /\ \A g \in Users : IntactFounder(g) => FounderView(g) /\ EvictionsSeen

(* Who has a key under a version was sent it under that version: an add    *)
(* may carry an older key than the version it is stored under.             *)
SealedAt(u, k, v) ==
  \E r \in Committed : req[r].ck = k /\ u \in req[r].to /\ req[r].version = v

KeysWereSealedAt ==
  /\ \A u \in Users, v \in Versions :
       keys[u][v].ck # NoCK => SealedAt(u, keys[u][v].ck, v)
  /\ \A d \in Devices, v \in Versions :
       cache[d][v] # NoCK => SealedAt(Owner[d], cache[d][v], v)
  /\ \A r \in Creates : req[r].version = 1

(* A founder that is intact has no wrap of a version to come, and its      *)
(* devices hold what its wraps say.                                        *)
FounderKeys ==
  \A g \in Users : IntactFounder(g) =>
    \A v \in Versions :
      /\ keys[g][v].ck # NoCK => v <= currentKeyVersion
      /\ \A d \in Devices :
           Owner[d] = g /\ cache[d][v] # NoCK => keys[g][v].ck = cache[d][v]

KeysInv == IInv /\ KeysWereSealedAt /\ FounderKeys
===============================================================================
