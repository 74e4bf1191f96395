------------------------------ MODULE Attachments ------------------------------
(***************************************************************************)
(* The attachments of one user: encrypted blobs uploaded against a storage *)
(* quota and linked to a message, and the view that downloads, decrypts    *)
(* and shows one as an object URL.                                         *)
(*                                                                         *)
(* The blob of an upload is one unit, its thumbnail another.  The two      *)
(* parts share no state but the conversation key, which ConversationKeys   *)
(* has.  Sources: server/src/services/file.service.ts and                  *)
(* message.service.ts (the link), admin.service.ts (the limit); in         *)
(* client/src, lib/attachments.ts, lib/crypto/fileCrypto.ts and            *)
(* components/chat/AttachmentView.tsx, ChatView.tsx.                       *)
(*                                                                         *)
(* "Bug:" marks a definition that is not part of the specification: the    *)
(* next one with a plausible mistake, for checking the properties.         *)
(***************************************************************************)
EXTENDS Naturals, FiniteSets

CONSTANTS
  Uploads,     \* attachments the user may upload
  MaxStorage,  \* bound on the storage limit
  Effects      \* runs of the view's effect

ASSUME StorageBound == MaxStorage \in Nat

VARIABLES
  storageUsed,
  storageLimit,
  upload,       \* each upload, from the browser to the Attachment row
  onDisk,       \* uploads whose blobs are in the upload directory
  quotaRaced,   \* the last upload let in was checked while another was under way
  limitCut,     \* the limit was set below what was let in before (both for the properties)
  viewMounted,  \* the view
  effect        \* runs of its effect, each with its own closure

storageVars == <<storageUsed, storageLimit, upload, onDisk, quotaRaced, limitCut>>
shownVars == <<viewMounted, effect>>
attachmentVars == <<storageVars, shownVars>>

(* seen: the storageUsed the service read.                                 *)
Upload == [pc : {"none", "received", "checked", "created", "counted", "linked",
                 "refused", "dropped"},
           thumbnail : BOOLEAN, seen : Nat]
NoUpload == [pc |-> "none", thumbnail |-> FALSE, seen |-> 0]

Effect == [pc : {"none", "fetching", "waiting", "shown", "failed", "over"},
           attempt : 0..2, cancelled : BOOLEAN, url : {"none", "live", "revoked"}]
NoEffect == [pc |-> "none", attempt |-> 0, cancelled |-> FALSE, url |-> "none"]

AttachmentsTypeOK ==
  /\ storageUsed \in Nat /\ storageLimit \in 0..MaxStorage
  /\ upload \in [Uploads -> Upload] /\ onDisk \subseteq Uploads
  /\ quotaRaced \in BOOLEAN /\ limitCut \in BOOLEAN /\ viewMounted \in BOOLEAN
  /\ effect \in [Effects -> Effect]

StorageInit ==
  /\ storageUsed = 0 /\ storageLimit \in 0..MaxStorage
  /\ upload = [u \in Uploads |-> NoUpload]
  /\ onDisk = {} /\ quotaRaced = FALSE /\ limitCut = FALSE

ViewInit == viewMounted = FALSE /\ effect = [e \in Effects |-> NoEffect]

(***************************************************************************)
(* Storage.                                                                *)
(***************************************************************************)

In(u, pcs) == upload[u].pc \in pcs

UnderWay(u) == In(u, {"checked", "created"})

TotalSize(u) == IF upload[u].thumbnail THEN 2 ELSE 1

(* encryptAttachment and the request, received by multer.                  *)
Receive(u) ==
  /\ In(u, {"none"})
  /\ \E t \in BOOLEAN :
       upload' = [upload EXCEPT ![u] = [NoUpload EXCEPT !.pc = "received",
                                                        !.thumbnail = t]]
  /\ onDisk' = onDisk \union {u}
  /\ UNCHANGED <<storageUsed, storageLimit, quotaRaced, limitCut>>

Checked(u) == storageUsed + TotalSize(u) <= storageLimit

(* uploadFile, up to its first write.                                      *)
CheckQuota(u) ==
  /\ In(u, {"received"})
  /\ upload' = [upload EXCEPT ![u].pc = IF Checked(u) THEN "checked" ELSE "refused",
                              ![u].seen = storageUsed]
  /\ onDisk' = IF Checked(u) THEN onDisk ELSE onDisk \ {u}
  /\ quotaRaced' = (IF Checked(u) THEN \E v \in Uploads \ {u} : UnderWay(v) ELSE quotaRaced)
  /\ limitCut' = (limitCut /\ ~Checked(u))
  /\ UNCHANGED <<storageUsed, storageLimit>>

CreateAttachment(u) ==
  /\ In(u, {"checked"})
  /\ upload' = [upload EXCEPT ![u].pc = "created"]
  /\ UNCHANGED <<storageUsed, storageLimit, onDisk, quotaRaced, limitCut>>

(* Bug: the sum is made of what was read before.                           *)
ReadAndAdded(u) == upload[u].seen + TotalSize(u)

Incremented(u) == storageUsed + TotalSize(u)

CountUpload(u) ==
  /\ In(u, {"created"})
  /\ storageUsed' = Incremented(u)
  /\ upload' = [upload EXCEPT ![u].pc = "counted"]
  /\ UNCHANGED <<storageLimit, onDisk, quotaRaced, limitCut>>

(* handleSendMedia and sendMessage.  A tab that is closed before leaves    *)
(* an attachment nobody may download, which counts for ever.               *)
LinkToMessage(u) ==
  /\ In(u, {"counted"})
  /\ upload' = [upload EXCEPT ![u].pc = "linked"]
  /\ UNCHANGED <<storageUsed, storageLimit, onDisk, quotaRaced, limitCut>>

(* A query fails, or the server stops: the blobs stay, and the row, if it  *)
(* was written, is never counted.                                          *)
UploadFails(u) ==
  /\ In(u, {"received", "checked", "created"})
  /\ upload' = [upload EXCEPT ![u].pc = "dropped"]
  /\ UNCHANGED <<storageUsed, storageLimit, onDisk, quotaRaced, limitCut>>

(* An administrator's request: any limit, whatever is used or under way.   *)
SetStorageLimit(n) ==
  /\ storageLimit' = n
  /\ limitCut' = (\/ n < storageUsed
                  \/ \E u \in Uploads : UnderWay(u) /\ n < storageUsed + TotalSize(u))
  /\ UNCHANGED <<storageUsed, upload, onDisk, quotaRaced>>

StorageNext ==
  \/ \E u \in Uploads : \/ Receive(u) \/ CheckQuota(u) \/ CreateAttachment(u)
                        \/ CountUpload(u) \/ LinkToMessage(u) \/ UploadFails(u)
  \/ \E n \in 0..MaxStorage : SetStorageLimit(n)

StorageSpec == StorageInit /\ [][StorageNext]_storageVars

(***************************************************************************)
(* The view.                                                               *)
(***************************************************************************)

Started(f, e) == [f EXCEPT ![e] = [NoEffect EXCEPT !.pc = "fetching"]]

(* The cleanup of the effect.                                              *)
Cancelled(x) == [x EXCEPT !.cancelled = TRUE,
                          !.url = IF @ = "live" THEN "revoked" ELSE @]
Cleaned == [e \in Effects |-> IF effect[e].pc = "none" THEN effect[e]
                                                       ELSE Cancelled(effect[e])]

ViewMount(e) ==
  /\ ~viewMounted /\ effect[e].pc = "none"
  /\ viewMounted' = TRUE /\ effect' = Started(effect, e)

ViewUnmount ==
  /\ viewMounted
  /\ viewMounted' = FALSE /\ effect' = Cleaned

(* The message is replaced by one with another attachment or key version.  *)
PropsChange(e) ==
  /\ viewMounted /\ effect[e].pc = "none"
  /\ effect' = Started(Cleaned, e)
  /\ UNCHANGED viewMounted

(* Bug: a URL that comes too late is left alone.                           *)
LateStays(x) == [x EXCEPT !.pc = "over", !.url = "live"]

LateRevoked(x) == [x EXCEPT !.pc = "over", !.url = "revoked"]

(* fetchDecryptedObjectUrl: the download, the key and the decryption.      *)
Fetched(e) ==
  /\ effect[e].pc = "fetching"
  /\ effect' = [effect EXCEPT ![e] =
                  IF effect[e].cancelled THEN LateRevoked(@)
                  ELSE [@ EXCEPT !.pc = "shown", !.url = "live"]]
  /\ UNCHANGED viewMounted

FetchFails(e) ==
  /\ effect[e].pc = "fetching"
  /\ effect' = [effect EXCEPT ![e].pc = IF effect[e].cancelled THEN "over"
                                        ELSE IF effect[e].attempt < 2 THEN "waiting"
                                        ELSE "failed"]
  /\ UNCHANGED viewMounted

Retry(e) ==
  /\ effect[e].pc = "waiting"
  /\ effect' = [effect EXCEPT ![e] =
                  IF effect[e].cancelled THEN [@ EXCEPT !.pc = "over"]
                  ELSE [@ EXCEPT !.pc = "fetching", !.attempt = effect[e].attempt + 1]]
  /\ UNCHANGED viewMounted

ViewNext ==
  \/ ViewUnmount
  \/ \E e \in Effects : ViewMount(e) \/ PropsChange(e) \/ Fetched(e) \/ FetchFails(e)
                        \/ Retry(e)

ViewSpec == ViewInit /\ [][ViewNext]_shownVars

(***************************************************************************)
(* Properties.                                                             *)
(***************************************************************************)

(* storageUsed is the size of the attachments whose upload was answered,   *)
(* in whatever order uploads overlap and wherever one fails: an attachment *)
(* whose upload stopped between the two writes is not in it.               *)
UsedIsSum ==
  LET counted == {u \in Uploads : In(u, {"counted", "linked"})} IN
  storageUsed = Cardinality(counted)
                + Cardinality({u \in counted : upload[u].thumbnail})

(* The quota is exceeded only when the upload let in last was checked      *)
(* while another was between its check and its count (the two are          *)
(* different queries), or when an administrator has since set the limit    *)
(* below what was let in.                                                  *)
OnlyOverlapsExceedQuota == storageUsed > storageLimit => quotaRaced \/ limitCut

(* The two together: the quota of the attachments that were answered.      *)
QuotaIsKept == UsedIsSum /\ OnlyOverlapsExceedQuota

(* Decrypted bytes stay reachable only while they are shown: every object  *)
(* URL of an effect that was cleaned up is revoked, when the download ends *)
(* after the view is gone too.                                             *)
UrlsAreReleased ==
  \A e \in Effects : effect[e].url = "live" => viewMounted /\ ~effect[e].cancelled

(* What they rest on.  The uploads counted so far; while none raced, one is *)
(* under way at most, and still fits unless the limit was cut.             *)
UploadsCounted == {u \in Uploads : In(u, {"counted", "linked"})}

CheckedAlone ==
  ~quotaRaced => \A u, v \in Uploads : UnderWay(u) /\ UnderWay(v) => u = v

CheckedFits ==
  ~quotaRaced /\ ~limitCut => /\ storageUsed <= storageLimit
                             /\ \A u \in Uploads : UnderWay(u) => Checked(u)

StorageInv ==
  /\ storageUsed \in Nat /\ storageLimit \in Nat
  /\ quotaRaced \in BOOLEAN /\ limitCut \in BOOLEAN
  /\ upload \in [Uploads -> Upload]
  /\ IsFiniteSet(UploadsCounted) /\ UsedIsSum
  /\ CheckedAlone /\ CheckedFits

(* A view that is gone has cancelled every run of its effect; a live URL   *)
(* belongs to a run that is not.                                           *)
ViewInv ==
  /\ viewMounted \in BOOLEAN /\ effect \in [Effects -> Effect]
  /\ \A e \in Effects : effect[e].pc # "none" /\ ~effect[e].cancelled => viewMounted
  /\ \A e \in Effects : effect[e].url = "live" => effect[e].pc = "shown"
  /\ \A e \in Effects : effect[e].pc = "waiting" => effect[e].attempt < 2
  /\ UrlsAreReleased
=================================================================================
