---------------------------------- MODULE Pins ----------------------------------
(***************************************************************************)
(* The pinned messages of one conversation: pinMessage, which reads the    *)
(* list and writes it back, and the list that each member's client shows.  *)
(*                                                                         *)
(* The client asks for a pin or an unpin by what it shows; the list        *)
(* arrives as the answer, as an event to every member's socket, and with   *)
(* the chat list.  The stored list has no duplicates and is shown in the   *)
(* order of the messages, so it is a set here.  Sources: server/src/       *)
(* services/conversation.service.ts, server/src/controllers/               *)
(* conversation.controller.ts, client/src/components/chat/ChatView.tsx     *)
(* and ChatList.tsx.                                                       *)
(*                                                                         *)
(* "Bug:" marks a definition that is not part of the specification: the    *)
(* next one with a plausible mistake, for checking the properties.         *)
(***************************************************************************)
EXTENDS Naturals, Sequences

CONSTANTS
  Pinners,    \* the members, one client each
  Pinnable,   \* messages
  NoPinnable,
  MaxNews     \* bound on the events on their way to a client

ASSUME PinBounds == NoPinnable \notin Pinnable /\ MaxNews \in Nat

VARIABLES
  pinned,     \* Conversation.pinnedMessageIds
  shownPins,  \* pinnedMessageIds of each client
  pinCall,    \* each client's POST .../pin
  news,       \* conversation:pinned_changed on its way to each client
  listening,  \* clients whose socket is connected
  pinList,    \* each client's GET /conversations
  asked,      \* pinned, had every request been served alone (for the properties)
  muddled     \* requests overlapped, one failed, or an event was missed (for the
              \* properties)

viewPins == <<shownPins, listening>>
pinVars  == <<pinned, viewPins, pinCall, news, pinList, asked, muddled>>

PinCall == [pc : {"idle", "asked", "read", "stored"}, message : Pinnable \union {NoPinnable},
            pin : BOOLEAN, list : SUBSET Pinnable]
PinList == [pc : {"idle", "asked", "read"}, list : SUBSET Pinnable]
NoPinCall == [pc |-> "idle", message |-> NoPinnable, pin |-> FALSE, list |-> {}]
NoPinList == [pc |-> "idle", list |-> {}]

PinsTypeOK ==
  /\ pinned \subseteq Pinnable /\ asked \subseteq Pinnable
  /\ shownPins \in [Pinners -> SUBSET Pinnable]
  /\ pinCall \in [Pinners -> PinCall] /\ pinList \in [Pinners -> PinList]
  /\ news \in [Pinners -> Seq(SUBSET Pinnable)] /\ \A u \in Pinners : Len(news[u]) <= MaxNews
  /\ listening \subseteq Pinners /\ muddled \in BOOLEAN

PinsInit ==
  /\ pinned = {} /\ asked = {} /\ muddled = FALSE
  /\ shownPins = [u \in Pinners |-> {}]
  /\ pinCall = [u \in Pinners |-> NoPinCall] /\ pinList = [u \in Pinners |-> NoPinList]
  /\ news = [u \in Pinners |-> <<>>] /\ listening = Pinners

NothingOnItsWay ==
  \A u \in Pinners : pinCall[u] = NoPinCall /\ pinList[u] = NoPinList /\ news[u] = <<>>

(* handlePinMessage, by what the client shows.  A request that starts      *)
(* alone settles the lists again.                                          *)
handlePinMessage(u, m) ==
  /\ pinCall[u] = NoPinCall
  /\ pinCall' = [pinCall EXCEPT ![u] = [pc |-> "asked", message |-> m, list |-> {},
                                        pin |-> m \notin shownPins[u]]]
  /\ muddled' = ~NothingOnItsWay
  /\ asked' = IF NothingOnItsWay THEN pinned ELSE asked
  /\ UNCHANGED <<pinned, viewPins, news, pinList>>

(* pinMessage, up to the list it found.                                    *)
PinsRead(u) ==
  /\ pinCall[u].pc = "asked"
  /\ pinCall' = [pinCall EXCEPT ![u].pc = "read", ![u].list = pinned]
  /\ UNCHANGED <<pinned, viewPins, news, pinList, asked, muddled>>

Changed(list, m, pin) == IF pin THEN list \union {m} ELSE list \ {m}

StoredList(u) == Changed(pinCall[u].list, pinCall[u].message, pinCall[u].pin)

(* Bug: the members are sent the list as it was found.                     *)
FoundList(u) == pinCall[u].list

SentList(u) == StoredList(u)

(* The list is written and the room is told; the answer follows.           *)
PinsWritten(u) ==
  /\ pinCall[u].pc = "read"
  /\ \A v \in listening : Len(news[v]) < MaxNews
  /\ pinned' = StoredList(u)
  /\ pinCall' = [pinCall EXCEPT ![u].pc = "stored", ![u].list = StoredList(u)]
  /\ news' = [v \in Pinners |-> IF v \in listening THEN Append(news[v], SentList(u)) ELSE news[v]]
  /\ asked' = Changed(asked, pinCall[u].message, pinCall[u].pin)
  /\ muddled' = (muddled \/ listening # Pinners)
  /\ UNCHANGED <<viewPins, pinList>>

PinAnswered(u) ==
  /\ pinCall[u].pc = "stored"
  /\ shownPins' = [shownPins EXCEPT ![u] = pinCall[u].list]
  /\ pinCall' = [pinCall EXCEPT ![u] = NoPinCall]
  /\ UNCHANGED <<pinned, listening, news, pinList, asked, muddled>>

(* The request is refused or lost, or its answer is.                       *)
PinFails(u) ==
  /\ pinCall[u].pc \in {"asked", "stored"}
  /\ pinCall' = [pinCall EXCEPT ![u] = NoPinCall]
  /\ muddled' = (muddled \/ pinCall[u].pc = "asked")
  /\ UNCHANGED <<pinned, viewPins, news, pinList, asked>>

handlePinnedChanged(u) ==
  /\ news[u] # <<>>
  /\ shownPins' = [shownPins EXCEPT ![u] = Head(news[u])]
  /\ news' = [news EXCEPT ![u] = Tail(@)]
  /\ UNCHANGED <<pinned, listening, pinCall, pinList, asked, muddled>>

(* A socket that goes takes the events on their way to it along.           *)
StopsListening(u) ==
  /\ u \in listening
  /\ listening' = listening \ {u} /\ news' = [news EXCEPT ![u] = <<>>]
  /\ muddled' = (muddled \/ news[u] # <<>>)
  /\ UNCHANGED <<pinned, shownPins, pinCall, pinList, asked>>

ListensAgain(u) ==
  /\ u \notin listening /\ listening' = listening \union {u}
  /\ UNCHANGED <<pinned, shownPins, pinCall, news, pinList, asked, muddled>>

(* fetchChats.                                                             *)
FetchPins(u) ==
  /\ pinList[u] = NoPinList
  /\ pinList' = [pinList EXCEPT ![u].pc = "asked"]
  /\ muddled' = (muddled \/ ~NothingOnItsWay)
  /\ UNCHANGED <<pinned, viewPins, pinCall, news, asked>>

PinsListed(u) ==
  /\ pinList[u].pc = "asked"
  /\ pinList' = [pinList EXCEPT ![u] = [pc |-> "read", list |-> pinned]]
  /\ UNCHANGED <<pinned, viewPins, pinCall, news, asked, muddled>>

PinsFetched(u) ==
  /\ pinList[u].pc = "read"
  /\ shownPins' = [shownPins EXCEPT ![u] = pinList[u].list]
  /\ pinList' = [pinList EXCEPT ![u] = NoPinList]
  /\ UNCHANGED <<pinned, listening, pinCall, news, asked, muddled>>

PinsNext ==
  \E u \in Pinners :
    \/ \E m \in Pinnable : handlePinMessage(u, m)
    \/ PinsRead(u) \/ PinsWritten(u) \/ PinAnswered(u) \/ PinFails(u)
    \/ handlePinnedChanged(u) \/ StopsListening(u) \/ ListensAgain(u)
    \/ FetchPins(u) \/ PinsListed(u) \/ PinsFetched(u)

PinsSpec == PinsInit /\ [][PinsNext]_pinVars

(***************************************************************************)
(* Properties.                                                             *)
(***************************************************************************)

(* Every pin and unpin is kept, and at rest all members see the list that  *)
(* is stored, though each client decides by its own list which of the two  *)
(* to ask for; except after requests that overlapped, which may cost a     *)
(* pin, or a request or event that was lost, until a request runs alone.   *)
PinsAgree ==
  ~muddled =>
    /\ pinned = asked
    /\ NothingOnItsWay => \A u \in Pinners : shownPins[u] = pinned

(* What it rests on: while nothing is muddled, one request is under way at *)
(* most, no event is on its way before it is written, and then each member *)
(* shows the stored list or is about to be told it.                        *)
Told(v) == (news[v] = <<>> /\ shownPins[v] = pinned) \/ news[v] = <<pinned>>

OneRequest ==
  /\ \A u, v \in Pinners : pinCall[u] # NoPinCall /\ pinCall[v] # NoPinCall => u = v
  /\ \A u, v \in Pinners : pinList[u] # NoPinList /\ pinList[v] # NoPinList => u = v
  /\ \A u, v \in Pinners : pinList[u] # NoPinList => pinCall[v] = NoPinCall /\ news[v] = <<>>

RequestsReadPins ==
  /\ \A u \in Pinners :
       /\ pinCall[u].pc \in {"read", "stored"} => pinCall[u].list = pinned
       /\ pinList[u].pc = "read" => pinList[u].list = pinned
  /\ \A u, v \in Pinners : pinCall[u].pc \in {"asked", "read"} => news[v] = <<>>
  /\ (\A u \in Pinners : pinCall[u].pc \notin {"asked", "read"}) => \A v \in Pinners : Told(v)

RequestsNameOne ==
  \A u \in Pinners : pinCall[u].pc # "idle" => pinCall[u].message \in Pinnable

PinsInv ==
  /\ PinsTypeOK /\ RequestsNameOne
  /\ (~muddled => pinned = asked /\ OneRequest /\ RequestsReadPins)
=============================================================================
