------------------------ MODULE ConversationKeysProofs ------------------------
(***************************************************************************)
(* Theorems about ConversationKeys for any number of users, devices and    *)
(* requests.                                                               *)
(***************************************************************************)
EXTENDS ConversationKeys, TLAPS

(***************************************************************************)
(* Type correctness.                                                       *)
(***************************************************************************)

LEMMA NoWrapType == NoWrap \in Wrap
  BY BoundAssumption DEF NoWrap, Wrap, CK

LEMMA UnsentType == Unsent \in Request /\ Failed \in Request
  BY BoundAssumption, CreatorAssumption, OwnerAssumption
     DEF Unsent, Failed, Blank, Request, CK, Identities

(* The server moves a request on, or completes what it carries.            *)
LEMMA RequestUpdateType ==
  ASSUME NEW q \in Request,
         NEW pc \in {"unsent", "read", "tx", "committed", "failed"},
         NEW v \in 0..MaxVersion, NEW to \in SUBSET Users
  PROVE  /\ [q EXCEPT !.pc = pc] \in Request
         /\ [q EXCEPT !.pc = pc, !.version = v] \in Request
         /\ [q EXCEPT !.pc = pc, !.to = to, !.version = v] \in Request
  BY DEF Request

LEMMA WrapForType ==
  ASSUME TypeOK, NEW r \in Requests, NEW u \in Users
  PROVE  /\ WrapFor(r, u) \in Wrap /\ WrapFor(r, u).ck = req[r].ck
         /\ WrapFor(r, u).ik = req[r].bundles[u] /\ WrapFor(r, u) # NoWrap
  <1>1. /\ req[r].ck \in CK /\ req[r].bundles[u] \in 0..MaxIdentity
        /\ req[r].bundles[u] # 0
    BY BoundAssumption DEF TypeOK, Request, Identities
  <1> QED
    BY <1>1 DEF WrapFor, Wrap, NoWrap

LEMMA InsertType ==
  ASSUME TypeOK, NEW r \in Requests, NEW v \in 0..MaxVersion
  PROVE  /\ Insert(r, v) \in [Users -> [Versions -> Wrap]]
         /\ InsertSkippingDuplicates(r, v) \in [Users -> [Versions -> Wrap]]
  BY WrapForType DEF TypeOK, Insert, InsertSkippingDuplicates

LEMMA OpenIntoType ==
  ASSUME TypeOK, NEW d \in Devices
  PROVE  OpenInto(d) \in [Versions -> CK]
  <1>1. Owner[d] \in Users
    BY OwnerAssumption
  <1>2. \A v \in Versions : keys[Owner[d]][v].ck \in CK /\ cache[d][v] \in CK
    BY <1>1 DEF TypeOK, Wrap
  <1>3. QED
    BY <1>2 DEF OpenInto

LEMMA TypeStep == TypeOK /\ [Next]_vars => TypeOK'
  <1> SUFFICES ASSUME TypeOK, [Next]_vars
               PROVE  TypeOK'
    OBVIOUS
  <1> USE BoundAssumption, OwnerAssumption, CreatorAssumption
  <1>1. ASSUME NEW r \in Requests, NEW U \in SUBSET Users, StartCreate(r, U)
        PROVE  TypeOK'
    BY <1>1 DEF StartCreate, TypeOK, serverVars, clientVars,
                     Sent, Request, CK
  <1>2. ASSUME NEW r \in Requests, NEW d \in Devices,
               NEW U \in SUBSET Users, NEW v \in Versions, StartAdd(r, d, U, v)
        PROVE  TypeOK'
    BY <1>2 DEF StartAdd, TypeOK, serverVars, clientVars,
                     Sent, Request, CK
  <1>3. ASSUME NEW r \in Requests, NEW d \in Devices, NEW u \in Users,
               StartRemove(r, d, u)
        PROVE  TypeOK'
    BY <1>3 DEF StartRemove, TypeOK, serverVars, clientVars,
                     Sent, Request, CK
  <1>4. ASSUME NEW r \in Requests, CreateCommit(r)
        PROVE  TypeOK'
    <2>1. 1 \in Versions /\ req[r] \in Request
      BY DEF Versions, TypeOK
    <2>2. keys' \in [Users -> [Versions -> Wrap]]
      BY <1>4, <2>1, InsertType DEF CreateCommit
    <2>3. role' \in [Users -> Role]
      BY <1>4 DEF CreateCommit, Role
    <2>4. cache' \in [Devices -> [Versions -> CK]]
      BY <1>4, <2>1 DEF CreateCommit, TypeOK, Request
    <2>5. req' \in [Requests -> Request] /\ currentKeyVersion' \in 0..MaxVersion
      <3>1. 1 \in 0..MaxVersion
        OBVIOUS
      <3>2. [req[r] EXCEPT !.pc = "committed", !.version = 1] \in Request
        BY <2>1, <3>1, RequestUpdateType
      <3> QED
        BY <1>4, <3>1, <3>2 DEF CreateCommit, TypeOK
    <2> QED
      BY <1>4, <2>2, <2>3, <2>4, <2>5 DEF CreateCommit, TypeOK
  <1>5. ASSUME NEW r \in Requests, AddRead(r)
        PROVE  TypeOK'
    <2>1. req' \in [Requests -> Request]
      BY <1>5, RequestUpdateType DEF AddRead, TypeOK
    <2> QED
      BY <1>5, <2>1 DEF AddRead, TypeOK, serverVars, clientVars
  <1>6. ASSUME NEW r \in Requests, AddCommit(r)
        PROVE  TypeOK'
    <2>1. req' \in [Requests -> Request]
      BY <1>6, RequestUpdateType DEF AddCommit, TypeOK
    <2>2. role' \in [Users -> Role]
      BY <1>6 DEF AddCommit, TypeOK, Role
    <2>3. keys' \in [Users -> [Versions -> Wrap]]
      BY <1>6, InsertType DEF AddCommit, TypeOK, Request
    <2> QED
      BY <1>6, <2>1, <2>2, <2>3 DEF AddCommit, TypeOK, clientVars
  <1>7. ASSUME NEW r \in Requests, RemoveRead(r)
        PROVE  TypeOK'
    <2>1. req' \in [Requests -> Request]
      <3>1. PICK to \in SUBSET Users :
              req' = [req EXCEPT ![r] =
                        [@ EXCEPT !.pc = "tx", !.to = to,
                                  !.version = currentKeyVersion + 1]]
        BY <1>7 DEF RemoveRead
      <3>2. currentKeyVersion + 1 \in 0..MaxVersion /\ req[r] \in Request
        BY <1>7 DEF RemoveRead, TypeOK
      <3>3. [req[r] EXCEPT !.pc = "tx", !.to = to,
                           !.version = currentKeyVersion + 1] \in Request
        BY <3>2, RequestUpdateType
      <3> QED
        BY <3>1, <3>3 DEF TypeOK
    <2> QED
      BY <1>7, <2>1 DEF RemoveRead, TypeOK, serverVars, clientVars
  <1>8. ASSUME NEW r \in Requests, RemoveCommit(r)
        PROVE  TypeOK'
    <2>1. req' \in [Requests -> Request]
      BY <1>8, RequestUpdateType DEF RemoveCommit, TypeOK
    <2>2. req[r].version \in 0..MaxVersion /\ req[r].target \in Users
      BY DEF TypeOK, Request
    <2>3. keys' \in [Users -> [Versions -> Wrap]]
      BY <1>8, <2>2, InsertType DEF RemoveCommit
    <2> QED
      BY <1>8, <2>1, <2>2, <2>3 DEF RemoveCommit, TypeOK, clientVars
  <1>9. ASSUME NEW r \in Requests, RemoveAbort(r)
        PROVE  TypeOK'
    BY <1>9, UnsentType DEF RemoveAbort, TypeOK, serverVars, clientVars
  <1>10. ASSUME NEW u \in Users, LeaveGroup(u)
         PROVE  TypeOK'
    BY <1>10 DEF LeaveGroup, TypeOK, clientVars
  <1>11. ASSUME NEW d \in Devices, BeginFetch(d) \/ FinishFetch(d)
         PROVE  TypeOK'
    BY <1>11, OpenIntoType DEF BeginFetch, FinishFetch, TypeOK, serverVars
  <1>12. ASSUME NEW d \in Devices, LostReset(d)
         PROVE  TypeOK'
    BY <1>12, NoWrapType DEF LostReset, TypeOK, Identities, CK
  <1>13. CASE UNCHANGED vars
    BY <1>13 DEF vars, TypeOK
  <1> QED
    BY <1>1, <1>2, <1>3, <1>4, <1>5, <1>6, <1>7, <1>8, <1>9, <1>10,
       <1>11, <1>12, <1>13 DEF Next

(* Every reachable state is well typed.                                    *)
THEOREM TypeCorrect == Spec => []TypeOK
  <1>1. Init => TypeOK
    BY BoundAssumption, NoWrapType, UnsentType
       DEF Init, TypeOK, Role, Identities, CK
  <1> QED
    BY <1>1, TypeStep, PTL DEF Spec

(***************************************************************************)
(* The inductive invariant, conjunct by conjunct.                          *)
(***************************************************************************)

(* An identity key is only ever replaced by a later one.                   *)
LEMMA IdentityGrows ==
  ASSUME TypeOK, [Next]_vars
  PROVE  \A u \in Users : identity[u] \in Nat /\ identity'[u] \in Nat
                            /\ identity[u] <= identity'[u]
  <1>1. \A u \in Users : identity[u] \in Nat
    BY BoundAssumption DEF TypeOK, Identities
  <1>2. CASE \E d \in Devices : LostReset(d)
    BY <1>1, <1>2 DEF LostReset, TypeOK
  <1>3. CASE identity' = identity
    BY <1>1, <1>3
  <1>4. identity' = identity \/ \E d \in Devices : LostReset(d)
    BY DEF Next, vars, StartCreate, CreateCommit, StartAdd, AddRead, AddCommit,
           StartRemove, RemoveRead, RemoveCommit, RemoveAbort, LeaveGroup,
           BeginFetch, FinishFetch
  <1> QED
    BY <1>2, <1>3, <1>4

(* What reading and committing change in the requests.                     *)
SameRequest(r) ==
  /\ \A q \in Requests : q # r => req'[q] = req[q]
  /\ req'[r].op = req[r].op /\ req'[r].dev = req[r].dev
  /\ req'[r].ck = req[r].ck /\ req'[r].bundles = req[r].bundles
  /\ req'[r].target = req[r].target

LEMMA ReadFrame ==
  ASSUME TypeOK, TypeOK', NEW r \in Requests, AddRead(r) \/ RemoveRead(r)
  PROVE  SameRequest(r) /\ req[r].pc = "read" /\ req'[r].pc = "tx"
  <1>1. req[r] \in Request /\ req'[r] \in Request
    BY DEF TypeOK
  <1>2. \A q \in Requests : q # r => req'[q] = req[q]
    BY DEF TypeOK, AddRead, RemoveRead
  <1>3. req[r].pc = "read"
    BY DEF AddRead, RemoveRead
  <1>4. CASE AddRead(r)
    <2>1. req'[r] = [req[r] EXCEPT !.pc = "tx", !.version = currentKeyVersion]
      BY <1>4 DEF AddRead, TypeOK
    <2>2. SameRequest(r) /\ req'[r].pc = "tx"
      BY <1>1, <1>2, <2>1 DEF Request, SameRequest
    <2> QED
      BY <1>3, <2>2
  <1>5. CASE RemoveRead(r)
    <2>1. PICK to \in SUBSET Users :
            req' = [req EXCEPT ![r] =
                      [@ EXCEPT !.pc = "tx", !.to = to,
                                !.version = currentKeyVersion + 1]]
      BY <1>5 DEF RemoveRead
    <2>2. req'[r] = [req[r] EXCEPT !.pc = "tx", !.to = to,
                                   !.version = currentKeyVersion + 1]
      BY <2>1 DEF TypeOK
    <2>3. SameRequest(r) /\ req'[r].pc = "tx"
      BY <1>1, <1>2, <2>2 DEF Request, SameRequest
    <2> QED
      BY <1>3, <2>3
  <1> QED
    BY <1>4, <1>5

LEMMA CommitFrame ==
  ASSUME TypeOK, TypeOK', NEW r \in Requests,
         CreateCommit(r) \/ AddCommit(r) \/ RemoveCommit(r)
  PROVE  /\ SameRequest(r) /\ req'[r].to = req[r].to
         /\ req[r].op # "create" => req'[r].version = req[r].version
         /\ req[r].pc = "tx" /\ req'[r].pc = "committed"
  <1>1. req[r] \in Request /\ req'[r] \in Request
    BY DEF TypeOK
  <1>2. \A q \in Requests : q # r => req'[q] = req[q]
    BY DEF TypeOK, CreateCommit, AddCommit, RemoveCommit
  <1>3. req[r].pc = "tx"
    BY DEF CreateCommit, AddCommit, RemoveCommit
  <1>4. CASE CreateCommit(r)
    <2>1. req'[r] = [req[r] EXCEPT !.pc = "committed", !.version = 1]
      BY <1>4 DEF CreateCommit, TypeOK
    <2>2. SameRequest(r) /\ req'[r].to = req[r].to /\ req'[r].pc = "committed"
      BY <1>1, <1>2, <2>1 DEF Request, SameRequest
    <2>3. req[r].op = "create"
      BY <1>4 DEF CreateCommit
    <2> QED
      BY <1>3, <2>2, <2>3
  <1>5. CASE AddCommit(r) \/ RemoveCommit(r)
    <2>1. req'[r] = [req[r] EXCEPT !.pc = "committed"]
      BY <1>5 DEF AddCommit, RemoveCommit, TypeOK
    <2>2. /\ SameRequest(r) /\ req'[r].to = req[r].to
          /\ req'[r].pc = "committed" /\ req'[r].version = req[r].version
      BY <1>1, <1>2, <2>1 DEF Request, SameRequest
    <2> QED
      BY <1>3, <2>2
  <1> QED
    BY <1>4, <1>5

(* A rotation and a creation never commit in one step.                     *)
LEMMA RotationAlone ==
  ASSUME TypeOK, TypeOK', NEW r \in Requests, RemoveCommit(r), NEW q \in Requests
  PROVE  ~CreateCommit(q)
  <1>1. CASE q = r
    BY <1>1 DEF RemoveCommit, CreateCommit
  <1>2. ASSUME q # r, CreateCommit(q)
        PROVE  FALSE
    <2>1. req'[q] = req[q]
      BY <1>2, CommitFrame DEF SameRequest
    <2>2. req[q].pc = "tx" /\ req'[q].pc = "committed"
      BY <1>2, CommitFrame
    <2> QED
      BY <2>1, <2>2
  <1> QED
    BY <1>1, <1>2

(* The rest of what removeMember's read stores.                            *)
LEMMA RemoveReadEffect ==
  ASSUME TypeOK, TypeOK', NEW r \in Requests, RemoveRead(r)
  PROVE  /\ req'[r].to = {u \in Users : Active(u)} \ {req[r].target}
         /\ req'[r].version = currentKeyVersion + 1
         /\ currentKeyVersion \in Nat
  <1>1. PICK to \in SUBSET Users :
          /\ to = {u \in Users : Active(u)} \ {req[r].target}
          /\ req' = [req EXCEPT ![r] =
                      [@ EXCEPT !.pc = "tx", !.to = to,
                                !.version = currentKeyVersion + 1]]
    BY DEF RemoveRead, ShareSetOK
  <1>2. req'[r] = [req[r] EXCEPT !.pc = "tx", !.to = to,
                                 !.version = currentKeyVersion + 1]
    BY <1>1 DEF TypeOK
  <1>3. req[r] \in Request /\ currentKeyVersion \in Nat
    BY BoundAssumption DEF TypeOK
  <1> QED
    BY <1>1, <1>2, <1>3 DEF Request

LEMMA RequestsWellFormedStep ==
  ASSUME IInv, TypeOK', [Next]_vars
  PROVE  RequestsWellFormed'
  <1> USE DEF IInv
  <1>1. /\ \A u \in Users : identity[u] \in Nat /\ identity'[u] \in Nat
                            /\ identity[u] <= identity'[u]
        /\ \A q \in Requests, u \in Users : req[q].bundles[u] \in Nat
    BY IdentityGrows DEF TypeOK, Request, Identities
  <1>2. CASE req' = req
    BY <1>1, <1>2 DEF RequestsWellFormed
  <1>3. ASSUME NEW r \in Requests, NEW U \in SUBSET Users, StartCreate(r, U)
        PROVE  RequestsWellFormed'
    BY <1>1, <1>3 DEF StartCreate, Sent, RequestsWellFormed, TypeOK
  <1>4. ASSUME NEW r \in Requests, NEW d \in Devices,
               NEW U \in SUBSET Users, NEW v \in Versions, StartAdd(r, d, U, v)
        PROVE  RequestsWellFormed'
    BY <1>1, <1>4 DEF StartAdd, Sent, RequestsWellFormed, TypeOK
  <1>5. ASSUME NEW r \in Requests, NEW d \in Devices, NEW u \in Users,
               StartRemove(r, d, u)
        PROVE  RequestsWellFormed'
    BY <1>1, <1>5 DEF StartRemove, Sent, RequestsWellFormed, TypeOK
  <1>6. ASSUME NEW r \in Requests, CreateCommit(r)
        PROVE  RequestsWellFormed'
    BY <1>1, <1>6 DEF CreateCommit, RequestsWellFormed, TypeOK, Request
  <1>7. ASSUME NEW r \in Requests, AddRead(r)
        PROVE  RequestsWellFormed'
    <2>1. currentKeyVersion >= 1
      BY <1>7 DEF AddRead, CreatedOnce
    <2> QED
      BY <1>1, <1>7, <2>1 DEF AddRead, RequestsWellFormed, TypeOK, Request
  <1>8. ASSUME NEW r \in Requests, AddCommit(r)
        PROVE  RequestsWellFormed'
    BY <1>1, <1>8 DEF AddCommit, RequestsWellFormed, TypeOK, Request
  <1>9. ASSUME NEW r \in Requests, RemoveRead(r)
        PROVE  RequestsWellFormed'
    <2>1. req[r].op = "remove" /\ identity' = identity
      BY <1>9 DEF RemoveRead
    <2>2. currentKeyVersion >= 1
      BY <2>1 DEF CreatedOnce
    <2>3. SameRequest(r) /\ req'[r].pc = "tx"
      BY <1>9, ReadFrame
    <2>4. req'[r].version >= 2 /\ req[r].target \notin req'[r].to
      BY <1>9, <2>2, RemoveReadEffect
    <2> QED
      BY <1>1, <2>1, <2>3, <2>4 DEF SameRequest, RequestsWellFormed
  <1>10. ASSUME NEW r \in Requests, RemoveCommit(r)
        PROVE  RequestsWellFormed'
    BY <1>1, <1>10 DEF RemoveCommit, RequestsWellFormed, TypeOK, Request
  <1>11. ASSUME NEW r \in Requests, RemoveAbort(r)
        PROVE  RequestsWellFormed'
    <2>1. \A u \in Users : 1 <= identity'[u]
      BY <1>11, BoundAssumption DEF RemoveAbort, TypeOK, Identities
    <2> QED
      BY <1>1, <1>11, <2>1
         DEF RemoveAbort, Failed, Blank, RequestsWellFormed, TypeOK
  <1> QED
    BY <1>2, <1>3, <1>4, <1>5, <1>6, <1>7, <1>8, <1>9, <1>10, <1>11
       DEF Next, vars, LeaveGroup, BeginFetch, FinishFetch, LostReset

LEMMA CreatedOnceStep ==
  ASSUME IInv, TypeOK', [Next]_vars
  PROVE  CreatedOnce'
  <1> USE DEF IInv
  <1>1. CASE UNCHANGED <<req, role, currentKeyVersion>> /\ keys' = keys
    BY <1>1 DEF CreatedOnce, Creates
  <1>2. ASSUME NEW r \in Requests, NEW U \in SUBSET Users, StartCreate(r, U)
        PROVE  CreatedOnce'
    BY <1>2 DEF StartCreate, Sent, CreatedOnce, Creates, TypeOK, serverVars
  <1>3. ASSUME NEW r \in Requests, NEW d \in Devices,
               NEW U \in SUBSET Users, NEW v \in Versions, StartAdd(r, d, U, v)
        PROVE  CreatedOnce'
    <2>1. Creates # {}
      BY <1>3, OwnerAssumption DEF StartAdd, IsAdmin, CreatedOnce
    <2> QED
      BY <1>3, <2>1 DEF StartAdd, Sent, CreatedOnce, Creates, TypeOK, serverVars,
                        RequestsWellFormed
  <1>4. ASSUME NEW r \in Requests, NEW d \in Devices, NEW u \in Users,
               StartRemove(r, d, u)
        PROVE  CreatedOnce'
    <2>1. Creates # {}
      BY <1>4, OwnerAssumption DEF StartRemove, IsAdmin, CreatedOnce
    <2> QED
      BY <1>4, <2>1 DEF StartRemove, Sent, CreatedOnce, Creates, TypeOK, serverVars,
                        RequestsWellFormed
  <1>5. ASSUME NEW r \in Requests, CreateCommit(r)
        PROVE  CreatedOnce'
    BY <1>5 DEF CreateCommit, CreatedOnce, Creates, TypeOK, Request
  <1>6. ASSUME NEW r \in Requests, AddRead(r) \/ RemoveRead(r)
        PROVE  CreatedOnce'
    <2>1. Creates' = Creates /\ UNCHANGED serverVars
      <3>1. \A q \in Requests : /\ req'[q].op = req[q].op
                                /\ req'[q].pc = "committed" <=> req[q].pc = "committed"
        BY <1>6, ReadFrame DEF SameRequest
      <3> QED
        BY <1>6, <3>1 DEF AddRead, RemoveRead, Creates
    <2>2. \A q \in Requests : req'[q].op = req[q].op
      BY <1>6, ReadFrame DEF SameRequest
    <2> QED
      BY <2>1, <2>2 DEF CreatedOnce, serverVars
  <1>7. ASSUME NEW r \in Requests, AddCommit(r) \/ RemoveCommit(r)
        PROVE  CreatedOnce'
    <2>1. Creates # {} /\ currentKeyVersion >= 1
      BY <1>7 DEF AddCommit, RemoveCommit, CreatedOnce
    <2>2. currentKeyVersion' >= 1
      <3>1. CASE AddCommit(r)
        BY <2>1, <3>1 DEF AddCommit
      <3>2. CASE RemoveCommit(r)
        <4>1. req[r].version >= 2 /\ currentKeyVersion' = req[r].version
          BY <3>2 DEF RemoveCommit, RequestsWellFormed
        <4>2. req[r].version \in Nat
          BY DEF TypeOK, Request
        <4> QED
          BY <4>1, <4>2
      <3> QED
        BY <1>7, <3>1, <3>2
    <2>3. \A q \in Requests : req'[q].op = req[q].op
      BY <1>7, CommitFrame DEF SameRequest
    <2>4. Creates' = Creates
      BY <1>7, CommitFrame DEF AddCommit, RemoveCommit, Creates, SameRequest
    <2> QED
      BY <2>1, <2>2, <2>3, <2>4 DEF CreatedOnce
  <1>8. ASSUME NEW r \in Requests, RemoveAbort(r)
        PROVE  CreatedOnce'
    BY <1>8 DEF RemoveAbort, Failed, Blank, CreatedOnce, Creates, TypeOK,
                serverVars
  <1>9. ASSUME NEW d \in Devices, LostReset(d)
        PROVE  CreatedOnce'
    BY <1>9, OwnerAssumption DEF LostReset, CreatedOnce, Creates, TypeOK
  <1> QED
    BY <1>1, <1>2, <1>3, <1>4, <1>5, <1>6, <1>7, <1>8, <1>9
       DEF Next, vars, serverVars, LeaveGroup, BeginFetch, FinishFetch

(* A committed request is never touched again.                             *)
LEMMA CommittedStay ==
  ASSUME IInv, TypeOK', [Next]_vars, NEW r \in Committed
  PROVE  req'[r] = req[r] /\ r \in Committed'
  <1> USE DEF IInv
  <1>1. CASE req' = req
    BY <1>1 DEF Committed
  <1>2. ASSUME NEW q \in Requests, req[q].pc # "committed",
               \A p \in Requests : p # q => req'[p] = req[p]
        PROVE  req'[r] = req[r]
    BY <1>2 DEF Committed
  <1>3. ASSUME req'[r] = req[r]
        PROVE  r \in Committed'
    BY <1>3 DEF Committed
  <1>4. ASSUME NEW q \in Requests, NEW U \in SUBSET Users, StartCreate(q, U)
        PROVE  req'[r] = req[r]
    BY <1>2, <1>4 DEF StartCreate, TypeOK
  <1>5. ASSUME NEW q \in Requests, NEW d \in Devices,
               NEW U \in SUBSET Users, NEW v \in Versions, StartAdd(q, d, U, v)
        PROVE  req'[r] = req[r]
    BY <1>2, <1>5 DEF StartAdd, TypeOK
  <1>6. ASSUME NEW q \in Requests, NEW d \in Devices, NEW u \in Users,
               StartRemove(q, d, u)
        PROVE  req'[r] = req[r]
    BY <1>2, <1>6 DEF StartRemove, TypeOK
  <1>7. ASSUME NEW q \in Requests, AddRead(q) \/ RemoveRead(q)
        PROVE  req'[r] = req[r]
    BY <1>2, <1>7, ReadFrame DEF SameRequest
  <1>8. ASSUME NEW q \in Requests,
               CreateCommit(q) \/ AddCommit(q) \/ RemoveCommit(q)
        PROVE  req'[r] = req[r]
    BY <1>2, <1>8, CommitFrame DEF SameRequest
  <1>9. ASSUME NEW q \in Requests, RemoveAbort(q)
        PROVE  req'[r] = req[r]
    BY <1>2, <1>9 DEF RemoveAbort, TypeOK
  <1> QED
    BY <1>1, <1>3, <1>4, <1>5, <1>6, <1>7, <1>8, <1>9
       DEF Next, vars, LeaveGroup, BeginFetch, FinishFetch, LostReset

(* The rows an insert leaves in the table.                                 *)
LEMMA InsertRows ==
  ASSUME TypeOK, NEW r \in Requests, NEW v \in 0..MaxVersion
  PROVE  \A u \in Users, w \in Versions :
           /\ Insert(r, v)[u][w] =
                IF w = v /\ u \in req[r].to THEN WrapFor(r, u) ELSE keys[u][w]
           /\ InsertSkippingDuplicates(r, v)[u][w] =
                IF w = v /\ u \in req[r].to /\ keys[u][v] = NoWrap
                THEN WrapFor(r, u) ELSE keys[u][w]
  BY DEF TypeOK, Insert, InsertSkippingDuplicates

LEMMA SealedToGrows ==
  ASSUME IInv, TypeOK', [Next]_vars, NEW u \in Users, NEW k, SealedTo(u, k)
  PROVE  SealedTo(u, k)'
  BY CommittedStay DEF SealedTo

LEMMA KeysWereSealedStep ==
  ASSUME IInv, TypeOK', [Next]_vars
  PROVE  KeysWereSealed'
  <1> USE DEF IInv
  <1>1. \A u \in Users, k \in Requests : SealedTo(u, k) => SealedTo(u, k)'
    BY SealedToGrows
  <1>2. /\ \A u \in Users, v \in Versions : keys[u][v].ck \in CK
        /\ \A d \in Devices, v \in Versions : cache[d][v] \in CK
        /\ \A d \in Devices : Owner[d] \in Users
    BY OwnerAssumption DEF TypeOK, Wrap
  <1>3. CASE keys' = keys /\ cache' = cache
    BY <1>1, <1>2, <1>3 DEF KeysWereSealed, CK
  <1>4. ASSUME NEW r \in Requests, CreateCommit(r)
        PROVE  KeysWereSealed'
    <2>1. r \in Committed' /\ req'[r].ck = req[r].ck /\ req'[r].to = req[r].to
      BY <1>4, CommitFrame DEF Committed, SameRequest
    <2>2. \A u \in Users, v \in Versions :
            \/ keys'[u][v] = keys[u][v]
            \/ u \in req[r].to /\ keys'[u][v].ck = req[r].ck
      <3>1. keys' = Insert(r, 1) /\ 1 \in 0..MaxVersion
        BY <1>4, BoundAssumption DEF CreateCommit
      <3>2. \A u \in Users, w \in Versions : Insert(r, 1)[u][w] =
                IF w = 1 /\ u \in req[r].to THEN WrapFor(r, u) ELSE keys[u][w]
        BY <3>1, InsertRows
      <3>3. \A u \in Users, w \in Versions : keys'[u][w] =
                IF w = 1 /\ u \in req[r].to THEN WrapFor(r, u) ELSE keys[u][w]
        BY <3>1, <3>2
      <3> QED
        BY <3>3, WrapForType
    <2>3. \A d \in Devices, v \in Versions :
            \/ cache'[d][v] = cache[d][v]
            \/ Owner[d] \in req[r].to /\ cache'[d][v] = req[r].ck
      BY <1>4 DEF CreateCommit, TypeOK, RequestsWellFormed
    <2> QED
      BY <1>1, <1>2, <2>1, <2>2, <2>3 DEF KeysWereSealed, SealedTo, CK
  <1>5. ASSUME NEW r \in Requests, AddCommit(r) \/ RemoveCommit(r)
        PROVE  KeysWereSealed'
    <2>1. r \in Committed' /\ req'[r].ck = req[r].ck /\ req'[r].to = req[r].to
      BY <1>5, CommitFrame DEF Committed, SameRequest
    <2>2. \A u \in Users, v \in Versions :
            \/ keys'[u][v] = keys[u][v]
            \/ u \in req[r].to /\ keys'[u][v].ck = req[r].ck
      <3>1. req[r].version \in 0..MaxVersion
        BY DEF TypeOK, Request
      <3>2. \/ keys' = Insert(r, req[r].version)
            \/ keys' = InsertSkippingDuplicates(r, req[r].version)
        BY <1>5 DEF AddCommit, RemoveCommit
      <3>3. \A u \in Users, w \in Versions :
              keys'[u][w] = keys[u][w]
              \/ (u \in req[r].to /\ keys'[u][w] = WrapFor(r, u))
        BY <3>1, <3>2, InsertRows
      <3> QED
        BY <3>3, WrapForType
    <2>3. cache' = cache
      BY <1>5 DEF AddCommit, RemoveCommit, clientVars
    <2> QED
      BY <1>1, <1>2, <2>1, <2>2, <2>3 DEF KeysWereSealed, SealedTo, CK
  <1>6. ASSUME NEW d \in Devices, FinishFetch(d)
        PROVE  KeysWereSealed'
    <2>1. keys' = keys
      BY <1>6 DEF FinishFetch, serverVars
    <2>2. \A p \in Devices, v \in Versions :
            cache'[p][v] = cache[p][v] \/ cache'[p][v] = keys[Owner[p]][v].ck
      BY <1>6 DEF FinishFetch, OpenInto, TypeOK
    <2> QED
      BY <1>1, <1>2, <2>1, <2>2 DEF KeysWereSealed, CK
  <1>7. ASSUME NEW d \in Devices, LostReset(d)
        PROVE  KeysWereSealed'
    <2>1. \A u \in Users, v \in Versions :
            keys'[u][v] = keys[u][v] \/ keys'[u][v].ck = NoCK
      BY <1>7 DEF LostReset, TypeOK, NoWrap
    <2>2. \A p \in Devices, v \in Versions :
            cache'[p][v] = cache[p][v] \/ cache'[p][v] = NoCK
      BY <1>7 DEF LostReset, TypeOK
    <2> QED
      BY <1>1, <1>2, <2>1, <2>2 DEF KeysWereSealed, CK
  <1> QED
    BY <1>3, <1>4, <1>5, <1>6, <1>7
       DEF Next, vars, serverVars, clientVars, StartCreate, StartAdd, StartRemove,
           AddRead, RemoveRead, RemoveAbort, LeaveGroup, BeginFetch

(* Which steps a request takes.                                            *)
LEMMA RequestMoves ==
  ASSUME IInv, TypeOK', [Next]_vars, NEW r \in Requests, req'[r] # req[r]
  PROVE  \/ CreateCommit(r) \/ AddRead(r) \/ AddCommit(r)
         \/ RemoveRead(r) \/ RemoveCommit(r)
         \/ req'[r] = Failed
         \/ req'[r].op = "create" /\ req'[r].pc = "tx"
         \/ /\ req'[r].op \in {"add", "remove"} /\ req'[r].pc = "read"
            /\ req'[r].bundles = identity /\ identity' = identity
  <1> USE DEF IInv
  <1>1. ASSUME NEW q \in Requests, \/ CreateCommit(q) \/ AddRead(q) \/ AddCommit(q)
                                   \/ RemoveRead(q) \/ RemoveCommit(q)
        PROVE  q = r
    BY <1>1, ReadFrame, CommitFrame DEF SameRequest
  <1>2. ASSUME NEW q \in Requests, RemoveAbort(q)
        PROVE  req'[r] = Failed
    BY <1>2 DEF RemoveAbort, TypeOK
  <1>3. ASSUME NEW q \in Requests, NEW U \in SUBSET Users, StartCreate(q, U)
        PROVE  req'[r].op = "create" /\ req'[r].pc = "tx"
    BY <1>3 DEF StartCreate, Sent, TypeOK
  <1>4. ASSUME NEW q \in Requests, NEW d \in Devices,
               NEW U \in SUBSET Users, NEW v \in Versions, StartAdd(q, d, U, v)
        PROVE  /\ req'[r].op \in {"add", "remove"} /\ req'[r].pc = "read"
               /\ req'[r].bundles = identity /\ identity' = identity
    BY <1>4 DEF StartAdd, Sent, TypeOK
  <1>5. ASSUME NEW q \in Requests, NEW d \in Devices, NEW u \in Users,
               StartRemove(q, d, u)
        PROVE  /\ req'[r].op \in {"add", "remove"} /\ req'[r].pc = "read"
               /\ req'[r].bundles = identity /\ identity' = identity
    BY <1>5 DEF StartRemove, Sent, TypeOK
  <1> QED
    BY <1>1, <1>2, <1>3, <1>4, <1>5
       DEF Next, vars, LeaveGroup, BeginFetch, FinishFetch, LostReset

LEMMA NewlyCommitted ==
  ASSUME IInv, TypeOK', [Next]_vars, NEW r \in Committed', r \notin Committed
  PROVE  CreateCommit(r) \/ AddCommit(r) \/ RemoveCommit(r)
  <1>1. r \in Requests /\ req'[r] # req[r] /\ req'[r].pc = "committed"
    BY DEF Committed
  <1>2. Failed.pc # "committed"
    BY DEF Failed, Blank
  <1>3. ~AddRead(r) /\ ~RemoveRead(r)
    BY <1>1, ReadFrame DEF IInv
  <1> QED
    BY <1>1, <1>2, <1>3, RequestMoves

LEMMA EvictedAreRemovedStep ==
  ASSUME IInv, TypeOK', [Next]_vars
  PROVE  EvictedAreRemoved'
  <1> USE DEF IInv
  <1>1. \A u \in Users : isRemoved[u] => isRemoved'[u]
    BY DEF Next, vars, serverVars, StartCreate, CreateCommit, StartAdd, AddRead,
           AddCommit, StartRemove, RemoveRead, RemoveCommit, RemoveAbort,
           LeaveGroup, BeginFetch, FinishFetch, LostReset, TypeOK
  <1>2. \A r \in Requests : req[r].target \in Users
    BY DEF TypeOK, Request
  <1>3. ASSUME NEW r \in Rotations', r \in Rotations
        PROVE  isRemoved'[req'[r].target]
    BY <1>1, <1>2, <1>3, CommittedStay DEF EvictedAreRemoved, Rotations, Committed
  <1>4. ASSUME NEW r \in Rotations', r \notin Rotations
        PROVE  isRemoved'[req'[r].target]
    <2>1. r \in Requests /\ req'[r].op = "remove" /\ r \in Committed'
      BY DEF Rotations, Committed
    <2>2. r \notin Committed
      BY <1>4, <2>1, CommittedStay DEF Rotations, Committed
    <2>3. CreateCommit(r) \/ AddCommit(r) \/ RemoveCommit(r)
      BY <2>1, <2>2, NewlyCommitted
    <2>4. SameRequest(r)
      BY <2>1, <2>3, CommitFrame
    <2>5. RemoveCommit(r) /\ req'[r].target = req[r].target
      BY <2>1, <2>3, <2>4 DEF SameRequest, CreateCommit, AddCommit
    <2> QED
      BY <1>2, <2>1, <2>5 DEF RemoveCommit, TypeOK
  <1> QED
    BY <1>3, <1>4 DEF EvictedAreRemoved

LEMMA MembersStay ==
  ASSUME TypeOK, [Next]_vars, CreatedOnce, RequestsWellFormed, NEW u \in Users, IsMember(u)
  PROVE  IsMember(u)'
  <1>1. CASE role' = role
    BY <1>1 DEF IsMember
  <1>2. ASSUME NEW r \in Requests, CreateCommit(r)
        PROVE  FALSE
    <2>1. Creates = {}
      BY <1>2 DEF CreateCommit, CreatedOnce, Creates
    <2> QED
      BY <2>1 DEF CreatedOnce, IsMember
  <1>3. ASSUME NEW r \in Requests, AddCommit(r)
        PROVE  IsMember(u)'
    BY <1>3 DEF AddCommit, IsMember, TypeOK
  <1> QED
    BY <1>1, <1>2, <1>3
       DEF Next, vars, serverVars, StartCreate, StartAdd, AddRead, StartRemove,
           RemoveRead, RemoveCommit, RemoveAbort, LeaveGroup, BeginFetch,
           FinishFetch, LostReset

LEMMA SentToMembersStep ==
  ASSUME IInv, TypeOK', [Next]_vars
  PROVE  SentToMembers'
  <1> USE DEF IInv
  <1> SUFFICES ASSUME NEW r \in Requests, NEW u \in req'[r].to,
                      \/ req'[r].pc = "committed"
                      \/ (req'[r].pc = "tx" /\ req'[r].op = "remove")
               PROVE  IsMember(u)'
    BY DEF SentToMembers
  <1>1. u \in Users
    BY DEF TypeOK, Request
  <1>2. CASE req'[r] = req[r]
    BY <1>1, <1>2, MembersStay DEF SentToMembers
  <1>3. CASE CreateCommit(r)
    <2>1. req'[r].to = req[r].to
      BY <1>3, CommitFrame
    <2> QED
      BY <1>1, <1>3, <2>1 DEF CreateCommit, IsMember
  <1>4. CASE AddCommit(r)
    <2>1. req'[r].to = req[r].to
      BY <1>4, CommitFrame
    <2> QED
      BY <1>1, <1>4, <2>1 DEF AddCommit, IsMember, TypeOK
  <1>5. CASE RemoveRead(r)
    <2>1. Active(u)
      BY <1>1, <1>5, RemoveReadEffect
    <2> QED
      BY <1>1, <2>1, MembersStay DEF Active
  <1>6. CASE RemoveCommit(r)
    <2>1. req'[r].to = req[r].to /\ req[r].pc = "tx" /\ req[r].op = "remove"
      BY <1>6, CommitFrame DEF RemoveCommit
    <2> QED
      BY <1>1, <2>1, MembersStay DEF SentToMembers
  <1>7. CASE AddRead(r)
    <2>1. SameRequest(r) /\ req'[r].pc = "tx" /\ req[r].op = "add"
      BY <1>7, ReadFrame DEF AddRead
    <2> QED
      BY <2>1 DEF SameRequest
  <1> QED
    BY <1>2, <1>3, <1>4, <1>5, <1>6, <1>7, RequestMoves DEF Failed, Blank

LEMMA WrapsOnlyForMembersStep ==
  ASSUME IInv, TypeOK', [Next]_vars
  PROVE  WrapsOnlyForMembers'
  <1> USE DEF IInv
  <1> SUFFICES ASSUME NEW u \in Users, NEW v \in Versions, keys'[u][v] # NoWrap
               PROVE  IsMember(u)'
    BY DEF WrapsOnlyForMembers
  <1>1. CASE keys[u][v] # NoWrap
    BY <1>1, MembersStay DEF WrapsOnlyForMembers
  <1>2. ASSUME NEW r \in Requests, CreateCommit(r), keys[u][v] = NoWrap
        PROVE  IsMember(u)'
    <2>1. keys' = Insert(r, 1) /\ 1 \in 0..MaxVersion
      BY <1>2, BoundAssumption DEF CreateCommit
    <2>2. Insert(r, 1)[u][v] # NoWrap
      BY <2>1
    <2>3. u \in req[r].to
      BY <1>2, <2>1, <2>2, InsertRows
    <2> QED
      BY <1>2, <2>3 DEF CreateCommit, IsMember
  <1>3. ASSUME NEW r \in Requests, AddCommit(r) \/ RemoveCommit(r),
               keys[u][v] = NoWrap
        PROVE  IsMember(u)'
    <2>1. req[r].version \in 0..MaxVersion
      BY DEF TypeOK, Request
    <2>2. \/ Insert(r, req[r].version)[u][v] # NoWrap
          \/ InsertSkippingDuplicates(r, req[r].version)[u][v] # NoWrap
      BY <1>3 DEF AddCommit, RemoveCommit
    <2>3. u \in req[r].to
      BY <1>3, <2>1, <2>2, InsertRows
    <2>4. CASE AddCommit(r)
      BY <2>3, <2>4 DEF AddCommit, IsMember, TypeOK
    <2>5. CASE RemoveCommit(r)
      <3>1. req[r].pc = "tx" /\ req[r].op = "remove"
        BY <2>5 DEF RemoveCommit
      <3> QED
        BY <2>3, <3>1, MembersStay DEF SentToMembers
    <2> QED
      BY <1>3, <2>4, <2>5
  <1>4. CASE keys' = keys
    BY <1>1, <1>4
  <1>5. ASSUME NEW d \in Devices, LostReset(d)
        PROVE  IsMember(u)'
    <2>1. keys[u][v] # NoWrap
      BY <1>5 DEF LostReset, TypeOK
    <2> QED
      BY <1>1, <2>1
  <1> QED
    BY <1>1, <1>2, <1>3, <1>4, <1>5
       DEF Next, vars, serverVars, StartCreate, StartAdd, AddRead, StartRemove,
           RemoveRead, RemoveAbort, LeaveGroup, BeginFetch, FinishFetch

(***************************************************************************)
(* The conjunct about intact founders.                                     *)
(***************************************************************************)

(* Committing the create is what makes founders; nothing makes one intact  *)
(* again.                                                                  *)
LEMMA IntactBefore ==
  ASSUME IInv, TypeOK', [Next]_vars, NEW g \in Users, IntactFounder(g)',
         \A r \in Requests : ~CreateCommit(r)
  PROVE  /\ IntactFounder(g) /\ identity'[g] = identity[g]
         /\ Creates' = Creates
  <1> USE DEF IInv
  <1>1. /\ ~isRemoved'[g]
        /\ \A u \in Users : isRemoved[u] => isRemoved'[u]
    BY DEF IntactFounder, Next, vars, serverVars, StartCreate, CreateCommit,
           StartAdd, AddRead, AddCommit, StartRemove, RemoveRead, RemoveCommit,
           RemoveAbort, LeaveGroup, BeginFetch, FinishFetch, LostReset, TypeOK
  <1>2. ASSUME NEW r \in Creates'
        PROVE  r \in Creates /\ req'[r] = req[r]
    <2>1. r \in Committed' /\ r \in Requests /\ req'[r].op = "create"
      BY DEF Creates, Committed
    <2>2. r \in Committed
      <3>1. CASE AddCommit(r) \/ RemoveCommit(r)
        <4>1. SameRequest(r)
          BY <2>1, <3>1, CommitFrame
        <4> QED
          BY <2>1, <3>1, <4>1 DEF SameRequest, AddCommit, RemoveCommit
      <3> QED
        BY <2>1, <3>1, NewlyCommitted
    <2>3. req'[r] = req[r]
      BY <2>2, CommittedStay
    <2> QED
      BY <2>1, <2>2, <2>3 DEF Creates, Committed
  <1>3. ASSUME NEW r \in Creates
        PROVE  r \in Creates'
    BY CommittedStay DEF Creates, Committed
  <1>4. PICK r \in Creates' : g \in req'[r].to /\ req'[r].bundles[g] = identity'[g]
    BY DEF IntactFounder
  <1>5. /\ req[r].bundles[g] = identity'[g] /\ g \in req[r].to
        /\ req[r].bundles[g] <= identity[g] /\ r \in Creates
    BY <1>2, <1>4 DEF RequestsWellFormed, Creates
  <1>6. identity'[g] = identity[g]
    BY <1>5, IdentityGrows
  <1> QED
    BY <1>1, <1>2, <1>3, <1>5, <1>6 DEF IntactFounder

(* Right after the create there are no rotations, and no other requests.   *)
LEMMA FounderViewAtCreation ==
  ASSUME IInv, TypeOK', [Next]_vars, NEW r \in Requests, CreateCommit(r),
         NEW g \in Users, IntactFounder(g)'
  PROVE  FounderView(g)' /\ EvictionsSeen'
  <1> USE DEF IInv
  <1>1. Creates = {} /\ \A q \in Requests : req[q].op \in {"none", "create"}
    BY DEF CreateCommit, CreatedOnce, Creates
  <1>2. SameRequest(r) /\ req'[r].to = req[r].to /\ req'[r].pc = "committed"
        /\ req[r].op = "create" /\ req[r].ck = r
    BY CommitFrame DEF CreateCommit, RequestsWellFormed
  <1>3. \A q \in Requests : req'[q].op \in {"none", "create"}
    BY <1>1, <1>2 DEF SameRequest
  <1>4. Rotations' = {} /\ currentKeyVersion' = 1 /\ identity' = identity
    BY <1>3 DEF Rotations, CreateCommit
  <1>5. Creates' = {r}
    BY <1>1, <1>2 DEF Creates, SameRequest, CreatedOnce
  <1>6. g \in req[r].to /\ req[r].bundles[g] = identity[g]
    BY <1>2, <1>4, <1>5 DEF IntactFounder, SameRequest
  <1>7. keys'[g][1] = [ck |-> r, ik |-> identity'[g]]
    <2>1. keys' = Insert(r, 1) /\ 1 \in 0..MaxVersion /\ 1 \in Versions
      BY BoundAssumption DEF CreateCommit, Versions
    <2>2. Insert(r, 1)[g][1] = WrapFor(r, g)
      BY <1>6, <2>1, InsertRows
    <2> QED
      BY <1>2, <1>4, <1>6, <2>1, <2>2 DEF WrapFor
  <1>8. \A v \in 2..currentKeyVersion' : FALSE
    BY <1>4
  <1> QED
    BY <1>3, <1>4, <1>5, <1>7, <1>8 DEF FounderView, EvictionsSeen

(* An intact founder holds a wrap of every version so far.                 *)
LEMMA FounderRows ==
  ASSUME IInv, NEW g \in Users, IntactFounder(g), NEW v \in 1..currentKeyVersion
  PROVE  /\ v \in Versions /\ keys[g][v] # NoWrap
         /\ \E r \in Creates \union Rotations :
              /\ keys[g][v] = [ck |-> r, ik |-> identity[g]]
              /\ r \in Rotations => req[r].version = v
              /\ r \in Creates => v = 1
  <1> USE DEF IInv
  <1>1. FounderView(g)
    OBVIOUS
  <1>2. v \in Versions /\ identity[g] # 0
    BY BoundAssumption DEF Versions, TypeOK, Identities
  <1>3. CASE v = 1
    <2>1. PICK r \in Creates : TRUE
      BY DEF IntactFounder
    <2>2. keys[g][v] = [ck |-> r, ik |-> identity[g]] /\ r \notin Rotations
      BY <1>1, <1>3 DEF FounderView, Creates, Rotations
    <2> QED
      BY <1>2, <1>3, <2>2 DEF NoWrap
  <1>4. CASE v # 1
    <2>1. v \in 2..currentKeyVersion
      BY <1>4, BoundAssumption DEF TypeOK
    <2>2. PICK r \in Rotations : req[r].version = v
      BY <1>1, <2>1 DEF FounderView
    <2>3. keys[g][v] = [ck |-> r, ik |-> identity[g]] /\ r \notin Creates
      BY <1>1, <2>2 DEF FounderView, Rotations, Creates
    <2> QED
      BY <1>2, <2>2, <2>3 DEF NoWrap
  <1> QED
    BY <1>3, <1>4

(* A rotation that commits while a founder stays intact is the next one:   *)
(* the founder is among its recipients, so any version that exists already *)
(* runs into the unique index.                                             *)
LEMMA RotationIsNext ==
  ASSUME IInv, TypeOK', [Next]_vars, NEW r \in Requests, RemoveCommit(r),
         NEW g \in Users, IntactFounder(g)'
  PROVE  /\ IntactFounder(g) /\ g \in req[r].to
         /\ req[r].version = currentKeyVersion + 1
  <1> USE DEF IInv
  <1>1. req[r].op = "remove" /\ req[r].pc = "tx"
    BY DEF RemoveCommit
  <1>2. \A q \in Requests : ~CreateCommit(q)
    BY RotationAlone
  <1>3. IntactFounder(g)
    BY <1>2, IntactBefore
  <1>4. /\ req[r].version \in Nat /\ currentKeyVersion \in Nat
        /\ req[r].version >= 2 /\ req[r].target \in Users
    BY <1>1, BoundAssumption DEF TypeOK, Request, RequestsWellFormed
  <1>5. g # req[r].target
    BY <1>4 DEF IntactFounder, RemoveCommit, TypeOK
  <1>6. g \in req[r].to /\ req[r].version <= currentKeyVersion + 1
    BY <1>1, <1>3, <1>5 DEF FounderView
  <1>7. keys[g][req[r].version] = NoWrap
    BY <1>6 DEF RemoveCommit, UniqueViolation
  <1>8. ~(req[r].version <= currentKeyVersion)
    <2> SUFFICES ASSUME req[r].version <= currentKeyVersion
                 PROVE  FALSE
      OBVIOUS
    <2>1. req[r].version \in 1..currentKeyVersion
      BY <1>4
    <2> QED
      BY <1>3, <1>7, <2>1, FounderRows
  <1> QED
    BY <1>3, <1>4, <1>6, <1>8

(* Steps other than a create or a rotation committing.                     *)
LEMMA FounderViewQuiet ==
  ASSUME IInv, TypeOK', [Next]_vars, NEW g \in Users, IntactFounder(g)',
         \A r \in Requests : ~CreateCommit(r) /\ ~RemoveCommit(r)
  PROVE  FounderView(g)' /\ EvictionsSeen'
  <1> USE DEF IInv
  <1>1. /\ IntactFounder(g) /\ identity'[g] = identity[g] /\ Creates' = Creates
        /\ FounderView(g) /\ EvictionsSeen
    BY IntactBefore
  <1>2. \A r \in Committed : req'[r] = req[r] /\ r \in Committed'
    BY CommittedStay
  <1>3. currentKeyVersion' = currentKeyVersion /\ currentKeyVersion \in Nat
    <2>1. currentKeyVersion \in Nat
      BY BoundAssumption DEF TypeOK
    <2>2. currentKeyVersion' = currentKeyVersion
      BY DEF Next, vars, serverVars, StartCreate, StartAdd, AddRead, AddCommit,
             StartRemove, RemoveRead, RemoveAbort, LeaveGroup, BeginFetch,
             FinishFetch, LostReset
    <2> QED
      BY <2>1, <2>2
  <1>4. \A v \in 1..currentKeyVersion : keys'[g][v] = keys[g][v]
    <2> SUFFICES ASSUME NEW v \in 1..currentKeyVersion
                 PROVE  keys'[g][v] = keys[g][v]
      OBVIOUS
    <2>1. v \in Versions /\ keys[g][v] # NoWrap
      BY <1>1, FounderRows
    <2>2. ASSUME NEW r \in Requests, AddCommit(r)
          PROVE  keys'[g][v] = keys[g][v]
      <3>1. keys' = InsertSkippingDuplicates(r, req[r].version)
            /\ req[r].version \in 0..MaxVersion
        BY <2>2 DEF AddCommit, TypeOK, Request
      <3>2. InsertSkippingDuplicates(r, req[r].version)[g][v] = keys[g][v]
        BY <2>1, <3>1, InsertRows
      <3> QED
        BY <3>1, <3>2
    <2>3. ASSUME NEW d \in Devices, LostReset(d)
          PROVE  keys'[g][v] = keys[g][v]
      <3>1. identity[g] \in Nat /\ Owner[d] \in Users
        BY BoundAssumption, OwnerAssumption DEF TypeOK, Identities
      <3>2. Owner[d] # g
        BY <1>1, <2>3, <3>1 DEF LostReset, TypeOK
      <3> QED
        BY <2>3, <3>1, <3>2 DEF LostReset, TypeOK
    <2> QED
      BY <2>2, <2>3 DEF Next, vars, serverVars, StartCreate, StartAdd, AddRead,
           StartRemove, RemoveRead, RemoveAbort, LeaveGroup, BeginFetch, FinishFetch
  <1>5. /\ Rotations' = Rotations
        /\ \A r \in Rotations : req'[r] = req[r]
    <2>1. ASSUME NEW r \in Rotations
          PROVE  r \in Rotations' /\ req'[r] = req[r]
      BY <1>2 DEF Rotations, Committed
    <2>2. ASSUME NEW r \in Rotations'
          PROVE  r \in Rotations
      <3>1. r \in Committed' /\ r \in Requests /\ req'[r].op = "remove"
        BY DEF Rotations, Committed
      <3>2. ~AddCommit(r)
        BY <3>1, CommitFrame DEF SameRequest, AddCommit
      <3>3. r \in Committed
        BY <3>1, <3>2, NewlyCommitted
      <3> QED
        BY <1>2, <3>1, <3>3 DEF Rotations, Committed
    <2> QED
      BY <2>1, <2>2
  <1>6. \A r \in Creates : req'[r] = req[r] /\ 1 \in 1..currentKeyVersion
    BY <1>2, <1>3 DEF Creates, Committed, CreatedOnce
  <1>7. \A r \in Rotations : req[r].version \in 1..currentKeyVersion
    <2> SUFFICES ASSUME NEW r \in Rotations
                 PROVE  req[r].version \in 1..currentKeyVersion
      OBVIOUS
    <2>1. req[r].version \in Nat /\ req[r].version <= currentKeyVersion
      <3>1. r \in Requests
        BY DEF Rotations
      <3>2. req[r].version \in Nat
        BY <3>1, BoundAssumption DEF TypeOK, Request
      <3>3. req[r].version <= currentKeyVersion
        BY <1>1 DEF FounderView
      <3> QED
        BY <3>2, <3>3
    <2>2. req[r].version >= 2
      BY DEF Rotations, RequestsWellFormed
    <2> QED
      BY <1>3, <2>1, <2>2
  <1>8. /\ \A r \in Creates' : keys'[g][1] = [ck |-> r, ik |-> identity'[g]]
        /\ \A r \in Rotations' :
             /\ g \in req'[r].to
             /\ req'[r].version <= currentKeyVersion'
             /\ keys'[g][req'[r].version] = [ck |-> r, ik |-> identity'[g]]
        /\ \A v \in 2..currentKeyVersion' : \E r \in Rotations' : req'[r].version = v
    BY <1>1, <1>3, <1>4, <1>5, <1>6, <1>7 DEF FounderView
  <1>9. ASSUME NEW r \in Requests, req'[r].op = "remove"
        PROVE  /\ req'[r].bundles[g] = identity'[g]
               /\ req'[r].pc = "tx" => /\ req'[r].version <= currentKeyVersion' + 1
                                       /\ g \in req'[r].to \/ g = req'[r].target
    <2>1. CASE req'[r] = req[r]
      BY <1>1, <1>3, <1>9, <2>1 DEF FounderView
    <2>2. CASE RemoveRead(r)
      <3>1. SameRequest(r) /\ req[r].op = "remove"
        BY <2>2, ReadFrame DEF RemoveRead
      <3>2. /\ req'[r].to = {u \in Users : Active(u)} \ {req[r].target}
            /\ req'[r].version = currentKeyVersion + 1
        BY <2>2, RemoveReadEffect
      <3>3. Active(g)
        BY <1>1 DEF IntactFounder, Active, SentToMembers, Creates
      <3> QED
        BY <1>1, <1>3, <3>1, <3>2, <3>3 DEF SameRequest, FounderView
    <2>3. CASE AddRead(r)
      BY <1>9, <2>3, ReadFrame DEF SameRequest, AddRead
    <2>4. CASE AddCommit(r)
      BY <1>9, <2>4, CommitFrame DEF SameRequest, AddCommit
    <2>5. CASE req'[r].bundles = identity /\ req'[r].pc = "read"
      BY <1>1, <2>5
    <2> QED
      BY <1>9, <2>1, <2>2, <2>3, <2>4, <2>5, RequestMoves DEF Failed, Blank
  <1>10. ASSUME NEW r \in Requests, req'[r].op = "add", req'[r].pc = "tx"
         PROVE  req'[r].version <= currentKeyVersion'
    <2>1. CASE req'[r] = req[r]
      BY <1>1, <1>3, <1>10, <2>1 DEF FounderView
    <2>2. CASE AddRead(r)
      <3>1. req'[r] = [req[r] EXCEPT !.pc = "tx", !.version = currentKeyVersion]
            /\ req[r] \in Request
        BY <2>2 DEF AddRead, TypeOK
      <3>2. req'[r].version = currentKeyVersion
        BY <3>1 DEF Request
      <3> QED
        BY <1>3, <3>2
    <2>3. CASE RemoveRead(r)
      BY <1>10, <2>3, ReadFrame DEF SameRequest, RemoveRead
    <2>4. CASE AddCommit(r)
      BY <1>10, <2>4, CommitFrame
    <2> QED
      BY <1>10, <2>1, <2>2, <2>3, <2>4, RequestMoves DEF Failed, Blank
  <1>11. EvictionsSeen'
    <2>1. ASSUME NEW r \in Requests, NEW q \in Rotations',
                 req'[r].op = "remove", req'[r].pc = "tx",
                 req'[r].version = currentKeyVersion' + 1
          PROVE  req'[q].target \notin req'[r].to
      <3>1. q \in Rotations /\ req'[q] = req[q]
        BY <1>5
      <3>2. CASE req'[r] = req[r]
        BY <1>1, <1>3, <2>1, <3>1, <3>2 DEF EvictionsSeen
      <3>3. CASE RemoveRead(r)
        BY <3>1, <3>3, RemoveReadEffect DEF Active, EvictedAreRemoved
      <3>4. CASE AddRead(r)
        BY <2>1, <3>4, ReadFrame DEF SameRequest, AddRead
      <3>5. CASE AddCommit(r)
        BY <2>1, <3>5, CommitFrame
      <3> QED
        BY <2>1, <3>2, <3>3, <3>4, <3>5, RequestMoves DEF Failed, Blank
    <2>2. \A r, q \in Rotations' : req'[r].version >= req'[q].version
            => req'[q].target \notin req'[r].to
      BY <1>1, <1>5 DEF EvictionsSeen
    <2> QED
      BY <2>1, <2>2 DEF EvictionsSeen
  <1> QED
    BY <1>8, <1>9, <1>10, <1>11 DEF FounderView

(* A rotation committing.                                                  *)
LEMMA FounderViewRotated ==
  ASSUME IInv, TypeOK', [Next]_vars, NEW g \in Users, IntactFounder(g)',
         NEW r \in Requests, RemoveCommit(r)
  PROVE  FounderView(g)' /\ EvictionsSeen'
  <1> USE DEF IInv
  <1>1. /\ req[r].op = "remove" /\ req[r].pc = "tx" /\ r \notin Rotations
        /\ currentKeyVersion' = req[r].version
    BY DEF RemoveCommit, Rotations
  <1>2. \A q \in Requests : ~CreateCommit(q)
    BY RotationAlone
  <1>3. /\ IntactFounder(g) /\ identity'[g] = identity[g] /\ Creates' = Creates
        /\ FounderView(g) /\ EvictionsSeen
    BY <1>2, IntactBefore
  <1>4. /\ g \in req[r].to
        /\ req[r].version = currentKeyVersion + 1
        /\ currentKeyVersion \in Nat /\ req[r].version \in Nat
        /\ req[r].version \in Versions /\ req[r].version \in 0..MaxVersion
    <2>1. /\ currentKeyVersion \in Nat /\ req[r].version \in 0..MaxVersion
      BY BoundAssumption DEF TypeOK, Request
    <2>2. g \in req[r].to /\ req[r].version = currentKeyVersion + 1
      BY RotationIsNext
    <2> QED
      BY <2>1, <2>2, BoundAssumption DEF Versions
  <1>5. /\ SameRequest(r) /\ req'[r].to = req[r].to
        /\ req'[r].version = req[r].version /\ req'[r].pc = "committed"
    BY <1>1, CommitFrame
  <1>6. Rotations' = Rotations \union {r}
        /\ \A q \in Rotations : req'[q] = req[q] /\ q \in Requests /\ q # r
    BY <1>1, <1>5 DEF Rotations, SameRequest
  <1>7. \A q \in Creates : req'[q] = req[q]
    BY <1>1, <1>5 DEF Creates, SameRequest
  <1>8. /\ \A v \in 1..currentKeyVersion : keys'[g][v] = keys[g][v]
        /\ keys'[g][req[r].version] = [ck |-> r, ik |-> identity'[g]]
    <2>1. keys' = Insert(r, req[r].version)
      BY DEF RemoveCommit
    <2>2. \A v \in 1..currentKeyVersion : v \in Versions /\ v # req[r].version
      <3>1. currentKeyVersion <= MaxVersion /\ MaxVersion \in Nat
        BY BoundAssumption DEF TypeOK
      <3> QED
        BY <1>4, <3>1 DEF Versions
    <2>3. \A v \in 1..currentKeyVersion :
            Insert(r, req[r].version)[g][v] = keys[g][v]
      BY <1>4, <2>2, InsertRows
    <2>4. Insert(r, req[r].version)[g][req[r].version] = WrapFor(r, g)
      BY <1>4, InsertRows
    <2>5. WrapFor(r, g) = [ck |-> r, ik |-> identity'[g]]
      BY <1>1, <1>3 DEF WrapFor, RequestsWellFormed, FounderView
    <2> QED
      BY <2>1, <2>3, <2>4, <2>5
  <1>9. \A q \in Rotations : req[q].version \in 1..currentKeyVersion
    <2> SUFFICES ASSUME NEW q \in Rotations
                 PROVE  req[q].version \in 1..currentKeyVersion
      OBVIOUS
    <2>1. q \in Requests /\ req[q].op = "remove" /\ req[q].pc = "committed"
      BY DEF Rotations
    <2>2. req[q].version \in Nat /\ req[q].version >= 2
      BY <2>1, BoundAssumption DEF TypeOK, Request, RequestsWellFormed
    <2>3. req[q].version <= currentKeyVersion
      BY <1>3 DEF FounderView
    <2> QED
      BY <1>4, <2>2, <2>3
  <1>10. \A q \in Creates' : keys'[g][1] = [ck |-> q, ik |-> identity'[g]]
    BY <1>3, <1>4, <1>8 DEF FounderView, CreatedOnce
  <1>11. \A q \in Rotations' :
           /\ g \in req'[q].to
           /\ req'[q].version <= currentKeyVersion'
           /\ keys'[g][req'[q].version] = [ck |-> q, ik |-> identity'[g]]
    <2>1. ASSUME NEW q \in Rotations
          PROVE  /\ g \in req'[q].to
                 /\ req'[q].version <= currentKeyVersion'
                 /\ keys'[g][req'[q].version] = [ck |-> q, ik |-> identity'[g]]
      BY <1>1, <1>3, <1>4, <1>6, <1>8, <1>9 DEF FounderView
    <2> QED
      BY <1>1, <1>4, <1>5, <1>6, <1>8, <2>1
  <1>12. \A v \in 2..currentKeyVersion' : \E q \in Rotations' : req'[q].version = v
    <2> SUFFICES ASSUME NEW v \in 2..currentKeyVersion'
                 PROVE  \E q \in Rotations' : req'[q].version = v
      OBVIOUS
    <2>1. CASE v = req[r].version
      BY <1>5, <1>6, <2>1
    <2>2. CASE v # req[r].version
      <3>1. v \in 2..currentKeyVersion
        BY <1>1, <1>4, <2>2
      <3> QED
        BY <1>3, <1>6, <3>1 DEF FounderView
    <2> QED
      BY <2>1, <2>2
  <1>13. ASSUME NEW q \in Requests, q # r, req[q].pc = "tx",
                req[q].op \in {"add", "remove"}
         PROVE  req[q].version \in Nat /\ req[q].version <= currentKeyVersion + 1
    <2>1. req[q].version \in Nat
      BY BoundAssumption DEF TypeOK, Request
    <2> QED
      BY <1>3, <1>4, <1>13, <2>1 DEF FounderView
  <1>14. \A q \in Requests : req'[q].op = "remove" =>
           /\ req'[q].bundles[g] = identity'[g]
           /\ req'[q].pc = "tx" => /\ req'[q].version <= currentKeyVersion' + 1
                                   /\ g \in req'[q].to \/ g = req'[q].target
    <2> SUFFICES ASSUME NEW q \in Requests, req'[q].op = "remove"
                 PROVE  /\ req'[q].bundles[g] = identity'[g]
                        /\ req'[q].pc = "tx" =>
                             /\ req'[q].version <= currentKeyVersion' + 1
                             /\ g \in req'[q].to \/ g = req'[q].target
      OBVIOUS
    <2>1. CASE q = r
      BY <1>3, <1>5, <2>1 DEF FounderView, SameRequest
    <2>2. CASE q # r
      <3>1. req'[q] = req[q]
        BY <1>5, <2>2 DEF SameRequest
      <3> QED
        BY <1>1, <1>3, <1>4, <1>13, <2>2, <3>1 DEF FounderView
    <2> QED
      BY <2>1, <2>2
  <1>15. \A q \in Requests : req'[q].op = "add" /\ req'[q].pc = "tx"
           => req'[q].version <= currentKeyVersion'
    <2> SUFFICES ASSUME NEW q \in Requests, req'[q].op = "add", req'[q].pc = "tx"
                 PROVE  req'[q].version <= currentKeyVersion'
      OBVIOUS
    <2>1. req'[q] = req[q] /\ q # r
      BY <1>5 DEF SameRequest
    <2> QED
      BY <1>1, <1>4, <1>13, <2>1
  <1>16. FounderView(g)'
    BY <1>10, <1>11, <1>12, <1>14, <1>15 DEF FounderView
  <1>17. ASSUME NEW q \in Requests, req'[q].op = "remove", req'[q].pc = "tx",
                req'[q].version = currentKeyVersion' + 1
         PROVE  FALSE
    <2>1. q # r /\ req'[q] = req[q]
      BY <1>5, <1>17 DEF SameRequest
    <2> QED
      BY <1>1, <1>4, <1>13, <1>17, <2>1
  <1>18. ASSUME NEW p \in Rotations', NEW q \in Rotations',
                req'[p].version >= req'[q].version
         PROVE  req'[q].target \notin req'[p].to
    <2>1. CASE p # r /\ q # r
      BY <1>3, <1>6, <1>18, <2>1 DEF EvictionsSeen
    <2>2. CASE p # r /\ q = r
      BY <1>4, <1>5, <1>6, <1>9, <1>18, <2>2
    <2>3. CASE p = r /\ q # r
      BY <1>1, <1>3, <1>4, <1>5, <1>6, <2>3 DEF EvictionsSeen
    <2>4. CASE p = r /\ q = r
      BY <1>1, <1>5, <2>4 DEF RequestsWellFormed, SameRequest
    <2> QED
      BY <2>1, <2>2, <2>3, <2>4
  <1> QED
    BY <1>16, <1>17, <1>18 DEF EvictionsSeen

(***************************************************************************)
(* The invariant holds in every reachable state.                           *)
(***************************************************************************)

LEMMA InitIInv == Init => IInv
  <1> SUFFICES ASSUME Init
               PROVE  IInv
    OBVIOUS
  <1>1. TypeOK
    BY BoundAssumption, NoWrapType, UnsentType
       DEF Init, TypeOK, Role, Identities, CK
  <1>2. /\ \A r \in Requests : req[r].op = "none" /\ req[r].pc = "unsent"
        /\ \A r \in Requests, u \in Users : req[r].bundles[u] <= identity[u]
    BY DEF Init, Unsent, Blank
  <1>3. RequestsWellFormed
    BY <1>2 DEF RequestsWellFormed
  <1>4. Creates = {} /\ Rotations = {} /\ Committed = {}
    BY <1>2 DEF Creates, Rotations, Committed
  <1>5. CreatedOnce
    BY <1>2, <1>4 DEF Init, CreatedOnce
  <1>6. KeysWereSealed
    BY OwnerAssumption DEF Init, KeysWereSealed, NoWrap
  <1>7. SentToMembers /\ EvictedAreRemoved
    BY <1>2, <1>4 DEF SentToMembers, EvictedAreRemoved
  <1>8. WrapsOnlyForMembers
    BY DEF Init, WrapsOnlyForMembers
  <1>9. \A g \in Users : ~IntactFounder(g)
    BY <1>4 DEF IntactFounder
  <1> QED
    BY <1>1, <1>3, <1>5, <1>6, <1>7, <1>8, <1>9 DEF IInv

LEMMA IInvStep == IInv /\ [Next]_vars => IInv'
  <1> SUFFICES ASSUME IInv, [Next]_vars
               PROVE  IInv'
    OBVIOUS
  <1>1. TypeOK'
    BY TypeStep DEF IInv
  <1>2. /\ RequestsWellFormed' /\ CreatedOnce' /\ KeysWereSealed'
        /\ SentToMembers' /\ WrapsOnlyForMembers' /\ EvictedAreRemoved'
    BY <1>1, RequestsWellFormedStep, CreatedOnceStep, KeysWereSealedStep,
       SentToMembersStep, WrapsOnlyForMembersStep, EvictedAreRemovedStep
  <1>3. ASSUME NEW g \in Users, IntactFounder(g)'
        PROVE  FounderView(g)' /\ EvictionsSeen'
    <2>1. CASE \E r \in Requests : CreateCommit(r)
      BY <1>1, <1>3, <2>1, FounderViewAtCreation
    <2>2. CASE \E r \in Requests : RemoveCommit(r)
      BY <1>1, <1>3, <2>2, FounderViewRotated
    <2>3. CASE \A r \in Requests : ~CreateCommit(r) /\ ~RemoveCommit(r)
      BY <1>1, <1>3, <2>3, FounderViewQuiet
    <2> QED
      BY <2>1, <2>2, <2>3
  <1> QED
    BY <1>1, <1>2, <1>3 DEF IInv

(* Every reachable state satisfies the invariant behind the results on     *)
(* key versions.                                                           *)
THEOREM InductiveInvariant == Spec => []IInv
  BY InitIInv, IInvStep, PTL DEF Spec

(***************************************************************************)
(* The properties, for any number of users, devices and requests.          *)
(***************************************************************************)

(* Two concurrent removeMember calls never both install their key under    *)
(* one version while a founder is intact: one of them meets the unique     *)
(* index on the founder's row.                                             *)
THEOREM RotationsDoNotCollide == Spec => []OneRotationPerVersion
  <1>1. IInv => OneRotationPerVersion
    <2> SUFFICES ASSUME IInv, NEW g \in Users, IntactFounder(g),
                        NEW r1 \in Rotations, NEW r2 \in Rotations,
                        req[r1].version = req[r2].version
                 PROVE  r1 = r2
      BY DEF OneRotationPerVersion
    <2>1. FounderView(g)
      BY DEF IInv
    <2>2. [ck |-> r1, ik |-> identity[g]] = [ck |-> r2, ik |-> identity[g]]
      BY <2>1 DEF FounderView
    <2> QED
      BY <2>2
  <1> QED
    BY <1>1, InductiveInvariant, PTL

LEMMA FoundersShare ==
  ASSUME IInv
  PROVE  FoundersShareEveryVersion
  <1> DEFINE Row(m, v, r) == /\ keys[m][v] = [ck |-> r, ik |-> identity[m]]
                             /\ r \in Rotations => req[r].version = v
                             /\ r \in Creates => v = 1
  <1>0. ASSUME NEW m \in Users, IntactFounder(m), NEW v \in 1..currentKeyVersion
        PROVE  /\ v \in Versions /\ keys[m][v] # NoWrap
               /\ \E r \in Creates \union Rotations : Row(m, v, r)
    BY <1>0, FounderRows
  <1> SUFFICES ASSUME NEW g \in Users, NEW h \in Users,
                      IntactFounder(g), IntactFounder(h),
                      NEW v \in 1..currentKeyVersion
               PROVE  /\ keys[g][v].ck # NoCK /\ keys[g][v].ik = identity[g]
                      /\ keys[g][v].ck = keys[h][v].ck
    BY DEF FoundersShareEveryVersion
  <1> HIDE DEF Row
  <1>a. PICK r \in Creates \union Rotations : Row(g, v, r)
    BY <1>0
  <1>b. PICK q \in Creates \union Rotations : Row(h, v, q)
    BY <1>0
  <1>1. /\ keys[g][v] = [ck |-> r, ik |-> identity[g]]
        /\ r \in Rotations => req[r].version = v
    BY <1>a DEF Row
  <1>2. /\ keys[h][v] = [ck |-> q, ik |-> identity[h]]
        /\ q \in Rotations => req[q].version = v
    BY <1>b DEF Row
  <1>3. FounderView(g) /\ FounderView(h) /\ CreatedOnce
    BY DEF IInv
  <1>4. CASE r \in Rotations
    <2>1. keys[h][v] = [ck |-> r, ik |-> identity[h]]
      BY <1>1, <1>3, <1>4 DEF FounderView
    <2> QED
      BY <1>1, <1>4, <2>1, NoCKAssumption DEF Rotations
  <1>5. CASE q \in Rotations
    <2>1. keys[g][v] = [ck |-> q, ik |-> identity[g]]
      BY <1>2, <1>3, <1>5 DEF FounderView
    <2> QED
      BY <1>2, <1>5, <2>1, NoCKAssumption DEF Rotations
  <1>6. CASE r \in Creates /\ q \in Creates
    <2>1. r = q /\ r \in Requests
      BY <1>3, <1>6 DEF CreatedOnce, Creates
    <2> QED
      BY <1>1, <1>2, <2>1, NoCKAssumption
  <1> QED
    BY <1>4, <1>5, <1>6

(* The founders' copies of the key history agree, version by version.      *)
THEOREM FoundersAgree == Spec => []FoundersShareEveryVersion
  <1>1. IInv => FoundersShareEveryVersion
    BY FoundersShare
  <1> QED
    BY <1>1, InductiveInvariant, PTL

(* A removed member's devices never hold the key of a later version.       *)
THEOREM EvictionIsEffective == Spec => []EvictedLearnsNoLaterKey
  <1>1. IInv => EvictedLearnsNoLaterKey
    <2> SUFFICES ASSUME IInv, NEW g \in Users, IntactFounder(g),
                        NEW evict \in Rotations, NEW later \in Rotations,
                        req[later].version >= req[evict].version,
                        NEW d \in Devices, Owner[d] = req[evict].target,
                        NEW v \in Versions, cache[d][v] = later
                 PROVE  \E a \in Adds : req[a].ck = later /\ Owner[d] \in req[a].to
      BY DEF EvictedLearnsNoLaterKey
    <2>1. later \in Requests /\ req[later].op = "remove"
      BY DEF Rotations
    <2>2. PICK a \in Committed : req[a].ck = later /\ Owner[d] \in req[a].to
      BY <2>1, NoCKAssumption DEF IInv, KeysWereSealed, SealedTo
    <2>3. a \in Requests /\ req[a].pc = "committed"
          /\ req[a].op \in {"none", "create", "add", "remove"}
      BY DEF IInv, Committed, TypeOK, Request
    <2>4. req[a].op # "none" /\ req[a].op # "create"
      BY <2>1, <2>2, <2>3 DEF IInv, RequestsWellFormed
    <2>5. req[a].op # "remove"
      <3> SUFFICES ASSUME req[a].op = "remove"
                   PROVE  FALSE
        OBVIOUS
      <3>1. a = later
        BY <2>2, <2>3 DEF IInv, RequestsWellFormed
      <3>2. req[evict].target \notin req[later].to
        BY DEF IInv, EvictionsSeen
      <3> QED
        BY <2>2, <3>1, <3>2
    <2> QED
      BY <2>2, <2>3, <2>4, <2>5 DEF Adds
  <1> QED
    BY <1>1, InductiveInvariant, PTL

(* No request stores a wrap for somebody without a member row.             *)
THEOREM NoStrayWraps == Spec => []WrapsOnlyForMembers
  BY InductiveInvariant, PTL DEF IInv

LEMMA VersionStepHolds ==
  ASSUME IInv, IInv', [Next]_vars
  PROVE  VersionStep
  <1> SUFFICES ASSUME IInv, IInv', [Next]_vars, NEW g \in Users, IntactFounder(g)'
               PROVE  currentKeyVersion' \in {currentKeyVersion, currentKeyVersion + 1}
    BY DEF VersionStep
  <1>1. ASSUME NEW r \in Requests, CreateCommit(r)
        PROVE  currentKeyVersion' = currentKeyVersion + 1
    <2>1. Creates = {}
      BY <1>1 DEF CreateCommit, IInv, CreatedOnce, Creates
    <2> QED
      BY <1>1, <2>1 DEF CreateCommit, IInv, CreatedOnce
  <1>2. ASSUME NEW r \in Requests, RemoveCommit(r)
        PROVE  currentKeyVersion' = currentKeyVersion + 1
    BY <1>2, RotationIsNext DEF RemoveCommit, IInv
  <1> QED
    BY <1>1, <1>2
       DEF Next, vars, serverVars, StartCreate, StartAdd, AddRead, AddCommit,
           StartRemove, RemoveRead, RemoveAbort, LeaveGroup, BeginFetch,
           FinishFetch, LostReset

(* The version never jumps and never falls while a founder is intact.      *)
THEOREM VersionIsSteady == Spec => VersionStepsByOne
  <1>1. IInv /\ IInv' /\ [Next]_vars => [VersionStep]_vars
    BY VersionStepHolds
  <1> QED
    BY <1>1, InductiveInvariant, PTL DEF Spec, VersionStepsByOne

LEMMA WrapsStayHolds ==
  ASSUME IInv, [Next]_vars
  PROVE  WrapsStay
  <1> SUFFICES ASSUME IInv, [Next]_vars, NEW u \in Users, NEW v \in Versions,
                      keys[u][v] # NoWrap, identity'[u] = identity[u]
               PROVE  keys'[u][v] = keys[u][v]
    BY DEF WrapsStay
  <1>1. ASSUME NEW r \in Requests, CreateCommit(r)
        PROVE  FALSE
    <2>1. Creates = {}
      BY <1>1 DEF CreateCommit, IInv, CreatedOnce, Creates
    <2> QED
      BY <2>1 DEF IInv, CreatedOnce
  <1>2. ASSUME NEW r \in Requests, AddCommit(r) \/ RemoveCommit(r)
        PROVE  keys'[u][v] = keys[u][v]
    <2>1. req[r].version \in 0..MaxVersion
      BY DEF IInv, TypeOK, Request
    <2>2. CASE AddCommit(r)
      <3>1. InsertSkippingDuplicates(r, req[r].version)[u][v] = keys[u][v]
        BY <2>1, InsertRows DEF IInv
      <3> QED
        BY <2>2, <3>1 DEF AddCommit
    <2>3. CASE RemoveCommit(r)
      <3>1. v # req[r].version \/ u \notin req[r].to
        BY <2>3 DEF RemoveCommit, UniqueViolation
      <3>2. Insert(r, req[r].version)[u][v] = keys[u][v]
        BY <2>1, <3>1, InsertRows DEF IInv
      <3> QED
        BY <2>3, <3>2 DEF RemoveCommit
    <2> QED
      BY <1>2, <2>2, <2>3
  <1>3. ASSUME NEW d \in Devices, LostReset(d)
        PROVE  keys'[u][v] = keys[u][v]
    <2>1. identity[u] \in Nat /\ TypeOK
      BY BoundAssumption DEF IInv, TypeOK, Identities
    <2>2. Owner[d] # u
      BY <1>3, <2>1 DEF LostReset, TypeOK
    <2> QED
      BY <1>3, <2>1, <2>2 DEF LostReset, TypeOK
  <1> QED
    BY <1>1, <1>2, <1>3
       DEF Next, vars, serverVars, StartCreate, StartAdd, AddRead, StartRemove,
           RemoveRead, RemoveAbort, LeaveGroup, BeginFetch, FinishFetch

(* What is stored for a user under a version is stored for good.           *)
THEOREM WrapsAreNeverReplaced == Spec => WrapsAreFinal
  <1>1. IInv /\ [Next]_vars => [WrapsStay]_vars
    BY WrapsStayHolds
  <1> QED
    BY <1>1, InductiveInvariant, PTL DEF Spec, WrapsAreFinal

(* The same of both: currentKeyVersion of conversation.service.ts and the  *)
(* wraps under it.                                                         *)
THEOREM KeysAreSteady == Spec => ServerKeysAreSteady
  <1>1. [VersionStep]_vars /\ [WrapsStay]_vars => [VersionStep /\ WrapsStay]_vars
    OBVIOUS
  <1> QED
    BY <1>1, VersionIsSteady, WrapsAreNeverReplaced, PTL
       DEF ServerKeysAreSteady, VersionStepsByOne, WrapsAreFinal

(***************************************************************************)
(* The agreement on the keys.                                              *)
(***************************************************************************)

LEMMA SealedAtGrows ==
  ASSUME IInv, TypeOK', [Next]_vars, NEW u, NEW k, NEW v, SealedAt(u, k, v)
  PROVE  SealedAt(u, k, v)'
  BY CommittedStay DEF SealedAt

(* Before the create has committed no request has.                         *)
LEMMA NothingBeforeCreation ==
  ASSUME IInv, NEW r \in Requests, CreateCommit(r)
  PROVE  Committed = {} /\ Creates = {}
  <1>1. Creates = {}
    BY DEF CreateCommit, IInv, CreatedOnce, Creates
  <1> QED
    BY <1>1 DEF IInv, CreatedOnce, RequestsWellFormed, Creates, Committed

(* What a commit writes: the wraps it carries, under its version.          *)
LEMMA CommitWrites ==
  ASSUME IInv, TypeOK', NEW r \in Requests,
         CreateCommit(r) \/ AddCommit(r) \/ RemoveCommit(r)
  PROVE  /\ r \in Committed' /\ req'[r].ck = req[r].ck /\ req'[r].to = req[r].to
         /\ \A u \in Users, v \in Versions :
              \/ keys'[u][v] = keys[u][v]
              \/ u \in req[r].to /\ keys'[u][v].ck = req[r].ck /\ v = req'[r].version
         /\ CreateCommit(r) => req'[r].version = 1
  <1> USE DEF IInv
  <1>1. /\ r \in Committed' /\ req'[r].ck = req[r].ck /\ req'[r].to = req[r].to
        /\ req[r].op # "create" => req'[r].version = req[r].version
    BY CommitFrame DEF Committed, SameRequest
  <1>2. ASSUME CreateCommit(r)
        PROVE  /\ req'[r].version = 1
               /\ \A u \in Users, v \in Versions :
                    \/ keys'[u][v] = keys[u][v]
                    \/ u \in req[r].to /\ keys'[u][v].ck = req[r].ck /\ v = 1
    <2>1. keys' = Insert(r, 1) /\ 1 \in 0..MaxVersion
      BY <1>2, BoundAssumption DEF CreateCommit
    <2>2. \A u \in Users, w \in Versions : Insert(r, 1)[u][w] =
            IF w = 1 /\ u \in req[r].to THEN WrapFor(r, u) ELSE keys[u][w]
      BY <2>1, InsertRows
    <2>3. \A u \in Users, w \in Versions : keys'[u][w] =
            IF w = 1 /\ u \in req[r].to THEN WrapFor(r, u) ELSE keys[u][w]
      BY <2>1, <2>2
    <2>4. req[r] \in Request
      BY DEF TypeOK
    <2>5. req'[r].version = 1
      BY <1>2, <2>4 DEF CreateCommit, TypeOK, Request
    <2> QED
      BY <2>3, <2>5, WrapForType
  <1>3. ASSUME AddCommit(r) \/ RemoveCommit(r)
        PROVE  \A u \in Users, v \in Versions :
                 \/ keys'[u][v] = keys[u][v]
                 \/ u \in req[r].to /\ keys'[u][v].ck = req[r].ck /\ v = req'[r].version
    <2>1. req[r].version \in 0..MaxVersion /\ req'[r].version = req[r].version
      BY <1>1, <1>3 DEF TypeOK, Request, AddCommit, RemoveCommit
    <2>2. \/ keys' = Insert(r, req[r].version)
          \/ keys' = InsertSkippingDuplicates(r, req[r].version)
      BY <1>3 DEF AddCommit, RemoveCommit
    <2>3. \A u \in Users, w \in Versions :
            \/ keys'[u][w] = keys[u][w]
            \/ u \in req[r].to /\ keys'[u][w] = WrapFor(r, u) /\ w = req[r].version
      BY <2>1, <2>2, InsertRows
    <2> QED
      BY <2>1, <2>3, WrapForType
  <1> QED
    BY <1>1, <1>2, <1>3

LEMMA KeysWereSealedAtStep ==
  ASSUME IInv, KeysWereSealedAt, TypeOK', [Next]_vars
  PROVE  KeysWereSealedAt'
  <1>1. \A u \in Users, k \in Requests, v \in Versions :
          SealedAt(u, k, v) => SealedAt(u, k, v)'
    BY SealedAtGrows
  <1>2. /\ \A u \in Users, v \in Versions : keys[u][v].ck \in CK
        /\ \A d \in Devices, v \in Versions : cache[d][v] \in CK
        /\ \A d \in Devices : Owner[d] \in Users
    BY OwnerAssumption DEF IInv, TypeOK, Wrap
  <1>3. \A r \in Creates' : req'[r].version = 1
    <2> SUFFICES ASSUME NEW r \in Creates'
                 PROVE  req'[r].version = 1
      OBVIOUS
    <2>1. r \in Committed' /\ r \in Requests /\ req'[r].op = "create"
      BY DEF Creates, Committed
    <2>2. CASE r \in Committed
      BY <2>1, <2>2, CommittedStay DEF KeysWereSealedAt, Creates, Committed
    <2>3. CASE CreateCommit(r)
      BY <2>1, <2>3, CommitWrites
    <2>4. CASE AddCommit(r) \/ RemoveCommit(r)
      <3>1. SameRequest(r)
        BY <2>1, <2>4, CommitFrame DEF IInv
      <3> QED
        BY <2>1, <2>4, <3>1 DEF SameRequest, AddCommit, RemoveCommit
    <2> QED
      BY <2>1, <2>2, <2>3, <2>4, NewlyCommitted
  <1>4. CASE keys' = keys /\ cache' = cache
    BY <1>1, <1>2, <1>3, <1>4 DEF KeysWereSealedAt, CK
  <1>5. ASSUME NEW r \in Requests, CreateCommit(r) \/ AddCommit(r) \/ RemoveCommit(r)
        PROVE  KeysWereSealedAt'
    <2>1. /\ r \in Committed' /\ req'[r].ck = req[r].ck /\ req'[r].to = req[r].to
          /\ \A u \in Users, v \in Versions :
               \/ keys'[u][v] = keys[u][v]
               \/ u \in req[r].to /\ keys'[u][v].ck = req[r].ck /\ v = req'[r].version
          /\ CreateCommit(r) => req'[r].version = 1
      BY <1>5, CommitWrites
    <2>2. \A d \in Devices, v \in Versions :
            \/ cache'[d][v] = cache[d][v]
            \/ /\ Owner[d] \in req[r].to /\ cache'[d][v] = req[r].ck
               /\ v = req'[r].version
      BY <1>5, <2>1
         DEF CreateCommit, AddCommit, RemoveCommit, clientVars, IInv, TypeOK,
             RequestsWellFormed
    <2>3. (\A u \in Users, v \in Versions :
             keys[u][v].ck # NoCK => SealedAt(u, keys[u][v].ck, v))'
      BY <1>1, <1>2, <2>1 DEF KeysWereSealedAt, SealedAt, CK
    <2>4. (\A d \in Devices, v \in Versions :
             cache[d][v] # NoCK => SealedAt(Owner[d], cache[d][v], v))'
      BY <1>1, <1>2, <2>1, <2>2 DEF KeysWereSealedAt, SealedAt, CK
    <2> QED
      BY <1>3, <2>3, <2>4 DEF KeysWereSealedAt
  <1>6. ASSUME NEW d \in Devices, FinishFetch(d)
        PROVE  KeysWereSealedAt'
    <2>1. keys' = keys
      BY <1>6 DEF FinishFetch, serverVars
    <2>2. \A p \in Devices, v \in Versions :
            cache'[p][v] = cache[p][v] \/ cache'[p][v] = keys[Owner[p]][v].ck
      BY <1>6 DEF FinishFetch, OpenInto, IInv, TypeOK
    <2> QED
      BY <1>1, <1>2, <1>3, <2>1, <2>2 DEF KeysWereSealedAt, CK
  <1>7. ASSUME NEW d \in Devices, LostReset(d)
        PROVE  KeysWereSealedAt'
    <2>1. \A u \in Users, v \in Versions :
            keys'[u][v] = keys[u][v] \/ keys'[u][v].ck = NoCK
      BY <1>7 DEF LostReset, IInv, TypeOK, NoWrap
    <2>2. \A p \in Devices, v \in Versions :
            cache'[p][v] = cache[p][v] \/ cache'[p][v] = NoCK
      BY <1>7 DEF LostReset, IInv, TypeOK
    <2> QED
      BY <1>1, <1>2, <1>3, <2>1, <2>2 DEF KeysWereSealedAt, CK
  <1> QED
    BY <1>4, <1>5, <1>6, <1>7
       DEF Next, vars, serverVars, clientVars, StartCreate, StartAdd, StartRemove,
           AddRead, RemoveRead, RemoveAbort, LeaveGroup, BeginFetch

(* When the conversation is created, nobody held a key of it before.       *)
LEMMA FounderKeysAtCreation ==
  ASSUME IInv, KeysWereSealedAt, TypeOK', IInv', [Next]_vars,
         NEW r \in Requests, CreateCommit(r)
  PROVE  FounderKeys'
  <1>1. /\ \A u \in Users, v \in Versions : keys[u][v].ck = NoCK
        /\ \A d \in Devices, v \in Versions : cache[d][v] = NoCK
    BY NothingBeforeCreation DEF KeysWereSealedAt, SealedAt
  <1>2. /\ r \in Committed' /\ req'[r].ck = req[r].ck
        /\ \A u \in Users, v \in Versions :
             \/ keys'[u][v] = keys[u][v]
             \/ u \in req[r].to /\ keys'[u][v].ck = req[r].ck /\ v = req'[r].version
        /\ req'[r].version = 1
    BY CommitWrites
  <1>3. req[r].ck = r /\ r \in Creates'
    BY <1>2, CommitFrame
       DEF IInv, RequestsWellFormed, CreateCommit, Creates, Committed, SameRequest
  <1>4. \A d \in Devices, v \in Versions :
          \/ cache'[d][v] = cache[d][v]
          \/ cache'[d][v] = req[r].ck /\ v = 1
    BY DEF CreateCommit, IInv, TypeOK
  <1> SUFFICES ASSUME NEW g \in Users, IntactFounder(g)', NEW v \in Versions
               PROVE  /\ keys'[g][v].ck # NoCK => v <= currentKeyVersion'
                      /\ \A d \in Devices :
                           Owner[d] = g /\ cache'[d][v] # NoCK
                             => keys'[g][v].ck = cache'[d][v]
    BY DEF FounderKeys
  <1>5. keys'[g][1] = [ck |-> r, ik |-> identity'[g]]
    BY <1>3 DEF IInv, FounderView
  <1> QED
    BY <1>1, <1>2, <1>3, <1>4, <1>5 DEF CreateCommit

LEMMA FounderKeysStep ==
  ASSUME IInv, KeysWereSealedAt, FounderKeys, TypeOK', IInv', [Next]_vars
  PROVE  FounderKeys'
  <1>1. CASE \E r \in Requests : CreateCommit(r)
    BY <1>1, FounderKeysAtCreation
  <1>2. CASE \A r \in Requests : ~CreateCommit(r)
    <2> SUFFICES ASSUME NEW g \in Users, IntactFounder(g)', NEW v \in Versions
                 PROVE  /\ keys'[g][v].ck # NoCK => v <= currentKeyVersion'
                        /\ \A d \in Devices :
                             Owner[d] = g /\ cache'[d][v] # NoCK
                               => keys'[g][v].ck = cache'[d][v]
      BY DEF FounderKeys
    <2>1. IntactFounder(g) /\ identity'[g] = identity[g]
      BY <1>2, IntactBefore
    <2>2. /\ currentKeyVersion \in Nat /\ currentKeyVersion' \in Nat /\ v \in Nat
          /\ currentKeyVersion <= currentKeyVersion'
      BY VersionStepHolds, BoundAssumption DEF VersionStep, IInv, TypeOK, Versions
    <2>3. keys[g][v].ck # NoCK => keys'[g][v] = keys[g][v]
      BY <2>1, WrapsStayHolds DEF WrapsStay, NoWrap
    <2>4. /\ keys[g][v].ck # NoCK => v <= currentKeyVersion
          /\ \A d \in Devices :
               Owner[d] = g /\ cache[d][v] # NoCK => keys[g][v].ck = cache[d][v]
      BY <2>1 DEF FounderKeys
    <2>5. ASSUME keys'[g][v] # keys[g][v], keys'[g][v].ck # NoCK
          PROVE  v <= currentKeyVersion'
      <3>1. CASE \E r \in Requests : AddCommit(r)
        <4>1. PICK r \in Requests : AddCommit(r)
          BY <3>1
        <4>2. req[r].version <= currentKeyVersion /\ req[r].op = "add"
          BY <2>1, <4>1 DEF IInv, FounderView, AddCommit
        <4>3. v = req'[r].version /\ req'[r].version = req[r].version
          BY <2>5, <4>1, <4>2, CommitWrites, CommitFrame DEF IInv
        <4> QED
          BY <2>2, <4>2, <4>3, <4>1 DEF AddCommit
      <3>2. CASE \E r \in Requests : RemoveCommit(r)
        <4>1. PICK r \in Requests : RemoveCommit(r)
          BY <3>2
        <4>2. v = req'[r].version /\ req'[r].version = req[r].version
          BY <2>5, <4>1, CommitWrites, CommitFrame DEF IInv, RemoveCommit
        <4> QED
          BY <2>2, <4>1, <4>2 DEF RemoveCommit
      <3>3. CASE \E d \in Devices : LostReset(d)
        <4>1. PICK d \in Devices : LostReset(d)
          BY <3>3
        <4>2. Owner[d] = g
          BY <2>5, <4>1, OwnerAssumption DEF LostReset, IInv, TypeOK
        <4>3. identity'[g] # identity[g]
          BY <4>1, <4>2, BoundAssumption DEF LostReset, IInv, TypeOK, Identities
        <4> QED
          BY <2>1, <4>3
      <3> QED
        BY <1>2, <2>5, <3>1, <3>2, <3>3
           DEF Next, vars, serverVars, StartCreate, StartAdd, StartRemove, AddRead,
               RemoveRead, RemoveAbort, LeaveGroup, BeginFetch, FinishFetch
    <2>6. ASSUME NEW d \in Devices, Owner[d] = g, cache'[d][v] # NoCK
          PROVE  keys'[g][v].ck = cache'[d][v]
      <3>1. CASE cache'[d][v] = cache[d][v]
        BY <2>3, <2>4, <2>6, <3>1
      <3>2. CASE \E p \in Devices : FinishFetch(p)
        <4>1. PICK p \in Devices : FinishFetch(p)
          BY <3>2
        <4>2. keys' = keys
          BY <4>1 DEF FinishFetch, serverVars
        <4>3. cache'[d][v] = cache[d][v] \/ cache'[d][v] = keys[Owner[d]][v].ck
          BY <4>1 DEF FinishFetch, OpenInto, IInv, TypeOK
        <4> QED
          BY <2>6, <3>1, <4>2, <4>3
      <3>3. CASE \E p \in Devices : LostReset(p)
        <4>1. PICK p \in Devices : LostReset(p)
          BY <3>3
        <4>2. cache'[d][v] = cache[d][v] \/ cache'[d][v] = NoCK
          BY <4>1 DEF LostReset, IInv, TypeOK
        <4> QED
          BY <2>6, <3>1, <4>2
      <3> QED
        BY <1>2, <3>1, <3>2, <3>3
           DEF Next, vars, clientVars, StartCreate, StartAdd, StartRemove, AddRead,
               AddCommit, RemoveRead, RemoveCommit, RemoveAbort, LeaveGroup, BeginFetch
    <2> QED
      BY <2>2, <2>3, <2>4, <2>5, <2>6
  <1> QED
    BY <1>1, <1>2

LEMMA KeysInvStep == KeysInv /\ [Next]_vars => KeysInv'
  BY IInvStep, KeysWereSealedAtStep, FounderKeysStep DEF KeysInv, IInv

(* What founders hold, and since when: the invariant behind the agreement. *)
THEOREM KeysInductive == Spec => []KeysInv
  <1>1. Init => KeysInv
    BY InitIInv
       DEF Init, KeysInv, KeysWereSealedAt, FounderKeys, NoWrap, Creates, Unsent, Blank,
           IntactFounder
  <1> QED
    BY <1>1, KeysInvStep, PTL DEF Spec

(* Every intact founder has the key that the create or the removal of a    *)
(* version brought, and none of a version to come.                         *)
LEMMA FounderHasInstalled ==
  ASSUME KeysInv, NEW g \in Users, IntactFounder(g), NEW v \in Versions
  PROVE  InstalledKeys[v] = keys[g][v].ck
  <1>1. ASSUME NEW r \in Requests, Brings(r, v)
        PROVE  keys[g][v].ck = r
    <2>1. FounderView(g) /\ (r \in Creates \/ r \in Rotations)
      BY <1>1 DEF KeysInv, IInv, Brings, Creates, Rotations
    <2>2. CASE r \in Creates
      <3>1. v = 1
        BY <1>1, <2>2 DEF Brings, KeysInv, KeysWereSealedAt
      <3>2. keys[g][1] = [ck |-> r, ik |-> identity[g]]
        BY <2>1, <2>2 DEF FounderView
      <3> QED
        BY <3>1, <3>2
    <2>3. CASE r \in Rotations
      <3>1. keys[g][req[r].version] = [ck |-> r, ik |-> identity[g]]
        BY <2>1, <2>3 DEF FounderView
      <3> QED
        BY <1>1, <3>1 DEF Brings
    <2> QED
      BY <2>1, <2>2, <2>3
  <1>2. CASE \E r \in Requests : Brings(r, v)
    BY <1>1, <1>2 DEF InstalledKeys
  <1>3. CASE \A r \in Requests : ~Brings(r, v)
    <2>1. ASSUME keys[g][v].ck # NoCK
          PROVE  FALSE
      <3>1. v \in 1..currentKeyVersion
        BY <2>1, BoundAssumption DEF KeysInv, FounderKeys, IInv, TypeOK, Versions
      <3>2. PICK r \in Creates \union Rotations :
              /\ r \in Rotations => req[r].version = v
              /\ r \in Creates => v = 1
        BY <3>1, FounderRows DEF KeysInv
      <3>3. r \in Requests /\ Brings(r, v)
        BY <3>2 DEF Brings, Creates, Rotations, KeysInv, KeysWereSealedAt
      <3> QED
        BY <1>3, <3>3
    <2> QED
      BY <1>3, <2>1 DEF InstalledKeys
  <1> QED
    BY <1>2, <1>3

(* Nothing is installed before the conversation is created.                *)
LEMMA NothingInstalled ==
  ASSUME IInv, Creates = {}
  PROVE  InstalledKeys = [v \in Versions |-> NoCK]
  BY DEF InstalledKeys, Brings, IInv, CreatedOnce, Creates

LEMMA AgreedKeysType ==
  /\ AgreedKeys \in [Versions -> Requests \union {NoCK}]
  /\ \A r \in Requests, v \in Versions : AgreedKeys[v] = r => Brings(r, v)
  BY NoCKAssumption DEF AgreedKeys, InstalledKeys

(* What founders hold are copies of the agreed keys.                       *)
LEMMA CopiesAgree ==
  ASSUME KeysInv
  PROVE  FounderCopies \in GroupKeys!Copies(AgreedKeys)
  <1>1. ASSUME NEW h \in CopyHolders, NEW v \in Versions
        PROVE  FounderCopies[h][v] \in {NoCK, AgreedKeys[v]}
    <2>1. CASE h[1] = "wraps"
      <3>1. h[2] \in Users
        BY <2>1 DEF CopyHolders
      <3>2. CASE IntactFounder(h[2])
        <4>1. AgreedKeys[v] = keys[h[2]][v].ck
          BY <3>1, <3>2, FounderHasInstalled DEF AgreedKeys, FoundersLast
        <4> QED
          BY <2>1, <3>2, <4>1 DEF FounderCopies
      <3> QED
        BY <2>1, <3>2 DEF FounderCopies
    <2>2. CASE h[1] = "cache"
      <3>1. h[2] \in Devices /\ Owner[h[2]] \in Users
        BY <2>2, OwnerAssumption DEF CopyHolders
      <3>2. CASE IntactFounder(Owner[h[2]])
        <4>1. AgreedKeys[v] = keys[Owner[h[2]]][v].ck
          BY <3>1, <3>2, FounderHasInstalled DEF AgreedKeys, FoundersLast
        <4>2. cache[h[2]][v] \in {NoCK, keys[Owner[h[2]]][v].ck}
          BY <3>1, <3>2 DEF KeysInv, FounderKeys
        <4> QED
          BY <2>2, <3>2, <4>1, <4>2 DEF FounderCopies
      <3> QED
        BY <2>2, <3>2 DEF FounderCopies
    <2> QED
      BY <2>1, <2>2 DEF CopyHolders
  <1>2. FounderCopies \in [CopyHolders -> [Versions -> Requests \union {NoCK}]]
    BY <1>1, AgreedKeysType DEF FounderCopies
  <1> QED
    BY <1>1, <1>2 DEF GroupKeys!Copies

(* The same facts of the state a step leads to.                            *)
LEMMA AgreementAfter ==
  /\ (KeysInv => \A g \in Users, v \in Versions :
        IntactFounder(g) => InstalledKeys[v] = keys[g][v].ck)'
  /\ (IInv /\ Creates = {} => InstalledKeys = [v \in Versions |-> NoCK])'
  /\ (AgreedKeys \in [Versions -> Requests \union {NoCK}])'
  /\ (KeysInv => FounderCopies \in GroupKeys!Copies(AgreedKeys))'
  <1>1. KeysInv => \A g \in Users, v \in Versions :
          IntactFounder(g) => InstalledKeys[v] = keys[g][v].ck
    BY FounderHasInstalled
  <1>2. IInv /\ Creates = {} => InstalledKeys = [v \in Versions |-> NoCK]
    BY NothingInstalled
  <1>3. AgreedKeys \in [Versions -> Requests \union {NoCK}]
    BY AgreedKeysType
  <1>4. KeysInv => FounderCopies \in GroupKeys!Copies(AgreedKeys)
    BY CopiesAgree
  <1> QED
    BY <1>1, <1>2, <1>3, <1>4, PTL

(* An agreement that has ended does not come back.                         *)
LEMMA FoundersDoNotReturn ==
  ASSUME KeysInv, KeysInv', [Next]_vars, FoundersLast'
  PROVE  FoundersLast
  <1>1. CASE \E r \in Requests : CreateCommit(r)
    BY <1>1, NothingBeforeCreation DEF FoundersLast, KeysInv
  <1>2. CASE \A r \in Requests : ~CreateCommit(r)
    <2>1. CASE Creates' = {}
      <3>1. Creates = {}
        BY <2>1, CommittedStay DEF Creates, Committed, KeysInv, IInv
      <3> QED
        BY <3>1 DEF FoundersLast
    <2>2. CASE \E g \in Users : IntactFounder(g)'
      BY <1>2, <2>2, IntactBefore DEF FoundersLast, KeysInv, IInv
    <2> QED
      BY <2>1, <2>2 DEF FoundersLast
  <1> QED
    BY <1>1, <1>2

(* The create brings the key of version 1.                                 *)
LEMMA CreateChooses ==
  ASSUME KeysInv, KeysInv', [Next]_vars, FoundersLast, FoundersLast',
         NEW r \in Requests, CreateCommit(r)
  PROVE  GroupKeys!Choose(1, r)
  <1>1. Committed = {} /\ Creates = {} /\ 1 \in Versions
    BY NothingBeforeCreation, BoundAssumption DEF KeysInv, Versions
  <1>2. AgreedKeys = [v \in Versions |-> NoCK]
    BY <1>1, NothingInstalled DEF AgreedKeys, KeysInv
  <1>3. /\ SameRequest(r) /\ req'[r].pc = "committed" /\ req'[r].version = 1
        /\ req[r].op = "create"
    BY CommitFrame, CommitWrites DEF CreateCommit, KeysInv, IInv, Committed
  <1>4. \A q \in Requests, v \in Versions : Brings(q, v)' <=> q = r /\ v = 1
    BY <1>1, <1>3 DEF Brings, SameRequest, Committed
  <1>5. AgreedKeys' = [AgreedKeys EXCEPT ![1] = r]
    BY <1>1, <1>2, <1>4 DEF AgreedKeys, InstalledKeys
  <1> QED
    BY <1>1, <1>2, <1>5, AgreementAfter, NoCKAssumption DEF GroupKeys!Choose

(* A removal that commits while a founder stays intact brings the key of   *)
(* the next version, which has none.                                       *)
LEMMA RemovalChooses ==
  ASSUME KeysInv, KeysInv', [Next]_vars, NEW r \in Requests, RemoveCommit(r),
         NEW g \in Users, IntactFounder(g)'
  PROVE  \E v \in Versions : GroupKeys!Choose(v, r)
  <1> USE DEF KeysInv
  <1> DEFINE w == req[r].version
  <1>1. /\ IntactFounder(g) /\ g \in req[r].to /\ w = currentKeyVersion + 1
        /\ FoundersLast /\ FoundersLast'
    BY RotationIsNext DEF IInv, FoundersLast
  <1>2. w \in 0..MaxVersion /\ currentKeyVersion \in Nat /\ w \in Versions
    BY <1>1, BoundAssumption DEF IInv, TypeOK, Request, Versions
  <1>3. /\ \A v \in Versions : AgreedKeys[v] = keys[g][v].ck
        /\ \A v \in Versions : AgreedKeys'[v] = keys'[g][v].ck
    BY <1>1, FounderHasInstalled, AgreementAfter DEF AgreedKeys
  <1>4. AgreedKeys[w] = NoCK
    BY <1>1, <1>2, <1>3 DEF FounderKeys
  <1>5. \A v \in Versions : AgreedKeys[v] # r
    BY AgreedKeysType DEF RemoveCommit, Brings
  <1>6. \A v \in Versions : keys'[g][v].ck = IF v = w THEN r ELSE keys[g][v].ck
    BY <1>1, <1>2 DEF RemoveCommit, Insert, WrapFor, IInv, TypeOK, RequestsWellFormed
  <1>7. AgreedKeys' = [AgreedKeys EXCEPT ![w] = r]
    BY <1>2, <1>3, <1>6, AgreedKeysType, AgreementAfter
  <1> QED
    BY <1>1, <1>2, <1>4, <1>5, <1>7, AgreementAfter DEF GroupKeys!Choose

(* No other step changes a key that is agreed on.                          *)
LEMMA AgreedKeysStay ==
  ASSUME KeysInv, KeysInv', [Next]_vars, FoundersLast, FoundersLast',
         \A r \in Requests : ~CreateCommit(r) /\ ~RemoveCommit(r)
  PROVE  AgreedKeys' = AgreedKeys
  <1> USE DEF KeysInv
  <1>1. CASE Creates' = {}
    <2>1. Creates = {}
      BY <1>1, CommittedStay DEF Creates, Committed, IInv
    <2> QED
      BY <1>1, <2>1, NothingInstalled, AgreementAfter DEF AgreedKeys
  <1>2. CASE \E g \in Users : IntactFounder(g)'
    <2>1. PICK g \in Users : IntactFounder(g)'
      BY <1>2
    <2>2. IntactFounder(g) /\ identity'[g] = identity[g]
      BY <2>1, IntactBefore DEF IInv
    <2>3. currentKeyVersion' = currentKeyVersion
      BY DEF Next, vars, serverVars, StartCreate, StartAdd, AddRead, AddCommit, StartRemove,
             RemoveRead, RemoveAbort, LeaveGroup, BeginFetch, FinishFetch, LostReset
    <2>4. ASSUME NEW v \in Versions
          PROVE  keys'[g][v].ck = keys[g][v].ck
      <3>1. CASE keys[g][v] # NoWrap
        BY <2>2, <3>1, WrapsStayHolds DEF WrapsStay
      <3>2. CASE keys[g][v] = NoWrap /\ keys'[g][v].ck # NoCK
        <4>1. v \in 1..currentKeyVersion
          BY <2>1, <2>3, <3>2, BoundAssumption DEF FounderKeys, IInv, TypeOK, Versions
        <4> QED
          BY <2>2, <3>2, <4>1, FounderRows
      <3> QED
        BY <3>1, <3>2 DEF NoWrap
    <2>5. \A v \in Versions : AgreedKeys'[v] = AgreedKeys[v]
      BY <2>1, <2>2, <2>4, FounderHasInstalled, AgreementAfter DEF AgreedKeys
    <2> QED
      BY <2>5, AgreedKeysType, AgreementAfter
  <1> QED
    BY <1>1, <1>2 DEF FoundersLast

(* Each step chooses a key, moves copies, ends the agreement, or does      *)
(* none of these.                                                          *)
LEMMA AgreementStep ==
  ASSUME KeysInv, KeysInv', [Next]_vars
  PROVE  [GroupKeys!AgreementNext]_(GroupKeys!agreementVars)
  <1> USE DEF GroupKeys!AgreementNext, GroupKeys!agreementVars
  <1>1. CASE ~FoundersLast'
    <2>1. /\ AgreedKeys' = GroupKeys!Nothing
          /\ FounderCopies' = [h \in CopyHolders |-> GroupKeys!Nothing]
      BY <1>1, OwnerAssumption
         DEF AgreedKeys, FounderCopies, FoundersLast, CopyHolders, GroupKeys!Nothing
    <2>2. CASE FoundersLast
      BY <1>1, <2>1, <2>2 DEF GroupKeys!End, FoundersLast
    <2>3. CASE ~FoundersLast
      <3>1. /\ AgreedKeys = GroupKeys!Nothing
            /\ FounderCopies = [h \in CopyHolders |-> GroupKeys!Nothing]
        BY <2>3, OwnerAssumption
           DEF AgreedKeys, FounderCopies, FoundersLast, CopyHolders, GroupKeys!Nothing
      <3>2. FoundersLast' = FoundersLast
        BY <1>1, <2>3 DEF FoundersLast
      <3> QED
        BY <2>1, <3>1, <3>2
    <2> QED
      BY <2>2, <2>3
  <1>2. CASE FoundersLast'
    <2>1. FoundersLast
      BY <1>2, FoundersDoNotReturn
    <2>2. CASE \E r \in Requests : CreateCommit(r)
      <3>1. 1 \in Versions
        BY BoundAssumption DEF Versions
      <3> QED
        BY <1>2, <2>1, <2>2, <3>1, CreateChooses
    <2>3. CASE \E r \in Requests : RemoveCommit(r)
      <3>1. PICK r \in Requests : RemoveCommit(r)
        BY <2>3
      <3>2. PICK g \in Users : IntactFounder(g)'
        <4>1. SameRequest(r) /\ req[r].op = "remove"
          BY <3>1, CommitFrame DEF RemoveCommit, KeysInv, IInv
        <4>2. Creates' # {}
          BY <4>1 DEF KeysInv, IInv, CreatedOnce, SameRequest
        <4> QED
          BY <1>2, <4>2 DEF FoundersLast
      <3> QED
        BY <2>1, <3>1, <3>2, RemovalChooses
    <2>4. CASE \A r \in Requests : ~CreateCommit(r) /\ ~RemoveCommit(r)
      <3>1. AgreedKeys' = AgreedKeys /\ FounderCopies' \in GroupKeys!Copies(AgreedKeys')
        BY <1>2, <2>1, <2>4, AgreedKeysStay, AgreementAfter
      <3> QED
        BY <1>2, <2>1, <3>1 DEF GroupKeys!Copy
    <2> QED
      BY <2>2, <2>3, <2>4
  <1> QED
    BY <1>1, <1>2

(* ConversationKeys implements KeyAgreement, for any users, devices and    *)
(* requests: from the creation on, as long as a founder is intact, one key *)
(* is chosen for each version, and the founders' wraps and caches hold no  *)
(* other.                                                                  *)
THEOREM GroupsAgreeOnKeys == Spec => GroupKeysAreAgreed
  <1>1. Init => GroupKeys!AgreementInit
    BY OwnerAssumption
       DEF Init, GroupKeys!AgreementInit, GroupKeys!Nothing, AgreedKeys, InstalledKeys,
           Brings, FoundersLast, Creates, IntactFounder, FounderCopies, CopyHolders, Unsent,
           Blank
  <1> QED
    BY <1>1, AgreementStep, KeysInductive, PTL DEF Spec, GroupKeysAreAgreed,
       GroupKeys!AgreementSpec
===============================================================================
