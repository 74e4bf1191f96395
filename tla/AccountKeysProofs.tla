-------------------------- MODULE AccountKeysProofs --------------------------
(***************************************************************************)
(* Theorems about AccountKeys, for every set of calls, tokens, codes and   *)
(* devices: its types, and that a token or a recovery code resets the      *)
(* password once.                                                          *)
(***************************************************************************)
EXTENDS AccountKeys, TLAPS

LEMMA IdleCallType == Idle \in Call
  BY NullAssumption, BoundAssumption DEF Idle, Call

(* Beginning and finishing a call.                                         *)
LEMMA CallsType ==
  ASSUME call \in [Calls -> Call], NEW k \in Calls, NEW q \in Call,
         Begin(k, q) \/ Finish(k)
  PROVE  call' \in [Calls -> Call]
  BY IdleCallType DEF Begin, Finish

(* The counters of the properties.                                         *)
LEMMA CountType ==
  ASSUME NEW S, NEW f \in [S -> Nat], NEW x
  PROVE  Count(f, x) \in [S -> Nat]
  BY DEF Count

LEMMA CodesType ==
  ASSUME TypeOK, NEW C \in SUBSET Codes, NEW mk \in 0..MaxKey
  PROVE  ReplaceCodes(C, mk) \in [Codes -> Code]
  <1> SUFFICES ASSUME NEW c \in Codes
               PROVE  ReplaceCodes(C, mk)[c] \in Code
    BY DEF ReplaceCodes
  <1>1. code[c] \in Code
    BY DEF TypeOK
  <1>2. CASE c \in C
    BY <1>2 DEF ReplaceCodes, Code
  <1>3. CASE c \notin C /\ code[c].state = "none"
    BY <1>1, <1>3 DEF ReplaceCodes
  <1>4. CASE c \notin C /\ code[c].state # "none"
    <2>1. code[c] \in [state : {"unused", "used", "deleted"}, mk : 0..MaxKey]
      BY <1>1, <1>4 DEF Code, NoRow
    <2>2. [code[c] EXCEPT !.state = "deleted"] \in
            [state : {"unused", "used", "deleted"}, mk : 0..MaxKey]
      BY <2>1
    <2> QED  BY <1>4, <2>2 DEF ReplaceCodes, Code
  <1> QED  BY <1>2, <1>3, <1>4

LEMMA PasswordType ==
  ASSUME TypeOK, NEW mk \in 0..MaxKey, StorePassword(mk)
  PROVE  user' \in User /\ bare' \in BOOLEAN
  <1>1. user \in [password : Passwords, kek : Passwords, wrapped : 0..MaxKey,
                 secrets : Keys]
    BY DEF TypeOK, User
  <1>2. user.password + 1 \in Passwords
    BY <1>1, BoundAssumption DEF StorePassword, Passwords
  <1>3. user' = [password |-> user.password + 1, kek |-> user.password + 1,
                 wrapped |-> mk, secrets |-> user.secrets]
    BY <1>1 DEF StorePassword
  <1> QED  BY <1>1, <1>2, <1>3 DEF User, StorePassword

LEMMA InitType == Init => TypeOK
  <1> SUFFICES ASSUME Init PROVE TypeOK
    OBVIOUS
  <1>1. user \in User
    BY BoundAssumption DEF Init, User, Passwords, Keys
  <1>2. code \in [Codes -> Code]
    BY BoundAssumption DEF Init, Code, NoRow
  <1>3. token \in [Tokens -> Token]
    BY BoundAssumption DEF Init, Token
  <1>4. device \in [Devices -> 0..MaxKey]
    BY BoundAssumption DEF Init
  <1> QED  BY <1>1, <1>2, <1>3, <1>4, IdleCallType DEF Init, TypeOK, Passkey

(* The parts of a call that later steps rely on.                           *)
LEMMA CallFields ==
  ASSUME TypeOK, NEW k \in Calls
  PROVE  /\ call[k] \in Call
         /\ call[k].mk \in 0..MaxKey
         /\ call[k].token \in Tokens \union {NoToken}
         /\ call[k].code \in Codes \union {NoCode}
  BY DEF TypeOK, Call

LEMMA TokenFields ==
  ASSUME TypeOK, NEW t \in Tokens
  PROVE  /\ token[t] \in Token
         /\ token[t].mk \in 0..MaxKey
         /\ token[t].code \in Codes \union {NoCode}
         /\ Consumed(t) \in [Tokens -> Token]
  BY DEF TypeOK, Token, Consumed

(* One step of the specification keeps the types.                          *)
LEMMA TypeStep == TypeOK /\ [Next]_vars => TypeOK'
  <1> SUFFICES ASSUME TypeOK, [Next]_vars PROVE TypeOK'
    OBVIOUS
  <1> USE DEF ghosts
  <1>1. ASSUME NEW k \in Calls, NEW op \in {"change", "codes"}, FetchKeys(k, op)
        PROVE  TypeOK'
    <2> DEFINE q == [op |-> op, pc |-> "fetched", mk |-> user.wrapped,
                     proves |-> user.kek, token |-> NoToken, code |-> NoCode]
    <2>1. q \in Call
      BY BoundAssumption DEF Call, TypeOK, User, Passwords
    <2>2. call' \in [Calls -> Call]
      BY <1>1, <2>1, CallsType DEF FetchKeys, TypeOK
    <2> QED  BY <1>1, <2>2 DEF FetchKeys, TypeOK
  <1>2. ASSUME NEW k \in Calls, CheckPassword(k)  PROVE  TypeOK'
    <2>1. [call[k] EXCEPT !.pc = "write"] \in Call
      BY CallFields DEF Call
    <2>2. call' \in [Calls -> Call]
      BY <1>2, <2>1, IdleCallType DEF CheckPassword, Finish, TypeOK
    <2> QED  BY <1>2, <2>2 DEF CheckPassword, TypeOK
  <1>3. ASSUME NEW k \in Calls, ChangeWrite(k) \/ HandshakeWrite(k)  PROVE  TypeOK'
    <2>1. user' \in User /\ bare' \in BOOLEAN
      BY <1>3, CallFields, PasswordType DEF ChangeWrite, HandshakeWrite
    <2>2. call' \in [Calls -> Call]
      BY <1>3, IdleCallType, CallsType DEF ChangeWrite, HandshakeWrite, TypeOK
    <2> QED
      BY <1>3, <2>1, <2>2 DEF ChangeWrite, HandshakeWrite, NoteUpload, TypeOK
  <1>4. ASSUME NEW k \in Calls, NEW C \in SUBSET Codes, RegenerateWrite(k, C)
        PROVE  TypeOK'
    <2>1. code' \in [Codes -> Code]
      BY <1>4, CallFields, CodesType DEF RegenerateWrite
    <2>2. call' \in [Calls -> Call]
      BY <1>4, IdleCallType, CallsType DEF RegenerateWrite, TypeOK
    <2> QED  BY <1>4, <2>1, <2>2 DEF RegenerateWrite, NoteUpload, TypeOK
  <1>5. ASSUME NEW t \in Tokens, NEW c \in Codes, RecoverVerify(t, c)
        PROVE  TypeOK'
    <2>1. code[c].mk \in 0..MaxKey
      BY BoundAssumption DEF TypeOK, Code, NoRow
    <2>2. [state |-> "live", flow |-> "code", code |-> c, mk |-> code[c].mk] \in Token
      BY <2>1 DEF Token
    <2>3. token' \in [Tokens -> Token]
      BY <1>5, <2>2 DEF RecoverVerify, Issue, TypeOK
    <2> QED  BY <1>5, <2>3 DEF RecoverVerify, Issue, TypeOK
  <1>6. ASSUME NEW t \in Tokens, PasskeyVerify(t)  PROVE  TypeOK'
    <2>1. passkey.mk \in 0..MaxKey
      BY BoundAssumption DEF TypeOK, Passkey, NoRow, Keys
    <2>2. [state |-> "live", flow |-> "passkey", code |-> NoCode,
           mk |-> passkey.mk] \in Token
      BY <2>1 DEF Token
    <2>3. token' \in [Tokens -> Token]
      BY <1>6, <2>2 DEF PasskeyVerify, Issue, TypeOK
    <2> QED  BY <1>6, <2>3 DEF PasskeyVerify, Issue, TypeOK
  <1>7. ASSUME NEW t \in Tokens, AuthorizeReset(t)  PROVE  TypeOK'
    <2>1. [state |-> "live", flow |-> "lost", code |-> NoCode, mk |-> 0] \in Token
      BY BoundAssumption DEF Token
    <2>2. token' \in [Tokens -> Token]
      BY <1>7, <2>1 DEF AuthorizeReset, Issue, TypeOK
    <2> QED  BY <1>7, <2>2 DEF AuthorizeReset, Issue, TypeOK
  <1>8. ASSUME NEW k \in Calls, NEW t \in Tokens, NEW op \in {"recover", "lost"},
               Redeem(k, t, op)
        PROVE  TypeOK'
    <2> DEFINE q == [op |-> op, pc |-> "write", mk |-> token[t].mk, proves |-> 0,
                     token |-> t, code |-> token[t].code]
    <2>1. q \in Call
      BY TokenFields, BoundAssumption DEF Call
    <2>2. call' \in [Calls -> Call]
      BY <1>8, <2>1, CallsType DEF Redeem, TypeOK
    <2>3. token' \in [Tokens -> Token]
      BY <1>8, TokenFields DEF Redeem
    <2> QED  BY <1>8, <2>2, <2>3 DEF Redeem, TypeOK
  <1>9. ASSUME NEW t \in Tokens, LoseComplete(t) \/ Expire(t)  PROVE  TypeOK'
    <2>1. [token EXCEPT ![t].mk = 0] \in [Tokens -> Token]
      BY BoundAssumption DEF TypeOK, Token
    <2>2. token' \in [Tokens -> Token]
      BY <1>9, <2>1, TokenFields DEF LoseComplete, Expire
    <2> QED  BY <1>9, <2>2 DEF LoseComplete, Expire, TypeOK
  <1>10. ASSUME NEW k \in Calls, RecoverCommit(k)  PROVE  TypeOK'
    <2> DEFINE c == call[k].code
    <2>1. user' \in User /\ bare' \in BOOLEAN
      BY <1>10, CallFields, PasswordType DEF RecoverCommit
    <2>2. code' \in [Codes -> Code]
      <3>1. CASE c = NoCode
        BY <1>10, <3>1 DEF RecoverCommit, TypeOK
      <3>2. CASE c \in Codes
        <4>1. code[c] \in [state : {"unused", "used", "deleted"}, mk : 0..MaxKey]
          BY <1>10, <3>2, NullAssumption
             DEF RecoverCommit, CodeAccepted, TypeOK, Code, NoRow
        <4>2. [code[c] EXCEPT !.state = "used"] \in Code
          BY <4>1 DEF Code
        <4>3. code' = [code EXCEPT ![c].state = "used"]
          BY <1>10, <3>2, NullAssumption DEF RecoverCommit
        <4> QED  BY <3>2, <4>2, <4>3 DEF TypeOK
      <3> QED  BY <3>1, <3>2, CallFields
    <2>3. call' \in [Calls -> Call]
      BY <1>10, IdleCallType, CallsType DEF RecoverCommit, TypeOK
    <2>4. /\ tokenUses' \in [Tokens -> Nat]
          /\ codeUses' \in [Codes -> Nat]
      BY <1>10, CountType DEF RecoverCommit, TypeOK
    <2>5. mixed' \in BOOLEAN
      BY <1>10 DEF RecoverCommit, NoteUpload, TypeOK
    <2> QED  BY <1>10, <2>1, <2>2, <2>3, <2>4, <2>5 DEF RecoverCommit, TypeOK
  <1>11. ASSUME NEW k \in Calls, RecoverAbort(k) \/ Drop(k)  PROVE  TypeOK'
    <2>1. call' \in [Calls -> Call]
      BY <1>11, IdleCallType, CallsType DEF RecoverAbort, Drop, TypeOK
    <2> QED  BY <1>11, <2>1 DEF RecoverAbort, Drop, TypeOK
  <1>12. ASSUME NEW d \in Devices, NEW prf \in BOOLEAN, RegisterPasskey(d, prf)
         PROVE  TypeOK'
    <2>1. passkey' \in Passkey
      BY <1>12, BoundAssumption DEF RegisterPasskey, TypeOK, Passkey, Keys
    <2> QED  BY <1>12, <2>1 DEF RegisterPasskey, NoteUpload, TypeOK
  <1>13. ASSUME NEW d \in Devices, SetCredentialPrf(d)  PROVE  TypeOK'
    <2>1. passkey' \in Passkey
      BY <1>13, BoundAssumption DEF SetCredentialPrf, TypeOK, Passkey, Keys
    <2> QED  BY <1>13, <2>1 DEF SetCredentialPrf, NoteUpload, TypeOK
  <1>14. CASE DeletePasskey
    BY <1>14 DEF DeletePasskey, TypeOK, Passkey
  <1>15. ASSUME NEW k \in Calls, NEW d \in Devices, Approve(k, d)  PROVE  TypeOK'
    <2> DEFINE q == [op |-> "handshake", pc |-> "write", mk |-> device[d],
                     proves |-> 0, token |-> NoToken, code |-> NoCode]
    <2>1. q \in Call
      BY BoundAssumption DEF Call, TypeOK
    <2>2. call' \in [Calls -> Call]
      BY <1>15, <2>1, CallsType DEF Approve, TypeOK
    <2> QED  BY <1>15, <2>2 DEF Approve, TypeOK
  <1>16. ASSUME NEW k \in Calls, NEW C \in SUBSET Codes, LostWrite(k, C)
         PROVE  TypeOK'
    <2> DEFINE new == user.secrets + 1
    <2>1. user.password \in 1..MaxPassword /\ user.secrets \in 1..MaxKey
      BY DEF TypeOK, User, Passwords, Keys
    <2>2. user.password < MaxPassword /\ user.secrets < MaxKey
      BY <1>16 DEF LostWrite
    <2>3. new \in 0..MaxKey /\ new \in Keys /\ user.password + 1 \in Passwords
      BY <2>1, <2>2, BoundAssumption DEF Keys, Passwords
    <2>4. user' \in User
      BY <1>16, <2>3 DEF LostWrite, User
    <2>5. code' \in [Codes -> Code]
      BY <1>16, <2>3, CodesType DEF LostWrite
    <2>6. passkey' \in Passkey
      BY <1>16, BoundAssumption DEF LostWrite, WipePasskey, TypeOK, Passkey, NoRow
    <2>7. call' \in [Calls -> Call]
      BY <1>16, IdleCallType, CallsType DEF LostWrite, TypeOK
    <2>8. tokenUses' \in [Tokens -> Nat]
      BY <1>16, CountType DEF LostWrite, TypeOK
    <2> QED  BY <1>16, <2>4, <2>5, <2>6, <2>7, <2>8 DEF LostWrite, TypeOK
  <1>17. ASSUME NEW d \in Devices, Login(d)  PROVE  TypeOK'
    BY <1>17, BoundAssumption DEF Login, TypeOK, User, Keys
  <1>18. CASE StoreHash
    <2>1. user.password + 1 \in Passwords
      BY <1>18, BoundAssumption DEF StoreHash, TypeOK, User, Passwords
    <2> QED  BY <1>18, <2>1 DEF StoreHash, TypeOK, User
  <1>19. CASE UNCHANGED vars
    BY <1>19 DEF vars, TypeOK
  <1> QED
    BY <1>1, <1>2, <1>3, <1>4, <1>5, <1>6, <1>7, <1>8, <1>9, <1>10, <1>11, <1>12,
       <1>13, <1>14, <1>15, <1>16, <1>17, <1>18, <1>19 DEF Next

(* Every variable stays in its type, for every number of calls, tokens,    *)
(* codes and devices: a PRF passkey always carries a wrap, a deleted code  *)
(* never comes back as an empty row.                                       *)
THEOREM TypeCorrect == Spec => []TypeOK
  <1> QED  BY InitType, TypeStep, PTL DEF Spec

(***************************************************************************)
(* One reset per token and per code.                                       *)
(*                                                                         *)
(* A redeemed token belongs to one call until that call has ended, and its *)
(* count is still 0 then; only the commit counts, and it ends the call.  A *)
(* code counts when it goes from unused to used, and no step takes it back.*)
(***************************************************************************)

(* Calls that come without a token leave the calls' tokens as they are.    *)
CallTokens ==
  \A k \in Calls : call'[k].token = call[k].token \/ call'[k].token = NoToken

LEMMA TokensKept ==
  ASSUME TypeOK, TokensAreSpent, CallTokens,
         token' = token, tokenUses' = tokenUses
  PROVE  TokensAreSpent'
  <1>1. \A t \in Tokens : token'[t].state \in {"none", "live"} => tokenUses'[t] = 0
    BY DEF TokensAreSpent
  <1>2. ASSUME NEW k \in Calls, call'[k].token \in Tokens
        PROVE  /\ token'[call'[k].token].state = "redeemed"
               /\ tokenUses'[call'[k].token] = 0
               /\ \A q \in Calls : call'[q].token = call'[k].token => q = k
    <2>1. call'[k].token = call[k].token
      BY <1>2, NullAssumption DEF CallTokens
    <2> QED  BY <1>2, <2>1, NullAssumption DEF CallTokens, TokensAreSpent
  <1> QED  BY <1>1, <1>2 DEF TokensAreSpent

LEMMA FinishTokens ==
  ASSUME TypeOK, NEW k \in Calls, Finish(k)
  PROVE  CallTokens /\ call'[k].token = NoToken
  BY DEF Finish, Idle, TypeOK, CallTokens

(* The commit counts the token of its call, and the call is over.          *)
LEMMA CommitTokens ==
  ASSUME TypeOK, TokensAreSpent, NEW k \in Calls, Finish(k),
         token' = token, tokenUses' = Count(tokenUses, call[k].token)
  PROVE  TokensAreSpent'
  <1> DEFINE t0 == call[k].token
  <1>1. DOMAIN tokenUses = Tokens
    BY DEF TypeOK
  <1>2. \A t \in Tokens : t # t0 => tokenUses'[t] = tokenUses[t]
    BY <1>1 DEF Count
  <1>3. \A q \in Calls : /\ q # k => call'[q] = call[q]
                         /\ q = k => call'[q].token = NoToken
    BY DEF Finish, Idle, TypeOK
  <1>4. \A t \in Tokens : token'[t].state \in {"none", "live"} => tokenUses'[t] = 0
    <2> SUFFICES ASSUME NEW t \in Tokens, token[t].state \in {"none", "live"}
                 PROVE  tokenUses'[t] = 0
      OBVIOUS
    <2>1. t # t0
      BY DEF TokensAreSpent
    <2> QED  BY <2>1, <1>2 DEF TokensAreSpent
  <1>5. ASSUME NEW q \in Calls, call'[q].token \in Tokens
        PROVE  /\ token'[call'[q].token].state = "redeemed"
               /\ tokenUses'[call'[q].token] = 0
               /\ \A p \in Calls : call'[p].token = call'[q].token => p = q
    <2>1. q # k /\ call'[q] = call[q]
      BY <1>3, <1>5, NullAssumption
    <2>2. call[q].token # t0
      BY <1>5, <2>1 DEF TokensAreSpent
    <2>3. \A p \in Calls : call'[p].token = call[q].token => p = q
      BY <1>3, <1>5, <2>1, NullAssumption DEF TokensAreSpent
    <2> QED  BY <1>2, <1>5, <2>1, <2>2, <2>3 DEF TokensAreSpent
  <1> QED  BY <1>4, <1>5 DEF TokensAreSpent

LEMMA RedeemTokens ==
  ASSUME TypeOK, TokensAreSpent, NEW k \in Calls, NEW t \in Tokens,
         NEW op \in {"recover", "lost"}, Redeem(k, t, op)
  PROVE  TokensAreSpent'
  <1>1. /\ call[k].token = NoToken
        /\ call'[k].token = t
        /\ \A q \in Calls : q # k => call'[q] = call[q]
    BY DEF Redeem, Begin, Idle, TypeOK
  <1>2. /\ token'[t].state = "redeemed"
        /\ \A s \in Tokens : s # t => token'[s] = token[s]
    BY DEF Redeem, Consumed, TypeOK, Token
  <1>3. tokenUses' = tokenUses /\ tokenUses[t] = 0 /\ token[t].state = "live"
    BY DEF Redeem, ghosts, TokensAreSpent
  <1>4. \A s \in Tokens : token'[s].state \in {"none", "live"} => tokenUses'[s] = 0
    BY <1>2, <1>3 DEF TokensAreSpent
  <1>5. \A q \in Calls : q # k => call[q].token # t
    BY <1>3 DEF TokensAreSpent
  <1>6. ASSUME NEW q \in Calls, call'[q].token \in Tokens
        PROVE  /\ token'[call'[q].token].state = "redeemed"
               /\ tokenUses'[call'[q].token] = 0
               /\ \A p \in Calls : call'[p].token = call'[q].token => p = q
    <2>1. CASE q = k
      BY <1>1, <1>2, <1>3, <1>5, <2>1
    <2>2. CASE q # k
      BY <1>1, <1>2, <1>3, <1>5, <1>6, <2>2 DEF TokensAreSpent
    <2> QED  BY <2>1, <2>2
  <1> QED  BY <1>4, <1>6 DEF TokensAreSpent

LEMMA IssueTokens ==
  ASSUME TypeOK, TokensAreSpent, NEW t \in Tokens, NEW flow, NEW c, NEW mk,
         Issue(t, flow, c, mk)
  PROVE  TokensAreSpent'
  <1>1. /\ token[t].state = "none" /\ tokenUses[t] = 0
        /\ \A s \in Tokens : s # t => token'[s] = token[s]
        /\ call' = call /\ tokenUses' = tokenUses
    BY DEF Issue, ghosts, TypeOK, TokensAreSpent
  <1>2. \A k \in Calls : call[k].token # t
    BY <1>1 DEF TokensAreSpent
  <1> QED  BY <1>1, <1>2 DEF TokensAreSpent

(* A live token that is touched by neither a redemption nor a call.        *)
LEMMA LiveTokens ==
  ASSUME TypeOK, TokensAreSpent, NEW t \in Tokens, LoseComplete(t) \/ Expire(t)
  PROVE  TokensAreSpent'
  <1>1. /\ token[t].state = "live" /\ tokenUses[t] = 0
        /\ \A s \in Tokens : s # t => token'[s] = token[s]
        /\ call' = call /\ tokenUses' = tokenUses
    BY DEF LoseComplete, Expire, Consumed, ghosts, TypeOK, TokensAreSpent
  <1>2. \A k \in Calls : call[k].token # t
    BY <1>1 DEF TokensAreSpent
  <1> QED  BY <1>1, <1>2 DEF TokensAreSpent

LEMMA TokensAreSpentStep == TypeOK /\ TokensAreSpent /\ [Next]_vars => TokensAreSpent'
  <1> SUFFICES ASSUME TypeOK, TokensAreSpent, [Next]_vars PROVE TokensAreSpent'
    OBVIOUS
  <1> USE DEF ghosts
  <1>1. ASSUME NEW k \in Calls, NEW op, FetchKeys(k, op) PROVE TokensAreSpent'
    <2>1. CallTokens
      BY <1>1 DEF FetchKeys, Begin, TypeOK, CallTokens
    <2> QED  BY <1>1, <2>1, TokensKept DEF FetchKeys
  <1>2. ASSUME NEW k \in Calls, CheckPassword(k)  PROVE TokensAreSpent'
    <2>1. CallTokens
      BY <1>2 DEF CheckPassword, Finish, Idle, TypeOK, Call, CallTokens
    <2> QED  BY <1>2, <2>1, TokensKept DEF CheckPassword
  <1>3. ASSUME NEW k \in Calls, ChangeWrite(k) \/ HandshakeWrite(k)
        PROVE  TokensAreSpent'
    BY <1>3, FinishTokens, TokensKept DEF ChangeWrite, HandshakeWrite
  <1>4. ASSUME NEW k \in Calls, NEW C, RegenerateWrite(k, C)  PROVE TokensAreSpent'
    BY <1>4, FinishTokens, TokensKept DEF RegenerateWrite
  <1>5. ASSUME NEW t \in Tokens, NEW c \in Codes, RecoverVerify(t, c)
        PROVE  TokensAreSpent'
    BY <1>5, IssueTokens DEF RecoverVerify
  <1>6. ASSUME NEW t \in Tokens, PasskeyVerify(t) \/ AuthorizeReset(t)
        PROVE  TokensAreSpent'
    BY <1>6, IssueTokens DEF PasskeyVerify, AuthorizeReset
  <1>7. ASSUME NEW k \in Calls, NEW t \in Tokens, NEW op \in {"recover", "lost"},
               Redeem(k, t, op)
        PROVE  TokensAreSpent'
    BY <1>7, RedeemTokens
  <1>8. ASSUME NEW t \in Tokens, LoseComplete(t) \/ Expire(t)  PROVE TokensAreSpent'
    BY <1>8, LiveTokens
  <1>9. ASSUME NEW k \in Calls, RecoverCommit(k)  PROVE TokensAreSpent'
    BY <1>9, CommitTokens DEF RecoverCommit
  <1>10. ASSUME NEW k \in Calls, RecoverAbort(k) \/ Drop(k)  PROVE TokensAreSpent'
    BY <1>10, FinishTokens, TokensKept DEF RecoverAbort, Drop
  <1>11. ASSUME NEW k \in Calls, NEW d \in Devices, Approve(k, d)
         PROVE  TokensAreSpent'
    <2>1. CallTokens
      BY <1>11 DEF Approve, Begin, TypeOK, CallTokens
    <2> QED  BY <1>11, <2>1, TokensKept DEF Approve
  <1>12. ASSUME NEW k \in Calls, NEW C, LostWrite(k, C)  PROVE TokensAreSpent'
    BY <1>12, CommitTokens DEF LostWrite
  <1>13. ASSUME NEW d \in Devices, NEW prf,
                Login(d) \/ RegisterPasskey(d, prf) \/ SetCredentialPrf(d)
         PROVE  TokensAreSpent'
    BY <1>13 DEF Login, RegisterPasskey, SetCredentialPrf, TokensAreSpent
  <1>14. CASE DeletePasskey \/ StoreHash
    BY <1>14 DEF DeletePasskey, StoreHash, TokensAreSpent
  <1>15. CASE UNCHANGED vars
    BY <1>15 DEF vars, TokensAreSpent
  <1> QED
    BY <1>1, <1>2, <1>3, <1>4, <1>5, <1>6, <1>7, <1>8, <1>9, <1>10, <1>11, <1>12,
       <1>13, <1>14, <1>15 DEF Next

(* A commit that names a code found it unused, and uses it.                *)
LEMMA CommitCodes ==
  ASSUME TypeOK, CodesAreSpent, ResetsHappenOnce, NEW k \in Calls, RecoverCommit(k)
  PROVE  CodesAreSpent' /\ \A c \in Codes : codeUses'[c] <= 1
  <1> DEFINE c == call[k].code
  <1>1. CASE c = NoCode
    <2>1. code' = code /\ codeUses' = codeUses
      BY <1>1, NullAssumption DEF RecoverCommit, Count, TypeOK
    <2> QED  BY <2>1 DEF CodesAreSpent, ResetsHappenOnce
  <1>2. CASE c \in Codes
    <2>1. code[c].state = "unused" /\ codeUses[c] = 0
      BY <1>2, NullAssumption DEF RecoverCommit, CodeAccepted, CodesAreSpent
    <2>2. /\ code'[c].state = "used"
          /\ \A b \in Codes : b # c => code'[b] = code[b]
      BY <1>2, <2>1, NullAssumption DEF RecoverCommit, TypeOK, Code, NoRow
    <2>3. /\ codeUses'[c] = 1
          /\ \A b \in Codes : b # c => codeUses'[b] = codeUses[b]
      BY <1>2, <2>1 DEF RecoverCommit, Count, TypeOK
    <2> QED  BY <2>2, <2>3 DEF CodesAreSpent, ResetsHappenOnce
  <1> QED  BY <1>1, <1>2, CallFields

(* New codes come from rows that were not there; old ones are deleted.     *)
LEMMA ReplaceKeeps ==
  ASSUME TypeOK, CodesAreSpent, NEW C \in FreshCodes, NEW mk,
         code' = ReplaceCodes(C, mk), codeUses' = codeUses
  PROVE  CodesAreSpent'
  <1> SUFFICES ASSUME NEW c \in Codes, code'[c].state \in {"none", "unused"}
               PROVE  codeUses[c] = 0
    BY DEF CodesAreSpent
  <1>1. CASE c \in C
    BY <1>1 DEF FreshCodes, CodesAreSpent
  <1>2. CASE c \notin C
    <2>1. code[c].state = "none"
      BY <1>2 DEF ReplaceCodes, TypeOK, Code, NoRow
    <2> QED  BY <2>1 DEF CodesAreSpent
  <1> QED  BY <1>1, <1>2

LEMMA CodesAreSpentStep ==
  ASSUME TypeOK, CodesAreSpent, ResetsHappenOnce, [Next]_vars
  PROVE  CodesAreSpent' /\ \A c \in Codes : codeUses'[c] <= 1
  <1>1. ASSUME NEW k \in Calls, RecoverCommit(k)
        PROVE  CodesAreSpent' /\ \A c \in Codes : codeUses'[c] <= 1
    BY <1>1, CommitCodes
  <1>2. ASSUME NEW k \in Calls, NEW C, RegenerateWrite(k, C) \/ LostWrite(k, C)
        PROVE  CodesAreSpent' /\ \A c \in Codes : codeUses'[c] <= 1
    <2>1. C \in FreshCodes /\ codeUses' = codeUses
      BY <1>2 DEF RegenerateWrite, LostWrite
    <2>2. \E mk \in 0..MaxKey \union {user.secrets + 1} : code' = ReplaceCodes(C, mk)
      BY <1>2, CallFields DEF RegenerateWrite, LostWrite
    <2> QED  BY <2>1, <2>2, ReplaceKeeps DEF ResetsHappenOnce
  <1>3. CASE UNCHANGED <<code, codeUses>>
    BY <1>3 DEF CodesAreSpent, ResetsHappenOnce
  <1> QED
    BY <1>1, <1>2, <1>3
       DEF Next, vars, ghosts, Drop, FetchKeys, CheckPassword, ChangeWrite, Redeem,
           RecoverAbort, Approve, HandshakeWrite, RecoverVerify, PasskeyVerify,
           AuthorizeReset, Issue, LoseComplete, Expire, Login, RegisterPasskey,
           SetCredentialPrf, DeletePasskey, StoreHash

(* A count goes up only from 0: the token of the committing call.          *)
LEMMA TokenUsesStep ==
  ASSUME TypeOK, TokensAreSpent, ResetsHappenOnce, [Next]_vars
  PROVE  \A t \in Tokens : tokenUses'[t] <= 1
  <1>1. ASSUME NEW k \in Calls, tokenUses' = Count(tokenUses, call[k].token)
        PROVE  \A t \in Tokens : tokenUses'[t] <= 1
    <2> SUFFICES ASSUME NEW t \in Tokens PROVE tokenUses'[t] <= 1
      OBVIOUS
    <2>1. CASE t = call[k].token
      <3>1. tokenUses[t] = 0
        BY <2>1 DEF TokensAreSpent
      <3> QED  BY <1>1, <2>1, <3>1 DEF Count, TypeOK
    <2>2. CASE t # call[k].token
      BY <1>1, <2>2 DEF Count, TypeOK, ResetsHappenOnce
    <2> QED  BY <2>1, <2>2
  <1>2. CASE UNCHANGED tokenUses
    BY <1>2 DEF ResetsHappenOnce
  <1>3. ASSUME NEW k \in Calls, NEW C, RecoverCommit(k) \/ LostWrite(k, C)
        PROVE  tokenUses' = Count(tokenUses, call[k].token)
    BY <1>3 DEF RecoverCommit, LostWrite
  <1> QED
    BY <1>1, <1>2, <1>3
       DEF Next, vars, ghosts, Drop, FetchKeys, CheckPassword, ChangeWrite, Redeem,
           RegenerateWrite, RecoverAbort, Approve, HandshakeWrite, RecoverVerify,
           PasskeyVerify, AuthorizeReset, Issue, LoseComplete, Expire, Login,
           RegisterPasskey, SetCredentialPrf, DeletePasskey, StoreHash

LEMMA IInvStep == IInv /\ [Next]_vars => IInv'
  <1> SUFFICES ASSUME IInv, [Next]_vars PROVE IInv'
    OBVIOUS
  <1>1. TypeOK'
    BY TypeStep DEF IInv
  <1>2. TokensAreSpent'
    BY TokensAreSpentStep DEF IInv
  <1>3. CodesAreSpent' /\ ResetsHappenOnce'
    BY CodesAreSpentStep, TokenUsesStep DEF IInv, ResetsHappenOnce
  <1> QED  BY <1>1, <1>2, <1>3 DEF IInv

LEMMA InitIInv == Init => IInv
  <1> SUFFICES ASSUME Init PROVE IInv
    OBVIOUS
  <1>1. /\ \A t \in Tokens : tokenUses[t] = 0
        /\ \A c \in Codes : codeUses[c] = 0
        /\ \A k \in Calls : call[k].token = NoToken
    BY DEF Init, Idle
  <1> QED
    BY <1>1, InitType, NullAssumption
       DEF IInv, TokensAreSpent, CodesAreSpent, ResetsHappenOnce

(* However often a code is verified, a complete request repeated, raced    *)
(* against new codes, lost or dropped half-way, each one-time token and    *)
(* each recovery code authorizes at most one stored password.              *)
THEOREM ResetsAreOneShot == Spec => []ResetsHappenOnce
  <1>1. IInv => ResetsHappenOnce
    BY DEF IInv
  <1> QED  BY <1>1, InitIInv, IInvStep, PTL DEF Spec

(***************************************************************************)
(* The wraps of the MK.                                                    *)
(***************************************************************************)

(* What ReplaceCodes leaves and what it adds.                              *)
LEMMA ReplacedRows ==
  ASSUME TypeOK, NEW C \in FreshCodes, NEW mk, NEW c \in Codes
  PROVE  /\ code[c].state # "none" =>
              /\ ReplaceCodes(C, mk)[c].state # "none"
              /\ ReplaceCodes(C, mk)[c].mk = code[c].mk
         /\ ReplaceCodes(C, mk)[c].state = "unused" => ReplaceCodes(C, mk)[c].mk = mk
  <1>1. code[c] \in Code /\ (c \in C => code[c].state = "none")
    BY DEF TypeOK, FreshCodes
  <1> QED  BY <1>1 DEF ReplaceCodes, Code, NoRow

(* A row that exists keeps its MK, used and deleted ones too.              *)
LEMMA RowsKeepMK ==
  ASSUME TypeOK, [Next]_vars, NEW c \in Codes, code[c].state # "none"
  PROVE  code'[c].state # "none" /\ code'[c].mk = code[c].mk
  <1>1. CASE code' = code
    BY <1>1
  <1>2. ASSUME NEW k \in Calls, RecoverCommit(k)
        PROVE  code'[c].state # "none" /\ code'[c].mk = code[c].mk
    BY <1>2 DEF RecoverCommit, TypeOK, Code, NoRow
  <1>3. ASSUME NEW k \in Calls, NEW C, RegenerateWrite(k, C) \/ LostWrite(k, C)
        PROVE  code'[c].state # "none" /\ code'[c].mk = code[c].mk
    BY <1>3, ReplacedRows DEF RegenerateWrite, LostWrite
  <1> QED
    BY <1>1, <1>2, <1>3
       DEF Next, vars, ghosts, Drop, FetchKeys, CheckPassword, ChangeWrite, Redeem,
           RecoverAbort, Approve, HandshakeWrite, RecoverVerify, PasskeyVerify,
           AuthorizeReset, Issue, LoseComplete, Expire, Login, RegisterPasskey,
           SetCredentialPrf, DeletePasskey, StoreHash

LEMMA KnowsRowStays ==
  ASSUME TypeOK, [Next]_vars, NEW c \in Codes \union {NoCode}, NEW mk, KnowsRow(c, mk)
  PROVE  KnowsRow(c, mk)'
  BY RowsKeepMK DEF KnowsRow

LEMMA RecoveriesKnowStep ==
  ASSUME TypeOK, TypeOK', RecoveriesKnowMK, [Next]_vars
  PROVE  RecoveriesKnowMK'
  <1>1. ASSUME NEW t \in Tokens
        PROVE  /\ KnowsRow(token[t].code, token[t].mk)'
               /\ token'[t].code # NoCode => token'[t].flow = "code"
    <2>1. /\ KnowsRow(token[t].code, token[t].mk)
          /\ token[t].code # NoCode => token[t].flow = "code"
          /\ token[t].code \in Codes \union {NoCode} /\ token[t] \in Token
      BY TokenFields DEF RecoveriesKnowMK, TypeOK, Token
    <2>2. CASE token'[t].code = token[t].code /\ token'[t].mk = token[t].mk
               /\ token'[t].flow = token[t].flow
      BY <2>1, <2>2, RowsKeepMK DEF KnowsRow
    <2>3. ASSUME NEW p \in Tokens,
                 Expire(p) \/ LoseComplete(p)
                 \/ \E k \in Calls, op \in {"recover", "lost"} : Redeem(k, p, op)
          PROVE  /\ KnowsRow(token[t].code, token[t].mk)'
                 /\ token'[t].code # NoCode => token'[t].flow = "code"
      <3>1. CASE LoseComplete(p) /\ p = t
        <4>1. token'[t].code = NoCode
          BY <2>1, <3>1 DEF LoseComplete, TypeOK, Token
        <4> QED  BY <4>1 DEF KnowsRow
      <3>2. CASE ~(LoseComplete(p) /\ p = t)
        BY <2>1, <2>2, <2>3, <3>2
           DEF Expire, LoseComplete, Redeem, Consumed, TypeOK, Token
      <3> QED  BY <3>1, <3>2
    <2>4. ASSUME NEW p \in Tokens, NEW c \in Codes, RecoverVerify(p, c)
          PROVE  /\ KnowsRow(token[t].code, token[t].mk)'
                 /\ token'[t].code # NoCode => token'[t].flow = "code"
      BY <2>1, <2>2, <2>4 DEF RecoverVerify, Issue, TypeOK, KnowsRow
    <2>5. ASSUME NEW p \in Tokens, PasskeyVerify(p) \/ AuthorizeReset(p)
          PROVE  /\ KnowsRow(token[t].code, token[t].mk)'
                 /\ token'[t].code # NoCode => token'[t].flow = "code"
      BY <2>1, <2>2, <2>5 DEF PasskeyVerify, AuthorizeReset, Issue, TypeOK, KnowsRow
    <2>6. CASE token' = token
      BY <2>2, <2>6
    <2> QED
      BY <2>3, <2>4, <2>5, <2>6
         DEF Next, vars, Drop, FetchKeys, CheckPassword, ChangeWrite, RegenerateWrite,
             RecoverCommit, RecoverAbort, Approve, HandshakeWrite, LostWrite, Login,
             RegisterPasskey, SetCredentialPrf, DeletePasskey, StoreHash
  <1>2. ASSUME NEW k \in Calls
        PROVE  KnowsRow(call[k].code, call[k].mk)'
    <2>1. /\ KnowsRow(call[k].code, call[k].mk)
          /\ call[k].code \in Codes \union {NoCode} /\ call[k] \in Call
          /\ call \in [Calls -> Call]
      BY DEF RecoveriesKnowMK, TypeOK, Call
    <2>2. CASE call'[k].code = call[k].code /\ call'[k].mk = call[k].mk
      BY <2>1, <2>2, RowsKeepMK DEF KnowsRow
    <2>3. CASE call'[k].code = NoCode
      BY <2>3 DEF KnowsRow
    <2>4. ASSUME NEW q \in Calls, Finish(q)
          PROVE  KnowsRow(call[k].code, call[k].mk)'
      BY <2>1, <2>2, <2>3, <2>4 DEF Finish, Idle
    <2>5. ASSUME NEW q \in Calls, NEW op, FetchKeys(q, op)
          PROVE  KnowsRow(call[k].code, call[k].mk)'
      BY <2>1, <2>2, <2>3, <2>5 DEF FetchKeys, Begin
    <2>6. ASSUME NEW q \in Calls, NEW d \in Devices, Approve(q, d)
          PROVE  KnowsRow(call[k].code, call[k].mk)'
      BY <2>1, <2>2, <2>3, <2>6 DEF Approve, Begin
    <2>7. ASSUME NEW q \in Calls, CheckPassword(q)
          PROVE  KnowsRow(call[k].code, call[k].mk)'
      BY <2>1, <2>2, <2>4, <2>7 DEF CheckPassword, Call
    <2>8. ASSUME NEW q \in Calls, NEW t \in Tokens, NEW op, Redeem(q, t, op)
          PROVE  KnowsRow(call[k].code, call[k].mk)'
      <3>1. KnowsRow(token[t].code, token[t].mk) /\ code' = code
        BY <2>8 DEF RecoveriesKnowMK, Redeem
      <3> QED  BY <2>1, <2>2, <2>8, <3>1 DEF Redeem, Begin, KnowsRow
    <2>9. CASE call' = call
      BY <2>2, <2>9
    <2> QED
      BY <2>4, <2>5, <2>6, <2>7, <2>8, <2>9
         DEF Next, vars, Drop, ChangeWrite, RegenerateWrite, RecoverCommit,
             RecoverAbort, HandshakeWrite, LostWrite, RecoverVerify, PasskeyVerify,
             AuthorizeReset, Issue, LoseComplete, Expire, Login, RegisterPasskey,
             SetCredentialPrf, DeletePasskey, StoreHash
  <1> QED  BY <1>1, <1>2 DEF RecoveriesKnowMK

(* Every write that changes a wrap either brings the MK of the secrets or  *)
(* sets mixed; flow D replaces them all.                                   *)
LEMMA WrapsStep ==
  ASSUME TypeOK, RecoveriesKnowMK, WrapsOpenIdentity, [Next]_vars
  PROVE  WrapsOpenIdentity'
  <1> USE DEF WrapsOpenIdentity
  <1>1. user \in User /\ passkey \in Passkey /\ code \in [Codes -> Code]
    BY DEF TypeOK
  <1>2. CASE UNCHANGED <<user, code, passkey, mixed, bare>>
    BY <1>2
  <1>3. ASSUME NEW k \in Calls, ChangeWrite(k) \/ HandshakeWrite(k)
        PROVE  WrapsOpenIdentity'
    BY <1>1, <1>3 DEF ChangeWrite, HandshakeWrite, StorePassword, NoteUpload, User
  <1>4. ASSUME NEW k \in Calls, NEW C, RegenerateWrite(k, C)
        PROVE  WrapsOpenIdentity'
    <2>1. \A c \in Codes : code'[c].state = "unused" => code'[c].mk = call[k].mk
      BY <1>4, ReplacedRows DEF RegenerateWrite
    <2> QED  BY <1>4, <2>1 DEF RegenerateWrite, NoteUpload
  <1>5. ASSUME NEW k \in Calls, NEW C, LostWrite(k, C)
        PROVE  WrapsOpenIdentity'
    <2>1. /\ code' = ReplaceCodes(C, user.secrets + 1) /\ C \in FreshCodes
          /\ user'.wrapped = user.secrets + 1 /\ user'.secrets = user.secrets + 1
          /\ user'.kek = user'.password
          /\ passkey' = WipePasskey
      BY <1>5 DEF LostWrite
    <2>2. \A c \in Codes : code'[c].state = "unused" => code'[c].mk = user.secrets + 1
      BY <2>1, ReplacedRows
    <2>3. passkey'.state # "prf"
      BY <1>1, <2>1 DEF WipePasskey, Passkey, NoRow
    <2> QED  BY <2>1, <2>2, <2>3
  <1>6. ASSUME NEW k \in Calls, RecoverCommit(k)
        PROVE  WrapsOpenIdentity'
    <2> DEFINE c == call[k].code
    <2>1. /\ user'.wrapped = call[k].mk /\ user'.secrets = user.secrets
          /\ user'.kek = user'.password
          /\ passkey' = passkey
          /\ \A b \in Codes : code'[b].state = "unused" => code'[b] = code[b]
      BY <1>1, <1>6 DEF RecoverCommit, StorePassword, User, Code, NoRow
    <2>2. CASE c = NoCode
      BY <1>6, <2>1, <2>2 DEF RecoverCommit, NoteUpload
    <2>3. CASE c # NoCode
      <3>1. code[c].state = "unused" /\ code[c].mk = call[k].mk /\ mixed' = mixed
        BY <1>6, <2>3 DEF RecoverCommit, CodeAccepted, RecoveriesKnowMK, KnowsRow
      <3>2. c \in Codes
        BY <2>3, CallFields
      <3> QED  BY <2>1, <3>1, <3>2
    <2> QED  BY <2>2, <2>3
  <1>7. ASSUME NEW d \in Devices, NEW prf \in BOOLEAN,
               RegisterPasskey(d, prf) \/ SetCredentialPrf(d)
        PROVE  WrapsOpenIdentity'
    <2>1. CASE RegisterPasskey(d, FALSE)
      BY <2>1 DEF RegisterPasskey
    <2>2. CASE RegisterPasskey(d, TRUE) \/ SetCredentialPrf(d)
      <3>1. /\ user' = user /\ code' = code /\ passkey'.mk = device[d]
            /\ bare' = bare
            /\ mixed' = (mixed \/ device[d] # user.secrets)
        BY <2>2 DEF RegisterPasskey, SetCredentialPrf, NoteUpload
      <3> QED  BY <3>1
    <2> QED  BY <1>7, <2>1, <2>2
  <1>8. CASE DeletePasskey
    BY <1>8 DEF DeletePasskey, NoRow, ghosts
  <1>9. CASE StoreHash
    BY <1>1, <1>9 DEF StoreHash, User
  <1> QED
    BY <1>2, <1>3, <1>4, <1>5, <1>6, <1>7, <1>8, <1>9
       DEF Next, vars, ghosts, Drop, FetchKeys, CheckPassword, Redeem, RecoverAbort,
           Approve, RecoverVerify, PasskeyVerify, AuthorizeReset, Issue, LoseComplete,
           Expire, Login

LEMMA WrapsInvInit == Init => WrapsInv
  <1> SUFFICES ASSUME Init PROVE WrapsInv
    OBVIOUS
  <1>1. RecoveriesKnowMK
    BY DEF Init, RecoveriesKnowMK, KnowsRow, Idle
  <1>2. WrapsOpenIdentity
    BY DEF Init, WrapsOpenIdentity, NoRow
  <1> QED  BY <1>1, <1>2, InitType DEF WrapsInv

(* As long as no upload carried another MK since the last reset, the       *)
(* password's wrap, the unused codes and a PRF passkey open the identity   *)
(* secrets, with recoveries by code in flight across flow D and new codes; *)
(* and the stored password opens that wrap unless its hash was stored      *)
(* alone since.                                                            *)
THEOREM WrapsAgree == Spec => []WrapsOpenIdentity
  <1>1. WrapsInv /\ [Next]_vars => WrapsInv'
    BY TypeStep, RecoveriesKnowStep, WrapsStep DEF WrapsInv
  <1>2. WrapsInv => WrapsOpenIdentity
    BY DEF WrapsInv
  <1> QED  BY <1>1, <1>2, WrapsInvInit, PTL DEF Spec
=============================================================================
