------------------------------ MODULE MCAccounts ------------------------------
(***************************************************************************)
(* An account: its sessions and its keys on the server, the browser that   *)
(* is signed in to it, its second factor and its passkeys.  The modules    *)
(* share no state, so a behaviour is one of one part, and their state      *)
(* spaces add up.                                                          *)
(***************************************************************************)
EXTENDS Sessions, AccountKeys, ClientSession, TwoFactor, Passkeys, TLC

VARIABLE part   \* the part a behaviour is about

AccountParts == {"sessions", "keys", "browser", "totp", "passkeys"}

AllInit ==
  /\ part \in AccountParts
  /\ SessionsInit /\ Init /\ ClientInit /\ TotpInit /\ PasskeysInit
  /\ part # "keys" =>
       /\ \A c \in Codes : code[c].state = "unused"
       /\ \A d \in Devices : device[d] = 0
  /\ part # "passkeys" => \A p \in Passkeys : key[p].counts /\ key[p].prf

AllNext ==
  /\ UNCHANGED part
  /\ \/ /\ part = "sessions"
        /\ UNCHANGED <<vars, browserVars, totpVars, passkeyVars>>
        /\ SessionsNext
     \/ /\ part = "keys"
        /\ UNCHANGED <<sessionVars, browserVars, totpVars, passkeyVars>>
        /\ Next
     \/ /\ part = "browser"
        /\ UNCHANGED <<sessionVars, vars, totpVars, passkeyVars>>
        /\ ClientNext
     \/ /\ part = "totp"
        /\ UNCHANGED <<sessionVars, vars, browserVars, passkeyVars>>
        /\ TotpNext
     \/ /\ part = "passkeys"
        /\ UNCHANGED <<sessionVars, vars, browserVars, totpVars>>
        /\ PasskeysNext

AllSpec == AllInit /\ [][AllNext]_<<part, sessionVars, vars, browserVars, totpVars, passkeyVars>>

(* The variables of the other parts never change.                          *)
AccountsTypesOK ==
  CASE part = "sessions" -> SessionsTypeOK
    [] part = "keys" -> TypeOK
    [] part = "browser" -> ClientTypeOK
    [] part = "totp" -> TotpTypeOK
    [] part = "passkeys" -> PasskeysTypeOK

(* What the sessions and calls hold but for the passwords they proved,     *)
(* which no guard and no property of this run looks at.                    *)
SessionState ==
  <<password, issued, sockets, rotated, outlawed,
    [s \in Sessions |-> <<row[s].state, row[s].token>>],
    [k \in Handlers |-> [handler[k] EXCEPT !.with = 0]]>>

Changing ==
  CASE part = "sessions" -> SessionState
    [] part = "keys" -> vars
    [] part = "browser" -> browserVars
    [] part = "totp" -> totpVars
    [] part = "passkeys" -> passkeyVars

View == <<part, Changing>>

(* Once two accounts crossed and refreshes overlapped, or a secret was     *)
(* replaced or raced, nothing more is promised.  Recovery codes, which are *)
(* interchangeable, are taken in order.                                    *)
Watched ==
  /\ ~(crossing /\ overlapped) /\ ~(replaced \/ crossed)
  /\ \A c \in Codes \ {1} : code[c].state # "none" => code[c - 1].state # "none"

(* The parts share their identifiers.                                      *)
Symm == Permutations(Sessions) \union Permutations(Handlers)
===============================================================================
