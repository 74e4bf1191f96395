---------------------------- MODULE SecureChannel ----------------------------
(***************************************************************************)
(* What a pairwise session promises, whatever the server between the two   *)
(* parties drops, delays, reorders or repeats: decrypt returns only what   *)
(* the other party encrypted, and returns each message at most once.       *)
(* Ratchet implements it.  Sources: the contract of encrypt and decrypt in *)
(* client/src/lib/crypto/session.ts.                                       *)
(***************************************************************************)
EXTENDS Naturals, Sequences, SequencesExt

CONSTANT Parties

VARIABLES
  written,   \* how many messages a party encrypted; they are 1, 2, ...
  read       \* what decrypt returned to a party, in that order

channelVars == <<written, read>>

ChannelInit ==
  /\ written = [p \in Parties |-> 0]
  /\ read = [p \in Parties |-> << >>]

Encrypt(p) ==
  /\ written' = [written EXCEPT ![p] = @ + 1]
  /\ UNCHANGED read

Decrypt(p) ==
  /\ \E q \in Parties \ {p} : \E m \in (1..written[q]) \ ToSet(read[p]) :
       read' = [read EXCEPT ![p] = Append(@, m)]
  /\ UNCHANGED written

ChannelNext == \E p \in Parties : Encrypt(p) \/ Decrypt(p)

ChannelSpec == ChannelInit /\ [][ChannelNext]_channelVars
=============================================================================
