-------------------------- MODULE DiscoveryContract --------------------------
(***************************************************************************)
(* What one /api/announce promises the page (api/announce.ts, tracker.ts): *)
(* peers are collected, from whatever source is first, and none is lost;   *)
(* one reply has all of them; nothing that could still be heard comes too  *)
(* late for it.                                                            *)
(***************************************************************************)
EXTENDS Sequences

CONSTANT Peers

VARIABLES
  heard,             \* the peers some source has given
  replies            \* what the page has been sent

contractVars == <<heard, replies>>

ContractInit == heard = {} /\ replies = <<>>

\* A source gives peers, before the reply and not after it.
Hear ==
  /\ replies = <<>>
  /\ \E more \in SUBSET Peers : heard' = heard \cup more
  /\ UNCHANGED replies

\* The one reply has all that was heard.
GiveReply ==
  /\ replies = <<>>
  /\ replies' = <<heard>>
  /\ UNCHANGED heard

ContractSafety == ContractInit /\ [][Hear \/ GiveReply]_contractVars

\* There always is a reply.
ContractSpec == ContractSafety /\ WF_contractVars(GiveReply)
=============================================================================
