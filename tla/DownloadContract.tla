-------------------------- MODULE DownloadContract --------------------------
(***************************************************************************)
(* What one /api/download response promises the browser (api/download.ts,  *)
(* download-session.ts): a stream of pieces, each intact and sent at most  *)
(* once, that ends - with a summary frame as its last one, or cut short.   *)
(***************************************************************************)
EXTENDS Sequences

CONSTANT Wanted      \* the pieces asked for

VARIABLES
  stream,            \* the frames of the response body, in order
  ended              \* no frame will follow

contractVars == <<stream, ended>>

PieceFrame(i, intact) == [type |-> "piece", index |-> i, intact |-> intact]
SummaryFrame == [type |-> "summary"]

ContractInit == stream = <<>> /\ ended = FALSE

\* A piece reaches the client right after its hash matched.
Deliver(i) ==
  /\ ~ended
  /\ \A k \in DOMAIN stream : stream[k] # PieceFrame(i, TRUE)
  /\ stream' = Append(stream, PieceFrame(i, TRUE))
  /\ UNCHANGED ended

\* The summary closes a round the server finished.
Summarise ==
  /\ ~ended
  /\ stream' = Append(stream, SummaryFrame)
  /\ ended' = TRUE

\* Ending without a summary frame signals a truncated round.
Truncate == ~ended /\ ended' = TRUE /\ UNCHANGED stream

ContractNext == (\E i \in Wanted : Deliver(i)) \/ Summarise \/ Truncate

ContractSafety == ContractInit /\ [][ContractNext]_contractVars

ContractSpec ==
  /\ ContractSafety
  /\ WF_contractVars(Summarise \/ Truncate)
=============================================================================
