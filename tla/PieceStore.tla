----------------------------- MODULE PieceStore -----------------------------
(***************************************************************************)
(* The browser's durable store, public/store.js, as the page sees it: two  *)
(* object stores of IndexedDB, pieces and sessions.  A call queues a       *)
(* transaction; transactions on one object store run in the order they     *)
(* were made, those on different stores in any order.  A page that dies    *)
(* takes its queued transactions with it.                                  *)
(*                                                                         *)
(* The bytes of a piece are abstracted to whether they are the torrent's.  *)
(* Operators only: the page (Orchestrator) has the actions.                *)
(***************************************************************************)
EXTENDS Integers, FiniteSets, Sequences

CONSTANTS
  Torrents,
  NumPieces,      \* pieces of each torrent
  Addresses,      \* peers
  None            \* no torrent, no session, no record

Pieces == 0 .. (NumPieces - 1)

\* A session: its bitfield and its cached peers.
Sessions == [torrent : Torrents, bits : SUBSET Pieces, peers : SUBSET Addresses]

ASSUME StoreAssumption ==
  /\ NumPieces \in Nat \ {0}
  /\ None \notin Torrents \cup Sessions
  /\ IsFiniteSet(Addresses)

VARIABLES
  disk,           \* PIECES: the bytes stored of each piece of each torrent
  records,        \* SESSIONS: the record stored of each torrent
  pieceOps,       \* queued transactions on PIECES
  sessionOps      \* queued transactions on SESSIONS

storeVars == <<disk, records, pieceOps, sessionOps>>

StoreTypeOK(clients) ==
  /\ disk \in [Torrents \X Pieces -> {"none", "good", "bad"}]
  /\ records \in [Torrents -> Sessions \cup {None}]
  /\ pieceOps \in Seq([by : clients, op : {"put"}, torrent : Torrents,
                       index : Pieces, bytes : {"good", "bad"}]
                      \cup [by : clients, op : {"delete"}, torrent : Torrents])
  /\ sessionOps \in Seq([by : clients, op : {"put"}, session : Sessions]
                        \cup [by : clients, op : {"get", "delete"}, torrent : Torrents])

StoreInit ==
  /\ disk = [piece \in Torrents \X Pieces |-> "none"]
  /\ records = [t \in Torrents |-> None]
  /\ pieceOps = <<>>
  /\ sessionOps = <<>>

\* The calls.  put clones its value at once.
PutPiece(c, t, i, bytes) ==
  pieceOps' = Append(pieceOps, [by |-> c, op |-> "put", torrent |-> t,
                                index |-> i, bytes |-> bytes])
DeleteAllPieces(c, t) ==
  pieceOps' = Append(pieceOps, [by |-> c, op |-> "delete", torrent |-> t])
GetSession(c, t) ==
  sessionOps' = Append(sessionOps, [by |-> c, op |-> "get", torrent |-> t])
Put(c, s) == [by |-> c, op |-> "put", session |-> s]
PutSession(c, s) == sessionOps' = Append(sessionOps, Put(c, s))
DeleteSession(c, t) ==
  sessionOps' = Append(sessionOps, [by |-> c, op |-> "delete", torrent |-> t])

\* The transaction at the head of a queue takes effect; what its caller does
\* next is up to the page, in the same step.
RunPieceOp(c) ==
  /\ pieceOps # <<>> /\ Head(pieceOps).by = c
  /\ LET o == Head(pieceOps) IN
       disk' = IF o.op = "put" THEN [disk EXCEPT ![<<o.torrent, o.index>>] = o.bytes]
               ELSE [p \in DOMAIN disk |-> IF p[1] = o.torrent THEN "none" ELSE disk[p]]
  /\ pieceOps' = Tail(pieceOps)
  /\ UNCHANGED records

\* The caller may queue `more` in the same breath.
RunSessionOp(c, more) ==
  /\ sessionOps # <<>> /\ Head(sessionOps).by = c
  /\ LET o == Head(sessionOps) IN
       records' = CASE o.op = "put"    -> [records EXCEPT ![o.session.torrent] = o.session]
                    [] o.op = "delete" -> [records EXCEPT ![o.torrent] = None]
                    [] o.op = "get"    -> records
  /\ sessionOps' = Tail(sessionOps) \o more
  /\ UNCHANGED disk

\* A put fails, for want of space.
RefusePieceOp(c) ==
  /\ pieceOps # <<>> /\ Head(pieceOps).by = c
  /\ pieceOps' = Tail(pieceOps)

RefuseSessionOp(c) ==
  /\ sessionOps # <<>> /\ Head(sessionOps).by = c
  /\ sessionOps' = Tail(sessionOps)
  /\ UNCHANGED <<disk, records>>
=============================================================================
