------------------------- MODULE PieceStore_proofs -------------------------
(***************************************************************************)
(* What holds of the page's store: what is on disk is intact in every      *)
(* world, the bitfield in memory names only pieces that are stored, and so *)
(* do those queued and stored as long as no pieces are freed.              *)
(***************************************************************************)
EXTENDS Orchestrator_proofs


-----------------------------------------------------------------------------
(* Nothing corrupt is stored.                                              *)

\* Nothing that is queued to be written is corrupt.
Writes ==
  \E S : pieceOps \in Seq(S) /\ \A o \in S : o.op = "put" => o.bytes = "good"

DiskInv == disk \in [Torrents \X Pieces -> {"none", "good"}] /\ Writes

\* A write or deletion that takes effect, whoever's.
LEMMA RunPieceKeeps ==
  ASSUME DiskInv, NEW c, RunPieceOp(c)
  PROVE  DiskInv'
<1>1. PICK S : pieceOps \in Seq(S) /\ \A o \in S : o.op = "put" => o.bytes = "good"
  BY DEF DiskInv, Writes
<1> DEFINE o == Head(pieceOps)
<1>2. o \in S /\ Tail(pieceOps) \in Seq(S)
  BY <1>1 DEF RunPieceOp
<1>3. Writes'
  BY <1>1, <1>2 DEF RunPieceOp, Writes
<1>4. disk' \in [Torrents \X Pieces -> {"none", "good"}]
  <2>1. CASE o.op = "put"
    <3>1. disk' = [disk EXCEPT ![<<o.torrent, o.index>>] = o.bytes]
      BY <2>1 DEF RunPieceOp
    <3>2. o.bytes = "good"
      BY <1>1, <1>2, <2>1
    <3> QED BY <3>1, <3>2 DEF DiskInv
  <2>2. CASE o.op # "put"
    <3>1. disk' = [p \in DOMAIN disk |-> IF p[1] = o.torrent THEN "none" ELSE disk[p]]
      BY <2>2 DEF RunPieceOp
    <3> QED BY <3>1 DEF DiskInv
  <2> QED BY <2>1, <2>2
<1> QED BY <1>3, <1>4 DEF DiskInv

\* Something harmless is queued.
LEMMA QueuePieceKeeps ==
  ASSUME DiskInv, UNCHANGED disk, NEW o, o.op = "put" => o.bytes = "good",
         pieceOps' = Append(pieceOps, o)
  PROVE  DiskInv'
<1>1. PICK S : pieceOps \in Seq(S) /\ \A e \in S : e.op = "put" => e.bytes = "good"
  BY DEF DiskInv, Writes
<1> DEFINE T == S \cup {o}
<1>2. pieceOps \in Seq(T)
  BY <1>1
<1>3. pieceOps' \in Seq(T) /\ \A e \in T : e.op = "put" => e.bytes = "good"
  BY <1>1, <1>2
<1>4. Writes'
  BY <1>3 DEF Writes
<1> QED BY <1>4 DEF DiskInv

\* A write fails.
LEMMA RefusePieceKeeps ==
  ASSUME DiskInv, UNCHANGED disk, NEW c, RefusePieceOp(c)
  PROVE  DiskInv'
BY DEF DiskInv, Writes, RefusePieceOp

\* Only a frame of the torrent that meta is is written, as good bytes.
LEMMA HashDoneKeeps ==
  ASSUME DiskInv, NEW w \in Workers, HashDone(w)
  PROVE  DiskInv'
<1>1. CASE Verified(w) /\ frame[w].index \notin session.bits
  <2>1. BytesFor(w, meta) = "good"
    BY <1>1 DEF Verified, BytesFor
  <2> DEFINE o == [by |-> w, op |-> "put", torrent |-> meta, index |-> frame[w].index,
                   bytes |-> BytesFor(w, meta)]
  <2>2. pieceOps' = Append(pieceOps, o) /\ UNCHANGED disk
    BY <1>1 DEF HashDone, PutPiece
  <2>3. o.op = "put" => o.bytes = "good"
    BY <2>1
  <2> HIDE DEF o
  <2> QED BY <2>2, <2>3, QueuePieceKeeps
<1>2. CASE ~(Verified(w) /\ frame[w].index \notin session.bits)
  BY <1>2 DEF HashDone, DiskInv, Writes
<1> QED BY <1>1, <1>2

\* The steps of a worker.
LEMMA WorkerKeeps ==
  ASSUME DiskInv, NEW w \in Workers, Worker(w) \/ Round(w)
  PROVE  DiskInv'
<1>1. CASE PieceStored(w)
  BY <1>1, RunPieceKeeps DEF PieceStored
<1>2. CASE PieceRefused(w)
  BY <1>2, RefusePieceKeeps DEF PieceRefused, RoundError
<1>3. CASE HashDone(w)
  BY <1>3, HashDoneKeeps
<1>4. CASE Request(w) \/ Saved(w) \/ BackoffEnds(w) \/ Refreshed(w) \/ SaveRefused(w)
           \/ Round(w)
  <2>1. UNCHANGED <<disk, pieceOps>>
    BY <1>4 DEF Request, Saved, BackoffEnds, Refreshed, SaveRefused, Round, FrameArrives,
                RoundFails, RoundError, RoundEnds, RunSessionOp, RefuseSessionOp, storeVars
  <2> QED BY <2>1 DEF DiskInv, Writes
<1> QED BY <1>1, <1>2, <1>3, <1>4 DEF Worker

\* Pieces are freed, for a purge or after a save.
LEMMA FreeingKeeps ==
  ASSUME DiskInv, Clear \/ ClearedPieces \/ SaveRead \/ SaveDeleted
  PROVE  DiskInv'
<1>1. CASE ClearedPieces
  BY <1>1, RunPieceKeeps DEF ClearedPieces
<1>2. CASE SaveDeleted
  BY <1>2, RunPieceKeeps DEF SaveDeleted
<1>3. ASSUME NEW c, NEW t, DeleteAllPieces(c, t), UNCHANGED disk PROVE DiskInv'
  <2> DEFINE o == [by |-> c, op |-> "delete", torrent |-> t]
  <2>1. o.op # "put"
    OBVIOUS
  <2>2. pieceOps' = Append(pieceOps, o)
    BY <1>3 DEF DeleteAllPieces
  <2> HIDE DEF o
  <2> QED BY <1>3, <2>1, <2>2, QueuePieceKeeps
<1>4. CASE Clear
  BY <1>4, <1>3 DEF Clear
<1>5. CASE SaveRead
  <2>1. CASE DeleteAllPieces("save", meta)
    BY <1>5, <2>1, <1>3 DEF SaveRead
  <2>2. CASE ~DeleteAllPieces("save", meta)
    BY <1>5, <2>2 DEF SaveRead, DiskInv, Writes
  <2> QED BY <2>1, <2>2
<1> QED BY <1>1, <1>2, <1>4, <1>5

\* "corruption can never be committed to durable storage" (app.js:533-534): in
\* every world, whatever servers send, and even if the torrent changes while a
\* frame is hashed or the store is full.
THEOREM NothingCorruptIsStored == Spec => []DiskIsIntact
<1>1. Init => DiskInv
  <2> SUFFICES ASSUME Init PROVE DiskInv
    OBVIOUS
  <2>1. pieceOps \in Seq({})
    BY DEF Init, StoreInit
  <2>2. disk = [piece \in Torrents \X Pieces |-> "none"]
    BY DEF Init, StoreInit
  <2> QED BY <2>1, <2>2 DEF DiskInv, Writes
<1>2. DiskInv /\ [Next]_vars => DiskInv'
  <2> SUFFICES ASSUME DiskInv, [Next]_vars PROVE DiskInv'
    OBVIOUS
  <2>1. CASE \E w \in Workers : Worker(w) \/ Round(w)
    BY <2>1, WorkerKeeps
  <2>2. CASE Clear \/ ClearedPieces \/ SaveRead \/ SaveDeleted
    BY <2>2, FreeingKeeps
  <2>3. CASE Reload
    <3>1. pieceOps' \in Seq({}) /\ UNCHANGED disk
      BY <2>3 DEF Reload
    <3> QED BY <3>1 DEF DiskInv, Writes
  <2>4. CASE \/ Announcing \/ Running \/ Stop \/ Save
             \/ LoadRead \/ LoadSaved \/ LoadRefused \/ ClearedSession \/ SaveSaved
             \/ \E g \in Starts : Start(g)
             \/ \E t \in Torrents : Load(t)
             \/ UNCHANGED vars
    <3>1. UNCHANGED <<disk, pieceOps>>
      BY <2>4
      DEF Announcing, AnnounceFails, AnnounceReply, AnnounceSaved, AnnounceRefused,
          CoolingEnds, Running, Launch, PoolEnds, Stop, Save, LoadRead, LoadSaved,
          LoadRefused, ClearedSession, SaveSaved, Start, Load, vars, storeVars,
          RunSessionOp, RefuseSessionOp
    <3> QED BY <3>1 DEF DiskInv, Writes
  <2> QED BY <2>1, <2>2, <2>3, <2>4 DEF Next, User, UserOps
<1>3. DiskInv => DiskIsIntact
  BY DEF DiskInv, DiskIsIntact
<1> QED BY <1>1, <1>2, <1>3, PTL DEF Spec


-----------------------------------------------------------------------------
(* No bitfield, in memory or stored, is ahead of the pieces stored, unless   *)
(* pieces are freed or a torrent is loaded over another.                     *)

\* The pieces that s says are there are there.
Covered(s) == \A i \in s.bits : disk[<<s.torrent, i>>] # "none"

\* What a worker has queued is the write it waits for, and that alone: of its
\* frame, for the session's torrent.
Awaited(o) == /\ o.op = "put" /\ pc[o.by] = "storing"
              /\ o.index = frame[o.by].index /\ o.torrent = session.torrent
WritesAwaited ==
  \A n \in 1 .. Len(pieceOps) : pieceOps[n].by \in Workers =>
    /\ Awaited(pieceOps[n])
    /\ \A m \in 1 .. Len(pieceOps) : pieceOps[m].by = pieceOps[n].by => m = n

\* The sessions that are queued to be written, and those written.
SavesCovered ==
  \E S : sessionOps \in Seq(S) /\ \A o \in S : o.op = "put" => Covered(o.session)
RecordsCovered ==
  \A t \in Torrents : records[t] # None => records[t].torrent = t /\ Covered(records[t])

StoreInv ==
  /\ clearer = "off" /\ saver = "off"
  /\ session # None /\ loader # "reading" => meta = session.torrent
  /\ WritesAwaited
  /\ session # None => Covered(session)
  /\ SavesCovered /\ RecordsCovered

\* The writes of workers that still wait, when a caller takes its own call off
\* the queue.
LEMMA TakeKeepsAwaited ==
  ASSUME TypeInv, WritesAwaited, NEW w, pieceOps # <<>>, Head(pieceOps).by = w,
         pieceOps' = Tail(pieceOps),
         \A v \in Workers \ {w} : pc'[v] = pc[v] /\ frame'[v] = frame[v],
         session'.torrent = session.torrent
  PROVE  (w \in Workers => Awaited(Head(pieceOps))) /\ WritesAwaited'
<1>1. pieceOps \in Seq(PieceOps)
  BY DEF TypeInv, StoreTypes
<1>2. /\ Head(pieceOps) = pieceOps[1] /\ Len(pieceOps) \in Nat /\ Len(pieceOps) >= 1
      /\ Len(pieceOps') = Len(pieceOps) - 1
      /\ \A n \in 1 .. Len(pieceOps') : pieceOps'[n] = pieceOps[n + 1]
  BY <1>1
<1>3. w \in Workers => Awaited(Head(pieceOps))
  BY <1>2 DEF WritesAwaited
<1>4. ASSUME NEW n \in 1 .. Len(pieceOps'), pieceOps'[n].by \in Workers
      PROVE  Awaited(pieceOps[n])'
  <2>1. n + 1 \in 1 .. Len(pieceOps) /\ pieceOps'[n] = pieceOps[n + 1] /\ n + 1 # 1
    BY <1>2
  <2>2. Awaited(pieceOps[n + 1]) /\ pieceOps[n + 1].by \in Workers \ {w}
    BY <1>2, <1>4, <2>1 DEF WritesAwaited
  <2> QED BY <2>1, <2>2 DEF Awaited
<1>5. ASSUME NEW m \in 1 .. Len(pieceOps'), NEW n \in 1 .. Len(pieceOps'),
             pieceOps'[n].by \in Workers, pieceOps'[m].by = pieceOps'[n].by
      PROVE  m = n
  <2>1. m + 1 \in 1 .. Len(pieceOps) /\ n + 1 \in 1 .. Len(pieceOps)
    BY <1>2
  <2>2. pieceOps[m + 1].by = pieceOps[n + 1].by /\ pieceOps[n + 1].by \in Workers
    BY <1>2, <1>5
  <2>3. m + 1 = n + 1
    BY <2>1, <2>2 DEF WritesAwaited
  <2> QED BY <2>3
<1> QED BY <1>3, <1>4, <1>5 DEF WritesAwaited

\* They are the same when the queue is and nobody stops waiting.
LEMMA AwaitedStays ==
  ASSUME WritesAwaited, UNCHANGED pieceOps,
         \A v \in Workers : pc[v] = "storing" => pc'[v] = "storing" /\ frame'[v] = frame[v],
         session'.torrent = session.torrent
  PROVE  WritesAwaited'
<1>1. ASSUME NEW n \in 1 .. Len(pieceOps), pieceOps[n].by \in Workers
      PROVE  Awaited(pieceOps[n])'
  BY <1>1 DEF WritesAwaited, Awaited
<1> QED BY <1>1 DEF WritesAwaited

\* A worker that did not wait queues a write.
LEMMA PutKeepsAwaited ==
  ASSUME TypeInv, WritesAwaited, NEW w \in Workers, NEW o \in PieceOps,
         pieceOps' = Append(pieceOps, o), o.by = w, pc[w] # "storing", Awaited(o)',
         \A v \in Workers \ {w} : pc'[v] = pc[v] /\ frame'[v] = frame[v],
         session'.torrent = session.torrent
  PROVE  WritesAwaited'
<1>1. pieceOps \in Seq(PieceOps)
  BY DEF TypeInv, StoreTypes
<1>2. /\ Len(pieceOps) \in Nat /\ Len(pieceOps') = Len(pieceOps) + 1
      /\ pieceOps'[Len(pieceOps) + 1] = o
      /\ \A n \in 1 .. Len(pieceOps) : pieceOps'[n] = pieceOps[n]
  BY <1>1
<1>3. ASSUME NEW n \in 1 .. Len(pieceOps)
      PROVE  pieceOps[n].by # w /\ (pieceOps[n].by \in Workers => Awaited(pieceOps[n])')
  <2>1. pieceOps[n].by # w
    BY DEF WritesAwaited, Awaited
  <2> QED BY <2>1 DEF WritesAwaited, Awaited
<1>4. ASSUME NEW n \in 1 .. Len(pieceOps'), pieceOps'[n].by \in Workers
      PROVE  Awaited(pieceOps[n])'
  <2>1. CASE n = Len(pieceOps) + 1
    <3>1. pieceOps'[n] = o
      BY <1>2, <2>1
    <3> QED BY <3>1 DEF Awaited
  <2>2. CASE n \in 1 .. Len(pieceOps)
    <3>1. pieceOps'[n] = pieceOps[n]
      BY <1>2, <2>2
    <3> QED BY <1>3, <1>4, <2>2, <3>1 DEF Awaited
  <2> QED BY <1>2, <2>1, <2>2
<1>5. ASSUME NEW m \in 1 .. Len(pieceOps'), NEW n \in 1 .. Len(pieceOps'),
             pieceOps'[n].by \in Workers, pieceOps'[m].by = pieceOps'[n].by
      PROVE  m = n
  <2>1. CASE m \in 1 .. Len(pieceOps) /\ n \in 1 .. Len(pieceOps)
    <3>1. pieceOps[m].by = pieceOps[n].by /\ pieceOps[n].by \in Workers
      BY <1>2, <1>5, <2>1
    <3> QED BY <2>1, <3>1 DEF WritesAwaited
  <2>2. CASE m \in 1 .. Len(pieceOps) /\ n = Len(pieceOps) + 1
    <3>1. pieceOps'[m].by # w /\ pieceOps'[n].by = w
      BY <1>2, <1>3, <2>2
    <3> QED BY <1>5, <3>1
  <2>3. CASE m = Len(pieceOps) + 1 /\ n \in 1 .. Len(pieceOps)
    <3>1. pieceOps'[n].by # w /\ pieceOps'[m].by = w
      BY <1>2, <1>3, <2>3
    <3> QED BY <1>5, <3>1
  <2> QED BY <1>2, <2>1, <2>2, <2>3
<1> QED BY <1>4, <1>5 DEF WritesAwaited

\* Sessions queued and stored stay covered when pieces are only added: nothing
\* queued, ...
LEMMA QueueStays ==
  ASSUME SavesCovered, RecordsCovered, UNCHANGED <<records, sessionOps>>,
         \A p : disk[p] # "none" => disk'[p] # "none"
  PROVE  SavesCovered' /\ RecordsCovered'
<1>1. \A s : Covered(s) => Covered(s)'
  BY DEF Covered
<1>2. SavesCovered'
  BY <1>1 DEF SavesCovered
<1>3. ASSUME NEW t \in Torrents, records[t] # None
      PROVE  records[t].torrent = t /\ Covered(records[t])'
  BY <1>3 DEF RecordsCovered, Covered
<1> QED BY <1>2, <1>3 DEF RecordsCovered

\* ... a session queued, ...
LEMMA SaveStays ==
  ASSUME SavesCovered, RecordsCovered, UNCHANGED <<records, disk>>, NEW c, NEW s,
         PutSession(c, s), Covered(s)
  PROVE  SavesCovered' /\ RecordsCovered'
<1>1. PICK S : sessionOps \in Seq(S) /\ \A o \in S : o.op = "put" => Covered(o.session)
  BY DEF SavesCovered
<1> DEFINE e == Put(c, s)
           T == S \cup {e}
<1>2. e.session = s
  BY DEF Put
<1>3. sessionOps' = Append(sessionOps, e)
  BY DEF PutSession
<1> HIDE DEF e
<1>4. sessionOps' \in Seq(T) /\ \A o \in T : o.op = "put" => Covered(o.session)
  <2>1. sessionOps \in Seq(T)
    BY <1>1
  <2> QED BY <1>1, <1>2, <1>3, <2>1
<1>5. SavesCovered'
  BY <1>4 DEF SavesCovered, Covered
<1> QED BY <1>5 DEF RecordsCovered, Covered

\* ... one refused, ...
LEMMA RefusalStays ==
  ASSUME SavesCovered, RecordsCovered, NEW c, RefuseSessionOp(c)
  PROVE  SavesCovered' /\ RecordsCovered'
<1>1. PICK S : sessionOps \in Seq(S) /\ \A o \in S : o.op = "put" => Covered(o.session)
  BY DEF SavesCovered
<1>2. sessionOps' \in Seq(S)
  BY <1>1 DEF RefuseSessionOp
<1>3. SavesCovered'
  BY <1>1, <1>2 DEF SavesCovered, Covered, RefuseSessionOp
<1> QED BY <1>3 DEF RecordsCovered, Covered, RefuseSessionOp

\* ... or one written, and more queued.
LEMMA WriteStays ==
  ASSUME TypeInv, SavesCovered, RecordsCovered, NEW c, NEW S, NEW more \in Seq(S),
         \A o \in S : o.op = "put" => Covered(o.session), RunSessionOp(c, more)
  PROVE  SavesCovered' /\ RecordsCovered'
<1>1. PICK R : sessionOps \in Seq(R) /\ \A o \in R : o.op = "put" => Covered(o.session)
  BY DEF SavesCovered
<1> DEFINE T == R \cup S
           e == Head(sessionOps)
<1>2. UNCHANGED disk /\ sessionOps' = Tail(sessionOps) \o more
      /\ e \in R /\ e \in SessionOps
  BY <1>1 DEF RunSessionOp, TypeInv, StoreTypes
<1>3. Tail(sessionOps) \in Seq(T) /\ more \in Seq(T)
  BY <1>1 DEF RunSessionOp
<1>4. sessionOps' \in Seq(T)
  BY <1>2, <1>3
<1>5. SavesCovered'
  BY <1>1, <1>2, <1>4 DEF SavesCovered, Covered
<1>6. RecordsCovered'
  <2>1. CASE e.op = "put"
    <3>1. records' = [records EXCEPT ![e.session.torrent] = e.session]
      BY <2>1 DEF RunSessionOp
    <3>2. Covered(e.session)
      BY <1>1, <1>2, <2>1
    <3>3. \A t \in Torrents : records'[t] = IF t = e.session.torrent THEN e.session ELSE records[t]
      BY <3>1 DEF TypeInv, StoreTypes
    <3> HIDE DEF e
    <3> QED BY <1>2, <3>2, <3>3 DEF RecordsCovered, Covered
  <2>2. CASE e.op = "delete"
    <3>1. records' = [records EXCEPT ![e.torrent] = None]
      BY <2>2 DEF RunSessionOp
    <3>2. \A t \in Torrents : records'[t] = None \/ records'[t] = records[t]
      BY <3>1 DEF TypeInv, StoreTypes
    <3> QED BY <1>2, <3>2 DEF RecordsCovered, Covered
  <2>3. CASE e.op = "get"
    <3>1. records' = records
      BY <2>3 DEF RunSessionOp
    <3> QED BY <1>2, <3>1 DEF RecordsCovered, Covered
  <2> QED BY <1>2, <2>1, <2>2, <2>3 DEF SessionOps
<1> QED BY <1>5, <1>6

\* A worker's step: what is queued stays awaited, and a bit is set only in the
\* step that writes its piece.
LEMMA WorkerWrites ==
  ASSUME TypeInv, ~Switches, WritesAwaited, NEW w \in Workers, Worker(w) \/ Round(w),
         session # None /\ loader # "reading" => meta = session.torrent
  PROVE  /\ session # None /\ loader = "off" /\ UNCHANGED <<meta, userVars>>
         /\ WritesAwaited' /\ session'.torrent = session.torrent
         /\ Covered(session) => Covered(session)'
         /\ \A p : disk[p] # "none" => disk'[p] # "none"
<1> DEFINE Ok == /\ WritesAwaited' /\ session'.torrent = session.torrent
                 /\ Covered(session) => Covered(session)'
                 /\ \A p : disk[p] # "none" => disk'[p] # "none"
<1>1. /\ session \in Sessions /\ session # None /\ loader = "off" /\ meta = session.torrent
      /\ pc \in [Workers -> {"off", "announcing", "announced", "round", "hashing",
                             "storing", "saving", "backoff", "refreshing"}]
      /\ frame \in [Workers -> Frames]
  <2>1. w \in Alive
    BY DEF Worker, Round, Alive, Request, HashDone, PieceStored, Saved, BackoffEnds,
           Refreshed, PieceRefused, SaveRefused, FrameArrives, RoundFails, RoundEnds
  <2>2. session # None /\ loader = "off"
    BY <2>1 DEF TypeInv, Present, PoolInv, Gates, Quiet
  <2> QED BY <2>2 DEF TypeInv, PageTypes, RoundTypes, PoolInv, Shape
<1>2. UNCHANGED <<meta, userVars>>
  BY DEF Worker, Round, Request, HashDone, PieceStored, Saved, BackoffEnds, Refreshed,
         PieceRefused, SaveRefused, FrameArrives, RoundFails, RoundEnds, RoundError, pageVars
<1>3. ASSUME NEW P \in SUBSET Addresses, session' = [session EXCEPT !.peers = P],
             UNCHANGED <<disk, pieceOps>>,
             \A v \in Workers : pc[v] = "storing" => pc'[v] = "storing" /\ frame'[v] = frame[v]
      PROVE  Ok
  <2>1. session'.torrent = session.torrent /\ session'.bits = session.bits
    BY <1>1, <1>3, SessionParts
  <2>2. WritesAwaited'
    BY <1>3, <2>1, AwaitedStays
  <2> QED BY <1>3, <2>1, <2>2 DEF Covered
<1>4. ASSUME UNCHANGED <<disk, pieceOps, session>>,
             \A v \in Workers : pc[v] = "storing" => pc'[v] = "storing" /\ frame'[v] = frame[v]
      PROVE  Ok
  BY <1>4, AwaitedStays DEF Covered
<1>5. ASSUME pc[w] # "storing", NEW i, NEW s, Boundary(w, i, s)
      PROVE  \A v \in Workers : pc[v] = "storing" => pc'[v] = "storing"
  <2>1. PICK t \in Rescaled : \E new \in IF t > target THEN Spawns(t) ELSE {{}} :
          LET stays == Stays(active + Cardinality(new), t) IN
          pc' = [v \in Workers |->
                   IF v \in new \/ (v = w /\ stays) THEN AfterEnsure
                   ELSE IF v = w THEN "off" ELSE pc[v]]
    BY <1>5 DEF Boundary
  <2>2. PICK new \in IF t > target THEN Spawns(t) ELSE {{}} :
          LET stays == Stays(active + Cardinality(new), t) IN
          pc' = [v \in Workers |->
                   IF v \in new \/ (v = w /\ stays) THEN AfterEnsure
                   ELSE IF v = w THEN "off" ELSE pc[v]]
    BY <2>1
  <2>3. \A v \in new : pc[v] = "off"
    BY DEF Spawns
  <2> QED BY <1>5, <2>2, <2>3
<1>6. CASE HashDone(w)
  <2>1. UNCHANGED <<disk, session>> /\ pc[w] = "hashing"
        /\ \A v \in Workers \ {w} : pc'[v] = pc[v] /\ frame'[v] = frame[v]
    BY <1>1, <1>6 DEF HashDone, pageVars, Goes, Unframed
  <2>2. CASE Verified(w) /\ frame[w].index \notin session.bits
    <3>1. PICK o : o = [by |-> w, op |-> "put", torrent |-> meta, index |-> frame[w].index,
                        bytes |-> BytesFor(w, meta)]
      OBVIOUS
    <3>2. pieceOps' = Append(pieceOps, o) /\ pc'[w] = "storing" /\ UNCHANGED frame
      BY <1>1, <1>6, <2>2, <3>1 DEF HashDone, PutPiece, Goes
    <3>3. /\ o.by = w /\ o \in PieceOps /\ Awaited(o)'
      <4>1. meta \in Torrents
        BY <1>1 DEF Sessions
      <4>2. frame[w].index \in Pieces /\ BytesFor(w, meta) \in {"good", "bad"} /\ w \in Clients
        BY <1>1 DEF Frames, BytesFor, Clients
      <4>3. o.by = w /\ o \in PieceOps
        BY <3>1, <4>1, <4>2 DEF PieceOps
      <4> QED BY <1>1, <2>1, <3>1, <3>2, <4>3 DEF Awaited
    <3>4. WritesAwaited'
      BY <2>1, <3>2, <3>3, PutKeepsAwaited
    <3> QED BY <1>1, <1>2, <2>1, <3>4 DEF Covered
  <2>3. CASE ~(Verified(w) /\ frame[w].index \notin session.bits)
    <3>1. UNCHANGED pieceOps
      BY <1>6, <2>3 DEF HashDone
    <3> QED BY <1>1, <1>2, <1>4, <2>1, <3>1
  <2> QED BY <2>2, <2>3
<1>7. CASE PieceStored(w)
  <2> DEFINE o == Head(pieceOps)
             s == [session EXCEPT !.bits = session.bits \cup {frame[w].index}]
  <2>1. /\ pieceOps # <<>> /\ o.by = w /\ pieceOps' = Tail(pieceOps)
        /\ session' = s /\ pc[w] = "storing"
        /\ \A v \in Workers \ {w} : pc'[v] = pc[v] /\ frame'[v] = frame[v]
    BY <1>1, <1>7 DEF PieceStored, RunPieceOp, Goes, Unframed
  <2>2. s.torrent = session.torrent /\ s.bits = session.bits \cup {frame[w].index}
    <3>1. frame[w].index \in Pieces
      BY <1>1 DEF Frames
    <3>2. session.bits \cup {frame[w].index} \in SUBSET Pieces
      BY <1>1, <3>1 DEF Sessions
    <3> QED BY <1>1, <3>2, SessionParts
  <2>3. Awaited(o) /\ WritesAwaited'
    BY <2>1, <2>2, TakeKeepsAwaited
  <2>4. o \in PieceOps /\ o.op = "put" /\ o.torrent = session.torrent /\ o.index = frame[w].index
        /\ disk' = [disk EXCEPT ![<<o.torrent, o.index>>] = o.bytes]
    BY <1>7, <2>1, <2>3, RunPieceTypes DEF Awaited, TypeInv, PieceStored, RunPieceOp
  <2>5. o.bytes # "none" /\ <<o.torrent, o.index>> \in DOMAIN disk
    BY <2>4 DEF PieceOps, TypeInv, StoreTypes
  <2> HIDE DEF o, s
  <2>6. disk'[<<session.torrent, frame[w].index>>] # "none"
        /\ \A p : disk[p] # "none" => disk'[p] # "none"
    BY <2>4, <2>5
  <2>7. Covered(session) => Covered(session)'
    <3>1. ASSUME Covered(session), NEW i \in s.bits PROVE disk'[<<s.torrent, i>>] # "none"
      BY <2>2, <2>6, <3>1 DEF Covered
    <3> QED BY <2>1, <3>1 DEF Covered
  <2> QED BY <1>1, <1>2, <2>1, <2>2, <2>3, <2>6, <2>7
<1>8. CASE PieceRefused(w)
  <2>1. /\ pieceOps # <<>> /\ Head(pieceOps).by = w /\ pieceOps' = Tail(pieceOps)
        /\ UNCHANGED <<disk, session>>
        /\ \A v \in Workers \ {w} : pc'[v] = pc[v] /\ frame'[v] = frame[v]
    BY <1>1, <1>8 DEF PieceRefused, RefusePieceOp, RoundError, Goes, Unframed, pageVars
  <2>2. WritesAwaited'
    BY <2>1, TakeKeepsAwaited
  <2> QED BY <1>1, <1>2, <2>1, <2>2 DEF Covered
<1>9. CASE RoundEnds(w)
  <2>1. PICK verdict \in Prunes(w) \cup
               (IF "errors" \in events
                THEN {[wipeout |-> wipeout, peers |-> session.peers]} ELSE {}),
             pex \in SUBSET Addresses :
          \E peers \in Merges(verdict.peers, pex) : session' = [session EXCEPT !.peers = peers]
    BY <1>9 DEF RoundEnds
  <2>2. verdict.peers \subseteq Addresses
    BY <1>1, <2>1, VerdictTypes DEF Sessions
  <2>3. Merges(verdict.peers, pex) \subseteq SUBSET Addresses
    BY <2>2, MergesTypes
  <2>4. UNCHANGED <<disk, pieceOps, frame>>
        /\ \A v \in Workers : pc[v] = "storing" => pc'[v] = "storing"
    BY <1>1, <1>9 DEF RoundEnds, Goes
  <2> QED BY <1>1, <1>2, <1>3, <2>1, <2>3, <2>4
<1>10. CASE BackoffEnds(w)
  <2>1. pc[w] # "storing" /\ UNCHANGED <<disk, pieceOps, frame>>
    BY <1>10 DEF BackoffEnds, roundVars
  <2>2. CASE session' = [session EXCEPT !.peers = {}] /\ Goes(w, "refreshing")
    <3>1. \A v \in Workers : pc[v] = "storing" => pc'[v] = "storing"
      BY <1>1, <2>1, <2>2 DEF Goes
    <3> QED BY <1>1, <1>2, <1>3, <2>1, <2>2, <3>1
  <2>3. CASE Boundary(w, idle[w], size[w]) /\ UNCHANGED session
    BY <1>1, <1>2, <1>4, <1>5, <2>1, <2>3
  <2> QED BY <1>10, <2>2, <2>3 DEF BackoffEnds
<1>11. CASE Saved(w) \/ Refreshed(w) \/ SaveRefused(w)
  <2>1. pc[w] # "storing" /\ UNCHANGED <<disk, pieceOps, frame, session>>
    BY <1>11 DEF Saved, Refreshed, SaveRefused, roundVars, pageVars, RunSessionOp,
                 RefuseSessionOp
  <2>2. \A v \in Workers : pc[v] = "storing" => pc'[v] = "storing"
    <3>1. CASE \E i, s : Boundary(w, i, s)
      BY <1>5, <2>1, <3>1
    <3>2. CASE Goes(w, "backoff") \/ Goes(w, "off")
      BY <1>1, <2>1, <3>2 DEF Goes
    <3> QED BY <1>11, <3>1, <3>2 DEF Saved, Refreshed, SaveRefused, Exit
  <2> QED BY <1>1, <1>2, <1>4, <2>1, <2>2
<1>12. CASE Request(w) \/ RoundFails(w)
            \/ \E i \in Pieces, bytes \in {"good", "bad"} : FrameArrives(w, i, bytes)
  <2>1. UNCHANGED <<disk, pieceOps, session>> /\ pc[w] # "storing"
    BY <1>12 DEF Request, RoundFails, RoundError, FrameArrives, storeVars, pageVars
  <2>2. \A v \in Workers \ {w} : pc'[v] = pc[v] /\ frame'[v] = frame[v]
    BY <1>1, <1>12 DEF Request, Exit, RoundFails, RoundError, FrameArrives, Goes, roundVars
  <2> QED BY <1>1, <1>2, <1>4, <2>1, <2>2
<1> QED BY <1>6, <1>7, <1>8, <1>9, <1>10, <1>11, <1>12 DEF Worker, Round

\* A worker's step: what it saves is covered.
LEMMA WorkerSaves ==
  ASSUME TypeInv, Covered(session), SavesCovered, RecordsCovered, NEW w \in Workers,
         Worker(w) \/ Round(w), session \in Sessions,
         \A p : disk[p] # "none" => disk'[p] # "none"
  PROVE  SavesCovered' /\ RecordsCovered'
<1>1. ASSUME NEW P \in SUBSET Addresses, UNCHANGED <<disk, records>>,
             PutSession(w, [session EXCEPT !.peers = P])
      PROVE  SavesCovered' /\ RecordsCovered'
  <2> DEFINE s == [session EXCEPT !.peers = P]
  <2>1. s.torrent = session.torrent /\ s.bits = session.bits
    BY SessionParts
  <2>2. PutSession(w, s)
    BY <1>1
  <2> HIDE DEF s
  <2>3. Covered(s)
    BY <2>1 DEF Covered
  <2> QED BY <1>1, <2>2, <2>3, SaveStays
<1>2. CASE RoundEnds(w)
  <2>1. PICK verdict \in Prunes(w) \cup
               (IF "errors" \in events
                THEN {[wipeout |-> wipeout, peers |-> session.peers]} ELSE {}),
             pex \in SUBSET Addresses :
          \E peers \in Merges(verdict.peers, pex) :
            PutSession(w, [session EXCEPT !.peers = peers])
    BY <1>2 DEF RoundEnds
  <2>2. verdict.peers \subseteq Addresses
    BY <2>1, VerdictTypes DEF Sessions
  <2>3. Merges(verdict.peers, pex) \subseteq SUBSET Addresses
    BY <2>2, MergesTypes
  <2> QED BY <1>1, <1>2, <2>1, <2>3 DEF RoundEnds
<1>3. CASE Saved(w) \/ Refreshed(w)
  <2>1. PICK S, more : S = {} /\ more = <<>>
    OBVIOUS
  <2>2. more \in Seq(S) /\ (\A o \in S : o.op = "put" => Covered(o.session))
        /\ RunSessionOp(w, more)
    BY <1>3, <2>1 DEF Saved, Refreshed
  <2> QED BY <2>2, WriteStays
<1>4. CASE SaveRefused(w)
  BY <1>4, RefusalStays DEF SaveRefused
<1>5. CASE UNCHANGED <<records, sessionOps>>
  BY <1>5, QueueStays
<1>6. CASE BackoffEnds(w)
  BY <1>1, <1>5, <1>6 DEF BackoffEnds
<1>7. CASE HashDone(w) \/ PieceStored(w) \/ PieceRefused(w) \/ Request(w) \/ RoundFails(w)
           \/ \E i \in Pieces, bytes \in {"good", "bad"} : FrameArrives(w, i, bytes)
  BY <1>5, <1>7 DEF HashDone, PieceStored, PieceRefused, Request, RoundFails, RoundError,
                    FrameArrives, RunPieceOp, storeVars
<1> QED BY <1>2, <1>3, <1>4, <1>6, <1>7 DEF Worker, Round

\* A worker's step.
LEMMA WorkerStores ==
  ASSUME TypeInv, StoreInv, ~Switches, NEW w \in Workers, Worker(w) \/ Round(w)
  PROVE  StoreInv'
<1>1. /\ session # None /\ loader = "off" /\ UNCHANGED <<meta, userVars>>
      /\ WritesAwaited' /\ session'.torrent = session.torrent
      /\ Covered(session) => Covered(session)'
      /\ \A p : disk[p] # "none" => disk'[p] # "none"
  BY WorkerWrites DEF StoreInv
<1>2. SavesCovered' /\ RecordsCovered'
  BY <1>1, WorkerSaves DEF StoreInv, TypeInv, PageTypes
<1> QED BY <1>1, <1>2 DEF StoreInv, userVars

\* A session put aside for saving, or taken up: nothing of the store moves but
\* the queue of saves.
LEMMA PageStores ==
  ASSUME TypeInv, StoreInv, ~Frees, ~Switches, NEW c, NEW S, NEW more \in Seq(S),
         \A o \in S : o.op = "put" => Covered(o.session),
         \/ UNCHANGED <<records, sessionOps>> \/ RunSessionOp(c, more) \/ RefuseSessionOp(c),
         UNCHANGED <<disk, pieceOps, meta, session, clearer, saver>>,
         loader = "reading" => loader' = "reading",
         \A v \in Workers : pc[v] = "storing" => pc'[v] = "storing" /\ frame'[v] = frame[v]
  PROVE  StoreInv'
<1>1. SavesCovered' /\ RecordsCovered'
  BY QueueStays, WriteStays, RefusalStays DEF StoreInv
<1>2. WritesAwaited'
  BY AwaitedStays DEF StoreInv
<1>3. session' # None => Covered(session)'
  BY DEF StoreInv, Covered
<1> QED BY <1>1, <1>2, <1>3 DEF StoreInv

\* The steps of the announce.
LEMMA AnnounceStores ==
  ASSUME TypeInv, StoreInv, ~Frees, ~Switches, Announcing
  PROVE  StoreInv'
<1>1. PICK S, more : S = {} /\ more = <<>>
  OBVIOUS
<1>2. more \in Seq(S) /\ \A o \in S : o.op = "put" => Covered(o.session)
  BY <1>1
<1>3. CASE AnnounceReply
  <2>1. session \in Sessions /\ session # None
    BY <1>3, OthersHaveASession DEF TypeInv, PageTypes
  <2>2. PICK new \in SUBSET Addresses :
          \E peers \in Merges(session.peers, new) :
            /\ session' = [session EXCEPT !.peers = peers]
            /\ PutSession("announce", [session EXCEPT !.peers = peers])
    BY <1>3 DEF AnnounceReply
  <2>3. PICK P \in SUBSET Addresses :
          /\ session' = [session EXCEPT !.peers = P]
          /\ PutSession("announce", [session EXCEPT !.peers = P])
    <3>1. session.peers \subseteq Addresses
      BY <2>1 DEF Sessions
    <3> QED BY <2>2, <3>1, MergesTypes
  <2>4. UNCHANGED <<disk, records, pieceOps, meta, loader, clearer, saver, pc, frame>>
    BY <1>3 DEF AnnounceReply, userVars, workerVars, roundVars
  <2> DEFINE s == [session EXCEPT !.peers = P]
  <2>5. s \in Sessions /\ s.torrent = session.torrent /\ s.bits = session.bits
    BY <2>1, SessionParts
  <2>6. session' = s /\ PutSession("announce", s)
    BY <2>3
  <2> HIDE DEF s
  <2>7. Covered(s)
    BY <2>1, <2>5 DEF StoreInv, Covered
  <2>8. SavesCovered' /\ RecordsCovered'
    BY <2>4, <2>6, <2>7, SaveStays DEF StoreInv
  <2>9. WritesAwaited'
    BY <2>4, <2>5, <2>6, AwaitedStays DEF StoreInv
  <2>10. Covered(session)'
    BY <2>4, <2>6, <2>7 DEF Covered
  <2> QED BY <2>1, <2>4, <2>5, <2>6, <2>8, <2>9, <2>10 DEF StoreInv
<1>4. CASE AnnounceFails \/ AnnounceSaved \/ AnnounceRefused \/ CoolingEnds
  <2>1. UNCHANGED <<disk, pieceOps, meta, session, loader, clearer, saver, frame>>
    BY <1>4 DEF AnnounceFails, AnnounceSaved, AnnounceRefused, CoolingEnds, AnnounceOver,
                RunSessionOp, RefuseSessionOp, storeVars, pageVars, userVars, workerVars,
                roundVars
  <2>2. UNCHANGED <<records, sessionOps>>
        \/ RunSessionOp("announce", more) \/ RefuseSessionOp("announce")
    BY <1>1, <1>4 DEF AnnounceFails, AnnounceSaved, AnnounceRefused, CoolingEnds, storeVars
  <2>3. \A v \in Workers : pc[v] = "storing" => pc'[v] = "storing" /\ frame'[v] = frame[v]
    BY <1>4, <2>1 DEF AnnounceFails, AnnounceSaved, AnnounceRefused, CoolingEnds, AnnounceOver,
                      workerVars
  <2> QED BY <1>2, <2>1, <2>2, <2>3, PageStores
<1> QED BY <1>3, <1>4 DEF Announcing

\* A torrent is loaded: its record becomes the session.
LEMMA LoadStores ==
  ASSUME TypeInv, StoreInv, ~Frees, ~Switches,
         LoadRead \/ LoadSaved \/ LoadRefused \/ \E t \in Torrents : Load(t)
  PROVE  StoreInv'
<1>1. PICK S, more : S = {} /\ more = <<>>
  OBVIOUS
<1>2. more \in Seq(S) /\ \A o \in S : o.op = "put" => Covered(o.session)
  BY <1>1
<1>3. UNCHANGED <<disk, pieceOps, pc, frame, clearer, saver>>
  BY DEF LoadRead, LoadSaved, LoadRefused, Load, workerVars, roundVars, RunSessionOp,
         RefuseSessionOp, userVars
<1>4. CASE LoadSaved \/ LoadRefused
  <2>1. /\ UNCHANGED <<meta, session>> /\ loader = "saving"
        /\ RunSessionOp("load", more) \/ RefuseSessionOp("load")
    BY <1>1, <1>4 DEF LoadSaved, LoadRefused, pageVars
  <2> QED BY <1>2, <1>3, <2>1, PageStores
<1>5. CASE \E t \in Torrents : Load(t)
  <2>1. PICK t \in Torrents : Load(t)
    BY <1>5
  <2>2. PICK o : o = [by |-> "load", op |-> "get", torrent |-> t]
    OBVIOUS
  <2>3. sessionOps' = Append(sessionOps, o) /\ UNCHANGED <<records, session>>
        /\ loader' = "reading"
    BY <2>1, <2>2 DEF Load, GetSession
  <2>4. PICK R : sessionOps \in Seq(R) /\ \A e \in R : e.op = "put" => Covered(e.session)
    BY DEF StoreInv, SavesCovered
  <2> DEFINE T == R \cup {o}
  <2>5. sessionOps' \in Seq(T) /\ \A e \in T : e.op = "put" => Covered(e.session)
    <3>1. sessionOps \in Seq(T)
      BY <2>4
    <3> QED BY <2>2, <2>3, <2>4, <3>1
  <2>6. SavesCovered'
    BY <1>3, <2>5 DEF SavesCovered, Covered
  <2>7. RecordsCovered' /\ (session' # None => Covered(session)')
    BY <1>3, <2>3 DEF StoreInv, RecordsCovered, Covered
  <2>8. WritesAwaited'
    BY <1>3, <2>3, AwaitedStays DEF StoreInv
  <2> QED BY <1>3, <2>3, <2>6, <2>7, <2>8 DEF StoreInv
<1>6. CASE LoadRead
  <2>1. Alive = {} /\ meta \in Torrents
    BY <1>6 DEF LoadRead, TypeInv, PoolInv, Gates, Quiet, Present, PageTypes
  <2>2. \A n \in 1 .. Len(pieceOps) : pieceOps[n].by \notin Workers
    BY <2>1 DEF StoreInv, WritesAwaited, Awaited, Alive
  <2>3. WritesAwaited'
    BY <1>3, <2>2 DEF WritesAwaited
  <2>4. PICK P :
          LET s == [Loaded(meta) EXCEPT !.peers = P] IN
          P \in SUBSET Addresses /\ session' = s /\ RunSessionOp("load", <<Put("load", s)>>)
    <3>1. Loaded(meta) \in Sessions
      BY <2>1, NewSessions DEF Loaded, TypeInv, StoreTypes
    <3>2. PICK seed \in SUBSET Addresses :
            \E peers \in Merges(Loaded(meta).peers, seed) :
              LET s == [Loaded(meta) EXCEPT !.peers = peers] IN
              session' = s /\ RunSessionOp("load", <<Put("load", s)>>)
      BY <1>6 DEF LoadRead
    <3>3. Merges(Loaded(meta).peers, seed) \subseteq SUBSET Addresses
      <4>1. Loaded(meta).peers \subseteq Addresses
        BY <3>1 DEF Sessions
      <4> QED BY <4>1, MergesTypes
    <3> QED BY <3>2, <3>3
  <2>5. PICK s, o : s = [Loaded(meta) EXCEPT !.peers = P] /\ o = Put("load", s)
    OBVIOUS
  <2>6. s.torrent = meta /\ s.bits = Loaded(meta).bits /\ o.session = s
    <3>1. Loaded(meta) \in Sessions /\ Loaded(meta).torrent = meta
      <4>1. CASE records[meta] # None
        BY <2>1, <4>1 DEF Loaded, TypeInv, StoreTypes, StoreInv, RecordsCovered
      <4>2. CASE records[meta] = None
        BY <2>1, <4>2, NewSessions DEF Loaded, NewSession
      <4> QED BY <4>1, <4>2
    <3>2. o.session = s
      BY <2>5 DEF Put
    <3> QED BY <2>4, <2>5, <3>1, <3>2, SessionParts
  <2>7. Covered(s)
    <3>1. CASE records[meta] # None
      BY <2>1, <2>6, <3>1 DEF Loaded, StoreInv, RecordsCovered, Covered
    <3>2. CASE records[meta] = None
      BY <2>6, <3>2 DEF Loaded, NewSession, Covered
    <3> QED BY <3>1, <3>2
  <2>8. session' = s /\ RunSessionOp("load", <<o>>) /\ UNCHANGED meta
    BY <1>6, <2>4, <2>5 DEF LoadRead
  <2>9. SavesCovered' /\ RecordsCovered'
    <3>1. PICK R, m : R = {o} /\ m = <<o>>
      OBVIOUS
    <3>2. m \in Seq(R) /\ (\A e \in R : e.op = "put" => Covered(e.session))
          /\ RunSessionOp("load", m)
      BY <2>6, <2>7, <2>8, <3>1
    <3> QED BY <3>2, WriteStays DEF StoreInv
  <2>10. Covered(session)'
    BY <1>3, <2>7, <2>8 DEF Covered
  <2> QED BY <1>3, <2>3, <2>6, <2>8, <2>9, <2>10 DEF StoreInv
<1> QED BY <1>4, <1>5, <1>6

\* The store's invariant is inductive.
LEMMA StoreInduction ==
  Spec => [](~Switches /\ ~Frees => StoreInv)
<1>1. Init => StoreInv
  <2> SUFFICES ASSUME Init PROVE StoreInv
    OBVIOUS
  <2>1. /\ clearer = "off" /\ saver = "off" /\ session = None
        /\ pieceOps = <<>> /\ sessionOps = <<>>
        /\ records = [t \in Torrents |-> None]
    BY DEF Init, Fresh, StoreInit
  <2>2. WritesAwaited /\ RecordsCovered
    BY <2>1 DEF WritesAwaited, RecordsCovered
  <2>3. sessionOps \in Seq({})
    BY <2>1
  <2>4. SavesCovered
    BY <2>3 DEF SavesCovered
  <2> QED BY <2>1, <2>2, <2>4 DEF StoreInv
<1>2. (~Switches /\ ~Frees => StoreInv) /\ (~Overlaps => TypeInv) /\ [Next]_vars
        => (~Switches /\ ~Frees => StoreInv)'
  <2> SUFFICES ASSUME ~Switches, ~Frees, StoreInv, TypeInv, [Next]_vars PROVE StoreInv'
    BY WorldStays DEF Overlaps, Switches, Frees
  <2>1. PICK S, more : S = {} /\ more = <<>>
    OBVIOUS
  <2>2. more \in Seq(S) /\ \A o \in S : o.op = "put" => Covered(o.session)
    BY <2>1
  <2>3. CASE \E w \in Workers : Worker(w) \/ Round(w)
    BY <2>3, WorkerStores
  <2>4. CASE Announcing
    BY <2>4, AnnounceStores
  <2>5. CASE LoadRead \/ LoadSaved \/ LoadRefused \/ \E t \in Torrents : Load(t)
    BY <2>5, LoadStores
  <2>6. CASE Reload
    <3>1. pieceOps' = <<>> /\ sessionOps' \in Seq({}) /\ session' = None
          /\ clearer' = "off" /\ saver' = "off" /\ loader' = "off" /\ UNCHANGED <<disk, records>>
      BY <2>6 DEF Reload
    <3>2. WritesAwaited'
      BY <3>1 DEF WritesAwaited
    <3>3. SavesCovered'
      BY <3>1 DEF SavesCovered
    <3>4. RecordsCovered'
      BY <3>1 DEF StoreInv, RecordsCovered, Covered
    <3> QED BY <3>1, <3>2, <3>3, <3>4 DEF StoreInv
  <2>7. CASE Running \/ Stop \/ UNCHANGED vars \/ \E g \in Starts : Start(g)
    <3>1. UNCHANGED <<disk, records, pieceOps, sessionOps, meta, session, loader, clearer, saver,
                      frame>>
      BY <2>7 DEF Running, Launch, PoolEnds, Stop, vars, Start, storeVars, pageVars, userVars,
                  workerVars, roundVars
    <3>2. \A v \in Workers : pc[v] = "storing" => pc'[v] = "storing"
      BY <2>7 DEF Running, Launch, Spawns, PoolEnds, Stop, vars, Start, workerVars
    <3> QED BY <2>2, <3>1, <3>2, PageStores
  <2>8. ~(ClearedPieces \/ ClearedSession \/ SaveRead \/ SaveDeleted \/ SaveSaved \/ Clear \/ Save)
    BY DEF StoreInv, Frees, ClearedPieces, ClearedSession, SaveRead, SaveDeleted, SaveSaved,
           Clear, Save
  <2> QED BY <2>3, <2>4, <2>5, <2>6, <2>7, <2>8 DEF Next, Running, UserOps, User
<1> QED BY <1>1, <1>2, TypeInduction, PTL DEF Spec

-----------------------------------------------------------------------------
(* Where pieces are freed, stored bitfields may be ahead for a while, but   *)
(* the one in memory is not: in a page that lives on and whose store takes  *)
(* what it is given, only the first load reads a record.                    *)

\* The page may die, the store refuse a write, or a torrent be loaded over
\* another.
Disturbed == Switches \/ {"crash", "quota"} \cap events # {}

\* Nothing is stored before a torrent is loaded; after that Start is enabled or
\* under way, so that no other can be.
LoadedOnce ==
  /\ session = None => loader # "saving" /\ \A t \in Torrents : records[t] = None
  /\ session # None => loader # "reading" /\ meta = session.torrent
  /\ session # None /\ loader = "off" => startEnabled \/ \E g \in Starts : starter[g] # "off"

HonestInv ==
  /\ LoadedOnce
  /\ WritesAwaited
  /\ session # None /\ clearer = "off" /\ saver # "deleting" => Covered(session)

\* Someone who is not a worker queues a deletion.
LEMMA DeleteKeepsAwaited ==
  ASSUME TypeInv, WritesAwaited, NEW c \in {"clear", "save"}, NEW t \in Torrents,
         DeleteAllPieces(c, t), UNCHANGED <<pc, frame, session>>
  PROVE  WritesAwaited'
<1>1. PICK o : o = [by |-> c, op |-> "delete", torrent |-> t]
  OBVIOUS
<1>2. pieceOps \in Seq(PieceOps) /\ o \in PieceOps /\ o.by \notin Workers
      /\ pieceOps' = Append(pieceOps, o)
  <2>1. o \in PieceOps
    BY <1>1 DEF PieceOps, Clients
  <2> QED BY <1>1, <2>1, PoolAssumption DEF TypeInv, StoreTypes, DeleteAllPieces
<1>3. /\ Len(pieceOps) \in Nat /\ Len(pieceOps') = Len(pieceOps) + 1
      /\ pieceOps'[Len(pieceOps) + 1] = o
      /\ \A n \in 1 .. Len(pieceOps) : pieceOps'[n] = pieceOps[n]
  BY <1>2
<1>4. ASSUME NEW n \in 1 .. Len(pieceOps'), pieceOps'[n].by \in Workers
      PROVE  n \in 1 .. Len(pieceOps) /\ pieceOps'[n] = pieceOps[n]
  BY <1>2, <1>3, <1>4
<1>5. ASSUME NEW n \in 1 .. Len(pieceOps'), pieceOps'[n].by \in Workers
      PROVE  Awaited(pieceOps[n])'
  BY <1>4, <1>5 DEF WritesAwaited, Awaited
<1>6. ASSUME NEW m \in 1 .. Len(pieceOps'), NEW n \in 1 .. Len(pieceOps'),
             pieceOps'[n].by \in Workers, pieceOps'[m].by = pieceOps'[n].by
      PROVE  m = n
  BY <1>4, <1>6 DEF WritesAwaited
<1> QED BY <1>5, <1>6 DEF WritesAwaited

\* A worker's step: a bit set in memory is of a piece written.
LEMMA WorkerIsHonest ==
  ASSUME TypeInv, HonestInv, ~Disturbed, NEW w \in Workers, Worker(w) \/ Round(w)
  PROVE  HonestInv'
<1>1. /\ session # None /\ loader = "off" /\ UNCHANGED <<meta, userVars>>
      /\ WritesAwaited' /\ session'.torrent = session.torrent
      /\ Covered(session) => Covered(session)'
  BY WorkerWrites DEF HonestInv, LoadedOnce, Disturbed
<1>2. session' # None
  <2>1. Next
    BY DEF Next
  <2>2. session' \in Sessions \/ UNCHANGED session \/ Reload
    BY <2>1, StoreTyped
  <2> QED BY <1>1, <2>2, StoreAssumption DEF Reload, Disturbed
<1>3. UNCHANGED <<startEnabled, starter>>
  BY DEF Disturbed, Worker, Round, Request, HashDone, PieceStored, Saved, BackoffEnds, Refreshed,
         PieceRefused, SaveRefused, FrameArrives, RoundFails, RoundEnds, RoundError, pageVars
<1>4. LoadedOnce'
  BY <1>1, <1>2, <1>3 DEF HonestInv, LoadedOnce, userVars
<1> QED BY <1>1, <1>4 DEF HonestInv, userVars

\* The first load finds no record: the page starts with an empty bitfield.
LEMMA LoadIsHonest ==
  ASSUME TypeInv, HonestInv, ~Disturbed, LoadRead \/ LoadSaved \/ \E t \in Torrents : Load(t)
  PROVE  HonestInv'
<1>1. UNCHANGED <<disk, pieceOps, pc, frame, clearer, saver, starter>>
  BY DEF LoadRead, LoadSaved, Load, workerVars, roundVars, RunSessionOp
<1>2. CASE LoadSaved
  <2>1. UNCHANGED <<meta, session>> /\ session # None /\ startEnabled' = TRUE /\ loader' = "off"
    BY <1>2 DEF LoadSaved, HonestInv, LoadedOnce
  <2>2. WritesAwaited'
    BY <1>1, <2>1, AwaitedStays DEF HonestInv
  <2> QED BY <1>1, <2>1, <2>2 DEF HonestInv, LoadedOnce, Covered
<1>3. CASE \E t \in Torrents : Load(t)
  <2>1. /\ loader = "off" /\ ~startEnabled /\ \A g \in Starts : starter[g] = "off"
        /\ UNCHANGED <<session, records>> /\ loader' = "reading"
    BY <1>3 DEF Load, Stuck, Disturbed, Switches
  <2>2. session = None
    BY <2>1 DEF HonestInv, LoadedOnce
  <2>3. WritesAwaited'
    BY <1>1, <2>1, AwaitedStays DEF HonestInv
  <2> QED BY <2>1, <2>2, <2>3 DEF HonestInv, LoadedOnce
<1>4. CASE LoadRead
  <2>1. session = None /\ Alive = {} /\ meta \in Torrents /\ records[meta] = None
    <3>1. session = None
      BY <1>4 DEF LoadRead, HonestInv, LoadedOnce
    <3>2. Alive = {} /\ meta \in Torrents
      BY <1>4, <3>1 DEF LoadRead, TypeInv, Present, PageTypes
    <3> QED BY <3>1, <3>2 DEF HonestInv, LoadedOnce
  <2>2. NewSession(meta) \in Sessions /\ Loaded(meta) = NewSession(meta)
        /\ NewSession(meta).bits = {} /\ NewSession(meta).torrent = meta
    BY <2>1, NewSessions DEF Loaded, NewSession
  <2>3. PICK seed \in SUBSET Addresses :
          \E P \in Merges(NewSession(meta).peers, seed) :
            session' = [NewSession(meta) EXCEPT !.peers = P]
    BY <1>4, <2>2 DEF LoadRead
  <2>4. PICK P \in SUBSET Addresses : session' = [NewSession(meta) EXCEPT !.peers = P]
    <3>1. NewSession(meta).peers \subseteq Addresses
      BY <2>2 DEF Sessions
    <3> QED BY <2>3, <3>1, MergesTypes
  <2>5. session' # None /\ session'.bits = {} /\ session'.torrent = meta
    <3>1. [NewSession(meta) EXCEPT !.peers = P] \in Sessions
      BY <2>2, SessionParts
    <3> QED BY <2>2, <2>4, <3>1, SessionParts, StoreAssumption
  <2>6. UNCHANGED meta /\ loader' = "saving"
    BY <1>4 DEF LoadRead
  <2>7. \A n \in 1 .. Len(pieceOps) : pieceOps[n].by \notin Workers
    BY <2>1 DEF HonestInv, WritesAwaited, Awaited, Alive
  <2>8. WritesAwaited'
    BY <1>1, <2>7 DEF WritesAwaited
  <2> QED BY <2>5, <2>6, <2>8 DEF HonestInv, LoadedOnce, Covered
<1> QED BY <1>2, <1>3, <1>4

\* Pieces are freed, for a purge or after a save: the bitfield is emptied in the
\* step of the deletion, or before it is relied upon again.
LEMMA FreeingIsHonest ==
  ASSUME TypeInv, HonestInv, ~Disturbed,
         Clear \/ ClearedPieces \/ ClearedSession \/ SaveRead \/ SaveDeleted
  PROVE  HonestInv'
<1>1. /\ session # None /\ session \in Sessions /\ meta = session.torrent /\ meta \in Torrents
      /\ UNCHANGED <<meta, startEnabled, starter, loader, pc, frame>>
  <2>1. session # None /\ session \in Sessions
    BY OthersHaveASession DEF TypeInv, PageTypes
  <2>2. UNCHANGED <<meta, startEnabled, starter, loader, pc, frame>>
    BY DEF Clear, ClearedPieces, ClearedSession, SaveRead, SaveDeleted, workerVars, roundVars,
           pageVars
  <2>3. meta = session.torrent /\ meta \in Torrents
    BY <2>1 DEF HonestInv, LoadedOnce, Sessions
  <2> QED BY <2>1, <2>2, <2>3
<1>2. ASSUME session' # None, session'.torrent = session.torrent PROVE LoadedOnce'
  BY <1>1, <1>2 DEF HonestInv, LoadedOnce
<1>3. CASE Clear
  <2>1. DeleteAllPieces("clear", session.torrent) /\ clearer' = "pieces" /\ UNCHANGED session
    BY <1>3 DEF Clear
  <2>2. WritesAwaited'
    BY <1>1, <2>1, DeleteKeepsAwaited DEF HonestInv
  <2> QED BY <1>1, <1>2, <2>1, <2>2 DEF HonestInv
<1>4. CASE ClearedPieces
  <2>1. /\ pieceOps # <<>> /\ Head(pieceOps).by = "clear" /\ pieceOps' = Tail(pieceOps)
        /\ clearer' = "session" /\ UNCHANGED session
    BY <1>4 DEF ClearedPieces, RunPieceOp, pageVars
  <2>2. WritesAwaited'
    BY <1>1, <2>1, TakeKeepsAwaited DEF HonestInv
  <2> QED BY <1>1, <1>2, <2>1, <2>2 DEF HonestInv
<1>5. CASE ClearedSession
  <2>1. session' = NewSession(session.torrent) /\ UNCHANGED pieceOps
    BY <1>5 DEF ClearedSession
  <2>2. session' # None /\ session'.torrent = session.torrent /\ session'.bits = {}
    <3>1. session' \in Sessions
      BY <1>1, <2>1, NewSessions
    <3> QED BY <2>1, <3>1, StoreAssumption DEF NewSession
  <2>3. WritesAwaited'
    BY <1>1, <2>1, <2>2, AwaitedStays DEF HonestInv
  <2> QED BY <1>2, <2>2, <2>3 DEF HonestInv, Covered
<1>6. CASE SaveRead
  <2>1. CASE DeleteAllPieces("save", meta) /\ saver' = "deleting"
    <3>1. UNCHANGED session
      BY <1>6 DEF SaveRead
    <3>2. WritesAwaited'
      BY <1>1, <2>1, <3>1, DeleteKeepsAwaited DEF HonestInv
    <3> QED BY <1>1, <1>2, <2>1, <3>1, <3>2 DEF HonestInv
  <2>2. CASE UNCHANGED pieceOps
    <3>1. UNCHANGED <<disk, session, clearer>> /\ saver = "reading"
      BY <1>6 DEF SaveRead
    <3>2. WritesAwaited'
      BY <1>1, <2>2, <3>1, AwaitedStays DEF HonestInv
    <3> QED BY <1>1, <1>2, <3>1, <3>2 DEF HonestInv, Covered
  <2> QED BY <1>6, <2>1, <2>2 DEF SaveRead
<1>7. CASE SaveDeleted
  <2>1. /\ pieceOps # <<>> /\ Head(pieceOps).by = "save" /\ pieceOps' = Tail(pieceOps)
        /\ session' = [session EXCEPT !.bits = {}]
    BY <1>7 DEF SaveDeleted, RunPieceOp
  <2>2. session' # None /\ session'.torrent = session.torrent /\ session'.bits = {}
    <3>1. session' \in Sessions
      BY <1>1, <2>1, SessionParts
    <3> QED BY <1>1, <2>1, <3>1, SessionParts, StoreAssumption
  <2>3. WritesAwaited'
    BY <1>1, <2>1, <2>2, TakeKeepsAwaited DEF HonestInv
  <2> QED BY <1>2, <2>2, <2>3 DEF HonestInv, Covered
<1> QED BY <1>3, <1>4, <1>5, <1>6, <1>7

\* What leaves the pieces and the bitfield alone.
LEMMA OthersAreHonest ==
  ASSUME TypeInv, HonestInv, ~Disturbed,
         \/ AnnounceFails \/ AnnounceReply \/ AnnounceSaved \/ CoolingEnds
         \/ Running \/ Stop \/ Save \/ SaveSaved \/ UNCHANGED vars
         \/ \E g \in Starts : Start(g)
  PROVE  HonestInv'
<1>1. UNCHANGED <<disk, pieceOps, meta, loader, clearer, frame>>
      /\ (saver # "deleting" <=> saver' # "deleting")
  BY DEF AnnounceFails, AnnounceReply, AnnounceSaved, AnnounceOver, CoolingEnds, Running, Launch,
         PoolEnds, Stop, Save, SaveSaved, vars, Start, RunSessionOp, storeVars, pageVars,
         userVars, workerVars, roundVars
<1>2. \A v \in Workers : pc[v] = "storing" => pc'[v] = "storing"
  BY DEF AnnounceFails, AnnounceReply, AnnounceSaved, AnnounceOver, CoolingEnds, Running, Launch,
         Spawns, PoolEnds, Stop, Save, SaveSaved, vars, Start, workerVars
<1>3. CASE AnnounceReply
  <2>1. session \in Sessions /\ session # None
    BY <1>3, OthersHaveASession DEF TypeInv, PageTypes
  <2>2. PICK new \in SUBSET Addresses :
          \E P \in Merges(session.peers, new) : session' = [session EXCEPT !.peers = P]
    BY <1>3 DEF AnnounceReply
  <2>3. PICK P \in SUBSET Addresses : session' = [session EXCEPT !.peers = P]
    <3>1. session.peers \subseteq Addresses
      BY <2>1 DEF Sessions
    <3> QED BY <2>2, <3>1, MergesTypes
  <2>4. session' # None /\ session'.torrent = session.torrent /\ session'.bits = session.bits
    <3>1. session' \in Sessions
      BY <2>1, <2>3, SessionParts
    <3> QED BY <2>1, <2>3, <3>1, SessionParts, StoreAssumption
  <2>5. UNCHANGED <<startEnabled, starter, records>>
    BY <1>3 DEF AnnounceReply
  <2>6. WritesAwaited'
    BY <1>1, <1>2, <2>4, AwaitedStays DEF HonestInv
  <2> QED BY <1>1, <2>1, <2>4, <2>5, <2>6 DEF HonestInv, LoadedOnce, Covered
<1>4. CASE ~AnnounceReply
  <2>1. UNCHANGED session
    BY <1>4 DEF AnnounceFails, AnnounceSaved, AnnounceOver, CoolingEnds, Running, Launch,
                PoolEnds, Stop, Save, SaveSaved, vars, Start, pageVars
  <2>2. WritesAwaited'
    BY <1>1, <1>2, <2>1, AwaitedStays DEF HonestInv
  <2>3. session = None => UNCHANGED records
    BY OthersHaveASession
    DEF TypeInv, CoolingEnds, Stop, vars, storeVars
  <2>4. CASE Running
    <3>1. PICK g \in Starts : Launch(g) \/ PoolEnds(g)
      BY <2>4 DEF Running
    <3>2. startEnabled' \/ starter'[g] # "off"
      BY <3>1 DEF Launch, PoolEnds, TypeInv, PoolTypes
    <3> QED BY <1>1, <2>1, <2>2, <2>3, <3>2 DEF HonestInv, LoadedOnce, Covered
  <2>5. CASE \E g \in Starts : Start(g)
    <3>1. PICK g \in Starts : starter' = [starter EXCEPT ![g] = AfterEnsure]
      BY <2>5 DEF Start
    <3>2. starter'[g] # "off"
      BY <3>1 DEF AfterEnsure, TypeInv, PoolTypes
    <3> QED BY <1>1, <2>1, <2>2, <2>3, <3>2 DEF HonestInv, LoadedOnce, Covered
  <2>6. CASE ~Running /\ ~(\E g \in Starts : Start(g))
    <3>1. /\ UNCHANGED startEnabled
          /\ \A g \in Starts : starter[g] # "off" => starter'[g] # "off"
      BY <1>4, <2>6 DEF AnnounceFails, AnnounceSaved, AnnounceOver, CoolingEnds, Stop, Save,
                        SaveSaved, vars, pageVars
    <3> QED BY <1>1, <2>1, <2>2, <2>3, <3>1 DEF HonestInv, LoadedOnce, Covered
  <2> QED BY <2>4, <2>5, <2>6
<1> QED BY <1>3, <1>4

\* The invariant is inductive.
LEMMA HonestInduction ==
  Spec => [](~Disturbed => HonestInv)
<1>1. Init => HonestInv
  BY DEF Init, Fresh, StoreInit, HonestInv, LoadedOnce, WritesAwaited
<1>2. (~Disturbed => HonestInv) /\ (~Overlaps => TypeInv) /\ [Next]_vars
        => (~Disturbed => HonestInv)'
  <2> SUFFICES ASSUME ~Disturbed, HonestInv, TypeInv, [Next]_vars PROVE HonestInv'
    BY WorldStays DEF Disturbed, Overlaps, Switches
  <2>1. CASE \E w \in Workers : Worker(w) \/ Round(w)
    BY <2>1, WorkerIsHonest
  <2>2. CASE LoadRead \/ LoadSaved \/ \E t \in Torrents : Load(t)
    BY <2>2, LoadIsHonest
  <2>3. CASE Clear \/ ClearedPieces \/ ClearedSession \/ SaveRead \/ SaveDeleted
    BY <2>3, FreeingIsHonest
  <2>4. CASE \/ AnnounceFails \/ AnnounceReply \/ AnnounceSaved \/ CoolingEnds
             \/ Running \/ Stop \/ Save \/ SaveSaved \/ UNCHANGED vars
             \/ \E g \in Starts : Start(g)
    BY <2>4, OthersAreHonest
  <2>5. ~(AnnounceRefused \/ LoadRefused \/ Reload)
    BY DEF Disturbed, AnnounceRefused, LoadRefused, Reload
  <2> QED BY <2>1, <2>2, <2>3, <2>4, <2>5 DEF Next, Announcing, UserOps, User
<1> QED BY <1>1, <1>2, TypeInduction, PTL DEF Spec

\* Every piece that the bitfield in memory says is stored is stored, at any
\* time, however rounds, announces, purges, saves and failures of the store
\* overlap.  Freed pieces and a page that dies, or a store that is full, are left
\* to their hazard: a record may then be read that claims freed pieces
\* (app.js:656-660).
THEOREM TheBitfieldIsHonest ==
  Spec => []((Frees => {"crash", "quota"} \cap events = {}) => BitsAreStored)
<1>1. (~Switches /\ ~Frees => StoreInv) /\ (~Disturbed => HonestInv)
        => ((Frees => {"crash", "quota"} \cap events = {}) => BitsAreStored)
  BY DEF StoreInv, HonestInv, Disturbed, BitsAreStored, Covered
<1> QED BY <1>1, StoreInduction, HonestInduction, PTL

\* So is every piece of a stored record, which is what a page finds that is
\* opened after a crash at any time.
THEOREM RecordsAreHonest == Spec => []ClaimsExist
<1>1. (~Switches /\ ~Frees => StoreInv) => ClaimsExist
  BY DEF StoreInv, RecordsCovered, ClaimsExist, Covered
<1> QED BY <1>1, StoreInduction, PTL

-----------------------------------------------------------------------------
(* No save takes progress back, unless pieces are freed or a torrent is    *)
(* loaded over another.                                                    *)

\* Client c waits for a call on the sessions that puts, or gets, one.
Waiting(c, op) ==
  \/ c \in Workers /\ op = "put" /\ pc[c] \in {"saving", "refreshing"}
  \/ c = "announce" /\ op = "put" /\ announcing = "saving"
  \/ c = "load" /\ op = "put" /\ loader = "saving"
  \/ c = "load" /\ op = "get" /\ loader = "reading"

\* A queued call on the sessions is the one its caller waits for.
CallAwaited(o) == Waiting(o.by, o.op)
CallsAwaited ==
  /\ \A n \in 1 .. Len(sessionOps) : CallAwaited(sessionOps[n])
  /\ \A m, n \in 1 .. Len(sessionOps) : sessionOps[m].by = sessionOps[n].by => m = n

\* Bits B of the current torrent take nothing of its record back.
Ahead(B) == records[session.torrent] # None => records[session.torrent].bits \subseteq B

\* A queued save is of the current torrent, between its record and the session.
Between(o) ==
  o.op = "put" => /\ o.session.torrent = session.torrent
                  /\ o.session.bits \subseteq session.bits
                  /\ Ahead(o.session.bits)

\* Saves are queued in the order of their bitfields.
SavesRise ==
  /\ \A n \in 1 .. Len(sessionOps) : Between(sessionOps[n])
  /\ \A m, n \in 1 .. Len(sessionOps) :
       m < n /\ sessionOps[m].op = "put" /\ sessionOps[n].op = "put"
         => sessionOps[m].session.bits \subseteq sessionOps[n].session.bits
  /\ session # None => Ahead(session.bits)

RiseInv == CallsAwaited /\ SavesRise

\* A step takes no progress back.
Grows ==
  \A t \in Torrents : records[t] # None =>
    records'[t] # None /\ records[t].bits \subseteq records'[t].bits

\* The queue stays, and the session only gains bits.
LEMMA RisingStays ==
  ASSUME RiseInv, UNCHANGED <<records, sessionOps>>,
         \A c, op : Waiting(c, op) => Waiting(c, op)',
         \/ session' = session
         \/ /\ session # None /\ session'.torrent = session.torrent
            /\ session.bits \subseteq session'.bits
  PROVE  RiseInv' /\ Grows
<1>1. ASSUME NEW n \in 1 .. Len(sessionOps) PROVE CallAwaited(sessionOps[n])'
  <2>1. PICK c, op : c = sessionOps[n].by /\ op = sessionOps[n].op
    OBVIOUS
  <2>2. Waiting(c, op)'
    BY <2>1 DEF RiseInv, CallsAwaited, CallAwaited
  <2> QED BY <2>1, <2>2 DEF CallAwaited, Waiting
<1>2. ASSUME NEW n \in 1 .. Len(sessionOps) PROVE Between(sessionOps[n])'
  BY DEF RiseInv, SavesRise, Between, Ahead
<1>3. session' # None => Ahead(session.bits)'
  BY DEF RiseInv, SavesRise, Ahead
<1>4. CallsAwaited'
  BY <1>1 DEF RiseInv, CallsAwaited
<1>5. SavesRise'
  BY <1>2, <1>3 DEF RiseInv, SavesRise
<1> QED BY <1>4, <1>5 DEF RiseInv, Grows

\* The session is queued to be saved by someone who waits for nothing.
LEMMA QueuedSaveRises ==
  ASSUME TypeInv, RiseInv, NEW c \in Clients, NEW s \in Sessions, PutSession(c, s),
         UNCHANGED records, session' = s, session # None,
         s.torrent = session.torrent, s.bits = session.bits,
         \A op : ~Waiting(c, op), Waiting(c, "put")',
         \A d, op : d # c /\ Waiting(d, op) => Waiting(d, op)'
  PROVE  RiseInv' /\ Grows
<1>0. PICK o : o = Put(c, s)
  OBVIOUS
<1>1. o.by = c /\ o.op = "put" /\ o.session = s /\ sessionOps' = Append(sessionOps, o)
      /\ o \in SessionOps
  BY <1>0 DEF Put, PutSession, SessionOps
<1>2. /\ Len(sessionOps) \in Nat /\ Len(sessionOps') = Len(sessionOps) + 1
      /\ sessionOps'[Len(sessionOps) + 1] = o
      /\ \A n \in 1 .. Len(sessionOps) : sessionOps'[n] = sessionOps[n]
  BY <1>1 DEF TypeInv, StoreTypes
<1>3. ASSUME NEW n \in 1 .. Len(sessionOps)
      PROVE  sessionOps[n].by # c /\ CallAwaited(sessionOps[n])'
  <2>1. PICK d, op : d = sessionOps[n].by /\ op = sessionOps[n].op
    OBVIOUS
  <2>2. Waiting(d, op)
    BY <2>1 DEF RiseInv, CallsAwaited, CallAwaited
  <2>3. d # c /\ Waiting(d, op)'
    BY <2>2
  <2> QED BY <1>2, <2>1, <2>3 DEF CallAwaited, Waiting
<1>4. ASSUME NEW n \in 1 .. Len(sessionOps') PROVE CallAwaited(sessionOps[n])'
  <2>1. CASE n \in 1 .. Len(sessionOps)
    BY <1>3, <2>1
  <2>2. CASE n = Len(sessionOps) + 1
    <3>1. sessionOps'[n].by = c /\ sessionOps'[n].op = "put"
      BY <1>1, <1>2, <2>2
    <3> QED BY <3>1 DEF CallAwaited, Waiting
  <2> QED BY <1>2, <2>1, <2>2
<1>5. ASSUME NEW m \in 1 .. Len(sessionOps'), NEW n \in 1 .. Len(sessionOps'),
             sessionOps'[m].by = sessionOps'[n].by
      PROVE  m = n
  <2>1. CASE m \in 1 .. Len(sessionOps) /\ n \in 1 .. Len(sessionOps)
    <3>1. sessionOps[m].by = sessionOps[n].by
      BY <1>2, <1>5, <2>1
    <3> QED BY <2>1, <3>1 DEF RiseInv, CallsAwaited
  <2>2. CASE m = Len(sessionOps) + 1 /\ n = Len(sessionOps) + 1
    BY <2>2
  <2>3. CASE m \in 1 .. Len(sessionOps) /\ n = Len(sessionOps) + 1
    <3>1. sessionOps'[m].by # c /\ sessionOps'[n].by = c
      BY <1>1, <1>2, <1>3, <2>3
    <3> QED BY <1>5, <3>1
  <2>4. CASE m = Len(sessionOps) + 1 /\ n \in 1 .. Len(sessionOps)
    <3>1. sessionOps'[n].by # c /\ sessionOps'[m].by = c
      BY <1>1, <1>2, <1>3, <2>4
    <3> QED BY <1>5, <3>1
  <2> QED BY <1>2, <2>1, <2>2, <2>3, <2>4
<1>6. ASSUME NEW n \in 1 .. Len(sessionOps') PROVE Between(sessionOps[n])'
  <2>1. CASE n \in 1 .. Len(sessionOps)
    <3>1. sessionOps'[n] = sessionOps[n] /\ Between(sessionOps[n])
      BY <1>2, <2>1 DEF RiseInv, SavesRise
    <3> QED BY <3>1 DEF Between, Ahead
  <2>2. CASE n = Len(sessionOps) + 1
    <3>1. sessionOps'[n] = o
      BY <1>2, <2>2
    <3>2. Ahead(session.bits)
      BY DEF RiseInv, SavesRise
    <3> QED BY <1>1, <3>1, <3>2 DEF Between, Ahead
  <2> QED BY <1>2, <2>1, <2>2
<1>7. ASSUME NEW m \in 1 .. Len(sessionOps'), NEW n \in 1 .. Len(sessionOps'), m < n,
             sessionOps'[m].op = "put", sessionOps'[n].op = "put"
      PROVE  sessionOps'[m].session.bits \subseteq sessionOps'[n].session.bits
  <2>1. m \in 1 .. Len(sessionOps) /\ sessionOps'[m] = sessionOps[m]
    BY <1>2, <1>7
  <2>2. CASE n \in 1 .. Len(sessionOps)
    <3>1. sessionOps'[n] = sessionOps[n]
      BY <1>2, <2>2
    <3> QED BY <1>7, <2>1, <2>2, <3>1 DEF RiseInv, SavesRise
  <2>3. CASE n = Len(sessionOps) + 1
    <3>1. sessionOps'[n].session = s
      BY <1>1, <1>2, <2>3
    <3>2. Between(sessionOps[m])
      BY <2>1 DEF RiseInv, SavesRise
    <3> QED BY <1>7, <2>1, <3>1, <3>2 DEF Between
  <2> QED BY <1>2, <2>2, <2>3
<1>8. Ahead(session.bits)'
  BY DEF RiseInv, SavesRise, Ahead
<1>9. CallsAwaited'
  BY <1>4, <1>5 DEF CallsAwaited
<1>10. SavesRise'
  BY <1>6, <1>7, <1>8 DEF SavesRise
<1> QED BY <1>9, <1>10 DEF RiseInv, Grows

\* The head of the queue takes effect, or is refused, and its caller goes on.
LEMMA TakenSaveRises ==
  ASSUME TypeInv, RiseInv, NEW c, NEW more, more = <<>>,
         RunSessionOp(c, more) \/ RefuseSessionOp(c), UNCHANGED session,
         \A d, op : d # c /\ Waiting(d, op) => Waiting(d, op)'
  PROVE  RiseInv' /\ Grows
<1>1. sessionOps \in Seq(SessionOps) /\ sessionOps # <<>> /\ Head(sessionOps).by = c
      /\ sessionOps' = Tail(sessionOps)
  BY DEF TypeInv, StoreTypes, RunSessionOp, RefuseSessionOp
<1>2. /\ Head(sessionOps) = sessionOps[1] /\ Len(sessionOps) \in Nat /\ Len(sessionOps) >= 1
      /\ Len(sessionOps') = Len(sessionOps) - 1
      /\ \A n \in 1 .. Len(sessionOps') : sessionOps'[n] = sessionOps[n + 1]
  BY <1>1
<1>3. PICK o : o = sessionOps[1]
  OBVIOUS
<1>4. o \in SessionOps /\ Between(o) /\ o.by = c /\ o = Head(sessionOps)
      /\ o.op \in {"put", "get"}
  <2>1. Between(sessionOps[1]) /\ CallAwaited(sessionOps[1])
    BY <1>2 DEF RiseInv, SavesRise, CallsAwaited
  <2> QED BY <1>1, <1>2, <1>3, <2>1 DEF CallAwaited, Waiting
<1>5. \/ UNCHANGED records
      \/ /\ o.op = "put" /\ o.session \in Sessions /\ o.session # None
         /\ session.torrent \in Torrents
         /\ records' = [records EXCEPT ![session.torrent] = o.session]
  <2>1. CASE RefuseSessionOp(c) \/ o.op # "put"
    BY <1>4, <2>1 DEF RunSessionOp, RefuseSessionOp
  <2>2. CASE RunSessionOp(c, more) /\ o.op = "put"
    <3>1. o.session \in Sessions /\ o.session.torrent = session.torrent
      BY <1>4, <2>2 DEF Between, SessionOps
    <3>2. records' = [records EXCEPT ![o.session.torrent] = o.session]
      BY <1>4, <2>2 DEF RunSessionOp
    <3>3. o.session # None /\ o.session.torrent \in Torrents
      BY <3>1, StoreAssumption DEF Sessions
    <3> QED BY <2>2, <3>1, <3>2, <3>3
  <2> QED BY <2>1, <2>2
<1>6. \A B : (\/ UNCHANGED records /\ Ahead(B)
              \/ records' = [records EXCEPT ![session.torrent] = o.session]
                 /\ session.torrent \in Torrents /\ o.session.bits \subseteq B)
             => Ahead(B)'
  BY DEF Ahead, TypeInv, StoreTypes
<1>7. ASSUME NEW n \in 1 .. Len(sessionOps')
      PROVE  /\ CallAwaited(sessionOps[n])'
             /\ Between(sessionOps[n])'
  <2>1. n + 1 \in 1 .. Len(sessionOps) /\ sessionOps'[n] = sessionOps[n + 1] /\ n + 1 # 1
        /\ 1 \in 1 .. Len(sessionOps) /\ 1 < n + 1
    BY <1>2
  <2>2. PICK e, d, op : e = sessionOps[n + 1] /\ d = e.by /\ op = e.op
    OBVIOUS
  <2>3. Waiting(d, op) /\ d # c
    <3>1. CallAwaited(sessionOps[n + 1])
      BY <2>1 DEF RiseInv, CallsAwaited
    <3>2. sessionOps[n + 1].by # sessionOps[1].by
      BY <2>1 DEF RiseInv, CallsAwaited
    <3> QED BY <1>3, <1>4, <2>2, <3>1, <3>2 DEF CallAwaited
  <2>4. Waiting(d, op)'
    BY <2>3
  <2>5. CallAwaited(sessionOps[n])'
    BY <2>1, <2>2, <2>4 DEF CallAwaited, Waiting
  <2>6. Between(e)
    BY <2>1, <2>2 DEF RiseInv, SavesRise
  <2>7. o.op = "put" /\ e.op = "put" => o.session.bits \subseteq e.session.bits
    BY <1>3, <2>1, <2>2 DEF RiseInv, SavesRise
  <2>8. e.op = "put" => Ahead(e.session.bits)'
    BY <1>5, <1>6, <2>6, <2>7 DEF Between
  <2>9. sessionOps'[n] = e
    BY <2>1, <2>2
  <2>10. Between(sessionOps[n])'
    BY <2>6, <2>8, <2>9 DEF Between, Ahead
  <2> QED BY <2>5, <2>10
<1>8. ASSUME NEW m \in 1 .. Len(sessionOps'), NEW n \in 1 .. Len(sessionOps')
      PROVE  /\ sessionOps'[m].by = sessionOps'[n].by => m = n
             /\ m < n /\ sessionOps'[m].op = "put" /\ sessionOps'[n].op = "put"
                  => sessionOps'[m].session.bits \subseteq sessionOps'[n].session.bits
  <2>1. m + 1 \in 1 .. Len(sessionOps) /\ n + 1 \in 1 .. Len(sessionOps)
        /\ sessionOps'[m] = sessionOps[m + 1] /\ sessionOps'[n] = sessionOps[n + 1]
    BY <1>2
  <2>2. sessionOps'[m].by = sessionOps'[n].by => m + 1 = n + 1
    BY <2>1 DEF RiseInv, CallsAwaited
  <2>3. m + 1 < n + 1 /\ sessionOps'[m].op = "put" /\ sessionOps'[n].op = "put"
          => sessionOps'[m].session.bits \subseteq sessionOps'[n].session.bits
    BY <2>1 DEF RiseInv, SavesRise
  <2> QED BY <2>2, <2>3
<1>9. session' # None => Ahead(session.bits)'
  <2>1. o.op = "put" => o.session.bits \subseteq session.bits
    BY <1>4 DEF Between
  <2>2. session # None => Ahead(session.bits)
    BY DEF RiseInv, SavesRise
  <2>3. session # None => \E B : B = session.bits /\ Ahead(B)'
    BY <1>5, <1>6, <2>1, <2>2
  <2> QED BY <2>3 DEF Ahead
<1>10. CallsAwaited' /\ SavesRise'
  BY <1>7, <1>8, <1>9 DEF CallsAwaited, SavesRise
<1>11. Grows
  <2>1. CASE UNCHANGED records
    BY <2>1 DEF Grows
  <2>2. CASE /\ o.op = "put" /\ o.session \in Sessions /\ o.session # None
             /\ session.torrent \in Torrents
             /\ records' = [records EXCEPT ![session.torrent] = o.session]
    <3>1. Ahead(o.session.bits)
      BY <1>4, <2>2 DEF Between
    <3>2. \A t \in Torrents : records'[t] = IF t = session.torrent THEN o.session ELSE records[t]
      BY <2>2 DEF TypeInv, StoreTypes
    <3> QED BY <2>2, <3>1, <3>2 DEF Grows, Ahead
  <2> QED BY <1>5, <2>1, <2>2
<1> QED BY <1>10, <1>11 DEF RiseInv

\* Who waits goes on waiting, c excepted.
LEMMA OthersWait ==
  ASSUME NEW c,
         \A v \in Workers : v # c /\ pc[v] \in {"saving", "refreshing"} => pc'[v] = pc[v],
         c # "announce" /\ announcing = "saving" => announcing' = "saving",
         c # "load" => loader' = loader
  PROVE  \A d, op : d # c /\ Waiting(d, op) => Waiting(d, op)'
BY PoolAssumption DEF Waiting

\* A turn that ends disturbs nobody else.
LEMMA BoundaryWaits ==
  ASSUME NEW w \in Workers, NEW i, NEW s, Boundary(w, i, s)
  PROVE  /\ \A v \in Workers : v # w /\ pc[v] # "off" => pc'[v] = pc[v]
         /\ announcing = "saving" => announcing' = "saving"
<1>1. PICK t \in Rescaled : \E new \in IF t > target THEN Spawns(t) ELSE {{}} :
        LET stays == Stays(active + Cardinality(new), t) IN
        /\ pc' = [v \in Workers |->
                    IF v \in new \/ (v = w /\ stays) THEN AfterEnsure
                    ELSE IF v = w THEN "off" ELSE pc[v]]
        /\ IF stays \/ new # {} THEN Ensure ELSE UNCHANGED peerVars
  BY DEF Boundary
<1>2. PICK new \in IF t > target THEN Spawns(t) ELSE {{}} :
        LET stays == Stays(active + Cardinality(new), t) IN
        /\ pc' = [v \in Workers |->
                    IF v \in new \/ (v = w /\ stays) THEN AfterEnsure
                    ELSE IF v = w THEN "off" ELSE pc[v]]
        /\ IF stays \/ new # {} THEN Ensure ELSE UNCHANGED peerVars
  BY <1>1
<1>3. \A v \in new : pc[v] = "off"
  BY DEF Spawns
<1>4. \A v \in Workers : v # w /\ pc[v] # "off" => pc'[v] = pc[v]
  BY <1>2, <1>3
<1>5. announcing = "saving" => announcing' = "saving"
  BY <1>2 DEF Ensure, peerVars
<1> QED BY <1>4, <1>5

\* A worker's step.
LEMMA WorkerRises ==
  ASSUME TypeInv, StoreInv, RiseInv, ~Switches, NEW w \in Workers, Worker(w) \/ Round(w)
  PROVE  RiseInv' /\ Grows
<1>1. /\ session \in Sessions /\ session # None /\ loader = "off" /\ w \in Clients
      /\ pc \in [Workers -> {"off", "announcing", "announced", "round", "hashing",
                             "storing", "saving", "backoff", "refreshing"}]
      /\ frame \in [Workers -> Frames]
      /\ "announce" # w /\ "load" # w
  <2>1. w \in Alive
    BY DEF Worker, Round, Alive, Request, HashDone, PieceStored, Saved, BackoffEnds,
           Refreshed, PieceRefused, SaveRefused, FrameArrives, RoundFails, RoundEnds
  <2>2. session # None /\ loader = "off"
    BY <2>1 DEF TypeInv, Present, PoolInv, Gates, Quiet
  <2> QED BY <2>2, PoolAssumption DEF TypeInv, PageTypes, RoundTypes, PoolInv, Shape, Clients
<1>2. UNCHANGED userVars
  BY DEF Worker, Round, Request, HashDone, PieceStored, Saved, BackoffEnds, Refreshed,
         PieceRefused, SaveRefused, FrameArrives, RoundFails, RoundEnds, RoundError
<1>3. ASSUME \A v \in Workers : v # w /\ pc[v] \in {"saving", "refreshing"} => pc'[v] = pc[v],
             announcing = "saving" => announcing' = "saving"
      PROVE  \A d, op : d # w /\ Waiting(d, op) => Waiting(d, op)'
  BY <1>2, <1>3, OthersWait DEF userVars
<1>4. ASSUME pc[w] \notin {"saving", "refreshing"} PROVE \A op : ~Waiting(w, op)
  BY <1>1, <1>4 DEF Waiting
<1>5. ASSUME pc[w] \notin {"saving", "refreshing"}, UNCHANGED <<records, sessionOps>>,
             \A v \in Workers : v # w /\ pc[v] \in {"saving", "refreshing"} => pc'[v] = pc[v],
             announcing = "saving" => announcing' = "saving",
             \/ session' = session
             \/ session'.torrent = session.torrent /\ session.bits \subseteq session'.bits
      PROVE  RiseInv' /\ Grows
  <2>1. \A d, op : Waiting(d, op) => Waiting(d, op)'
    BY <1>3, <1>4, <1>5
  <2> QED BY <1>1, <1>5, <2>1, RisingStays
<1>6. ASSUME NEW P \in SUBSET Addresses, pc[w] \notin {"saving", "refreshing"},
             NEW k \in {"saving", "refreshing"},
             Goes(w, k), UNCHANGED <<records, announcing>>,
             session' = [session EXCEPT !.peers = P],
             PutSession(w, [session EXCEPT !.peers = P])
      PROVE  RiseInv' /\ Grows
  <2> DEFINE s == [session EXCEPT !.peers = P]
  <2>1. s \in Sessions /\ s.torrent = session.torrent /\ s.bits = session.bits
    BY <1>1, SessionParts
  <2>2. session' = s /\ PutSession(w, s)
    BY <1>6
  <2> HIDE DEF s
  <2>3. \A v \in Workers : v # w => pc'[v] = pc[v]
    BY <1>1, <1>6 DEF Goes
  <2>4. Waiting(w, "put")'
    BY <1>1, <1>6 DEF Goes, Waiting
  <2>5. \A d, op : d # w /\ Waiting(d, op) => Waiting(d, op)'
    BY <1>3, <1>6, <2>3
  <2> QED BY <1>1, <1>4, <1>6, <2>1, <2>2, <2>4, <2>5, QueuedSaveRises
<1>7. CASE PieceStored(w)
  <2> DEFINE s == [session EXCEPT !.bits = session.bits \cup {frame[w].index}]
  <2>1. /\ UNCHANGED <<records, sessionOps, announcing>> /\ session' = s /\ pc[w] = "storing"
        /\ \A v \in Workers \ {w} : pc'[v] = pc[v]
    BY <1>1, <1>7 DEF PieceStored, RunPieceOp, Goes, peerVars
  <2>2. s.torrent = session.torrent /\ s.bits = session.bits \cup {frame[w].index}
    <3>1. session.bits \cup {frame[w].index} \in SUBSET Pieces
      BY <1>1 DEF Sessions, Frames
    <3> QED BY <1>1, <3>1, SessionParts
  <2> HIDE DEF s
  <2> QED BY <1>5, <2>1, <2>2
<1>8. CASE RoundEnds(w)
  <2>1. PICK verdict \in Prunes(w) \cup
               (IF "errors" \in events
                THEN {[wipeout |-> wipeout, peers |-> session.peers]} ELSE {}),
             pex \in SUBSET Addresses :
          \E peers \in Merges(verdict.peers, pex) :
            /\ session' = [session EXCEPT !.peers = peers]
            /\ PutSession(w, [session EXCEPT !.peers = peers])
    BY <1>8 DEF RoundEnds
  <2>2. verdict.peers \subseteq Addresses
    BY <1>1, <2>1, VerdictTypes DEF Sessions
  <2>3. Merges(verdict.peers, pex) \subseteq SUBSET Addresses
    BY <2>2, MergesTypes
  <2>4. pc[w] = "round" /\ Goes(w, "saving") /\ UNCHANGED <<records, announcing>>
    BY <1>8 DEF RoundEnds, peerVars
  <2> QED BY <1>6, <2>1, <2>3, <2>4
<1>9. CASE BackoffEnds(w)
  <2>1. pc[w] = "backoff" /\ UNCHANGED records
    BY <1>9 DEF BackoffEnds
  <2>2. CASE /\ session' = [session EXCEPT !.peers = {}]
             /\ PutSession(w, [session EXCEPT !.peers = {}])
             /\ Goes(w, "refreshing") /\ UNCHANGED peerVars
    BY <1>6, <2>1, <2>2 DEF peerVars
  <2>3. CASE Boundary(w, idle[w], size[w]) /\ UNCHANGED <<sessionOps, session>>
    BY <1>5, <2>1, <2>3, BoundaryWaits
  <2> QED BY <1>9, <2>2, <2>3 DEF BackoffEnds
<1>10. CASE Saved(w) \/ Refreshed(w) \/ SaveRefused(w)
  <2>1. PICK more : more = <<>>
    OBVIOUS
  <2>2. RunSessionOp(w, more) \/ RefuseSessionOp(w)
    BY <1>10, <2>1 DEF Saved, Refreshed, SaveRefused
  <2>3. UNCHANGED session
    BY <1>10 DEF Saved, Refreshed, SaveRefused, pageVars
  <2>4. /\ \A v \in Workers : v # w /\ pc[v] \in {"saving", "refreshing"} => pc'[v] = pc[v]
        /\ announcing = "saving" => announcing' = "saving"
    <3>1. CASE \E i, s : Boundary(w, i, s)
      BY <3>1, BoundaryWaits
    <3>2. CASE (\E k \in {"backoff", "off"} : Goes(w, k)) /\ UNCHANGED peerVars
      BY <1>1, <3>2 DEF Goes, peerVars
    <3> QED BY <1>10, <3>1, <3>2 DEF Saved, Refreshed, SaveRefused, Exit
  <2> QED BY <1>3, <2>1, <2>2, <2>3, <2>4, TakenSaveRises
<1>11. CASE Request(w) \/ HashDone(w) \/ PieceRefused(w) \/ RoundFails(w)
            \/ \E i \in Pieces, bytes \in {"good", "bad"} : FrameArrives(w, i, bytes)
  <2>1. /\ UNCHANGED <<records, sessionOps, session, announcing>>
        /\ pc[w] \notin {"saving", "refreshing"}
    BY <1>11 DEF Request, HashDone, PieceRefused, RefusePieceOp, RoundFails, RoundError,
                 FrameArrives, storeVars, pageVars, peerVars
  <2>2. \A v \in Workers \ {w} : pc'[v] = pc[v]
    BY <1>1, <1>11 DEF Request, Exit, HashDone, PieceRefused, RoundFails, RoundError,
                       FrameArrives, Goes
  <2> QED BY <1>5, <2>1, <2>2
<1> QED BY <1>7, <1>8, <1>9, <1>10, <1>11 DEF Worker, Round

\* The steps of the announce.
LEMMA AnnounceRises ==
  ASSUME TypeInv, RiseInv, Announcing
  PROVE  RiseInv' /\ Grows
<1>1. UNCHANGED loader /\ "announce" \in Clients
  BY DEF Announcing, AnnounceReply, AnnounceFails, AnnounceSaved, AnnounceRefused, CoolingEnds,
         AnnounceOver, userVars, Clients
<1>2. \A v \in Workers : pc[v] \in {"saving", "refreshing"} => pc'[v] = pc[v]
  BY DEF Announcing, AnnounceReply, AnnounceFails, AnnounceSaved, AnnounceRefused, CoolingEnds,
         AnnounceOver, workerVars
<1>3. \A d, op : d # "announce" /\ Waiting(d, op) => Waiting(d, op)'
  BY <1>1, <1>2, OthersWait
<1>4. CASE AnnounceReply
  <2>1. session \in Sessions /\ session # None
    BY <1>4, OthersHaveASession DEF TypeInv, PageTypes
  <2>2. PICK new \in SUBSET Addresses :
          \E peers \in Merges(session.peers, new) :
            /\ session' = [session EXCEPT !.peers = peers]
            /\ PutSession("announce", [session EXCEPT !.peers = peers])
    BY <1>4 DEF AnnounceReply
  <2>3. PICK P \in SUBSET Addresses :
          /\ session' = [session EXCEPT !.peers = P]
          /\ PutSession("announce", [session EXCEPT !.peers = P])
    <3>1. session.peers \subseteq Addresses
      BY <2>1 DEF Sessions
    <3> QED BY <2>2, <3>1, MergesTypes
  <2>4. UNCHANGED records /\ announcing = "asking" /\ announcing' = "saving"
    BY <1>4 DEF AnnounceReply
  <2> DEFINE s == [session EXCEPT !.peers = P]
  <2>5. s \in Sessions /\ s.torrent = session.torrent /\ s.bits = session.bits
    BY <2>1, SessionParts
  <2>6. session' = s /\ PutSession("announce", s)
    BY <2>3
  <2> HIDE DEF s
  <2>7. (\A op : ~Waiting("announce", op)) /\ Waiting("announce", "put")'
    BY <2>4, PoolAssumption DEF Waiting
  <2> QED BY <1>1, <1>3, <2>1, <2>4, <2>5, <2>6, <2>7, QueuedSaveRises
<1>5. CASE AnnounceSaved \/ AnnounceRefused
  <2>1. PICK more : more = <<>>
    OBVIOUS
  <2>2. (RunSessionOp("announce", more) \/ RefuseSessionOp("announce")) /\ UNCHANGED session
    BY <1>5, <2>1 DEF AnnounceSaved, AnnounceRefused, AnnounceOver, pageVars
  <2> QED BY <1>3, <2>1, <2>2, TakenSaveRises
<1>6. CASE AnnounceFails \/ CoolingEnds
  <2>1. UNCHANGED <<records, sessionOps, session>> /\ (announcing = "saving" => announcing' = "saving")
    BY <1>6 DEF AnnounceFails, CoolingEnds, AnnounceOver, storeVars, pageVars
  <2>2. \A d, op : Waiting(d, op) => Waiting(d, op)'
    BY <1>3, <2>1, PoolAssumption DEF Waiting
  <2> QED BY <2>1, <2>2, RisingStays
<1> QED BY <1>4, <1>5, <1>6 DEF Announcing

\* With nothing running nothing is queued, but what the load waits for.
LEMMA QuietQueue ==
  ASSUME TypeInv, RiseInv, AnnounceIsAwaited, Quiet
  PROVE  /\ Len(sessionOps) <= 1
         /\ loader = "off" => sessionOps = <<>>
         /\ loader = "reading" =>
              \A n \in 1 .. Len(sessionOps) : sessionOps[n].op = "get"
<1>1. Len(sessionOps) \in Nat /\ sessionOps \in Seq(SessionOps)
  BY DEF TypeInv, StoreTypes
<1>2. announcing = "no"
  BY DEF AnnounceIsAwaited, Quiet, Alive
<1>3. ASSUME NEW n \in 1 .. Len(sessionOps)
      PROVE  sessionOps[n].by = "load" /\ loader # "off"
             /\ (loader = "reading" => sessionOps[n].op = "get")
  <2>1. CallAwaited(sessionOps[n])
    BY DEF RiseInv, CallsAwaited
  <2> QED BY <1>2, <2>1, PoolAssumption DEF CallAwaited, Waiting, Quiet, Alive
<1>4. Len(sessionOps) <= 1
  <2>1. SUFFICES ASSUME Len(sessionOps) > 1 PROVE FALSE
    BY <1>1
  <2>2. 1 \in 1 .. Len(sessionOps) /\ 2 \in 1 .. Len(sessionOps)
    BY <1>1, <2>1
  <2>3. sessionOps[1].by = sessionOps[2].by
    BY <1>3, <2>2
  <2> QED BY <2>2, <2>3 DEF RiseInv, CallsAwaited
<1>5. loader = "off" => sessionOps = <<>>
  <2> SUFFICES ASSUME loader = "off" PROVE sessionOps = <<>>
    OBVIOUS
  <2>1. \A n \in 1 .. Len(sessionOps) : FALSE
    BY <1>3
  <2>2. Len(sessionOps) = 0
    BY <1>1, <2>1
  <2> QED BY <1>1, <2>2
<1> QED BY <1>3, <1>4, <1>5

\* A torrent is loaded: its record becomes the session, and is saved as it is.
LEMMA LoadRises ==
  ASSUME TypeInv, StoreInv, RiseInv, AnnounceIsAwaited, ~Switches,
         LoadRead \/ LoadSaved \/ LoadRefused \/ \E t \in Torrents : Load(t)
  PROVE  RiseInv' /\ Grows
<1>1. UNCHANGED <<pc, announcing>> /\ "load" \in Clients
  BY DEF LoadRead, LoadSaved, LoadRefused, Load, workerVars, peerVars, Clients
<1>2. \A d, op : d # "load" /\ Waiting(d, op) => Waiting(d, op)'
  BY <1>1, OthersWait
<1>3. CASE LoadSaved \/ LoadRefused
  <2>1. PICK more : more = <<>>
    OBVIOUS
  <2>2. (RunSessionOp("load", more) \/ RefuseSessionOp("load")) /\ UNCHANGED session
    BY <1>3, <2>1 DEF LoadSaved, LoadRefused, pageVars
  <2> QED BY <1>2, <2>1, <2>2, TakenSaveRises
<1>4. CASE \E t \in Torrents : Load(t)
  <2>1. PICK t \in Torrents : Load(t)
    BY <1>4
  <2>2. Quiet /\ loader = "off"
    BY <2>1 DEF Load, Stuck, Quiet, Switches
  <2>3. PICK o : o = [by |-> "load", op |-> "get", torrent |-> t]
    OBVIOUS
  <2>4. sessionOps' = Append(sessionOps, o) /\ UNCHANGED <<records, session>>
        /\ loader' = "reading" /\ o.by = "load" /\ o.op = "get"
    BY <2>1, <2>3 DEF Load, GetSession
  <2>5. sessionOps = <<>>
    BY <2>2, QuietQueue
  <2>6. Len(sessionOps') = 1 /\ sessionOps'[1] = o
    BY <2>4, <2>5
  <2>7. \A n \in 1 .. Len(sessionOps') : n = 1
    BY <2>6
  <2>8. CallAwaited(sessionOps[1])' /\ Between(sessionOps[1])'
    BY <2>4, <2>6 DEF CallAwaited, Waiting, Between
  <2>9. session' # None => Ahead(session.bits)'
    BY <2>4 DEF RiseInv, SavesRise, Ahead
  <2>10. CallsAwaited'
    BY <2>7, <2>8 DEF CallsAwaited
  <2>11. \A n \in 1 .. Len(sessionOps') : Between(sessionOps[n])'
    BY <2>7, <2>8
  <2>12. \A m, n \in 1 .. Len(sessionOps') : ~(m < n)
    BY <2>7
  <2>13. SavesRise'
    BY <2>9, <2>11, <2>12 DEF SavesRise
  <2> QED BY <2>4, <2>10, <2>13 DEF RiseInv, Grows
<1>5. CASE LoadRead
  <2>1. Quiet /\ meta \in Torrents /\ loader = "reading"
    BY <1>5 DEF LoadRead, TypeInv, PoolInv, Gates, Present, PageTypes
  <2>2. PICK s, o : /\ o = Put("load", s) /\ session' = s /\ RunSessionOp("load", <<o>>)
                    /\ s.torrent = meta /\ s.bits = Loaded(meta).bits /\ s \in Sessions
    <3>1. Loaded(meta) \in Sessions
      BY <2>1, NewSessions DEF Loaded, TypeInv, StoreTypes
    <3>2. Loaded(meta).torrent = meta
      <4>1. CASE records[meta] # None
        BY <2>1, <4>1 DEF Loaded, TypeInv, StoreTypes, StoreInv, RecordsCovered
      <4>2. CASE records[meta] = None
        BY <2>1, <4>2, NewSessions DEF Loaded, NewSession
      <4> QED BY <4>1, <4>2
    <3>3. PICK seed \in SUBSET Addresses :
            \E peers \in Merges(Loaded(meta).peers, seed) :
              LET s == [Loaded(meta) EXCEPT !.peers = peers] IN
              session' = s /\ RunSessionOp("load", <<Put("load", s)>>)
      BY <1>5 DEF LoadRead
    <3>4. PICK peers \in Merges(Loaded(meta).peers, seed) :
              LET s == [Loaded(meta) EXCEPT !.peers = peers] IN
              session' = s /\ RunSessionOp("load", <<Put("load", s)>>)
      BY <3>3
    <3>5. peers \in SUBSET Addresses
      <4>1. Loaded(meta).peers \subseteq Addresses
        BY <3>1 DEF Sessions
      <4> QED BY <4>1, MergesTypes
    <3>6. PICK s : s = [Loaded(meta) EXCEPT !.peers = peers]
      OBVIOUS
    <3>7. s \in Sessions /\ s.torrent = meta /\ s.bits = Loaded(meta).bits
      BY <3>1, <3>2, <3>5, <3>6, SessionParts
    <3> QED BY <3>4, <3>6, <3>7
  <2>3. o.by = "load" /\ o.op = "put" /\ o.session = s
    BY <2>2 DEF Put
  <2>4. /\ sessionOps # <<>> /\ Len(sessionOps) = 1 /\ Head(sessionOps).op = "get"
        /\ sessionOps' = Tail(sessionOps) \o <<o>>
        /\ Tail(sessionOps) \in Seq(SessionOps) /\ Len(Tail(sessionOps)) = 0
    <3>1. sessionOps # <<>> /\ sessionOps' = Tail(sessionOps) \o <<o>>
      BY <2>2 DEF RunSessionOp
    <3>2. sessionOps \in Seq(SessionOps)
      BY DEF TypeInv, StoreTypes
    <3>3. Len(sessionOps) = 1 /\ sessionOps[1].op = "get"
      BY <2>1, <3>1, <3>2, QuietQueue
    <3>4. Head(sessionOps) = sessionOps[1]
      BY <3>1, <3>2
    <3>5. Tail(sessionOps) \in Seq(SessionOps) /\ Len(Tail(sessionOps)) = 0
      BY <3>1, <3>2, <3>3
    <3> QED BY <3>1, <3>3, <3>4, <3>5
  <2>5. UNCHANGED records
    <3>1. PICK e : e = Head(sessionOps)
      OBVIOUS
    <3>2. records' = CASE e.op = "put"    -> [records EXCEPT ![e.session.torrent] = e.session]
                       [] e.op = "delete" -> [records EXCEPT ![e.torrent] = None]
                       [] e.op = "get"    -> records
      BY <2>2, <3>1 DEF RunSessionOp
    <3>3. e.op = "get"
      BY <2>4, <3>1
    <3> QED BY <3>2, <3>3
  <2>6. PICK T : T = Tail(sessionOps)
    OBVIOUS
  <2>7. Len(sessionOps') = 1 /\ sessionOps'[1] = o
    <3>1. o \in SessionOps
      BY <1>1, <2>2 DEF Put, SessionOps
    <3>2. T \in Seq(SessionOps) /\ <<o>> \in Seq(SessionOps) /\ Len(T) = 0
          /\ sessionOps' = T \o <<o>>
      BY <2>4, <2>6, <3>1
    <3> QED BY <3>2
  <2>8. \A n \in 1 .. Len(sessionOps') : n = 1
    BY <2>7
  <2>9. Ahead(session.bits)'
    BY <2>2, <2>5 DEF Ahead, Loaded
  <2>10. loader' = "saving"
    BY <1>5 DEF LoadRead
  <2>11. CallAwaited(sessionOps[1])' /\ Between(sessionOps[1])'
    BY <2>2, <2>3, <2>7, <2>9, <2>10 DEF CallAwaited, Waiting, Between, Ahead
  <2>12. CallsAwaited'
    BY <2>8, <2>11 DEF CallsAwaited
  <2>13. \A n \in 1 .. Len(sessionOps') : Between(sessionOps[n])'
    BY <2>8, <2>11
  <2>14. \A m, n \in 1 .. Len(sessionOps') : ~(m < n)
    BY <2>8
  <2>15. SavesRise'
    BY <2>9, <2>13, <2>14 DEF SavesRise
  <2> QED BY <2>5, <2>12, <2>15 DEF RiseInv, Grows
<1> QED BY <1>3, <1>4, <1>5

\* The order of the saves is inductive, and every step under it takes nothing
\* back.
LEMMA StepRises ==
  ASSUME TypeInv, StoreInv, RiseInv, AnnounceIsAwaited, ~Switches, ~Frees, [Next]_vars
  PROVE  RiseInv' /\ Grows
<1>1. CASE \E w \in Workers : Worker(w) \/ Round(w)
  BY <1>1, WorkerRises
<1>2. CASE Announcing
  BY <1>2, AnnounceRises
<1>3. CASE LoadRead \/ LoadSaved \/ LoadRefused \/ \E t \in Torrents : Load(t)
  BY <1>3, LoadRises
<1>4. CASE Reload
  <2>1. sessionOps' = <<>> /\ session' = None /\ UNCHANGED records
    BY <1>4 DEF Reload
  <2> QED BY <2>1 DEF RiseInv, CallsAwaited, SavesRise, Grows
<1>5. CASE Running \/ Stop \/ UNCHANGED vars \/ \E g \in Starts : Start(g)
  <2>1. /\ UNCHANGED <<records, sessionOps, session, loader>>
        /\ announcing = "saving" => announcing' = "saving"
        /\ \A v \in Workers : pc[v] \in {"saving", "refreshing"} => pc'[v] = pc[v]
    BY <1>5 DEF Running, Launch, Spawns, Ensure, PoolEnds, Stop, vars, Start, storeVars, pageVars,
                userVars, workerVars, peerVars
  <2>2. \A c, op : Waiting(c, op) => Waiting(c, op)'
    BY <2>1 DEF Waiting
  <2> QED BY <2>1, <2>2, RisingStays
<1>6. CASE Clear \/ ClearedPieces \/ ClearedSession \/ Save \/ SaveRead \/ SaveDeleted \/ SaveSaved
  BY <1>6 DEF StoreInv, Frees, Clear, ClearedPieces, ClearedSession, Save, SaveRead, SaveDeleted,
              SaveSaved
<1> QED BY <1>1, <1>2, <1>3, <1>4, <1>5, <1>6 DEF Next, User, UserOps

\* Saving never takes progress back, though workers and announces save the one
\* session in turns: their saves are queued in the order of their bitfields.
THEOREM SavesOnlyAdd == Spec => RecordsOnlyGrow
<1>1. Init => RiseInv
  <2> SUFFICES ASSUME Init PROVE RiseInv
    OBVIOUS
  <2>1. sessionOps = <<>> /\ session = None
    BY DEF Init, Fresh, StoreInit
  <2> QED BY <2>1 DEF RiseInv, CallsAwaited, SavesRise
<1>2. ~Switches /\ ~Frees /\ RiseInv /\ TypeInv /\ StoreInv /\ EndInv /\ [Next]_vars
        => RiseInv' /\ Grows
  BY StepRises DEF EndInv
<1>3. [Next]_vars => (Switches' <=> Switches) /\ (Frees' <=> Frees)
  BY WorldStays DEF Switches, Frees
<1>4. (~Switches /\ ~Frees => Grows)
        => [~Switches /\ ~Frees => \A t \in Torrents : records[t] # None =>
              records'[t] # None /\ records[t].bits \subseteq records'[t].bits]_vars
  BY DEF Grows
<1>5. ~Switches => ~Overlaps
  BY DEF Overlaps
<1> QED BY <1>1, <1>2, <1>3, <1>4, <1>5, TypeInduction, StoreInduction, EndInduction, PTL
        DEF Spec, RecordsOnlyGrow
=============================================================================
