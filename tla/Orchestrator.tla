---------------------------- MODULE Orchestrator ----------------------------
(***************************************************************************)
(* The browser page, public/app.js: a pool of workers, each a loop of      *)
(* /api/download rounds, over one session kept in the PieceStore.          *)
(*                                                                         *)
(* JavaScript runs one callback at a time, and other callbacks only run at *)
(* an await: an action here is the code from one await to the next.  The   *)
(* globals meta, session, claimed, running are read again after each of    *)
(* them, and may have changed.                                             *)
(***************************************************************************)
EXTENDS PieceStore

CONSTANTS
  Workers,        \* names for workers, enough for all that run at a time
  Starts,         \* names for the runs of start() that may overlap
  MinPeers,       \* MIN_PEERS
  MaxPeerCache,   \* MAX_PEER_CACHE
  MaxWorkers,     \* MAX_WORKERS
  MinBatch, StartBatch, MaxBatch,  \* MIN_BATCH, START_BATCH, MAX_BATCH
  MaxSwitches,    \* a bound on loads of a torrent over another
  Worlds          \* what may happen: sets of "stop", "errors", "crash",
                  \* "clear", "save", "switch", "scale", "quota"

ASSUME PoolAssumption ==
  /\ IsFiniteSet(Workers) /\ Starts # {}
  /\ {MinPeers, MaxPeerCache, MaxWorkers, MaxSwitches} \subseteq Nat
  /\ 2 <= MaxWorkers /\ MaxWorkers <= Cardinality(Workers)  \* auto mode starts at 2
  /\ {MinBatch, StartBatch, MaxBatch} \subseteq Nat \ {0}
  /\ MinBatch <= StartBatch /\ StartBatch <= MaxBatch
  /\ {"announce", "load", "clear", "save"} \cap Workers = {}

VARIABLES
  events,         \* what happens in this behaviour, one of Worlds
  switches,       \* torrents loaded over another
  meta,           \* the torrent loaded last
  session,        \* the session in memory: [torrent, bits, peers]
  running,
  startEnabled,   \* the Start button
  links,          \* save buttons are shown
  claimed, autoScale, target, active, wipeout,  \* the pool's globals
  announcing,     \* the announce in flight: no, asking, saving
  cooling,        \* Date.now() < nextAnnounceAt
  starter,        \* each run of start(): off, announcing, announced, pool
  loader, clearer, saver,   \* loadMeta, clearStoredData, saveFileStreaming
  pc, gen,        \* where each worker is, and the start() it belongs to
  batch, asked, of,  \* the pieces, peers and torrent of its round
  due,            \* the pieces its server may still send
  stored, idle, size,  \* its counters: round.stored, idleRounds, batchSize
  frame           \* the frame it is verifying: [index, bytes]

world      == <<events, switches>>
pageVars   == <<meta, session, startEnabled, links>>
poolVars   == <<claimed, autoScale, target, active, wipeout>>
peerVars   == <<announcing, cooling>>
userVars   == <<loader, clearer, saver>>
roundVars  == <<batch, asked, of, due, stored, frame>>
workerVars == <<pc, gen, roundVars, idle, size>>
vars == <<world, storeVars, pageVars, running, poolVars, peerVars, starter, userVars, workerVars>>

Clients == Workers \cup {"announce", "load", "clear", "save"}
Frames == [index : Pieces, bytes : {"good", "bad"}]
NoFrame == [index |-> 0, bytes |-> "bad"]

TypeOK ==
  /\ events \in Worlds /\ switches \in 0 .. MaxSwitches
  /\ StoreTypeOK(Clients)
  /\ meta \in Torrents \cup {None}
  /\ session \in Sessions \cup {None}
  /\ {running, startEnabled, links, autoScale, wipeout, cooling} \subseteq BOOLEAN
  /\ claimed \subseteq Pieces
  /\ target \in 1 .. MaxWorkers
  /\ active \in 0 .. MaxWorkers
  /\ announcing \in {"no", "asking", "saving"}
  /\ starter \in [Starts -> {"off", "announcing", "announced", "pool"}]
  /\ loader \in {"off", "reading", "saving"}
  /\ clearer \in {"off", "pieces", "session"}
  /\ saver \in {"off", "reading", "deleting", "saving"}
  /\ pc \in [Workers -> {"off", "announcing", "announced", "round", "hashing",
                         "storing", "saving", "backoff", "refreshing"}]
  /\ gen \in [Workers -> Starts]
  /\ batch \in [Workers -> SUBSET Pieces]
  /\ asked \in [Workers -> SUBSET Addresses]
  /\ due \in [Workers -> SUBSET Pieces]
  /\ of \in [Workers -> Torrents \cup {None}]
  /\ stored \in [Workers -> 0 .. NumPieces]
  /\ idle \in [Workers -> 0 .. 3]
  /\ size \in [Workers -> MinBatch .. MaxBatch]
  /\ frame \in [Workers -> Frames]

\* A page just opened: all of it but the store.
Fresh ==
  /\ meta = None /\ session = None
  /\ running = FALSE /\ startEnabled = FALSE /\ links = FALSE
  /\ claimed = {} /\ autoScale = TRUE /\ target = 1 /\ active = 0
  /\ wipeout = FALSE /\ announcing = "no" /\ cooling = FALSE
  /\ starter = [g \in Starts |-> "off"]
  /\ loader = "off" /\ clearer = "off" /\ saver = "off"
  /\ pc = [w \in Workers |-> "off"]
  /\ gen = [w \in Workers |-> CHOOSE g \in Starts : TRUE]
  /\ batch = [w \in Workers |-> {}]
  /\ asked = [w \in Workers |-> {}]
  /\ due = [w \in Workers |-> {}]
  /\ of = [w \in Workers |-> None]
  /\ stored = [w \in Workers |-> 0]
  /\ idle = [w \in Workers |-> 0]
  /\ size = [w \in Workers |-> StartBatch]
  /\ frame = [w \in Workers |-> NoFrame]

Init == events \in Worlds /\ switches = 0 /\ StoreInit /\ Fresh

-----------------------------------------------------------------------------
(* Peers.                                                                  *)

Smaller(m, n) == IF m < n THEN m ELSE n
Larger(m, n) == IF m > n THEN m ELSE n

\* mergePeers: new addresses are kept up to MAX_PEER_CACHE, in their order.
Merges(peers, new) ==
  {peers \cup kept : kept \in
     {S \in SUBSET (new \ peers) :
        Cardinality(S) = Smaller(Cardinality(new \ peers),
                                 Larger(0, MaxPeerCache - Cardinality(peers)))}}

\* peersForWorker: the whole cache, or a stripe of a large one.
PeersForWorker ==
  IF Cardinality(session.peers) < 4 * Larger(1, active) THEN {session.peers}
  ELSE SUBSET session.peers \ {{}}

\* ensurePeers has something to wait for: an announce of its own, or the one
\* in flight.
Waits == /\ Cardinality(session.peers) < MinPeers
         /\ announcing # "no" \/ ~cooling

AfterEnsure == IF Waits THEN "announcing" ELSE "announced"
Ensure == /\ announcing' = IF Waits /\ announcing = "no" THEN "asking" ELSE announcing
          /\ UNCHANGED cooling

\* Mutant of AnnounceOver: announceInFlight is not cleared.
AnnounceOver_InFlight ==
  /\ cooling' = TRUE /\ UNCHANGED announcing
  /\ pc' = [w \in Workers |-> IF pc[w] = "announcing" THEN "announced" ELSE pc[w]]
  /\ starter' = [g \in Starts |->
       IF starter[g] = "announcing" THEN "announced" ELSE starter[g]]
  /\ UNCHANGED <<world, pageVars, running, poolVars, userVars, gen, roundVars, idle, size>>

\* The announce is over: everyone who awaited it goes on.
AnnounceOver ==
  /\ announcing' = "no" /\ cooling' = TRUE
  /\ pc' = [w \in Workers |-> IF pc[w] = "announcing" THEN "announced" ELSE pc[w]]
  /\ starter' = [g \in Starts |->
       IF starter[g] = "announcing" THEN "announced" ELSE starter[g]]
  /\ UNCHANGED <<world, pageVars, running, poolVars, userVars, gen, roundVars, idle, size>>

AnnounceFails ==
  /\ announcing = "asking" /\ "errors" \in events
  /\ AnnounceOver
  /\ UNCHANGED storeVars

AnnounceReply ==
  /\ announcing = "asking"
  /\ \E new \in SUBSET Addresses : \E peers \in Merges(session.peers, new) :
       /\ "errors" \notin events => new # {}
       /\ session' = [session EXCEPT !.peers = peers]
       /\ PutSession("announce", [session EXCEPT !.peers = peers])
  /\ announcing' = "saving"
  /\ UNCHANGED <<world, disk, records, pieceOps, meta, startEnabled, links, running, poolVars,
                 cooling, starter, userVars, workerVars>>

AnnounceSaved ==
  /\ announcing = "saving"
  /\ RunSessionOp("announce", <<>>)
  /\ AnnounceOver
  /\ UNCHANGED pieceOps

\* The session with the new peers cannot be saved: everyone who awaited the
\* announce rejects, and the next one need not wait.
AnnounceRefused ==
  LET joined == {w \in Workers : pc[w] = "announcing"} IN
  /\ announcing = "saving" /\ "quota" \in events
  /\ RefuseSessionOp("announce")
  /\ announcing' = "no"
  /\ pc' = [w \in Workers |-> IF w \in joined THEN "off" ELSE pc[w]]
  /\ active' = active - Cardinality(joined)
  /\ idle' = [w \in Workers |-> IF w \in joined THEN 0 ELSE idle[w]]
  /\ size' = [w \in Workers |-> IF w \in joined THEN StartBatch ELSE size[w]]
  /\ starter' = [g \in Starts |->
       IF starter[g] = "announcing" \/ \E w \in joined : gen[w] = g
       THEN "off" ELSE starter[g]]
  /\ UNCHANGED <<world, pieceOps, pageVars, running, claimed, autoScale, target, wipeout,
                 cooling, userVars, gen, roundVars>>

CoolingEnds ==
  /\ cooling
  /\ cooling' = FALSE
  /\ UNCHANGED <<world, storeVars, pageVars, running, poolVars, announcing, starter,
                 userVars, workerVars>>

-----------------------------------------------------------------------------
(* One worker.                                                             *)

Alive == {w \in Workers : pc[w] # "off"}
Missing == Pieces \ session.bits

\* The first n of S.
First(S, n) == {i \in S : Cardinality({j \in S : j < i}) < n}

\* Mutant of Claimable: forgets what the other workers have claimed.
Claimable_Claimed == Missing

Claimable == Missing \ claimed

Goes(w, there) == pc' = [pc EXCEPT ![w] = there]

\* Mutant of Exit: the worker is still counted.
Exit_Counted(w) ==
  /\ Goes(w, "off")
  /\ active' = active
  /\ idle' = [idle EXCEPT ![w] = 0]
  /\ size' = [size EXCEPT ![w] = StartBatch]

\* The worker returns, and its .finally uncounts it.
Exit(w) ==
  /\ Goes(w, "off")
  /\ active' = active - 1
  /\ idle' = [idle EXCEPT ![w] = 0]
  /\ size' = [size EXCEPT ![w] = StartBatch]

\* Claim a batch and send the request; with nothing to claim or nobody to ask
\* the worker exits.
Request(w) ==
  LET want == First(Claimable, size[w]) IN
  /\ pc[w] = "announced"
  /\ IF want = {} \/ session.peers = {}
     THEN Exit(w) /\ UNCHANGED <<claimed, roundVars>>
     ELSE /\ Goes(w, "round")
          /\ claimed' = claimed \cup want
          /\ batch' = [batch EXCEPT ![w] = want]
          /\ due' = [due EXCEPT ![w] = want]
          /\ \E mine \in PeersForWorker : asked' = [asked EXCEPT ![w] = mine]
          /\ of' = [of EXCEPT ![w] = meta]
          /\ stored' = [stored EXCEPT ![w] = 0]
          /\ UNCHANGED <<active, idle, size, frame>>
  /\ UNCHANGED <<world, storeVars, pageVars, running, autoScale, target, wipeout,
                 peerVars, starter, userVars, gen>>

\* A piece frame of the response: the server settles a piece once.
FrameArrives(w, i, bytes) ==
  /\ pc[w] = "round" /\ i \in due[w]
  /\ bytes = "bad" => "errors" \in events
  /\ Goes(w, "hashing")
  /\ due' = [due EXCEPT ![w] = @ \ {i}]
  /\ frame' = [frame EXCEPT ![w] = [index |-> i, bytes |-> bytes]]
  /\ UNCHANGED <<world, storeVars, pageVars, running, poolVars, peerVars, starter, userVars,
                 gen, batch, asked, of, stored, idle, size>>

\* Mutant of Verified: compares with the torrent that was asked for.
Verified_AsAsked(w) == frame[w].bytes = "good"

\* The hash of the frame is that of meta's piece.
Verified(w) == frame[w].bytes = "good" /\ of[w] = meta

\* What the store gets to hold: bytes are good for the torrent they are of.
BytesFor(w, t) == IF frame[w].bytes = "good" /\ of[w] = t THEN "good" ELSE "bad"

Unframed(w) == frame' = [frame EXCEPT ![w] = NoFrame]

\* Mutant of HashDone: the bit is set before the piece is written.
HashDone_BitFirst(w) ==
  /\ pc[w] = "hashing"
  /\ IF Verified(w) /\ frame[w].index \notin session.bits
     THEN /\ PutPiece(w, meta, frame[w].index, BytesFor(w, meta))
          /\ session' = [session EXCEPT !.bits = @ \cup {frame[w].index}]
          /\ Goes(w, "storing") /\ UNCHANGED frame
     ELSE /\ Goes(w, "round") /\ Unframed(w)
          /\ UNCHANGED <<pieceOps, session>>
  /\ UNCHANGED <<world, disk, records, sessionOps, meta, startEnabled, links, running, poolVars,
                 peerVars, starter, userVars, gen, batch, asked, of, due, stored, idle, size>>

\* The hash is known: the piece is dropped, or written if it is missing.
HashDone(w) ==
  /\ pc[w] = "hashing"
  /\ IF Verified(w) /\ frame[w].index \notin session.bits
     THEN /\ PutPiece(w, meta, frame[w].index, BytesFor(w, meta))
          /\ Goes(w, "storing") /\ UNCHANGED frame
     ELSE /\ Goes(w, "round") /\ Unframed(w)
          /\ UNCHANGED pieceOps
  /\ UNCHANGED <<world, disk, records, sessionOps, pageVars, running, poolVars, peerVars, starter,
                 userVars, gen, batch, asked, of, due, stored, idle, size>>

\* The piece is written: its bit is set, in whatever session is current.
PieceStored(w) ==
  /\ pc[w] = "storing"
  /\ RunPieceOp(w)
  /\ session' = [session EXCEPT !.bits = @ \cup {frame[w].index}]
  /\ stored' = [stored EXCEPT ![w] = @ + 1]
  /\ Goes(w, "round") /\ Unframed(w)
  /\ UNCHANGED <<world, sessionOps, meta, startEnabled, links, running, poolVars, peerVars, starter,
                 userVars, gen, batch, asked, of, due, idle, size>>

\* Mutant of Release: keeps the claims of the batch.
Release_Nothing(w) == claimed

Release(w) == claimed \ batch[w]

\* What prunePeers may do after a summary: each peer asked reports; if all
\* failed none is blamed, else those that failed are dropped.
Prunes(w) ==
  {[wipeout |-> failed = asked[w],
    peers |-> IF failed = asked[w] THEN session.peers ELSE session.peers \ failed] :
     failed \in IF "errors" \in events THEN SUBSET asked[w] ELSE {{}}}

\* The request is over.
Responded(w) ==
  /\ asked' = [asked EXCEPT ![w] = {}]
  /\ of' = [of EXCEPT ![w] = None]
  /\ due' = [due EXCEPT ![w] = {}]

\* streamRound returned an error: whatever it stored is kept.
RoundError(w) ==
  /\ claimed' = Release(w)
  /\ idle' = [idle EXCEPT ![w] = Smaller(3, @ + 1)]
  /\ batch' = [batch EXCEPT ![w] = {}]
  /\ stored' = [stored EXCEPT ![w] = 0]
  /\ Responded(w)
  /\ Goes(w, "backoff")
  /\ UNCHANGED <<world, disk, records, sessionOps, pageVars, running, autoScale, target,
                 active, wipeout, peerVars, starter, userVars, gen, size>>

RoundFails(w) ==
  /\ pc[w] = "round" /\ "errors" \in events
  /\ RoundError(w)
  /\ UNCHANGED <<pieceOps, frame>>

\* The store is full: the put fails, and the round with it.
PieceRefused(w) ==
  /\ pc[w] = "storing" /\ "quota" \in events
  /\ RefusePieceOp(w)
  /\ RoundError(w) /\ Unframed(w)

\* The response ends, with a summary or cut short: peers are pruned and
\* merged, and the session is saved.
RoundEnds(w) ==
  /\ pc[w] = "round"
  /\ "errors" \notin events => due[w] = {}
  /\ claimed' = Release(w)
  /\ \E verdict \in Prunes(w) \cup
          (IF "errors" \in events THEN {[wipeout |-> wipeout, peers |-> session.peers]} ELSE {}),
        pex \in SUBSET Addresses :
       \E peers \in Merges(verdict.peers, pex) :
         /\ wipeout' = verdict.wipeout
         /\ session' = [session EXCEPT !.peers = peers]
         /\ PutSession(w, [session EXCEPT !.peers = peers])
  /\ Responded(w)
  /\ Goes(w, "saving")
  /\ UNCHANGED <<world, disk, records, pieceOps, meta, startEnabled, links, running, autoScale,
                 target, active, peerVars, starter, userVars, gen, batch, stored, frame,
                 idle, size>>

\* Workers that spawnUpToTarget may start, by the size of the pool it is for.
Spawns(t) ==
  {S \in SUBSET {w \in Workers : pc[w] = "off"} :
     Cardinality(S) = IF running THEN Larger(0, t - active) ELSE 0}

\* maybeRescale: the pool may change by one.  The throughput decides; here it
\* may say anything.
Rescaled == {target} \cup
  IF autoScale /\ running /\ "scale" \in events
  THEN {target - 1, target + 1} \cap 1 .. MaxWorkers ELSE {}

\* Mutant of TooMany: the pool shrinks below its target.
TooMany_AtTarget(n, t) == n >= t

\* Of n workers one has to go.
TooMany(n, t) == n > t

Stays(n, t) == running /\ ~TooMany(n, t)

\* The end of a turn of worker w, with its counters: the pool is rescaled,
\* new workers run up to their first await, and w meets the head of the loop,
\* where it exits or goes on.
Boundary(w, i, s) ==
  \E t \in Rescaled : \E new \in IF t > target THEN Spawns(t) ELSE {{}} :
    LET n == active + Cardinality(new)
        stays == Stays(n, t)
    IN
    /\ target' = t
    /\ active' = IF stays THEN n ELSE n - 1
    /\ pc' = [v \in Workers |->
         IF v \in new \/ (v = w /\ stays) THEN AfterEnsure
         ELSE IF v = w THEN "off" ELSE pc[v]]
    /\ gen' = [v \in Workers |-> IF v \in new THEN gen[w] ELSE gen[v]]
    /\ IF stays \/ new # {} THEN Ensure ELSE UNCHANGED peerVars
    /\ idle' = [idle EXCEPT ![w] = IF stays THEN i ELSE 0]
    /\ size' = [size EXCEPT ![w] = IF stays THEN s ELSE StartBatch]

\* Mutant of NextSizes: the batch grows without a limit.
NextSizes_Uncapped(w) ==
  {IF stored[w] = Cardinality(batch[w]) THEN 2 * size[w] ELSE size[w]}

\* The next batch: twice as large after a fast full round, half as large
\* after one that stored less than half.
NextSizes(w) ==
  LET n == Cardinality(batch[w]) IN
  (IF stored[w] = n THEN {Smaller(MaxBatch, 2 * size[w])} ELSE {}) \cup
  {IF 2 * stored[w] < n THEN Larger(MinBatch, size[w] \div 2) ELSE size[w]}

\* The session is saved: a fruitless round backs off.
Saved(w) ==
  /\ pc[w] = "saving"
  /\ RunSessionOp(w, <<>>)
  /\ \E n \in NextSizes(w) :
       IF stored[w] # 0 THEN Boundary(w, 0, n)
       ELSE /\ Goes(w, "backoff")
            /\ idle' = [idle EXCEPT ![w] = Smaller(3, @ + 1)]
            /\ size' = [size EXCEPT ![w] = n]
            /\ UNCHANGED <<target, gen, active, peerVars>>
  /\ batch' = [batch EXCEPT ![w] = {}]
  /\ stored' = [stored EXCEPT ![w] = 0]
  /\ UNCHANGED <<world, pieceOps, pageVars, running, claimed, autoScale, wipeout,
                 starter, userVars, asked, of, due, frame>>

\* The sleep is over; after three idle rounds the peer cache is thrown away,
\* unless the network is to blame.
BackoffEnds(w) ==
  /\ pc[w] = "backoff"
  /\ IF idle[w] = 3 /\ ~wipeout
     THEN /\ session' = [session EXCEPT !.peers = {}]
          /\ PutSession(w, [session EXCEPT !.peers = {}])
          /\ Goes(w, "refreshing")
          /\ UNCHANGED <<target, gen, active, peerVars, idle, size>>
     ELSE Boundary(w, idle[w], size[w]) /\ UNCHANGED <<sessionOps, session>>
  /\ UNCHANGED <<world, disk, records, pieceOps, meta, startEnabled, links, running, claimed,
                 autoScale, wipeout, starter, userVars, roundVars>>

Refreshed(w) ==
  /\ pc[w] = "refreshing"
  /\ RunSessionOp(w, <<>>)
  /\ Boundary(w, 0, size[w])
  /\ UNCHANGED <<world, pieceOps, pageVars, running, claimed, autoScale, wipeout,
                 starter, userVars, roundVars>>

\* The session cannot be saved: the worker rejects, and so does the start()
\* that awaits it, which leaves running and the buttons as they are.
SaveRefused(w) ==
  /\ pc[w] \in {"saving", "refreshing"} /\ "quota" \in events
  /\ RefuseSessionOp(w)
  /\ Exit(w)
  /\ starter' = [starter EXCEPT ![gen[w]] = "off"]
  /\ batch' = [batch EXCEPT ![w] = {}]
  /\ stored' = [stored EXCEPT ![w] = 0]
  /\ UNCHANGED <<world, pieceOps, pageVars, running, claimed, autoScale, target, wipeout,
                 peerVars, userVars, gen, asked, of, due, frame>>

Worker(w) ==
  \/ Request(w) \/ HashDone(w) \/ PieceStored(w) \/ Saved(w)
  \/ BackoffEnds(w) \/ Refreshed(w) \/ PieceRefused(w) \/ SaveRefused(w)

Round(w) ==
  \/ \E i \in Pieces, bytes \in {"good", "bad"} : FrameArrives(w, i, bytes)
  \/ RoundFails(w) \/ RoundEnds(w)

-----------------------------------------------------------------------------
(* start() and Stop.                                                       *)

Start(g) ==
  /\ startEnabled /\ ~running /\ session # None /\ starter[g] = "off"
  /\ running' = TRUE /\ startEnabled' = FALSE
  /\ claimed' = {} /\ active' = 0
  /\ \/ autoScale' = TRUE /\ target' = 2
     \/ autoScale' = FALSE /\ target' \in 1 .. MaxWorkers
  /\ starter' = [starter EXCEPT ![g] = AfterEnsure]
  /\ Ensure
  /\ UNCHANGED <<world, storeVars, meta, session, links, wipeout, userVars, workerVars>>

\* Peers are known, or not: the pool is started or the loop paused.
Launch(g) ==
  /\ starter[g] = "announced"
  /\ IF session.peers = {} /\ Missing # {}
     THEN /\ starter' = [starter EXCEPT ![g] = "off"]
          /\ running' = FALSE /\ startEnabled' = TRUE
          /\ UNCHANGED <<pc, gen, active, peerVars>>
     ELSE /\ starter' = [starter EXCEPT ![g] = "pool"]
          /\ \E new \in Spawns(target) :
               /\ pc' = [w \in Workers |-> IF w \in new THEN AfterEnsure ELSE pc[w]]
               /\ gen' = [w \in Workers |-> IF w \in new THEN g ELSE gen[w]]
               /\ active' = active + Cardinality(new)
               /\ IF new # {} THEN Ensure ELSE UNCHANGED peerVars
          /\ UNCHANGED <<running, startEnabled>>
  /\ UNCHANGED <<world, storeVars, meta, session, links, claimed, autoScale, target, wipeout,
                 userVars, roundVars, idle, size>>

\* All its workers have returned; a whole torrent is assembled.
PoolEnds(g) ==
  /\ starter[g] = "pool"
  /\ \A w \in Alive : gen[w] # g
  /\ links' = (links \/ Missing = {})
  /\ running' = FALSE /\ startEnabled' = TRUE
  /\ starter' = [starter EXCEPT ![g] = "off"]
  /\ UNCHANGED <<world, storeVars, meta, session, poolVars, peerVars, userVars, workerVars>>

Stop ==
  /\ running /\ "stop" \in events
  /\ running' = FALSE
  /\ UNCHANGED <<world, storeVars, pageVars, poolVars, peerVars, starter, userVars, workerVars>>

-----------------------------------------------------------------------------
(* The user's other doings.                                                *)

\* Everything has come to an end, and Start is disabled.
Stuck == /\ ~startEnabled /\ ~running
         /\ Alive = {} /\ \A g \in Starts : starter[g] = "off"

\* loadMeta, one at a time.  Another torrent, or the same again while the page
\* works, is loaded at most MaxSwitches times, and only where "switch" says so.
Load(t) ==
  /\ loader = "off"
  /\ \/ /\ Stuck /\ \A u \in Torrents \ {t} : records[u] = None
        /\ UNCHANGED switches
     \/ /\ session # None /\ "switch" \in events /\ switches < MaxSwitches
        /\ switches' = switches + 1
  /\ meta' = t
  /\ GetSession("load", t)
  /\ loader' = "reading"
  /\ UNCHANGED <<events, disk, records, pieceOps, session, startEnabled, links, running, poolVars,
                 peerVars, starter, clearer, saver, workerVars>>

NewSession(t) == [torrent |-> t, bits |-> {}, peers |-> {}]

\* Mutant of Loaded: the stored session is ignored.
Loaded_New(t) == NewSession(t)

Loaded(t) == IF records[t] # None THEN records[t] ELSE NewSession(t)

\* The stored session, or a new one, replaces the one in memory; a magnet
\* brings peers along.
LoadRead ==
  /\ loader = "reading"
  /\ \E seed \in SUBSET Addresses : \E peers \in Merges(Loaded(meta).peers, seed) :
       LET s == [Loaded(meta) EXCEPT !.peers = peers] IN
       /\ session' = s
       /\ RunSessionOp("load", <<Put("load", s)>>)
  /\ loader' = "saving"
  /\ UNCHANGED <<world, pieceOps, meta, startEnabled, links, running, poolVars, peerVars,
                 starter, clearer, saver, workerVars>>

LoadSaved ==
  /\ loader = "saving"
  /\ RunSessionOp("load", <<>>)
  /\ loader' = "off" /\ startEnabled' = TRUE
  /\ UNCHANGED <<world, pieceOps, meta, session, links, running, poolVars, peerVars, starter,
                 clearer, saver, workerVars>>

\* loadMeta rejects with the torrent loaded and Start as it was.
LoadRefused ==
  /\ loader = "saving" /\ "quota" \in events
  /\ RefuseSessionOp("load")
  /\ loader' = "off"
  /\ UNCHANGED <<world, pieceOps, pageVars, running, poolVars, peerVars, starter,
                 clearer, saver, workerVars>>

\* clearStoredData, one at a time.
Clear ==
  /\ "clear" \in events /\ session # None /\ ~running /\ clearer = "off"
  /\ links' = FALSE
  /\ DeleteAllPieces("clear", session.torrent)
  /\ clearer' = "pieces"
  /\ UNCHANGED <<world, disk, records, sessionOps, meta, session, startEnabled, running, poolVars,
                 peerVars, starter, loader, saver, workerVars>>

ClearedPieces ==
  /\ clearer = "pieces"
  /\ RunPieceOp("clear")
  /\ DeleteSession("clear", Head(pieceOps).torrent)
  /\ clearer' = "session"
  /\ UNCHANGED <<world, pageVars, running, poolVars, peerVars, starter, loader, saver, workerVars>>

ClearedSession ==
  /\ clearer = "session"
  /\ RunSessionOp("clear", <<>>)
  /\ session' = NewSession(session.torrent)
  /\ clearer' = "off"
  /\ UNCHANGED <<world, pieceOps, meta, startEnabled, links, running, poolVars, peerVars, starter,
                 loader, saver, workerVars>>

\* saveFileStreaming of a torrent of one file, whose button then stays
\* disabled.
Save ==
  /\ "save" \in events /\ links /\ saver = "off"
  /\ saver' = "reading"
  /\ UNCHANGED <<world, storeVars, pageVars, running, poolVars, peerVars,
                 starter, loader, clearer, workerVars>>

\* All pieces were read and written to the file, or one is missing.
SaveRead ==
  /\ saver = "reading"
  /\ IF \A i \in Pieces : disk[<<meta, i>>] # "none"
     THEN DeleteAllPieces("save", meta) /\ saver' = "deleting" /\ links' = FALSE
     ELSE saver' = "off" /\ UNCHANGED <<pieceOps, links>>
  /\ UNCHANGED <<world, disk, records, sessionOps, meta, session, startEnabled, running, poolVars,
                 peerVars, starter, loader, clearer, workerVars>>

\* Mutant of SaveDeleted: the bitfield is kept.
SaveDeleted_KeepsBits ==
  /\ saver = "deleting"
  /\ RunPieceOp("save")
  /\ PutSession("save", session)
  /\ saver' = "saving"
  /\ UNCHANGED <<world, pageVars, running, poolVars, peerVars, starter, loader, clearer, workerVars>>

\* The pieces are gone, and the bitfield of the current session with them.
SaveDeleted ==
  /\ saver = "deleting"
  /\ RunPieceOp("save")
  /\ session' = [session EXCEPT !.bits = {}]
  /\ PutSession("save", [session EXCEPT !.bits = {}])
  /\ saver' = "saving"
  /\ UNCHANGED <<world, meta, startEnabled, links, running, poolVars, peerVars, starter,
                 loader, clearer, workerVars>>

SaveSaved ==
  /\ saver = "saving"
  /\ RunSessionOp("save", <<>>)
  /\ saver' = "off"
  /\ UNCHANGED <<world, pieceOps, pageVars, running, poolVars, peerVars, starter, loader,
                 clearer, workerVars>>

\* The page is reloaded, or dies and is opened again.
Reload ==
  /\ "crash" \in events /\ meta # None
  /\ meta' = None /\ session' = None
  /\ running' = FALSE /\ startEnabled' = FALSE /\ links' = FALSE
  /\ claimed' = {} /\ autoScale' = TRUE /\ target' = 1 /\ active' = 0
  /\ wipeout' = FALSE /\ announcing' = "no" /\ cooling' = FALSE
  /\ starter' = [g \in Starts |-> "off"]
  /\ loader' = "off" /\ clearer' = "off" /\ saver' = "off"
  /\ pc' = [w \in Workers |-> "off"]
  /\ gen' = [w \in Workers |-> CHOOSE g \in Starts : TRUE]
  /\ batch' = [w \in Workers |-> {}]
  /\ asked' = [w \in Workers |-> {}]
  /\ due' = [w \in Workers |-> {}]
  /\ of' = [w \in Workers |-> None]
  /\ stored' = [w \in Workers |-> 0]
  /\ idle' = [w \in Workers |-> 0]
  /\ size' = [w \in Workers |-> StartBatch]
  /\ frame' = [w \in Workers |-> NoFrame]
  /\ pieceOps' = <<>> /\ sessionOps' = <<>>
  /\ UNCHANGED <<world, disk, records>>

-----------------------------------------------------------------------------
Announcing == AnnounceFails \/ AnnounceReply \/ AnnounceSaved \/ AnnounceRefused
              \/ CoolingEnds
Running == \E g \in Starts : Launch(g) \/ PoolEnds(g)
UserOps == LoadRead \/ LoadSaved \/ LoadRefused \/ ClearedPieces \/ ClearedSession
           \/ SaveRead \/ SaveDeleted \/ SaveSaved
User ==
  \/ \E g \in Starts : Start(g)
  \/ \E t \in Torrents : Load(t)
  \/ Stop \/ Clear \/ Save \/ Reload

Next ==
  \/ \E w \in Workers : Worker(w) \/ Round(w)
  \/ Announcing \/ Running \/ UserOps \/ User

Spec == Init /\ [][Next]_vars

\* Timers fire, transactions run, and a round ends (the server stops itself
\* before its limit).  A round without errors brings the pieces it was asked
\* for.
Fairness ==
  /\ \A w \in Workers :
       /\ WF_vars(Worker(w))
       /\ SF_vars(RoundFails(w) \/ RoundEnds(w))
       /\ \A i \in Pieces : WF_vars(FrameArrives(w, i, "good"))
  /\ WF_vars(AnnounceFails \/ AnnounceReply \/ AnnounceSaved)
  /\ WF_vars(CoolingEnds)
  /\ WF_vars(Running)
  /\ WF_vars(UserOps)

FairSpec == Spec /\ Fairness

-----------------------------------------------------------------------------
(* Safety.                                                                 *)

\* What may happen in this behaviour: stored pieces are freed; a torrent is
\* loaded over another.
Frees == {"clear", "save"} \cap events # {}
Switches == "switch" \in events

\* Workers whose request is with a server.
Asking == {w \in Workers : pc[w] \in {"round", "hashing", "storing"}}

(* What the bitfield in memory says is there is there: a piece is written   *)
(* before its bit is set (app.js:541-542), and the bits go with the pieces, *)
(* whatever rounds, announces, saves and purges overlap.  Not when another  *)
(* torrent is loaded in the middle of a round: until loadMeta has read its  *)
(* session, meta and session are of different torrents (app.js:165-179).    *)
BitsAreStored ==
  ~Switches /\ session # None /\ clearer = "off" /\ saver # "deleting" =>
    \A i \in session.bits : disk[<<session.torrent, i>>] # "none"

(* Nor does the stored record claim what is not stored, which is what the *)
(* page has after a crash: every save is a snapshot of a bitfield that is   *)
(* ahead of no piece (app.js:437, 541-542).  Not when pieces are freed, in *)
(* a transaction before that of the record.                                *)
ClaimsExist ==
  ~Switches /\ ~Frees => \A t \in Torrents :
    records[t] # None => \A i \in records[t].bits : disk[<<t, i>>] # "none"

(* "corruption can never be committed to durable storage"                  *)
(* (app.js:533-534), even if another torrent is loaded while a frame is    *)
(* being hashed.                                                           *)
DiskIsIntact == \A piece \in Torrents \X Pieces : disk[piece] # "bad"

(* "Claims keep the workers' piece ranges disjoint, so parallel            *)
(* invocations never duplicate each other's work" (app.js:203-205).        *)
ClaimsAreDisjoint ==
  /\ \A v, w \in Asking : v # w => batch[v] \cap batch[w] = {}
  /\ \A w \in Asking : batch[w] \subseteq claimed

(* activeWorkers, by which the pool grows and shrinks, is the number of    *)
(* workers, and never more than the page allows.                           *)
ActiveIsExact == active = Cardinality(Alive) /\ active <= MaxWorkers

(* Saving never takes progress back: with several workers saving snapshots *)
(* of the same session, a record once stored only gains bits.              *)
RecordsOnlyGrow ==
  [][~Switches /\ ~Frees => \A t \in Torrents : records[t] # None =>
       records'[t] # None /\ records[t].bits \subseteq records'[t].bits]_vars

(* The pool ends by itself only when nothing is missing or nobody is left  *)
(* to ask: no combination of exits (no claim, pool shrunk, no peers) leaves*)
(* missing pieces without a worker.                                        *)
EndsOnlyWhenDone ==
  [][(running /\ ~Switches /\ ~Frees /\ \E g \in Starts : PoolEnds(g))
       => Missing = {} \/ session.peers = {}]_vars

-----------------------------------------------------------------------------
(* Liveness.                                                               *)

(* Stop is obeyed: the workers return, and Start comes back.               *)
StopStops == (~running /\ session # None) ~> (running \/ (Alive = {} /\ startEnabled))

\* Stop was pressed and its pool has not ended.
Draining == ~running /\ \E g \in Starts : starter[g] # "off"

(* Without errors a started download is completed and assembled, unless it *)
(* is stopped.                                                             *)
DownloadCompletes == running ~> ((links /\ ~running) \/ Draining)

-----------------------------------------------------------------------------
(* A claim of a comment that the code does not keep.                       *)

(* "Purge everything stored for the current torrent: pieces, session       *)
(* record" (app.js:691): only loading or starting it brings a record back. *)
PurgeIsFinal ==
  [][\A t \in Torrents :
       (records[t] = None /\ records'[t] # None) => (loader # "off" \/ running)]_vars
=============================================================================
