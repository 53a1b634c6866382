--------------------------- MODULE DownloadSession ---------------------------
(***************************************************************************)
(* One /api/download invocation: runDownload (lib/download-session.ts),    *)
(* the connections it drives (lib/peer.ts) over the shared scheduler, and  *)
(* the response it streams (api/download.ts).                              *)
(*                                                                         *)
(* Node runs one callback at a time.  A chunk of socket data may hold      *)
(* several messages, all handled before the pump at the end of onData: the *)
(* variable `turn` names the connection whose chunk is being handled, and  *)
(* every other callback waits for the turn to end.                         *)
(***************************************************************************)
EXTENDS PieceScheduler, Sequences

CONSTANTS
  Peers,          \* the connections, req.peers.slice(0, MAX_PEERS)
  Honest,         \* those that answer each request with the torrent's bytes
  Holds,          \* the pieces each peer announces, when it is honest
  NoPeer,         \* no chunk is being handled
  PipelineMin, PipelineMax,   \* PIPELINE_MIN, PIPELINE_MAX
  Gossip,         \* addresses that ut_pex messages may carry
  KnownPeers,     \* addresses the request already lists
  MaxDiscovered,  \* MAX_DISCOVERED
  Events          \* what the environment does in this instance, a subset of
                  \* {"disconnect", "choke", "timeout", "deadline", "client"}

ASSUME SessionAssumption ==
  /\ IsFiniteSet(Peers)
  /\ Owners = Peers
  /\ Honest \subseteq Peers
  /\ Holds \in [Peers -> SUBSET Wanted]
  /\ NoPeer \notin Peers
  /\ PipelineMin \in Nat \ {0} /\ PipelineMax \in Nat /\ PipelineMin <= PipelineMax
  /\ MaxDiscovered \in Nat
  /\ IsFiniteSet(Gossip)

VARIABLES
  phase,          \* of each socket: connecting, handshaking, open, finished
  choked, has, outstanding, depth,   \* PeerConnection's fields
  wire,           \* requests an honest peer has yet to answer
  turn,           \* the connection whose chunk is being handled, or NoPeer
  deadlinePassed, \* Date.now() >= deadline
  live,           \* liveConnections
  reports,        \* times each connection called onDone (entries of health)
  discovered,     \* addresses learned from gossip
  verifying,      \* per piece: no verification, hashing, or emitting
  digest,         \* per piece: the bytes taken for hashing were the right ones
  settled,        \* finish has run
  awaited,        \* the verifications finish waits for, snapshot by allSettled
  stream, ended,  \* the response body and whether res.end was called
  client,         \* the browser reads the response, or is gone
  died            \* a rejection nobody handles has ended the process

peerVars  == <<phase, choked, has, outstanding, depth, wire>>
otherVars == <<turn, deadlinePassed, discovered>>
stopVars  == <<live, reports, settled, awaited>>
emitVars  == <<verifying, digest, stream, ended, died>>
vars == <<schedVars, peerVars, otherVars, stopVars, emitVars, client>>

Contract == INSTANCE DownloadContract WITH ended <- ended \/ died

PieceFrame(i, intact) == Contract!PieceFrame(i, intact)
SummaryFrame == Contract!SummaryFrame

TypeOK ==
  /\ SchedTypeOK
  /\ phase \in [Peers -> {"connecting", "handshaking", "open", "finished"}]
  /\ choked \in [Peers -> BOOLEAN]
  /\ has \in [Peers -> SUBSET Wanted]
  /\ outstanding \in [Peers -> Nat]
  /\ depth \in [Peers -> PipelineMin .. PipelineMax]
  /\ wire \in [Honest -> [Blocks -> Nat]]
  /\ turn \in Peers \cup {NoPeer}
  /\ deadlinePassed \in BOOLEAN
  /\ live \in Int
  /\ reports \in [Peers -> Nat]
  /\ discovered \subseteq Gossip
  /\ verifying \in [Wanted -> {"idle", "hashing", "emitting"}]
  /\ digest \in [Wanted -> BOOLEAN]
  /\ settled \in BOOLEAN
  /\ awaited \subseteq Wanted
  /\ stream \in Seq([type : {"piece"}, index : Wanted, intact : BOOLEAN]
                      \cup {SummaryFrame})
  /\ ended \in BOOLEAN
  /\ client \in {"reading", "gone"}
  /\ died \in BOOLEAN

Init ==
  /\ SchedInit
  /\ phase = [p \in Peers |-> "connecting"]
  /\ choked = [p \in Peers |-> TRUE]
  /\ has = [p \in Peers |-> {}]
  /\ outstanding = [p \in Peers |-> 0]
  /\ depth = [p \in Peers |-> PipelineMin]
  /\ wire = [p \in Honest |-> [blk \in Blocks |-> 0]]
  /\ turn = NoPeer
  /\ deadlinePassed = FALSE
  /\ live = Cardinality(Peers)
  /\ reports = [p \in Peers |-> 0]
  /\ discovered = {}
  /\ verifying = [i \in Wanted |-> "idle"]
  /\ digest = [i \in Wanted |-> FALSE]
  /\ settled = (Peers = {})       \* no connection: finish at once
  /\ awaited = {}
  /\ stream = <<>>
  /\ ended = FALSE
  /\ client = "reading"
  /\ died = FALSE

-----------------------------------------------------------------------------
(* Stopping: PeerConnection.fail, onDone, maybeDone and finish.            *)

Unfinished == {p \in Peers : phase[p] # "finished"}
Verifying  == {i \in Wanted : verifying[i] # "idle"}

\* fail() of the connections in gone, each of which has not finished yet.
\* A socket destroyed in its own turn ends the turn.
Stop(gone) ==
  /\ phase' = [p \in Peers |-> IF p \in gone THEN "finished" ELSE phase[p]]
  /\ wire' = [p \in Honest |->
                IF p \in gone THEN [blk \in Blocks |-> 0] ELSE wire[p]]
  /\ reports' = [p \in Peers |-> IF p \in gone THEN reports[p] + 1 ELSE reports[p]]
  /\ live' = live - Cardinality(gone)
  /\ ReleaseOwners(gone)
  /\ UNCHANGED <<choked, has, outstanding, depth>>

\* Mutant of Finish: stops connections that have already reported.
Finish_StopsAll(busy) ==
  /\ settled' = TRUE
  /\ awaited' = busy
  /\ Stop(Peers)

\* Mutant of Finish: resolves without waiting for the verifications.
Finish_NotAwaiting(busy) ==
  /\ settled' = TRUE
  /\ awaited' = {}
  /\ Stop(Unfinished)

\* finish: stop every connection and wait for the verifications in `busy`.
Finish(busy) ==
  /\ settled' = TRUE
  /\ awaited' = busy
  /\ Stop(Unfinished)


\* maybeDone, with `open` connections left and the verifications in `busy`.
Done(open, busy) == pieces = {} \/ (open = 0 /\ busy = {})

\* One connection fails: it reports, and maybeDone may finish the session.
Fail(p) ==
  IF ~settled /\ Done(live - 1, Verifying)
  THEN Finish(Verifying)
  ELSE Stop({p}) /\ UNCHANGED <<settled, awaited>>

-----------------------------------------------------------------------------
(* Socket events.  None arrives once the connection has failed: fail()     *)
(* removes the listeners.                                                  *)

Idle == ~died /\ turn = NoPeer

Connect(p) ==
  /\ Idle /\ phase[p] = "connecting"
  /\ phase' = [phase EXCEPT ![p] = "handshaking"]
  /\ UNCHANGED <<schedVars, choked, has, outstanding, depth, wire,
                 otherVars, stopVars, emitVars, client>>

\* A refused or timed-out connect, an error, the remote closing, or a
\* handshake for another torrent.
SocketFails(p) ==
  /\ Idle /\ phase[p] # "finished"
  /\ p \in Honest => "disconnect" \in Events
  /\ Fail(p)
  /\ UNCHANGED <<otherVars, emitVars, client>>

\* A handler of p runs, at the start of a chunk or in the middle of one.
Handles(p) ==
  /\ ~died /\ turn \in {NoPeer, p}
  /\ turn' = p
  /\ UNCHANGED <<deadlinePassed, stopVars, client>>

\* The remote handshake: we answer, and the rest of the chunk follows.
Handshake(p) ==
  /\ phase[p] = "handshaking" /\ turn = NoPeer
  /\ Handles(p)
  /\ phase' = [phase EXCEPT ![p] = "open"]
  /\ UNCHANGED <<schedVars, choked, has, outstanding, depth, wire,
                 discovered, emitVars>>

\* A bitfield replaces the previous one, but not the pieces of earlier `have`
\* messages: S is the bits together with those.
Bitfield(p, S) ==
  /\ phase[p] = "open"
  /\ p \in Honest => S = Holds[p]
  /\ Handles(p)
  /\ has' = [has EXCEPT ![p] = S]
  /\ UNCHANGED <<schedVars, phase, choked, outstanding, depth, wire,
                 discovered, emitVars>>

\* An honest peer announces all its pieces at once.
Have(p, i) ==
  /\ phase[p] = "open" /\ p \notin Honest
  /\ Handles(p)
  /\ has' = [has EXCEPT ![p] = @ \cup {i}]
  /\ UNCHANGED <<schedVars, phase, choked, outstanding, depth, wire,
                 discovered, emitVars>>

\* The remote discards the requests it has not answered; our `outstanding`
\* stays what it was.
Choke(p) ==
  /\ phase[p] = "open" /\ ~choked[p]
  /\ p \in Honest => "choke" \in Events
  /\ Handles(p)
  /\ choked' = [choked EXCEPT ![p] = TRUE]
  /\ wire' = [q \in Honest |-> IF q = p THEN [blk \in Blocks |-> 0] ELSE wire[q]]
  /\ UNCHANGED <<schedVars, phase, has, outstanding, depth, discovered, emitVars>>

Unchoke(p) ==
  /\ phase[p] = "open" /\ choked[p]
  /\ Handles(p)
  /\ choked' = [choked EXCEPT ![p] = FALSE]
  /\ UNCHANGED <<schedVars, phase, has, outstanding, depth, wire,
                 discovered, emitVars>>

\* Mutants of OneLess: without the floor; never counting an answer.
OneLess_NoFloor(n) == n - 1
OneLess_Never(n) == n

OneLess(n) == IF n > 0 THEN n - 1 ELSE 0

\* Foreign stands for a piece message outside the wanted blocks.
Foreign == <<-1, 0>>

\* What a piece message may carry: an honest peer sends what it was asked
\* for; any other peer sends whatever it likes, asked or not.
Sends(p, blk, bytes, spill) ==
  p \in Honest =>
    blk \in Blocks /\ wire[p][blk] > 0 /\ bytes = "good" /\ spill = {}

\* A piece message: one request less is outstanding, the pipeline depth is
\* adapted to the arrival rate, the scheduler stores the block, and when that
\* fills the piece its bytes are taken for hashing.
Piece(p, blk, bytes, spill) ==
  /\ phase[p] = "open"
  /\ Sends(p, blk, bytes, spill)
  /\ Handles(p)
  /\ outstanding' = [outstanding EXCEPT ![p] = OneLess(@)]
  /\ \E d \in PipelineMin .. PipelineMax : depth' = [depth EXCEPT ![p] = d]
  /\ wire' = [q \in Honest |->
                IF q = p THEN [wire[q] EXCEPT ![blk] = @ - 1] ELSE wire[q]]
  /\ OnBlock(blk, bytes, spill)
  /\ IF Fills(blk)
     THEN /\ verifying' = [verifying EXCEPT ![blk[1]] = "hashing"]
          /\ digest' = [digest EXCEPT ![blk[1]] =
                          \A c \in BlocksOf(blk[1]) : buffer'[c] = "good"]
     ELSE UNCHANGED <<verifying, digest>>
  /\ UNCHANGED <<phase, choked, has, discovered, stream, ended, died>>

\* Mutant of NewAddresses: forgets the peers of the request.
NewAddresses_KnownToo(added) == added \ discovered

NewAddresses(added) == added \ (KnownPeers \cup discovered)

\* A ut_pex message: new addresses are kept, in the order of the message, up
\* to MAX_DISCOVERED.
Pex(p, added) ==
  LET new == NewAddresses(added)
      room == MaxDiscovered - Cardinality(discovered) IN
  /\ phase[p] = "open"
  /\ Handles(p)
  /\ \E kept \in SUBSET new :
       /\ Cardinality(kept) = IF Cardinality(new) <= room
                              THEN Cardinality(new) ELSE room
       /\ discovered' = discovered \cup kept
  /\ UNCHANGED <<schedVars, peerVars, emitVars>>

-----------------------------------------------------------------------------
(* pump, at the end of every chunk (which may hold nothing that counts).   *)

EndsTurn(p) ==
  /\ ~died /\ phase[p] = "open" /\ turn \in {NoPeer, p}
  /\ turn' = NoPeer
  /\ UNCHANGED <<deadlinePassed, discovered, emitVars, client>>

PumpChoked(p) ==
  /\ turn = p /\ choked[p]
  /\ EndsTurn(p)
  /\ UNCHANGED <<schedVars, peerVars, stopVars>>

PumpLate(p) ==
  /\ ~choked[p] /\ deadlinePassed
  /\ EndsTurn(p)
  /\ Fail(p)

\* Mutant of Requests: fills the pipeline without counting what is in it.
Requests_Recount(p) == NextRequests(p, has[p], depth[p])

Requests(p) == NextRequests(p, has[p], depth[p] - outstanding[p])

\* Top up the pipeline.
PumpRequests(p) ==
  /\ ~choked[p] /\ ~deadlinePassed
  /\ ~(outstanding[p] = 0 /\ pieces = {})
  /\ EndsTurn(p)
  /\ Claim(p, Requests(p))
  /\ outstanding' = [outstanding EXCEPT ![p] = @ + Cardinality(Requests(p))]
  /\ wire' = [q \in Honest |->
       IF q # p THEN wire[q]
       ELSE [blk \in Blocks |-> IF blk \in Requests(p)
                                THEN wire[q][blk] + 1 ELSE wire[q][blk]]]
  /\ UNCHANGED <<phase, choked, has, depth, stopVars>>

\* Nothing left for anyone and nothing in flight.
PumpNothingLeft(p) ==
  /\ ~choked[p] /\ ~deadlinePassed
  /\ outstanding[p] = 0 /\ pieces = {}
  /\ EndsTurn(p)
  /\ Fail(p)

-----------------------------------------------------------------------------
(* Timers and verifications.                                               *)

DeadlinePasses ==
  /\ ~died /\ ~deadlinePassed /\ "deadline" \in Events
  /\ deadlinePassed' = TRUE
  /\ UNCHANGED <<schedVars, peerVars, turn, discovered, stopVars, emitVars, client>>

Timer ==
  /\ Idle /\ deadlinePassed /\ ~settled
  /\ Finish(Verifying)
  /\ UNCHANGED <<otherVars, emitVars, client>>

RequestAges(blk) ==
  /\ Idle /\ ~settled /\ "timeout" \in Events
  /\ RequestTimesOut(blk)
  /\ UNCHANGED <<peerVars, otherVars, stopVars, emitVars, client>>

\* The hash is right: the piece leaves the work set and is emitted, which
\* writes its frame unless the browser has gone.
HashMatches(i) ==
  /\ Idle /\ verifying[i] = "hashing" /\ digest[i]
  /\ Complete(i)
  /\ verifying' = [verifying EXCEPT ![i] = "emitting"]
  /\ stream' = IF client = "reading"
               THEN Append(stream, PieceFrame(i,
                             \A blk \in BlocksOf(i) : buffer[blk] = "good"))
               ELSE stream
  /\ UNCHANGED <<peerVars, otherVars, stopVars, digest, ended, died, client>>

\* The hash is wrong: the piece is reset and, in the same run of microtasks,
\* the verification ends.  With the piece still wanted maybeDone can only
\* find that no connection is left, so that finish has none to stop.
HashMismatches(i) ==
  /\ Idle /\ verifying[i] = "hashing" /\ ~digest[i]
  /\ Reset(i)
  /\ verifying' = [verifying EXCEPT ![i] = "idle"]
  /\ LET finishes == ~settled /\ Done(live, Verifying \ {i}) IN
       /\ settled' = (settled \/ finishes)
       /\ awaited' = IF finishes THEN Verifying \ {i} ELSE awaited
  /\ UNCHANGED <<peerVars, otherVars, live, reports, digest, stream, ended, died, client>>

\* .finally of a verification that emitted its piece: it leaves the set, and
\* maybeDone may finish the session.
LeaveVerifying(i) ==
  /\ verifying' = [verifying EXCEPT ![i] = "idle"]
  /\ IF ~settled /\ Done(live, Verifying \ {i})
     THEN Finish(Verifying \ {i})
     ELSE UNCHANGED <<schedVars, peerVars, stopVars>>
  /\ UNCHANGED <<otherVars, digest, stream, ended, client>>

\* The write was taken, or the response drained.
EmitDone(i) ==
  /\ Idle /\ verifying[i] = "emitting" /\ client = "reading"
  /\ LeaveVerifying(i)
  /\ UNCHANGED died

\* The write fails.  The rejection is handled only if finish had already put
\* this verification under allSettled.
EmitFails(i) ==
  /\ Idle /\ verifying[i] = "emitting" /\ client = "gone"
  /\ LeaveVerifying(i)
  /\ died' = (i \notin awaited)

ClientLeaves ==
  /\ Idle /\ client = "reading" /\ ~ended /\ "client" \in Events
  /\ client' = "gone"
  /\ UNCHANGED <<schedVars, peerVars, otherVars, stopVars, emitVars>>

\* All awaited verifications have settled: runDownload returns, the handler
\* writes the summary (or fails to) and ends the response.
Resolve ==
  /\ Idle /\ settled /\ ~ended
  /\ awaited \cap Verifying = {}
  /\ stream' = IF client = "reading" THEN Append(stream, SummaryFrame) ELSE stream
  /\ ended' = TRUE
  /\ UNCHANGED <<schedVars, peerVars, otherVars, stopVars,
                 verifying, digest, died, client>>

-----------------------------------------------------------------------------
Message(p) ==
  \/ Handshake(p)
  \/ \E S \in SUBSET Wanted : Bitfield(p, S)
  \/ \E i \in Wanted : Have(p, i)
  \/ Choke(p)
  \/ Unchoke(p)
  \/ \E blk \in Blocks \cup {Foreign}, bytes \in {"good", "bad"} :
       \E spill \in SUBSET Later(blk) : Piece(p, blk, bytes, spill)
  \/ \E added \in SUBSET Gossip \ {{}} : Pex(p, added)

Pump(p) == PumpChoked(p) \/ PumpLate(p) \/ PumpRequests(p) \/ PumpNothingLeft(p)

Verdict(i) == HashMatches(i) \/ HashMismatches(i) \/ EmitDone(i) \/ EmitFails(i)

Next ==
  \/ \E p \in Peers : Connect(p) \/ SocketFails(p) \/ Message(p) \/ Pump(p)
  \/ \E i \in Wanted : Verdict(i)
  \/ \E blk \in Blocks : RequestAges(blk)
  \/ DeadlinePasses
  \/ Timer
  \/ ClientLeaves
  \/ Resolve

Spec == Init /\ [][Next]_vars

\* What the scheduling of the code justifies.  Strong fairness where a chunk
\* of data can come first: the event loop serves its timers, microtasks and
\* sockets in rounds, so a callback that keeps becoming ready does run.
ProgramFairness ==
  /\ \A p \in Peers : WF_vars(turn = p /\ Pump(p))
  /\ \A i \in Wanted : SF_vars(Verdict(i))
  /\ SF_vars(Timer)
  /\ SF_vars(Resolve)
  /\ WF_vars(DeadlinePasses)

\* An honest peer accepts, answers the handshake, announces its pieces,
\* unchokes, and answers what it is asked.  It owes us nothing more: no
\* further message that would run our pump.
HonestPeer(p) ==
  \/ Connect(p) \/ Handshake(p) \/ Unchoke(p)
  \/ has[p] # Holds[p] /\ Bitfield(p, Holds[p])
HonestFairness ==
  \A p \in Honest :
    /\ SF_vars(HonestPeer(p))
    /\ \A blk \in Blocks : SF_vars(Piece(p, blk, "good", {}))

FairSpec == Spec /\ ProgramFairness
SwarmSpec == FairSpec /\ HonestFairness

-----------------------------------------------------------------------------
(* Safety.                                                                 *)

PieceFrames == {k \in DOMAIN stream : stream[k] # SummaryFrame}

(* Corruption never reaches the client: every frame holds the bytes whose  *)
(* hash matched, although the hash is computed of a copy, asynchronously,  *)
(* and the frame is filled from the live buffer later                      *)
(* (download-session.ts:77-83; integration.test.ts "no false commit").     *)
EmittedIntact == \A k \in PieceFrames : stream[k].intact

(* What was hashed is still what the buffer holds, until the verdict.      *)
HashedIsHeld ==
  \A i \in Wanted : verifying[i] = "hashing" =>
    /\ i \in pieces /\ Full(i)
    /\ digest[i] <=> (\A blk \in BlocksOf(i) : buffer[blk] = "good")

(* No outstanding request is held by a connection that is gone: releaseOwner*)
(* in fail() frees them all, and nobody claims after failing.  Otherwise   *)
(* the block waits REQUEST_TIMEOUT_MS for nobody.                          *)
RequestsHaveLiveOwners ==
  \A blk \in Blocks :
    blk[1] \in pieces /\ blockStates[blk] = "requested" =>
      requestOwner[blk] \in Peers /\ phase[requestOwner[blk]] = "open"

(* liveConnections counts the connections that have not reported, and each *)
(* reports exactly once, however fail, stop and finish call one another.   *)
EachReportsOnce ==
  /\ live = Cardinality(Unfinished)
  /\ \A p \in Peers : reports[p] = IF phase[p] = "finished" THEN 1 ELSE 0

(* The pipeline is never overcommitted: an honest peer owes no more blocks *)
(* than `outstanding` says, and nobody is asked for more than PIPELINE_MAX *)
(* at a time, though the depth shrinks under requests already sent, a      *)
(* choke drops requests that stay counted, and a dishonest peer answers    *)
(* what it was never asked (peer.ts:159, 172, 286, 300).                   *)
Tickets(p) == UNION {{blk} \X (1 .. wire[p][blk]) : blk \in Blocks}
Owed(p) == Cardinality(Tickets(p))
NeverOvercommitted ==
  /\ \A p \in Peers : outstanding[p] <= PipelineMax
  /\ \A p \in Honest : Owed(p) <= outstanding[p]

(* Once finish has run nothing new can start: all connections are stopped, *)
(* and every verification still running is one that the result waits for,  *)
(* so no piece frame can follow the summary.                               *)
SettledIsQuiet ==
  settled => /\ Unfinished = {} /\ turn = NoPeer
             /\ Verifying \subseteq awaited
             /\ ended => Verifying = {}

(* The peers reported back are new to the client, and no more than the     *)
(* summary has room for, whatever the order and overlap of the gossip      *)
(* (download-session.ts:99-106).                                           *)
DiscoveredIsNew ==
  discovered \cap KnownPeers = {} /\ Cardinality(discovered) <= MaxDiscovered

(* The session uses its scheduler as the scheduler expects: only full      *)
(* pieces are settled, each once, and blocks only go through onBlock.      *)
UsesScheduler == [][SchedNext]_schedVars

(* The response is what DownloadContract promises.                         *)
ImplementsContract == Contract!ContractSpec

-----------------------------------------------------------------------------
(* Liveness.                                                               *)


(* A swarm of honest peers that holds all the pieces between them delivers *)
(* all of them before the deadline.                                        *)
SwarmDelivers == <>(pieces = {} /\ ended)

-----------------------------------------------------------------------------
(* Claims of the comments that the code does not keep.                     *)

\* An honest connection ready to be asked for blocks of piece i.
Offers(p, i) == phase[p] = "open" /\ ~choked[p] /\ i \in has[p] /\ i \in pieces

(* "discard and let it be re-fetched" (download-session.ts:85): while an   *)
(* honest peer offers a piece of which nothing has arrived, some block of  *)
(* it does arrive, unless the session ends.                                *)
ResetIsRefetched ==
  \A p \in Honest, i \in Wanted :
    (Offers(p, i) /\ received[i] = 0) ~> (received[i] > 0 \/ settled \/ ~Offers(p, i))

(* "a write error just truncates the stream harmlessly"                    *)
(* (download-session.ts:81-82): no rejection goes unhandled.               *)
WriteErrorsAreHarmless == ~died
=============================================================================
