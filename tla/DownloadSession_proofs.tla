----------------------- MODULE DownloadSession_proofs -----------------------
(* What holds of a download session for any work set, any peers, honest or *)
(* not, and any events.                                                    *)
EXTENDS DownloadSession, PieceScheduler_proofs, SequenceTheorems

-----------------------------------------------------------------------------
(* Finiteness.                                                             *)

LEMMA FinitePeers == \A S \in SUBSET Peers : IsFiniteSet(S) /\ Cardinality(S) \in Nat
BY SessionAssumption, FS_Subset, FS_CardinalityType

LEMMA RequestsCount ==
  ASSUME NEW p \in Peers
  PROVE  Requests(p) \in SUBSET Blocks /\ Cardinality(Requests(p)) \in Nat
<1>1. Requests(p) \in SUBSET Blocks
  BY DEF Requests, NextRequests, FreshBlocks, DuplicateBlocks
<1> QED BY <1>1, FiniteBlocks, FS_Subset, FS_CardinalityType

-----------------------------------------------------------------------------
(* Types.  The scheduler's own types come from SchedInv; SessionTypes are  *)
(* the rest of TypeOK.                                                     *)

Frames == [type : {"piece"}, index : Wanted, intact : BOOLEAN] \cup {SummaryFrame}

PeerTypes ==
  /\ phase \in [Peers -> {"connecting", "handshaking", "open", "finished"}]
  /\ choked \in [Peers -> BOOLEAN]
  /\ has \in [Peers -> SUBSET Wanted]
  /\ outstanding \in [Peers -> Nat]
  /\ depth \in [Peers -> PipelineMin .. PipelineMax]
  /\ wire \in [Honest -> [Blocks -> Nat]]

StopTypes ==
  /\ live \in Int
  /\ reports \in [Peers -> Nat]
  /\ settled \in BOOLEAN
  /\ awaited \subseteq Wanted

OtherTypes ==
  /\ turn \in Peers \cup {NoPeer}
  /\ deadlinePassed \in BOOLEAN
  /\ discovered \subseteq Gossip
  /\ client \in {"reading", "gone"}

EmitTypes ==
  /\ verifying \in [Wanted -> {"idle", "hashing", "emitting"}]
  /\ digest \in [Wanted -> BOOLEAN]
  /\ stream \in Seq(Frames)
  /\ ended \in BOOLEAN
  /\ died \in BOOLEAN

SessionTypes == PeerTypes /\ StopTypes /\ OtherTypes /\ EmitTypes

LEMMA TypesTogether == SchedTypeOK /\ SessionTypes => TypeOK
BY DEF TypeOK, SessionTypes, PeerTypes, StopTypes, OtherTypes, EmitTypes, Frames

LEMMA InitTypes == Init => SessionTypes
<1> SUFFICES ASSUME Init PROVE SessionTypes
  OBVIOUS
<1>1. PeerTypes
  BY SessionAssumption DEF Init, PeerTypes
<1>2. StopTypes
  <2>1. Cardinality(Peers) \in Nat
    BY FinitePeers
  <2> QED BY <2>1 DEF Init, StopTypes
<1>3. OtherTypes
  BY DEF Init, OtherTypes
<1>4. EmitTypes
  BY EmptySeq DEF Init, EmitTypes
<1> QED BY <1>1, <1>2, <1>3, <1>4 DEF SessionTypes

LEMMA StopKeepsTypes ==
  ASSUME PeerTypes, StopTypes, NEW gone \in SUBSET Peers, Stop(gone)
  PROVE  PeerTypes' /\ live' \in Int /\ reports' \in [Peers -> Nat]
<1>1. Cardinality(gone) \in Nat
  BY FinitePeers
<1>2. PeerTypes'
  BY DEF Stop, PeerTypes
<1>3. live' \in Int /\ reports' \in [Peers -> Nat]
  BY <1>1 DEF Stop, StopTypes
<1> QED BY <1>2, <1>3

LEMMA FinishKeepsTypes ==
  ASSUME PeerTypes, StopTypes, NEW busy \in SUBSET Wanted, Finish(busy)
  PROVE  PeerTypes' /\ StopTypes'
<1>1. Unfinished \in SUBSET Peers
  BY DEF Unfinished
<1>2. PeerTypes' /\ live' \in Int /\ reports' \in [Peers -> Nat]
  BY <1>1, StopKeepsTypes DEF Finish
<1> QED BY <1>2 DEF Finish, StopTypes

LEMMA FailKeepsTypes ==
  ASSUME PeerTypes, StopTypes, NEW p \in Peers, Fail(p)
  PROVE  PeerTypes' /\ StopTypes'
<1>1. CASE Finish(Verifying)
  BY <1>1, FinishKeepsTypes DEF Verifying
<1>2. CASE Stop({p}) /\ UNCHANGED <<settled, awaited>>
  BY <1>2, StopKeepsTypes DEF StopTypes
<1> QED BY <1>1, <1>2 DEF Fail

-----------------------------------------------------------------------------
LEMMA MessageTypes ==
  ASSUME SessionTypes, NEW p \in Peers, Message(p)
  PROVE  SessionTypes'
<1> USE DEF SessionTypes
<1>1. StopTypes'
  BY DEF Message, Handshake, Bitfield, Have, Choke, Unchoke, Piece, Pex, Handles,
         StopTypes, stopVars
<1>2. CASE Handshake(p)
  BY <1>1, <1>2 DEF Handshake, Handles, PeerTypes, OtherTypes, EmitTypes, emitVars
<1>3. CASE \E S \in SUBSET Wanted : Bitfield(p, S)
  BY <1>1, <1>3 DEF Bitfield, Handles, PeerTypes, OtherTypes, EmitTypes, emitVars
<1>8. CASE \E i \in Wanted : Have(p, i)
  <2>1. has' \in [Peers -> SUBSET Wanted]
    BY <1>8 DEF Have, PeerTypes
  <2> QED BY <1>1, <1>8, <2>1 DEF Have, Handles, PeerTypes, OtherTypes, EmitTypes, emitVars
<1>4. CASE Choke(p)
  BY <1>1, <1>4 DEF Choke, Handles, PeerTypes, OtherTypes, EmitTypes, emitVars
<1>5. CASE Unchoke(p)
  BY <1>1, <1>5 DEF Unchoke, Handles, PeerTypes, OtherTypes, EmitTypes, emitVars
<1>6. CASE \E blk \in Blocks \cup {Foreign}, bytes \in {"good", "bad"} :
             \E spill \in SUBSET Later(blk) : Piece(p, blk, bytes, spill)
  <2>1. PICK blk \in Blocks \cup {Foreign}, bytes \in {"good", "bad"} :
               \E spill \in SUBSET Later(blk) : Piece(p, blk, bytes, spill)
    BY <1>6
  <2>2. PICK spill \in SUBSET Later(blk) : Piece(p, blk, bytes, spill)
    BY <2>1
  <2>3. outstanding' \in [Peers -> Nat]
    BY <2>2 DEF Piece, OneLess, PeerTypes
  <2>4. wire' \in [Honest -> [Blocks -> Nat]]
    BY <2>2 DEF Piece, Sends, PeerTypes
  <2>5. depth' \in [Peers -> PipelineMin .. PipelineMax]
    BY <2>2 DEF Piece, PeerTypes
  <2>6. PeerTypes'
    BY <2>2, <2>3, <2>4, <2>5 DEF Piece, PeerTypes
  <2>7. OtherTypes'
    BY <2>2 DEF Piece, Handles, OtherTypes
  <2>8. EmitTypes'
    BY <2>2 DEF Piece, EmitTypes
  <2> QED BY <1>1, <2>6, <2>7, <2>8
<1>7. CASE \E added \in SUBSET Gossip \ {{}} : Pex(p, added)
  <2>1. PICK added \in SUBSET Gossip : Pex(p, added)
    BY <1>7
  <2>2. discovered' \subseteq Gossip
    BY <2>1 DEF Pex, NewAddresses, OtherTypes
  <2>3. PeerTypes' /\ EmitTypes'
    BY <2>1 DEF Pex, peerVars, emitVars, PeerTypes, EmitTypes
  <2>4. OtherTypes'
    BY <2>1, <2>2 DEF Pex, Handles, OtherTypes
  <2> QED BY <1>1, <2>3, <2>4
<1> QED BY <1>2, <1>3, <1>4, <1>5, <1>6, <1>7, <1>8 DEF Message

LEMMA PumpTypes ==
  ASSUME SessionTypes, NEW p \in Peers, Pump(p)
  PROVE  SessionTypes'
<1> USE DEF SessionTypes
<1>1. OtherTypes' /\ EmitTypes'
  BY DEF Pump, PumpChoked, PumpLate, PumpRequests, PumpNothingLeft, EndsTurn,
         emitVars, OtherTypes, EmitTypes
<1>2. CASE PumpChoked(p)
  BY <1>1, <1>2 DEF PumpChoked, peerVars, stopVars, PeerTypes, StopTypes
<1>3. CASE PumpLate(p) \/ PumpNothingLeft(p)
  BY <1>1, <1>3, FailKeepsTypes DEF PumpLate, PumpNothingLeft
<1>4. CASE PumpRequests(p)
  <2>1. outstanding' \in [Peers -> Nat]
    BY <1>4, RequestsCount DEF PumpRequests, PeerTypes
  <2>2. wire' \in [Honest -> [Blocks -> Nat]]
    BY <1>4 DEF PumpRequests, PeerTypes
  <2> QED BY <1>1, <1>4, <2>1, <2>2 DEF PumpRequests, stopVars, PeerTypes, StopTypes
<1> QED BY <1>2, <1>3, <1>4 DEF Pump

LEMMA VerdictTypes ==
  ASSUME SessionTypes, NEW i \in Wanted, Verdict(i)
  PROVE  SessionTypes'
<1> USE DEF SessionTypes
<1>1. CASE HashMatches(i)
  <2>1. PieceFrame(i, \A blk \in BlocksOf(i) : buffer[blk] = "good") \in Frames
    BY DEF PieceFrame, Contract!PieceFrame, Frames
  <2>2. stream' \in Seq(Frames)
    BY <1>1, <2>1, AppendProperties DEF HashMatches, EmitTypes
  <2>3. EmitTypes'
    BY <1>1, <2>2 DEF HashMatches, EmitTypes
  <2> QED BY <1>1, <2>3 DEF HashMatches, peerVars, otherVars, stopVars,
                            PeerTypes, OtherTypes, StopTypes
<1>2. CASE HashMismatches(i)
  <2>1. StopTypes'
    BY <1>2 DEF HashMismatches, Verifying, StopTypes
  <2>2. EmitTypes'
    BY <1>2 DEF HashMismatches, EmitTypes
  <2> QED BY <1>2, <2>1, <2>2 DEF HashMismatches, peerVars, otherVars, PeerTypes, OtherTypes
<1>3. CASE EmitDone(i) \/ EmitFails(i)
  <2>1. LeaveVerifying(i) /\ died' \in BOOLEAN
    BY <1>3 DEF EmitDone, EmitFails, EmitTypes
  <2>2. PeerTypes' /\ StopTypes'
    <3>1. CASE Finish(Verifying \ {i})
      BY <3>1, FinishKeepsTypes DEF Verifying
    <3>2. CASE UNCHANGED <<schedVars, peerVars, stopVars>>
      BY <3>2 DEF peerVars, stopVars, PeerTypes, StopTypes
    <3> QED BY <2>1, <3>1, <3>2 DEF LeaveVerifying
  <2>3. EmitTypes' /\ OtherTypes'
    BY <2>1 DEF LeaveVerifying, otherVars, EmitTypes, OtherTypes
  <2> QED BY <2>2, <2>3
<1> QED BY <1>1, <1>2, <1>3 DEF Verdict

LEMMA NextTypes == SessionTypes /\ [Next]_vars => SessionTypes'
<1> SUFFICES ASSUME SessionTypes, [Next]_vars PROVE SessionTypes'
  OBVIOUS
<1>1. ASSUME NEW p \in Peers, Connect(p) PROVE SessionTypes'
  BY <1>1 DEF Connect, otherVars, stopVars, emitVars,
              SessionTypes, PeerTypes, StopTypes, OtherTypes, EmitTypes
<1>2. ASSUME NEW p \in Peers, SocketFails(p) PROVE SessionTypes'
  <2>1. PeerTypes' /\ StopTypes'
    BY <1>2, FailKeepsTypes DEF SocketFails, SessionTypes
  <2> QED BY <1>2, <2>1 DEF SocketFails, otherVars, emitVars,
                            SessionTypes, OtherTypes, EmitTypes
<1>3. ASSUME NEW p \in Peers, Message(p) \/ Pump(p) PROVE SessionTypes'
  BY <1>3, MessageTypes, PumpTypes
<1>4. ASSUME NEW i \in Wanted, Verdict(i) PROVE SessionTypes'
  BY <1>4, VerdictTypes
<1>5. CASE Timer
  <2>1. PeerTypes' /\ StopTypes'
    BY <1>5, FinishKeepsTypes DEF Timer, Verifying, SessionTypes
  <2> QED BY <1>5, <2>1 DEF Timer, otherVars, emitVars, SessionTypes, OtherTypes, EmitTypes
<1>6. CASE Resolve
  <2>1. SummaryFrame \in Frames
    BY DEF Frames
  <2>2. stream' \in Seq(Frames)
    BY <1>6, <2>1, AppendProperties DEF Resolve, SessionTypes, EmitTypes
  <2> QED BY <1>6, <2>2 DEF Resolve, peerVars, otherVars, stopVars,
                SessionTypes, PeerTypes, StopTypes, OtherTypes, EmitTypes
<1>7. CASE DeadlinePasses \/ ClientLeaves \/ \E blk \in Blocks : RequestAges(blk)
  BY <1>7 DEF DeadlinePasses, ClientLeaves, RequestAges, peerVars, otherVars, stopVars,
              emitVars, SessionTypes, PeerTypes, StopTypes, OtherTypes, EmitTypes
<1>8. CASE UNCHANGED vars
  BY <1>8 DEF vars, peerVars, otherVars, stopVars, emitVars,
              SessionTypes, PeerTypes, StopTypes, OtherTypes, EmitTypes
<1> QED BY <1>1, <1>2, <1>3, <1>4, <1>5, <1>6, <1>7, <1>8 DEF Next
-----------------------------------------------------------------------------
(* The inductive invariant: what the runs check of the connections, of the *)
(* verifications and of the end of the session, and what those rest on.    *)

\* A piece being emitted has left the work set.
EmittingIsGone == \A i \in Wanted : verifying[i] = "emitting" => i \notin pieces

\* A frame is intact and its piece has left the work set; the summary is
\* written when the response ends, and it ends after finish.
StreamInv ==
  /\ \A k \in DOMAIN stream :
       IF stream[k] = SummaryFrame THEN ended
       ELSE stream[k].intact /\ stream[k].index \notin pieces
  /\ ended => settled

ConnInv == EachReportsOnce /\ RequestsHaveLiveOwners
VerdictInv == HashedIsHeld /\ EmittingIsGone /\ StreamInv /\ SettledIsQuiet

IInv == SessionTypes /\ SchedInv /\ ConnInv /\ VerdictInv

LEMMA InitIInv == Init => IInv
<1> SUFFICES ASSUME Init PROVE IInv
  OBVIOUS
<1>1. SessionTypes
  BY InitTypes
<1>2. SchedInv
  BY SchedInitInv DEF Init
<1>3. ConnInv
  <2>1. Unfinished = Peers
    BY DEF Init, Unfinished
  <2> QED BY <2>1 DEF Init, SchedInit, ConnInv, EachReportsOnce, RequestsHaveLiveOwners
<1>4. HashedIsHeld /\ EmittingIsGone /\ StreamInv
  BY DEF Init, HashedIsHeld, EmittingIsGone, StreamInv
<1>5. SettledIsQuiet
  <2>1. Verifying = {}
    BY DEF Init, Verifying
  <2>2. settled => Unfinished = {}
    BY DEF Init, Unfinished
  <2> QED BY <2>1, <2>2 DEF Init, SettledIsQuiet
<1> QED BY <1>1, <1>2, <1>3, <1>4, <1>5 DEF IInv, VerdictInv

-----------------------------------------------------------------------------
(* The session drives the scheduler by its protocol.                       *)

\* Room for more requests than there are blocks is room for all of them.
LEMMA RoomForAll ==
  ASSUME NEW o \in Owners, NEW S \in SUBSET Wanted, NEW room \in Int,
         room > Cardinality(Blocks)
  PROVE  NextRequests(o, S, room) = NextRequests(o, S, Cardinality(Blocks))
<1> DEFINE fresh == FreshBlocks(S)
           candidates == fresh \cup DuplicateBlocks(o, S)
           earlier(d) == {c \in candidates : PickedBefore(c, d, fresh)}
<1>1. ASSUME NEW d \in candidates
      PROVE  Cardinality(earlier(d)) \in Nat /\ Cardinality(earlier(d)) < Cardinality(Blocks)
  <2>1. candidates \subseteq Blocks
    BY DEF FreshBlocks, DuplicateBlocks
  <2>2. d[1] \in Nat /\ d[2] \in Nat
    BY <2>1, BlockParts, SchedulerAssumption
  <2>3. d \notin earlier(d)
    BY <2>2 DEF PickedBefore, ScanBefore
  <2>4. earlier(d) \in SUBSET (Blocks \ {d})
    BY <2>1, <2>3
  <2>5. /\ IsFiniteSet(Blocks \ {d})
        /\ Cardinality(Blocks \ {d}) = Cardinality(Blocks) - 1
    BY <2>1, FiniteBlocks, FS_RemoveElement
  <2>6. /\ IsFiniteSet(earlier(d))
        /\ Cardinality(earlier(d)) <= Cardinality(Blocks \ {d})
    BY <2>4, <2>5, FS_Subset
  <2>7. Cardinality(earlier(d)) \in Nat /\ Cardinality(Blocks) \in Nat
    BY <2>6, FiniteBlocks, FS_CardinalityType
  <2> QED BY <2>5, <2>6, <2>7
<1>2. Cardinality(Blocks) \in Nat
  BY FiniteBlocks, FS_CardinalityType
<1> HIDE DEF fresh
<1>3. NextRequests(o, S, room) = candidates
  BY <1>1, <1>2 DEF NextRequests, fresh
<1>4. NextRequests(o, S, Cardinality(Blocks)) = candidates
  BY <1>1, <1>2 DEF NextRequests, fresh
<1> QED BY <1>3, <1>4

LEMMA NoRoom ==
  ASSUME NEW o, NEW S, NEW room \in Int, NextRequests(o, S, room) # {}
  PROVE  room >= 1
<1>1. PICK d : d \in NextRequests(o, S, room)
  OBVIOUS
<1> DEFINE fresh == FreshBlocks(S)
           earlier == {c \in fresh \cup DuplicateBlocks(o, S) : PickedBefore(c, d, fresh)}
<1>2. Cardinality(earlier) < room
  BY <1>1 DEF NextRequests
<1>3. earlier \in SUBSET Blocks
  BY DEF FreshBlocks, DuplicateBlocks
<1>4. Cardinality(earlier) \in Nat
  BY <1>3, FiniteBlocks, FS_Subset, FS_CardinalityType
<1> QED BY <1>2, <1>4

LEMMA ClaimStep ==
  ASSUME IInv, NEW p \in Peers, PumpRequests(p)
  PROVE  [SchedNext]_schedVars
<1> DEFINE room == depth[p] - outstanding[p]
<1>0. p \in Owners /\ has[p] \in SUBSET Wanted /\ room \in Int
  BY SessionAssumption DEF IInv, SessionTypes, PeerTypes
<1>1. Claim(p, NextRequests(p, has[p], room))
  BY DEF PumpRequests, Requests
<1>2. Cardinality(Blocks) \in Nat
  BY FiniteBlocks, FS_CardinalityType
<1> HIDE DEF room
<1>3. CASE NextRequests(p, has[p], room) = {}
  <2>1. Claim(p, {})
    BY <1>1, <1>3
  <2> QED BY <2>1 DEF Claim, schedVars, IInv, SchedInv, SchedTypeOK
<1>4. CASE NextRequests(p, has[p], room) # {} /\ room <= Cardinality(Blocks)
  <2>1. room \in 1 .. Cardinality(Blocks)
    BY <1>0, <1>2, <1>4, NoRoom
  <2> QED BY <1>0, <1>1, <1>4, <2>1 DEF SchedNext, SchedClaim
<1>5. CASE NextRequests(p, has[p], room) # {} /\ room > Cardinality(Blocks)
  <2>1. NextRequests(p, has[p], room) = NextRequests(p, has[p], Cardinality(Blocks))
    BY <1>0, <1>5, RoomForAll
  <2>2. Cardinality(Blocks) \in 1 .. Cardinality(Blocks)
    BY <1>2, <1>5, <2>1, NoRoom
  <2> QED BY <1>0, <1>1, <1>5, <2>1, <2>2 DEF SchedNext, SchedClaim
<1> QED BY <1>0, <1>2, <1>3, <1>4, <1>5

LEMMA StopStep ==
  ASSUME NEW gone \in SUBSET Peers, Stop(gone)
  PROVE  SchedNext
BY SessionAssumption DEF Stop, SchedNext, SchedRelease

LEMMA PieceStep ==
  ASSUME IInv, NEW p \in Peers, Message(p)
  PROVE  [SchedNext]_schedVars
<1>1. CASE \E blk \in Blocks \cup {Foreign}, bytes \in {"good", "bad"} :
             \E spill \in SUBSET Later(blk) : Piece(p, blk, bytes, spill)
  <2>1. PICK blk \in Blocks \cup {Foreign}, bytes \in {"good", "bad"} :
               \E spill \in SUBSET Later(blk) : OnBlock(blk, bytes, spill)
    BY <1>1 DEF Piece
  <2>2. CASE Accepts(blk)
    BY <2>1, <2>2 DEF OnBlock, Accepts, SchedNext, SchedBlock
  <2>3. CASE ~Accepts(blk)
    BY <2>1, <2>3 DEF OnBlock
  <2> QED BY <2>2, <2>3
<1> QED BY <1>1 DEF Message, Handshake, Bitfield, Have, Choke, Unchoke, Pex, schedVars

LEMMA SchedulerStep == IInv /\ [Next]_vars => [SchedNext]_schedVars
<1> SUFFICES ASSUME IInv, [Next]_vars PROVE [SchedNext]_schedVars
  OBVIOUS
<1>1. ASSUME NEW p \in Peers, SocketFails(p) \/ PumpLate(p) \/ PumpNothingLeft(p)
      PROVE SchedNext
  <2>1. Fail(p)
    BY <1>1 DEF SocketFails, PumpLate, PumpNothingLeft
  <2>2. \E gone \in SUBSET Peers : Stop(gone)
    BY <2>1 DEF Fail, Finish, Unfinished
  <2> QED BY <2>2, StopStep
<1>2. ASSUME NEW p \in Peers, Message(p) PROVE [SchedNext]_schedVars
  BY <1>2, PieceStep
<1>3. ASSUME NEW p \in Peers, PumpRequests(p) PROVE [SchedNext]_schedVars
  BY <1>3, ClaimStep
<1>4. CASE Timer
  BY <1>4, StopStep DEF Timer, Finish, Unfinished
<1>5. ASSUME NEW i \in Wanted, Verdict(i) PROVE [SchedNext]_schedVars
  <2>1. CASE HashMatches(i)
    BY <2>1 DEF HashMatches, IInv, VerdictInv, HashedIsHeld, SchedNext, SchedComplete
  <2>2. CASE HashMismatches(i)
    BY <2>2 DEF HashMismatches, IInv, VerdictInv, HashedIsHeld, SchedNext, SchedReset
  <2>3. CASE LeaveVerifying(i)
    BY <2>3, StopStep DEF LeaveVerifying, Finish, Unfinished
  <2> QED BY <1>5, <2>1, <2>2, <2>3 DEF Verdict, EmitDone, EmitFails
<1>6. CASE \E blk \in Blocks : RequestAges(blk)
  BY <1>6 DEF RequestAges, SchedNext
<1>7. CASE \/ \E p \in Peers : Connect(p) \/ PumpChoked(p)
           \/ DeadlinePasses \/ ClientLeaves \/ Resolve \/ UNCHANGED vars
  BY <1>7 DEF Connect, PumpChoked, DeadlinePasses, ClientLeaves, Resolve, vars
<1> QED BY <1>1, <1>2, <1>3, <1>4, <1>5, <1>6, <1>7 DEF Next, Pump
-----------------------------------------------------------------------------
(* Connections: each reports once, and owners of requests are open.        *)

LEMMA NotSettled ==
  ASSUME IInv, NEW p \in Peers, phase[p] # "finished"
  PROVE  ~settled /\ ~ended
BY DEF IInv, VerdictInv, StreamInv, SettledIsQuiet, Unfinished

LEMMA StopConn ==
  ASSUME IInv, NEW gone \in SUBSET Unfinished, Stop(gone)
  PROVE  /\ Unfinished' = Unfinished \ gone
         /\ ConnInv'
<1>0. gone \in SUBSET Peers /\ Unfinished \in SUBSET Peers
  BY DEF Unfinished
<1>1. Unfinished' = Unfinished \ gone
  BY DEF Stop, Unfinished
<1>2. live' = Cardinality(Unfinished')
  <2>1. /\ IsFiniteSet(Unfinished) /\ IsFiniteSet(gone)
        /\ Cardinality(Unfinished) \in Nat /\ Cardinality(gone) \in Nat
    BY <1>0, FinitePeers
  <2>2. Cardinality(Unfinished \ gone) = Cardinality(Unfinished) - Cardinality(Unfinished \cap gone)
    BY <2>1, FS_Difference
  <2>3. Unfinished \cap gone = gone
    OBVIOUS
  <2> QED BY <1>1, <2>1, <2>2, <2>3 DEF Stop, IInv, ConnInv, EachReportsOnce
<1>3. \A p \in Peers : reports'[p] = IF phase'[p] = "finished" THEN 1 ELSE 0
  BY DEF Stop, Unfinished, IInv, ConnInv, EachReportsOnce
<1>4. RequestsHaveLiveOwners'
  <2> SUFFICES ASSUME NEW blk \in Blocks, blk[1] \in pieces', blockStates'[blk] = "requested"
               PROVE  /\ requestOwner'[blk] \in Peers
                      /\ phase'[requestOwner'[blk]] = "open"
    BY DEF RequestsHaveLiveOwners, Blocks
  <2>1. pieces' = pieces /\ blk \notin OwnedBy(gone) /\ blockStates[blk] = "requested"
    BY DEF Stop, ReleaseOwners
  <2>2. requestOwner'[blk] = requestOwner[blk]
    BY <2>1 DEF Stop, ReleaseOwners
  <2>3. requestOwner[blk] \in Peers /\ phase[requestOwner[blk]] = "open"
    BY <2>1 DEF IInv, ConnInv, RequestsHaveLiveOwners
  <2>4. requestOwner[blk] \notin gone
    BY <2>1 DEF OwnedBy
  <2> QED BY <2>2, <2>3, <2>4 DEF Stop
<1> QED BY <1>1, <1>2, <1>3, <1>4 DEF ConnInv, EachReportsOnce

\* Phases move on without finishing, and no request is made.
LEMMA QuietConn ==
  ASSUME IInv, live' = live, reports' = reports, Unfinished' = Unfinished,
         \A p \in Peers : /\ phase'[p] = "finished" <=> phase[p] = "finished"
                          /\ phase[p] = "open" => phase'[p] = "open",
         pieces' \subseteq pieces,
         \A blk \in Blocks : blk[1] \in pieces' /\ blockStates'[blk] = "requested" =>
            blockStates[blk] = "requested" /\ requestOwner'[blk] = requestOwner[blk]
  PROVE  ConnInv'
<1>1. EachReportsOnce'
  BY DEF IInv, ConnInv, EachReportsOnce
<1>2. RequestsHaveLiveOwners'
  BY DEF IInv, ConnInv, RequestsHaveLiveOwners, Blocks
<1> QED BY <1>1, <1>2 DEF ConnInv

LEMMA FailConn ==
  ASSUME IInv, NEW p \in Peers, phase[p] # "finished", Fail(p)
  PROVE  ConnInv'
<1>1. p \in Unfinished
  BY DEF Unfinished
<1> QED BY <1>1, StopConn DEF Fail, Finish

LEMMA MessageConn ==
  ASSUME IInv, NEW p \in Peers, Message(p)
  PROVE  ConnInv'
<1>0. live' = live /\ reports' = reports
  BY DEF Message, Handshake, Bitfield, Have, Choke, Unchoke, Piece, Pex, Handles, stopVars
<1>1. \A q \in Peers : /\ phase'[q] = "finished" <=> phase[q] = "finished"
                       /\ phase[q] = "open" => phase'[q] = "open"
  <2>1. CASE Handshake(p)
    BY <2>1 DEF Handshake, IInv, SessionTypes, PeerTypes
  <2>2. CASE phase' = phase
    BY <2>2
  <2> QED BY <2>1, <2>2 DEF Message, Bitfield, Have, Choke, Unchoke, Piece, Pex, peerVars
<1>2. Unfinished' = Unfinished
  BY <1>1 DEF Unfinished
<1>3. CASE UNCHANGED schedVars
  BY <1>0, <1>1, <1>2, <1>3, QuietConn DEF schedVars
<1>4. CASE \E blk \in Blocks \cup {Foreign}, bytes \in {"good", "bad"} :
             \E spill \in SUBSET Later(blk) : Piece(p, blk, bytes, spill)
  <2>1. PICK blk \in Blocks \cup {Foreign}, bytes \in {"good", "bad"} :
               \E spill \in SUBSET Later(blk) : OnBlock(blk, bytes, spill)
    BY <1>4 DEF Piece
  <2>2. CASE Accepts(blk)
    <3>1. pieces' = pieces
      BY <2>1, <2>2 DEF OnBlock, StoreBlock
    <3>2. \A c \in Blocks : blockStates'[c] = "requested" =>
            blockStates[c] = "requested" /\ requestOwner'[c] = requestOwner[c]
      BY <2>1, <2>2 DEF OnBlock, StoreBlock, Accepts, IInv, SchedInv, SchedTypeOK
    <3> QED BY <1>0, <1>1, <1>2, <3>1, <3>2, QuietConn
  <2>3. CASE ~Accepts(blk)
    BY <1>3, <2>1, <2>3 DEF OnBlock
  <2> QED BY <2>2, <2>3
<1> QED BY <1>3, <1>4 DEF Message, Handshake, Bitfield, Have, Choke, Unchoke, Pex

LEMMA PumpConn ==
  ASSUME IInv, NEW p \in Peers, Pump(p)
  PROVE  ConnInv'
<1>0. phase[p] = "open"
  BY DEF Pump, PumpChoked, PumpLate, PumpRequests, PumpNothingLeft, EndsTurn
<1>1. CASE PumpChoked(p)
  BY <1>1, QuietConn DEF PumpChoked, peerVars, stopVars, schedVars, Unfinished
<1>2. CASE PumpLate(p) \/ PumpNothingLeft(p)
  BY <1>0, <1>2, FailConn DEF PumpLate, PumpNothingLeft
<1>3. CASE PumpRequests(p)
  <2>1. EachReportsOnce'
    BY <1>3 DEF PumpRequests, stopVars, IInv, ConnInv, EachReportsOnce, Unfinished
  <2>2. RequestsHaveLiveOwners'
    BY <1>0, <1>3 DEF PumpRequests, Claim, IInv, ConnInv, RequestsHaveLiveOwners, Blocks
  <2> QED BY <2>1, <2>2 DEF ConnInv
<1> QED BY <1>1, <1>2, <1>3 DEF Pump

LEMMA VerdictConn ==
  ASSUME IInv, NEW i \in Wanted, Verdict(i)
  PROVE  ConnInv'
<1>1. CASE HashMatches(i)
  BY <1>1, QuietConn DEF HashMatches, Complete, peerVars, stopVars, Unfinished
<1>2. CASE HashMismatches(i)
  <2>1. i \in pieces
    BY <1>2 DEF HashMismatches, IInv, VerdictInv, HashedIsHeld
  <2> QED BY <1>2, <2>1, QuietConn DEF HashMismatches, Reset, peerVars, Unfinished
<1>3. CASE LeaveVerifying(i)
  <2>1. CASE Finish(Verifying \ {i})
    BY <2>1, StopConn DEF Finish
  <2>2. CASE UNCHANGED <<schedVars, peerVars, stopVars>>
    BY <2>2, QuietConn DEF schedVars, peerVars, stopVars, Unfinished
  <2> QED BY <1>3, <2>1, <2>2 DEF LeaveVerifying
<1> QED BY <1>1, <1>2, <1>3 DEF Verdict, EmitDone, EmitFails

LEMMA NextConn == IInv /\ [Next]_vars => ConnInv'
<1> SUFFICES ASSUME IInv, [Next]_vars PROVE ConnInv'
  OBVIOUS
<1>1. ASSUME NEW p \in Peers, Connect(p) PROVE ConnInv'
  <2>1. \A q \in Peers : /\ phase'[q] = "finished" <=> phase[q] = "finished"
                         /\ phase[q] = "open" => phase'[q] = "open"
    BY <1>1 DEF Connect, IInv, SessionTypes, PeerTypes
  <2> QED BY <1>1, <2>1, QuietConn DEF Connect, schedVars, stopVars, Unfinished
<1>2. ASSUME NEW p \in Peers, SocketFails(p) PROVE ConnInv'
  BY <1>2, FailConn DEF SocketFails
<1>3. ASSUME NEW p \in Peers, Message(p) \/ Pump(p) PROVE ConnInv'
  BY <1>3, MessageConn, PumpConn
<1>4. ASSUME NEW i \in Wanted, Verdict(i) PROVE ConnInv'
  BY <1>4, VerdictConn
<1>5. CASE Timer
  BY <1>5, StopConn DEF Timer, Finish
<1>6. CASE \E blk \in Blocks : RequestAges(blk)
  BY <1>6, QuietConn DEF RequestAges, RequestTimesOut, peerVars, stopVars, Unfinished
<1>7. CASE DeadlinePasses \/ ClientLeaves \/ Resolve \/ UNCHANGED vars
  BY <1>7, QuietConn DEF DeadlinePasses, ClientLeaves, Resolve, vars, schedVars, peerVars,
                         stopVars, Unfinished
<1> QED BY <1>1, <1>2, <1>3, <1>4, <1>5, <1>6, <1>7 DEF Next

-----------------------------------------------------------------------------
(* Verifications and the end of the session.                               *)

VerifyInv == HashedIsHeld /\ EmittingIsGone /\ StreamInv

\* Nothing is stored, settled or written; a verification may end.
LEMMA QuietVerify ==
  ASSUME IInv, \A j \in Wanted : verifying'[j] \in {verifying[j], "idle"},
         digest' = digest, stream' = stream, ended' = ended,
         settled => settled',
         pieces' = pieces, received' = received, buffer' = buffer
  PROVE  VerifyInv'
<1>1. HashedIsHeld'
  BY DEF IInv, VerdictInv, HashedIsHeld, Full, BlocksOf, Blocks
<1>2. EmittingIsGone'
  BY DEF IInv, VerdictInv, EmittingIsGone
<1>3. StreamInv'
  BY DEF IInv, VerdictInv, StreamInv, SummaryFrame, Contract!SummaryFrame
<1> QED BY <1>1, <1>2, <1>3 DEF VerifyInv

LEMMA StopVerify ==
  ASSUME IInv, NEW gone \in SUBSET Peers, Stop(gone), settled => settled',
         \A j \in Wanted : verifying'[j] \in {verifying[j], "idle"},
         digest' = digest, stream' = stream, ended' = ended
  PROVE  VerifyInv'
<1>1. pieces' = pieces /\ received' = received /\ buffer' = buffer
  BY DEF Stop, ReleaseOwners
<1> QED BY <1>1, QuietVerify

\* finish leaves everything quiet.
LEMMA FinishQuiet ==
  ASSUME IInv, ~settled, NEW busy, Finish(busy), turn' = NoPeer,
         Verifying' \subseteq busy, ended' = ended
  PROVE  SettledIsQuiet'
<1>1. Unfinished' = {}
  <2>1. Unfinished \in SUBSET Unfinished
    OBVIOUS
  <2> QED BY <2>1, StopConn DEF Finish
<1>2. ~ended'
  BY DEF IInv, VerdictInv, StreamInv
<1> QED BY <1>1, <1>2 DEF Finish, SettledIsQuiet

LEMMA FailVerdict ==
  ASSUME IInv, NEW p \in Peers, phase[p] # "finished", Fail(p), turn' = NoPeer,
         UNCHANGED emitVars
  PROVE  VerdictInv'
<1>0. ~settled /\ Verifying' = Verifying
  BY NotSettled DEF emitVars, Verifying
<1>1. CASE Finish(Verifying)
  <2>1. Unfinished \in SUBSET Peers /\ Stop(Unfinished)
    BY <1>1 DEF Finish, Unfinished
  <2>2. VerifyInv'
    BY <1>0, <2>1, StopVerify DEF emitVars
  <2>3. SettledIsQuiet'
    BY <1>0, <1>1, FinishQuiet DEF emitVars
  <2> QED BY <2>2, <2>3 DEF VerifyInv, VerdictInv
<1>2. CASE Stop({p}) /\ UNCHANGED <<settled, awaited>>
  <2>1. VerifyInv'
    BY <1>2, StopVerify DEF emitVars
  <2>2. SettledIsQuiet'
    BY <1>0, <1>2 DEF SettledIsQuiet
  <2> QED BY <2>1, <2>2 DEF VerifyInv, VerdictInv
<1> QED BY <1>1, <1>2 DEF Fail

\* A piece that is full takes no block.
LEMMA FullAcceptsNone ==
  ASSUME IInv, NEW blk \in Blocks \cup {Foreign}, Accepts(blk)
  PROVE  blk \in Blocks /\ blk[1] \in Wanted /\ ~Full(blk[1])
<1>1. blk \in Blocks /\ blk[1] \in Wanted /\ blk \in BlocksOf(blk[1])
  BY BlockParts DEF Accepts
<1>2. received[blk[1]] = Cardinality(DoneOf(blk[1]))
  BY <1>1 DEF IInv, SchedInv
<1> QED BY <1>1, <1>2, FullIsDone DEF Accepts

LEMMA PieceVerify ==
  ASSUME IInv, NEW p \in Peers, NEW blk \in Blocks \cup {Foreign},
         NEW bytes \in {"good", "bad"}, NEW spill \in SUBSET Later(blk),
         Piece(p, blk, bytes, spill)
  PROVE  VerifyInv'
<1> USE DEF IInv, VerdictInv
<1>1. CASE ~Accepts(blk)
  <2>1. /\ UNCHANGED <<verifying, digest, stream, ended, settled>>
        /\ UNCHANGED <<pieces, received, buffer>>
    BY <1>1 DEF Piece, Fills, OnBlock, schedVars, Handles, stopVars
  <2> QED BY <2>1, QuietVerify
<1>2. CASE Accepts(blk)
  <2> DEFINE j == blk[1]
  <2>0. blk \in Blocks /\ j \in Wanted /\ ~Full(j)
    BY <1>2, FullAcceptsNone
  <2>1. /\ pieces' = pieces /\ j \in pieces
        /\ StoreBlock(blk, bytes, spill)
        /\ UNCHANGED <<stream, ended, settled>>
    BY <1>2 DEF Piece, OnBlock, StoreBlock, Accepts, Handles, stopVars
  <2>2. ASSUME NEW i \in Wanted, i # j
        PROVE  /\ \A c \in BlocksOf(i) : buffer'[c] = buffer[c]
               /\ Full(i)' <=> Full(i)
               /\ verifying'[i] = verifying[i] /\ digest'[i] = digest[i]
    <3>1. \A c \in BlocksOf(i) : buffer'[c] = buffer[c]
      BY <2>1, <2>2 DEF StoreBlock, Later, BlocksOf
    <3>2. received'[i] = received[i]
      BY <2>1, <2>2 DEF StoreBlock, SchedInv, SchedTypeOK
    <3>3. verifying'[i] = verifying[i] /\ digest'[i] = digest[i]
      BY <2>2 DEF Piece, SessionTypes, EmitTypes
    <3> QED BY <3>1, <3>2, <3>3 DEF Full
  <2>3. verifying'[j] = "hashing" =>
          Full(j)' /\ (digest'[j] <=> (\A c \in BlocksOf(j) : buffer'[c] = "good"))
    <3>1. verifying[j] # "hashing"
      BY <2>0 DEF HashedIsHeld
    <3>2. CASE Fills(blk)
      <4>1. received'[j] = NumBlocks[j]
        BY <2>0, <2>1, <3>2 DEF StoreBlock, Fills, SchedInv, SchedTypeOK
      <4>2. digest'[j] = \A c \in BlocksOf(j) : buffer'[c] = "good"
        BY <2>0, <3>2 DEF Piece, SessionTypes, EmitTypes
      <4> QED BY <4>1, <4>2 DEF Full
    <3>3. CASE ~Fills(blk)
      BY <3>1, <3>3 DEF Piece
    <3> QED BY <3>2, <3>3
  <2>4. HashedIsHeld'
    <3> SUFFICES ASSUME NEW i \in Wanted, verifying'[i] = "hashing"
                 PROVE  /\ i \in pieces' /\ Full(i)'
                        /\ digest'[i] <=> (\A c \in BlocksOf(i) : buffer'[c] = "good")
      BY DEF HashedIsHeld, BlocksOf, Blocks
    <3>1. CASE i = j
      BY <2>1, <2>3, <3>1
    <3>2. CASE i # j
      BY <2>1, <2>2, <3>2 DEF HashedIsHeld
    <3> QED BY <3>1, <3>2
  <2>5. EmittingIsGone'
    <3> SUFFICES ASSUME NEW i \in Wanted, verifying'[i] = "emitting"
                 PROVE  i \notin pieces'
      BY DEF EmittingIsGone
    <3>1. verifying[i] = "emitting"
      BY DEF Piece, SessionTypes, EmitTypes
    <3> QED BY <2>1, <3>1 DEF EmittingIsGone
  <2>6. StreamInv'
    BY <2>1 DEF StreamInv, SummaryFrame, Contract!SummaryFrame
  <2> QED BY <2>4, <2>5, <2>6 DEF VerifyInv
<1> QED BY <1>1, <1>2

LEMMA MessageVerdict ==
  ASSUME IInv, NEW p \in Peers, Message(p)
  PROVE  VerdictInv'
<1>1. phase[p] # "finished" /\ UNCHANGED stopVars
  BY DEF Message, Handshake, Bitfield, Have, Choke, Unchoke, Piece, Pex, Handles
<1>2. SettledIsQuiet'
  BY <1>1, NotSettled DEF stopVars, SettledIsQuiet
<1>3. VerifyInv'
  <2>1. CASE UNCHANGED <<schedVars, emitVars>>
    BY <1>1, <2>1, QuietVerify DEF schedVars, emitVars, stopVars
  <2>2. CASE \E blk \in Blocks \cup {Foreign}, bytes \in {"good", "bad"} :
               \E spill \in SUBSET Later(blk) : Piece(p, blk, bytes, spill)
    BY <2>2, PieceVerify
  <2> QED BY <2>1, <2>2 DEF Message, Handshake, Bitfield, Have, Choke, Unchoke, Pex
<1> QED BY <1>2, <1>3 DEF VerifyInv, VerdictInv

LEMMA PumpVerdict ==
  ASSUME IInv, NEW p \in Peers, Pump(p)
  PROVE  VerdictInv'
<1>0. phase[p] # "finished" /\ turn' = NoPeer /\ UNCHANGED emitVars
  BY DEF Pump, PumpChoked, PumpLate, PumpRequests, PumpNothingLeft, EndsTurn
<1>1. CASE PumpLate(p) \/ PumpNothingLeft(p)
  BY <1>0, <1>1, FailVerdict DEF PumpLate, PumpNothingLeft
<1>2. CASE PumpChoked(p) \/ PumpRequests(p)
  <2>1. UNCHANGED <<stopVars, pieces, received, buffer>>
    BY <1>2 DEF PumpChoked, PumpRequests, Claim, schedVars
  <2>2. VerifyInv'
    BY <1>0, <2>1, QuietVerify DEF stopVars, emitVars
  <2>3. SettledIsQuiet'
    BY <1>0, <2>1, NotSettled DEF stopVars, SettledIsQuiet
  <2> QED BY <2>2, <2>3 DEF VerifyInv, VerdictInv
<1> QED BY <1>1, <1>2 DEF Pump

LEMMA HashMatchesVerdict ==
  ASSUME IInv, NEW i \in Wanted, HashMatches(i)
  PROVE  VerdictInv'
<1> USE DEF IInv, VerdictInv
<1>1. /\ i \in pieces /\ pieces' = pieces \ {i}
      /\ UNCHANGED <<received, buffer, digest, ended, settled, turn, awaited>>
      /\ \A blk \in BlocksOf(i) : buffer[blk] = "good"
  BY DEF HashMatches, Complete, HashedIsHeld, stopVars, otherVars
<1>2. ~ended
  BY DEF HashMatches, SettledIsQuiet, StreamInv, Verifying
<1>3. ASSUME NEW j \in Wanted
      PROVE  verifying'[j] = IF j = i THEN "emitting" ELSE verifying[j]
  BY DEF HashMatches, SessionTypes, EmitTypes
<1>4. HashedIsHeld'
  BY <1>1, <1>3 DEF HashedIsHeld, Full, BlocksOf, Blocks
<1>5. EmittingIsGone'
  BY <1>1, <1>3 DEF EmittingIsGone
<1>6. StreamInv'
  <2>1. CASE stream' = stream
    BY <1>1, <2>1 DEF StreamInv, SummaryFrame, Contract!SummaryFrame
  <2>2. CASE stream' = Append(stream, PieceFrame(i, \A blk \in BlocksOf(i) : buffer[blk] = "good"))
    <3> DEFINE frame == PieceFrame(i, \A blk \in BlocksOf(i) : buffer[blk] = "good")
    <3>0. stream' = Append(stream, frame)
      BY <2>2
    <3>1. frame.intact /\ frame.index = i
      BY <1>1 DEF PieceFrame, Contract!PieceFrame
    <3> HIDE DEF frame
    <3>2. stream \in Seq(Frames) /\ Len(stream) \in Nat
      BY LenProperties DEF SessionTypes, EmitTypes
    <3>3. \A k \in DOMAIN stream' :
            \/ k \in DOMAIN stream /\ stream'[k] = stream[k]
            \/ stream'[k] = frame
      BY <3>0, <3>2
    <3>4. \A k \in DOMAIN stream : stream[k].intact /\ stream[k].index \notin pieces
      BY <1>2 DEF StreamInv
    <3>5. \A k \in DOMAIN stream' : stream'[k].intact /\ stream'[k].index \notin pieces'
      BY <1>1, <3>1, <3>3, <3>4
    <3>6. \A k \in DOMAIN stream' : stream'[k] # SummaryFrame
      <4>1. SummaryFrame # frame
        BY DEF frame, SummaryFrame, Contract!SummaryFrame, PieceFrame, Contract!PieceFrame
      <4>2. \A k \in DOMAIN stream : stream[k] # SummaryFrame
        BY <1>2 DEF StreamInv
      <4> QED BY <3>3, <4>1, <4>2
    <3>7. SummaryFrame' = SummaryFrame
      BY DEF SummaryFrame, Contract!SummaryFrame
    <3> QED BY <1>1, <1>2, <3>5, <3>6, <3>7 DEF StreamInv
  <2> QED BY <2>1, <2>2 DEF HashMatches
<1>7. SettledIsQuiet'
  <2>1. Unfinished' = Unfinished /\ Verifying' = Verifying
    BY <1>3 DEF HashMatches, peerVars, Unfinished, Verifying
  <2> QED BY <1>1, <2>1 DEF SettledIsQuiet
<1> QED BY <1>4, <1>5, <1>6, <1>7

LEMMA NoneLive ==
  ASSUME IInv, live = 0
  PROVE  Unfinished = {}
<1>1. IsFiniteSet(Unfinished)
  BY FinitePeers DEF Unfinished
<1>2. Cardinality(Unfinished) = 0
  BY DEF IInv, ConnInv, EachReportsOnce
<1> QED BY <1>1, <1>2, FS_EmptySet

LEMMA HashMismatchesVerdict ==
  ASSUME IInv, NEW i \in Wanted, HashMismatches(i)
  PROVE  VerdictInv'
<1> USE DEF IInv, VerdictInv
<1>1. /\ i \in pieces /\ pieces' = pieces /\ turn' = NoPeer
      /\ UNCHANGED <<digest, stream, ended, phase>>
  BY DEF HashMismatches, HashedIsHeld, Reset, otherVars, peerVars, Idle
<1>2. ASSUME NEW j \in Wanted
      PROVE  verifying'[j] = IF j = i THEN "idle" ELSE verifying[j]
  BY DEF HashMismatches, SessionTypes, EmitTypes
<1>3. Verifying' = Verifying \ {i}
  BY <1>2 DEF Verifying
<1>4. ASSUME NEW j \in Wanted, j # i
      PROVE  /\ Full(j)' <=> Full(j)
             /\ \A c \in BlocksOf(j) : buffer'[c] = buffer[c]
  BY <1>1, <1>4 DEF HashMismatches, Reset, Full, BlocksOf, SchedInv, SchedTypeOK
<1>5. HashedIsHeld'
  <2> SUFFICES ASSUME NEW j \in Wanted, verifying'[j] = "hashing"
               PROVE  /\ j \in pieces' /\ Full(j)'
                      /\ digest'[j] <=> (\A c \in BlocksOf(j) : buffer'[c] = "good")
    BY DEF HashedIsHeld, BlocksOf, Blocks
  <2> QED BY <1>1, <1>2, <1>4 DEF HashedIsHeld
<1>6. EmittingIsGone'
  BY <1>1, <1>2 DEF EmittingIsGone
<1>7. ended' => settled'
  <2>1. CASE settled
    BY <2>1 DEF HashMismatches
  <2>2. CASE ~settled
    BY <1>1, <2>2 DEF StreamInv
  <2> QED BY <2>1, <2>2
<1>8. StreamInv'
  BY <1>1, <1>7 DEF StreamInv, SummaryFrame, Contract!SummaryFrame
<1>9. SettledIsQuiet'
  <2>1. CASE settled
    <3>1. Unfinished' = {} /\ awaited' = awaited
      BY <1>1, <2>1 DEF HashMismatches, SettledIsQuiet, Unfinished
    <3> QED BY <1>1, <1>3, <2>1, <3>1 DEF SettledIsQuiet
  <2>2. CASE ~settled /\ Done(live, Verifying \ {i})
    <3>1. Unfinished' = {}
      BY <1>1, <2>2, NoneLive DEF Done, Unfinished
    <3>2. ~ended' /\ awaited' = Verifying \ {i}
      BY <1>1, <2>2 DEF HashMismatches, StreamInv
    <3> QED BY <1>1, <1>3, <3>1, <3>2 DEF SettledIsQuiet
  <2>3. CASE ~settled /\ ~Done(live, Verifying \ {i})
    BY <2>3 DEF HashMismatches, SettledIsQuiet
  <2> QED BY <2>1, <2>2, <2>3
<1> QED BY <1>5, <1>6, <1>8, <1>9

LEMMA LeaveVerdict ==
  ASSUME IInv, NEW i \in Wanted, turn = NoPeer, LeaveVerifying(i)
  PROVE  VerdictInv'
<1>1. Verifying' = Verifying \ {i}
  BY DEF LeaveVerifying, Verifying, IInv, SessionTypes, EmitTypes
<1>2. /\ \A j \in Wanted : verifying'[j] \in {verifying[j], "idle"}
      /\ UNCHANGED <<digest, stream, ended, turn>>
  BY DEF LeaveVerifying, otherVars, IInv, SessionTypes, EmitTypes
<1>3. CASE ~settled /\ Finish(Verifying \ {i})
  <2>1. Unfinished \in SUBSET Peers /\ Stop(Unfinished) /\ settled'
    BY <1>3 DEF Finish, Unfinished
  <2>2. VerifyInv'
    BY <1>2, <2>1, StopVerify
  <2>3. SettledIsQuiet'
    BY <1>1, <1>2, <1>3, FinishQuiet
  <2> QED BY <2>2, <2>3 DEF VerifyInv, VerdictInv
<1>4. CASE UNCHANGED <<schedVars, peerVars, stopVars>>
  <2>1. VerifyInv'
    BY <1>2, <1>4, QuietVerify DEF schedVars, stopVars
  <2>2. SettledIsQuiet'
    BY <1>1, <1>2, <1>4 DEF peerVars, stopVars, Unfinished, IInv, VerdictInv, SettledIsQuiet
  <2> QED BY <2>1, <2>2 DEF VerifyInv, VerdictInv
<1> QED BY <1>3, <1>4 DEF LeaveVerifying

LEMMA ResolveVerdict ==
  ASSUME IInv, Resolve
  PROVE  VerdictInv'
<1> USE DEF IInv, VerdictInv
<1>1. /\ settled /\ settled' /\ ended'
      /\ UNCHANGED <<schedVars, phase, turn, awaited, verifying, digest>>
  BY DEF Resolve, peerVars, otherVars, stopVars
<1>2. HashedIsHeld' /\ EmittingIsGone'
  BY <1>1 DEF schedVars, HashedIsHeld, EmittingIsGone, Full, BlocksOf, Blocks
<1>3. StreamInv'
  <2>1. SummaryFrame' = SummaryFrame
    BY DEF SummaryFrame, Contract!SummaryFrame
  <2>2. stream \in Seq(Frames) /\ Len(stream) \in Nat
    BY LenProperties DEF SessionTypes, EmitTypes
  <2>3. \A k \in DOMAIN stream' :
          \/ k \in DOMAIN stream /\ stream'[k] = stream[k]
          \/ stream'[k] = SummaryFrame
    BY <2>2 DEF Resolve
  <2> QED BY <1>1, <2>1, <2>3 DEF schedVars, StreamInv
<1>4. SettledIsQuiet'
  <2>1. Unfinished' = Unfinished /\ Verifying' = Verifying
    BY <1>1 DEF Unfinished, Verifying
  <2>2. Verifying = {}
    BY <1>1 DEF Resolve, SettledIsQuiet
  <2> QED BY <1>1, <2>1, <2>2 DEF SettledIsQuiet
<1> QED BY <1>2, <1>3, <1>4

LEMMA NextVerdict == IInv /\ [Next]_vars => VerdictInv'
<1> SUFFICES ASSUME IInv, [Next]_vars PROVE VerdictInv'
  OBVIOUS
<1>1. ASSUME NEW p \in Peers, SocketFails(p) PROVE VerdictInv'
  BY <1>1, FailVerdict DEF SocketFails, Idle, otherVars
<1>2. ASSUME NEW p \in Peers, Message(p) \/ Pump(p) PROVE VerdictInv'
  BY <1>2, MessageVerdict, PumpVerdict
<1>3. ASSUME NEW i \in Wanted, Verdict(i) PROVE VerdictInv'
  BY <1>3, HashMatchesVerdict, HashMismatchesVerdict, LeaveVerdict
     DEF Verdict, EmitDone, EmitFails, Idle
<1>4. CASE Timer
  <2>1. /\ ~settled /\ Finish(Verifying) /\ turn' = NoPeer
        /\ Verifying' = Verifying /\ UNCHANGED emitVars
    BY <1>4 DEF Timer, Idle, otherVars, emitVars, Verifying
  <2>2. Unfinished \in SUBSET Peers /\ Stop(Unfinished)
    BY <2>1 DEF Finish, Unfinished
  <2>3. VerifyInv'
    BY <2>1, <2>2, StopVerify DEF emitVars
  <2>4. SettledIsQuiet'
    BY <2>1, FinishQuiet DEF emitVars
  <2> QED BY <2>3, <2>4 DEF VerifyInv, VerdictInv
<1>5. CASE Resolve
  BY <1>5, ResolveVerdict
<1>6. CASE \/ \E p \in Peers : Connect(p)
           \/ \E blk \in Blocks : RequestAges(blk)
           \/ DeadlinePasses \/ ClientLeaves \/ UNCHANGED vars
  <2>1. /\ UNCHANGED <<pieces, received, buffer, emitVars, stopVars, turn>>
        /\ Unfinished' \subseteq Unfinished
    BY <1>6 DEF Connect, RequestAges, RequestTimesOut, DeadlinePasses, ClientLeaves,
                vars, schedVars, peerVars, otherVars, Unfinished, IInv, SessionTypes, PeerTypes
  <2>2. VerifyInv'
    BY <2>1, QuietVerify DEF emitVars, stopVars
  <2>3. SettledIsQuiet'
    BY <2>1 DEF emitVars, stopVars, Verifying, IInv, VerdictInv, SettledIsQuiet
  <2> QED BY <2>2, <2>3 DEF VerifyInv, VerdictInv
<1> QED BY <1>1, <1>2, <1>3, <1>4, <1>5, <1>6 DEF Next

-----------------------------------------------------------------------------
(* The theorems.                                                           *)

LEMMA NextIInv == IInv /\ [Next]_vars => IInv'
<1> SUFFICES ASSUME IInv, [Next]_vars PROVE IInv'
  OBVIOUS
<1>1. SchedInv'
  BY SchedulerStep, SchedNextInv DEF IInv
<1>2. SessionTypes'
  BY NextTypes DEF IInv
<1> QED BY <1>1, <1>2, NextConn, NextVerdict DEF IInv

(* The inductive invariant of the session.                                 *)
THEOREM SessionInvariant == Spec => []IInv
BY InitIInv, NextIInv, PTL DEF Spec

(* Every field of the session keeps its type; the counts of requests and   *)
(* of received blocks never go below zero.                                 *)
THEOREM SessionIsTyped == Spec => []TypeOK
<1>1. IInv => TypeOK
  BY TypesTogether DEF IInv, SchedInv
<1> QED BY SessionInvariant, <1>1, PTL

(* No piece frame carries a byte that the hash did not vouch for, whatever *)
(* a dishonest peer sends and whenever it sends it.                        *)
THEOREM NoCorruptFrames == Spec => []EmittedIntact
<1>1. IInv => EmittedIntact
  BY DEF IInv, VerdictInv, StreamInv, EmittedIntact, PieceFrames
<1> QED BY SessionInvariant, <1>1, PTL

(* The live buffer is still the hashed one when the verdict arrives.       *)
THEOREM HashedStaysHeld == Spec => []HashedIsHeld
<1>1. IInv => HashedIsHeld
  BY DEF IInv, VerdictInv
<1> QED BY SessionInvariant, <1>1, PTL

(* No request outlives its connection.                                     *)
THEOREM ConnectionsSettle == Spec => []RequestsHaveLiveOwners
<1>1. IInv => RequestsHaveLiveOwners
  BY DEF IInv, ConnInv
<1> QED BY SessionInvariant, <1>1, PTL

(* Each connection reports its end once, though finish stops connections   *)
(* that are reporting theirs.                                              *)
THEOREM ReportsOnce == Spec => []EachReportsOnce
<1>1. IInv => EachReportsOnce
  BY DEF IInv, ConnInv
<1> QED BY SessionInvariant, <1>1, PTL

(* After finish nothing runs that the result does not wait for.            *)
THEOREM FinishIsFinal == Spec => []SettledIsQuiet
<1>1. IInv => SettledIsQuiet
  BY DEF IInv, VerdictInv
<1> QED BY SessionInvariant, <1>1, PTL

(* The session keeps the scheduler's protocol, so that what is proved of   *)
(* the scheduler alone holds of it in every session.                       *)
THEOREM SessionUsesScheduler == Spec => UsesScheduler
BY SessionInvariant, SchedulerStep, PTL DEF Spec, UsesScheduler

(* A session is a behaviour of the scheduler's own specification; a full   *)
(* piece is therefore frozen between onBlock and its verdict.              *)
THEOREM SessionFreezesPieces == Spec => HandedOverIsFrozen
<1>1. Init => SchedInit
  BY DEF Init
<1>2. Spec => SchedSpec
  BY <1>1, SessionUsesScheduler, PTL DEF Spec, SchedSpec, UsesScheduler
<1> QED BY <1>2, HandedOverStaysFrozen, PTL

-----------------------------------------------------------------------------
(* What is learned from gossip.                                            *)

\* A ut_pex message adds as many new addresses as there is room for.
LEMMA PexStaysNew ==
  ASSUME SessionTypes, DiscoveredIsNew, NEW p \in Peers, NEW added \in SUBSET Gossip,
         Pex(p, added)
  PROVE  DiscoveredIsNew'
<1> DEFINE new == NewAddresses(added)
<1> DEFINE room == MaxDiscovered - Cardinality(discovered)
<1>1. PICK kept \in SUBSET new :
        /\ Cardinality(kept) = IF Cardinality(new) <= room THEN Cardinality(new) ELSE room
        /\ discovered' = discovered \cup kept
  BY DEF Pex
<1>2. IsFiniteSet(discovered) /\ IsFiniteSet(new) /\ IsFiniteSet(kept)
  <2>1. discovered \subseteq Gossip /\ kept \subseteq Gossip /\ new \subseteq Gossip
    BY DEF SessionTypes, OtherTypes, NewAddresses
  <2> QED BY <2>1, SessionAssumption, FS_Subset
<1>3. discovered \cap kept = {} /\ kept \cap KnownPeers = {}
  BY DEF NewAddresses
<1>4. /\ Cardinality(discovered) \in Nat /\ Cardinality(kept) \in Nat
      /\ Cardinality(new) \in Nat
  BY <1>2, FS_CardinalityType
<1>5. Cardinality(discovered') = Cardinality(discovered) + Cardinality(kept)
  <2>1. Cardinality(discovered \cup kept)
          = Cardinality(discovered) + Cardinality(kept) - Cardinality(discovered \cap kept)
    BY <1>2, FS_Union
  <2>2. Cardinality(discovered \cap kept) = 0
    BY <1>3, FS_EmptySet
  <2>3. discovered' = discovered \cup kept
    BY <1>1
  <2> QED BY <1>4, <2>1, <2>2, <2>3
<1>6. Cardinality(kept) <= room
  BY <1>1, <1>4, SessionAssumption DEF DiscoveredIsNew
<1>7. Cardinality(discovered') <= MaxDiscovered
  BY <1>4, <1>5, <1>6, SessionAssumption
<1>8. discovered' \cap KnownPeers = {}
  BY <1>1, <1>3 DEF DiscoveredIsNew
<1> QED BY <1>7, <1>8 DEF DiscoveredIsNew

\* Only ut_pex adds to what was learned.
LEMMA DiscoveredStaysNew == IInv /\ DiscoveredIsNew /\ [Next]_vars => DiscoveredIsNew'
<1> SUFFICES ASSUME IInv, DiscoveredIsNew, [Next]_vars PROVE DiscoveredIsNew'
  OBVIOUS
<1>1. CASE \E p \in Peers : \E added \in SUBSET Gossip : Pex(p, added)
  BY <1>1, PexStaysNew DEF IInv
<1>2. CASE UNCHANGED discovered
  BY <1>2 DEF DiscoveredIsNew
<1>3. ASSUME NEW p \in Peers, Message(p)
      PROVE  UNCHANGED discovered \/ \E added \in SUBSET Gossip : Pex(p, added)
  BY <1>3 DEF Message, Handshake, Bitfield, Have, Choke, Unchoke, Piece
<1>4. ASSUME NEW p \in Peers, Connect(p) \/ SocketFails(p) \/ Pump(p)
      PROVE  UNCHANGED discovered
  BY <1>4 DEF Connect, SocketFails, Pump, PumpChoked, PumpLate, PumpRequests,
              PumpNothingLeft, EndsTurn, otherVars
<1>5. ASSUME NEW i \in Wanted, Verdict(i) PROVE UNCHANGED discovered
  BY <1>5 DEF Verdict, HashMatches, HashMismatches, EmitDone, EmitFails, LeaveVerifying, Idle,
              otherVars
<1>6. CASE Timer \/ Resolve \/ DeadlinePasses \/ ClientLeaves
           \/ (\E blk \in Blocks : RequestAges(blk)) \/ UNCHANGED vars
  <2>1. UNCHANGED discovered
    BY <1>6 DEF Timer, Resolve, DeadlinePasses, ClientLeaves, RequestAges, otherVars, vars
  <2> QED BY <1>2, <2>1
<1> QED BY <1>1, <1>2, <1>3, <1>4, <1>5, <1>6 DEF Next

(* What a session reports as discovered is new to the caller and never     *)
(* more than MAX_DISCOVERED addresses, whoever gossips how often.          *)
THEOREM GossipIsNew == Spec => []DiscoveredIsNew
<1>1. Init => DiscoveredIsNew
  BY FS_EmptySet, SessionAssumption DEF Init, DiscoveredIsNew
<1> QED BY <1>1, DiscoveredStaysNew, SessionInvariant, PTL DEF Spec

-----------------------------------------------------------------------------
(* The pipelines.  What an honest peer owes is counted in tickets, one for *)
(* each request it has yet to answer.                                      *)

TicketsOf(w) == UNION {{blk} \X (1 .. w[blk]) : blk \in Blocks}
NoRequests == [blk \in Blocks |-> 0]
AskedToo(w, R) == [blk \in Blocks |-> IF blk \in R THEN w[blk] + 1 ELSE w[blk]]

LEMMA TicketParts ==
  ASSUME NEW w
  PROVE  /\ \A t \in TicketsOf(w) : /\ t = <<t[1], t[2]>>
                                    /\ t[1] \in Blocks /\ t[2] \in 1 .. w[t[1]]
         /\ \A blk \in Blocks : \A k \in 1 .. w[blk] : <<blk, k>> \in TicketsOf(w)
BY DEF TicketsOf

LEMMA FiniteTickets ==
  ASSUME NEW w \in [Blocks -> Nat]
  PROVE  IsFiniteSet(TicketsOf(w)) /\ Cardinality(TicketsOf(w)) \in Nat
<1> DEFINE parts == {{blk} \X (1 .. w[blk]) : blk \in Blocks}
           f == [blk \in Blocks |-> {blk} \X (1 .. w[blk])]
<1>1. f \in Surjection(Blocks, parts)
  BY DEF Surjection
<1>2. IsFiniteSet(parts)
  BY <1>1, FiniteBlocks, FS_Surjection
<1>3. ASSUME NEW T \in parts PROVE IsFiniteSet(T)
  <2>1. PICK blk \in Blocks : T = {blk} \X (1 .. w[blk])
    OBVIOUS
  <2>2. 1 \in Int /\ w[blk] \in Int
    OBVIOUS
  <2>3. IsFiniteSet({blk}) /\ IsFiniteSet(1 .. w[blk])
    BY <2>2, FS_Singleton, FS_Interval
  <2> QED BY <2>1, <2>3, FS_Product
<1>4. IsFiniteSet(TicketsOf(w))
  BY <1>2, <1>3, FS_UNION DEF TicketsOf
<1> QED BY <1>4, FS_CardinalityType

\* A choked or stopped connection is owed nothing.
LEMMA NoTickets == Cardinality(TicketsOf(NoRequests)) = 0
<1>1. TicketsOf(NoRequests) = {}
  BY TicketParts DEF NoRequests
<1> QED BY <1>1, FS_EmptySet

\* An answer takes one ticket.
LEMMA TicketTaken ==
  ASSUME NEW w \in [Blocks -> Nat], NEW blk \in Blocks, w[blk] > 0
  PROVE  Cardinality(TicketsOf([w EXCEPT ![blk] = @ - 1])) = Cardinality(TicketsOf(w)) - 1
<1> DEFINE less == [w EXCEPT ![blk] = @ - 1]
           last == <<blk, w[blk]>>
<1>1. TicketsOf(less) = TicketsOf(w) \ {last}
  <2>1. \A b \in Blocks : less[b] = IF b = blk THEN w[blk] - 1 ELSE w[b]
    OBVIOUS
  <2> HIDE DEF less
  <2>2. ASSUME NEW t \in TicketsOf(less) PROVE t \in TicketsOf(w) \ {last}
    <3>1. t = <<t[1], t[2]>> /\ t[1] \in Blocks /\ t[2] \in 1 .. less[t[1]]
      BY TicketParts
    <3>2. t[2] \in 1 .. w[t[1]] /\ (t[1] = blk => t[2] # w[blk])
      BY <2>1, <3>1
    <3>3. <<t[1], t[2]>> \in TicketsOf(w) /\ <<t[1], t[2]>> # last
      BY <3>1, <3>2, TicketParts
    <3> QED BY <3>1, <3>3
  <2>3. ASSUME NEW t \in TicketsOf(w) \ {last} PROVE t \in TicketsOf(less)
    <3>1. t = <<t[1], t[2]>> /\ t[1] \in Blocks /\ t[2] \in 1 .. w[t[1]]
      BY TicketParts
    <3>2. t[1] = blk => t[2] # w[blk]
      BY <3>1
    <3>3. t[2] \in 1 .. less[t[1]]
      BY <2>1, <3>1, <3>2
    <3>4. <<t[1], t[2]>> \in TicketsOf(less)
      BY <3>1, <3>3, TicketParts
    <3> QED BY <3>1, <3>4
  <2> QED BY <2>2, <2>3
<1>2. last \in TicketsOf(w)
  <2>1. w[blk] \in 1 .. w[blk]
    OBVIOUS
  <2> QED BY <2>1, TicketParts
<1> QED BY <1>1, <1>2, FiniteTickets, FS_RemoveElement

\* Requests add a ticket each.
LEMMA TicketsAdded ==
  ASSUME NEW w \in [Blocks -> Nat], NEW R \in SUBSET Blocks
  PROVE  Cardinality(TicketsOf(AskedToo(w, R))) <= Cardinality(TicketsOf(w)) + Cardinality(R)
<1> DEFINE more == AskedToo(w, R)
           new == {<<blk, w[blk] + 1>> : blk \in R}
           f == [blk \in R |-> <<blk, w[blk] + 1>>]
<1>1. TicketsOf(more) \in SUBSET (TicketsOf(w) \cup new)
  <2> SUFFICES ASSUME NEW t \in TicketsOf(more), t \notin TicketsOf(w) PROVE t \in new
    OBVIOUS
  <2>1. t = <<t[1], t[2]>> /\ t[1] \in Blocks /\ t[2] \in 1 .. more[t[1]]
    BY TicketParts
  <2>2. t[2] \notin 1 .. w[t[1]]
    BY <2>1, TicketParts
  <2>3. t[1] \in R /\ t[2] = w[t[1]] + 1
    BY <2>1, <2>2 DEF AskedToo
  <2> QED BY <2>1, <2>3
<1>2. IsFiniteSet(R) /\ Cardinality(R) \in Nat
  BY FiniteBlocks, FS_Subset, FS_CardinalityType
<1>3. IsFiniteSet(new) /\ Cardinality(new) <= Cardinality(R)
  <2>1. f \in Surjection(R, new)
    BY DEF Surjection
  <2> QED BY <1>2, <2>1, FS_Surjection
<1> HIDE DEF new
<1>4. /\ IsFiniteSet(TicketsOf(w)) /\ Cardinality(TicketsOf(w)) \in Nat
      /\ Cardinality(new) \in Nat
  BY <1>3, FiniteTickets, FS_CardinalityType
<1>5. /\ IsFiniteSet(TicketsOf(w) \cup new)
      /\ Cardinality(TicketsOf(w) \cup new)
           = Cardinality(TicketsOf(w)) + Cardinality(new) - Cardinality(TicketsOf(w) \cap new)
  BY <1>3, <1>4, FS_Union
<1>6. Cardinality(TicketsOf(w) \cap new) \in Nat
  BY <1>4, FS_Intersection, FS_CardinalityType
<1>7. /\ Cardinality(TicketsOf(more)) <= Cardinality(TicketsOf(w) \cup new)
      /\ Cardinality(TicketsOf(more)) \in Nat
  BY <1>1, <1>5, FS_Subset, FS_CardinalityType
<1> QED BY <1>2, <1>3, <1>4, <1>5, <1>6, <1>7

\* What a step may do to a pipeline: leave it alone or lose its requests, have
\* one answered, or top it up.
Quiet(p) ==
  /\ outstanding'[p] = outstanding[p]
  /\ p \in Honest => wire'[p] \in {wire[p], NoRequests}
Answered(p) ==
  /\ outstanding'[p] = OneLess(outstanding[p])
  /\ p \in Honest => \E blk \in Blocks : /\ wire[p][blk] > 0
                                         /\ wire'[p] = [wire[p] EXCEPT ![blk] = @ - 1]
ToppedUp(p) ==
  /\ outstanding'[p] = outstanding[p] + Cardinality(Requests(p))
  /\ p \in Honest => wire'[p] = AskedToo(wire[p], Requests(p))

LEMMA PipelineStep ==
  ASSUME SessionTypes, [Next]_vars, NEW p \in Peers
  PROVE  Quiet(p) \/ Answered(p) \/ ToppedUp(p)
<1> USE SessionAssumption DEF SessionTypes, PeerTypes
<1>1. ASSUME NEW gone \in SUBSET Peers, Stop(gone) PROVE Quiet(p)
  BY <1>1 DEF Stop, Quiet, NoRequests
<1>2. ASSUME NEW q \in Peers, Message(q) PROVE Quiet(p) \/ Answered(p)
  <2>1. CASE \E blk \in Blocks \cup {Foreign}, bytes \in {"good", "bad"} :
               \E spill \in SUBSET Later(blk) : Piece(q, blk, bytes, spill)
    <3>1. PICK blk \in Blocks \cup {Foreign}, bytes \in {"good", "bad"} :
               \E spill \in SUBSET Later(blk) : Piece(q, blk, bytes, spill)
      BY <2>1
    <3>2. PICK spill \in SUBSET Later(blk) : Piece(q, blk, bytes, spill)
      BY <3>1
    <3>3. CASE p = q
      <4>1. outstanding'[p] = OneLess(outstanding[p])
        BY <3>2, <3>3 DEF Piece
      <4>2. p \in Honest => /\ blk \in Blocks /\ wire[p][blk] > 0
                            /\ wire'[p] = [wire[p] EXCEPT ![blk] = @ - 1]
        BY <3>2, <3>3 DEF Piece, Sends
      <4> QED BY <4>1, <4>2 DEF Answered
    <3>4. CASE p # q
      BY <3>2, <3>4 DEF Piece, Quiet
    <3> QED BY <3>3, <3>4
  <2>2. CASE Choke(q)
    BY <2>2 DEF Choke, Quiet, NoRequests
  <2>3. CASE outstanding' = outstanding /\ wire' = wire
    BY <2>3 DEF Quiet
  <2> QED BY <1>2, <2>1, <2>2, <2>3
          DEF Message, Handshake, Bitfield, Have, Unchoke, Pex, peerVars
<1>3. ASSUME NEW q \in Peers, PumpRequests(q) PROVE Quiet(p) \/ ToppedUp(p)
  <2>1. CASE p = q
    BY <1>3, <2>1 DEF PumpRequests, ToppedUp, AskedToo
  <2>2. CASE p # q
    BY <1>3, <2>2 DEF PumpRequests, Quiet
  <2> QED BY <2>1, <2>2
<1>4. ASSUME NEW q \in Peers, SocketFails(q) \/ PumpLate(q) \/ PumpNothingLeft(q)
      PROVE  Quiet(p)
  <2>1. \E gone \in SUBSET Peers : Stop(gone)
    BY <1>4 DEF SocketFails, PumpLate, PumpNothingLeft, Fail, Finish, Unfinished
  <2> QED BY <1>1, <2>1
<1>5. ASSUME outstanding' = outstanding, wire' = wire PROVE Quiet(p)
  BY <1>5 DEF Quiet
<1>6. ASSUME NEW i \in Wanted, Verdict(i) PROVE Quiet(p)
  <2>1. CASE HashMatches(i) \/ HashMismatches(i)
    <3>1. outstanding' = outstanding /\ wire' = wire
      BY <2>1 DEF HashMatches, HashMismatches, peerVars
    <3> QED BY <1>5, <3>1
  <2>2. CASE LeaveVerifying(i)
    <3>1. UNCHANGED peerVars \/ \E gone \in SUBSET Peers : Stop(gone)
      BY <2>2 DEF LeaveVerifying, Finish, Unfinished
    <3>2. CASE UNCHANGED peerVars
      <4>1. outstanding' = outstanding /\ wire' = wire
        BY <3>2 DEF peerVars
      <4> QED BY <1>5, <4>1
    <3> QED BY <1>1, <3>1, <3>2
  <2> QED BY <1>6, <2>1, <2>2 DEF Verdict, EmitDone, EmitFails
<1>7. CASE Timer
  BY <1>1, <1>7 DEF Timer, Finish, Unfinished
<1>8. CASE \/ \E q \in Peers : Connect(q) \/ PumpChoked(q)
           \/ \E blk \in Blocks : RequestAges(blk)
           \/ DeadlinePasses \/ ClientLeaves \/ Resolve \/ UNCHANGED vars
  BY <1>5, <1>8 DEF Connect, PumpChoked, RequestAges, DeadlinePasses, ClientLeaves, Resolve,
                    peerVars, vars
<1> QED BY <1>2, <1>3, <1>4, <1>6, <1>7, <1>8 DEF Next, Pump

\* The pipeline is topped up to the depth, never beyond.
LEMMA RequestsFit ==
  ASSUME SessionTypes, NEW p \in Peers
  PROVE  /\ Requests(p) \in SUBSET Blocks /\ Cardinality(Requests(p)) \in Nat
         /\ outstanding[p] + Cardinality(Requests(p)) <= PipelineMax
              \/ Cardinality(Requests(p)) = 0
<1> DEFINE room == depth[p] - outstanding[p]
<1>1. /\ outstanding[p] \in Nat /\ depth[p] \in Int /\ depth[p] <= PipelineMax
      /\ PipelineMax \in Nat /\ room \in Int
  BY SessionAssumption DEF SessionTypes, PeerTypes
<1>2. Requests(p) = NextRequests(p, has[p], room)
  BY DEF Requests
<1> HIDE DEF room
<1>3. /\ room <= 0 => Requests(p) = {}
      /\ room >= 0 => Cardinality(Requests(p)) <= room
  BY <1>1, <1>2, RequestsAreCounted
<1>4. room <= 0 => Cardinality(Requests(p)) = 0
  BY <1>3, FS_EmptySet
<1>5. Requests(p) \in SUBSET Blocks /\ Cardinality(Requests(p)) \in Nat
  BY RequestsCount
<1> QED BY <1>1, <1>3, <1>4, <1>5 DEF room

LEMMA PipelinesStayWithin ==
  SessionTypes /\ NeverOvercommitted /\ [Next]_vars => NeverOvercommitted'
<1> SUFFICES ASSUME SessionTypes, NeverOvercommitted, [Next]_vars PROVE NeverOvercommitted'
  OBVIOUS
<1>0. /\ PipelineMax \in Nat /\ Honest \subseteq Peers
      /\ \A p \in Peers : outstanding[p] \in Nat
      /\ \A p \in Honest : wire[p] \in [Blocks -> Nat]
  BY SessionAssumption DEF SessionTypes, PeerTypes
<1>1. ASSUME NEW p \in Peers PROVE outstanding'[p] <= PipelineMax
  <2>1. outstanding[p] <= PipelineMax
    BY DEF NeverOvercommitted
  <2>2. Quiet(p) \/ Answered(p) \/ ToppedUp(p)
    BY PipelineStep
  <2> QED BY <1>0, <2>1, <2>2, RequestsFit DEF Quiet, Answered, ToppedUp, OneLess
<1>2. ASSUME NEW p \in Honest
      PROVE  Cardinality(TicketsOf(wire'[p])) <= outstanding'[p]
  <2>0. /\ p \in Peers /\ outstanding[p] \in Nat /\ wire[p] \in [Blocks -> Nat]
        /\ Cardinality(TicketsOf(wire[p])) <= outstanding[p]
        /\ Cardinality(TicketsOf(wire[p])) \in Nat
    BY <1>0, FiniteTickets DEF NeverOvercommitted, Owed, Tickets, TicketsOf
  <2>1. CASE Quiet(p)
    BY <2>0, <2>1, NoTickets DEF Quiet
  <2>2. CASE Answered(p)
    <3>1. PICK blk \in Blocks : wire[p][blk] > 0 /\ wire'[p] = [wire[p] EXCEPT ![blk] = @ - 1]
      BY <2>2 DEF Answered
    <3>2. Cardinality(TicketsOf(wire'[p])) = Cardinality(TicketsOf(wire[p])) - 1
      BY <2>0, <3>1, TicketTaken
    <3> QED BY <2>0, <2>2, <3>2 DEF Answered, OneLess
  <2>3. CASE ToppedUp(p)
    <3>1. Requests(p) \in SUBSET Blocks /\ Cardinality(Requests(p)) \in Nat
      BY <2>0, RequestsFit
    <3>2. Cardinality(TicketsOf(AskedToo(wire[p], Requests(p))))
            <= Cardinality(TicketsOf(wire[p])) + Cardinality(Requests(p))
      BY <2>0, <3>1, TicketsAdded
    <3>3. AskedToo(wire[p], Requests(p)) \in [Blocks -> Nat]
      BY <2>0 DEF AskedToo
    <3>4. Cardinality(TicketsOf(AskedToo(wire[p], Requests(p)))) \in Nat
      BY <3>3, FiniteTickets
    <3> QED BY <2>0, <2>3, <3>1, <3>2, <3>4 DEF ToppedUp
  <2> QED BY <2>0, <2>1, <2>2, <2>3, PipelineStep
<1>3. \A p \in Honest : Owed(p)' = Cardinality(TicketsOf(wire'[p]))
  BY DEF Owed, Tickets, TicketsOf, Blocks
<1> QED BY <1>1, <1>2, <1>3 DEF NeverOvercommitted

(* No pipeline is ever filled beyond PIPELINE_MAX, and `outstanding` is    *)
(* never below what the peer really owes, for any number of peers, whatever*)
(* the depths do, whoever chokes and however often.                        *)
THEOREM PipelinesAreBounded == Spec => []NeverOvercommitted
<1>1. Init => NeverOvercommitted
  <2> SUFFICES ASSUME Init PROVE NeverOvercommitted
    OBVIOUS
  <2>1. \A p \in Honest : Tickets(p) = TicketsOf(NoRequests)
    BY DEF Init, Tickets, TicketsOf, NoRequests
  <2> QED BY <2>1, NoTickets, SessionAssumption DEF Init, NeverOvercommitted, Owed
<1>2. IInv => SessionTypes
  BY DEF IInv
<1> QED BY <1>1, <1>2, PipelinesStayWithin, SessionInvariant, PTL DEF Spec

-----------------------------------------------------------------------------
(* A session that has not finished has something left to wait for.         *)
(* maybeDone is called by a connection that fails and by a verification    *)
(* that ends (download-session.ts:87-97), and nothing else looks whether   *)
(* the session is over: if the last of them could go without that look,    *)
(* the response would stay open until the deadline.  (The endpoint refuses *)
(* a request that wants no piece, api/download.ts:74.)                     *)
NeverStranded ==
  Wanted # {} /\ ~settled /\ ~died =>
    Verifying # {} \/ (live > 0 /\ pieces # {})

LEMMA LiveIsNat == IInv => live \in Nat
BY FinitePeers DEF IInv, ConnInv, EachReportsOnce, Unfinished

\* What is left when maybeDone, asked about `busy`, finds no end.
LEMMA NotDoneIsLeft ==
  ASSUME NEW open \in Nat, NEW busy, ~Done(open, busy)
  PROVE  pieces # {} /\ (busy # {} \/ open > 0)
BY DEF Done

\* No connection goes, no piece is settled, and no verification ends.
LEMMA StillLeft ==
  ASSUME NeverStranded, live' = live, pieces' = pieces, settled' = settled,
         died' = died, Verifying \subseteq Verifying'
  PROVE  NeverStranded'
BY DEF NeverStranded

LEMMA FailLeaves ==
  ASSUME IInv, NEW p \in Peers, phase[p] # "finished", Fail(p), UNCHANGED emitVars
  PROVE  NeverStranded'
<1>1. CASE settled'
  BY <1>1 DEF NeverStranded
<1>2. CASE ~settled'
  <2>1. ~Done(live - 1, Verifying) /\ Stop({p}) /\ Verifying' = Verifying
    BY <1>2, NotSettled DEF Fail, Finish, emitVars, Verifying
  <2>2. Unfinished' = Unfinished \ {p} /\ ConnInv'
    <3>1. {p} \in SUBSET Unfinished
      BY DEF Unfinished
    <3> QED BY <2>1, <3>1, StopConn
  <2>3. live' = live - 1 /\ pieces' = pieces
    BY <2>1, FS_Singleton DEF Stop, ReleaseOwners
  <2>4. live' \in Nat
    <3>1. IsFiniteSet(Unfinished) /\ IsFiniteSet(Unfinished \ {p})
          /\ Cardinality(Unfinished \ {p}) \in Nat
      BY FinitePeers DEF Unfinished
    <3> QED BY <2>2, <3>1 DEF ConnInv, EachReportsOnce
  <2> QED BY <2>1, <2>3, <2>4, NotDoneIsLeft DEF NeverStranded
<1> QED BY <1>1, <1>2

LEMMA VerdictLeaves ==
  ASSUME IInv, NeverStranded, NEW i \in Wanted, Verdict(i)
  PROVE  NeverStranded'
<1>0. live \in Nat
  BY LiveIsNat
<1>1. CASE HashMatches(i)
  <2>1. i \in Verifying'
    BY <1>1 DEF HashMatches, Verifying, IInv, SessionTypes, EmitTypes
  <2> QED BY <2>1 DEF NeverStranded
<1>2. CASE HashMismatches(i)
  <2>1. /\ i \in pieces /\ pieces' = pieces /\ live' = live
        /\ Verifying' = Verifying \ {i}
    BY <1>2 DEF HashMismatches, Reset, Verifying, IInv, VerdictInv, HashedIsHeld,
                SessionTypes, EmitTypes
  <2>2. CASE ~settled'
    BY <1>0, <1>2, <2>1, <2>2, NotDoneIsLeft DEF HashMismatches, NeverStranded
  <2> QED BY <2>2 DEF NeverStranded
<1>3. CASE LeaveVerifying(i)
  <2>1. Verifying' = Verifying \ {i}
    BY <1>3 DEF LeaveVerifying, Verifying, IInv, SessionTypes, EmitTypes
  <2>2. CASE ~settled'
    <3>1. ~settled /\ UNCHANGED <<schedVars, stopVars>>
      BY <1>3, <2>2 DEF LeaveVerifying, Finish, stopVars
    <3>2. ~Done(live, Verifying \ {i})
      BY <1>3, <2>2, <3>1 DEF LeaveVerifying, Finish
    <3> QED BY <1>0, <2>1, <3>1, <3>2, NotDoneIsLeft DEF schedVars, stopVars, NeverStranded
  <2> QED BY <2>2 DEF NeverStranded
<1> QED BY <1>1, <1>2, <1>3 DEF Verdict, EmitDone, EmitFails

LEMMA MessageLeaves ==
  ASSUME IInv, NeverStranded, NEW p \in Peers, Message(p)
  PROVE  NeverStranded'
<1>1. live' = live /\ settled' = settled /\ died' = died
  BY DEF Message, Handshake, Bitfield, Have, Choke, Unchoke, Piece, Pex, Handles,
         stopVars, emitVars
<1>2. pieces' = pieces
  BY DEF Message, Handshake, Bitfield, Have, Choke, Unchoke, Piece, Pex, schedVars,
         OnBlock, StoreBlock
<1>3. Verifying \subseteq Verifying'
  BY DEF Message, Handshake, Bitfield, Have, Choke, Unchoke, Piece, Pex, emitVars,
         Verifying, IInv, SessionTypes, EmitTypes
<1> QED BY <1>1, <1>2, <1>3, StillLeft

LEMMA PumpLeaves ==
  ASSUME IInv, NeverStranded, NEW p \in Peers, Pump(p)
  PROVE  NeverStranded'
<1>0. phase[p] = "open" /\ UNCHANGED emitVars
  BY DEF Pump, PumpChoked, PumpLate, PumpRequests, PumpNothingLeft, EndsTurn
<1>1. CASE PumpLate(p) \/ PumpNothingLeft(p)
  BY <1>0, <1>1, FailLeaves DEF PumpLate, PumpNothingLeft
<1>2. CASE PumpChoked(p) \/ PumpRequests(p)
  <2>1. live' = live /\ pieces' = pieces /\ settled' = settled
    BY <1>2 DEF PumpChoked, PumpRequests, Claim, schedVars, stopVars
  <2> QED BY <1>0, <2>1, StillLeft DEF emitVars, Verifying
<1> QED BY <1>1, <1>2 DEF Pump

LEMMA SomethingIsLeft == IInv /\ NeverStranded /\ [Next]_vars => NeverStranded'
<1> SUFFICES ASSUME IInv, NeverStranded, [Next]_vars PROVE NeverStranded'
  OBVIOUS
<1>1. ASSUME NEW p \in Peers, Message(p) \/ Pump(p) PROVE NeverStranded'
  BY <1>1, MessageLeaves, PumpLeaves
<1>2. ASSUME NEW p \in Peers, SocketFails(p) PROVE NeverStranded'
  BY <1>2, FailLeaves DEF SocketFails
<1>3. ASSUME NEW i \in Wanted, Verdict(i) PROVE NeverStranded'
  BY <1>3, VerdictLeaves
<1>4. CASE Timer
  BY <1>4 DEF Timer, Finish, NeverStranded
<1>5. CASE \/ \E p \in Peers : Connect(p)
           \/ \E blk \in Blocks : RequestAges(blk)
           \/ DeadlinePasses \/ ClientLeaves \/ Resolve \/ UNCHANGED vars
  <2>1. UNCHANGED <<live, pieces, settled, died, verifying>>
    BY <1>5 DEF Connect, RequestAges, RequestTimesOut, DeadlinePasses, ClientLeaves,
                Resolve, vars, schedVars, stopVars, emitVars
  <2> QED BY <2>1, StillLeft DEF Verifying
<1> QED BY <1>1, <1>2, <1>3, <1>4, <1>5 DEF Next

(* As long as the session has not finished, a verification is running, or  *)
(* a connection is left with a piece still to fetch: when all pieces are   *)
(* in, or all connections gone, it ends with the next verdict at the       *)
(* latest, and never waits for its deadline with nobody to end it.         *)
THEOREM SomeoneEndsTheSession == Spec => []NeverStranded
<1>1. Init => NeverStranded
  <2> SUFFICES ASSUME Init, Peers # {}, Wanted # {} PROVE live > 0 /\ pieces # {}
    BY DEF Init, NeverStranded
  <2>1. IsFiniteSet(Peers) /\ Cardinality(Peers) \in Nat
    BY FinitePeers
  <2>2. Cardinality(Peers) # 0
    BY <2>1, FS_EmptySet
  <2> QED BY <2>1, <2>2 DEF Init, SchedInit
<1> QED BY <1>1, SomethingIsLeft, SessionInvariant, PTL DEF Spec

-----------------------------------------------------------------------------
(* The response refines the contract.                                      *)

LEMMA VerdictDelivers ==
  ASSUME IInv, NEW i \in Wanted, Verdict(i)
  PROVE  [Contract!ContractNext]_(Contract!contractVars)
<1> USE DEF IInv, VerdictInv
<1>1. CASE HashMatches(i)
  <2>1. ~(ended \/ died) /\ i \in pieces /\ UNCHANGED <<ended, died>>
    BY <1>1 DEF HashMatches, Idle, SettledIsQuiet, StreamInv, Verifying, HashedIsHeld
  <2>2. CASE stream' = stream
    BY <2>1, <2>2 DEF Contract!contractVars
  <2>3. CASE client = "reading"
    <3>1. \A blk \in BlocksOf(i) : buffer[blk] = "good"
      BY <1>1 DEF HashMatches, HashedIsHeld
    <3>2. stream' = Append(stream, Contract!PieceFrame(i, TRUE))
      BY <1>1, <2>3, <3>1 DEF HashMatches, PieceFrame, Contract!PieceFrame
    <3>3. \A k \in DOMAIN stream : stream[k] # Contract!PieceFrame(i, TRUE)
      BY <2>1 DEF StreamInv, Contract!PieceFrame
    <3> QED BY <2>1, <3>2, <3>3 DEF Contract!ContractNext, Contract!Deliver
  <2> QED BY <1>1, <2>2, <2>3 DEF HashMatches
<1>2. CASE HashMismatches(i) \/ EmitDone(i)
  BY <1>2 DEF HashMismatches, EmitDone, LeaveVerifying, Contract!contractVars
<1>3. CASE EmitFails(i)
  <2>1. ~(ended \/ died) /\ UNCHANGED <<stream, ended>>
    BY <1>3 DEF EmitFails, LeaveVerifying, Idle, SettledIsQuiet, StreamInv, Verifying
  <2>2. CASE died'
    BY <2>1, <2>2 DEF Contract!ContractNext, Contract!Truncate
  <2>3. CASE ~died'
    BY <2>1, <2>3 DEF Contract!contractVars
  <2> QED BY <2>2, <2>3
<1> QED BY <1>1, <1>2, <1>3 DEF Verdict

LEMMA ContractStep ==
  IInv /\ [Next]_vars => [Contract!ContractNext]_(Contract!contractVars)
<1> SUFFICES ASSUME IInv, [Next]_vars
             PROVE  [Contract!ContractNext]_(Contract!contractVars)
  OBVIOUS
<1>1. ASSUME NEW i \in Wanted, Verdict(i)
      PROVE  [Contract!ContractNext]_(Contract!contractVars)
  BY <1>1, VerdictDelivers
<1>2. CASE Resolve
  <2>1. ~(ended \/ died) /\ ended' /\ died' = died
    BY <1>2 DEF Resolve, Idle
  <2>2. stream' = stream \/ stream' = Append(stream, Contract!SummaryFrame)
    BY <1>2 DEF Resolve, SummaryFrame
  <2> QED BY <2>1, <2>2 DEF Contract!ContractNext, Contract!Truncate, Contract!Summarise
<1>3. CASE UNCHANGED <<stream, ended, died>>
  BY <1>3 DEF Contract!contractVars
<1>4. ASSUME NEW p \in Peers, Connect(p) \/ SocketFails(p) \/ Message(p) \/ Pump(p)
      PROVE  UNCHANGED <<stream, ended, died>>
  BY <1>4 DEF Connect, SocketFails, Message, Handshake, Bitfield, Have, Choke, Unchoke, Piece,
              Pex, Pump, PumpChoked, PumpLate, PumpRequests, PumpNothingLeft, EndsTurn,
              emitVars
<1> QED BY <1>1, <1>2, <1>3, <1>4
        DEF Next, RequestAges, DeadlinePasses, Timer, ClientLeaves, vars, emitVars

(* Every response is one that DownloadContract allows: intact pieces, each *)
(* at most once, nothing after the summary, for any peers and any client.  *)
THEOREM SessionKeepsContract == Spec => Contract!ContractSafety
<1>1. Init => Contract!ContractInit
  BY DEF Init, Contract!ContractInit
<1> QED BY <1>1, SessionInvariant, ContractStep, PTL DEF Spec, Contract!ContractSafety
=============================================================================
