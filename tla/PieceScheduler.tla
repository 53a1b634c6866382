--------------------------- MODULE PieceScheduler ---------------------------
(***************************************************************************)
(* The work set of one /api/download invocation: lib/piece-scheduler.ts.   *)
(* Connections claim block requests from it and push received blocks back; *)
(* the session removes a piece that verified and resets one that did not.  *)
(*                                                                         *)
(* A piece is named by its position in req.wanted, so that `order`, which  *)
(* the code keeps beside the map, is the numeric order.  A block is the    *)
(* pair <<piece, position in the piece>>.  The bytes of a block are        *)
(* abstracted to whether they are the torrent's; the clock is abstracted   *)
(* to the set of requests older than REQUEST_TIMEOUT_MS.                   *)
(***************************************************************************)
EXTENDS Integers, FiniteSets

CONSTANTS
  Wanted,                  \* the pieces of req.wanted
  NumBlocks,               \* blocks of each piece (the last one is shorter)
  Owners,                  \* connection tokens
  NoOwner,                 \* requestOwner[b] === null
  EndgamePieceThreshold    \* ENDGAME_PIECE_THRESHOLD

ASSUME SchedulerAssumption ==
  /\ Wanted \subseteq Nat
  /\ IsFiniteSet(Wanted)
  /\ NumBlocks \in [Wanted -> Nat \ {0}]
  /\ NoOwner \notin Owners
  /\ EndgamePieceThreshold \in Nat

VARIABLES
  pieces,         \* the keys of the map: pieces not yet verified
  blockStates,    \* 0 need, 1 requested, 2 done
  requestOwner,   \* who holds the outstanding request of a block
  stale,          \* requested blocks whose requestedAt is too old
  buffer,         \* what the piece's buffer holds where the block belongs
  received        \* count of done blocks of a piece

schedVars == <<pieces, blockStates, requestOwner, stale, buffer, received>>

Blocks == UNION {{i} \X (0 .. (NumBlocks[i] - 1)) : i \in Wanted}
BlocksOf(i) == {blk \in Blocks : blk[1] = i}

SchedTypeOK ==
  /\ pieces \subseteq Wanted
  /\ blockStates \in [Blocks -> {"need", "requested", "done"}]
  /\ requestOwner \in [Blocks -> Owners \cup {NoOwner}]
  /\ stale \subseteq Blocks
  /\ buffer \in [Blocks -> {"zero", "good", "bad"}]
  /\ received \in [Wanted -> Nat]

SchedInit ==
  /\ pieces = Wanted
  /\ blockStates = [blk \in Blocks |-> "need"]
  /\ requestOwner = [blk \in Blocks |-> NoOwner]
  /\ stale = {}
  /\ buffer = [blk \in Blocks |-> "zero"]
  /\ received = [i \in Wanted |-> 0]

-----------------------------------------------------------------------------
(* nextRequest and pickBlock, iterated by pump while there is room.        *)

\* Mutant of FreshBlocks: forgets to skip the done blocks.
FreshBlocks_DoneToo(has) ==
  {blk \in Blocks : /\ blk[1] \in pieces \cap has
                    /\ blockStates[blk] # "requested" \/ blk \in stale}

\* pickBlock(owner, hasFn, false) takes blocks never asked for, or asked for
\* too long ago (whoever asked).
FreshBlocks(has) ==
  {blk \in Blocks : /\ blk[1] \in pieces \cap has
                    /\ \/ blockStates[blk] = "need"
                       \/ blockStates[blk] = "requested" /\ blk \in stale}

\* Mutant of DuplicateBlocks: duplicates the owner's own requests as well.
DuplicateBlocks_OwnToo(owner, has) ==
  {blk \in Blocks : /\ Cardinality(pieces) <= EndgamePieceThreshold
                    /\ blk[1] \in pieces \cap has
                    /\ blockStates[blk] = "requested" /\ blk \notin stale}

\* In the endgame pickBlock(owner, hasFn, true) also takes blocks in flight
\* with another owner.
DuplicateBlocks(owner, has) ==
  {blk \in Blocks : /\ Cardinality(pieces) <= EndgamePieceThreshold
                    /\ blk[1] \in pieces \cap has
                    /\ blockStates[blk] = "requested"
                    /\ blk \notin stale
                    /\ requestOwner[blk] # owner}

ScanBefore(c, d) == c[1] < d[1] \/ (c[1] = d[1] /\ c[2] < d[2])

\* nextRequest exhausts the fresh blocks before it turns to duplicates, each
\* in scan order.
PickedBefore(c, d, fresh) ==
  \/ c \in fresh /\ d \notin fresh
  \/ (c \in fresh <=> d \in fresh) /\ ScanBefore(c, d)

\* The blocks that `room` successive calls of nextRequest hand to owner.
NextRequests(owner, has, room) ==
  LET fresh == FreshBlocks(has)
      candidates == fresh \cup DuplicateBlocks(owner, has)
  IN {d \in candidates :
        Cardinality({c \in candidates : PickedBefore(c, d, fresh)}) < room}

\* The bookkeeping of the claims: state 1, requestedAt now, owned by owner.
Claim(owner, requests) ==
  /\ blockStates' = [blk \in Blocks |->
       IF blk \in requests THEN "requested" ELSE blockStates[blk]]
  /\ requestOwner' = [blk \in Blocks |->
       IF blk \in requests THEN owner ELSE requestOwner[blk]]
  /\ stale' = stale \ requests
  /\ UNCHANGED <<pieces, buffer, received>>

\* REQUEST_TIMEOUT_MS go by without an answer.
RequestTimesOut(blk) ==
  /\ blk[1] \in pieces
  /\ blockStates[blk] = "requested"
  /\ blk \notin stale
  /\ stale' = stale \cup {blk}
  /\ UNCHANGED <<pieces, blockStates, requestOwner, buffer, received>>

-----------------------------------------------------------------------------
(* onBlock.                                                                *)

\* Mutant of Accepts: a block received twice is stored twice.
Accepts_Duplicates(blk) == blk \in Blocks /\ blk[1] \in pieces

\* A block of a piece no longer in the map, beyond its end, or already done
\* is dropped.
Accepts(blk) ==
  /\ blk \in Blocks
  /\ blk[1] \in pieces
  /\ blockStates[blk] # "done"

\* Later blocks of the same piece that a misaligned or overlong block spills
\* into: the bytes are copied at `begin`, clipped to the piece only.
Later(blk) == {c \in BlocksOf(blk[1]) : c[2] > blk[2]}

StoreBlock(blk, bytes, spill) ==
  /\ buffer' = [c \in Blocks |->
       IF c \in {blk} \cup spill THEN bytes ELSE buffer[c]]
  /\ blockStates' = [blockStates EXCEPT ![blk] = "done"]
  /\ requestOwner' = [requestOwner EXCEPT ![blk] = NoOwner]
  /\ stale' = stale \ {blk}
  /\ received' = [received EXCEPT ![blk[1]] = @ + 1]
  /\ UNCHANGED pieces

\* Mutant of OnBlock: a block already received is stored and counted again.
OnBlock_Duplicates(blk, bytes, spill) ==
  IF Accepts_Duplicates(blk) THEN StoreBlock(blk, bytes, spill) ELSE UNCHANGED schedVars

OnBlock(blk, bytes, spill) ==
  IF Accepts(blk) THEN StoreBlock(blk, bytes, spill) ELSE UNCHANGED schedVars

\* Mutant of Fills: a block that is dropped as a duplicate fills the piece too.
Fills_Dropped(blk) ==
  blk \in Blocks /\ blk[1] \in pieces /\ received[blk[1]] + 1 = NumBlocks[blk[1]]

\* onBlock returns the whole piece: the last block of it was stored.
Fills(blk) == Accepts(blk) /\ received[blk[1]] + 1 = NumBlocks[blk[1]]

Full(i) == received[i] = NumBlocks[i]
-----------------------------------------------------------------------------
(* complete, reset and releaseOwner.                                       *)

Complete(i) ==
  /\ pieces' = pieces \ {i}
  /\ UNCHANGED <<blockStates, requestOwner, stale, buffer, received>>

Reset(i) ==
  IF i \notin pieces THEN UNCHANGED schedVars
  ELSE /\ blockStates' = [blk \in Blocks |->
            IF blk[1] = i THEN "need" ELSE blockStates[blk]]
       /\ requestOwner' = [blk \in Blocks |->
            IF blk[1] = i THEN NoOwner ELSE requestOwner[blk]]
       /\ stale' = stale \ BlocksOf(i)
       /\ buffer' = [blk \in Blocks |->
            IF blk[1] = i THEN "zero" ELSE buffer[blk]]
       /\ received' = [received EXCEPT ![i] = 0]
       /\ UNCHANGED pieces

\* Mutant of OwnedBy: releases nothing.
OwnedBy_Nothing(gone) == {}

\* The outstanding requests that releaseOwner frees for the owners in gone
\* (the session stops several connections in one go).
OwnedBy(gone) == {blk \in Blocks : /\ blk[1] \in pieces
                                   /\ blockStates[blk] = "requested"
                                   /\ requestOwner[blk] \in gone}

\* Mutant of ReleaseOwners: frees the block but leaves its owner recorded.
ReleaseOwners_KeepsOwner(gone) ==
  /\ blockStates' = [blk \in Blocks |->
       IF blk \in OwnedBy(gone) THEN "need" ELSE blockStates[blk]]
  /\ stale' = stale \ OwnedBy(gone)
  /\ UNCHANGED <<pieces, requestOwner, buffer, received>>

\* Mutant of ReleaseOwners: uncounts the blocks it frees.
ReleaseOwners_Uncounts(gone) ==
  /\ blockStates' = [blk \in Blocks |->
       IF blk \in OwnedBy(gone) THEN "need" ELSE blockStates[blk]]
  /\ requestOwner' = [blk \in Blocks |->
       IF blk \in OwnedBy(gone) THEN NoOwner ELSE requestOwner[blk]]
  /\ stale' = stale \ OwnedBy(gone)
  /\ received' = [i \in Wanted |->
       received[i] - Cardinality(OwnedBy(gone) \cap BlocksOf(i))]
  /\ UNCHANGED <<pieces, buffer>>

ReleaseOwners(gone) ==
  /\ blockStates' = [blk \in Blocks |->
       IF blk \in OwnedBy(gone) THEN "need" ELSE blockStates[blk]]
  /\ requestOwner' = [blk \in Blocks |->
       IF blk \in OwnedBy(gone) THEN NoOwner ELSE requestOwner[blk]]
  /\ stale' = stale \ OwnedBy(gone)
  /\ UNCHANGED <<pieces, buffer, received>>

-----------------------------------------------------------------------------
(* The scheduler under any caller that settles exactly the full pieces.    *)

SchedClaim(o) ==
  \E has \in SUBSET Wanted, room \in 1..Cardinality(Blocks) :
    /\ NextRequests(o, has, room) # {}
    /\ Claim(o, NextRequests(o, has, room))

SchedBlock(blk) ==
  \E bytes \in {"good", "bad"}, spill \in SUBSET Later(blk) :
    Accepts(blk) /\ StoreBlock(blk, bytes, spill)

SchedComplete(i) == i \in pieces /\ Full(i) /\ Complete(i)
SchedReset(i)    == i \in pieces /\ Full(i) /\ Reset(i)
SchedRelease     == \E gone \in SUBSET Owners : ReleaseOwners(gone)

SchedNext ==
  \/ \E o \in Owners : SchedClaim(o)
  \/ \E blk \in Blocks : SchedBlock(blk) \/ RequestTimesOut(blk)
  \/ \E i \in Wanted : SchedComplete(i) \/ SchedReset(i)
  \/ SchedRelease

SchedSpec == SchedInit /\ [][SchedNext]_schedVars

-----------------------------------------------------------------------------
(* The loop of pump, call by call.  NextRequests says in one go what it    *)
(* takes; here it is as the code runs it, with each claim changing what    *)
(* the next call of nextRequest sees.                                      *)

\* The blocks pickBlock stops at when owner has just claimed `claimed`.  It may
\* duplicate the requests of `rivals`: of nobody unless allowDuplicates is set.
Claimable(claimed, owner, has, rivals) ==
  {blk \in Blocks :
     LET state  == IF blk \in claimed THEN "requested" ELSE blockStates[blk]
         holder == IF blk \in claimed THEN owner ELSE requestOwner[blk]
         old    == blk \in stale \ claimed
     IN /\ blk[1] \in pieces \cap has
        /\ \/ state = "need"
           \/ state = "requested" /\ (old \/ holder \in rivals)}

Rivals(owner) == (Owners \cup {NoOwner}) \ {owner}

FirstOf(S) == {d \in S : \A c \in S : ~ScanBefore(c, d)}

\* What the next call returns: one block, or none.
NextRequest(claimed, owner, has) ==
  LET fresh == Claimable(claimed, owner, has, {})
  IN CASE fresh # {} -> FirstOf(fresh)
       [] fresh = {} /\ Cardinality(pieces) <= EndgamePieceThreshold ->
            FirstOf(Claimable(claimed, owner, has, Rivals(owner)))
       [] OTHER -> {}

\* A run of the loop takes n blocks: each is what the call returns after the
\* earlier ones were claimed, and it ends for want of room or of blocks.
IsLoopRun(taken, n, owner, has, room) ==
  LET before(k) == {taken[j] : j \in 1 .. (k - 1)} IN
  /\ \A k \in 1 .. n : k <= room /\ taken[k] \in NextRequest(before(k), owner, has)
  /\ n < room => NextRequest(before(n + 1), owner, has) = {}

(* The set NextRequests names is exactly what the loop takes, and the loop *)
(* never takes a block twice: fresh blocks first, in scan order, then      *)
(* duplicates, only in the endgame and never of the owner's own request    *)
(* (piece-scheduler.ts:76-113, peer.ts:300-305).                           *)
LoopTakes(owner, has, room) ==
  LET requests == NextRequests(owner, has, room)
      n == Cardinality(requests)
  IN \E taken \in [1 .. n -> requests] :
       /\ IsLoopRun(taken, n, owner, has, room)
       /\ \A d \in requests : \E k \in 1 .. n : taken[k] = d

NextRequestsIsTheLoop ==
  \A owner \in Owners, has \in SUBSET Wanted, room \in -1 .. (Cardinality(Blocks) + 1) :
    LoopTakes(owner, has, room)

-----------------------------------------------------------------------------
DoneOf(i) == {blk \in BlocksOf(i) : blockStates[blk] = "done"}

(* The count that decides when a piece is handed over for verification is  *)
(* the number of blocks that are really in the buffer: duplicates, resets  *)
(* and releases must all leave it exact, or a piece is verified too early  *)
(* (onBlock, line 127) or never.                                           *)
ReceivedCountsDone == \A i \in pieces : received[i] = Cardinality(DoneOf(i))

(* A block is owned exactly while its request is outstanding; a block left *)
(* "requested" without an owner would never be freed by releaseOwner, and  *)
(* an owned one that is not requested would be blamed on a wrong peer.     *)
OwnedIffRequested ==
  \A blk \in Blocks :
    blk[1] \in pieces =>
      (blockStates[blk] = "requested" <=> requestOwner[blk] # NoOwner)

(* A block once received is never asked for again unless reset throws its  *)
(* whole piece away (lines 97, 122 and 138): neither an endgame duplicate, *)
(* nor a late timeout, nor the departure of a peer brings it back.         *)
DoneIsKept ==
  [][\A blk \in Blocks :
       blockStates[blk] = "done" =>
         \/ blockStates'[blk] = "done"
         \/ received'[blk[1]] = 0 /\ \A c \in BlocksOf(blk[1]) : buffer'[c] = "zero"
    ]_schedVars

(* onBlock hands over the piece's live buffer, not a copy (line 127), and  *)
(* the caller hashes it and sends it later: from then on no late, repeated *)
(* or misaligned block may change a byte of it before the piece is settled.*)
HandedOverIsFrozen ==
  [][\A i \in pieces :
       Full(i) => \/ \A blk \in BlocksOf(i) : buffer'[blk] = buffer[blk]
                  \/ received'[i] = 0
    ]_schedVars
=============================================================================
