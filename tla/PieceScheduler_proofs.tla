----------------------- MODULE PieceScheduler_proofs -----------------------
(* What holds of the piece scheduler for any work set, any number of peers *)
(* and any caller that follows its protocol.                               *)
EXTENDS PieceScheduler, FiniteSetTheorems, TLAPS

-----------------------------------------------------------------------------
(* A block is a pair of a wanted piece and a position in it.               *)
LEMMA BlockParts ==
  /\ \A blk \in Blocks : /\ blk = <<blk[1], blk[2]>>
                         /\ blk[1] \in Wanted
                         /\ blk[2] \in 0 .. (NumBlocks[blk[1]] - 1)
                         /\ blk \in BlocksOf(blk[1])
  /\ \A i \in Wanted : \A b \in 0 .. (NumBlocks[i] - 1) : <<i, b>> \in BlocksOf(i)
  /\ \A i : BlocksOf(i) \subseteq Blocks
BY DEF Blocks, BlocksOf

(* A piece has as many blocks as NumBlocks says.                           *)
LEMMA BlocksOfPiece ==
  ASSUME NEW i \in Wanted
  PROVE  /\ IsFiniteSet(BlocksOf(i))
         /\ Cardinality(BlocksOf(i)) = NumBlocks[i]
<1> DEFINE n == NumBlocks[i]
           f == [b \in 0 .. (n - 1) |-> <<i, b>>]
<1>1. n \in Nat \ {0}
  BY SchedulerAssumption
<1>2. IsFiniteSet(0 .. (n - 1)) /\ Cardinality(0 .. (n - 1)) = n
  <2>1. 0 \in Int /\ n - 1 \in Int /\ ~(0 > n - 1)
    BY <1>1
  <2>2. IsFiniteSet(0 .. (n - 1)) /\ Cardinality(0 .. (n - 1)) = (n - 1) - 0 + 1
    BY <2>1, FS_Interval
  <2> QED BY <1>1, <2>2
<1>3. f \in Bijection(0 .. (n - 1), BlocksOf(i))
  <2>1. \A b \in 0 .. (n - 1) : f[b] \in BlocksOf(i)
    BY BlockParts
  <2>2. \A a, b \in 0 .. (n - 1) : f[a] = f[b] => a = b
    OBVIOUS
  <2>3. \A blk \in BlocksOf(i) : \E b \in 0 .. (n - 1) : f[b] = blk
    <3> SUFFICES ASSUME NEW blk \in BlocksOf(i) PROVE \E b \in 0 .. (n - 1) : f[b] = blk
      OBVIOUS
    <3>1. blk = <<i, blk[2]>> /\ blk[2] \in 0 .. (n - 1)
      BY BlockParts DEF BlocksOf
    <3> QED BY <3>1
  <2> QED BY <2>1, <2>2, <2>3 DEF Bijection, Injection, Surjection, IsInjective
<1>4. ExistsBijection(0 .. (n - 1), BlocksOf(i))
  BY <1>3 DEF ExistsBijection
<1> QED BY <1>2, <1>4, FS_Bijection

-----------------------------------------------------------------------------
(* The order in which a run of calls hands out blocks.                     *)

LEMMA FiniteBlocks == IsFiniteSet(Blocks)
<1> DEFINE parts == {{i} \X (0 .. (NumBlocks[i] - 1)) : i \in Wanted}
           f == [i \in Wanted |-> {i} \X (0 .. (NumBlocks[i] - 1))]
<1>1. f \in Surjection(Wanted, parts)
  BY DEF Surjection
<1>2. IsFiniteSet(parts)
  BY <1>1, SchedulerAssumption, FS_Surjection
<1>3. ASSUME NEW T \in parts PROVE IsFiniteSet(T)
  <2>1. PICK i \in Wanted : T = {i} \X (0 .. (NumBlocks[i] - 1))
    OBVIOUS
  <2>2. T = BlocksOf(i)
    BY <2>1 DEF BlocksOf, Blocks
  <2> QED BY <2>2, BlocksOfPiece
<1> QED BY <1>2, <1>3, FS_UNION DEF Blocks

\* The members of C that are handed out before d, and how many they are.
Earlier(d, C, fresh) == {c \in C : PickedBefore(c, d, fresh)}
Rank(d, C, fresh) == Cardinality(Earlier(d, C, fresh))

\* PickedBefore is a strict total order on blocks.
LEMMA PickedInOrder ==
  ASSUME NEW fresh, NEW c \in Blocks, NEW d \in Blocks
  PROVE  /\ ~PickedBefore(c, c, fresh)
         /\ c # d => PickedBefore(c, d, fresh) \/ PickedBefore(d, c, fresh)
         /\ \A b \in Blocks :
              PickedBefore(b, c, fresh) /\ PickedBefore(c, d, fresh)
                => PickedBefore(b, d, fresh)
<1>1. \A b \in Blocks : b = <<b[1], b[2]>> /\ b[1] \in Nat /\ b[2] \in Nat
  BY BlockParts, SchedulerAssumption
<1>2. \A b \in Blocks : b[1] \in Nat /\ b[2] \in Nat
  BY <1>1
<1>3. c # d => ScanBefore(c, d) \/ ScanBefore(d, c)
  <2>1. c # d => c[1] # d[1] \/ c[2] # d[2]
    BY <1>1
  <2> QED BY <1>2, <2>1 DEF ScanBefore
<1>4. ~ScanBefore(c, c)
  BY <1>2 DEF ScanBefore
<1>5. \A b \in Blocks : ScanBefore(b, c) /\ ScanBefore(c, d) => ScanBefore(b, d)
  BY <1>2 DEF ScanBefore
<1> QED BY <1>3, <1>4, <1>5 DEF PickedBefore

\* Each block has its own rank, and the ranks are 0, 1, 2, ...
LEMMA RanksAreExact ==
  ASSUME NEW fresh, NEW C \in SUBSET Blocks
  PROVE  /\ IsFiniteSet(C) /\ Cardinality(C) \in Nat
         /\ \A d \in C : Rank(d, C, fresh) \in 0 .. (Cardinality(C) - 1)
         /\ \A c, d \in C : PickedBefore(c, d, fresh) <=> Rank(c, C, fresh) < Rank(d, C, fresh)
         /\ \A c, d \in C : Rank(c, C, fresh) = Rank(d, C, fresh) => c = d
         /\ \A k \in 0 .. (Cardinality(C) - 1) : \E d \in C : Rank(d, C, fresh) = k
<1>1. IsFiniteSet(C) /\ Cardinality(C) \in Nat
  BY FiniteBlocks, FS_Subset, FS_CardinalityType
<1>2. ASSUME NEW d \in C
      PROVE  /\ IsFiniteSet(Earlier(d, C, fresh))
             /\ Rank(d, C, fresh) \in 0 .. (Cardinality(C) - 1)
  <2>1. Earlier(d, C, fresh) \in SUBSET (C \ {d})
    BY PickedInOrder DEF Earlier
  <2>2. IsFiniteSet(C \ {d}) /\ Cardinality(C \ {d}) = Cardinality(C) - 1
    BY <1>1, FS_RemoveElement
  <2>3. /\ IsFiniteSet(Earlier(d, C, fresh))
        /\ Cardinality(Earlier(d, C, fresh)) <= Cardinality(C \ {d})
    BY <2>1, <2>2, FS_Subset
  <2>4. Cardinality(Earlier(d, C, fresh)) \in Nat
    BY <2>3, FS_CardinalityType
  <2> QED BY <1>1, <2>2, <2>3, <2>4 DEF Rank
<1>3. ASSUME NEW c \in C, NEW d \in C, PickedBefore(c, d, fresh)
      PROVE  Rank(c, C, fresh) < Rank(d, C, fresh)
  <2>1. Earlier(c, C, fresh) \in SUBSET Earlier(d, C, fresh)
    BY <1>3, PickedInOrder DEF Earlier
  <2>2. c \in Earlier(d, C, fresh) /\ c \notin Earlier(c, C, fresh)
    BY <1>3, PickedInOrder DEF Earlier
  <2>3. /\ Cardinality(Earlier(c, C, fresh)) <= Cardinality(Earlier(d, C, fresh))
        /\ Cardinality(Earlier(d, C, fresh)) # Cardinality(Earlier(c, C, fresh))
    BY <1>2, <2>1, <2>2, FS_Subset
  <2> QED BY <1>1, <1>2, <2>3 DEF Rank
<1>4. ASSUME NEW c \in C, NEW d \in C, c # d
      PROVE  PickedBefore(c, d, fresh) \/ PickedBefore(d, c, fresh)
  BY <1>4, PickedInOrder
<1>5. \A c, d \in C : Rank(c, C, fresh) = Rank(d, C, fresh) => c = d
  BY <1>1, <1>2, <1>3, <1>4
<1>6. \A c, d \in C : PickedBefore(c, d, fresh) <=> Rank(c, C, fresh) < Rank(d, C, fresh)
  BY <1>1, <1>2, <1>3, <1>4
<1>7. \A k \in 0 .. (Cardinality(C) - 1) : \E d \in C : Rank(d, C, fresh) = k
  <2> DEFINE ranks == 0 .. (Cardinality(C) - 1)
             f == [d \in C |-> Rank(d, C, fresh)]
  <2>1. f \in Injection(C, ranks)
    BY <1>2, <1>5 DEF Injection, IsInjective
  <2>2. IsFiniteSet(ranks) /\ Cardinality(ranks) = Cardinality(C)
    <3>1. 0 \in Int /\ Cardinality(C) - 1 \in Int
      BY <1>1
    <3>2. /\ IsFiniteSet(ranks)
          /\ Cardinality(ranks) = IF 0 > Cardinality(C) - 1 THEN 0 ELSE (Cardinality(C) - 1) - 0 + 1
      BY <3>1, FS_Interval
    <3> QED BY <1>1, <3>2
  <2>3. f \in Surjection(C, ranks)
    BY <2>1, <2>2, FS_Injection
  <2> QED BY <2>3 DEF Surjection
<1> QED BY <1>1, <1>2, <1>5, <1>6, <1>7

Candidates(owner, has) == FreshBlocks(has) \cup DuplicateBlocks(owner, has)

LEMMA RequestsByRank ==
  ASSUME NEW o, NEW S, NEW room
  PROVE  /\ Candidates(o, S) \in SUBSET Blocks
         /\ NextRequests(o, S, room) =
              {d \in Candidates(o, S) : Rank(d, Candidates(o, S), FreshBlocks(S)) < room}
BY DEF Candidates, FreshBlocks, DuplicateBlocks, NextRequests, Rank, Earlier

\* A run of calls takes min(room, the number of candidates) blocks, those of
\* the lowest ranks.
LEMMA RequestsAreCounted ==
  ASSUME NEW o, NEW S, NEW room \in Int
  PROVE  /\ IsFiniteSet(NextRequests(o, S, room))
         /\ Cardinality(NextRequests(o, S, room)) \in Nat
         /\ room <= 0 => NextRequests(o, S, room) = {}
         /\ room >= 0 => Cardinality(NextRequests(o, S, room)) <= room
         /\ Cardinality(NextRequests(o, S, room)) < room =>
              NextRequests(o, S, room) = Candidates(o, S)
         /\ \A d \in Candidates(o, S) :
              d \in NextRequests(o, S, room) <=>
                Rank(d, Candidates(o, S), FreshBlocks(S)) < Cardinality(NextRequests(o, S, room))
<1> DEFINE C == Candidates(o, S)
           F == FreshBlocks(S)
           R == NextRequests(o, S, room)
           total == Cardinality(C)
           m == IF room <= 0 THEN 0 ELSE IF room <= total THEN room ELSE total
<1>0. C \in SUBSET Blocks /\ R = {d \in C : Rank(d, C, F) < room}
  BY RequestsByRank
<1> HIDE DEF C, F, R
<1>1. /\ IsFiniteSet(C) /\ total \in Nat
      /\ \A d \in C : Rank(d, C, F) \in 0 .. (total - 1)
      /\ \A c, d \in C : Rank(c, C, F) = Rank(d, C, F) => c = d
      /\ \A k \in 0 .. (total - 1) : \E d \in C : Rank(d, C, F) = k
  BY <1>0, RanksAreExact
<1>2. m \in Nat /\ m <= total
  BY <1>1
<1> HIDE DEF total
<1>3. R = {d \in C : Rank(d, C, F) < m}
  BY <1>0, <1>1
<1>4. IsFiniteSet(0 .. (m - 1)) /\ Cardinality(0 .. (m - 1)) = m
  <2>1. 0 \in Int /\ m - 1 \in Int
    BY <1>2
  <2>2. /\ IsFiniteSet(0 .. (m - 1))
        /\ Cardinality(0 .. (m - 1)) = IF 0 > m - 1 THEN 0 ELSE (m - 1) - 0 + 1
    BY <2>1, FS_Interval
  <2> QED BY <1>2, <2>2
<1> HIDE DEF m
<1>5. IsFiniteSet(R) /\ Cardinality(R) = m
  <2> DEFINE f == [d \in R |-> Rank(d, C, F)]
  <2>1. f \in [R -> 0 .. (m - 1)]
    BY <1>1, <1>2, <1>3
  <2>2. \A c, d \in R : f[c] = f[d] => c = d
    BY <1>1, <1>3
  <2>3. \A k \in 0 .. (m - 1) : \E d \in R : f[d] = k
    <3> SUFFICES ASSUME NEW k \in 0 .. (m - 1) PROVE \E d \in R : f[d] = k
      OBVIOUS
    <3>1. k \in 0 .. (total - 1)
      BY <1>1, <1>2
    <3>2. PICK d \in C : Rank(d, C, F) = k
      BY <1>1, <3>1
    <3>3. d \in R
      BY <1>2, <1>3, <3>2
    <3> QED BY <3>2, <3>3
  <2>4. f \in Injection(R, 0 .. (m - 1)) /\ f \in Surjection(R, 0 .. (m - 1))
    BY <2>1, <2>2, <2>3 DEF Injection, IsInjective, Surjection
  <2> QED BY <1>4, <2>4, FS_Injection
<1>6. room <= 0 => R = {}
  BY <1>0, <1>1
<1>7. room >= 0 => m <= room
  BY <1>1 DEF m
<1>8. m < room => R = C
  BY <1>0, <1>1 DEF m
<1> QED BY <1>2, <1>3, <1>5, <1>6, <1>7, <1>8 DEF C, F, R

-----------------------------------------------------------------------------
(* A full piece has nothing but done blocks: what onBlock hands over is    *)
(* complete.                                                               *)
LEMMA FullIsDone ==
  ASSUME NEW i \in Wanted, Full(i), received[i] = Cardinality(DoneOf(i))
  PROVE  \A blk \in BlocksOf(i) : blockStates[blk] = "done"
<1>1. DoneOf(i) \in SUBSET BlocksOf(i) /\ Cardinality(BlocksOf(i)) = Cardinality(DoneOf(i))
  BY BlocksOfPiece DEF Full, DoneOf
<1>2. BlocksOf(i) = DoneOf(i)
  BY <1>1, BlocksOfPiece, FS_Subset
<1> QED BY <1>2 DEF DoneOf

-----------------------------------------------------------------------------
(* The inductive invariant.  The count is exact of the verified pieces too:*)
(* nothing touches them any more.                                          *)
SchedInv ==
  /\ SchedTypeOK
  /\ \A i \in Wanted : received[i] = Cardinality(DoneOf(i))
  /\ \A blk \in Blocks :
       blockStates[blk] = "requested" <=> requestOwner[blk] # NoOwner

LEMMA SchedInitInv == SchedInit => SchedInv
<1> SUFFICES ASSUME SchedInit PROVE SchedInv
  OBVIOUS
<1>1. SchedTypeOK
  BY DEF SchedInit, SchedTypeOK
<1>2. \A i \in Wanted : received[i] = Cardinality(DoneOf(i))
  <2> SUFFICES ASSUME NEW i \in Wanted PROVE received[i] = Cardinality(DoneOf(i))
    OBVIOUS
  <2>1. DoneOf(i) = {}
    BY BlockParts DEF DoneOf, SchedInit
  <2> QED BY <2>1, FS_EmptySet DEF SchedInit
<1>3. \A blk \in Blocks :
        blockStates[blk] = "requested" <=> requestOwner[blk] # NoOwner
  BY DEF SchedInit
<1> QED BY <1>1, <1>2, <1>3 DEF SchedInv

\* A step that leaves `received` and the done blocks of i alone keeps the
\* count of i exact.
LEMMA SameDone ==
  ASSUME NEW i \in Wanted, received[i] = Cardinality(DoneOf(i)),
         received'[i] = received[i],
         \A blk \in BlocksOf(i) : blockStates[blk] = "done" <=> blockStates'[blk] = "done"
  PROVE  received'[i] = Cardinality(DoneOf(i))'
<1>1. DoneOf(i)' = DoneOf(i)
  BY DEF DoneOf, BlocksOf, Blocks
<1> QED BY <1>1

-----------------------------------------------------------------------------
(* Claims, releases and timeouts move blocks between need and requested.   *)

LEMMA RequestsAreOpen ==
  ASSUME NEW o \in Owners, NEW has \in SUBSET Wanted, NEW room,
         NEW blk \in NextRequests(o, has, room)
  PROVE  /\ blk \in Blocks /\ blk[1] \in pieces \cap has
         /\ blockStates[blk] \in {"need", "requested"}
BY DEF NextRequests, FreshBlocks, DuplicateBlocks

LEMMA ClaimInv ==
  ASSUME SchedInv, NEW o \in Owners, NEW requests \in SUBSET Blocks,
         \A blk \in requests : blockStates[blk] \in {"need", "requested"},
         Claim(o, requests)
  PROVE  SchedInv'
<1>1. SchedTypeOK'
  BY DEF SchedInv, SchedTypeOK, Claim
<1>2. ASSUME NEW i \in Wanted PROVE received'[i] = Cardinality(DoneOf(i))'
  <2>1. \A blk \in BlocksOf(i) : blockStates[blk] = "done" <=> blockStates'[blk] = "done"
    BY BlockParts DEF Claim
  <2> QED BY <2>1, SameDone DEF SchedInv, Claim
<1>3. (\A blk \in Blocks :
        blockStates[blk] = "requested" <=> requestOwner[blk] # NoOwner)'
  BY SchedulerAssumption DEF SchedInv, SchedTypeOK, Claim, Blocks
<1> QED BY <1>1, <1>2, <1>3 DEF SchedInv

LEMMA ReleaseInv ==
  ASSUME SchedInv, NEW gone \in SUBSET Owners, ReleaseOwners(gone)
  PROVE  SchedInv'
<1>1. SchedTypeOK'
  BY DEF SchedInv, SchedTypeOK, ReleaseOwners
<1>2. ASSUME NEW i \in Wanted PROVE received'[i] = Cardinality(DoneOf(i))'
  <2>1. \A blk \in BlocksOf(i) : blockStates[blk] = "done" <=> blockStates'[blk] = "done"
    BY BlockParts DEF ReleaseOwners, OwnedBy
  <2> QED BY <2>1, SameDone DEF SchedInv, ReleaseOwners
<1>3. (\A blk \in Blocks :
        blockStates[blk] = "requested" <=> requestOwner[blk] # NoOwner)'
  BY DEF SchedInv, SchedTypeOK, ReleaseOwners, OwnedBy, Blocks
<1> QED BY <1>1, <1>2, <1>3 DEF SchedInv

LEMMA TimeoutInv ==
  ASSUME SchedInv, NEW blk \in Blocks, RequestTimesOut(blk)
  PROVE  SchedInv'
<1>1. SchedTypeOK'
  BY DEF SchedInv, SchedTypeOK, RequestTimesOut
<1>2. ASSUME NEW i \in Wanted PROVE received'[i] = Cardinality(DoneOf(i))'
  BY SameDone DEF SchedInv, RequestTimesOut
<1> QED BY <1>1, <1>2 DEF SchedInv, RequestTimesOut, Blocks

-----------------------------------------------------------------------------
(* A stored block: the count of its piece grows by one.                    *)
LEMMA StoreInv ==
  ASSUME SchedInv, NEW blk \in Blocks, NEW bytes \in {"good", "bad"},
         NEW spill \in SUBSET Blocks, Accepts(blk), StoreBlock(blk, bytes, spill)
  PROVE  SchedInv'
<1> DEFINE j == blk[1]
<1>0. j \in Wanted /\ blk \in BlocksOf(j)
  BY BlockParts
<1>1. SchedTypeOK'
  BY <1>0 DEF SchedInv, SchedTypeOK, StoreBlock
<1>2. ASSUME NEW i \in Wanted PROVE received'[i] = Cardinality(DoneOf(i))'
  <2>1. CASE i # j
    <3>1. \A c \in BlocksOf(i) : blockStates'[c] = blockStates[c]
      BY <2>1, BlockParts DEF StoreBlock, SchedInv, SchedTypeOK, BlocksOf
    <3>2. received'[i] = received[i]
      BY <2>1, <1>0 DEF StoreBlock, SchedInv, SchedTypeOK
    <3> QED BY <3>1, <3>2, SameDone DEF SchedInv
  <2>2. CASE i = j
    <3>1. DoneOf(j)' = DoneOf(j) \cup {blk}
      BY <1>0, BlockParts DEF DoneOf, StoreBlock, SchedInv, SchedTypeOK, BlocksOf, Blocks
    <3>2. blk \notin DoneOf(j)
      BY DEF DoneOf, Accepts
    <3>3. IsFiniteSet(DoneOf(j))
      BY <1>0, BlocksOfPiece, FS_Subset DEF DoneOf
    <3>4. Cardinality(DoneOf(j) \cup {blk}) = Cardinality(DoneOf(j)) + 1
      BY <3>2, <3>3, FS_AddElement
    <3>5. received'[j] = received[j] + 1
      BY <1>0 DEF StoreBlock, SchedInv, SchedTypeOK
    <3> QED BY <2>2, <3>1, <3>4, <3>5, <1>0 DEF SchedInv
  <2> QED BY <2>1, <2>2
<1>3. (\A c \in Blocks :
        blockStates[c] = "requested" <=> requestOwner[c] # NoOwner)'
  BY DEF SchedInv, SchedTypeOK, StoreBlock, Blocks
<1> QED BY <1>1, <1>2, <1>3 DEF SchedInv

-----------------------------------------------------------------------------
(* The verdicts.                                                           *)
LEMMA CompleteInv ==
  ASSUME SchedInv, NEW i \in Wanted, Complete(i)
  PROVE  SchedInv'
<1>1. SchedTypeOK'
  BY DEF SchedInv, SchedTypeOK, Complete
<1>2. ASSUME NEW j \in Wanted PROVE received'[j] = Cardinality(DoneOf(j))'
  BY SameDone DEF SchedInv, Complete
<1> QED BY <1>1, <1>2 DEF SchedInv, Complete, Blocks

LEMMA ResetInv ==
  ASSUME SchedInv, NEW i \in Wanted, i \in pieces, Reset(i)
  PROVE  SchedInv'
<1>1. SchedTypeOK'
  BY DEF SchedInv, SchedTypeOK, Reset
<1>2. ASSUME NEW j \in Wanted PROVE received'[j] = Cardinality(DoneOf(j))'
  <2>1. CASE j # i
    <3>1. \A c \in BlocksOf(j) : blockStates'[c] = blockStates[c]
      BY <2>1, BlockParts DEF Reset, BlocksOf
    <3>2. received'[j] = received[j]
      BY <2>1 DEF Reset, SchedInv, SchedTypeOK
    <3> QED BY <3>1, <3>2, SameDone DEF SchedInv
  <2>2. CASE j = i
    <3>1. DoneOf(i)' = {}
      BY BlockParts DEF DoneOf, Reset, BlocksOf, Blocks
    <3>2. received'[i] = 0
      BY DEF Reset, SchedInv, SchedTypeOK
    <3> QED BY <2>2, <3>1, <3>2, FS_EmptySet
  <2> QED BY <2>1, <2>2
<1>3. (\A c \in Blocks :
        blockStates[c] = "requested" <=> requestOwner[c] # NoOwner)'
  BY DEF SchedInv, SchedTypeOK, Reset, Blocks
<1> QED BY <1>1, <1>2, <1>3 DEF SchedInv

-----------------------------------------------------------------------------
LEMMA SchedNextInv == SchedInv /\ [SchedNext]_schedVars => SchedInv'
<1> SUFFICES ASSUME SchedInv, [SchedNext]_schedVars PROVE SchedInv'
  OBVIOUS
<1>1. CASE \E o \in Owners : SchedClaim(o)
  <2>1. PICK o \in Owners, has \in SUBSET Wanted, room \in 1 .. Cardinality(Blocks) :
          Claim(o, NextRequests(o, has, room))
    BY <1>1 DEF SchedClaim
  <2>2. /\ NextRequests(o, has, room) \in SUBSET Blocks
        /\ \A blk \in NextRequests(o, has, room) : blockStates[blk] \in {"need", "requested"}
    BY RequestsAreOpen
  <2> QED BY <2>1, <2>2, ClaimInv
<1>2. CASE \E blk \in Blocks : SchedBlock(blk)
  <2>0. PICK blk \in Blocks : SchedBlock(blk)
    BY <1>2
  <2>1. PICK bytes \in {"good", "bad"}, spill \in SUBSET Later(blk) :
          Accepts(blk) /\ StoreBlock(blk, bytes, spill)
    BY <2>0 DEF SchedBlock
  <2>2. spill \in SUBSET Blocks
    BY BlockParts DEF Later
  <2> QED BY <2>1, <2>2, StoreInv
<1>3. CASE \E blk \in Blocks : RequestTimesOut(blk)
  BY <1>3, TimeoutInv
<1>4. CASE \E i \in Wanted : SchedComplete(i)
  BY <1>4, CompleteInv DEF SchedComplete
<1>5. CASE \E i \in Wanted : SchedReset(i)
  BY <1>5, ResetInv DEF SchedReset
<1>6. CASE SchedRelease
  BY <1>6, ReleaseInv DEF SchedRelease
<1>7. CASE UNCHANGED schedVars
  BY <1>7 DEF schedVars, SchedInv, SchedTypeOK, DoneOf, Blocks, BlocksOf
<1> QED BY <1>1, <1>2, <1>3, <1>4, <1>5, <1>6, <1>7 DEF SchedNext

(* The scheduler's variables keep their types.                             *)
THEOREM SchedulerTypes == SchedSpec => []SchedTypeOK
<1>1. SchedInv => SchedTypeOK
  BY DEF SchedInv
<1> QED BY SchedInitInv, SchedNextInv, <1>1, PTL DEF SchedSpec

(* The count of received blocks is exact, for any number of pieces, blocks *)
(* and peers.                                                              *)
THEOREM CountIsExact == SchedSpec => []ReceivedCountsDone
<1>1. SchedInv => ReceivedCountsDone
  BY DEF SchedInv, SchedTypeOK, ReceivedCountsDone
<1> QED BY SchedInitInv, SchedNextInv, <1>1, PTL DEF SchedSpec

(* A block has an owner exactly while its request is outstanding.          *)
THEOREM OwnersAreExact == SchedSpec => []OwnedIffRequested
<1>1. SchedInv => OwnedIffRequested
  BY DEF SchedInv, OwnedIffRequested
<1> QED BY SchedInitInv, SchedNextInv, <1>1, PTL DEF SchedSpec
-----------------------------------------------------------------------------
(* The action properties.                                                  *)

LEMMA FrozenStep ==
  ASSUME SchedInv, [SchedNext]_schedVars, NEW i \in pieces, Full(i)
  PROVE  \/ \A blk \in BlocksOf(i) : buffer'[blk] = buffer[blk]
         \/ received'[i] = 0
<1>0. i \in Wanted
  BY DEF SchedInv, SchedTypeOK
<1>1. CASE \E blk \in Blocks : SchedBlock(blk)
  <2>0. PICK blk \in Blocks : SchedBlock(blk)
    BY <1>1
  <2>1. PICK bytes \in {"good", "bad"}, spill \in SUBSET Later(blk) :
          Accepts(blk) /\ StoreBlock(blk, bytes, spill)
    BY <2>0 DEF SchedBlock
  <2>2. \A c \in BlocksOf(i) : blockStates[c] = "done"
    BY <1>0, FullIsDone DEF SchedInv
  <2>3. blk[1] # i
    BY <2>1, <2>2, BlockParts DEF Accepts
  <2>4. \A c \in BlocksOf(i) : c \in Blocks /\ c \notin {blk} \cup spill
    BY <2>3, BlockParts DEF Later, BlocksOf
  <2> QED BY <2>1, <2>4 DEF StoreBlock
<1>2. CASE \E j \in Wanted : SchedReset(j)
  <2>1. PICK j \in Wanted : SchedReset(j)
    BY <1>2
  <2>2. CASE j = i
    BY <2>1, <2>2, <1>0 DEF SchedReset, Reset, SchedInv, SchedTypeOK
  <2>3. CASE j # i
    BY <2>1, <2>3, BlockParts DEF SchedReset, Reset, BlocksOf
  <2> QED BY <2>2, <2>3
<1>3. CASE \/ \E o \in Owners : SchedClaim(o)
           \/ \E blk \in Blocks : RequestTimesOut(blk)
           \/ \E j \in Wanted : SchedComplete(j)
           \/ SchedRelease
           \/ UNCHANGED schedVars
  BY <1>3 DEF SchedClaim, Claim, RequestTimesOut, SchedComplete, Complete,
              SchedRelease, ReleaseOwners, schedVars
<1> QED BY <1>1, <1>2, <1>3 DEF SchedNext

(* The bytes of a piece that was handed over stay what they are until the  *)
(* piece is settled: the live buffer is as good as a copy.                 *)
THEOREM HandedOverStaysFrozen == SchedSpec => HandedOverIsFrozen
<1>1. SchedInv /\ [SchedNext]_schedVars =>
        [\A i \in pieces :
           Full(i) => \/ \A blk \in BlocksOf(i) : buffer'[blk] = buffer[blk]
                      \/ received'[i] = 0]_schedVars
  BY FrozenStep
<1> QED BY SchedInitInv, SchedNextInv, <1>1, PTL DEF SchedSpec, HandedOverIsFrozen

(* A received block is asked for again only after reset threw its piece    *)
(* away.                                                                   *)
THEOREM DoneStaysDone == SchedSpec => DoneIsKept
<1>1. ASSUME SchedInv, SchedNext, NEW blk \in Blocks, blockStates[blk] = "done"
      PROVE  \/ blockStates'[blk] = "done"
             \/ /\ received'[blk[1]] = 0
                /\ \A c \in BlocksOf(blk[1]) : buffer'[c] = "zero"
  <2>1. CASE \E o \in Owners : SchedClaim(o)
    <3>1. PICK o \in Owners, has \in SUBSET Wanted, room \in 1 .. Cardinality(Blocks) :
            Claim(o, NextRequests(o, has, room))
      BY <2>1 DEF SchedClaim
    <3>2. blk \notin NextRequests(o, has, room)
      BY <1>1, RequestsAreOpen
    <3> QED BY <1>1, <3>1, <3>2 DEF Claim
  <2>2. CASE \E c \in Blocks : SchedBlock(c)
    BY <1>1, <2>2 DEF SchedBlock, StoreBlock, SchedInv, SchedTypeOK
  <2>3. CASE \E i \in Wanted : SchedReset(i)
    <3>1. PICK i \in Wanted : SchedReset(i)
      BY <2>3
    <3>2. CASE blk[1] = i
      BY <1>1, <3>1, <3>2, BlockParts DEF SchedReset, Reset, SchedInv, SchedTypeOK, BlocksOf
    <3>3. CASE blk[1] # i
      BY <1>1, <3>1, <3>3 DEF SchedReset, Reset
    <3> QED BY <3>2, <3>3
  <2>4. CASE SchedRelease
    BY <1>1, <2>4 DEF SchedRelease, ReleaseOwners, OwnedBy
  <2>5. CASE \/ \E c \in Blocks : RequestTimesOut(c)
             \/ \E j \in Wanted : SchedComplete(j)
    BY <1>1, <2>5 DEF RequestTimesOut, SchedComplete, Complete
  <2> QED BY <1>1, <2>1, <2>2, <2>3, <2>4, <2>5 DEF SchedNext
<1>2. SchedInv /\ [SchedNext]_schedVars =>
        [\A blk \in Blocks :
           blockStates[blk] = "done" =>
             \/ blockStates'[blk] = "done"
             \/ received'[blk[1]] = 0 /\ \A c \in BlocksOf(blk[1]) : buffer'[c] = "zero"
        ]_schedVars
  BY <1>1
<1> QED BY SchedInitInv, SchedNextInv, <1>2, PTL DEF SchedSpec, DoneIsKept
-----------------------------------------------------------------------------
(* The loop of pump takes exactly NextRequests.                            *)

\* What the next call may stop at, once some candidates were claimed.
LEMMA ClaimableRest ==
  ASSUME SchedTypeOK, NEW o \in Owners, NEW S \in SUBSET Wanted,
         NEW claimed \in SUBSET Candidates(o, S)
  PROVE  /\ Claimable(claimed, o, S, {}) = FreshBlocks(S) \ claimed
         /\ Cardinality(pieces) <= EndgamePieceThreshold =>
              Claimable(claimed, o, S, Rivals(o)) = Candidates(o, S) \ claimed
<1>1. Claimable(claimed, o, S, {}) = FreshBlocks(S) \ claimed
  BY DEF Claimable, FreshBlocks
<1>2. ASSUME Cardinality(pieces) <= EndgamePieceThreshold
      PROVE  Claimable(claimed, o, S, Rivals(o)) = Candidates(o, S) \ claimed
  BY <1>2 DEF Claimable, Rivals, Candidates, FreshBlocks, DuplicateBlocks, SchedTypeOK
<1> QED BY <1>1, <1>2

\* A candidate is what the call returns that finds the earlier ones claimed.
LEMMA NextInTurn ==
  ASSUME SchedTypeOK, NEW o \in Owners, NEW S \in SUBSET Wanted,
         NEW d \in Candidates(o, S)
  PROVE  d \in NextRequest(Earlier(d, Candidates(o, S), FreshBlocks(S)), o, S)
<1> DEFINE C == Candidates(o, S)
           F == FreshBlocks(S)
           E == Earlier(d, C, F)
<1>1. E \in SUBSET C /\ d \notin E
  BY PickedInOrder, RequestsByRank DEF Earlier
<1> HIDE DEF E
<1>2. /\ Claimable(E, o, S, {}) = F \ E
      /\ Cardinality(pieces) <= EndgamePieceThreshold => Claimable(E, o, S, Rivals(o)) = C \ E
  BY <1>1, ClaimableRest
<1>3. CASE d \in F
  <2>1. d \in FirstOf(F \ E)
    BY <1>1, <1>3 DEF E, FirstOf, Earlier, PickedBefore, Candidates
  <2> HIDE DEF C, F
  <2>2. d \in NextRequest(E, o, S)
    BY <1>2, <1>3, <1>1, <2>1 DEF NextRequest
  <2> QED BY <2>2 DEF C, F, E
<1>4. CASE d \notin F
  <2>1. F \ E = {}
    BY <1>4 DEF E, Earlier, PickedBefore, Candidates
  <2>2. Cardinality(pieces) <= EndgamePieceThreshold
    BY <1>4 DEF Candidates, DuplicateBlocks
  <2>3. d \in FirstOf(C \ E)
    BY <1>1, <1>4, <2>1 DEF E, FirstOf, Earlier, PickedBefore
  <2> HIDE DEF C, F
  <2>4. NextRequest(E, o, S) = FirstOf(C \ E)
    BY <1>2, <2>1, <2>2 DEF NextRequest
  <2> QED BY <2>3, <2>4 DEF C, F, E
<1> QED BY <1>3, <1>4

\* When all candidates are claimed the call returns null.
LEMMA NoneAfterAll ==
  ASSUME SchedTypeOK, NEW o \in Owners, NEW S \in SUBSET Wanted
  PROVE  NextRequest(Candidates(o, S), o, S) = {}
<1> DEFINE C == Candidates(o, S)
<1>0. C \in SUBSET Candidates(o, S)
  OBVIOUS
<1> HIDE DEF C
<1>1. /\ Claimable(C, o, S, {}) = FreshBlocks(S) \ C
      /\ Cardinality(pieces) <= EndgamePieceThreshold => Claimable(C, o, S, Rivals(o)) = C \ C
  BY <1>0, ClaimableRest DEF C
<1>2. FreshBlocks(S) \ C = {} /\ FirstOf(C \ C) = {}
  BY DEF C, Candidates, FirstOf
<1>3. NextRequest(C, o, S) = {}
  BY <1>1, <1>2 DEF NextRequest
<1> QED BY <1>3 DEF C

\* Whatever the room, the loop takes the requests in the order of their ranks.
LEMMA LoopTakesAll ==
  ASSUME SchedTypeOK, NEW o \in Owners, NEW S \in SUBSET Wanted, NEW room \in Int
  PROVE  LoopTakes(o, S, room)
<1> DEFINE C == Candidates(o, S)
           F == FreshBlocks(S)
           R == NextRequests(o, S, room)
           n == Cardinality(R)
           taken == [k \in 1 .. n |-> CHOOSE d \in C : Rank(d, C, F) = k - 1]
           before(k) == {taken[j] : j \in 1 .. (k - 1)}
<1>1. /\ n \in Nat
      /\ room <= 0 => R = {}
      /\ room >= 0 => n <= room
      /\ n < room => R = C
      /\ \A d \in C : d \in R <=> Rank(d, C, F) < n
  BY RequestsAreCounted
<1>2. /\ \A d \in C : Rank(d, C, F) \in 0 .. (Cardinality(C) - 1)
      /\ \A c, d \in C : PickedBefore(c, d, F) <=> Rank(c, C, F) < Rank(d, C, F)
      /\ \A c, d \in C : Rank(c, C, F) = Rank(d, C, F) => c = d
      /\ \A k \in 0 .. (Cardinality(C) - 1) : \E d \in C : Rank(d, C, F) = k
      /\ Cardinality(C) \in Nat
  BY RequestsByRank, RanksAreExact
<1>3. R \in SUBSET C /\ n <= Cardinality(C)
  <2>0. C \in SUBSET Blocks /\ R = {d \in C : Rank(d, C, F) < room}
    BY RequestsByRank
  <2>1. R \in SUBSET C /\ C \in SUBSET Blocks
    BY <2>0
  <2>2. IsFiniteSet(C)
    BY <2>1, FiniteBlocks, FS_Subset
  <2> QED BY <2>1, <2>2, FS_Subset
<1>4. room <= 0 => n = 0
  BY <1>1, FS_EmptySet
<1> HIDE DEF C, F, R, n
<1>5. ASSUME NEW k \in 1 .. n
      PROVE  taken[k] \in R /\ taken[k] \in C /\ Rank(taken[k], C, F) = k - 1
  <2>1. k - 1 \in 0 .. (Cardinality(C) - 1)
    BY <1>1, <1>2, <1>3
  <2>2. taken[k] \in C /\ Rank(taken[k], C, F) = k - 1
    BY <1>2, <2>1
  <2>3. taken[k] \in R
    BY <1>1, <2>2
  <2> QED BY <2>2, <2>3
<1>6. taken \in [1 .. n -> R]
  BY <1>5
<1>7. \A d \in R : \E k \in 1 .. n : taken[k] = d
  <2> SUFFICES ASSUME NEW d \in R PROVE \E k \in 1 .. n : taken[k] = d
    OBVIOUS
  <2>1. d \in C /\ Rank(d, C, F) + 1 \in 1 .. n
    BY <1>1, <1>2, <1>3
  <2>2. taken[Rank(d, C, F) + 1] = d
    BY <1>2, <1>5, <2>1
  <2> QED BY <2>1, <2>2
<1> HIDE DEF taken
<1>8. ASSUME NEW k \in 1 .. (n + 1)
      PROVE  before(k) = {c \in C : Rank(c, C, F) < k - 1}
  <2>1. ASSUME NEW j \in 1 .. (k - 1)
        PROVE  taken[j] \in C /\ Rank(taken[j], C, F) < k - 1
    BY <1>1, <1>5
  <2>2. ASSUME NEW c \in C, Rank(c, C, F) < k - 1
        PROVE  c \in before(k)
    <3>1. Rank(c, C, F) + 1 \in 1 .. (k - 1) /\ Rank(c, C, F) + 1 \in 1 .. n
      BY <1>1, <1>2, <2>2
    <3>2. taken[Rank(c, C, F) + 1] = c
      BY <1>2, <1>5, <3>1
    <3> QED BY <3>1, <3>2
  <2> QED BY <2>1, <2>2
<1>9. ASSUME NEW k \in 1 .. n
      PROVE  k <= room /\ taken[k] \in NextRequest(before(k), o, S)
  <2>1. before(k) = {c \in C : Rank(c, C, F) < k - 1}
    BY <1>1, <1>8
  <2>2. taken[k] \in C /\ Rank(taken[k], C, F) = k - 1
    BY <1>5
  <2>3. {c \in C : Rank(c, C, F) < k - 1} = Earlier(taken[k], C, F)
    BY <1>2, <2>2 DEF Earlier
  <2>4. taken[k] \in NextRequest(Earlier(taken[k], C, F), o, S)
    BY <2>2, NextInTurn DEF C, F
  <2>5. k <= room
    BY <1>1, <1>4
  <2> QED BY <2>1, <2>3, <2>4, <2>5
<1>10. ASSUME n < room PROVE NextRequest(before(n + 1), o, S) = {}
  <2>1. n + 1 \in 1 .. (n + 1) /\ (n + 1) - 1 = n
    BY <1>1
  <2>2. before(n + 1) = {c \in C : Rank(c, C, F) < (n + 1) - 1}
    BY <1>8, <2>1
  <2>3. {c \in C : Rank(c, C, F) < n} = R
    BY <1>1, <1>3
  <2>4. before(n + 1) = C
    BY <1>1, <1>10, <2>1, <2>2, <2>3
  <2> QED BY <2>4, NoneAfterAll DEF C
<1>11. IsLoopRun(taken, n, o, S, room)
  BY <1>9, <1>10 DEF IsLoopRun
<1> QED BY <1>6, <1>7, <1>11 DEF LoopTakes, R, n

(* NextRequests is what the loop of pump takes, call by call, for any work *)
(* set, whatever was claimed before and however much room there is.        *)
THEOREM RequestsAreTheLoop == SchedSpec => []NextRequestsIsTheLoop
<1>1. SchedTypeOK => NextRequestsIsTheLoop
  <2>1. Cardinality(Blocks) \in Nat
    BY FiniteBlocks, FS_CardinalityType
  <2> QED BY <2>1, LoopTakesAll DEF NextRequestsIsTheLoop
<1> QED BY SchedulerTypes, <1>1, PTL
=============================================================================
