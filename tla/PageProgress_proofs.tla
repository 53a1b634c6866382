------------------------ MODULE PageProgress_proofs ------------------------
(***************************************************************************)
(* That nobody on the page waits for something that never comes, in any    *)
(* world: everyone who awaits a transaction has it in the queue, everyone  *)
(* who awaits the announce has one in flight, and so as long as anything   *)
(* is under way there is a next step of the program.  And that Start comes *)
(* back, unless the store is full.  That the steps are then taken is a     *)
(* matter of fairness, which the run of MCOrchestrator under FairSpec      *)
(* checks.                                                                 *)
(***************************************************************************)
EXTENDS Orchestrator_proofs

-----------------------------------------------------------------------------
(* A queue of transactions and those who wait for them.                    *)

\* Each call is of someone who waits for it, who made no other, and each who
\* waits has made one.
Calls(ops, waiters) ==
  /\ \E S : ops \in Seq(S)
  /\ \A n \in 1 .. Len(ops) : ops[n].by \in waiters
  /\ \A m, n \in 1 .. Len(ops) : ops[m].by = ops[n].by => m = n
  /\ \A c \in waiters : \E n \in 1 .. Len(ops) : ops[n].by = c

\* Someone who did not wait makes a call.
LEMMA CallMade ==
  ASSUME NEW ops, NEW waiters, Calls(ops, waiters), NEW o, o.by \notin waiters
  PROVE  Calls(Append(ops, o), waiters \cup {o.by})
<1> DEFINE more == Append(ops, o)
<1>1. PICK S : ops \in Seq(S)
  BY DEF Calls
<1> DEFINE T == S \cup {o}
<1>2. ops \in Seq(T) /\ o \in T
  BY <1>1
<1>3. /\ Len(ops) \in Nat /\ more \in Seq(T) /\ Len(more) = Len(ops) + 1
      /\ more[Len(ops) + 1] = o
      /\ \A n \in 1 .. Len(ops) : more[n] = ops[n]
  BY <1>2
<1> HIDE DEF more, T
<1>4. \A n \in 1 .. Len(more) : n = Len(ops) + 1 \/ n \in 1 .. Len(ops)
  BY <1>3
<1>5. \A n \in 1 .. Len(more) : more[n].by \in waiters \cup {o.by}
  BY <1>3, <1>4 DEF Calls
<1>6. ASSUME NEW m \in 1 .. Len(more), NEW n \in 1 .. Len(more), more[m].by = more[n].by
      PROVE  m = n
  BY <1>3, <1>4, <1>6 DEF Calls
<1>7. ASSUME NEW c \in waiters \cup {o.by}
      PROVE  \E n \in 1 .. Len(more) : more[n].by = c
  <2>1. CASE c = o.by
    BY <1>3, <2>1
  <2>2. CASE c \in waiters
    <3>1. PICK n \in 1 .. Len(ops) : ops[n].by = c
      BY <2>2 DEF Calls
    <3> QED BY <1>3, <3>1
  <2> QED BY <2>1, <2>2
<1> QED BY <1>3, <1>5, <1>6, <1>7 DEF Calls, more

\* The call at the head is answered, or refused.
LEMMA CallTaken ==
  ASSUME NEW ops, NEW waiters, Calls(ops, waiters), ops # <<>>
  PROVE  /\ Head(ops).by \in waiters
         /\ Calls(Tail(ops), waiters \ {Head(ops).by})
<1> DEFINE rest == Tail(ops)
           c == Head(ops).by
<1>1. PICK S : ops \in Seq(S)
  BY DEF Calls
<1>2. /\ Len(ops) \in Nat /\ Len(ops) >= 1 /\ Head(ops) = ops[1]
      /\ rest \in Seq(S) /\ Len(rest) = Len(ops) - 1
      /\ \A n \in 1 .. Len(rest) : rest[n] = ops[n + 1]
  BY <1>1
<1> HIDE DEF rest
<1>3. c \in waiters
  BY <1>2 DEF Calls
<1>4. \A n \in 1 .. Len(rest) : n + 1 \in 1 .. Len(ops) /\ n + 1 # 1
  BY <1>2
<1>5. \A n \in 1 .. Len(rest) : rest[n].by \in waiters \ {c}
  BY <1>2, <1>4 DEF Calls
<1>6. ASSUME NEW m \in 1 .. Len(rest), NEW n \in 1 .. Len(rest), rest[m].by = rest[n].by
      PROVE  m = n
  <2>1. ops[m + 1].by = ops[n + 1].by
    BY <1>2, <1>6
  <2>2. m + 1 = n + 1
    BY <1>4, <2>1 DEF Calls
  <2> QED BY <2>2
<1>7. ASSUME NEW d \in waiters \ {c}
      PROVE  \E n \in 1 .. Len(rest) : rest[n].by = d
  <2>1. PICK n \in 1 .. Len(ops) : ops[n].by = d
    BY DEF Calls
  <2>2. n # 1
    BY <1>2, <2>1
  <2>3. n - 1 \in 1 .. Len(rest) /\ rest[n - 1] = ops[n]
    BY <1>2, <2>2
  <2> QED BY <2>1, <2>3
<1> QED BY <1>2, <1>3, <1>5, <1>6, <1>7 DEF Calls, rest

\* Where someone waits there is a next call.
LEMMA CallIsNext ==
  ASSUME NEW ops, NEW waiters, Calls(ops, waiters), waiters # {}
  PROVE  ops # <<>> /\ Head(ops).by \in waiters
<1>1. PICK c \in waiters : \E n \in 1 .. Len(ops) : ops[n].by = c
  BY DEF Calls
<1>2. PICK S : ops \in Seq(S)
  BY DEF Calls
<1>3. ops # <<>>
  BY <1>1, <1>2
<1> QED BY <1>3, CallTaken

LEMMA NoCalls == Calls(<<>>, {})
<1>1. <<>> \in Seq({}) /\ Len(<<>>) = 0
  OBVIOUS
<1> QED BY <1>1 DEF Calls

-----------------------------------------------------------------------------
(* Who waits for what.                                                     *)

\* Where the page's callbacks are: what its steps look at.
States ==
  /\ pc \in [Workers -> {"off", "announcing", "announced", "round", "hashing",
                         "storing", "saving", "backoff", "refreshing"}]
  /\ gen \in [Workers -> Starts]
  /\ starter \in [Starts -> {"off", "announcing", "announced", "pool"}]
  /\ announcing \in {"no", "asking", "saving"}
  /\ loader \in {"off", "reading", "saving"}
  /\ clearer \in {"off", "pieces", "session"}
  /\ saver \in {"off", "reading", "deleting", "saving"}

\* Whoever awaits the announce has one in flight.
AnnounceIsOn ==
  \/ announcing # "no"
  \/ /\ \A w \in Workers : pc[w] # "announcing"
     /\ \A g \in Starts : starter[g] # "announcing"

\* Who waits for a transaction on the pieces, and on the sessions.
PieceWaiters ==
  {w \in Workers : pc[w] = "storing"}
    \cup {c \in {"clear"} : clearer = "pieces"}
    \cup {c \in {"save"} : saver = "deleting"}
SessionWaiters ==
  {w \in Workers : pc[w] \in {"saving", "refreshing"}}
    \cup {c \in {"announce"} : announcing = "saving"}
    \cup {c \in {"load"} : loader # "off"}
    \cup {c \in {"clear"} : clearer = "session"}
    \cup {c \in {"save"} : saver = "saving"}

PieceCalls == Calls(pieceOps, PieceWaiters)
SessionCalls == Calls(sessionOps, SessionWaiters)

ProgressInv == States /\ AnnounceIsOn /\ PieceCalls /\ SessionCalls

\* Nobody comes to wait for an announce, and none ends.
LEMMA StaysOn ==
  ASSUME AnnounceIsOn, announcing # "no" => announcing' # "no",
         \A w \in Workers : pc'[w] = "announcing" => pc[w] = "announcing",
         \A g \in Starts : starter'[g] = "announcing" => starter[g] = "announcing"
  PROVE  AnnounceIsOn'
BY DEF AnnounceIsOn

\* ensurePeers makes the announce that its caller then awaits.
LEMMA EnsureIsOn ==
  ASSUME AnnounceIsOn, Ensure,
         \A w \in Workers : pc'[w] = "announcing" => pc[w] = "announcing" \/ Waits,
         \A g \in Starts : starter'[g] = "announcing" => starter[g] = "announcing" \/ Waits
  PROVE  AnnounceIsOn' /\ (announcing' = "saving" <=> announcing = "saving")
                       /\ (States => announcing' \in {"no", "asking", "saving"})
BY DEF AnnounceIsOn, Ensure, States

\* The end of a turn: the worker that had it goes on or is off, and others only
\* come to life.
LEMMA BoundaryMoves ==
  ASSUME States, AnnounceIsOn, UNCHANGED starter, NEW w \in Workers, NEW i, NEW s,
         Boundary(w, i, s)
  PROVE  /\ pc' \in [Workers -> {"off", "announcing", "announced", "round", "hashing",
                                 "storing", "saving", "backoff", "refreshing"}]
         /\ gen' \in [Workers -> Starts]
         /\ pc'[w] \in {"off", "announcing", "announced"}
         /\ \A v \in Workers \ {w} :
              \/ pc'[v] = pc[v]
              \/ pc[v] = "off" /\ pc'[v] \in {"announcing", "announced"}
         /\ announcing' \in {"no", "asking", "saving"}
         /\ announcing' = "saving" <=> announcing = "saving"
         /\ AnnounceIsOn'
<1>1. PICK t \in Rescaled : \E new \in IF t > target THEN Spawns(t) ELSE {{}} :
         LET stays == Stays(active + Cardinality(new), t) IN
         /\ pc' = [v \in Workers |->
              IF v \in new \/ (v = w /\ stays) THEN AfterEnsure
              ELSE IF v = w THEN "off" ELSE pc[v]]
         /\ gen' = [v \in Workers |-> IF v \in new THEN gen[w] ELSE gen[v]]
         /\ IF stays \/ new # {} THEN Ensure ELSE UNCHANGED peerVars
  BY DEF Boundary
<1>2. PICK new \in IF t > target THEN Spawns(t) ELSE {{}} :
         LET stays == Stays(active + Cardinality(new), t) IN
         /\ pc' = [v \in Workers |->
              IF v \in new \/ (v = w /\ stays) THEN AfterEnsure
              ELSE IF v = w THEN "off" ELSE pc[v]]
         /\ gen' = [v \in Workers |-> IF v \in new THEN gen[w] ELSE gen[v]]
         /\ IF stays \/ new # {} THEN Ensure ELSE UNCHANGED peerVars
  BY <1>1
<1> DEFINE stays == Stays(active + Cardinality(new), t)
<1> HIDE DEF stays
<1>3. /\ pc' = [v \in Workers |->
           IF v \in new \/ (v = w /\ stays) THEN AfterEnsure
           ELSE IF v = w THEN "off" ELSE pc[v]]
      /\ gen' = [v \in Workers |-> IF v \in new THEN gen[w] ELSE gen[v]]
      /\ IF stays \/ new # {} THEN Ensure ELSE UNCHANGED peerVars
  BY <1>2 DEF stays
<1>4. \A v \in new : v \in Workers /\ pc[v] = "off"
  BY DEF Spawns
<1>5. AfterEnsure \in {"announcing", "announced"} /\ (AfterEnsure = "announcing" => Waits)
  BY DEF AfterEnsure
<1>6. /\ pc' \in [Workers -> {"off", "announcing", "announced", "round", "hashing",
                              "storing", "saving", "backoff", "refreshing"}]
      /\ gen' \in [Workers -> Starts]
  BY <1>3, <1>5 DEF States
<1>7. /\ w \notin new => pc'[w] \in {"off", "announcing", "announced"}
      /\ w \in new => pc'[w] \in {"announcing", "announced"}
      /\ \A v \in Workers \ {w} :
           \/ pc'[v] = pc[v]
           \/ pc[v] = "off" /\ pc'[v] \in {"announcing", "announced"}
  BY <1>3, <1>4, <1>5
<1>8. /\ announcing' \in {"no", "asking", "saving"}
      /\ announcing' = "saving" <=> announcing = "saving"
      /\ AnnounceIsOn'
  <2>1. CASE stays \/ new # {}
    <3>1. \A v \in Workers : pc'[v] = "announcing" => pc[v] = "announcing" \/ Waits
      BY <1>3, <1>5
    <3> QED BY <1>3, <2>1, <3>1, EnsureIsOn
  <2>2. CASE ~(stays \/ new # {})
    <3>1. \A v \in Workers : pc'[v] = "announcing" => pc[v] = "announcing"
      BY <1>3, <2>2
    <3> QED BY <1>3, <2>2, <3>1, StaysOn DEF peerVars, States
  <2> QED BY <2>1, <2>2
<1> QED BY <1>6, <1>7, <1>8

\* Only worker w moves, or others come to life.
OnlyMoves(w) ==
  /\ \A v \in Workers \ {w} :
       \/ pc'[v] = pc[v]
       \/ pc[v] = "off" /\ pc'[v] \in {"announcing", "announced"}
  /\ UNCHANGED userVars /\ (announcing' = "saving" <=> announcing = "saving")

\* It is then the only one whose waiting may change.
LEMMA MoverWaits ==
  ASSUME NEW w \in Workers, OnlyMoves(w)
  PROVE  /\ PieceWaiters' = IF pc'[w] = "storing" THEN PieceWaiters \cup {w}
                            ELSE PieceWaiters \ {w}
         /\ SessionWaiters' = IF pc'[w] \in {"saving", "refreshing"} THEN SessionWaiters \cup {w}
                              ELSE SessionWaiters \ {w}
         /\ w \in PieceWaiters <=> pc[w] = "storing"
         /\ w \in SessionWaiters <=> pc[w] \in {"saving", "refreshing"}
<1>1. w \notin {"announce", "load", "clear", "save"}
  BY PoolAssumption
<1>2. \A v \in Workers \ {w} :
        /\ pc'[v] = "storing" <=> pc[v] = "storing"
        /\ pc'[v] \in {"saving", "refreshing"} <=> pc[v] \in {"saving", "refreshing"}
  BY DEF OnlyMoves
<1>3. UNCHANGED <<loader, clearer, saver>> /\ (announcing' = "saving" <=> announcing = "saving")
  BY DEF OnlyMoves, userVars
<1>4. w \in PieceWaiters <=> pc[w] = "storing"
  BY <1>1 DEF PieceWaiters
<1>5. w \in SessionWaiters <=> pc[w] \in {"saving", "refreshing"}
  BY <1>1 DEF SessionWaiters
<1>6. PieceWaiters' = IF pc'[w] = "storing" THEN PieceWaiters \cup {w} ELSE PieceWaiters \ {w}
  BY <1>1, <1>2, <1>3 DEF PieceWaiters
<1>7. SessionWaiters' = IF pc'[w] \in {"saving", "refreshing"} THEN SessionWaiters \cup {w}
                        ELSE SessionWaiters \ {w}
  BY <1>1, <1>2, <1>3 DEF SessionWaiters
<1> QED BY <1>4, <1>5, <1>6, <1>7

\* A worker that waits for no transaction moves on without making one.
LEMMA MoverIsFree ==
  ASSUME ProgressInv, NEW w \in Workers, OnlyMoves(w),
         pc[w] \notin {"storing", "saving", "refreshing"},
         pc'[w] \notin {"storing", "saving", "refreshing"},
         UNCHANGED <<pieceOps, sessionOps>>
  PROVE  PieceCalls' /\ SessionCalls'
<1>1. PieceWaiters' = PieceWaiters /\ SessionWaiters' = SessionWaiters
  BY MoverWaits
<1> QED BY <1>1 DEF ProgressInv, PieceCalls, SessionCalls

\* Rounds: the steps of a worker that make no call.
LEMMA RoundsProgress ==
  ASSUME ProgressInv, NEW w \in Workers,
         \/ Request(w) \/ RoundFails(w)
         \/ \E i \in Pieces, bytes \in {"good", "bad"} : FrameArrives(w, i, bytes)
  PROVE  ProgressInv'
<1>1. /\ UNCHANGED <<pieceOps, sessionOps, gen, starter, announcing, userVars>>
      /\ pc[w] \in {"announced", "round"}
      /\ \E there \in {"off", "round", "backoff", "hashing"} : Goes(w, there)
  BY DEF Request, Exit, RoundFails, RoundError, FrameArrives, storeVars, peerVars
<1>2. /\ pc' \in [Workers -> {"off", "announcing", "announced", "round", "hashing",
                              "storing", "saving", "backoff", "refreshing"}]
      /\ pc'[w] \in {"off", "round", "backoff", "hashing"}
      /\ \A v \in Workers \ {w} : pc'[v] = pc[v]
  BY <1>1 DEF Goes, ProgressInv, States
<1>3. States'
  BY <1>1, <1>2 DEF ProgressInv, States, userVars
<1>4. AnnounceIsOn'
  BY <1>1, <1>2, StaysOn DEF ProgressInv
<1>5. OnlyMoves(w)
  BY <1>1, <1>2 DEF OnlyMoves
<1> QED BY <1>1, <1>2, <1>3, <1>4, <1>5, MoverIsFree DEF ProgressInv

\* The frame of a worker is dropped, written, or was written or refused.
LEMMA WritesProgress ==
  ASSUME ProgressInv, NEW w \in Workers, HashDone(w) \/ PieceStored(w) \/ PieceRefused(w)
  PROVE  ProgressInv'
<1>1. /\ UNCHANGED <<sessionOps, gen, starter, announcing, userVars>>
      /\ pc[w] \in {"hashing", "storing"}
      /\ \E there \in {"round", "storing", "backoff"} : Goes(w, there)
  BY DEF HashDone, PieceStored, PieceRefused, RoundError, peerVars
<1>2. /\ pc' \in [Workers -> {"off", "announcing", "announced", "round", "hashing",
                              "storing", "saving", "backoff", "refreshing"}]
      /\ pc'[w] \in {"round", "storing", "backoff"}
      /\ \A v \in Workers \ {w} : pc'[v] = pc[v]
  BY <1>1 DEF Goes, ProgressInv, States
<1>3. States'
  BY <1>1, <1>2 DEF ProgressInv, States, userVars
<1>4. AnnounceIsOn'
  BY <1>1, <1>2, StaysOn DEF ProgressInv
<1>5. OnlyMoves(w)
  BY <1>1, <1>2 DEF OnlyMoves
<1>6. SessionCalls'
  <2>1. SessionWaiters' = SessionWaiters
    BY <1>1, <1>2, <1>5, MoverWaits
  <2> QED BY <1>1, <2>1 DEF ProgressInv, SessionCalls
<1>7. PieceCalls'
  <2>1. CASE HashDone(w) /\ ~(Verified(w) /\ frame[w].index \notin session.bits)
    <3>1. UNCHANGED pieceOps /\ pc[w] = "hashing" /\ pc'[w] = "round"
      BY <2>1 DEF HashDone, Goes, ProgressInv, States
    <3> QED BY <1>1, <1>5, <3>1, MoverIsFree
  <2>2. CASE HashDone(w) /\ Verified(w) /\ frame[w].index \notin session.bits
    <3>1. PICK o : o.by = w /\ pieceOps' = Append(pieceOps, o)
      BY <2>2 DEF HashDone, PutPiece
    <3>2. pc[w] = "hashing" /\ pc'[w] = "storing"
      BY <2>2 DEF HashDone, Goes, ProgressInv, States
    <3>3. w \notin PieceWaiters /\ PieceWaiters' = PieceWaiters \cup {w}
      BY <1>5, <3>2, MoverWaits
    <3> QED BY <3>1, <3>3, CallMade DEF ProgressInv, PieceCalls
  <2>3. CASE PieceStored(w) \/ PieceRefused(w)
    <3>1. /\ pieceOps # <<>> /\ Head(pieceOps).by = w /\ pieceOps' = Tail(pieceOps)
          /\ pc'[w] # "storing"
      BY <2>3 DEF PieceStored, PieceRefused, RunPieceOp, RefusePieceOp, RoundError, Goes,
                  ProgressInv, States
    <3>2. PieceWaiters' = PieceWaiters \ {w}
      BY <1>5, <3>1, MoverWaits
    <3> QED BY <3>1, <3>2, CallTaken DEF ProgressInv, PieceCalls
  <2> QED BY <2>1, <2>2, <2>3
<1> QED BY <1>3, <1>4, <1>6, <1>7 DEF ProgressInv

\* A worker asks for the session to be saved, at the end of its round or when
\* it throws the peers away.
LEMMA SavesProgress ==
  ASSUME ProgressInv, NEW w \in Workers,
         RoundEnds(w) \/ (BackoffEnds(w) /\ idle[w] = 3 /\ ~wipeout)
  PROVE  ProgressInv'
<1>1. /\ UNCHANGED <<pieceOps, gen, starter, announcing, userVars>>
      /\ pc[w] \in {"round", "backoff"}
      /\ \E there \in {"saving", "refreshing"} : Goes(w, there)
      /\ \E o : o.by = w /\ sessionOps' = Append(sessionOps, o)
  BY DEF RoundEnds, BackoffEnds, PutSession, Put, peerVars
<1>2. /\ pc' \in [Workers -> {"off", "announcing", "announced", "round", "hashing",
                              "storing", "saving", "backoff", "refreshing"}]
      /\ pc'[w] \in {"saving", "refreshing"}
      /\ \A v \in Workers \ {w} : pc'[v] = pc[v]
  BY <1>1 DEF Goes, ProgressInv, States
<1>3. States'
  BY <1>1, <1>2 DEF ProgressInv, States, userVars
<1>4. AnnounceIsOn'
  BY <1>1, <1>2, StaysOn DEF ProgressInv
<1>5. OnlyMoves(w)
  BY <1>1, <1>2 DEF OnlyMoves
<1>6. /\ w \notin SessionWaiters /\ SessionWaiters' = SessionWaiters \cup {w}
      /\ PieceWaiters' = PieceWaiters
  BY <1>1, <1>2, <1>5, MoverWaits
<1>7. SessionCalls'
  BY <1>1, <1>6, CallMade DEF ProgressInv, SessionCalls
<1> QED BY <1>1, <1>3, <1>4, <1>6, <1>7 DEF ProgressInv, PieceCalls

\* The session is saved, or the sleep is over: the worker's turn ends, or it
\* goes to sleep.
LEMMA TurnsProgress ==
  ASSUME ProgressInv, NEW w \in Workers,
         Saved(w) \/ Refreshed(w) \/ (BackoffEnds(w) /\ ~(idle[w] = 3 /\ ~wipeout))
  PROVE  ProgressInv'
<1>1. UNCHANGED <<pieceOps, starter, userVars>> /\ pc[w] \in {"saving", "refreshing", "backoff"}
  BY DEF Saved, Refreshed, BackoffEnds
<1>2. \/ \E i, s : Boundary(w, i, s)
      \/ Goes(w, "backoff") /\ UNCHANGED <<gen, announcing>>
  BY DEF Saved, Refreshed, BackoffEnds, peerVars
<1>3. /\ pc' \in [Workers -> {"off", "announcing", "announced", "round", "hashing",
                              "storing", "saving", "backoff", "refreshing"}]
      /\ gen' \in [Workers -> Starts]
      /\ pc'[w] \in {"off", "announcing", "announced", "backoff"}
      /\ announcing' \in {"no", "asking", "saving"}
      /\ AnnounceIsOn'
      /\ OnlyMoves(w)
  <2>1. CASE \E i, s : Boundary(w, i, s)
    <3>1. PICK i, s : Boundary(w, i, s)
      BY <2>1
    <3> QED BY <1>1, <3>1, BoundaryMoves DEF ProgressInv, OnlyMoves
  <2>2. CASE Goes(w, "backoff") /\ UNCHANGED <<gen, announcing>>
    <3>1. /\ pc' \in [Workers -> {"off", "announcing", "announced", "round", "hashing",
                                  "storing", "saving", "backoff", "refreshing"}]
          /\ pc'[w] = "backoff" /\ \A v \in Workers \ {w} : pc'[v] = pc[v]
      BY <2>2 DEF Goes, ProgressInv, States
    <3>2. AnnounceIsOn'
      BY <1>1, <2>2, <3>1, StaysOn DEF ProgressInv
    <3> QED BY <1>1, <2>2, <3>1, <3>2 DEF OnlyMoves, ProgressInv, States
  <2> QED BY <1>2, <2>1, <2>2
<1>4. States'
  BY <1>1, <1>3 DEF ProgressInv, States, userVars
<1>5. CASE BackoffEnds(w) /\ ~(idle[w] = 3 /\ ~wipeout)
  <2>1. UNCHANGED sessionOps /\ pc[w] = "backoff"
    BY <1>5 DEF BackoffEnds
  <2> QED BY <1>1, <1>3, <1>4, <2>1, MoverIsFree DEF ProgressInv
<1>6. CASE Saved(w) \/ Refreshed(w)
  <2>1. /\ sessionOps # <<>> /\ Head(sessionOps).by = w
        /\ sessionOps' = Tail(sessionOps) \o <<>>
        /\ pc[w] \in {"saving", "refreshing"}
    BY <1>6 DEF Saved, Refreshed, RunSessionOp
  <2>2. sessionOps' = Tail(sessionOps)
    <3>1. PICK S : sessionOps \in Seq(S)
      BY DEF ProgressInv, SessionCalls, Calls
    <3>2. Tail(sessionOps) \in Seq(S)
      BY <2>1, <3>1
    <3> QED BY <2>1, <3>2
  <2>3. PieceWaiters' = PieceWaiters /\ SessionWaiters' = SessionWaiters \ {w}
    <3>1. w \notin PieceWaiters
      BY <1>3, <2>1, MoverWaits
    <3>2. PieceWaiters' = PieceWaiters \ {w} /\ SessionWaiters' = SessionWaiters \ {w}
      BY <1>3, MoverWaits
    <3> QED BY <3>1, <3>2
  <2>4. SessionCalls'
    BY <2>1, <2>2, <2>3, CallTaken DEF ProgressInv, SessionCalls
  <2> QED BY <1>1, <1>3, <1>4, <2>3, <2>4 DEF ProgressInv, PieceCalls
<1> QED BY <1>5, <1>6

\* The save is refused: the worker is off.
LEMMA RefusalProgresses ==
  ASSUME ProgressInv, NEW w \in Workers, SaveRefused(w)
  PROVE  ProgressInv'
<1>1. /\ UNCHANGED <<pieceOps, gen, announcing, userVars>>
      /\ pc[w] \in {"saving", "refreshing"} /\ Goes(w, "off")
      /\ starter' = [starter EXCEPT ![gen[w]] = "off"]
      /\ sessionOps # <<>> /\ Head(sessionOps).by = w /\ sessionOps' = Tail(sessionOps)
  BY DEF SaveRefused, Exit, RefuseSessionOp, peerVars
<1>2. /\ pc' \in [Workers -> {"off", "announcing", "announced", "round", "hashing",
                              "storing", "saving", "backoff", "refreshing"}]
      /\ pc'[w] = "off" /\ \A v \in Workers \ {w} : pc'[v] = pc[v]
  BY <1>1 DEF Goes, ProgressInv, States
<1>3. /\ starter' \in [Starts -> {"off", "announcing", "announced", "pool"}]
      /\ \A g \in Starts : starter'[g] \in {"off", starter[g]}
  BY <1>1 DEF ProgressInv, States
<1>4. States'
  BY <1>1, <1>2, <1>3 DEF ProgressInv, States, userVars
<1>5. AnnounceIsOn'
  BY <1>1, <1>2, <1>3, StaysOn DEF ProgressInv
<1>6. OnlyMoves(w)
  BY <1>1, <1>2 DEF OnlyMoves
<1>7. PieceWaiters' = PieceWaiters /\ SessionWaiters' = SessionWaiters \ {w}
  <2>1. w \notin PieceWaiters
    BY <1>1, <1>6, MoverWaits
  <2>2. PieceWaiters' = PieceWaiters \ {w} /\ SessionWaiters' = SessionWaiters \ {w}
    BY <1>2, <1>6, MoverWaits
  <2> QED BY <2>1, <2>2
<1>8. SessionCalls'
  BY <1>1, <1>7, CallTaken DEF ProgressInv, SessionCalls
<1> QED BY <1>1, <1>4, <1>5, <1>7, <1>8 DEF ProgressInv, PieceCalls

LEMMA WorkersProgress ==
  ASSUME ProgressInv, NEW w \in Workers, Worker(w) \/ Round(w)
  PROVE  ProgressInv'
<1>1. CASE BackoffEnds(w)
  BY <1>1, SavesProgress, TurnsProgress
<1> QED BY <1>1, RoundsProgress, WritesProgress, SavesProgress, TurnsProgress, RefusalProgresses
        DEF Worker, Round

-----------------------------------------------------------------------------
(* The announce, and the runs of start().                                  *)

\* No worker comes to wait for a transaction, or ceases to.
WorkersWaitOn ==
  \A v \in Workers :
    /\ pc'[v] = "storing" <=> pc[v] = "storing"
    /\ pc'[v] \in {"saving", "refreshing"} <=> pc[v] \in {"saving", "refreshing"}

LEMMA AnnounceWaits ==
  ASSUME WorkersWaitOn, UNCHANGED userVars
  PROVE  /\ PieceWaiters' = PieceWaiters
         /\ SessionWaiters' = IF announcing' = "saving" THEN SessionWaiters \cup {"announce"}
                              ELSE SessionWaiters \ {"announce"}
         /\ "announce" \in SessionWaiters <=> announcing = "saving"
<1>1. "announce" \notin Workers
  BY PoolAssumption
<1>2. UNCHANGED <<loader, clearer, saver>>
  BY DEF userVars
<1>3. PieceWaiters' = PieceWaiters
  BY <1>2 DEF PieceWaiters, WorkersWaitOn
<1>4. SessionWaiters' = IF announcing' = "saving" THEN SessionWaiters \cup {"announce"}
                        ELSE SessionWaiters \ {"announce"}
  BY <1>1, <1>2 DEF SessionWaiters, WorkersWaitOn
<1>5. "announce" \in SessionWaiters <=> announcing = "saving"
  BY <1>1 DEF SessionWaiters
<1> QED BY <1>3, <1>4, <1>5

\* The announce neither begins nor ends to be saved, and no call is made.
LEMMA NobodyWaits ==
  ASSUME ProgressInv, WorkersWaitOn, UNCHANGED <<userVars, pieceOps, sessionOps>>,
         announcing' = "saving" <=> announcing = "saving"
  PROVE  PieceCalls' /\ SessionCalls'
<1>1. UNCHANGED <<PieceWaiters, SessionWaiters>>
  BY AnnounceWaits
<1> QED BY <1>1 DEF ProgressInv, PieceCalls, SessionCalls

\* The announce is over, saved or failed: nobody awaits it any more.
LEMMA OverProgresses ==
  ASSUME ProgressInv, AnnounceFails \/ AnnounceSaved \/ AnnounceRefused
  PROVE  ProgressInv'
<1>1. announcing' = "no" /\ UNCHANGED <<gen, userVars, pieceOps>>
  BY DEF AnnounceFails, AnnounceSaved, AnnounceRefused, AnnounceOver, storeVars
<1>2. \/ pc' = [w \in Workers |-> IF pc[w] = "announcing" THEN "announced" ELSE pc[w]]
      \/ pc' = [w \in Workers |-> IF pc[w] = "announcing" THEN "off" ELSE pc[w]]
  BY DEF AnnounceFails, AnnounceSaved, AnnounceRefused, AnnounceOver
<1>3. /\ starter' \in [Starts -> {"off", "announcing", "announced", "pool"}]
      /\ \A g \in Starts : starter'[g] # "announcing"
  BY DEF AnnounceFails, AnnounceSaved, AnnounceRefused, AnnounceOver, ProgressInv, States
<1>4. /\ pc' \in [Workers -> {"off", "announcing", "announced", "round", "hashing",
                              "storing", "saving", "backoff", "refreshing"}]
      /\ \A w \in Workers : pc'[w] # "announcing"
      /\ WorkersWaitOn
  BY <1>2 DEF ProgressInv, States, WorkersWaitOn
<1>5. States' /\ AnnounceIsOn'
  BY <1>1, <1>3, <1>4 DEF ProgressInv, States, AnnounceIsOn, userVars
<1>6. PieceWaiters' = PieceWaiters /\ SessionWaiters' = SessionWaiters \ {"announce"}
  BY <1>1, <1>4, AnnounceWaits
<1>7. SessionCalls'
  <2>1. CASE AnnounceFails
    <3>1. UNCHANGED sessionOps /\ "announce" \notin SessionWaiters
      BY <1>1, <1>4, <2>1, AnnounceWaits DEF AnnounceFails, storeVars
    <3>2. SessionWaiters' = SessionWaiters
      BY <1>6, <3>1
    <3> QED BY <3>1, <3>2 DEF ProgressInv, SessionCalls
  <2>2. CASE AnnounceSaved \/ AnnounceRefused
    <3>1. /\ sessionOps # <<>> /\ Head(sessionOps).by = "announce"
          /\ sessionOps' \in {Tail(sessionOps), Tail(sessionOps) \o <<>>}
      BY <2>2 DEF AnnounceSaved, AnnounceRefused, RunSessionOp, RefuseSessionOp
    <3>2. sessionOps' = Tail(sessionOps)
      <4>1. PICK S : sessionOps \in Seq(S)
        BY DEF ProgressInv, SessionCalls, Calls
      <4>2. Tail(sessionOps) \in Seq(S)
        BY <3>1, <4>1
      <4> QED BY <3>1, <4>2
    <3> QED BY <1>6, <3>1, <3>2, CallTaken DEF ProgressInv, SessionCalls
  <2> QED BY <2>1, <2>2
<1> QED BY <1>1, <1>5, <1>6, <1>7 DEF ProgressInv, PieceCalls

\* The peers have arrived, and are saved.
LEMMA ReplyProgresses ==
  ASSUME ProgressInv, AnnounceReply
  PROVE  ProgressInv'
<1>1. /\ announcing = "asking" /\ announcing' = "saving"
      /\ UNCHANGED <<pc, gen, starter, userVars, pieceOps>>
      /\ \E o : o.by = "announce" /\ sessionOps' = Append(sessionOps, o)
  BY DEF AnnounceReply, PutSession, Put, workerVars
<1>2. WorkersWaitOn
  BY <1>1 DEF WorkersWaitOn
<1>3. States' /\ AnnounceIsOn'
  BY <1>1 DEF ProgressInv, States, AnnounceIsOn, userVars
<1>4. /\ PieceWaiters' = PieceWaiters /\ SessionWaiters' = SessionWaiters \cup {"announce"}
      /\ "announce" \notin SessionWaiters
  BY <1>1, <1>2, AnnounceWaits
<1>5. SessionCalls'
  BY <1>1, <1>4, CallMade DEF ProgressInv, SessionCalls
<1> QED BY <1>1, <1>3, <1>4, <1>5 DEF ProgressInv, PieceCalls

\* start() begins; it makes an announce, or joins one, if it has to wait.
LEMMA StartProgresses ==
  ASSUME ProgressInv, NEW g \in Starts, Start(g)
  PROVE  ProgressInv'
<1>1. /\ starter' = [starter EXCEPT ![g] = AfterEnsure] /\ Ensure
      /\ UNCHANGED <<pc, gen, userVars, pieceOps, sessionOps>>
  BY DEF Start, storeVars, workerVars
<1>2. AfterEnsure \in {"announcing", "announced"} /\ (AfterEnsure = "announcing" => Waits)
  BY DEF AfterEnsure
<1>3. /\ starter' \in [Starts -> {"off", "announcing", "announced", "pool"}]
      /\ \A h \in Starts : starter'[h] = "announcing" => starter[h] = "announcing" \/ Waits
  BY <1>1, <1>2 DEF ProgressInv, States
<1>4. /\ AnnounceIsOn' /\ (announcing' = "saving" <=> announcing = "saving")
      /\ announcing' \in {"no", "asking", "saving"}
  BY <1>1, <1>3, EnsureIsOn DEF ProgressInv
<1>5. WorkersWaitOn
  BY <1>1 DEF WorkersWaitOn
<1>6. States'
  BY <1>1, <1>3, <1>4 DEF ProgressInv, States, userVars
<1> QED BY <1>1, <1>4, <1>5, <1>6, NobodyWaits DEF ProgressInv

\* The workers of the pool run up to the announce, or the loop is paused.
LEMMA LaunchProgresses ==
  ASSUME ProgressInv, NEW g \in Starts, Launch(g)
  PROVE  ProgressInv'
<1>1. UNCHANGED <<userVars, pieceOps, sessionOps>> /\ \E there \in {"off", "pool"} :
        starter' = [starter EXCEPT ![g] = there]
  BY DEF Launch, storeVars
<1>2. /\ starter' \in [Starts -> {"off", "announcing", "announced", "pool"}]
      /\ \A h \in Starts : starter'[h] = "announcing" => starter[h] = "announcing"
  BY <1>1 DEF ProgressInv, States
<1>3. CASE UNCHANGED <<pc, gen, announcing>>
  <2>1. WorkersWaitOn
    BY <1>3 DEF WorkersWaitOn
  <2>2. States' /\ AnnounceIsOn'
    BY <1>1, <1>2, <1>3, StaysOn DEF ProgressInv, States, userVars
  <2> QED BY <1>1, <1>3, <2>1, <2>2, NobodyWaits DEF ProgressInv
<1>4. CASE \E new \in Spawns(target) :
             /\ pc' = [w \in Workers |-> IF w \in new THEN AfterEnsure ELSE pc[w]]
             /\ gen' = [w \in Workers |-> IF w \in new THEN g ELSE gen[w]]
             /\ IF new # {} THEN Ensure ELSE UNCHANGED peerVars
  <2>1. PICK new \in Spawns(target) :
             /\ pc' = [w \in Workers |-> IF w \in new THEN AfterEnsure ELSE pc[w]]
             /\ gen' = [w \in Workers |-> IF w \in new THEN g ELSE gen[w]]
             /\ IF new # {} THEN Ensure ELSE UNCHANGED peerVars
    BY <1>4
  <2>2. \A v \in new : v \in Workers /\ pc[v] = "off"
    BY DEF Spawns
  <2>3. AfterEnsure \in {"announcing", "announced"} /\ (AfterEnsure = "announcing" => Waits)
    BY DEF AfterEnsure
  <2>4. /\ pc' \in [Workers -> {"off", "announcing", "announced", "round", "hashing",
                                "storing", "saving", "backoff", "refreshing"}]
        /\ gen' \in [Workers -> Starts]
        /\ WorkersWaitOn
        /\ \A v \in Workers : pc'[v] = "announcing" => pc[v] = "announcing" \/ v \in new
    <3>1. /\ pc' \in [Workers -> {"off", "announcing", "announced", "round", "hashing",
                                  "storing", "saving", "backoff", "refreshing"}]
          /\ gen' \in [Workers -> Starts]
      BY <2>1, <2>3 DEF ProgressInv, States
    <3>2. \A v \in Workers : IF v \in new THEN pc'[v] \in {"announcing", "announced"}
                             ELSE pc'[v] = pc[v]
      BY <2>1, <2>3
    <3>3. WorkersWaitOn
      BY <2>2, <3>2 DEF WorkersWaitOn
    <3> QED BY <3>1, <3>2, <3>3
  <2>5. /\ AnnounceIsOn' /\ (announcing' = "saving" <=> announcing = "saving")
        /\ announcing' \in {"no", "asking", "saving"}
    <3>1. CASE new # {}
      <4>1. \A v \in Workers : pc'[v] = "announcing" => pc[v] = "announcing" \/ Waits
        BY <2>1, <2>3, <2>4
      <4> QED BY <1>2, <2>1, <3>1, <4>1, EnsureIsOn DEF ProgressInv
    <3>2. CASE new = {}
      BY <1>2, <2>1, <2>4, <3>2, StaysOn DEF ProgressInv, States, peerVars
    <3> QED BY <3>1, <3>2
  <2>6. States'
    BY <1>1, <1>2, <2>4, <2>5 DEF ProgressInv, States, userVars
  <2> QED BY <1>1, <2>4, <2>5, <2>6, NobodyWaits DEF ProgressInv
<1> QED BY <1>3, <1>4 DEF Launch, peerVars

\* A run of start() ends, or nothing that anyone awaits changes.
LEMMA AsideProgresses ==
  ASSUME ProgressInv,
         CoolingEnds \/ Stop \/ (\E g \in Starts : PoolEnds(g)) \/ UNCHANGED vars
  PROVE  ProgressInv'
<1>1. /\ UNCHANGED <<pc, gen, announcing, userVars, pieceOps, sessionOps>>
      /\ \/ UNCHANGED starter
         \/ \E g \in Starts : starter' = [starter EXCEPT ![g] = "off"]
  BY DEF CoolingEnds, Stop, PoolEnds, vars, storeVars, workerVars, peerVars
<1>2. /\ starter' \in [Starts -> {"off", "announcing", "announced", "pool"}]
      /\ \A h \in Starts : starter'[h] = "announcing" => starter[h] = "announcing"
  BY <1>1 DEF ProgressInv, States
<1>3. WorkersWaitOn
  BY <1>1 DEF WorkersWaitOn
<1>4. States' /\ AnnounceIsOn'
  BY <1>1, <1>2, StaysOn DEF ProgressInv, States, userVars
<1> QED BY <1>1, <1>3, <1>4, NobodyWaits DEF ProgressInv

-----------------------------------------------------------------------------
(* What else the user does.                                                *)

\* loadMeta, clearStoredData and saveFileStreaming wait each for its own calls.
LEMMA UserWaits ==
  ASSUME UNCHANGED <<pc, announcing>>
  PROVE  /\ "clear" \in PieceWaiters <=> clearer = "pieces"
         /\ "save" \in PieceWaiters <=> saver = "deleting"
         /\ \A c : c \in PieceWaiters' <=>
              IF c = "clear" THEN clearer' = "pieces"
              ELSE IF c = "save" THEN saver' = "deleting" ELSE c \in PieceWaiters
         /\ "load" \in SessionWaiters <=> loader # "off"
         /\ "clear" \in SessionWaiters <=> clearer = "session"
         /\ "save" \in SessionWaiters <=> saver = "saving"
         /\ \A c : c \in SessionWaiters' <=>
              IF c = "load" THEN loader' # "off"
              ELSE IF c = "clear" THEN clearer' = "session"
              ELSE IF c = "save" THEN saver' = "saving" ELSE c \in SessionWaiters
<1>1. "load" \notin Workers /\ "clear" \notin Workers /\ "save" \notin Workers
  BY PoolAssumption
<1>2. ASSUME NEW c
      PROVE  /\ c \in PieceWaiters <=>
                  IF c = "clear" THEN clearer = "pieces"
                  ELSE IF c = "save" THEN saver = "deleting" ELSE c \in Workers /\ pc[c] = "storing"
             /\ c \in SessionWaiters <=>
                  IF c = "load" THEN loader # "off"
                  ELSE IF c = "clear" THEN clearer = "session"
                  ELSE IF c = "save" THEN saver = "saving"
                  ELSE \/ c \in Workers /\ pc[c] \in {"saving", "refreshing"}
                       \/ c = "announce" /\ announcing = "saving"
  BY <1>1 DEF PieceWaiters, SessionWaiters
<1>3. ASSUME NEW c
      PROVE  /\ c \in PieceWaiters' <=>
                  IF c = "clear" THEN clearer' = "pieces"
                  ELSE IF c = "save" THEN saver' = "deleting" ELSE c \in Workers /\ pc[c] = "storing"
             /\ c \in SessionWaiters' <=>
                  IF c = "load" THEN loader' # "off"
                  ELSE IF c = "clear" THEN clearer' = "session"
                  ELSE IF c = "save" THEN saver' = "saving"
                  ELSE \/ c \in Workers /\ pc[c] \in {"saving", "refreshing"}
                       \/ c = "announce" /\ announcing = "saving"
  BY <1>1 DEF PieceWaiters, SessionWaiters
<1> QED BY <1>2, <1>3

\* Nobody ends to wait, and the page's user does not touch the pool.
LEMMA UserKeepsStates ==
  ASSUME ProgressInv, UNCHANGED <<pc, gen, starter, announcing>>,
         loader' \in {"off", "reading", "saving"}, clearer' \in {"off", "pieces", "session"},
         saver' \in {"off", "reading", "deleting", "saving"}
  PROVE  States' /\ AnnounceIsOn'
BY DEF ProgressInv, States, AnnounceIsOn

LEMMA LoadProgresses ==
  ASSUME ProgressInv, (\E t \in Torrents : Load(t)) \/ LoadRead \/ LoadSaved \/ LoadRefused
  PROVE  ProgressInv'
<1>1. /\ UNCHANGED <<pc, gen, starter, announcing, clearer, saver, pieceOps>>
      /\ loader' \in {"off", "reading", "saving"}
  BY DEF Load, LoadRead, LoadSaved, LoadRefused, workerVars, peerVars
<1>2. States' /\ AnnounceIsOn'
  BY <1>1, UserKeepsStates DEF ProgressInv, States
<1>3. PieceCalls'
  <2>1. PieceWaiters' = PieceWaiters
    BY <1>1, UserWaits
  <2> QED BY <1>1, <2>1 DEF ProgressInv, PieceCalls
<1>4. CASE \E t \in Torrents : Load(t)
  <2>1. /\ loader = "off" /\ loader' = "reading"
        /\ \E o : o.by = "load" /\ sessionOps' = Append(sessionOps, o)
    BY <1>4 DEF Load, GetSession
  <2>2. "load" \notin SessionWaiters /\ SessionWaiters' = SessionWaiters \cup {"load"}
    BY <1>1, <2>1, UserWaits
  <2>3. SessionCalls'
    BY <2>1, <2>2, CallMade DEF ProgressInv, SessionCalls
  <2> QED BY <1>2, <1>3, <2>3 DEF ProgressInv
<1>5. CASE LoadRead
  <2>1. /\ loader = "reading" /\ loader' = "saving"
        /\ sessionOps # <<>> /\ Head(sessionOps).by = "load"
        /\ \E o : o.by = "load" /\ sessionOps' = Tail(sessionOps) \o <<o>>
    BY <1>5 DEF LoadRead, RunSessionOp, Put
  <2>2. PICK o : o.by = "load" /\ sessionOps' = Tail(sessionOps) \o <<o>>
    BY <2>1
  <2>3. sessionOps' = Append(Tail(sessionOps), o)
    <3>1. PICK S : sessionOps \in Seq(S)
      BY DEF ProgressInv, SessionCalls, Calls
    <3>2. Tail(sessionOps) \in Seq(S \cup {o}) /\ o \in S \cup {o}
      BY <2>1, <3>1
    <3> QED BY <2>2, <3>2
  <2>4. SessionWaiters' = (SessionWaiters \ {"load"}) \cup {"load"}
    BY <1>1, <2>1, UserWaits
  <2>5. Calls(Tail(sessionOps), SessionWaiters \ {"load"})
    BY <2>1, CallTaken DEF ProgressInv, SessionCalls
  <2>6. SessionCalls'
    <3> DEFINE rest == Tail(sessionOps)
               others == SessionWaiters \ {"load"}
    <3> HIDE DEF rest, others
    <3>1. Calls(rest, others) /\ o.by \notin others
      BY <2>2, <2>5 DEF rest, others
    <3>2. Calls(Append(rest, o), others \cup {o.by})
      BY <3>1, CallMade
    <3>3. sessionOps' = Append(rest, o) /\ SessionWaiters' = others \cup {o.by}
      BY <2>2, <2>3, <2>4 DEF rest, others
    <3> QED BY <3>2, <3>3 DEF SessionCalls
  <2> QED BY <1>2, <1>3, <2>6 DEF ProgressInv
<1>6. CASE LoadSaved \/ LoadRefused
  <2>1. /\ loader' = "off"
        /\ sessionOps # <<>> /\ Head(sessionOps).by = "load"
        /\ sessionOps' \in {Tail(sessionOps), Tail(sessionOps) \o <<>>}
    BY <1>6 DEF LoadSaved, LoadRefused, RunSessionOp, RefuseSessionOp
  <2>2. sessionOps' = Tail(sessionOps)
    <3>1. PICK S : sessionOps \in Seq(S)
      BY DEF ProgressInv, SessionCalls, Calls
    <3>2. Tail(sessionOps) \in Seq(S)
      BY <2>1, <3>1
    <3> QED BY <2>1, <3>2
  <2>3. SessionWaiters' = SessionWaiters \ {"load"}
    BY <1>1, <2>1, UserWaits
  <2>4. SessionCalls'
    BY <2>1, <2>2, <2>3, CallTaken DEF ProgressInv, SessionCalls
  <2> QED BY <1>2, <1>3, <2>4 DEF ProgressInv
<1> QED BY <1>4, <1>5, <1>6

\* Pieces to be freed, and freed.
LEMMA FreeingProgresses ==
  ASSUME ProgressInv,
         Clear \/ ClearedPieces \/ ClearedSession \/ Save \/ SaveRead \/ SaveDeleted \/ SaveSaved
  PROVE  ProgressInv'
<1>1. /\ UNCHANGED <<pc, gen, starter, announcing, loader>>
      /\ clearer' \in {"off", "pieces", "session"}
      /\ saver' \in {"off", "reading", "deleting", "saving"}
  BY DEF Clear, ClearedPieces, ClearedSession, Save, SaveRead, SaveDeleted, SaveSaved,
         workerVars, peerVars, ProgressInv, States
<1>2. States' /\ AnnounceIsOn'
  BY <1>1, UserKeepsStates DEF ProgressInv, States
<1>3. CASE Save \/ (SaveRead /\ saver' = "off" /\ UNCHANGED pieceOps)
  <2>1. /\ UNCHANGED <<pieceOps, sessionOps, clearer>> /\ saver \in {"off", "reading"}
        /\ saver' \in {"off", "reading"}
    BY <1>3 DEF Save, SaveRead, storeVars
  <2>2. PieceWaiters' = PieceWaiters /\ SessionWaiters' = SessionWaiters
    BY <1>1, <2>1, UserWaits
  <2> QED BY <1>2, <2>1, <2>2 DEF ProgressInv, PieceCalls, SessionCalls
<1>4. ASSUME NEW c \in {"clear", "save"},
             \/ c = "clear" /\ Clear
             \/ c = "save" /\ SaveRead /\ saver' = "deleting"
                           /\ DeleteAllPieces("save", meta)
      PROVE  ProgressInv'
  <2>1. /\ UNCHANGED sessionOps
        /\ \E o : o.by = c /\ pieceOps' = Append(pieceOps, o)
        /\ c = "clear" => clearer = "off" /\ clearer' = "pieces" /\ saver' = saver
        /\ c = "save" => saver = "reading" /\ saver' = "deleting" /\ clearer' = clearer
    BY <1>4 DEF Clear, SaveRead, DeleteAllPieces
  <2>2. /\ c \notin PieceWaiters /\ PieceWaiters' = PieceWaiters \cup {c}
        /\ SessionWaiters' = SessionWaiters
    BY <1>1, <2>1, UserWaits
  <2>3. PieceCalls'
    BY <2>1, <2>2, CallMade DEF ProgressInv, PieceCalls
  <2> QED BY <1>2, <2>1, <2>2, <2>3 DEF ProgressInv, SessionCalls
<1>5. ASSUME NEW c \in {"clear", "save"}, (c = "clear" /\ ClearedPieces) \/ (c = "save" /\ SaveDeleted)
      PROVE  ProgressInv'
  <2>1. /\ pieceOps # <<>> /\ Head(pieceOps).by = c /\ pieceOps' = Tail(pieceOps)
        /\ \E o : o.by = c /\ sessionOps' = Append(sessionOps, o)
        /\ c = "clear" => clearer = "pieces" /\ clearer' = "session" /\ saver' = saver
        /\ c = "save" => saver = "deleting" /\ saver' = "saving" /\ clearer' = clearer
    BY <1>5 DEF ClearedPieces, SaveDeleted, RunPieceOp, DeleteSession, PutSession, Put
  <2>2. /\ PieceWaiters' = PieceWaiters \ {c}
        /\ c \notin SessionWaiters /\ SessionWaiters' = SessionWaiters \cup {c}
    BY <1>1, <2>1, UserWaits
  <2>3. PieceCalls'
    BY <2>1, <2>2, CallTaken DEF ProgressInv, PieceCalls
  <2>4. SessionCalls'
    BY <2>1, <2>2, CallMade DEF ProgressInv, SessionCalls
  <2> QED BY <1>2, <2>3, <2>4 DEF ProgressInv
<1>6. ASSUME NEW c \in {"clear", "save"}, (c = "clear" /\ ClearedSession) \/ (c = "save" /\ SaveSaved)
      PROVE  ProgressInv'
  <2>1. /\ UNCHANGED pieceOps
        /\ sessionOps # <<>> /\ Head(sessionOps).by = c
        /\ sessionOps' = Tail(sessionOps) \o <<>>
        /\ c = "clear" => clearer = "session" /\ clearer' = "off" /\ saver' = saver
        /\ c = "save" => saver = "saving" /\ saver' = "off" /\ clearer' = clearer
    BY <1>6 DEF ClearedSession, SaveSaved, RunSessionOp
  <2>2. sessionOps' = Tail(sessionOps)
    <3>1. PICK S : sessionOps \in Seq(S)
      BY DEF ProgressInv, SessionCalls, Calls
    <3>2. Tail(sessionOps) \in Seq(S)
      BY <2>1, <3>1
    <3> QED BY <2>1, <3>2
  <2>3. PieceWaiters' = PieceWaiters /\ SessionWaiters' = SessionWaiters \ {c}
    BY <1>1, <2>1, UserWaits
  <2>4. SessionCalls'
    BY <2>1, <2>2, <2>3, CallTaken DEF ProgressInv, SessionCalls
  <2> QED BY <1>2, <2>1, <2>3, <2>4 DEF ProgressInv, PieceCalls
<1> QED BY <1>3, <1>4, <1>5, <1>6 DEF SaveRead

-----------------------------------------------------------------------------
(* The theorems.                                                           *)

\* A page just opened, with nothing queued, waits for nothing.
LEMMA FreshProgress ==
  ASSUME /\ pc = [w \in Workers |-> "off"]
         /\ gen = [w \in Workers |-> CHOOSE g \in Starts : TRUE]
         /\ starter = [g \in Starts |-> "off"]
         /\ announcing = "no" /\ loader = "off" /\ clearer = "off" /\ saver = "off"
         /\ pieceOps = <<>> /\ sessionOps = <<>>
  PROVE  ProgressInv
<1>1. States
  BY PoolAssumption DEF States
<1>2. AnnounceIsOn
  BY DEF AnnounceIsOn
<1>3. PieceWaiters = {} /\ SessionWaiters = {}
  BY DEF PieceWaiters, SessionWaiters
<1> QED BY <1>1, <1>2, <1>3, NoCalls DEF ProgressInv, PieceCalls, SessionCalls

LEMMA ReloadProgresses ==
  ASSUME ProgressInv, Reload
  PROVE  ProgressInv'
<1>1. /\ pc' = [w \in Workers |-> "off"]
      /\ gen' = [w \in Workers |-> CHOOSE g \in Starts : TRUE]
      /\ starter' = [g \in Starts |-> "off"]
      /\ announcing' = "no" /\ loader' = "off" /\ clearer' = "off" /\ saver' = "off"
      /\ pieceOps' = <<>> /\ sessionOps' = <<>>
  BY DEF Reload
<1>2. States'
  BY <1>1, PoolAssumption DEF States
<1>3. AnnounceIsOn'
  BY <1>1 DEF AnnounceIsOn
<1>4. PieceWaiters' = {} /\ SessionWaiters' = {}
  BY <1>1 DEF PieceWaiters, SessionWaiters
<1> QED BY <1>1, <1>2, <1>3, <1>4, NoCalls DEF ProgressInv, PieceCalls, SessionCalls

LEMMA ProgressInduction == Spec => []ProgressInv
<1>1. Init => ProgressInv
  BY FreshProgress DEF Init, Fresh, StoreInit
<1>2. ProgressInv /\ [Next]_vars => ProgressInv'
  <2> SUFFICES ASSUME ProgressInv, [Next]_vars PROVE ProgressInv'
    OBVIOUS
  <2>1. CASE \E w \in Workers : Worker(w) \/ Round(w)
    BY <2>1, WorkersProgress
  <2>2. CASE Announcing
    BY <2>2, OverProgresses, ReplyProgresses, AsideProgresses DEF Announcing
  <2>3. CASE Running
    BY <2>3, LaunchProgresses, AsideProgresses DEF Running
  <2>4. CASE UserOps
    BY <2>4, LoadProgresses, FreeingProgresses DEF UserOps
  <2>5. CASE User
    BY <2>5, StartProgresses, LoadProgresses, FreeingProgresses, AsideProgresses,
       ReloadProgresses DEF User
  <2>6. CASE UNCHANGED vars
    BY <2>6, AsideProgresses
  <2> QED BY <2>1, <2>2, <2>3, <2>4, <2>5, <2>6 DEF Next
<1> QED BY <1>1, <1>2, PTL DEF Spec

(* Nothing is under way: no worker, no run of start(), no announce, and    *)
(* nothing that the user asked for.                                        *)
AtRest ==
  /\ Alive = {} /\ \A g \in Starts : starter[g] = "off"
  /\ announcing = "no" /\ loader = "off" /\ clearer = "off" /\ saver = "off"

\* Something is about to happen that is not the user's doing: a callback is
\* ready, or the network will answer or fail, or a transaction will be done
\* whose caller waits for it.
Ready ==
  \/ \E w \in Workers : pc[w] \in {"announced", "round", "hashing", "backoff"}
  \/ \E g \in Starts : \/ starter[g] = "announced"
                       \/ starter[g] = "pool" /\ \A w \in Alive : gen[w] # g
  \/ announcing = "asking"
  \/ saver = "reading"
  \/ pieceOps # <<>> /\ Head(pieceOps).by \in PieceWaiters
  \/ sessionOps # <<>> /\ Head(sessionOps).by \in SessionWaiters

(* The page never hangs: workers, runs of start(), the announce, the load, *)
(* the purge and the export wait for one another and for the store's two   *)
(* queues, yet never all at once.  In every world: after a stop, a reload, *)
(* a full store, another torrent loaded in the middle of it all.           *)
NeverHangs == AtRest \/ Ready

THEOREM ThePageNeverHangs == Spec => []NeverHangs
<1>1. ProgressInv => NeverHangs
  <2> SUFFICES ASSUME ProgressInv, ~Ready PROVE AtRest
    BY DEF NeverHangs
  <2>1. PieceWaiters = {} /\ SessionWaiters = {}
    BY CallIsNext DEF ProgressInv, PieceCalls, SessionCalls, Ready
  <2>2. announcing = "no" /\ loader = "off" /\ clearer = "off" /\ saver = "off"
    BY <2>1 DEF ProgressInv, States, Ready, PieceWaiters, SessionWaiters
  <2>3. Alive = {}
    <3> SUFFICES ASSUME NEW w \in Workers PROVE pc[w] = "off"
      BY DEF Alive
    <3>1. pc[w] \notin {"storing", "saving", "refreshing"}
      BY <2>1 DEF PieceWaiters, SessionWaiters
    <3>2. pc[w] # "announcing"
      BY <2>2 DEF ProgressInv, AnnounceIsOn
    <3> QED BY <3>1, <3>2 DEF ProgressInv, States, Ready
  <2>4. ASSUME NEW g \in Starts PROVE starter[g] = "off"
    BY <2>2, <2>3 DEF ProgressInv, States, AnnounceIsOn, Ready
  <2> QED BY <2>2, <2>3, <2>4 DEF AtRest
<1> QED BY <1>1, ProgressInduction, PTL

-----------------------------------------------------------------------------
(* Start comes back.                                                       *)

\* A run of start() is under way.
Starting == \E g \in Starts : starter[g] # "off"

(* While the page counts as running there is a run of start() that will    *)
(* say when it is not, and a loaded torrent can be started unless such a   *)
(* run is under way, which enables Start when it ends: no exit of start(), *)
(* and no load, reload or stop in the middle of one, leaves the page with  *)
(* Start disabled and nothing to enable it (app.js:187, 331-385).  Not     *)
(* when a save is refused, which rejects start() before it gets there.     *)
StartIsHeld ==
  "quota" \notin events =>
    /\ running => Starting
    /\ meta # None /\ loader = "off" => startEnabled \/ Starting

LEMMA StartingStays ==
  ASSUME StartIsHeld, UNCHANGED <<events, running, startEnabled, meta, loader>>,
         \A g \in Starts : starter[g] # "off" => starter'[g] # "off"
  PROVE  StartIsHeld'
BY DEF StartIsHeld, Starting

\* The page's workers, its announce and what the user does beside the pool.
LEMMA OthersHoldStart ==
  ASSUME ProgressInv, StartIsHeld,
         \/ \E w \in Workers : (Worker(w) \/ Round(w)) /\ ~SaveRefused(w)
         \/ Announcing /\ ~AnnounceRefused
         \/ ClearedPieces \/ ClearedSession \/ SaveRead \/ SaveDeleted \/ SaveSaved
         \/ Clear \/ Save \/ UNCHANGED vars
  PROVE  StartIsHeld'
<1>1. UNCHANGED <<events, running, startEnabled, meta, loader>>
  BY DEF Worker, Round, Announcing, ClearedPieces, ClearedSession, SaveRead, SaveDeleted,
         SaveSaved, Clear, Save, vars, Request, FrameArrives, HashDone, PieceStored,
         PieceRefused, RoundError, RoundFails, RoundEnds, Saved, BackoffEnds, Refreshed,
         AnnounceFails, AnnounceReply, AnnounceSaved, AnnounceOver, CoolingEnds,
         world, pageVars, userVars
<1>2. \/ UNCHANGED starter
      \/ starter' = [g \in Starts |->
           IF starter[g] = "announcing" THEN "announced" ELSE starter[g]]
  BY DEF Worker, Round, Announcing, ClearedPieces, ClearedSession, SaveRead, SaveDeleted,
         SaveSaved, Clear, Save, vars, Request, FrameArrives, HashDone, PieceStored,
         PieceRefused, RoundError, RoundFails, RoundEnds, Saved, BackoffEnds, Refreshed,
         AnnounceFails, AnnounceReply, AnnounceSaved, AnnounceOver, CoolingEnds
<1>3. \A g \in Starts : starter[g] # "off" => starter'[g] # "off"
  BY <1>2
<1> QED BY <1>1, <1>3, StartingStays

(* The Start button is never lost, however stops, loads, purges, exports   *)
(* and reloads fall between the steps of the pool, unless a save of the    *)
(* session is refused.                                                     *)
THEOREM StartIsNeverLost == Spec => []StartIsHeld
<1>1. Init => StartIsHeld
  BY DEF Init, Fresh, StartIsHeld
<1>2. ProgressInv /\ StartIsHeld /\ [Next]_vars => StartIsHeld'
  <2> SUFFICES ASSUME ProgressInv, StartIsHeld, [Next]_vars, "quota" \notin events
               PROVE  StartIsHeld'
    BY WorldStays DEF StartIsHeld
  <2> USE DEF ProgressInv, States
  <2>1. CASE \/ \E w \in Workers : Worker(w) \/ Round(w)
             \/ Announcing
    BY <2>1, OthersHoldStart DEF SaveRefused, AnnounceRefused
  <2>2. ASSUME NEW g \in Starts, Start(g) PROVE StartIsHeld'
    <3>1. starter'[g] # "off" /\ UNCHANGED events
      BY <2>2 DEF Start, AfterEnsure, world
    <3> QED BY <3>1 DEF StartIsHeld, Starting
  <2>3. ASSUME NEW g \in Starts, Launch(g) PROVE StartIsHeld'
    <3>1. CASE starter' = [starter EXCEPT ![g] = "off"] /\ ~running' /\ startEnabled'
      BY <3>1 DEF StartIsHeld
    <3>2. CASE starter' = [starter EXCEPT ![g] = "pool"]
      <4>1. starter'[g] # "off"
        BY <3>2
      <4> QED BY <4>1 DEF StartIsHeld, Starting
    <3> QED BY <2>3, <3>1, <3>2 DEF Launch
  <2>4. ASSUME NEW g \in Starts, PoolEnds(g) PROVE StartIsHeld'
    BY <2>4 DEF PoolEnds, StartIsHeld
  <2>5. CASE Stop
    BY <2>5 DEF Stop, StartIsHeld, Starting, pageVars, userVars
  <2>6. CASE (\E t \in Torrents : Load(t)) \/ LoadRead \/ LoadSaved \/ LoadRefused
    <3>1. /\ UNCHANGED <<starter, running>> /\ (startEnabled' = startEnabled \/ startEnabled')
          /\ loader' # "off" \/ startEnabled'
      BY <2>6 DEF Load, LoadRead, LoadSaved, LoadRefused
    <3> QED BY <3>1, WorldStays DEF StartIsHeld, Starting
  <2>7. CASE Reload
    BY <2>7 DEF Reload, StartIsHeld
  <2>8. CASE \/ ClearedPieces \/ ClearedSession \/ SaveRead \/ SaveDeleted \/ SaveSaved
             \/ Clear \/ Save \/ UNCHANGED vars
    BY <2>8, OthersHoldStart
  <2> QED BY <2>1, <2>2, <2>3, <2>4, <2>5, <2>6, <2>7, <2>8 DEF Next, Running, UserOps, User
<1> QED BY <1>1, <1>2, ProgressInduction, PTL DEF Spec
=============================================================================
