------------------------ MODULE Orchestrator_proofs ------------------------
(***************************************************************************)
(* What holds of the page's pool for any torrents, workers, batch sizes    *)
(* and worlds: the claims and the count of workers, the types of every     *)
(* variable, and that the pool only ends when there is nothing left to do. *)
(* Loading a torrent over a pool that still drains breaks the first two    *)
(* (app.js:187 enables Start again), so the theorems exclude the worlds    *)
(* where a pool is stopped and a torrent loaded over another.              *)
(***************************************************************************)
EXTENDS Orchestrator, FiniteSetTheorems, WellFoundedInduction, TLAPS

-----------------------------------------------------------------------------
(* The pool: its claims and its count, as long as no torrent is loaded     *)
(* while a stopped pool drains.                                            *)

\* Both may happen in this behaviour.
Overlaps == Switches /\ "stop" \in events

\* What the counts and claims are made of.
Shape ==
  /\ pc \in [Workers -> {"off", "announcing", "announced", "round", "hashing",
                         "storing", "saving", "backoff", "refreshing"}]
  /\ gen \in [Workers -> Starts]
  /\ starter \in [Starts -> {"off", "announcing", "announced", "pool"}]
  /\ batch \in [Workers -> SUBSET Pieces]
  /\ target \in 1 .. MaxWorkers

\* Nothing runs, and no run of start() is under way.
Quiet == Alive = {} /\ \A g \in Starts : starter[g] = "off"

\* The workers alive are of one run of start(), which is the only one under
\* way, if any is; the run of workers left behind by a rejection is over.
OnePool ==
  /\ \A v, w \in Alive : gen[v] = gen[w]
  /\ \A w \in Alive, g \in Starts : starter[g] # "off" => starter[g] = "pool" /\ gen[w] = g
  /\ \A g, h \in Starts : starter[g] # "off" /\ starter[h] # "off" => g = h

\* The pool can be started only when nothing runs.  Where no torrent is loaded
\* over another, Start is enabled, and a torrent loaded, only then; where one
\* is, a pool that nobody stops is running until nothing of it is left.
Gates ==
  /\ startEnabled /\ ~running => Quiet
  /\ "stop" \notin events /\ ~running => Quiet
  /\ ~Switches /\ startEnabled => Quiet
  /\ ~Switches /\ loader # "off" => Quiet /\ ~startEnabled

PoolInv == Shape /\ OnePool /\ Gates /\ ActiveIsExact /\ ClaimsAreDisjoint

\* The number of workers alive is one.
LEMMA AliveIsFinite ==
  IsFiniteSet(Alive) /\ Cardinality(Alive) \in Nat
BY PoolAssumption, FS_Subset, FS_CardinalityType DEF Alive

\* Claims stay disjoint when nobody joins the workers that ask, and nothing of
\* theirs is given up.
LEMMA ClaimsStay ==
  ASSUME ClaimsAreDisjoint, Asking' \subseteq Asking, claimed \subseteq claimed',
         \A v \in Asking' : batch'[v] = batch[v]
  PROVE  ClaimsAreDisjoint'
BY DEF ClaimsAreDisjoint

\* They do when a worker gives up its own.
LEMMA ReleaseKeepsClaims ==
  ASSUME Shape, ClaimsAreDisjoint, NEW w \in Asking, NEW k, k \notin {"round", "hashing", "storing"},
         Goes(w, k), claimed' = Release(w),
         \A v \in Workers \ {w} : batch'[v] = batch[v]
  PROVE  ClaimsAreDisjoint'
<1>1. Asking' = Asking \ {w}
  BY DEF Asking, Goes, Shape
<1>2. \A v \in Asking' : batch'[v] = batch[v] /\ batch[v] \cap batch[w] = {}
  BY <1>1 DEF ClaimsAreDisjoint, Asking
<1> QED BY <1>1, <1>2 DEF ClaimsAreDisjoint, Release

\* A worker goes on, alive.
LEMMA MoveKeeps ==
  ASSUME PoolInv, NEW w \in Alive,
         NEW k \in {"announcing", "announced", "round", "hashing", "storing",
                    "saving", "backoff", "refreshing"},
         Goes(w, k), batch' \in [Workers -> SUBSET Pieces],
         UNCHANGED <<gen, starter, target, active, startEnabled, running, events, loader>>
  PROVE  Shape' /\ OnePool' /\ Gates' /\ ActiveIsExact'
<1>1. Alive' = Alive
  BY DEF Alive, Goes, PoolInv, Shape
<1>2. Shape'
  BY DEF PoolInv, Shape, Goes, Alive
<1>3. OnePool' /\ Gates' /\ ActiveIsExact'
  BY <1>1 DEF PoolInv, OnePool, Gates, Quiet, Switches, ActiveIsExact
<1> QED BY <1>2, <1>3

\* A worker returns; its run of start() may reject with it.
LEMMA ExitKeeps ==
  ASSUME PoolInv, NEW w \in Alive, Exit(w), batch' \in [Workers -> SUBSET Pieces],
         \/ UNCHANGED starter
         \/ starter' = [starter EXCEPT ![gen[w]] = "off"],
         UNCHANGED <<gen, target, startEnabled, running, events, loader>>
  PROVE  Shape' /\ OnePool' /\ Gates' /\ ActiveIsExact'
<1>1. Alive' = Alive \ {w} /\ Shape'
  BY DEF Alive, Exit, Goes, PoolInv, Shape
<1>2. Gates'
  BY DEF PoolInv, Gates, Quiet, Switches
<1>3. \A g \in Starts : starter'[g] # "off" => starter'[g] = starter[g]
  BY DEF PoolInv, Shape
<1>4. OnePool'
  BY <1>1, <1>3 DEF PoolInv, OnePool
<1>5. Cardinality(Alive \ {w}) = Cardinality(Alive) - 1
  BY AliveIsFinite, FS_RemoveElement
<1>6. ActiveIsExact'
  BY <1>1, <1>5, AliveIsFinite, PoolAssumption DEF PoolInv, ActiveIsExact, Exit
<1> QED BY <1>1, <1>2, <1>4, <1>6

\* Workers that have not run join those that have.
LEMMA SpawnCounts ==
  ASSUME PoolInv, NEW t \in 1 .. MaxWorkers, NEW new \in Spawns(t)
  PROVE  /\ new \subseteq Workers \ Alive
         /\ IsFiniteSet(Alive \cup new)
         /\ Cardinality(new) \in Nat
         /\ Cardinality(Alive \cup new) = active + Cardinality(new)
         /\ active + Cardinality(new) \in 0 .. MaxWorkers
<1>1. new \subseteq Workers \ Alive
  BY DEF Spawns, Alive
<1>2. IsFiniteSet(new) /\ IsFiniteSet(Alive)
  BY <1>1, AliveIsFinite, PoolAssumption, FS_Subset
<1>3. Cardinality(new) \in Nat /\ Cardinality(Alive) \in Nat
  BY <1>2, FS_CardinalityType
<1>4. Alive \cap new = {}
  BY <1>1
<1>5. IsFiniteSet(Alive \cup new)
      /\ Cardinality(Alive \cup new) = Cardinality(Alive) + Cardinality(new)
  BY <1>2, <1>3, <1>4, FS_Union, FS_EmptySet
<1>6. Cardinality(new) = IF running THEN Larger(0, t - active) ELSE 0
  BY DEF Spawns
<1>7. active = Cardinality(Alive) /\ active <= MaxWorkers
  BY DEF PoolInv, ActiveIsExact
<1>8. active + Cardinality(new) <= MaxWorkers
  BY <1>3, <1>6, <1>7, PoolAssumption DEF Larger
<1> QED BY <1>1, <1>3, <1>5, <1>7, <1>8, PoolAssumption

\* A turn of a worker that waits for no request ends.
LEMMA BoundaryKeeps ==
  ASSUME PoolInv, NEW w \in Alive, w \notin Asking, NEW i, NEW s, Boundary(w, i, s),
         batch' \in [Workers -> SUBSET Pieces], \A v \in Workers \ {w} : batch'[v] = batch[v],
         UNCHANGED <<starter, claimed, startEnabled, running, events, loader>>
  PROVE  PoolInv'
<1>0. PICK t \in Rescaled : \E new \in IF t > target THEN Spawns(t) ELSE {{}} :
         LET n == active + Cardinality(new)
             stays == Stays(n, t)
         IN
         /\ target' = t
         /\ active' = IF stays THEN n ELSE n - 1
         /\ pc' = [v \in Workers |->
              IF v \in new \/ (v = w /\ stays) THEN AfterEnsure
              ELSE IF v = w THEN "off" ELSE pc[v]]
         /\ gen' = [v \in Workers |-> IF v \in new THEN gen[w] ELSE gen[v]]
  BY DEF Boundary
<1>1. PICK new \in IF t > target THEN Spawns(t) ELSE {{}} :
         LET n == active + Cardinality(new)
             stays == Stays(n, t)
         IN
         /\ target' = t
         /\ active' = IF stays THEN n ELSE n - 1
         /\ pc' = [v \in Workers |->
              IF v \in new \/ (v = w /\ stays) THEN AfterEnsure
              ELSE IF v = w THEN "off" ELSE pc[v]]
         /\ gen' = [v \in Workers |-> IF v \in new THEN gen[w] ELSE gen[v]]
  BY <1>0
<1> DEFINE n == active + Cardinality(new)
<1> DEFINE stays == Stays(n, t)
<1>2. t \in 1 .. MaxWorkers
  BY DEF Rescaled, PoolInv, Shape
<1>3. /\ new \subseteq Workers \ Alive
      /\ IsFiniteSet(Alive \cup new)
      /\ Cardinality(Alive \cup new) = n
      /\ n \in 0 .. MaxWorkers
  <2>1. CASE new \in Spawns(t)
    BY <2>1, <1>2, SpawnCounts
  <2>2. CASE new = {}
    BY <2>2, AliveIsFinite, FS_EmptySet DEF PoolInv, ActiveIsExact
  <2> QED BY <1>1, <2>1, <2>2
<1>4. AfterEnsure \in {"announcing", "announced"}
  BY DEF AfterEnsure
<1>5. Shape'
  <2> QED BY <1>1, <1>2, <1>4 DEF PoolInv, Shape, Alive
<1>6. Alive' = IF stays THEN Alive \cup new ELSE (Alive \cup new) \ {w}
  <2>1. \A v \in Workers :
          pc'[v] # "off" <=> v \in new \/ (v = w /\ stays) \/ (v # w /\ pc[v] # "off")
    BY <1>1, <1>3, <1>4
  <2>2. CASE stays
    BY <2>1, <2>2, <1>3 DEF Alive
  <2>3. CASE ~stays
    BY <2>1, <2>3, <1>3 DEF Alive
  <2> QED BY <2>2, <2>3
<1>7. ActiveIsExact'
  <2>1. CASE stays
    BY <2>1, <1>1, <1>3, <1>6 DEF ActiveIsExact
  <2>2. CASE ~stays
    <3>1. Cardinality((Alive \cup new) \ {w}) = n - 1
      BY <1>3, FS_RemoveElement
    <3>2. active' = n - 1
      BY <2>2, <1>1
    <3>3. n \in Nat /\ n <= MaxWorkers
      BY <1>3, PoolAssumption
    <3> HIDE DEF n
    <3> QED BY <2>2, <3>1, <3>2, <3>3, <1>6, PoolAssumption DEF ActiveIsExact
  <2> QED BY <2>1, <2>2
<1>8. OnePool'
  <2>1. \A v \in Alive' : v \in Workers /\ gen'[v] = gen[w]
    BY <1>1, <1>3, <1>6 DEF PoolInv, OnePool, Alive
  <2>2. \A g \in Starts : starter[g] # "off" => starter[g] = "pool" /\ gen[w] = g
    BY DEF PoolInv, OnePool
  <2> QED BY <2>1, <2>2 DEF PoolInv, OnePool
<1>9. Gates'
  BY DEF PoolInv, Gates, Quiet, Switches
<1>10. Asking' = Asking
  <2> QED BY <1>1, <1>3, <1>4 DEF Asking, Alive
<1>11. ClaimsAreDisjoint'
  BY <1>10, ClaimsStay DEF PoolInv, Asking
<1> QED BY <1>5, <1>7, <1>8, <1>9, <1>11 DEF PoolInv

\* Claim a batch, or return.
LEMMA RequestKeeps ==
  ASSUME PoolInv, NEW w \in Workers, Request(w)
  PROVE  PoolInv'
<1> DEFINE want == First(Claimable, size[w])
<1>1. w \in Alive \ Asking
  BY DEF Request, Alive, Asking
<1>2. CASE want = {} \/ session.peers = {}
  <2>1. Exit(w) /\ UNCHANGED <<claimed, batch, starter, gen, target, startEnabled, running,
                            events, loader>>
    BY <1>2 DEF Request, roundVars, pageVars, userVars, world
  <2>2. Shape' /\ OnePool' /\ Gates' /\ ActiveIsExact'
    BY <1>1, <2>1, ExitKeeps DEF PoolInv, Shape
  <2>3. Asking' = Asking
    BY <1>1, <2>1 DEF Asking, Exit, Goes, PoolInv, Shape
  <2>4. ClaimsAreDisjoint'
    BY <2>1, <2>3, ClaimsStay DEF PoolInv
  <2> QED BY <2>2, <2>4 DEF PoolInv
<1>3. CASE ~(want = {} \/ session.peers = {})
  <2>1. /\ Goes(w, "round") /\ claimed' = claimed \cup want
        /\ batch' = [batch EXCEPT ![w] = want]
        /\ UNCHANGED <<starter, gen, target, active, startEnabled, running, events, loader>>
    BY <1>3 DEF Request, pageVars, userVars, world
  <2>2. want \subseteq Pieces \ claimed
    BY DEF First, Claimable, Missing
  <2> HIDE DEF want
  <2>3. batch' \in [Workers -> SUBSET Pieces]
    BY <2>1, <2>2 DEF PoolInv, Shape
  <2>4. Shape' /\ OnePool' /\ Gates' /\ ActiveIsExact'
    BY <1>1, <2>1, <2>3, MoveKeeps
  <2>5. Asking' = Asking \cup {w}
    BY <1>1, <2>1 DEF Asking, Goes, PoolInv, Shape
  <2>6. batch'[w] = want /\ \A v \in Asking : batch'[v] = batch[v]
    BY <1>1, <2>1 DEF PoolInv, Shape
  <2>7. \A v \in Asking : batch[v] \cap want = {}
    BY <2>2 DEF PoolInv, ClaimsAreDisjoint
  <2>8. ClaimsAreDisjoint'
    <3>1. ASSUME NEW u \in Asking', NEW v \in Asking', u # v
          PROVE  batch'[u] \cap batch'[v] = {}
      BY <1>1, <2>5, <2>6, <2>7, <3>1 DEF PoolInv, ClaimsAreDisjoint
    <3>2. \A v \in Asking' : batch'[v] \subseteq claimed'
      BY <1>1, <2>1, <2>5, <2>6 DEF PoolInv, ClaimsAreDisjoint
    <3> QED BY <3>1, <3>2 DEF ClaimsAreDisjoint
  <2> QED BY <2>4, <2>8 DEF PoolInv
<1> QED BY <1>2, <1>3

\* A step of the round: the request stays with the server.
LEMMA FramesKeep ==
  ASSUME PoolInv, NEW w \in Workers,
         \/ HashDone(w) \/ PieceStored(w)
         \/ \E i \in Pieces, bytes \in {"good", "bad"} : FrameArrives(w, i, bytes)
  PROVE  PoolInv'
<1>1. w \in Alive /\ w \in Asking
  BY DEF HashDone, PieceStored, FrameArrives, Alive, Asking
<1>2. PICK k \in {"round", "hashing", "storing"} : Goes(w, k)
  BY DEF HashDone, PieceStored, FrameArrives
<1>3. UNCHANGED <<batch, claimed, gen, starter, target, active, startEnabled, running, events,
                  loader>>
  BY DEF HashDone, PieceStored, FrameArrives, poolVars, pageVars, userVars, world
<1>4. Shape' /\ OnePool' /\ Gates' /\ ActiveIsExact'
  BY <1>1, <1>2, <1>3, MoveKeeps DEF PoolInv, Shape
<1>5. Asking' = Asking
  BY <1>1, <1>2 DEF Asking, Goes, PoolInv, Shape
<1>6. ClaimsAreDisjoint'
  BY <1>3, <1>5, ClaimsStay DEF PoolInv
<1> QED BY <1>4, <1>6 DEF PoolInv

\* The round ends or fails, and its claims with it.
LEMMA RoundOverKeeps ==
  ASSUME PoolInv, NEW w \in Workers, RoundFails(w) \/ PieceRefused(w) \/ RoundEnds(w)
  PROVE  PoolInv'
<1>1. w \in Alive /\ w \in Asking
  BY DEF RoundFails, PieceRefused, RoundEnds, Alive, Asking
<1>2. PICK k \in {"saving", "backoff"} : Goes(w, k)
  BY DEF RoundFails, PieceRefused, RoundEnds, RoundError
<1>3. /\ claimed' = Release(w)
      /\ batch' = batch \/ batch' = [batch EXCEPT ![w] = {}]
      /\ UNCHANGED <<gen, starter, target, active, startEnabled, running, events, loader>>
  BY DEF RoundFails, PieceRefused, RoundEnds, RoundError, pageVars, userVars, world
<1>4. batch' \in [Workers -> SUBSET Pieces] /\ \A v \in Workers \ {w} : batch'[v] = batch[v]
  BY <1>3 DEF PoolInv, Shape
<1>5. Shape' /\ OnePool' /\ Gates' /\ ActiveIsExact'
  BY <1>1, <1>2, <1>3, <1>4, MoveKeeps
<1>6. ClaimsAreDisjoint'
  BY <1>1, <1>2, <1>3, <1>4, ReleaseKeepsClaims DEF PoolInv
<1> QED BY <1>5, <1>6 DEF PoolInv

\* The session is saved, or cannot be; the sleep is over.
LEMMA TurnKeeps ==
  ASSUME PoolInv, NEW w \in Workers,
         Saved(w) \/ BackoffEnds(w) \/ Refreshed(w) \/ SaveRefused(w)
  PROVE  PoolInv'
<1>1. w \in Alive /\ w \notin Asking
  BY DEF Saved, BackoffEnds, Refreshed, SaveRefused, Alive, Asking
<1>2. batch' = batch \/ batch' = [batch EXCEPT ![w] = {}]
  BY DEF Saved, BackoffEnds, Refreshed, SaveRefused, roundVars
<1>3. batch' \in [Workers -> SUBSET Pieces] /\ \A v \in Workers \ {w} : batch'[v] = batch[v]
  BY <1>2 DEF PoolInv, Shape
<1>4. UNCHANGED <<claimed, startEnabled, running, events, loader>>
  BY DEF Saved, BackoffEnds, Refreshed, SaveRefused, pageVars, userVars, world
<1>5. CASE \E i, s : Boundary(w, i, s) /\ UNCHANGED starter
  BY <1>1, <1>3, <1>4, <1>5, BoundaryKeeps
<1>6. CASE \E k \in {"backoff", "refreshing"} :
             Goes(w, k) /\ UNCHANGED <<target, gen, active, starter>>
  <2>1. PICK k \in {"backoff", "refreshing"} :
          Goes(w, k) /\ UNCHANGED <<target, gen, active, starter>>
    BY <1>6
  <2>2. Shape' /\ OnePool' /\ Gates' /\ ActiveIsExact'
    BY <1>1, <1>3, <1>4, <2>1, MoveKeeps
  <2>3. Asking' = Asking
    BY <1>1, <2>1 DEF Asking, Goes, PoolInv, Shape
  <2>4. ClaimsAreDisjoint'
    BY <1>1, <1>3, <1>4, <2>3, ClaimsStay DEF PoolInv, Asking
  <2> QED BY <2>2, <2>4 DEF PoolInv
<1>7. CASE SaveRefused(w)
  <2>1. Exit(w) /\ starter' = [starter EXCEPT ![gen[w]] = "off"] /\ UNCHANGED <<gen, target>>
    BY <1>7 DEF SaveRefused
  <2>2. Shape' /\ OnePool' /\ Gates' /\ ActiveIsExact'
    BY <1>1, <1>3, <1>4, <2>1, ExitKeeps
  <2>3. Asking' = Asking
    BY <1>1, <2>1 DEF Asking, Exit, Goes, PoolInv, Shape
  <2>4. ClaimsAreDisjoint'
    BY <1>1, <1>3, <1>4, <2>3, ClaimsStay DEF PoolInv, Asking
  <2> QED BY <2>2, <2>4 DEF PoolInv
<1>8. CASE Saved(w)
  BY <1>5, <1>6, <1>8 DEF Saved
<1>9. CASE BackoffEnds(w)
  BY <1>5, <1>6, <1>9 DEF BackoffEnds
<1>10. CASE Refreshed(w)
  BY <1>5, <1>10 DEF Refreshed
<1> QED BY <1>7, <1>8, <1>9, <1>10

\* The announce is over, well or badly: those who awaited it go on, alive.
LEMMA AnnounceOverKeeps ==
  ASSUME PoolInv, AnnounceOver
  PROVE  PoolInv'
<1>1. /\ pc' = [w \in Workers |-> IF pc[w] = "announcing" THEN "announced" ELSE pc[w]]
      /\ starter' = [g \in Starts |->
           IF starter[g] = "announcing" THEN "announced" ELSE starter[g]]
      /\ UNCHANGED <<gen, batch, target, claimed, active, startEnabled, running, events, loader>>
  BY DEF AnnounceOver, roundVars, poolVars, pageVars, userVars, world
<1>2. Shape'
  BY <1>1 DEF PoolInv, Shape
<1>3. Alive' = Alive /\ Asking' = Asking
  BY <1>1 DEF Alive, Asking
<1>4. \A g \in Starts : /\ starter'[g] = "off" <=> starter[g] = "off"
                        /\ starter[g] = "pool" => starter'[g] = "pool"
  BY <1>1
<1>5. OnePool' /\ Gates' /\ ActiveIsExact'
  BY <1>1, <1>3, <1>4 DEF PoolInv, OnePool, Gates, Quiet, Switches, ActiveIsExact
<1>6. ClaimsAreDisjoint'
  BY <1>1, <1>3, ClaimsStay DEF PoolInv
<1> QED BY <1>2, <1>5, <1>6 DEF PoolInv

\* The announce cannot be saved: those who awaited it return.
LEMMA AnnounceRefusedKeeps ==
  ASSUME PoolInv, AnnounceRefused
  PROVE  PoolInv'
<1> DEFINE joined == {w \in Workers : pc[w] = "announcing"}
<1>1. /\ pc' = [w \in Workers |-> IF w \in joined THEN "off" ELSE pc[w]]
      /\ starter' = [g \in Starts |->
           IF starter[g] = "announcing" \/ \E w \in joined : gen[w] = g
           THEN "off" ELSE starter[g]]
      /\ active' = active - Cardinality(joined)
      /\ UNCHANGED <<gen, batch, target, claimed, startEnabled, running, events, loader>>
  BY DEF AnnounceRefused, roundVars, pageVars, userVars, world
<1>2. Alive' = Alive \ joined /\ Asking' = Asking /\ joined \subseteq Alive
  BY <1>1 DEF Alive, Asking
<1>3. \A g \in Starts : starter'[g] = "off" \/ starter'[g] = starter[g]
  BY <1>1
<1>4. Shape'
  BY <1>1 DEF PoolInv, Shape
<1>5. OnePool' /\ Gates'
  BY <1>1, <1>2, <1>3 DEF PoolInv, OnePool, Gates, Quiet, Switches
<1>6. ActiveIsExact'
  <2>1. IsFiniteSet(joined) /\ IsFiniteSet(Alive \ joined)
    BY <1>2, AliveIsFinite, FS_Subset
  <2>2. Cardinality(joined) \in Nat /\ Cardinality(Alive \ joined) \in Nat
    BY <2>1, FS_CardinalityType
  <2>3. Cardinality(Alive) = Cardinality(Alive \ joined) + Cardinality(joined)
    <3>1. (Alive \ joined) \cup joined = Alive /\ (Alive \ joined) \cap joined = {}
      BY <1>2
    <3> HIDE DEF joined
    <3> QED BY <2>1, <2>2, <3>1, FS_Union, FS_EmptySet
  <2>4. Cardinality(Alive') = Cardinality(Alive \ joined)
    BY <1>2
  <2> HIDE DEF joined
  <2> QED BY <1>1, <2>2, <2>3, <2>4, PoolAssumption DEF PoolInv, ActiveIsExact
<1>7. ClaimsAreDisjoint'
  BY <1>1, <1>2, ClaimsStay DEF PoolInv
<1> QED BY <1>4, <1>5, <1>6, <1>7 DEF PoolInv

\* Start.
LEMMA StartKeeps ==
  ASSUME PoolInv, NEW g \in Starts, Start(g)
  PROVE  PoolInv'
<1>1. Quiet /\ (~Switches => loader = "off")
  BY DEF Start, PoolInv, Gates
<1>2. /\ starter' = [starter EXCEPT ![g] = AfterEnsure]
      /\ active' = 0 /\ claimed' = {} /\ startEnabled' = FALSE /\ running' = TRUE
      /\ UNCHANGED <<pc, gen, batch, events, loader>>
  BY DEF Start, workerVars, roundVars, userVars, world
<1>3. target' \in 1 .. MaxWorkers
  BY PoolAssumption DEF Start
<1>4. AfterEnsure \in {"announcing", "announced"}
  BY DEF AfterEnsure
<1>5. Shape'
  BY <1>2, <1>3, <1>4 DEF PoolInv, Shape
<1>6. Alive' = {} /\ Asking' = {}
  BY <1>1, <1>2 DEF Quiet, Alive, Asking
<1>7. \A h \in Starts \ {g} : starter'[h] = "off"
  BY <1>1, <1>2 DEF Quiet, PoolInv, Shape
<1>8. OnePool' /\ Gates'
  BY <1>1, <1>2, <1>6, <1>7 DEF OnePool, Gates, Switches
<1>9. Cardinality({}) = 0
  BY FS_EmptySet
<1>10. ActiveIsExact' /\ ClaimsAreDisjoint'
  BY <1>2, <1>6, <1>9, PoolAssumption DEF ActiveIsExact, ClaimsAreDisjoint
<1> QED BY <1>5, <1>8, <1>10 DEF PoolInv

\* The pool is started, or the loop paused.
LEMMA LaunchKeeps ==
  ASSUME PoolInv, NEW g \in Starts, Launch(g)
  PROVE  PoolInv'
<1>1. starter[g] = "announced" /\ Alive = {} /\ Asking = {}
  BY DEF Launch, PoolInv, OnePool, Alive, Asking
<1>2. \A h \in Starts \ {g} : starter[h] = "off"
  BY <1>1 DEF PoolInv, OnePool
<1>3. ~Switches => loader = "off"
  BY <1>1 DEF PoolInv, Gates, Quiet
<1>4. UNCHANGED <<batch, target, claimed, events, loader>>
  BY DEF Launch, roundVars, userVars, world
<1>5. CASE session.peers = {} /\ Missing # {}
  <2>1. starter' = [starter EXCEPT ![g] = "off"] /\ UNCHANGED <<pc, gen, active>>
    BY <1>5 DEF Launch
  <2>2. Quiet' /\ Shape' /\ UNCHANGED <<Alive, Asking>>
    BY <1>1, <1>2, <1>4, <2>1 DEF Quiet, Alive, Asking, PoolInv, Shape
  <2>3. OnePool' /\ Gates' /\ ActiveIsExact' /\ ClaimsAreDisjoint'
    BY <1>1, <1>3, <1>4, <2>1, <2>2
    DEF PoolInv, OnePool, Gates, Quiet, Switches, ActiveIsExact, ClaimsAreDisjoint
  <2> QED BY <2>2, <2>3 DEF PoolInv
<1>6. CASE ~(session.peers = {} /\ Missing # {})
  <2>1. PICK new \in Spawns(target) :
          /\ pc' = [w \in Workers |-> IF w \in new THEN AfterEnsure ELSE pc[w]]
          /\ gen' = [w \in Workers |-> IF w \in new THEN g ELSE gen[w]]
          /\ active' = active + Cardinality(new)
    BY <1>6 DEF Launch
  <2>2. starter' = [starter EXCEPT ![g] = "pool"] /\ UNCHANGED <<startEnabled, running>>
    BY <1>6 DEF Launch
  <2>3. AfterEnsure \in {"announcing", "announced"}
    BY DEF AfterEnsure
  <2>4. /\ new \subseteq Workers \ Alive
        /\ Cardinality(Alive \cup new) = active + Cardinality(new)
        /\ active + Cardinality(new) \in 0 .. MaxWorkers
    BY SpawnCounts DEF PoolInv, Shape
  <2>5. Shape'
    BY <1>4, <2>1, <2>2, <2>3 DEF PoolInv, Shape
  <2>6. Alive' = new /\ Asking' = {}
    <3>1. \A w \in Workers : pc[w] = "off"
      BY <1>1 DEF Alive
    <3>2. \A w \in Workers : pc'[w] = IF w \in new THEN AfterEnsure ELSE "off"
      BY <2>1, <3>1
    <3> QED BY <2>3, <2>4, <3>2 DEF Alive, Asking
  <2>7. OnePool'
    <3>1. \A w \in Alive' : gen'[w] = g
      BY <2>1, <2>4, <2>6
    <3>2. \A h \in Starts : starter'[h] # "off" => h = g /\ starter'[h] = "pool"
      BY <1>2, <2>2 DEF PoolInv, Shape
    <3> QED BY <3>1, <3>2 DEF OnePool
  <2>8. Gates'
    BY <1>1, <1>4, <2>2 DEF PoolInv, Gates, Quiet, Switches
  <2>9. ActiveIsExact' /\ ClaimsAreDisjoint'
    <3>1. Alive \cup new = new
      BY <1>1
    <3> QED BY <2>1, <2>4, <2>6, <3>1, PoolAssumption DEF ActiveIsExact, ClaimsAreDisjoint
  <2> QED BY <2>5, <2>7, <2>8, <2>9 DEF PoolInv
<1> QED BY <1>5, <1>6

\* All workers of a run have returned.
LEMMA PoolEndsKeeps ==
  ASSUME PoolInv, NEW g \in Starts, PoolEnds(g)
  PROVE  PoolInv'
<1>1. starter[g] = "pool" /\ Alive = {}
  BY DEF PoolEnds, PoolInv, OnePool
<1>2. \A h \in Starts \ {g} : starter[h] = "off"
  BY <1>1 DEF PoolInv, OnePool
<1>3. ~Switches => loader = "off"
  BY <1>1 DEF PoolInv, Gates, Quiet
<1>4. /\ starter' = [starter EXCEPT ![g] = "off"]
      /\ UNCHANGED <<pc, gen, batch, target, claimed, active, events, loader>>
  BY DEF PoolEnds, workerVars, roundVars, poolVars, userVars, world
<1>5. Quiet' /\ Shape' /\ UNCHANGED <<Alive, Asking>>
  BY <1>1, <1>2, <1>4 DEF Quiet, Alive, Asking, PoolInv, Shape
<1>6. OnePool' /\ Gates' /\ ActiveIsExact' /\ ClaimsAreDisjoint'
  BY <1>1, <1>3, <1>4, <1>5
  DEF PoolInv, OnePool, Gates, Quiet, Switches, ActiveIsExact, ClaimsAreDisjoint
<1> QED BY <1>5, <1>6 DEF PoolInv

\* A torrent is loaded, when nothing runs or into a pool that is not stopped.
LEMMA LoadKeeps ==
  ASSUME PoolInv, ~Overlaps,
         \/ LoadRead \/ LoadSaved \/ LoadRefused \/ \E t \in Torrents : Load(t)
  PROVE  PoolInv'
<1>1. UNCHANGED <<pc, gen, starter, batch, target, claimed, active, running, events>>
  BY DEF LoadRead, LoadSaved, LoadRefused, Load, workerVars, roundVars, poolVars, world
<1>2. ~Switches => Quiet
  BY DEF PoolInv, Gates, LoadRead, LoadSaved, LoadRefused, Load, Stuck, Quiet, Switches
<1>3. ~Switches /\ loader' # "off" => ~startEnabled'
  BY DEF PoolInv, Gates, LoadRead, LoadSaved, LoadRefused, Load, Stuck, Switches, pageVars
<1>4. UNCHANGED <<Alive, Asking, Quiet, Switches>>
  BY <1>1 DEF Alive, Asking, Quiet, Switches
<1>5. Gates'
  BY <1>1, <1>2, <1>3, <1>4 DEF PoolInv, Gates, Overlaps
<1>6. Shape' /\ OnePool' /\ ActiveIsExact' /\ ClaimsAreDisjoint'
  BY <1>1, <1>4 DEF PoolInv, Shape, OnePool, ActiveIsExact, ClaimsAreDisjoint
<1> QED BY <1>5, <1>6 DEF PoolInv

\* A page just opened.
LEMMA FreshPool ==
  ASSUME Fresh
  PROVE  PoolInv
<1>1. Shape
  BY PoolAssumption DEF Fresh, Shape
<1>2. Alive = {} /\ Asking = {} /\ Quiet
  BY DEF Fresh, Alive, Asking, Quiet
<1>3. Cardinality({}) = 0
  BY FS_EmptySet
<1>4. OnePool /\ Gates /\ ActiveIsExact /\ ClaimsAreDisjoint
  BY <1>2, <1>3, PoolAssumption
  DEF Fresh, OnePool, Gates, Quiet, ActiveIsExact, ClaimsAreDisjoint
<1> QED BY <1>1, <1>4 DEF PoolInv

\* The page is reloaded.
LEMMA ReloadKeeps ==
  ASSUME Reload
  PROVE  PoolInv'
<1>1. Fresh'
  BY DEF Reload, Fresh
<1>2. Shape'
  BY <1>1, PoolAssumption DEF Fresh, Shape
<1>3. Alive' = {} /\ Asking' = {} /\ Quiet'
  BY <1>1 DEF Fresh, Alive, Asking, Quiet
<1>4. Cardinality({}) = 0
  BY FS_EmptySet
<1>5. OnePool' /\ Gates' /\ ActiveIsExact' /\ ClaimsAreDisjoint'
  BY <1>1, <1>3, <1>4, PoolAssumption
  DEF Fresh, OnePool, Gates, Quiet, ActiveIsExact, ClaimsAreDisjoint
<1> QED BY <1>2, <1>5 DEF PoolInv

\* The pool is stopped.
LEMMA StopKeeps ==
  ASSUME PoolInv, ~Overlaps, Stop
  PROVE  PoolInv'
<1>1. /\ UNCHANGED <<pc, gen, starter, batch, target, claimed, active, startEnabled, events, loader>>
      /\ "stop" \in events /\ ~Switches
  BY DEF Stop, Overlaps, workerVars, roundVars, poolVars, pageVars, userVars, world
<1>2. UNCHANGED <<Alive, Asking, Quiet, Switches>>
  BY <1>1 DEF Alive, Asking, Quiet, Switches
<1> QED BY <1>1, <1>2
        DEF PoolInv, Shape, OnePool, Gates, ActiveIsExact, ClaimsAreDisjoint

\* What the user, the announce and the store do beside the pool.
LEMMA AsideKeeps ==
  ASSUME PoolInv,
         \/ AnnounceReply \/ CoolingEnds \/ Clear \/ Save
         \/ ClearedPieces \/ ClearedSession \/ SaveRead \/ SaveDeleted \/ SaveSaved
         \/ UNCHANGED vars
  PROVE  PoolInv'
<1>1. UNCHANGED <<pc, gen, starter, batch, target, claimed, active, startEnabled, running, events,
                  loader>>
  BY DEF AnnounceReply, CoolingEnds, Clear, Save, ClearedPieces, ClearedSession,
         SaveRead, SaveDeleted, SaveSaved, vars, workerVars, roundVars, poolVars, pageVars,
         userVars, world
<1>2. UNCHANGED <<Alive, Asking, Quiet, Switches>>
  BY <1>1 DEF Alive, Asking, Quiet, Switches
<1> QED BY <1>1, <1>2
        DEF PoolInv, Shape, OnePool, Gates, ActiveIsExact, ClaimsAreDisjoint

\* What may happen is settled at the start.
LEMMA WorldStays ==
  ASSUME [Next]_vars
  PROVE  UNCHANGED events
BY DEF Next, Worker, Round, Announcing, Running, UserOps, User, vars, world,
       Request, HashDone, PieceStored, Saved, BackoffEnds, Refreshed, PieceRefused,
       SaveRefused, FrameArrives, RoundFails, RoundError, RoundEnds, AnnounceFails,
       AnnounceOver, AnnounceReply, AnnounceSaved, AnnounceRefused, CoolingEnds, Launch,
       PoolEnds, Start, Stop, Load, LoadRead, LoadSaved, LoadRefused, Clear, ClearedPieces,
       ClearedSession, Save, SaveRead, SaveDeleted, SaveSaved, Reload

\* The invariant of the pool is inductive.
LEMMA PoolInduction ==
  Spec => [](~Overlaps => PoolInv)
<1>1. Init => PoolInv
  BY FreshPool DEF Init
<1>2. (~Overlaps => PoolInv) /\ [Next]_vars => (~Overlaps => PoolInv)'
  <2> SUFFICES ASSUME ~Overlaps, PoolInv, [Next]_vars PROVE PoolInv'
    BY WorldStays DEF Overlaps, Switches
  <2>1. CASE \E w \in Workers : Worker(w) \/ Round(w)
    BY <2>1, RequestKeeps, FramesKeep, RoundOverKeeps, TurnKeeps DEF Worker, Round
  <2>2. CASE Announcing
    BY <2>2, AnnounceOverKeeps, AnnounceRefusedKeeps, AsideKeeps
    DEF Announcing, AnnounceFails, AnnounceSaved
  <2>3. CASE Running
    BY <2>3, LaunchKeeps, PoolEndsKeeps DEF Running
  <2>4. CASE UserOps
    BY <2>4, LoadKeeps, AsideKeeps DEF UserOps
  <2>5. CASE User
    BY <2>5, StartKeeps, LoadKeeps, StopKeeps, ReloadKeeps, AsideKeeps DEF User
  <2>6. CASE UNCHANGED vars
    BY <2>6, AsideKeeps
  <2> QED BY <2>1, <2>2, <2>3, <2>4, <2>5, <2>6 DEF Next
<1> QED BY <1>1, <1>2, PTL DEF Spec

\* "Claims keep the workers' piece ranges disjoint" (app.js:203-205), for any
\* number of workers, whatever rounds fail, workers leave and pools end.
THEOREM ClaimsStayDisjoint == Spec => [](~Overlaps => ClaimsAreDisjoint)
<1>1. PoolInv => ClaimsAreDisjoint
  BY DEF PoolInv
<1> QED BY <1>1, PoolInduction, PTL

\* activeWorkers is the number of workers at all times, and never more than
\* MAX_WORKERS, whichever of the exits each of them takes.
THEOREM TheCountIsExact == Spec => [](~Overlaps => ActiveIsExact)
<1>1. PoolInv => ActiveIsExact
  BY DEF PoolInv
<1> QED BY <1>1, PoolInduction, PTL
-----------------------------------------------------------------------------
(* Types, in parts.                                                        *)

PieceOps ==
  [by : Clients, op : {"put"}, torrent : Torrents, index : Pieces, bytes : {"good", "bad"}]
  \cup [by : Clients, op : {"delete"}, torrent : Torrents]
SessionOps ==
  [by : Clients, op : {"put"}, session : Sessions]
  \cup [by : Clients, op : {"get", "delete"}, torrent : Torrents]

StoreTypes ==
  /\ disk \in [Torrents \X Pieces -> {"none", "good", "bad"}]
  /\ records \in [Torrents -> Sessions \cup {None}]
  /\ pieceOps \in Seq(PieceOps)
  /\ sessionOps \in Seq(SessionOps)

PageTypes ==
  /\ events \in Worlds /\ switches \in 0 .. MaxSwitches
  /\ meta \in Torrents \cup {None}
  /\ session \in Sessions \cup {None}
  /\ running \in BOOLEAN /\ startEnabled \in BOOLEAN /\ links \in BOOLEAN
  /\ loader \in {"off", "reading", "saving"}
  /\ clearer \in {"off", "pieces", "session"}
  /\ saver \in {"off", "reading", "deleting", "saving"}

PoolTypes ==
  /\ autoScale \in BOOLEAN /\ wipeout \in BOOLEAN /\ cooling \in BOOLEAN
  /\ claimed \subseteq Pieces
  /\ target \in 1 .. MaxWorkers
  /\ active \in 0 .. MaxWorkers
  /\ announcing \in {"no", "asking", "saving"}
  /\ starter \in [Starts -> {"off", "announcing", "announced", "pool"}]

WorkerTypes ==
  /\ pc \in [Workers -> {"off", "announcing", "announced", "round", "hashing",
                         "storing", "saving", "backoff", "refreshing"}]
  /\ gen \in [Workers -> Starts]
  /\ idle \in [Workers -> 0 .. 3]
  /\ size \in [Workers -> MinBatch .. MaxBatch]

RoundTypes ==
  /\ batch \in [Workers -> SUBSET Pieces]
  /\ asked \in [Workers -> SUBSET Addresses]
  /\ due \in [Workers -> SUBSET Pieces]
  /\ of \in [Workers -> Torrents \cup {None}]
  /\ stored \in [Workers -> 0 .. NumPieces]
  /\ frame \in [Workers -> Frames]

\* TypeOK is the conjunction of the parts.
LEMMA TypeParts ==
  TypeOK <=> StoreTypes /\ PageTypes /\ PoolTypes /\ WorkerTypes /\ RoundTypes
BY DEF TypeOK, StoreTypeOK, PieceOps, SessionOps, StoreTypes, PageTypes, PoolTypes,
       WorkerTypes, RoundTypes

\* The same of the next state.
LEMMA TypePartsNext ==
  TypeOK' <=> StoreTypes' /\ PageTypes' /\ PoolTypes' /\ WorkerTypes' /\ RoundTypes'
BY DEF TypeOK, StoreTypeOK, PieceOps, SessionOps, StoreTypes, PageTypes, PoolTypes,
       WorkerTypes, RoundTypes

\* A session stays one when its peers or bits are replaced.
LEMMA SessionParts ==
  ASSUME NEW s \in Sessions, NEW P \in SUBSET Addresses, NEW B \in SUBSET Pieces
  PROVE  /\ s.torrent \in Torrents /\ s.bits \subseteq Pieces /\ s.peers \subseteq Addresses
         /\ [s EXCEPT !.peers = P] \in Sessions
         /\ [s EXCEPT !.peers = P].torrent = s.torrent
         /\ [s EXCEPT !.peers = P].bits = s.bits
         /\ [s EXCEPT !.bits = B] \in Sessions
         /\ [s EXCEPT !.bits = B].torrent = s.torrent
         /\ [s EXCEPT !.bits = B].bits = B
         /\ s # None
BY StoreAssumption DEF Sessions

\* So is a new one.
LEMMA NewSessions ==
  ASSUME NEW t \in Torrents
  PROVE  NewSession(t) \in Sessions
BY DEF NewSession, Sessions

\* Merging adds peers only.
LEMMA MergesTypes ==
  ASSUME NEW P \in SUBSET Addresses, NEW new \in SUBSET Addresses, NEW Q \in Merges(P, new)
  PROVE  Q \subseteq Addresses
BY DEF Merges

\* Queueing a session.
LEMMA PutSessionTypes ==
  ASSUME StoreTypes, NEW c \in Clients, NEW s \in Sessions, PutSession(c, s),
         UNCHANGED <<disk, records, pieceOps>>
  PROVE  StoreTypes'
<1>1. Put(c, s) \in SessionOps
  BY DEF Put, SessionOps
<1> QED BY <1>1 DEF StoreTypes, PutSession

\* Running a transaction on the pieces.
LEMMA RunPieceTypes ==
  ASSUME StoreTypes, NEW c, RunPieceOp(c)
  PROVE  /\ disk' \in [Torrents \X Pieces -> {"none", "good", "bad"}]
         /\ records' \in [Torrents -> Sessions \cup {None}]
         /\ pieceOps' \in Seq(PieceOps)
         /\ Head(pieceOps) \in PieceOps
<1> DEFINE o == Head(pieceOps)
<1>1. o \in PieceOps /\ pieceOps' \in Seq(PieceOps)
  BY DEF RunPieceOp, StoreTypes
<1>2. disk' \in [Torrents \X Pieces -> {"none", "good", "bad"}]
  <2>1. CASE o.op = "put"
    <3>1. o.torrent \in Torrents /\ o.index \in Pieces /\ o.bytes \in {"good", "bad"}
      BY <1>1, <2>1 DEF PieceOps
    <3>2. disk' = [disk EXCEPT ![<<o.torrent, o.index>>] = o.bytes]
      BY <2>1 DEF RunPieceOp
    <3> QED BY <3>1, <3>2 DEF StoreTypes
  <2>2. CASE o.op # "put"
    <3>1. disk' = [p \in DOMAIN disk |-> IF p[1] = o.torrent THEN "none" ELSE disk[p]]
      BY <2>2 DEF RunPieceOp
    <3> QED BY <3>1 DEF StoreTypes
  <2> QED BY <2>1, <2>2
<1> QED BY <1>1, <1>2 DEF RunPieceOp, StoreTypes

\* Running a transaction on the sessions, and queueing more.
LEMMA RunSessionTypes ==
  ASSUME StoreTypes, NEW c, NEW more \in Seq(SessionOps), RunSessionOp(c, more),
         UNCHANGED pieceOps
  PROVE  StoreTypes'
<1> DEFINE o == Head(sessionOps)
<1>1. o \in SessionOps /\ sessionOps' \in Seq(SessionOps)
  BY DEF RunSessionOp, StoreTypes
<1>2. records' \in [Torrents -> Sessions \cup {None}]
  <2>1. CASE o.op = "put"
    <3>1. o.session \in Sessions /\ o.session.torrent \in Torrents
      BY <1>1, <2>1 DEF SessionOps, Sessions
    <3>2. records' = [records EXCEPT ![o.session.torrent] = o.session]
      BY <2>1 DEF RunSessionOp
    <3> QED BY <3>1, <3>2 DEF StoreTypes
  <2>2. CASE o.op = "delete"
    <3>1. records' = [records EXCEPT ![o.torrent] = None]
      BY <2>2 DEF RunSessionOp
    <3> QED BY <3>1 DEF StoreTypes
  <2>3. CASE o.op = "get"
    <3>1. records' = records
      BY <2>3 DEF RunSessionOp
    <3> QED BY <3>1 DEF StoreTypes
  <2> QED BY <1>1, <2>1, <2>2, <2>3 DEF SessionOps
<1> QED BY <1>1, <1>2 DEF RunSessionOp, StoreTypes

\* Pruning drops peers only.
LEMMA VerdictTypes ==
  ASSUME NEW w \in Workers,
         NEW verdict \in Prunes(w) \cup
           (IF "errors" \in events
            THEN {[wipeout |-> wipeout, peers |-> session.peers]} ELSE {})
  PROVE  verdict.peers \subseteq session.peers
<1>1. CASE verdict \in Prunes(w)
  <2>1. PICK failed :
          verdict = [wipeout |-> failed = asked[w],
                     peers |-> IF failed = asked[w] THEN session.peers
                               ELSE session.peers \ failed]
    BY <1>1 DEF Prunes
  <2> QED BY <2>1
<1>2. CASE verdict = [wipeout |-> wipeout, peers |-> session.peers]
  BY <1>2
<1> QED BY <1>1, <1>2

-----------------------------------------------------------------------------
(* Every variable keeps its type, as long as no torrent is loaded while a   *)
(* stopped pool drains.                                                     *)

\* Everything that runs has a session, and that its torrent.
Present ==
  /\ \/ Alive # {} \/ \E g \in Starts : starter[g] # "off"
     \/ announcing # "no" \/ links \/ clearer # "off" \/ saver # "off"
     => session # None
  /\ session # None \/ loader # "off" => meta # None

\* A round stores no more pieces than were asked for.
Counted ==
  \A w \in Asking :
    stored[w] + Cardinality(due[w]) + (IF pc[w] = "round" THEN 0 ELSE 1)
      <= Cardinality(batch[w])

TypeInv == /\ PoolInv /\ Present /\ Counted
           /\ StoreTypes /\ PageTypes /\ PoolTypes /\ WorkerTypes /\ RoundTypes

\* A set of pieces has at most NumPieces.
LEMMA PiecesAreFinite ==
  ASSUME NEW S \in SUBSET Pieces
  PROVE  IsFiniteSet(S) /\ Cardinality(S) \in 0 .. NumPieces
<1>1. IsFiniteSet(Pieces) /\ Cardinality(Pieces) = NumPieces
  BY StoreAssumption, FS_Interval DEF Pieces
<1>2. IsFiniteSet(S) /\ Cardinality(S) <= NumPieces
  BY <1>1, FS_Subset
<1> QED BY <1>2, StoreAssumption, FS_CardinalityType

\* Only loading, reloading and the announce's timer do anything without a
\* session.
LEMMA OthersHaveASession ==
  ASSUME Present,
         \/ \E w \in Workers : Worker(w) \/ Round(w)
         \/ AnnounceFails \/ AnnounceReply \/ AnnounceSaved \/ AnnounceRefused
         \/ Running \/ ClearedPieces \/ ClearedSession \/ SaveRead \/ SaveDeleted \/ SaveSaved
         \/ Clear \/ Save \/ \E g \in Starts : Start(g)
  PROVE  session # None /\ meta # None
<1>1. CASE \E w \in Workers : Worker(w) \/ Round(w)
  <2>1. Alive # {}
    BY <1>1 DEF Worker, Round, Alive, Request, HashDone, PieceStored, Saved, BackoffEnds,
                Refreshed, PieceRefused, SaveRefused, FrameArrives, RoundFails, RoundEnds
  <2> QED BY <2>1 DEF Present
<1>2. CASE Running
  BY <1>2 DEF Present, Running, Launch, PoolEnds
<1>3. CASE \/ AnnounceFails \/ AnnounceReply \/ AnnounceSaved \/ AnnounceRefused
  BY <1>3 DEF Present, AnnounceFails, AnnounceReply, AnnounceSaved, AnnounceRefused
<1>4. CASE \/ ClearedPieces \/ ClearedSession \/ SaveRead \/ SaveDeleted \/ SaveSaved
           \/ Clear \/ Save \/ \E g \in Starts : Start(g)
  BY <1>4 DEF Present, ClearedPieces, ClearedSession, SaveRead, SaveDeleted, SaveSaved,
              Clear, Save, Start
<1> QED BY <1>1, <1>2, <1>3, <1>4

\* The counters of the workers.
LEMMA CountersTyped ==
  ASSUME TypeInv, PoolInv', [Next]_vars
  PROVE  WorkerTypes'
<1> DEFINE Ok == idle' \in [Workers -> 0 .. 3] /\ size' \in [Workers -> MinBatch .. MaxBatch]
<1> SUFFICES Ok
  BY DEF WorkerTypes, PoolInv, Shape
<1>1. StartBatch \in MinBatch .. MaxBatch /\ 0 \in 0 .. 3
  BY PoolAssumption
<1>2. \A w \in Workers : Smaller(3, idle[w] + 1) \in 0 .. 3
  BY DEF TypeInv, WorkerTypes, Smaller
<1>3. \A w \in Workers : NextSizes(w) \subseteq MinBatch .. MaxBatch
  <2> SUFFICES ASSUME NEW w \in Workers PROVE NextSizes(w) \subseteq MinBatch .. MaxBatch
    OBVIOUS
  <2>1. size[w] \in MinBatch .. MaxBatch /\ MinBatch \in Nat \ {0} /\ MaxBatch \in Nat
    BY PoolAssumption DEF TypeInv, WorkerTypes
  <2>2. Smaller(MaxBatch, 2 * size[w]) \in MinBatch .. MaxBatch
    BY <2>1 DEF Smaller
  <2>3. Larger(MinBatch, size[w] \div 2) \in MinBatch .. MaxBatch
    BY <2>1 DEF Larger
  <2> QED BY <2>1, <2>2, <2>3 DEF NextSizes
<1>4. ASSUME NEW w \in Workers, Exit(w) PROVE Ok
  BY <1>1, <1>4 DEF Exit, TypeInv, WorkerTypes
<1>5. ASSUME NEW w \in Workers, RoundError(w) PROVE Ok
  BY <1>2, <1>5 DEF RoundError, TypeInv, WorkerTypes
<1>6. ASSUME NEW w \in Workers, NEW i \in 0 .. 3, NEW s \in MinBatch .. MaxBatch,
             Boundary(w, i, s)
      PROVE  Ok
  <2>1. \E a \in 0 .. 3, b \in MinBatch .. MaxBatch :
          idle' = [idle EXCEPT ![w] = a] /\ size' = [size EXCEPT ![w] = b]
    BY <1>1, <1>6 DEF Boundary
  <2> QED BY <2>1 DEF TypeInv, WorkerTypes
<1>7. CASE \E w \in Workers : Worker(w) \/ Round(w)
  <2>1. PICK w \in Workers : Worker(w) \/ Round(w)
    BY <1>7
  <2>2. CASE Request(w)
    BY <2>2, <1>4 DEF Request, TypeInv, WorkerTypes
  <2>3. CASE Saved(w)
    <3>1. PICK n \in NextSizes(w) :
             IF stored[w] # 0 THEN Boundary(w, 0, n)
             ELSE /\ idle' = [idle EXCEPT ![w] = Smaller(3, @ + 1)]
                  /\ size' = [size EXCEPT ![w] = n]
      BY <2>3 DEF Saved
    <3>2. n \in MinBatch .. MaxBatch
      BY <1>3
    <3>3. CASE stored[w] # 0
      BY <1>1, <1>6, <3>1, <3>2, <3>3
    <3>4. CASE stored[w] = 0
      BY <1>2, <3>1, <3>2, <3>4 DEF TypeInv, WorkerTypes
    <3> QED BY <3>3, <3>4
  <2>4. CASE BackoffEnds(w)
    BY <2>4, <1>6 DEF BackoffEnds, TypeInv, WorkerTypes
  <2>5. CASE Refreshed(w)
    BY <2>5, <1>6 DEF Refreshed, TypeInv, WorkerTypes
  <2>6. CASE SaveRefused(w)
    BY <2>6, <1>4 DEF SaveRefused
  <2>7. CASE RoundFails(w) \/ PieceRefused(w)
    BY <2>7, <1>5 DEF RoundFails, PieceRefused
  <2>8. CASE HashDone(w) \/ PieceStored(w) \/ RoundEnds(w)
             \/ \E i \in Pieces, bytes \in {"good", "bad"} : FrameArrives(w, i, bytes)
    BY <2>8 DEF HashDone, PieceStored, RoundEnds, FrameArrives, TypeInv, WorkerTypes
  <2> QED BY <2>1, <2>2, <2>3, <2>4, <2>5, <2>6, <2>7, <2>8 DEF Worker, Round
<1>8. CASE AnnounceRefused
  BY <1>1, <1>8 DEF AnnounceRefused, TypeInv, WorkerTypes
<1>9. CASE Reload
  BY <1>1, <1>9 DEF Reload
<1>10. CASE UNCHANGED <<idle, size>>
  BY <1>10 DEF TypeInv, WorkerTypes
<1>11. CASE \/ AnnounceFails \/ AnnounceReply \/ AnnounceSaved \/ CoolingEnds \/ Running
            \/ UserOps \/ Stop \/ Clear \/ Save \/ UNCHANGED vars
            \/ (\E g \in Starts : Start(g)) \/ (\E t \in Torrents : Load(t))
  BY <1>10, <1>11
  DEF AnnounceFails, AnnounceOver, AnnounceReply, AnnounceSaved, CoolingEnds, Running, Launch,
      PoolEnds, UserOps, LoadRead, LoadSaved, LoadRefused, ClearedPieces, ClearedSession,
      SaveRead, SaveDeleted, SaveSaved, Stop, Clear, Save, vars, workerVars, Start, Load
<1> QED BY <1>7, <1>8, <1>9, <1>11 DEF Next, Announcing, User

\* The globals of the pool and of the announce.
LEMMA GlobalsTyped ==
  ASSUME TypeInv, PoolInv', [Next]_vars
  PROVE  PoolTypes'
<1> DEFINE Ok == /\ autoScale' \in BOOLEAN /\ wipeout' \in BOOLEAN
                 /\ claimed' \subseteq Pieces
           Asks == cooling' \in BOOLEAN /\ announcing' \in {"no", "asking", "saving"}
<1>1. active' \in 0 .. MaxWorkers
  <2>1. active' = Cardinality(Alive') /\ active' <= MaxWorkers
    BY DEF PoolInv, ActiveIsExact
  <2>2. IsFiniteSet(Alive')
    BY PoolAssumption, FS_Subset DEF Alive
  <2> QED BY <2>1, <2>2, FS_CardinalityType, PoolAssumption
<1> SUFFICES Ok /\ Asks
  BY <1>1 DEF PoolTypes, PoolInv, Shape
<1>2. ASSUME Ensure PROVE Asks
  BY <1>2 DEF Ensure, TypeInv, PoolTypes
<1>3. ASSUME UNCHANGED peerVars PROVE Asks
  BY <1>3 DEF peerVars, TypeInv, PoolTypes
<1>4. ASSUME UNCHANGED <<autoScale, wipeout, claimed>> PROVE Ok
  BY <1>4 DEF TypeInv, PoolTypes
<1>5. CASE \E w \in Workers : Worker(w) \/ Round(w)
  <2>1. PICK w \in Workers : Worker(w) \/ Round(w)
    BY <1>5
  <2>2. CASE Request(w)
    <3>1. First(Claimable, size[w]) \subseteq Pieces
      BY DEF First, Claimable, Missing
    <3>2. Ok
      BY <2>2, <3>1 DEF Request, TypeInv, PoolTypes
    <3> QED BY <2>2, <3>2, <1>3 DEF Request
  <2>3. CASE HashDone(w) \/ PieceStored(w)
             \/ \E i \in Pieces, bytes \in {"good", "bad"} : FrameArrives(w, i, bytes)
    BY <2>3, <1>3, <1>4 DEF HashDone, PieceStored, FrameArrives, poolVars
  <2>4. CASE RoundFails(w) \/ PieceRefused(w)
    <3>1. Ok
      BY <2>4 DEF RoundFails, PieceRefused, RoundError, Release, TypeInv, PoolTypes
    <3> QED BY <2>4, <3>1, <1>3 DEF RoundFails, PieceRefused, RoundError
  <2>5. CASE RoundEnds(w)
    <3>1. PICK verdict \in Prunes(w) \cup
                 (IF "errors" \in events
                  THEN {[wipeout |-> wipeout, peers |-> session.peers]} ELSE {}) :
            wipeout' = verdict.wipeout
      BY <2>5 DEF RoundEnds
    <3>2. wipeout \in BOOLEAN
      BY DEF TypeInv, PoolTypes
    <3>3. verdict.wipeout \in BOOLEAN
      <4>1. CASE verdict \in Prunes(w)
        <5>1. PICK failed :
                verdict = [wipeout |-> failed = asked[w],
                           peers |-> IF failed = asked[w] THEN session.peers
                                     ELSE session.peers \ failed]
          BY <4>1 DEF Prunes
        <5> QED BY <5>1
      <4>2. CASE verdict = [wipeout |-> wipeout, peers |-> session.peers]
        BY <3>2, <4>2
      <4> QED BY <3>1, <4>1, <4>2
    <3>4. claimed' \subseteq Pieces /\ UNCHANGED autoScale
      BY <2>5 DEF RoundEnds, Release, TypeInv, PoolTypes
    <3>5. Ok
      BY <3>1, <3>3, <3>4 DEF TypeInv, PoolTypes
    <3> QED BY <2>5, <3>5, <1>3 DEF RoundEnds
  <2>6. CASE Saved(w) \/ BackoffEnds(w) \/ Refreshed(w) \/ SaveRefused(w)
    <3>1. Ensure \/ UNCHANGED peerVars
      BY <2>6 DEF Saved, BackoffEnds, Refreshed, SaveRefused, Boundary
    <3>2. UNCHANGED <<autoScale, wipeout, claimed>>
      BY <2>6 DEF Saved, BackoffEnds, Refreshed, SaveRefused
    <3> QED BY <3>1, <3>2, <1>2, <1>3, <1>4
  <2> QED BY <2>1, <2>2, <2>3, <2>4, <2>5, <2>6 DEF Worker, Round
<1>6. CASE Announcing
  <2>1. UNCHANGED <<autoScale, wipeout, claimed>>
    BY <1>6 DEF Announcing, AnnounceFails, AnnounceSaved, AnnounceOver, AnnounceReply,
                AnnounceRefused, CoolingEnds, poolVars
  <2>2. announcing' \in {"no", "saving"} \/ UNCHANGED announcing
    BY <1>6 DEF Announcing, AnnounceFails, AnnounceSaved, AnnounceOver, AnnounceReply,
                AnnounceRefused, CoolingEnds
  <2>3. cooling' \in BOOLEAN \/ UNCHANGED cooling
    BY <1>6 DEF Announcing, AnnounceFails, AnnounceSaved, AnnounceOver, AnnounceReply,
                AnnounceRefused, CoolingEnds
  <2> QED BY <2>1, <2>2, <2>3, <1>4 DEF TypeInv, PoolTypes
<1>7. CASE \E g \in Starts : Start(g)
  <2>1. Ok
    BY <1>7 DEF Start, TypeInv, PoolTypes
  <2> QED BY <1>7, <2>1, <1>2 DEF Start
<1>8. CASE Running
  BY <1>8, <1>2, <1>3, <1>4 DEF Running, Launch, PoolEnds, poolVars
<1>9. CASE Reload
  BY <1>9 DEF Reload
<1>10. CASE \/ UserOps \/ Stop \/ Clear \/ Save \/ UNCHANGED vars
            \/ (\E t \in Torrents : Load(t))
  <2>1. UNCHANGED <<poolVars, peerVars>>
    BY <1>10
    DEF UserOps, LoadRead, LoadSaved, LoadRefused, ClearedPieces, ClearedSession,
        SaveRead, SaveDeleted, SaveSaved, Stop, Clear, Save, vars, Load
  <2> QED BY <2>1, <1>3, <1>4 DEF poolVars
<1> QED BY <1>5, <1>6, <1>7, <1>8, <1>9, <1>10 DEF Next, User

\* Where a worker that asks is the same as before, so is what its round counts.
LEMMA CountsStay ==
  ASSUME TypeInv,
         \A v \in Workers : pc'[v] \in {"round", "hashing", "storing"} =>
           pc'[v] = pc[v] /\ stored'[v] = stored[v] /\ due'[v] = due[v] /\ batch'[v] = batch[v]
  PROVE  Counted'
<1>1. ASSUME NEW v \in Asking'
      PROVE  /\ v \in Asking /\ pc'[v] = pc[v] /\ stored'[v] = stored[v]
             /\ due'[v] = due[v] /\ batch'[v] = batch[v]
  BY <1>1 DEF Asking
<1> QED BY <1>1 DEF TypeInv, Counted

\* The rounds.
LEMMA RoundsTyped ==
  ASSUME TypeInv, PoolInv', [Next]_vars
  PROVE  RoundTypes' /\ Counted'
<1>1. /\ RoundTypes /\ Counted /\ Shape /\ Shape'
      /\ None \notin Torrents /\ {} \in SUBSET Pieces /\ 0 \in 0 .. NumPieces
      /\ NoFrame \in Frames
  BY StoreAssumption DEF TypeInv, PoolInv, NoFrame, Frames, Pieces
<1>2. ASSUME NEW w \in Workers, Request(w) PROVE RoundTypes' /\ Counted'
  <2> DEFINE want == First(Claimable, size[w])
  <2>1. CASE want = {} \/ session.peers = {}
    <3>1. UNCHANGED roundVars /\ Goes(w, "off")
      BY <1>2, <2>1 DEF Request, Exit
    <3>2. RoundTypes'
      BY <1>1, <3>1 DEF RoundTypes, roundVars
    <3>3. Counted'
      BY <1>1, <3>1, CountsStay DEF Goes, roundVars, Shape
    <3> QED BY <3>2, <3>3
  <2>2. CASE ~(want = {} \/ session.peers = {})
    <3>1. want \in SUBSET Pieces
      BY DEF First, Claimable, Missing
    <3>2. PeersForWorker \subseteq SUBSET Addresses
      <4>1. session # None
        BY <1>2, OthersHaveASession DEF TypeInv, Worker
      <4>2. session.peers \subseteq Addresses
        BY <4>1 DEF TypeInv, PageTypes, Sessions
      <4> QED BY <4>2 DEF PeersForWorker
    <3>3. meta \in Torrents \cup {None}
      BY DEF TypeInv, PageTypes
    <3>4. /\ Goes(w, "round") /\ batch' = [batch EXCEPT ![w] = want]
          /\ due' = [due EXCEPT ![w] = want]
          /\ \E mine \in PeersForWorker : asked' = [asked EXCEPT ![w] = mine]
          /\ of' = [of EXCEPT ![w] = meta]
          /\ stored' = [stored EXCEPT ![w] = 0]
          /\ UNCHANGED frame
      BY <1>2, <2>2 DEF Request
    <3> HIDE DEF want
    <3>5. RoundTypes'
      BY <1>1, <3>1, <3>2, <3>3, <3>4 DEF RoundTypes
    <3>6. ASSUME NEW v \in Asking'
          PROVE  stored'[v] + Cardinality(due'[v]) + (IF pc'[v] = "round" THEN 0 ELSE 1)
                   <= Cardinality(batch'[v])
      <4>1. CASE v = w
        <5>1. pc'[v] = "round" /\ stored'[v] = 0 /\ due'[v] = want /\ batch'[v] = want
          BY <1>1, <3>4, <4>1 DEF Goes, Shape, RoundTypes
        <5>2. Cardinality(want) \in Nat
          BY <3>1, PiecesAreFinite
        <5> QED BY <5>1, <5>2
      <4>2. CASE v # w
        <5>1. v \in Asking /\ pc'[v] = pc[v] /\ stored'[v] = stored[v]
              /\ due'[v] = due[v] /\ batch'[v] = batch[v]
          BY <1>1, <3>4, <4>2 DEF Asking, Goes, Shape, RoundTypes
        <5> QED BY <1>1, <5>1 DEF Counted
      <4> QED BY <4>1, <4>2
    <3> QED BY <3>5, <3>6 DEF Counted
  <2> QED BY <2>1, <2>2
<1>3. ASSUME NEW w \in Workers, w \in Asking,
             NEW k \in {"round", "hashing", "storing"}, Goes(w, k), UNCHANGED <<asked, of, batch>>,
             frame' \in [Workers -> Frames],
             due' \in [Workers -> SUBSET Pieces],
             stored' = stored \/ stored' = [stored EXCEPT ![w] = @ + 1],
             \A v \in Workers \ {w} : due'[v] = due[v],
             stored'[w] + Cardinality(due'[w]) + (IF k = "round" THEN 0 ELSE 1)
               <= stored[w] + Cardinality(due[w]) + (IF pc[w] = "round" THEN 0 ELSE 1)
      PROVE  RoundTypes' /\ Counted'
  <2>1. /\ pc'[w] = k /\ \A v \in Workers \ {w} : pc'[v] = pc[v] /\ stored'[v] = stored[v]
        /\ stored[w] \in 0 .. NumPieces /\ stored'[w] \in Nat
    BY <1>1, <1>3 DEF Goes, Shape, RoundTypes
  <2>2. Cardinality(due[w]) \in Nat /\ Cardinality(due'[w]) \in Nat
        /\ Cardinality(batch[w]) \in 0 .. NumPieces
    BY <1>1, <1>3, PiecesAreFinite DEF RoundTypes
  <2>3. stored'[w] + Cardinality(due'[w]) + (IF k = "round" THEN 0 ELSE 1)
          <= Cardinality(batch[w])
    BY <1>1, <1>3, <2>1, <2>2 DEF Counted
  <2>4. stored'[w] \in 0 .. NumPieces
    BY <2>1, <2>2, <2>3, StoreAssumption
  <2>5. stored' \in [Workers -> 0 .. NumPieces]
    BY <1>1, <1>3, <2>4 DEF RoundTypes
  <2>6. RoundTypes'
    BY <1>1, <1>3, <2>5 DEF RoundTypes
  <2>7. Counted'
    <3>1. ASSUME NEW v \in Asking'
          PROVE  stored'[v] + Cardinality(due'[v]) + (IF pc'[v] = "round" THEN 0 ELSE 1)
                   <= Cardinality(batch'[v])
      <4>1. CASE v = w
        BY <1>3, <2>1, <2>3, <4>1
      <4>2. CASE v # w
        BY <1>1, <1>3, <2>1, <4>2 DEF Asking, Counted
      <4> QED BY <4>1, <4>2
    <3> QED BY <3>1 DEF Counted
  <2> QED BY <2>6, <2>7
<1>4. ASSUME NEW w \in Workers, NEW i \in Pieces, NEW bytes \in {"good", "bad"},
             FrameArrives(w, i, bytes)
      PROVE  RoundTypes' /\ Counted'
  <2>1. /\ w \in Asking /\ pc[w] = "round" /\ i \in due[w] /\ Goes(w, "hashing")
        /\ due' = [due EXCEPT ![w] = due[w] \ {i}] /\ UNCHANGED <<asked, of, batch, stored>>
    BY <1>4 DEF FrameArrives, Asking
  <2>2. frame' \in [Workers -> Frames]
    BY <1>1, <1>4 DEF FrameArrives, RoundTypes, Frames
  <2>3. due' \in [Workers -> SUBSET Pieces] /\ due'[w] = due[w] \ {i}
    BY <1>1, <2>1 DEF RoundTypes
  <2>4. Cardinality(due[w] \ {i}) = Cardinality(due[w]) - 1 /\ Cardinality(due[w]) \in Nat
    BY <1>1, <2>1, PiecesAreFinite, FS_RemoveElement DEF RoundTypes
  <2>5. stored[w] \in Nat
    BY <1>1 DEF RoundTypes
  <2> QED BY <1>1, <1>3, <2>1, <2>2, <2>3, <2>4, <2>5 DEF RoundTypes
<1>5. ASSUME NEW w \in Workers, HashDone(w)
      PROVE  RoundTypes' /\ Counted'
  <2>1. w \in Asking /\ pc[w] = "hashing" /\ UNCHANGED <<asked, of, batch, due, stored>>
    BY <1>5 DEF HashDone, Asking
  <2>2. Goes(w, "storing") \/ Goes(w, "round")
    BY <1>5 DEF HashDone
  <2>3. frame' \in [Workers -> Frames]
    BY <1>1, <1>5 DEF HashDone, Unframed, RoundTypes
  <2>4. stored[w] \in Nat /\ Cardinality(due[w]) \in Nat
    BY <1>1, PiecesAreFinite DEF RoundTypes
  <2> QED BY <1>1, <1>3, <2>1, <2>2, <2>3, <2>4 DEF RoundTypes
<1>6. ASSUME NEW w \in Workers, PieceStored(w)
      PROVE  RoundTypes' /\ Counted'
  <2>1. /\ w \in Asking /\ pc[w] = "storing" /\ Goes(w, "round")
        /\ stored' = [stored EXCEPT ![w] = @ + 1] /\ UNCHANGED <<asked, of, batch, due>>
    BY <1>6 DEF PieceStored, Asking
  <2>2. frame' \in [Workers -> Frames]
    BY <1>1, <1>6 DEF PieceStored, Unframed, RoundTypes
  <2>3. stored[w] \in Nat /\ stored'[w] = stored[w] + 1 /\ Cardinality(due[w]) \in Nat
    BY <1>1, <2>1, PiecesAreFinite DEF RoundTypes
  <2>4. stored'[w] + Cardinality(due'[w]) + 0 <= stored[w] + Cardinality(due[w]) + 1
    BY <2>1, <2>3
  <2>5. due' \in [Workers -> SUBSET Pieces] /\ \A v \in Workers \ {w} : due'[v] = due[v]
    BY <1>1, <2>1 DEF RoundTypes
  <2> QED BY <1>3, <2>1, <2>2, <2>4, <2>5
<1>7. ASSUME NEW w \in Workers, RoundFails(w) \/ PieceRefused(w) \/ RoundEnds(w)
      PROVE  RoundTypes' /\ Counted'
  <2>1. /\ Goes(w, "backoff") \/ Goes(w, "saving")
        /\ batch' = [batch EXCEPT ![w] = {}] \/ UNCHANGED batch
        /\ stored' = [stored EXCEPT ![w] = 0] \/ UNCHANGED stored
        /\ Responded(w)
        /\ Unframed(w) \/ UNCHANGED frame
    BY <1>7 DEF RoundFails, PieceRefused, RoundEnds, RoundError
  <2>2. RoundTypes'
    BY <1>1, <2>1 DEF Responded, Unframed, RoundTypes
  <2>3. \A v \in Workers : pc'[v] \in {"round", "hashing", "storing"} =>
          pc'[v] = pc[v] /\ stored'[v] = stored[v] /\ due'[v] = due[v] /\ batch'[v] = batch[v]
    BY <1>1, <2>1 DEF Goes, Responded, Shape, RoundTypes
  <2> QED BY <2>2, <2>3, CountsStay
<1>8. ASSUME NEW w \in Workers,
             Saved(w) \/ BackoffEnds(w) \/ Refreshed(w) \/ SaveRefused(w)
      PROVE  RoundTypes' /\ Counted'
  <2>1. /\ batch' = [batch EXCEPT ![w] = {}] \/ UNCHANGED batch
        /\ stored' = [stored EXCEPT ![w] = 0] \/ UNCHANGED stored
        /\ UNCHANGED <<asked, of, due, frame>>
    BY <1>8 DEF Saved, BackoffEnds, Refreshed, SaveRefused, roundVars
  <2>2. RoundTypes'
    BY <1>1, <2>1 DEF RoundTypes
  <2>3. \A v \in Workers : pc'[v] \in {"round", "hashing", "storing"} => v # w /\ pc'[v] = pc[v]
    <3>1. pc[w] \notin {"round", "hashing", "storing"}
      BY <1>8 DEF Saved, BackoffEnds, Refreshed, SaveRefused
    <3>2. CASE \E k \in {"off", "backoff", "refreshing"} : Goes(w, k)
      BY <1>1, <3>2 DEF Goes, Shape
    <3>3. CASE \E i, s : Boundary(w, i, s)
      <4>1. \A v \in Workers : pc'[v] \in {AfterEnsure, "off"} \/ (v # w /\ pc'[v] = pc[v])
        BY <3>3 DEF Boundary
      <4> QED BY <4>1 DEF AfterEnsure
    <3> QED BY <1>8, <3>2, <3>3 DEF Saved, BackoffEnds, Refreshed, SaveRefused, Exit
  <2>4. \A v \in Workers : pc'[v] \in {"round", "hashing", "storing"} =>
          pc'[v] = pc[v] /\ stored'[v] = stored[v] /\ due'[v] = due[v] /\ batch'[v] = batch[v]
    BY <1>1, <2>1, <2>3 DEF RoundTypes
  <2> QED BY <2>2, <2>4, CountsStay
<1>9. CASE Reload
  <2>1. RoundTypes'
    BY <1>1, <1>9 DEF Reload, RoundTypes
  <2>2. Asking' = {}
    BY <1>9 DEF Reload, Asking
  <2> QED BY <2>1, <2>2 DEF Counted
<1>10. ASSUME UNCHANGED roundVars,
              \A v \in Workers : pc'[v] \in {"round", "hashing", "storing"} => pc'[v] = pc[v]
       PROVE  RoundTypes' /\ Counted'
  <2>1. RoundTypes'
    BY <1>1, <1>10 DEF RoundTypes, roundVars
  <2>2. Counted'
    BY <1>10, CountsStay DEF roundVars
  <2> QED BY <2>1, <2>2
<1>11. CASE AnnounceFails \/ AnnounceSaved \/ AnnounceRefused
  BY <1>10, <1>11 DEF AnnounceFails, AnnounceSaved, AnnounceOver, AnnounceRefused
<1>12. CASE Running
  BY <1>10, <1>12
  DEF Running, Launch, PoolEnds, AfterEnsure, workerVars
<1>13. CASE \/ AnnounceReply \/ CoolingEnds \/ UserOps \/ Stop \/ Clear \/ Save
            \/ UNCHANGED vars
            \/ (\E g \in Starts : Start(g)) \/ (\E t \in Torrents : Load(t))
  <2>1. UNCHANGED workerVars
    BY <1>13
    DEF AnnounceReply, CoolingEnds, UserOps, LoadRead, LoadSaved, LoadRefused, ClearedPieces,
        ClearedSession, SaveRead, SaveDeleted, SaveSaved, Stop, Clear, Save, vars, Start, Load
  <2> QED BY <2>1, <1>10 DEF workerVars
<1> QED BY <1>2, <1>4, <1>5, <1>6, <1>7, <1>8, <1>9, <1>11, <1>12, <1>13
        DEF Next, Worker, Round, Announcing, User

\* The store, and the session in memory.
LEMMA StoreTyped ==
  ASSUME TypeInv, [Next]_vars
  PROVE  StoreTypes' /\ (session' \in Sessions \/ UNCHANGED session \/ Reload)
<1> DEFINE Ok == StoreTypes' /\ (session' \in Sessions \/ UNCHANGED session \/ Reload)
<1>1. /\ StoreTypes /\ RoundTypes
      /\ session # None => session \in Sessions /\ session.torrent \in Torrents
                           /\ session.bits \subseteq Pieces /\ session.peers \subseteq Addresses
      /\ meta # None => meta \in Torrents
      /\ Workers \subseteq Clients /\ {"announce", "load", "clear", "save"} \subseteq Clients
      /\ <<>> \in Seq(SessionOps)
  BY DEF TypeInv, PageTypes, Sessions, Clients
<1>2. ASSUME session # None, NEW c \in Clients, NEW P \in SUBSET Addresses,
             session' = [session EXCEPT !.peers = P],
             PutSession(c, [session EXCEPT !.peers = P]), UNCHANGED <<disk, records, pieceOps>>
      PROVE  Ok
  <2>1. [session EXCEPT !.peers = P] \in Sessions
    BY <1>1, <1>2, SessionParts
  <2> QED BY <1>1, <1>2, <2>1, PutSessionTypes
<1>3. ASSUME NEW c, RunSessionOp(c, <<>>), UNCHANGED pieceOps PROVE StoreTypes'
  BY <1>1, <1>3, RunSessionTypes
<1>4. ASSUME NEW c, RefuseSessionOp(c), UNCHANGED pieceOps PROVE StoreTypes'
  BY <1>1, <1>4 DEF RefuseSessionOp, StoreTypes
<1>5. ASSUME NEW c \in Clients, NEW t \in Torrents, DeleteAllPieces(c, t),
             UNCHANGED <<disk, records, sessionOps>>
      PROVE  StoreTypes'
  <2>1. [by |-> c, op |-> "delete", torrent |-> t] \in PieceOps
    BY DEF PieceOps
  <2> QED BY <1>1, <1>5, <2>1 DEF DeleteAllPieces, StoreTypes
<1>6. CASE \E w \in Workers : Worker(w) \/ Round(w)
  <2>1. PICK w \in Workers : Worker(w) \/ Round(w)
    BY <1>6
  <2>2. session # None /\ meta # None
    BY <2>1, OthersHaveASession DEF TypeInv
  <2>3. CASE HashDone(w)
    <3> DEFINE o == [by |-> w, op |-> "put", torrent |-> meta, index |-> frame[w].index,
                     bytes |-> BytesFor(w, meta)]
    <3>1. frame[w].index \in Pieces /\ BytesFor(w, meta) \in {"good", "bad"}
      BY <1>1 DEF RoundTypes, Frames, BytesFor
    <3>2. o \in PieceOps
      BY <1>1, <2>2, <3>1 DEF PieceOps
    <3>3. pieceOps' = Append(pieceOps, o) \/ UNCHANGED pieceOps
      BY <2>3 DEF HashDone, PutPiece
    <3>4. UNCHANGED <<disk, records, sessionOps, session>>
      BY <2>3 DEF HashDone, pageVars
    <3> HIDE DEF o
    <3> QED BY <1>1, <3>2, <3>3, <3>4 DEF StoreTypes
  <2>4. CASE PieceStored(w)
    <3>1. RunPieceOp(w) /\ UNCHANGED sessionOps
          /\ session' = [session EXCEPT !.bits = session.bits \cup {frame[w].index}]
      BY <2>4 DEF PieceStored
    <3>2. StoreTypes'
      BY <1>1, <3>1, RunPieceTypes DEF StoreTypes
    <3>3. session.bits \cup {frame[w].index} \in SUBSET Pieces
      BY <1>1, <2>2 DEF RoundTypes, Frames
    <3>4. session' \in Sessions
      BY <1>1, <2>2, <3>1, <3>3, SessionParts
    <3> QED BY <3>2, <3>4
  <2>5. CASE PieceRefused(w)
    BY <1>1, <2>5 DEF PieceRefused, RefusePieceOp, RoundError, StoreTypes, pageVars
  <2>6. CASE RoundEnds(w)
    <3>1. PICK verdict \in Prunes(w) \cup
                 (IF "errors" \in events
                  THEN {[wipeout |-> wipeout, peers |-> session.peers]} ELSE {}),
               pex \in SUBSET Addresses :
            \E peers \in Merges(verdict.peers, pex) :
              /\ session' = [session EXCEPT !.peers = peers]
              /\ PutSession(w, [session EXCEPT !.peers = peers])
      BY <2>6 DEF RoundEnds
    <3>2. verdict.peers \subseteq session.peers
      BY <3>1, VerdictTypes
    <3>3. Merges(verdict.peers, pex) \subseteq SUBSET Addresses
      BY <1>1, <2>2, <3>2, MergesTypes
    <3>4. UNCHANGED <<disk, records, pieceOps>>
      BY <2>6 DEF RoundEnds
    <3> QED BY <1>1, <1>2, <2>2, <3>1, <3>3, <3>4
  <2>7. CASE BackoffEnds(w)
    <3>1. UNCHANGED <<disk, records, pieceOps>>
      BY <2>7 DEF BackoffEnds
    <3>2. CASE session' = [session EXCEPT !.peers = {}]
               /\ PutSession(w, [session EXCEPT !.peers = {}])
      BY <1>1, <1>2, <2>2, <3>1, <3>2
    <3>3. CASE UNCHANGED <<sessionOps, session>>
      BY <1>1, <3>1, <3>3 DEF StoreTypes
    <3> QED BY <2>7, <3>2, <3>3 DEF BackoffEnds
  <2>8. CASE Saved(w) \/ Refreshed(w)
    BY <2>8, <1>3 DEF Saved, Refreshed, pageVars
  <2>9. CASE SaveRefused(w)
    BY <2>9, <1>4 DEF SaveRefused, pageVars
  <2>10. CASE Request(w) \/ RoundFails(w)
              \/ \E i \in Pieces, bytes \in {"good", "bad"} : FrameArrives(w, i, bytes)
    <3>1. UNCHANGED <<disk, records, pieceOps, sessionOps, session>>
      BY <2>10 DEF Request, RoundFails, RoundError, FrameArrives, storeVars, pageVars
    <3> QED BY <1>1, <3>1 DEF StoreTypes
  <2> QED BY <2>1, <2>3, <2>4, <2>5, <2>6, <2>7, <2>8, <2>9, <2>10 DEF Worker, Round
<1>7. CASE AnnounceReply
  <2>1. session # None
    BY <1>7, OthersHaveASession DEF TypeInv
  <2>2. PICK new \in SUBSET Addresses :
          \E peers \in Merges(session.peers, new) :
            /\ session' = [session EXCEPT !.peers = peers]
            /\ PutSession("announce", [session EXCEPT !.peers = peers])
    BY <1>7 DEF AnnounceReply
  <2>3. Merges(session.peers, new) \subseteq SUBSET Addresses
    BY <1>1, <2>1, MergesTypes
  <2>4. UNCHANGED <<disk, records, pieceOps>>
    BY <1>7 DEF AnnounceReply
  <2> QED BY <1>1, <1>2, <2>1, <2>2, <2>3, <2>4
<1>8. CASE AnnounceSaved
  BY <1>8, <1>3 DEF AnnounceSaved, AnnounceOver, pageVars
<1>9. CASE AnnounceRefused
  BY <1>9, <1>4 DEF AnnounceRefused, pageVars
<1>10. CASE LoadRead
  <2>1. meta \in Torrents
    BY <1>1, <1>10 DEF LoadRead, TypeInv, Present
  <2>2. Loaded(meta) \in Sessions
    BY <1>1, <2>1, NewSessions DEF Loaded, StoreTypes
  <2>3. PICK seed \in SUBSET Addresses, peers \in SUBSET Addresses :
          LET s == [Loaded(meta) EXCEPT !.peers = peers] IN
          session' = s /\ RunSessionOp("load", <<Put("load", s)>>)
    <3>1. PICK seed \in SUBSET Addresses :
            \E peers \in Merges(Loaded(meta).peers, seed) :
              LET s == [Loaded(meta) EXCEPT !.peers = peers] IN
              session' = s /\ RunSessionOp("load", <<Put("load", s)>>)
      BY <1>10 DEF LoadRead
    <3>2. Merges(Loaded(meta).peers, seed) \subseteq SUBSET Addresses
      <4>1. Loaded(meta).peers \subseteq Addresses
        BY <2>2 DEF Sessions
      <4> QED BY <4>1, MergesTypes
    <3> QED BY <3>1, <3>2
  <2> DEFINE s == [Loaded(meta) EXCEPT !.peers = peers]
  <2>4. s \in Sessions
    BY <2>2, SessionParts
  <2>5. <<Put("load", s)>> \in Seq(SessionOps)
    <3> HIDE DEF s
    <3>1. Put("load", s) \in SessionOps
      BY <1>1, <2>4 DEF Put, SessionOps
    <3> QED BY <3>1
  <2>6. UNCHANGED pieceOps
    BY <1>10 DEF LoadRead
  <2>7. session' = s /\ RunSessionOp("load", <<Put("load", s)>>)
    BY <2>3
  <2> HIDE DEF s
  <2> QED BY <1>1, <2>4, <2>5, <2>6, <2>7, RunSessionTypes
<1>11. CASE LoadSaved \/ SaveSaved
  BY <1>11, <1>3 DEF LoadSaved, SaveSaved, pageVars
<1>12. CASE LoadRefused
  BY <1>12, <1>4 DEF LoadRefused, pageVars
<1>13. CASE ClearedSession
  <2>1. session # None
    BY <1>13, OthersHaveASession DEF TypeInv
  <2>2. session' \in Sessions
    BY <1>1, <1>13, <2>1, NewSessions DEF ClearedSession
  <2> QED BY <1>13, <1>3, <2>2 DEF ClearedSession
<1>14. CASE Clear
  <2>1. session # None
    BY <1>14, OthersHaveASession DEF TypeInv
  <2>2. DeleteAllPieces("clear", session.torrent)
        /\ UNCHANGED <<disk, records, sessionOps, session>>
    BY <1>14 DEF Clear
  <2> QED BY <1>1, <1>5, <2>1, <2>2
<1>15. CASE ClearedPieces
  <2> DEFINE t == Head(pieceOps).torrent
             o == [by |-> "clear", op |-> "delete", torrent |-> t]
  <2>1. RunPieceOp("clear") /\ sessionOps' = Append(sessionOps, o) /\ UNCHANGED session
    BY <1>15 DEF ClearedPieces, DeleteSession, pageVars
  <2>2. t \in Torrents
    BY <1>1, <2>1, RunPieceTypes DEF PieceOps
  <2> HIDE DEF t
  <2>3. o \in SessionOps
    BY <1>1, <2>2 DEF SessionOps
  <2> HIDE DEF o
  <2> QED BY <1>1, <2>1, <2>3, RunPieceTypes DEF StoreTypes
<1>16. CASE SaveRead
  <2>1. meta \in Torrents /\ UNCHANGED <<disk, records, sessionOps, session>>
    BY <1>1, <1>16, OthersHaveASession DEF TypeInv, SaveRead
  <2>2. CASE DeleteAllPieces("save", meta)
    BY <1>1, <1>5, <2>1, <2>2
  <2>3. CASE UNCHANGED pieceOps
    BY <1>1, <2>1, <2>3 DEF StoreTypes
  <2> QED BY <1>16, <2>2, <2>3 DEF SaveRead
<1>17. CASE SaveDeleted
  <2> DEFINE s == [session EXCEPT !.bits = {}]
  <2>1. session # None
    BY <1>17, OthersHaveASession DEF TypeInv
  <2>2. s \in Sessions
    BY <1>1, <2>1, SessionParts
  <2>3. RunPieceOp("save") /\ session' = s /\ sessionOps' = Append(sessionOps, Put("save", s))
    BY <1>17 DEF SaveDeleted, PutSession
  <2> HIDE DEF s
  <2>4. Put("save", s) \in SessionOps
    BY <1>1, <2>2 DEF Put, SessionOps
  <2> QED BY <1>1, <2>2, <2>3, <2>4, RunPieceTypes DEF StoreTypes
<1>18. CASE \E t \in Torrents : Load(t)
  <2>1. PICK t \in Torrents : Load(t)
    BY <1>18
  <2> DEFINE o == [by |-> "load", op |-> "get", torrent |-> t]
  <2>2. o \in SessionOps
    BY <1>1 DEF SessionOps
  <2>3. sessionOps' = Append(sessionOps, o) /\ UNCHANGED <<disk, records, pieceOps, session>>
    BY <2>1 DEF Load, GetSession
  <2> HIDE DEF o
  <2> QED BY <1>1, <2>2, <2>3 DEF StoreTypes
<1>19. CASE Reload
  BY <1>1, <1>19 DEF Reload, StoreTypes
<1>20. CASE \/ AnnounceFails \/ CoolingEnds \/ Running \/ Stop \/ Save \/ UNCHANGED vars
            \/ \E g \in Starts : Start(g)
  <2>1. UNCHANGED <<disk, records, pieceOps, sessionOps, session>>
    BY <1>20 DEF AnnounceFails, AnnounceOver, CoolingEnds, Running, Launch, PoolEnds, Stop,
                 Save, vars, Start, storeVars, pageVars
  <2> QED BY <1>1, <2>1 DEF StoreTypes
<1> QED BY <1>6, <1>7, <1>8, <1>9, <1>10, <1>11, <1>12, <1>13, <1>14, <1>15, <1>16, <1>17,
           <1>18, <1>19, <1>20 DEF Next, Announcing, UserOps, User

\* The page and the user's callbacks; whatever runs has a session.
LEMMA PageTyped ==
  ASSUME TypeInv, [Next]_vars
  PROVE  PageTypes' /\ Present'
<1>1. PageTypes /\ Present /\ None \notin Torrents \cup Sessions
  BY StoreAssumption DEF TypeInv
<1>2. session' \in Sessions \/ UNCHANGED session \/ Reload
  BY StoreTyped
<1>3. UNCHANGED events
  BY WorldStays
<1>4. CASE Reload
  <2>1. Alive' = {} /\ \A g \in Starts : starter'[g] = "off"
    BY <1>4 DEF Reload, Alive
  <2> QED BY <1>1, <1>4, <2>1 DEF Reload, PageTypes, Present, world
<1>5. CASE /\ \/ \E w \in Workers : Worker(w) \/ Round(w)
              \/ AnnounceFails \/ AnnounceReply \/ AnnounceSaved \/ AnnounceRefused
              \/ Running \/ ClearedPieces \/ ClearedSession \/ SaveRead \/ SaveDeleted
              \/ SaveSaved \/ Clear \/ Save \/ \E g \in Starts : Start(g)
           /\ ~Reload
  <2>1. session # None /\ meta # None /\ session' # None
    BY <1>1, <1>2, <1>5, OthersHaveASession
  <2>2. UNCHANGED <<switches, meta, loader>>
    BY <1>5
    DEF Worker, Round, Request, HashDone, PieceStored, Saved, BackoffEnds, Refreshed,
        PieceRefused, SaveRefused, FrameArrives, RoundFails, RoundError, RoundEnds,
        AnnounceFails, AnnounceOver, AnnounceReply, AnnounceSaved, AnnounceRefused,
        Running, Launch, PoolEnds, ClearedPieces, ClearedSession, SaveRead, SaveDeleted,
        SaveSaved, Clear, Save, Start, world, pageVars, userVars
  <2>3. /\ running' \in BOOLEAN \/ UNCHANGED running
        /\ startEnabled' \in BOOLEAN \/ UNCHANGED startEnabled
        /\ clearer' \in {"off", "pieces", "session"} \/ UNCHANGED clearer
        /\ saver' \in {"off", "reading", "deleting", "saving"} \/ UNCHANGED saver
    BY <1>5
    DEF Worker, Round, Request, HashDone, PieceStored, Saved, BackoffEnds, Refreshed,
        PieceRefused, SaveRefused, FrameArrives, RoundFails, RoundError, RoundEnds,
        AnnounceFails, AnnounceOver, AnnounceReply, AnnounceSaved, AnnounceRefused,
        Running, Launch, PoolEnds, ClearedPieces, ClearedSession, SaveRead, SaveDeleted,
        SaveSaved, Clear, Save, Start, pageVars, userVars
  <2>4. links' \in BOOLEAN
    <3>1. CASE \E g \in Starts : PoolEnds(g)
      BY <3>1 DEF PoolEnds
    <3>2. CASE UNCHANGED links \/ links' = FALSE
      BY <1>1, <3>2 DEF PageTypes
    <3> QED BY <1>5, <3>1, <3>2
        DEF Worker, Round, Request, HashDone, PieceStored, Saved, BackoffEnds, Refreshed,
            PieceRefused, SaveRefused, FrameArrives, RoundFails, RoundError, RoundEnds,
            AnnounceFails, AnnounceOver, AnnounceReply, AnnounceSaved, AnnounceRefused,
            Running, Launch, ClearedPieces, ClearedSession, SaveRead, SaveDeleted,
            SaveSaved, Clear, Save, Start, pageVars, userVars
  <2>5. PageTypes'
    BY <1>1, <1>2, <1>3, <1>5, <2>2, <2>3, <2>4 DEF PageTypes
  <2> QED BY <2>1, <2>2, <2>5 DEF Present
<1>6. CASE /\ LoadRead \/ LoadSaved \/ LoadRefused \/ \E t \in Torrents : Load(t)
           /\ ~Reload
  <2>1. meta' \in Torrents
    BY <1>1, <1>6 DEF LoadRead, LoadSaved, LoadRefused, Load, PageTypes, Present, pageVars
  <2>2. /\ UNCHANGED <<running, links, clearer, saver, pc, starter, announcing>>
        /\ switches' \in 0 .. MaxSwitches
    BY <1>1, <1>6, PoolAssumption
    DEF LoadRead, LoadSaved, LoadRefused, Load, PageTypes, world, pageVars, userVars,
        workerVars, peerVars
  <2>3. /\ startEnabled' \in BOOLEAN \/ UNCHANGED startEnabled
        /\ loader' \in {"off", "reading", "saving"}
    BY <1>6 DEF LoadRead, LoadSaved, LoadRefused, Load, pageVars
  <2>4. PageTypes'
    BY <1>1, <1>2, <1>3, <1>6, <2>1, <2>2, <2>3 DEF PageTypes
  <2>5. UNCHANGED Alive
    BY <2>2 DEF Alive
  <2> QED BY <1>1, <1>2, <1>6, <2>1, <2>2, <2>4, <2>5 DEF Present
<1>7. CASE CoolingEnds \/ Stop \/ UNCHANGED vars
  <2>1. UNCHANGED <<world, meta, session, startEnabled, links, userVars, pc, starter, announcing>>
        /\ (running' \in BOOLEAN \/ UNCHANGED running)
    BY <1>7 DEF CoolingEnds, Stop, vars, pageVars, workerVars, peerVars
  <2>2. UNCHANGED Alive
    BY <2>1 DEF Alive
  <2> QED BY <1>1, <2>1, <2>2 DEF PageTypes, Present, world, userVars
<1> QED BY <1>4, <1>5, <1>6, <1>7 DEF Next, Announcing, UserOps, User

\* The typed invariant is inductive.
LEMMA TypeInduction ==
  Spec => [](~Overlaps => TypeInv)
<1>1. Init => TypeInv
  <2> SUFFICES ASSUME Init PROVE TypeInv
    OBVIOUS
  <2>1. PoolInv
    BY FreshPool DEF Init
  <2>2. StoreTypes
    <3>1. pieceOps \in Seq(PieceOps)
      BY DEF Init, StoreInit
    <3>2. sessionOps \in Seq(SessionOps)
      BY DEF Init, StoreInit
    <3>3. disk \in [Torrents \X Pieces -> {"none", "good", "bad"}]
      BY DEF Init, StoreInit
    <3>4. records \in [Torrents -> Sessions \cup {None}]
      BY DEF Init, StoreInit
    <3> QED BY <3>1, <3>2, <3>3, <3>4 DEF StoreTypes
  <2>3. PageTypes
    <3>1. events \in Worlds /\ switches \in 0 .. MaxSwitches
      BY PoolAssumption DEF Init
    <3>2. running \in BOOLEAN /\ startEnabled \in BOOLEAN /\ links \in BOOLEAN
      BY DEF Init, Fresh
    <3>3. meta \in Torrents \cup {None} /\ session \in Sessions \cup {None}
      BY DEF Init, Fresh
    <3>4. /\ loader \in {"off", "reading", "saving"}
          /\ clearer \in {"off", "pieces", "session"}
          /\ saver \in {"off", "reading", "deleting", "saving"}
      BY DEF Init, Fresh
    <3> QED BY <3>1, <3>2, <3>3, <3>4 DEF PageTypes
  <2>4. PoolTypes
    <3>1. autoScale \in BOOLEAN /\ wipeout \in BOOLEAN /\ cooling \in BOOLEAN
      BY DEF Init, Fresh
    <3>2. claimed \subseteq Pieces /\ active \in 0 .. MaxWorkers
          /\ announcing \in {"no", "asking", "saving"}
      BY PoolAssumption DEF Init, Fresh
    <3> QED BY <2>1, <3>1, <3>2 DEF PoolTypes, PoolInv, Shape
  <2>5. WorkerTypes
    BY <2>1, PoolAssumption DEF Init, Fresh, WorkerTypes, PoolInv, Shape
  <2>6. RoundTypes
    BY StoreAssumption DEF Init, Fresh, RoundTypes, NoFrame, Frames, Pieces
  <2>7. Alive = {} /\ Asking = {}
    BY DEF Init, Fresh, Alive, Asking
  <2>8. Present /\ Counted
    BY <2>7 DEF Init, Fresh, Present, Counted
  <2> QED BY <2>1, <2>2, <2>3, <2>4, <2>5, <2>6, <2>8 DEF TypeInv
<1>2. (~Overlaps => TypeInv) /\ (~Overlaps => PoolInv)' /\ [Next]_vars => (~Overlaps => TypeInv)'
  <2> SUFFICES ASSUME ~Overlaps, TypeInv, PoolInv', [Next]_vars PROVE TypeInv'
    BY WorldStays DEF Overlaps, Switches
  <2>1. StoreTypes'
    BY StoreTyped
  <2> QED BY <2>1, PageTyped, GlobalsTyped, CountersTyped, RoundsTyped DEF TypeInv
<1> QED BY <1>1, <1>2, PoolInduction, PTL DEF Spec

\* Every variable of the page and of its store keeps its type: counters stay
\* within their limits, and no session is missing where one is used.
THEOREM EveryVariableKeepsItsType == Spec => [](~Overlaps => TypeOK)
<1>1. TypeInv => TypeOK
  BY TypeParts DEF TypeInv
<1> QED BY <1>1, TypeInduction, PTL

-----------------------------------------------------------------------------
(* No combination of exits leaves missing pieces without a worker.          *)

\* Claims are of rounds that are under way.
ClaimsAreAsked == claimed \subseteq UNION {batch[w] : w \in Asking}

\* An announce is awaited by someone.
AnnounceIsAwaited ==
  announcing # "no" => \/ \E w \in Workers : pc[w] = "announcing"
                       \/ \E g \in Starts : starter[g] = "announcing"

\* A pool that was not stopped and has no worker left has nothing left to do.
NoneLeftBehind ==
  \A g \in Starts : running /\ starter[g] = "pool" /\ Alive = {}
                      => Missing = {} \/ session.peers = {}

EndInv == ClaimsAreAsked /\ AnnounceIsAwaited /\ NoneLeftBehind

\* A set of pieces has a first one.
LEMMA FirstIsThere ==
  ASSUME NEW S \in SUBSET Pieces, S # {}, NEW n \in Nat \ {0}
  PROVE  First(S, n) # {}
<1>1. S \subseteq Nat
  BY StoreAssumption DEF Pieces
<1>2. PICK i \in S : \A j \in S : ~(<<j, i>> \in OpToRel(<, Nat))
  BY <1>1, NatLessThanWellFounded, WFMin
<1>3. {j \in S : j < i} = {}
  BY <1>1, <1>2 DEF OpToRel
<1>4. Cardinality({j \in S : j < i}) = 0
  BY <1>3, FS_EmptySet
<1>5. Cardinality({j \in S : j < i}) < n
  BY <1>4
<1> QED BY <1>5 DEF First

\* The announce is still awaited when nobody who awaits it goes on.
LEMMA StillAwaited ==
  ASSUME AnnounceIsAwaited, UNCHANGED announcing,
         \A v \in Workers : pc[v] = "announcing" => pc'[v] = "announcing",
         \A g \in Starts : starter[g] = "announcing" => starter'[g] = "announcing"
  PROVE  AnnounceIsAwaited'
BY DEF AnnounceIsAwaited

\* One that is made on the way is awaited by whoever made it.
LEMMA EnsureIsAwaited ==
  ASSUME AnnounceIsAwaited, Ensure,
         (\E w \in Workers : pc'[w] = AfterEnsure) \/ (\E g \in Starts : starter'[g] = AfterEnsure),
         \A v \in Workers : pc[v] = "announcing" => pc'[v] = "announcing",
         \A g \in Starts : starter[g] = "announcing" => starter'[g] = "announcing"
  PROVE  AnnounceIsAwaited'
<1>1. CASE announcing # "no"
  BY <1>1 DEF AnnounceIsAwaited
<1>2. CASE announcing = "no" /\ Waits
  BY <1>2 DEF AnnounceIsAwaited, AfterEnsure
<1>3. CASE announcing = "no" /\ ~Waits
  BY <1>3 DEF AnnounceIsAwaited, Ensure
<1> QED BY <1>1, <1>2, <1>3

\* Claims stay those of the rounds when no round ends and nothing is claimed.
LEMMA StillAsked ==
  ASSUME ClaimsAreAsked, claimed' \subseteq claimed, Asking \subseteq Asking',
         \A v \in Asking : batch'[v] = batch[v]
  PROVE  ClaimsAreAsked'
<1> SUFFICES ASSUME NEW i \in claimed' PROVE \E v \in Asking' : i \in batch'[v]
  BY DEF ClaimsAreAsked
<1>1. PICK v \in Asking : i \in batch[v]
  BY DEF ClaimsAreAsked
<1> QED BY <1>1

\* A worker that exits for want of a claim leaves nothing that is missing.
LEMMA RequestEnds ==
  ASSUME TypeInv, EndInv, NEW w \in Workers, Request(w)
  PROVE  EndInv'
<1> DEFINE want == First(Claimable, size[w])
<1>1. /\ Shape /\ pc[w] = "announced" /\ w \notin Asking /\ UNCHANGED <<session, running, starter>>
      /\ UNCHANGED announcing
  BY DEF TypeInv, PoolInv, Request, Asking, pageVars, peerVars
<1>2. \E k \in {"off", "round"} : Goes(w, k)
  BY DEF Request, Exit
<1>3. AnnounceIsAwaited'
  BY <1>1, <1>2, StillAwaited DEF EndInv, Goes, Shape
<1>4. CASE want = {} \/ session.peers = {}
  <2>1. Goes(w, "off") /\ UNCHANGED <<claimed, batch>>
    BY <1>4 DEF Request, Exit, roundVars
  <2>2. Asking' = Asking
    BY <1>1, <2>1 DEF Asking, Goes, Shape
  <2>3. ClaimsAreAsked'
    BY <2>1, <2>2, StillAsked DEF EndInv
  <2>4. ASSUME Alive' = {} PROVE Missing = {} \/ session.peers = {}
    <3>1. Asking = {}
      BY <2>2, <2>4 DEF Asking, Alive
    <3>2. claimed = {}
      BY <3>1 DEF EndInv, ClaimsAreAsked
    <3>3. CASE want = {}
      <4>1. size[w] \in Nat \ {0}
        BY PoolAssumption DEF TypeInv, WorkerTypes
      <4>2. Claimable \in SUBSET Pieces
        BY DEF Claimable, Missing
      <4>3. Claimable = {}
        BY <3>3, <4>1, <4>2, FirstIsThere
      <4> QED BY <3>2, <4>3 DEF Claimable
    <3> QED BY <1>4, <3>3
  <2>5. NoneLeftBehind'
    BY <1>1, <2>4 DEF NoneLeftBehind, Missing
  <2> QED BY <1>3, <2>3, <2>5 DEF EndInv
<1>5. CASE ~(want = {} \/ session.peers = {})
  <2>1. /\ Goes(w, "round") /\ claimed' = claimed \cup want
        /\ batch' = [batch EXCEPT ![w] = want]
    BY <1>5 DEF Request
  <2> HIDE DEF want
  <2>2. /\ Asking' = Asking \cup {w} /\ batch'[w] = want
        /\ \A v \in Asking : batch'[v] = batch[v]
    BY <1>1, <2>1 DEF Asking, Goes, Shape
  <2>3. ClaimsAreAsked'
    <3> SUFFICES ASSUME NEW i \in claimed' PROVE \E v \in Asking' : i \in batch'[v]
      BY DEF ClaimsAreAsked
    <3>1. CASE i \in want
      BY <2>2, <3>1
    <3>2. CASE i \in claimed
      <4>1. PICK v \in Asking : i \in batch[v]
        BY <3>2 DEF EndInv, ClaimsAreAsked
      <4> QED BY <2>2, <4>1
    <3> QED BY <2>1, <3>1, <3>2
  <2>4. w \in Alive'
    BY <1>1, <2>1 DEF Alive, Goes, Shape
  <2>5. NoneLeftBehind'
    BY <2>4 DEF NoneLeftBehind
  <2> QED BY <1>3, <2>3, <2>5 DEF EndInv
<1> QED BY <1>4, <1>5

\* The steps of a round, and its end, which gives up its claims.
LEMMA RoundKeepsEnds ==
  ASSUME TypeInv, EndInv, NEW w \in Workers,
         HashDone(w) \/ PieceStored(w) \/ PieceRefused(w) \/ Round(w)
  PROVE  EndInv'
<1>1. Shape /\ w \in Asking /\ UNCHANGED <<announcing, starter>>
  BY DEF TypeInv, PoolInv, HashDone, PieceStored, PieceRefused, Round, FrameArrives, RoundFails,
         RoundError, RoundEnds, Asking, peerVars
<1>2. PICK k \in {"round", "hashing", "storing", "saving", "backoff"} : Goes(w, k)
  BY DEF HashDone, PieceStored, PieceRefused, Round, FrameArrives, RoundFails, RoundError,
         RoundEnds
<1>3. NoneLeftBehind'
  <2>1. w \in Alive'
    BY <1>1, <1>2 DEF Goes, Shape, Alive
  <2> QED BY <2>1 DEF NoneLeftBehind
<1>4. AnnounceIsAwaited'
  BY <1>1, <1>2, StillAwaited DEF EndInv, Goes, Shape, Asking
<1>5. ClaimsAreAsked'
  <2>1. CASE HashDone(w) \/ PieceStored(w)
             \/ \E i \in Pieces, bytes \in {"good", "bad"} : FrameArrives(w, i, bytes)
    <3>1. UNCHANGED <<claimed, batch>> /\ (Goes(w, "round") \/ Goes(w, "hashing") \/ Goes(w, "storing"))
      BY <2>1 DEF HashDone, PieceStored, FrameArrives, poolVars
    <3>2. Asking \subseteq Asking'
      BY <1>1, <3>1 DEF Asking, Goes, Shape
    <3> QED BY <3>1, <3>2, StillAsked DEF EndInv
  <2>2. CASE RoundFails(w) \/ PieceRefused(w) \/ RoundEnds(w)
    <3>1. /\ claimed' = Release(w)
          /\ batch' = batch \/ batch' = [batch EXCEPT ![w] = {}]
      BY <2>2 DEF RoundFails, PieceRefused, RoundEnds, RoundError
    <3>2. \A v \in Workers \ {w} : pc'[v] = pc[v] /\ batch'[v] = batch[v]
      BY <1>1, <1>2, <3>1 DEF Goes, Shape
    <3> SUFFICES ASSUME NEW i \in claimed' PROVE \E v \in Asking' : i \in batch'[v]
      BY DEF ClaimsAreAsked
    <3>3. PICK v \in Asking : i \in batch[v]
      BY <3>1 DEF EndInv, ClaimsAreAsked, Release
    <3>4. v # w
      BY <3>1, <3>3 DEF Release
    <3> QED BY <3>2, <3>3, <3>4 DEF Asking
  <2> QED BY <2>1, <2>2 DEF Round
<1> QED BY <1>3, <1>4, <1>5 DEF EndInv

\* A turn that ends: of a pool that is too large some worker stays.
LEMMA TurnEnds ==
  ASSUME TypeInv, PoolInv', EndInv, NEW w \in Workers,
         Saved(w) \/ BackoffEnds(w) \/ Refreshed(w) \/ SaveRefused(w)
  PROVE  EndInv'
<1>1. /\ Shape /\ w \in Alive /\ w \notin Asking /\ pc[w] # "announcing"
      /\ UNCHANGED <<claimed, running>>
  BY DEF TypeInv, PoolInv, Saved, BackoffEnds, Refreshed, SaveRefused, Alive, Asking
<1>2. batch' = batch \/ batch' = [batch EXCEPT ![w] = {}]
  BY DEF Saved, BackoffEnds, Refreshed, SaveRefused, roundVars
<1>3. ASSUME \A v \in Asking : pc'[v] = pc[v] PROVE ClaimsAreAsked'
  <2>1. Asking \subseteq Asking' /\ \A v \in Asking : batch'[v] = batch[v]
    BY <1>1, <1>2, <1>3 DEF Asking, Shape
  <2> QED BY <1>1, <2>1, StillAsked DEF EndInv
<1>4. ASSUME NEW k \in {"backoff", "refreshing"}, Goes(w, k), UNCHANGED <<announcing, starter>>
      PROVE  EndInv'
  <2>1. \A v \in Workers \ {w} : pc'[v] = pc[v]
    BY <1>1, <1>4 DEF Goes, Shape
  <2>2. ClaimsAreAsked'
    BY <1>1, <1>3, <2>1 DEF Asking
  <2>3. AnnounceIsAwaited'
    BY <1>1, <1>4, <2>1, StillAwaited DEF EndInv
  <2>4. w \in Alive'
    BY <1>1, <1>4 DEF Alive, Goes, Shape
  <2> QED BY <2>2, <2>3, <2>4 DEF EndInv, NoneLeftBehind
<1>5. ASSUME NEW i, NEW s, Boundary(w, i, s), UNCHANGED starter
      PROVE  EndInv'
  <2>1. PICK t \in Rescaled : \E new \in IF t > target THEN Spawns(t) ELSE {{}} :
          LET n == active + Cardinality(new)
              stays == Stays(n, t)
          IN
          /\ active' = IF stays THEN n ELSE n - 1
          /\ pc' = [v \in Workers |->
               IF v \in new \/ (v = w /\ stays) THEN AfterEnsure
               ELSE IF v = w THEN "off" ELSE pc[v]]
          /\ IF stays \/ new # {} THEN Ensure ELSE UNCHANGED peerVars
    BY <1>5 DEF Boundary
  <2>2. PICK new \in IF t > target THEN Spawns(t) ELSE {{}} :
          LET n == active + Cardinality(new)
              stays == Stays(n, t)
          IN
          /\ active' = IF stays THEN n ELSE n - 1
          /\ pc' = [v \in Workers |->
               IF v \in new \/ (v = w /\ stays) THEN AfterEnsure
               ELSE IF v = w THEN "off" ELSE pc[v]]
          /\ IF stays \/ new # {} THEN Ensure ELSE UNCHANGED peerVars
    BY <2>1
  <2> DEFINE n == active + Cardinality(new)
             stays == Stays(n, t)
  <2>3. \A v \in new : v \in Workers /\ pc[v] = "off"
    BY DEF Spawns
  <2>4. \A v \in Workers \ {w} : pc[v] # "off" => pc'[v] = pc[v]
    BY <2>2, <2>3
  <2>5. ClaimsAreAsked'
    BY <1>1, <1>3, <2>4 DEF Asking
  <2>6. AnnounceIsAwaited'
    <3>1. CASE stays \/ new # {}
      <4>1. Ensure /\ \E v \in Workers : pc'[v] = AfterEnsure
        BY <2>2, <2>3, <3>1
      <4> QED BY <1>1, <1>5, <2>4, <4>1, EnsureIsAwaited DEF EndInv
    <3>2. CASE ~(stays \/ new # {})
      BY <1>1, <1>5, <2>2, <2>4, <3>2, StillAwaited DEF EndInv, peerVars
    <3> QED BY <3>1, <3>2
  <2>7. ASSUME running' PROVE Alive' # {}
    <3>1. CASE stays
      <4>1. pc'[w] = AfterEnsure
        BY <2>2, <3>1
      <4> QED BY <4>1 DEF Alive, AfterEnsure
    <3>2. CASE ~stays
      <4>1. n > t /\ t \in 1 .. MaxWorkers /\ active' = n - 1
        BY <1>1, <2>2, <2>7, <3>2 DEF Stays, TooMany, Rescaled, Shape
      <4>2. active' # 0
        BY <4>1, SpawnCounts, PoolAssumption, FS_EmptySet DEF TypeInv, PoolInv, ActiveIsExact
      <4>3. active' = Cardinality(Alive')
        BY DEF PoolInv, ActiveIsExact
      <4> QED BY <4>2, <4>3, FS_EmptySet
    <3> QED BY <3>1, <3>2
  <2>8. NoneLeftBehind'
    BY <2>7 DEF NoneLeftBehind
  <2> QED BY <2>5, <2>6, <2>8 DEF EndInv
<1>6. CASE SaveRefused(w)
  <2>1. /\ Goes(w, "off") /\ starter' = [starter EXCEPT ![gen[w]] = "off"]
        /\ UNCHANGED announcing
    BY <1>6 DEF SaveRefused, Exit, peerVars
  <2>2. \A v \in Workers \ {w} : pc'[v] = pc[v]
    BY <1>1, <2>1 DEF Goes, Shape
  <2>3. \A g \in Starts : starter[g] # "off" => starter[g] = "pool" /\ g = gen[w]
    BY <1>1 DEF TypeInv, PoolInv, OnePool
  <2>4. \A g \in Starts : starter'[g] = "off"
    BY <1>1, <2>1, <2>3 DEF Shape
  <2>5. AnnounceIsAwaited'
    BY <1>1, <2>1, <2>2, <2>3, StillAwaited DEF EndInv
  <2>6. ClaimsAreAsked'
    BY <1>1, <1>3, <2>2 DEF Asking
  <2> QED BY <2>4, <2>5, <2>6 DEF EndInv, NoneLeftBehind
<1>7. CASE Saved(w)
  BY <1>4, <1>5, <1>7 DEF Saved, peerVars
<1>8. CASE BackoffEnds(w)
  BY <1>4, <1>5, <1>8 DEF BackoffEnds, peerVars
<1>9. CASE Refreshed(w)
  BY <1>5, <1>9 DEF Refreshed
<1> QED BY <1>6, <1>7, <1>8, <1>9

\* The steps of the announce: while a pool has no worker left nobody brings it
\* peers.
LEMMA AnnounceEnds ==
  ASSUME TypeInv, EndInv, Announcing
  PROVE  EndInv'
<1>1. Shape /\ UNCHANGED <<batch, claimed, running>>
  BY DEF TypeInv, PoolInv, Announcing, AnnounceFails, AnnounceReply, AnnounceSaved,
         AnnounceRefused, AnnounceOver, CoolingEnds, poolVars, workerVars, roundVars
<1>2. ASSUME UNCHANGED <<pc, starter>> PROVE ClaimsAreAsked' /\ UNCHANGED Alive
  BY <1>1, <1>2, StillAsked DEF EndInv, Asking, Alive
<1>3. CASE AnnounceReply
  <2>1. UNCHANGED <<pc, starter>> /\ announcing = "asking"
    BY <1>3 DEF AnnounceReply, workerVars
  <2>2. AnnounceIsAwaited'
    BY <2>1 DEF EndInv, AnnounceIsAwaited
  <2>3. ASSUME NEW g \in Starts, starter[g] = "pool" PROVE Alive # {}
    <3>1. ~(\E h \in Starts : starter[h] = "announcing")
      BY <2>3 DEF TypeInv, PoolInv, OnePool
    <3>2. \E w \in Workers : pc[w] = "announcing"
      BY <2>1, <3>1 DEF EndInv, AnnounceIsAwaited
    <3> QED BY <3>2 DEF Alive
  <2>4. NoneLeftBehind'
    BY <1>2, <2>1, <2>3 DEF NoneLeftBehind
  <2> QED BY <1>2, <2>1, <2>2, <2>4 DEF EndInv
<1>4. CASE CoolingEnds
  <2>1. UNCHANGED <<pc, starter, announcing, session>>
    BY <1>4 DEF CoolingEnds, workerVars, pageVars
  <2>2. UNCHANGED Missing
    BY <2>1 DEF Missing
  <2> QED BY <1>1, <1>2, <2>1, <2>2 DEF EndInv, AnnounceIsAwaited, NoneLeftBehind
<1>5. CASE AnnounceOver
  <2>1. /\ announcing' = "no" /\ UNCHANGED session
        /\ pc' = [w \in Workers |-> IF pc[w] = "announcing" THEN "announced" ELSE pc[w]]
        /\ starter' = [g \in Starts |->
             IF starter[g] = "announcing" THEN "announced" ELSE starter[g]]
    BY <1>5 DEF AnnounceOver, pageVars
  <2>2. UNCHANGED <<Asking, Alive, Missing>>
    BY <2>1 DEF Asking, Alive, Missing
  <2>3. ClaimsAreAsked'
    BY <1>1, <2>2, StillAsked DEF EndInv
  <2>4. \A g \in Starts : starter'[g] = "pool" => starter[g] = "pool"
    BY <2>1
  <2> QED BY <1>1, <2>1, <2>2, <2>3, <2>4 DEF EndInv, AnnounceIsAwaited, NoneLeftBehind
<1>6. CASE AnnounceRefused
  <2> DEFINE joined == {w \in Workers : pc[w] = "announcing"}
  <2>1. /\ announcing' = "no" /\ UNCHANGED session
        /\ pc' = [w \in Workers |-> IF w \in joined THEN "off" ELSE pc[w]]
        /\ starter' = [g \in Starts |->
             IF starter[g] = "announcing" \/ \E w \in joined : gen[w] = g
             THEN "off" ELSE starter[g]]
    BY <1>6 DEF AnnounceRefused, pageVars
  <2>2. Asking' = Asking /\ UNCHANGED Missing
    BY <2>1 DEF Asking, Missing
  <2>3. ClaimsAreAsked'
    BY <1>1, <2>2, StillAsked DEF EndInv
  <2>4. ASSUME NEW g \in Starts, starter'[g] = "pool", Alive' = {}
        PROVE  starter[g] = "pool" /\ Alive = {}
    <3>1. starter[g] = "pool" /\ \A w \in joined : gen[w] # g
      BY <2>1, <2>4
    <3>2. joined = {}
      BY <3>1 DEF TypeInv, PoolInv, OnePool, Alive
    <3> QED BY <2>1, <2>4, <3>1, <3>2 DEF Alive
  <2>5. NoneLeftBehind'
    BY <1>1, <2>1, <2>2, <2>4 DEF EndInv, NoneLeftBehind
  <2> QED BY <2>1, <2>3, <2>5 DEF EndInv, AnnounceIsAwaited
<1> QED BY <1>3, <1>4, <1>5, <1>6 DEF Announcing, AnnounceFails, AnnounceSaved

\* Start, and the pool's own steps: a pool that was not stopped is started with
\* a worker at least.
LEMMA StartEnds ==
  ASSUME TypeInv, PoolInv', EndInv, NEW g \in Starts, Start(g) \/ Launch(g) \/ PoolEnds(g)
  PROVE  EndInv'
<1>1. Shape /\ Asking = {} /\ UNCHANGED batch
  BY DEF TypeInv, PoolInv, Gates, Quiet, OnePool, Start, Launch, PoolEnds, Asking, Alive,
         workerVars, roundVars
<1>2. claimed' \subseteq claimed
  BY DEF Start, Launch, PoolEnds, poolVars
<1>3. ClaimsAreAsked'
  BY <1>1, <1>2, StillAsked DEF EndInv
<1>4. \A h \in Starts \ {g} : starter[h] = "off" /\ starter'[h] = "off"
  BY <1>1 DEF TypeInv, PoolInv, Gates, Quiet, OnePool, Start, Launch, PoolEnds, Shape
<1>5. CASE Start(g)
  <2>1. /\ starter' = [starter EXCEPT ![g] = AfterEnsure] /\ Ensure /\ starter[g] = "off"
        /\ UNCHANGED pc
    BY <1>5 DEF Start, workerVars
  <2>2. AnnounceIsAwaited'
    BY <1>1, <2>1, EnsureIsAwaited DEF EndInv, Shape
  <2>3. starter'[g] # "pool"
    BY <1>1, <2>1 DEF AfterEnsure, Shape
  <2> QED BY <1>3, <1>4, <2>2, <2>3 DEF EndInv, NoneLeftBehind
<1>6. CASE Launch(g) /\ session.peers = {} /\ Missing # {}
  <2>1. /\ starter[g] = "announced" /\ starter' = [starter EXCEPT ![g] = "off"]
        /\ UNCHANGED <<pc, announcing>>
    BY <1>6 DEF Launch, peerVars
  <2>2. AnnounceIsAwaited'
    BY <1>1, <2>1, StillAwaited DEF EndInv, Shape
  <2>3. starter'[g] = "off"
    BY <1>1, <2>1 DEF Shape
  <2> QED BY <1>3, <1>4, <2>2, <2>3 DEF EndInv, NoneLeftBehind
<1>7. CASE Launch(g) /\ ~(session.peers = {} /\ Missing # {})
  <2>1. /\ starter[g] = "announced" /\ starter' = [starter EXCEPT ![g] = "pool"]
        /\ UNCHANGED running
    BY <1>7 DEF Launch
  <2>2. PICK new \in Spawns(target) :
          /\ pc' = [w \in Workers |-> IF w \in new THEN AfterEnsure ELSE pc[w]]
          /\ IF new # {} THEN Ensure ELSE UNCHANGED peerVars
    BY <1>7 DEF Launch
  <2>3. new \subseteq Workers /\ \A v \in new : pc[v] = "off"
    BY DEF Spawns
  <2>4. AnnounceIsAwaited'
    <3>1. /\ \A v \in Workers : pc[v] = "announcing" => pc'[v] = "announcing"
          /\ \A h \in Starts : starter[h] = "announcing" => starter'[h] = "announcing"
      BY <1>1, <2>1, <2>2, <2>3 DEF Shape
    <3>2. CASE new # {}
      <4>1. Ensure /\ \E v \in Workers : pc'[v] = AfterEnsure
        BY <2>2, <2>3, <3>2
      <4> QED BY <3>1, <4>1, EnsureIsAwaited DEF EndInv
    <3>3. CASE new = {}
      BY <2>2, <3>1, <3>3, StillAwaited DEF EndInv, peerVars
    <3> QED BY <3>2, <3>3
  <2>5. ASSUME running PROVE Alive' # {}
    <3>1. Alive = {}
      BY <2>1 DEF TypeInv, PoolInv, OnePool
    <3>2. active = 0
      BY <3>1, FS_EmptySet DEF TypeInv, PoolInv, ActiveIsExact
    <3>3. Cardinality(new) = Larger(0, target - 0)
      BY <2>5, <3>2 DEF Spawns
    <3>4. Cardinality(new) # 0
      BY <1>1, <3>3, PoolAssumption DEF Larger, Shape
    <3>5. new # {}
      BY <3>4, FS_EmptySet
    <3> QED BY <2>2, <2>3, <3>5 DEF Alive, AfterEnsure
  <2>6. NoneLeftBehind'
    BY <2>1, <2>5 DEF NoneLeftBehind
  <2> QED BY <1>3, <2>4, <2>6 DEF EndInv
<1>8. CASE PoolEnds(g)
  <2>1. /\ starter[g] = "pool" /\ starter' = [starter EXCEPT ![g] = "off"]
        /\ UNCHANGED <<pc, announcing>>
    BY <1>8 DEF PoolEnds, workerVars, peerVars
  <2>2. AnnounceIsAwaited'
    BY <1>1, <2>1, StillAwaited DEF EndInv, Shape
  <2>3. starter'[g] = "off"
    BY <1>1, <2>1 DEF Shape
  <2> QED BY <1>3, <1>4, <2>2, <2>3 DEF EndInv, NoneLeftBehind
<1> QED BY <1>5, <1>6, <1>7, <1>8

\* What the user does beside, when pieces are not freed.
LEMMA UserEnds ==
  ASSUME TypeInv, EndInv, ~Switches,
         \/ LoadRead \/ LoadSaved \/ LoadRefused \/ Stop \/ UNCHANGED vars
         \/ \E t \in Torrents : Load(t)
  PROVE  EndInv'
<1>1. UNCHANGED <<pc, starter, batch, claimed, announcing>> /\ (running' => running)
  BY DEF LoadRead, LoadSaved, LoadRefused, Load, Stop, vars, workerVars, roundVars, poolVars,
         peerVars
<1>2. UNCHANGED <<Asking, Alive>>
  BY <1>1 DEF Asking, Alive
<1>3. UNCHANGED session \/ \A g \in Starts : starter[g] = "off"
  BY DEF LoadRead, LoadSaved, LoadRefused, Load, Stop, vars, pageVars, TypeInv, PoolInv, Gates,
         Quiet
<1>4. ClaimsAreAsked'
  BY <1>1, <1>2, StillAsked DEF EndInv
<1>5. UNCHANGED session => UNCHANGED Missing
  BY DEF Missing
<1>6. NoneLeftBehind'
  BY <1>1, <1>2, <1>3, <1>5 DEF EndInv, NoneLeftBehind
<1> QED BY <1>1, <1>4, <1>6 DEF EndInv, AnnounceIsAwaited

\* The invariant is inductive.
LEMMA EndInduction ==
  Spec => [](~Switches /\ ~Frees => clearer = "off" /\ saver = "off" /\ EndInv)
<1>1. Init => clearer = "off" /\ saver = "off" /\ EndInv
  <2> SUFFICES ASSUME Init PROVE clearer = "off" /\ saver = "off" /\ EndInv
    OBVIOUS
  <2>1. /\ clearer = "off" /\ saver = "off" /\ claimed = {} /\ announcing = "no"
        /\ running = FALSE
    BY DEF Init, Fresh
  <2> QED BY <2>1 DEF EndInv, ClaimsAreAsked, AnnounceIsAwaited, NoneLeftBehind
<1>2. /\ ~Switches /\ ~Frees => clearer = "off" /\ saver = "off" /\ EndInv
      /\ ~Overlaps => TypeInv
      /\ (~Overlaps => PoolInv)'
      /\ [Next]_vars
      => (~Switches /\ ~Frees => clearer = "off" /\ saver = "off" /\ EndInv)'
  <2> SUFFICES ASSUME ~Switches, ~Frees, clearer = "off", saver = "off", EndInv, TypeInv,
                      PoolInv', [Next]_vars
               PROVE  clearer' = "off" /\ saver' = "off" /\ EndInv'
    BY WorldStays DEF Overlaps, Switches, Frees
  <2>1. CASE \E w \in Workers : Worker(w) \/ Round(w)
    <3>1. EndInv'
      BY <2>1, RequestEnds, RoundKeepsEnds, TurnEnds DEF Worker
    <3>2. UNCHANGED userVars
      BY <2>1 DEF Worker, Round, Request, HashDone, PieceStored, Saved, BackoffEnds, Refreshed,
                  PieceRefused, SaveRefused, FrameArrives, RoundFails, RoundError, RoundEnds
    <3> QED BY <3>1, <3>2 DEF userVars
  <2>2. CASE Announcing
    <3>1. UNCHANGED userVars
      BY <2>2 DEF Announcing, AnnounceFails, AnnounceReply, AnnounceSaved, AnnounceRefused,
                  AnnounceOver, CoolingEnds
    <3> QED BY <2>2, <3>1, AnnounceEnds DEF userVars
  <2>3. CASE Running \/ \E g \in Starts : Start(g)
    <3>1. UNCHANGED userVars
      BY <2>3 DEF Running, Launch, PoolEnds, Start
    <3> QED BY <2>3, <3>1, StartEnds DEF Running, userVars
  <2>4. CASE \/ LoadRead \/ LoadSaved \/ LoadRefused \/ Stop \/ UNCHANGED vars
             \/ \E t \in Torrents : Load(t)
    <3>1. UNCHANGED <<clearer, saver>>
      BY <2>4 DEF LoadRead, LoadSaved, LoadRefused, Load, Stop, vars, userVars
    <3> QED BY <2>4, <3>1, UserEnds
  <2>5. CASE Reload
    <3>1. /\ clearer' = "off" /\ saver' = "off" /\ claimed' = {} /\ announcing' = "no"
          /\ running' = FALSE
      BY <2>5 DEF Reload
    <3> QED BY <3>1 DEF EndInv, ClaimsAreAsked, AnnounceIsAwaited, NoneLeftBehind
  <2>6. ~(ClearedPieces \/ ClearedSession \/ SaveRead \/ SaveDeleted \/ SaveSaved \/ Clear \/ Save)
    BY DEF Frees, ClearedPieces, ClearedSession, SaveRead, SaveDeleted, SaveSaved, Clear, Save
  <2> QED BY <2>1, <2>2, <2>3, <2>4, <2>5, <2>6 DEF Next, UserOps, User
<1> QED BY <1>1, <1>2, TypeInduction, PoolInduction, PTL DEF Spec

\* The pool ends by itself only when every piece is stored or nobody is left to
\* ask, whichever workers exit in whichever order for want of a claim, of peers
\* or of room.
THEOREM ThePoolEndsWhenDone == Spec => EndsOnlyWhenDone
<1>1. TypeInv /\ EndInv /\ running /\ (\E g \in Starts : PoolEnds(g))
        => Missing = {} \/ session.peers = {}
  <2> SUFFICES ASSUME TypeInv, EndInv, running, NEW g \in Starts, PoolEnds(g)
               PROVE  Missing = {} \/ session.peers = {}
    OBVIOUS
  <2>1. starter[g] = "pool" /\ Alive = {}
    BY DEF PoolEnds, TypeInv, PoolInv, OnePool
  <2> QED BY <2>1 DEF EndInv, NoneLeftBehind
<1>2. /\ ~Overlaps => TypeInv
      /\ ~Switches /\ ~Frees => clearer = "off" /\ saver = "off" /\ EndInv
      /\ [Next]_vars
      => [running /\ ~Switches /\ ~Frees /\ (\E g \in Starts : PoolEnds(g))
            => Missing = {} \/ session.peers = {}]_vars
  BY <1>1 DEF Overlaps
<1> QED BY <1>2, TypeInduction, EndInduction, PTL DEF Spec, EndsOnlyWhenDone
=============================================================================
