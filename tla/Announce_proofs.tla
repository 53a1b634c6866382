--------------------------- MODULE Announce_proofs ---------------------------
(***************************************************************************)
(* The lookup's slots are counted exactly and none idles, for any nodes,   *)
(* any bounds and any strays, as part of a discovery whose answer has what *)
(* every source gave.                                                      *)
(***************************************************************************)
EXTENDS Announce, FiniteSetTheorems, TLAPS

\* The lookup, once started; the crawl bound is never passed.
LookupInv ==
  /\ LookupTypeOK
  /\ Cardinality(queried) <= MaxQueried
  /\ SlotsAreExact
  /\ NoSlotIdles

\* The lookup and the trackers start with the job and not before.
Started ==
  /\ job \in {"idle", "probing"} => NoLookup /\ \A k \in Trackers : source[k] = "off"
  /\ job \in {"waiting", "answered"} => outcome # "off"

IInv == TypeOK /\ LookupInv /\ Started /\ EverySourceCounts

-----------------------------------------------------------------------------
(* Arithmetic of the slots.                                                *)

\* Free is what both bounds allow.
LEMMA FreeBounds ==
  ASSUME NEW n \in 0 .. Alpha, NEW c \in Nat, Cardinality(queried) = c, c <= MaxQueried
  PROVE  /\ Free(n) \in Nat
         /\ n + Free(n) <= Alpha
         /\ c + Free(n) <= MaxQueried
         /\ n + Free(n) = Alpha \/ c + Free(n) = MaxQueried
BY LookupAssumption DEF Free, Larger, Smaller

\* Sets of nodes have a size.
LEMMA NodeSets ==
  ASSUME NEW S \in SUBSET Nodes
  PROVE  IsFiniteSet(S) /\ Cardinality(S) \in Nat
BY FS_Subset, FS_CardinalityType, LookupAssumption

\* The sizes of disjoint sets of nodes add up.
LEMMA DisjointSum ==
  ASSUME NEW S \in SUBSET Nodes, NEW T \in SUBSET Nodes, S \cap T = {}
  PROVE  Cardinality(S \cup T) = Cardinality(S) + Cardinality(T)
<1>1. Cardinality(S \cup T) = Cardinality(S) + Cardinality(T) - Cardinality(S \cap T)
  BY NodeSets, FS_Union
<1> QED BY <1>1, FS_EmptySet, NodeSets

\* A pump with n slots taken and s answers stood in for by strays leaves the
\* slots exact and none idle.
LEMMA PumpFills ==
  ASSUME NEW k \in SUBSET Nodes, queried \subseteq k,
         NEW W \in SUBSET queried,
         NEW n \in 0 .. Alpha, NEW s \in 0 .. MaxStrays,
         Cardinality(queried) <= MaxQueried,
         n + s = Cardinality(W),
         Pump(k, W, n), found' \subseteq Peers, strays' = s
  PROVE  LookupInv' /\ outcome' # "off"
<1> DEFINE C == k \ queried
<1>1. PICK new \in Closest(C, Free(n)) :
         /\ known' = k
         /\ queried' = queried \cup new
         /\ waiting' = W \cup new
         /\ inFlight' = n + Cardinality(new)
         /\ outcome' = IF Ends(n + Cardinality(new)) THEN "exhausted" ELSE "running"
  BY DEF Pump
<1>2. /\ queried \in SUBSET Nodes /\ W \in SUBSET Nodes
      /\ C \in SUBSET Nodes /\ new \in SUBSET C /\ new \in SUBSET Nodes
      /\ Cardinality(new) = Smaller(Free(n), Cardinality(C))
  BY <1>1 DEF Closest
<1>3. /\ Cardinality(queried) \in Nat /\ Cardinality(new) \in Nat
      /\ Cardinality(C) \in Nat /\ Cardinality(W) \in Nat
      /\ IsFiniteSet(C)
  BY <1>2, NodeSets
<1>4. /\ Free(n) \in Nat
      /\ n + Free(n) <= Alpha
      /\ Cardinality(queried) + Free(n) <= MaxQueried
      /\ n + Free(n) = Alpha \/ Cardinality(queried) + Free(n) = MaxQueried
  <2> DEFINE c == Cardinality(queried)
  <2>1. c \in Nat /\ c <= MaxQueried
    BY <1>3
  <2> HIDE DEF c
  <2>2. Cardinality(queried) = c
    BY DEF c
  <2> QED BY <2>1, <2>2, FreeBounds
<1>5. Cardinality(new) <= Free(n) /\ (Cardinality(new) = Free(n) \/ Cardinality(new) = Cardinality(C))
  BY <1>2, <1>3, <1>4 DEF Smaller
<1>6. Cardinality(queried') = Cardinality(queried) + Cardinality(new)
  BY <1>1, <1>2, DisjointSum
<1>7. Cardinality(waiting') = Cardinality(W) + Cardinality(new)
  BY <1>1, <1>2, DisjointSum
<1>8. Cardinality(new) = Cardinality(C) => known' \subseteq queried'
  <2> SUFFICES ASSUME Cardinality(new) = Cardinality(C) PROVE known' \subseteq queried'
    OBVIOUS
  <2>1. C = new
    BY <1>2, <1>3, FS_Subset
  <2> QED BY <2>1, <1>1
<1>9. inFlight' < Alpha => AllAsked'
  BY <1>1, <1>3, <1>4, <1>5, <1>6, <1>8, LookupAssumption DEF AllAsked
<1>10. outcome' = "running" => inFlight' \in 1 .. Alpha
  BY <1>1, <1>3, <1>4, <1>5, LookupAssumption DEF Ends
<1>11. inFlight' + strays' = Cardinality(waiting') /\ inFlight' \in 0 .. Alpha
  BY <1>1, <1>3, <1>4, <1>5, <1>7, LookupAssumption
<1>12. outcome' = "exhausted" => inFlight' = 0
  BY <1>1, <1>3 DEF Ends
<1>13. LookupTypeOK'
  BY <1>1, <1>2, <1>11 DEF LookupTypeOK
<1>14. SlotsAreExact'
  BY <1>10, <1>11 DEF SlotsAreExact
<1>15. NoSlotIdles'
  BY <1>1, <1>9, <1>11, <1>12, LookupAssumption DEF NoSlotIdles
<1>16. Cardinality(queried') <= MaxQueried
  BY <1>3, <1>4, <1>5, <1>6, LookupAssumption
<1> QED BY <1>1, <1>13, <1>14, <1>15, <1>16 DEF LookupInv

\* So does a message: one less in flight, and one less waiting or one stray more.
LEMMA MessageKeeps ==
  ASSUME LookupInv, outcome = "running",
         NEW W \in SUBSET waiting, NEW s \in 0 .. MaxStrays,
         inFlight - 1 + s = Cardinality(W),
         Message(W), strays' = s
  PROVE  LookupInv' /\ outcome' # "off"
<1> USE DEF LookupInv, LookupTypeOK
<1>1. inFlight \in 1 .. Alpha /\ OneLess(inFlight) = inFlight - 1
  BY LookupAssumption DEF SlotsAreExact, OneLess, Larger
<1>2. PICK nodes \in SUBSET (Nodes \ known), values \in SUBSET (Peers \ found) :
         /\ found' = found \cup values
         /\ IF Cardinality(found \cup values) >= EnoughPeers
            THEN /\ outcome' = "enough"
                 /\ waiting' = W /\ inFlight' = OneLess(inFlight)
                 /\ known' = known \cup nodes
                 /\ UNCHANGED queried
            ELSE Pump(known \cup nodes, W, OneLess(inFlight))
  BY DEF Message
<1>3. CASE Cardinality(found \cup values) >= EnoughPeers
  <2>1. /\ outcome' = "enough" /\ found' \subseteq Peers
        /\ waiting' = W /\ inFlight' = inFlight - 1
        /\ known' = known \cup nodes /\ queried' = queried
    BY <1>1, <1>2, <1>3
  <2>2. inFlight' \in 0 .. Alpha
    BY <1>1, <2>1, LookupAssumption
  <2>3. LookupTypeOK'
    BY <2>1, <2>2
  <2>4. SlotsAreExact' /\ NoSlotIdles'
    BY <2>1 DEF SlotsAreExact, NoSlotIdles
  <2> QED BY <2>1, <2>3, <2>4
<1>4. CASE ~(Cardinality(found \cup values) >= EnoughPeers)
  <2> DEFINE k == known \cup nodes
             n == inFlight - 1
  <2>1. Pump(k, W, n)
    BY <1>1, <1>2, <1>4
  <2>2. /\ k \in SUBSET Nodes /\ queried \subseteq k /\ W \in SUBSET queried
        /\ n \in 0 .. Alpha /\ n + s = Cardinality(W)
        /\ found' \subseteq Peers
    BY <1>1, <1>2, LookupAssumption
  <2> HIDE DEF k, n
  <2> QED BY <2>1, <2>2, PumpFills
<1> QED BY <1>3, <1>4

\* Every step of a running lookup keeps its invariant.
LEMMA LookupKeeps ==
  ASSUME LookupInv,
         Lookup \/ UNCHANGED lookupVars
  PROVE  LookupInv' /\ (outcome' = "off" => outcome = "off")
<1> USE DEF LookupInv, LookupTypeOK
<1>1. ASSUME NEW n \in Nodes, n \in waiting, outcome = "running"
      PROVE  /\ waiting \ {n} \in SUBSET waiting
             /\ strays \in 0 .. MaxStrays
             /\ inFlight - 1 + strays = Cardinality(waiting \ {n})
  BY <1>1, FS_RemoveElement, NodeSets, LookupAssumption DEF SlotsAreExact
<1>2. ASSUME NEW n \in Nodes, Reply(n)
      PROVE  LookupInv' /\ outcome' # "off"
  <2> DEFINE W == waiting \ {n}
             s == strays
  <2>1. W \in SUBSET waiting /\ s \in 0 .. MaxStrays /\ inFlight - 1 + s = Cardinality(W)
    BY <1>1, <1>2 DEF Reply
  <2>2. outcome = "running" /\ Message(W) /\ strays' = s
    BY <1>2 DEF Reply
  <2> HIDE DEF W, s
  <2> QED BY <2>1, <2>2, MessageKeeps
<1>3. ASSUME Stray
      PROVE  LookupInv' /\ outcome' # "off"
  <2> DEFINE s == strays + 1
  <2>1. s \in 0 .. MaxStrays /\ inFlight - 1 + s = Cardinality(waiting)
    BY <1>3, LookupAssumption DEF Stray, SlotsAreExact
  <2>2. outcome = "running" /\ Message(waiting) /\ strays' = s
    BY <1>3 DEF Stray
  <2> HIDE DEF s
  <2> QED BY <2>1, <2>2, MessageKeeps
<1>4. ASSUME NEW n \in Nodes, SendFails(n)
      PROVE  LookupInv' /\ outcome' # "off"
  <2> DEFINE W == waiting \ {n}
             s == strays
             m == inFlight - 1
  <2>1. m + s = Cardinality(W) /\ s \in 0 .. MaxStrays
    BY <1>1, <1>4 DEF SendFails
  <2>2. OneLess(inFlight) = m /\ m \in 0 .. Alpha
    BY <1>4, LookupAssumption DEF SendFails, SlotsAreExact, OneLess, Larger
  <2>3. Pump(known, W, m) /\ found' \subseteq Peers /\ strays' = s
    BY <1>4, <2>2 DEF SendFails
  <2>4. W \in SUBSET queried /\ known \in SUBSET Nodes
    OBVIOUS
  <2> HIDE DEF W, s, m
  <2> QED BY <2>1, <2>2, <2>3, <2>4, PumpFills
<1>5. ASSUME LookupTimer \/ LookupSocketError
      PROVE  LookupInv' /\ outcome' # "off"
  BY <1>5 DEF LookupTimer, LookupSocketError, LookupOver, SlotsAreExact, NoSlotIdles, AllAsked
<1>6. ASSUME UNCHANGED lookupVars
      PROVE  LookupInv' /\ (outcome' = "off" => outcome = "off")
  BY <1>6 DEF lookupVars, SlotsAreExact, NoSlotIdles, AllAsked
<1> QED BY <1>2, <1>3, <1>4, <1>5, <1>6 DEF Lookup, Answered

\* The lookup starts with every slot it can fill.
LEMMA StartFills ==
  ASSUME NoLookup, StartLookup
  PROVE  LookupInv' /\ outcome' # "off"
<1>1. PICK routers \in SUBSET Nodes : Pump(routers, {}, 0)
  BY DEF StartLookup
<1>2. /\ found' \subseteq Peers /\ strays' = 0
      /\ queried = {} /\ Cardinality({}) = 0
  BY FS_EmptySet DEF NoLookup, StartLookup
<1>3. 0 \in 0 .. Alpha /\ 0 \in 0 .. MaxStrays /\ Cardinality(queried) <= MaxQueried
  BY <1>2, LookupAssumption
<1> QED BY <1>1, <1>2, <1>3, PumpFills

\* A lookup that has not started satisfies its invariant.
LEMMA NoLookupFits ==
  ASSUME NoLookup
  PROVE  LookupInv
BY FS_EmptySet, LookupAssumption
   DEF NoLookup, LookupInv, LookupTypeOK, SlotsAreExact, NoSlotIdles

-----------------------------------------------------------------------------
(* The discovery.                                                          *)

\* A process whose verdict on UDP is cached or not satisfies the invariant.
LEMMA Initially ==
  ASSUME Init
  PROVE  IInv
BY NoLookupFits DEF Init, IInv, TypeOK, LookupInv, Started, EverySourceCounts, NoAnswer

\* Steps that leave the lookup alone.
Aside ==
  \/ Begin \/ Answer \/ ProbeReply \/ ProbeFails
  \/ \E k \in UdpTrackers : TrackerSends(k) \/ UdpConnection(k) \/ UdpPeers(k) \/ UdpError(k)
  \/ \E k \in HttpTrackers : HttpResponse(k)
  \/ \E k \in Trackers : TrackerTimer(k)

\* The steps of probe, trackers and answer leave the lookup as it is.
LEMMA AsideKeeps ==
  ASSUME IInv, Aside
  PROVE  IInv'
<1> USE DEF IInv, TypeOK, Packet, Settles, ProbeOver
<1>1. UNCHANGED lookupVars
  BY DEF Aside, Begin, Answer, ProbeReply, ProbeFails, TrackerSends, UdpConnection,
         UdpPeers, UdpError, HttpResponse, TrackerTimer
<1>2. LookupInv' /\ (NoLookup => NoLookup') /\ outcome' = outcome /\ found' = found
  BY <1>1, LookupKeeps DEF lookupVars, NoLookup
<1>3. ASSUME Begin
      PROVE  IInv'
  BY <1>2, <1>3 DEF Begin, LookupInv, Started, EverySourceCounts
<1>4. ASSUME Answer
      PROVE  IInv'
  <2>1. answer' \in [peers : SUBSET Peers, ok : SUBSET (Trackers \cup {"dht"})]
    BY <1>4, AnnounceAssumption DEF Answer, Fulfilled, Heard, LookupTypeOK
  <2>2. EverySourceCounts'
    BY <1>2, <1>4 DEF Answer, AllSettled, EverySourceCounts, Fulfilled, Heard
  <2> QED BY <1>2, <1>4, <2>1, <2>2 DEF Answer, LookupInv, Started
<1>5. ASSUME ProbeReply \/ ProbeFails
      PROVE  IInv'
  BY <1>2, <1>5 DEF ProbeReply, ProbeFails, LookupInv, Started, EverySourceCounts, Fulfilled, Heard
<1>6. ASSUME NEW k \in UdpTrackers, TrackerSends(k) \/ UdpConnection(k)
      PROVE  IInv'
  BY <1>2, <1>6
     DEF TrackerSends, UdpConnection, LookupInv, Started, EverySourceCounts, Fulfilled, Heard
<1>7. ASSUME NEW k \in Trackers, NEW how \in {"fulfilled", "rejected"}, Settles(k, how)
      PROVE  IInv'
  <2>1. job # "answered"
    BY <1>7 DEF EverySourceCounts
  <2> QED BY <1>2, <1>7, <2>1 DEF LookupInv, Started, EverySourceCounts
<1> QED BY <1>3, <1>4, <1>5, <1>6, <1>7
        DEF Aside, UdpPeers, UdpError, HttpResponse, TrackerTimer, Trackers

\* Launching the sources starts a lookup that satisfies its invariant, or none.
LEMMA LaunchKeeps ==
  ASSUME IInv, Launch
  PROVE  IInv'
<1>1. NoLookup /\ job' = "waiting"
  BY DEF Launch, IInv, Started
<1>2. LookupInv' /\ outcome' # "off"
  <2>1. CASE noDht \/ probe = "no"
    <3>1. /\ known' = {} /\ queried' = {} /\ waiting' = {} /\ inFlight' = 0
          /\ found' = {} /\ outcome' = "error" /\ strays' = 0
      BY <1>1, <2>1 DEF Launch, NoLookup
    <3>2. LookupTypeOK' /\ 0 <= MaxQueried
      BY <3>1, LookupAssumption DEF LookupTypeOK
    <3> QED BY <3>1, <3>2, FS_EmptySet DEF LookupInv, SlotsAreExact, NoSlotIdles
  <2>2. CASE ~(noDht \/ probe = "no")
    BY <1>1, <2>2, StartFills DEF Launch
  <2> QED BY <2>1, <2>2
<1>3. TypeOK'
  BY <1>1, <1>2 DEF Launch, IInv, TypeOK, LookupInv, Packet
<1> QED BY <1>1, <1>2, <1>3 DEF IInv, Started, EverySourceCounts

\* A step of the lookup is taken only while the sources are waited for.
LEMMA LookupStepKeeps ==
  ASSUME IInv, Lookup
  PROVE  IInv'
<1>1. LookupInv' /\ (outcome' = "off" => outcome = "off") /\ UNCHANGED announceVars
  BY LookupKeeps DEF IInv, Lookup
<1>2. outcome = "running"
  BY DEF Lookup, Answered, Reply, SendFails, Stray, LookupTimer, LookupSocketError, LookupOver
<1>3. job = "waiting"
  BY <1>2 DEF IInv, TypeOK, Started, NoLookup, EverySourceCounts
<1> QED BY <1>1, <1>2, <1>3
        DEF announceVars, IInv, TypeOK, LookupInv, Started, EverySourceCounts

\* The inductive invariant holds of every discovery, under any loss, repetition
\* or reordering of packets.
THEOREM DiscoveryInvariant == Spec => []IInv
<1>1. Init => IInv
  BY Initially
<1>2. IInv /\ [Next]_vars => IInv'
  <2>1. ASSUME IInv, Next PROVE IInv'
    BY <2>1, AsideKeeps, LaunchKeeps, LookupStepKeeps DEF Next, Aside
  <2>2. ASSUME IInv, UNCHANGED vars PROVE IInv'
    <3>1. LookupInv'
      BY <2>2, LookupKeeps DEF IInv, vars
    <3> QED BY <2>2, <3>1
        DEF vars, lookupVars, announceVars, IInv, TypeOK, LookupInv, Started, NoLookup,
            EverySourceCounts, Fulfilled, Heard
  <2> QED BY <2>1, <2>2
<1> QED BY <1>1, <1>2, PTL DEF Spec

\* Every variable of a discovery keeps its type; in particular no more than ALPHA
\* slots are ever counted as taken (dht.ts:126).
THEOREM DiscoveryTypes == Spec => []TypeOK
BY DiscoveryInvariant, PTL DEF IInv

\* The slots counted as taken are those of the queries that wait, less one for
\* every stray, and a running lookup has a query out (dht.ts:101-112, 152).
THEOREM SlotsStayExact == Spec => []SlotsAreExact
BY DiscoveryInvariant, PTL DEF IInv, LookupInv

\* The pump leaves no slot idle while there is a node to ask, and a lookup that
\* ends of itself has asked all it could (dht.ts:118-135).
THEOREM SlotsNeverIdle == Spec => []NoSlotIdles
BY DiscoveryInvariant, PTL DEF IInv, LookupInv

\* An answer has the peers of every source that gave any, and waits for all of
\* them (tracker.ts:44-75).
THEOREM AnswersAreWhole == Spec => []EverySourceCounts
BY DiscoveryInvariant, PTL DEF IInv

-----------------------------------------------------------------------------
(* The discovery as the page sees it.                                      *)

\* Before the sources are asked, none has given anything.
LEMMA NothingHeardYet ==
  ASSUME IInv, job \in {"idle", "probing"}
  PROVE  Heard = {} /\ Replies = <<>>
BY DEF IInv, Started, NoLookup, Heard, Fulfilled, Replies

\* A tracker that settles gives what it knows, or nothing.
LEMMA SettledIsHeard ==
  ASSUME IInv, NEW k \in Trackers, NEW how \in {"fulfilled", "rejected"}, Settles(k, how)
  PROVE  Contract!Hear
<1>1. job # "answered" /\ UNCHANGED <<found, job>>
  BY DEF Settles, IInv, EverySourceCounts, lookupVars
<1>2. Replies = <<>> /\ Replies' = <<>>
  BY <1>1 DEF Replies
<1>3. source' = [source EXCEPT ![k] = how] /\ source \in [Trackers -> {"off", "pending", "fulfilled", "rejected"}]
      /\ source[k] = "pending"
  BY DEF Settles, IInv, TypeOK
<1>4. CASE how = "fulfilled"
  <2>1. Fulfilled' = Fulfilled \cup {k}
    BY <1>3, <1>4 DEF Fulfilled
  <2>2. Heard' = Heard \cup Lists[k] /\ Lists[k] \in SUBSET Peers
    BY <1>1, <2>1, AnnounceAssumption DEF Heard
  <2> QED BY <1>2, <2>2 DEF Contract!Hear
<1>5. CASE how = "rejected"
  <2>1. Fulfilled' = Fulfilled
    BY <1>3, <1>5 DEF Fulfilled
  <2>2. Heard' = Heard \cup {}
    BY <1>1, <2>1 DEF Heard
  <2> QED BY <1>2, <2>2 DEF Contract!Hear
<1> QED BY <1>4, <1>5

\* A step of the lookup adds to the peers found.
LEMMA LookupIsHeard ==
  ASSUME IInv, Lookup
  PROVE  Contract!Hear
<1>1. outcome = "running" /\ UNCHANGED announceVars
  BY DEF Lookup, Answered, Reply, SendFails, Stray, LookupTimer, LookupSocketError, LookupOver
<1>2. job = "waiting"
  BY <1>1 DEF IInv, TypeOK, Started, NoLookup, EverySourceCounts
<1>3. Replies = <<>> /\ Replies' = <<>> /\ Fulfilled' = Fulfilled
  BY <1>1, <1>2 DEF announceVars, Replies, Fulfilled
<1>4. PICK values \in SUBSET Peers : found' = found \cup values
  <2>1. ASSUME NEW W, Message(W)
        PROVE  \E values \in SUBSET Peers : found' = found \cup values
    BY <2>1 DEF Message
  <2>2. ASSUME UNCHANGED found
        PROVE  \E values \in SUBSET Peers : found' = found \cup values
    <3>1. found' = found \cup {}
      BY <2>2
    <3> QED BY <3>1
  <2> QED BY <2>1, <2>2
          DEF Lookup, Answered, Reply, SendFails, Stray, LookupTimer, LookupSocketError, LookupOver
<1>5. Heard' = Heard \cup values
  BY <1>3, <1>4 DEF Heard
<1> QED BY <1>3, <1>5 DEF Contract!Hear

\* Each step of a discovery is a step of the contract or leaves what the page
\* can tell alone.
LEMMA ContractStep ==
  ASSUME IInv, [Next]_vars
  PROVE  [Contract!Hear \/ Contract!GiveReply]_Contract!contractVars
<1> USE DEF Contract!contractVars
<1>1. ASSUME Begin \/ ProbeReply \/ ProbeFails
      PROVE  UNCHANGED <<Heard, Replies>>
  BY <1>1 DEF Begin, ProbeReply, ProbeFails, ProbeOver, lookupVars, Heard, Fulfilled, Replies
<1>2. ASSUME Launch
      PROVE  UNCHANGED <<Heard, Replies>>
  <2>1. Heard = {} /\ Replies = <<>> /\ found = {}
    BY <1>2, NothingHeardYet DEF Launch, IInv, Started, NoLookup
  <2>2. found' = {} /\ Replies' = <<>>
    BY <1>2, <2>1 DEF Launch, StartLookup, Replies
  <2>3. Fulfilled' = {}
    BY <1>2 DEF Launch, Fulfilled
  <2> QED BY <2>1, <2>2, <2>3 DEF Heard
<1>3. ASSUME Answer
      PROVE  Contract!GiveReply
  BY <1>3 DEF Answer, lookupVars, Heard, Fulfilled, Replies, Contract!GiveReply
<1>4. ASSUME NEW k \in UdpTrackers, TrackerSends(k) \/ UdpConnection(k)
      PROVE  UNCHANGED <<Heard, Replies>>
  BY <1>4 DEF TrackerSends, UdpConnection, lookupVars, Heard, Fulfilled, Replies
<1>5. ASSUME UNCHANGED vars
      PROVE  UNCHANGED <<Heard, Replies>>
  BY <1>5 DEF vars, lookupVars, announceVars, Heard, Fulfilled, Replies
<1> QED BY <1>1, <1>2, <1>3, <1>4, <1>5, SettledIsHeard, LookupIsHeard
        DEF Next, UdpPeers, UdpError, HttpResponse, TrackerTimer, Trackers

\* To the page a discovery is what DiscoveryContract says: peers are collected
\* and never lost, and one reply has them all (tracker.ts:44-83), for any nodes,
\* trackers, strays, losses and repetitions.
THEOREM DiscoveryKeepsContract == Spec => Contract!ContractSafety
<1>1. Init => Contract!ContractInit
  BY DEF Init, NoLookup, Contract!ContractInit, Heard, Fulfilled, Replies
<1> QED BY <1>1, DiscoveryInvariant, ContractStep, PTL
        DEF Spec, Contract!ContractSafety
=============================================================================
