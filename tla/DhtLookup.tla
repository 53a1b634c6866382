----------------------------- MODULE DhtLookup -----------------------------
(***************************************************************************)
(* dhtGetPeers, lib/dht.ts: an iterative get_peers lookup over UDP, which  *)
(* loses, repeats and reorders messages.                                   *)
(*                                                                         *)
(* A node is an address, numbered by its distance from the infohash, which *)
(* is that of the id it is first mentioned with.  A message that is lost   *)
(* or cannot be decoded does not happen; one that answers no outstanding   *)
(* query (a repeated answer, or an unasked one) is a stray.                *)
(***************************************************************************)
EXTENDS Integers, FiniteSets

CONSTANTS
  Nodes,          \* numbers, closest first
  NumRouters,     \* BOOTSTRAP.length
  Peers,
  Alpha,          \* ALPHA
  MaxQueried,     \* MAX_NODES_QUERIED
  EnoughPeers,    \* 200
  MaxStrays       \* a bound on stray messages

ASSUME LookupAssumption ==
  /\ Nodes \subseteq Nat /\ IsFiniteSet(Nodes)
  /\ IsFiniteSet(Peers)
  /\ {NumRouters, Alpha, MaxQueried, EnoughPeers} \subseteq Nat \ {0}
  /\ MaxStrays \in Nat

VARIABLES
  known,          \* candidates
  queried,
  waiting,        \* pending: nodes whose answer is outstanding
  inFlight,
  found,          \* peers
  outcome,        \* how the lookup ended, if it has
  strays          \* stray messages so far

lookupVars == <<known, queried, waiting, inFlight, found, outcome, strays>>

Smaller(m, n) == IF m < n THEN m ELSE n
Larger(m, n) == IF m > n THEN m ELSE n

LookupTypeOK ==
  /\ known \subseteq Nodes
  /\ queried \subseteq known
  /\ waiting \subseteq queried
  /\ inFlight \in 0 .. Alpha
  /\ found \subseteq Peers
  /\ outcome \in {"off", "running", "exhausted", "enough", "deadline", "error"}
  /\ strays \in 0 .. MaxStrays

NoLookup ==
  /\ known = {} /\ queried = {} /\ waiting = {} /\ inFlight = 0
  /\ found = {} /\ outcome = "off" /\ strays = 0

\* The n closest nodes of S: a set of one set.
Closest(S, n) ==
  {T \in SUBSET S : /\ Cardinality(T) = Smaller(n, Cardinality(S))
                    /\ \A i \in T, j \in S \ T : i < j}

\* Mutant of Free: as many as the crawl still allows.
Free_Crawl(n) == MaxQueried - Cardinality(queried)

\* Mutant of Free: the last query the crawl bound allows is never sent.
Free_OneShort(n) == Larger(0, Smaller(Alpha - n, MaxQueried - 1 - Cardinality(queried)))

\* Queries that may be sent now, while n are outstanding.
Free(n) == Larger(0, Smaller(Alpha - n, MaxQueried - Cardinality(queried)))

\* Mutant of Ends: at the crawl bound the last answer does not end the lookup.
Ends_NotAtBound(n) == n = 0 /\ Cardinality(queried) < MaxQueried

\* With n queries outstanding after the pump, nothing more will come.
Ends(n) == n = 0

\* pump, with candidates k, unanswered queries W and n slots taken.
Pump(k, W, n) ==
  \E new \in Closest(k \ queried, Free(n)) :
    /\ known' = k
    /\ queried' = queried \cup new
    /\ waiting' = W \cup new
    /\ inFlight' = n + Cardinality(new)
    /\ outcome' = IF Ends(n + Cardinality(new)) THEN "exhausted" ELSE "running"

\* The lookup starts with the bootstrap routers, under ids drawn for them.
StartLookup ==
  /\ \E routers \in {S \in SUBSET Nodes : Cardinality(S) = NumRouters} :
       Pump(routers, {}, 0)
  /\ UNCHANGED <<found, strays>>

\* Mutant of OneLess: a failed or answered query keeps its slot.
OneLess_Kept(n) == n

OneLess(n) == Larger(0, n - 1)

\* A message is taken, whatever it answers: it frees a slot, its values are
\* collected and its nodes become candidates.  Only the new ones count.
Message(W) ==
  \E nodes \in SUBSET (Nodes \ known), values \in SUBSET (Peers \ found) :
    /\ found' = found \cup values
    /\ IF Cardinality(found \cup values) >= EnoughPeers
       THEN /\ outcome' = "enough"
            /\ waiting' = W /\ inFlight' = OneLess(inFlight)
            /\ known' = known \cup nodes
            /\ UNCHANGED queried
       ELSE Pump(known \cup nodes, W, OneLess(inFlight))

Reply(n) ==
  /\ outcome = "running" /\ n \in waiting
  /\ Message(waiting \ {n})
  /\ UNCHANGED strays

Stray ==
  /\ outcome = "running" /\ strays < MaxStrays
  /\ Message(waiting)
  /\ strays' = strays + 1

\* The query could not be sent.
SendFails(n) ==
  /\ outcome = "running" /\ n \in waiting
  /\ Pump(known, waiting \ {n}, OneLess(inFlight))
  /\ UNCHANGED <<found, strays>>

LookupOver(how) ==
  /\ outcome = "running"
  /\ outcome' = how
  /\ UNCHANGED <<known, queried, waiting, inFlight, found, strays>>

LookupTimer == LookupOver("deadline")
LookupSocketError == LookupOver("error")

Answered(n) == Reply(n) \/ SendFails(n)

-----------------------------------------------------------------------------
(* A slot is taken exactly by the queries that wait, less those whose slot  *)
(* a stray freed (dht.ts:152): the lookup never has more than ALPHA queries *)
(* out but for strays, and while it runs at least one is out, so that there *)
(* is an answer, or its failure, to drive it on.                            *)
SlotsAreExact ==
  /\ outcome # "off" => inFlight + strays = Cardinality(waiting)
  /\ outcome = "running" => inFlight \in 1 .. Alpha

AllAsked == known \subseteq queried \/ Cardinality(queried) = MaxQueried

(* No slot idles while there is a node to ask (dht.ts:124-133), so that a   *)
(* lookup that ends of itself has asked every node it heard of, or as many  *)
(* as it may, and waits for no answer but those a stray stood in for.       *)
NoSlotIdles ==
  /\ outcome = "running" /\ inFlight < Alpha => AllAsked
  /\ outcome = "exhausted" => AllAsked /\ Cardinality(waiting) = strays
=============================================================================
