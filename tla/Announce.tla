------------------------------ MODULE Announce ------------------------------
(***************************************************************************)
(* One peer discovery, /api/announce: the trackers of lib/tracker.ts and   *)
(* the lookup of lib/dht.ts side by side, once lib/net-probe.ts has said   *)
(* whether UDP gets out at all.  The verdict of the probe is kept for the  *)
(* life of the process: a discovery may find it there, or being made.      *)
(*                                                                         *)
(* UDP packets are lost, repeated and reordered: a packet once sent may be *)
(* received any number of times.  On a prompt network all that is asked is *)
(* answered, before the timer that is set for it.                          *)
(***************************************************************************)
EXTENDS DhtLookup

CONSTANTS
  UdpTrackers,    \* udp: announce URLs
  HttpTrackers,   \* http: and https: URLs, the fallbacks included
  Lists           \* the peers each tracker knows of

Trackers == UdpTrackers \cup HttpTrackers

ASSUME AnnounceAssumption ==
  /\ UdpTrackers \cap HttpTrackers = {}
  /\ Lists \in [Trackers -> SUBSET Peers]

VARIABLES
  prompt,         \* the network is prompt
  noDht,          \* the request asks for no DHT lookup
  probe,          \* cached: none, asking, yes, no
  job,            \* announce(): idle, probing, waiting, answered
  packets,        \* UDP packets sent by and to trackers: [tracker, type]
  source,         \* what the client has from each tracker
  answer          \* the peers, and the sources that are said to be ok

announceVars == <<prompt, noDht, probe, job, packets, source, answer>>
vars == <<lookupVars, announceVars>>

NoAnswer == [peers |-> {}, ok |-> {}]

TypeOK ==
  /\ LookupTypeOK
  /\ {prompt, noDht} \subseteq BOOLEAN
  /\ probe \in {"none", "asking", "yes", "no"}
  /\ job \in {"idle", "probing", "waiting", "answered"}
  /\ packets \subseteq [tracker : UdpTrackers,
                        type : {"connect", "connection", "announce", "peers", "error"}]
  /\ source \in [Trackers -> {"off", "pending", "fulfilled", "rejected"}]
  /\ answer \in [peers : SUBSET Peers, ok : SUBSET (Trackers \cup {"dht"})]

Init ==
  /\ NoLookup
  /\ prompt \in BOOLEAN /\ noDht \in BOOLEAN
  /\ probe \in {"none", "asking", "yes", "no"}
  /\ job = "idle"
  /\ packets = {}
  /\ source = [k \in Trackers |-> "off"]
  /\ answer = NoAnswer

-----------------------------------------------------------------------------
(* The probe.                                                              *)

\* announce awaits udpAvailable, which starts the probe if nobody has.
Begin ==
  /\ job = "idle"
  /\ job' = "probing"
  /\ probe' = IF probe = "none" THEN "asking" ELSE probe
  /\ UNCHANGED <<lookupVars, prompt, noDht, packets, source, answer>>

ProbeOver(verdict) ==
  /\ probe = "asking"
  /\ probe' = verdict
  /\ UNCHANGED <<lookupVars, prompt, noDht, job, packets, source, answer>>

ProbeReply == ProbeOver("yes")
ProbeFails == ~prompt /\ ProbeOver("no")

-----------------------------------------------------------------------------
(* Trackers.                                                               *)

Packet(k, type) == [tracker |-> k, type |-> type]

\* Every source is asked; without UDP, those that need it fail at once.
Launch ==
  /\ job = "probing" /\ probe \in {"yes", "no"}
  /\ job' = "waiting"
  /\ source' = [k \in Trackers |->
                  IF k \in UdpTrackers /\ probe = "no" THEN "rejected" ELSE "pending"]
  /\ packets' = IF probe = "no" THEN {} ELSE {Packet(k, "connect") : k \in UdpTrackers}
  /\ IF noDht \/ probe = "no"
     THEN outcome' = "error" /\ UNCHANGED <<known, queried, waiting, inFlight, found, strays>>
     ELSE StartLookup
  /\ UNCHANGED <<prompt, noDht, probe, answer>>

\* A tracker answers a connect with a connection id and an announce with its
\* list, or either with an error.
TrackerSends(k) ==
  /\ \E asked \in {"connect", "announce"},
        type \in {"connection", "peers", "error"} :
       /\ Packet(k, asked) \in packets
       /\ type # (IF asked = "connect" THEN "peers" ELSE "connection")
       /\ packets' = packets \cup {Packet(k, type)}
  /\ UNCHANGED <<lookupVars, prompt, noDht, probe, job, source, answer>>

\* The connection id arrives, perhaps again: the announce is sent.
UdpConnection(k) ==
  /\ source[k] = "pending" /\ Packet(k, "connection") \in packets
  /\ packets' = packets \cup {Packet(k, "announce")}
  /\ UNCHANGED <<lookupVars, prompt, noDht, probe, job, source, answer>>

Settles(k, how) ==
  /\ source[k] = "pending"
  /\ source' = [source EXCEPT ![k] = how]
  /\ UNCHANGED <<lookupVars, prompt, noDht, probe, job, packets, answer>>

UdpPeers(k) == Packet(k, "peers") \in packets /\ Settles(k, "fulfilled")
UdpError(k) == Packet(k, "error") \in packets /\ Settles(k, "rejected")

\* The tracker's list, a failure reason, or a response that cannot be read.
HttpResponse(k) == \E how \in {"fulfilled", "rejected"} : Settles(k, how)

\* Eight seconds have passed, or the socket fails.
TrackerTimer(k) == ~prompt /\ Settles(k, "rejected")

-----------------------------------------------------------------------------
\* Mutant of AllSettled: the DHT is not waited for.
AllSettled_TrackersOnly == \A k \in Trackers : source[k] \in {"fulfilled", "rejected"}

AllSettled ==
  /\ \A k \in Trackers : source[k] \in {"fulfilled", "rejected"}
  /\ outcome \notin {"off", "running"}

Fulfilled == {k \in Trackers : source[k] = "fulfilled"}

\* The peers the sources have given so far.
Heard == found \cup UNION {Lists[k] : k \in Fulfilled}

Answer ==
  /\ job = "waiting" /\ AllSettled
  /\ job' = "answered"
  /\ answer' = [peers |-> Heard,
                ok |-> Fulfilled \cup (IF outcome = "error" THEN {} ELSE {"dht"})]
  /\ UNCHANGED <<lookupVars, prompt, noDht, probe, packets, source>>

Lookup ==
  \/ \E n \in Nodes : Answered(n) /\ UNCHANGED announceVars
  \/ Stray /\ UNCHANGED announceVars
  \/ LookupSocketError /\ UNCHANGED announceVars
  \/ ~prompt /\ LookupTimer /\ UNCHANGED announceVars

Next ==
  \/ Begin \/ Launch \/ Answer
  \/ ProbeReply \/ ProbeFails
  \/ \E k \in UdpTrackers : TrackerSends(k) \/ UdpConnection(k) \/ UdpPeers(k) \/ UdpError(k)
  \/ \E k \in HttpTrackers : HttpResponse(k)
  \/ \E k \in Trackers : TrackerTimer(k)
  \/ Lookup

Spec == Init /\ [][Next]_vars

\* Timers fire; on a prompt network everything is answered instead.
Fairness ==
  /\ WF_vars(Begin) /\ WF_vars(Launch) /\ WF_vars(Answer)
  /\ WF_vars(ProbeReply \/ ProbeFails)
  /\ \A k \in Trackers : WF_vars(TrackerTimer(k))
  /\ WF_vars(~prompt /\ LookupTimer /\ UNCHANGED announceVars)
  /\ \A n \in Nodes : WF_vars(prompt /\ Answered(n) /\ UNCHANGED announceVars)
  /\ \A k \in HttpTrackers : WF_vars(prompt /\ HttpResponse(k))
  /\ \A k \in UdpTrackers :
       /\ WF_vars(prompt /\ TrackerSends(k))
       /\ WF_vars(prompt /\ UdpConnection(k))
       /\ WF_vars(prompt /\ (UdpPeers(k) \/ UdpError(k)))

FairSpec == Spec /\ Fairness

-----------------------------------------------------------------------------
(* The answer has the peers of every source that gave any, whichever others *)
(* failed, and of no other (tracker.ts:60-75); it is not made while one is  *)
(* still asked, whose peers would be lost.                                  *)
EverySourceCounts ==
  job = "answered" =>
    /\ answer.peers = Heard
    /\ outcome # "running" /\ \A k \in Trackers : source[k] # "pending"

\* The reply the page gets, once it is made.
Replies == IF job = "answered" THEN <<answer.peers>> ELSE <<>>

Contract == INSTANCE DiscoveryContract WITH heard <- Heard, replies <- Replies

(* A discovery is what DiscoveryContract promises.  No step of a probe, a   *)
(* tracker or the lookup takes back a peer once given, and none gives one   *)
(* when the reply is already made (tracker.ts:44-75).  There always is a    *)
(* reply: on a network that loses whatever it likes because each wait has   *)
(* its timer, and without any timer on one that answers everything, because *)
(* each wait ends with its last answer.                                     *)
ImplementsContract == Contract!ContractSpec
=============================================================================
