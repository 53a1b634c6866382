--------------------------- MODULE MetadataSession ---------------------------
(***************************************************************************)
(* fetchMetadata, lib/metadata-session.ts: the info dict of a magnet link, *)
(* pulled in pieces from many peers over ut_metadata, and the part of      *)
(* lib/peer.ts it drives.  No scheduler is attached, so that pump does     *)
(* nothing and each message is a step of its own.                          *)
(*                                                                         *)
(* A size is abstracted to the number of pieces it makes; the bytes of a   *)
(* piece to whether they are those of the info dict at that place.         *)
(***************************************************************************)
EXTENDS Integers, FiniteSets

CONSTANTS
  Peers,          \* the connections, peers.slice(0, MAX_PEERS)
  Complete,       \* those that have the info dict and answer, as long as they stay
  InfoPieces,     \* pieces of the info dict
  MaxPieces       \* pieces of MAX_METADATA_SIZE

ASSUME MetadataAssumption ==
  /\ IsFiniteSet(Peers) /\ Complete \subseteq Peers
  /\ InfoPieces \in Nat \ {0} /\ MaxPieces \in Nat /\ InfoPieces <= MaxPieces

VARIABLES
  phase,          \* of each socket: connecting, handshaking, open, finished
  supports,       \* supportsMetadata of each connection
  asked,          \* pieces each connection was asked for (requestedFrom)
  owed,           \* requests a complete peer has yet to answer
  pieces,         \* the buffers; no piece until the size is known
  received,
  live,           \* liveConnections
  hashing,        \* sha1Hex of the assembled pieces is under way
  result          \* pending, info, error or timeout

vars == <<phase, supports, asked, owed, pieces, received, live, hashing, result>>

Contents == {"none", "good", "bad", "empty"}
Buffers == UNION {[0 .. (n - 1) -> Contents] : n \in 0 .. MaxPieces}

TypeOK ==
  /\ phase \in [Peers -> {"connecting", "handshaking", "open", "finished"}]
  /\ supports \in [Peers -> BOOLEAN]
  /\ asked \in [Peers -> SUBSET (0 .. (MaxPieces - 1))]
  /\ owed \in [Complete -> SUBSET (0 .. (MaxPieces - 1))]
  /\ pieces \in Buffers
  /\ received \in 0 .. MaxPieces
  /\ live \in Nat
  /\ hashing \in BOOLEAN
  /\ result \in {"pending", "info", "error", "timeout"}

Init ==
  /\ phase = [p \in Peers |-> "connecting"]
  /\ supports = [p \in Peers |-> FALSE]
  /\ asked = [p \in Peers |-> {}]
  /\ owed = [p \in Complete |-> {}]
  /\ pieces = [i \in {} |-> "none"]
  /\ received = 0
  /\ live = Cardinality(Peers)
  /\ hashing = FALSE
  /\ result = IF Peers = {} THEN "error" ELSE "pending"

-----------------------------------------------------------------------------
Pending == result = "pending"
Unfinished == {p \in Peers : phase[p] # "finished"}
Known(buffers) == DOMAIN buffers # {}

\* fail() of the connections in gone, none of which has finished.
Stop(gone) ==
  /\ phase' = [p \in Peers |-> IF p \in gone THEN "finished" ELSE phase[p]]
  /\ owed' = [p \in Complete |-> IF p \in gone THEN {} ELSE owed[p]]
  /\ live' = live - Cardinality(gone)
  /\ UNCHANGED <<supports, asked, pieces, received>>

\* Mutant of Finish: the connections are left running.
Finish_Leaves(outcome) ==
  result' = outcome /\ UNCHANGED <<phase, owed, live, supports, asked, pieces, received>>

\* finish: the first outcome counts, and stops every connection.
Finish(outcome) == result' = outcome /\ Stop(Unfinished)

Connect(p) ==
  /\ phase[p] = "connecting"
  /\ phase' = [phase EXCEPT ![p] = "handshaking"]
  /\ UNCHANGED <<supports, asked, owed, pieces, received, live, hashing, result>>

Handshake(p) ==
  /\ phase[p] = "handshaking"
  /\ phase' = [phase EXCEPT ![p] = "open"]
  /\ UNCHANGED <<supports, asked, owed, pieces, received, live, hashing, result>>

\* Mutant of GivesUp: whether or not a size is known.
GivesUp_Sized == live = 1 /\ Pending

\* onDone: nobody is left and nobody told the size.
GivesUp == live = 1 /\ ~Known(pieces) /\ Pending

SocketFails(p) ==
  /\ phase[p] # "finished"
  /\ IF GivesUp THEN Finish("error") ELSE Stop({p}) /\ UNCHANGED result
  /\ UNCHANGED hashing

\* initBuffers: the first size that any peer tells is taken; n = 0 stands for
\* none, zero, a negative one, or one too large.
InitBuffers(n) ==
  IF Known(pieces) THEN pieces ELSE [i \in 0 .. (n - 1) |-> "none"]

\* Mutant of NextPiece: asks for all missing pieces at once.
NextPiece_All(p, buffers) ==
  {i \in DOMAIN buffers : buffers[i] = "none" /\ i \notin asked[p]}

\* requestMissing picks the first piece that is missing and that this peer
\* was not asked for.
NextPiece(p, buffers) ==
  {i \in DOMAIN buffers :
     /\ buffers[i] = "none" /\ i \notin asked[p]
     /\ \A j \in DOMAIN buffers :
          buffers[j] = "none" /\ j \notin asked[p] => i <= j}

\* requestMissing, with the buffers as the handler leaves them and the requests
\* the peer owes before it.
RequestMissing(p, able, buffers, debts) ==
  LET want == IF able THEN NextPiece(p, buffers) ELSE {} IN
  /\ asked' = [asked EXCEPT ![p] = @ \cup want]
  /\ owed' = [q \in Complete |-> IF q = p THEN debts \cup want ELSE owed[q]]

Debts(p) == IF p \in Complete THEN owed[p] ELSE {}

\* An extension handshake: whether ut_metadata is spoken, and the size.
ExtHandshake(p, able, n) ==
  /\ phase[p] = "open"
  /\ p \in Complete => ~supports[p] /\ able /\ n = InfoPieces
  /\ supports' = [supports EXCEPT ![p] = able]
  /\ pieces' = InitBuffers(n)
  /\ RequestMissing(p, able, InitBuffers(n), Debts(p))
  /\ UNCHANGED <<phase, received, live, hashing, result>>

\* Mutant of Stores: a piece that is there is stored and counted again.
Stores_Again(i, buffers) == i \in DOMAIN buffers

Stores(i, buffers) == i \in DOMAIN buffers /\ buffers[i] = "none"

\* The last missing piece is there.
Fills(i, buffers) == Stores(i, buffers) /\ received + 1 = Cardinality(DOMAIN buffers)

\* Mutant of AsksOn: only a peer that brought something new is asked for more.
AsksOn_NewOnly(p, i, buffers) ==
  supports[p] /\ Stores(i, buffers) /\ ~Fills(i, buffers)

\* The peer is asked for its next piece unless the assembly starts.
AsksOn(p, i, buffers) == supports[p] /\ ~Fills(i, buffers)

\* A piece of metadata, asked for or not.  The last missing one starts the
\* assembly; after any other the peer is asked for its next one.
Data(p, i, n, bytes) ==
  LET buffers == InitBuffers(n)
      filled == [j \in DOMAIN buffers |->
                   IF j = i /\ Stores(i, buffers) THEN bytes ELSE buffers[j]]
  IN
  /\ phase[p] = "open"
  /\ p \in Complete => i \in owed[p] /\ i < InfoPieces /\ n = InfoPieces /\ bytes = "good"
  /\ pieces' = filled
  /\ received' = IF Stores(i, buffers) THEN received + 1 ELSE received
  /\ hashing' = (hashing \/ Fills(i, buffers))
  /\ RequestMissing(p, AsksOn(p, i, buffers), filled, Debts(p) \ {i})
  /\ UNCHANGED <<phase, supports, live, result>>

\* A reject, whatever piece it names; a complete peer rejects what the info
\* dict does not have.
Reject(p, i) ==
  /\ phase[p] = "open"
  /\ p \in Complete => i \in owed[p] /\ i >= InfoPieces
  /\ RequestMissing(p, supports[p], pieces, Debts(p) \ {i})
  /\ UNCHANGED <<phase, supports, pieces, received, live, hashing, result>>

\* The info dict, or the info dict with nothing after it.
Verified ==
  \A i \in 0 .. (MaxPieces - 1) :
    IF i < InfoPieces THEN i \in DOMAIN pieces /\ pieces[i] = "good"
    ELSE i \in DOMAIN pieces => pieces[i] = "empty"

\* assemble, after its sha1Hex.
HashDone ==
  /\ hashing
  /\ hashing' = FALSE
  /\ IF Pending THEN Finish(IF Verified THEN "info" ELSE "error")
     ELSE UNCHANGED <<phase, supports, asked, owed, pieces, received, live, result>>

Timer == Pending /\ Finish("timeout") /\ UNCHANGED hashing

Message(p) ==
  \/ \E able \in BOOLEAN, n \in 0 .. MaxPieces : ExtHandshake(p, able, n)
  \/ \E i \in 0 .. MaxPieces, n \in 0 .. MaxPieces, bytes \in {"good", "bad", "empty"} :
       Data(p, i, n, bytes)
  \/ \E i \in 0 .. MaxPieces : Reject(p, i)

Next ==
  \/ \E p \in Peers : Connect(p) \/ Handshake(p) \/ SocketFails(p) \/ Message(p)
  \/ HashDone
  \/ Timer

Spec == Init /\ [][Next]_vars

\* Hashes end, and a complete peer connects and answers.  Nothing makes the
\* timer fire: what is to happen has to happen without it.
FairSpec ==
  /\ Spec
  /\ WF_vars(HashDone)
  /\ \A p \in Complete : WF_vars(Connect(p) \/ Handshake(p) \/ Message(p))

-----------------------------------------------------------------------------
(* `received`, which starts the assembly, counts the pieces that are there,*)
(* so that the assembly misses none and starts once, although several peers*)
(* are asked for the same piece and some send what nobody asked for        *)
(* (metadata-session.ts:83-86).                                            *)
ReceivedIsExact ==
  /\ received = Cardinality({i \in DOMAIN pieces : pieces[i] # "none"})
  /\ hashing => received = Cardinality(DOMAIN pieces)

(* "one outstanding piece per peer keeps it simple and fair"               *)
(* (metadata-session.ts:69): a peer that answers each request once never   *)
(* has two to answer.                                                      *)
OneOutstanding == \A p \in Complete : Cardinality(owed[p]) <= 1

(* A finished fetch has stopped every connection, each of which was counted*)
(* once, and a fetch without connections that was never told a size is     *)
(* finished (metadata-session.ts:44-51, 120-125).                          *)
SettledIsQuiet ==
  /\ live = Cardinality(Unfinished)
  /\ ~Pending => Unfinished = {}
  /\ live = 0 /\ ~Known(pieces) => ~Pending

\* No peer has told a wrong size or sent a wrong piece yet.
Untainted ==
  /\ DOMAIN pieces \in {{}, 0 .. (InfoPieces - 1)}
  /\ \A i \in DOMAIN pieces : pieces[i] \in {"none", "good"}

(* What is returned is the info dict; and a fetch that is failed (rather   *)
(* than timed out) was told no size, or took a wrong size or piece: no end *)
(* of a connection fails one that has its pieces and is hashing them       *)
(* (metadata-session.ts:95-109, 120-125).                                  *)
OutcomeIsJust ==
  /\ result = "info" => Verified
  /\ result = "error" => ~Known(pieces) \/ ~Untainted

(* One complete peer that stays is enough, whatever the others reject,     *)
(* ignore, repeat or leave half done: the fetch ends by itself, unless a   *)
(* wrong size or piece was taken.                                          *)
OnePeerSuffices ==
  <>(~Pending \/ ~Untainted \/ Complete \cap Unfinished = {})
=============================================================================
