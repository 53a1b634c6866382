----------------------- MODULE MetadataSession_proofs -----------------------
(* What holds of a metadata fetch for any peers, any of which may be       *)
(* complete, and any size of the info dict.                                *)
EXTENDS MetadataSession, FiniteSetTheorems, TLAPS

Held(buffers) == {i \in DOMAIN buffers : buffers[i] # "none"}

\* A complete peer owes at most one answer, and none before its handshake.
Debtors ==
  \A p \in Complete :
    /\ \E i : owed[p] \subseteq {i}
    /\ ~supports[p] => owed[p] = {}

MInv ==
  /\ TypeOK
  /\ ReceivedIsExact
  /\ Debtors
  /\ SettledIsQuiet
  /\ OutcomeIsJust
  /\ hashing => Known(pieces)

-----------------------------------------------------------------------------
(* Buffers.                                                                *)

LEMMA BufferShape ==
  ASSUME NEW b \in Buffers
  PROVE  /\ \E n \in 0 .. MaxPieces : b \in [0 .. (n - 1) -> Contents]
         /\ DOMAIN b \subseteq 0 .. (MaxPieces - 1)
         /\ \A i \in DOMAIN b : b[i] \in Contents
         /\ IsFiniteSet(DOMAIN b)
         /\ Cardinality(DOMAIN b) \in 0 .. MaxPieces
<1>1. PICK n \in 0 .. MaxPieces : b \in [0 .. (n - 1) -> Contents]
  BY DEF Buffers
<1>2. DOMAIN b = 0 .. (n - 1) /\ n \in Nat /\ MaxPieces \in Nat
  BY <1>1, MetadataAssumption
<1>3. IsFiniteSet(0 .. (n - 1)) /\ Cardinality(0 .. (n - 1)) = n
  BY <1>2, FS_Interval
<1> QED BY <1>1, <1>2, <1>3

LEMMA HeldCount ==
  ASSUME NEW b \in Buffers
  PROVE  /\ IsFiniteSet(Held(b))
         /\ Cardinality(Held(b)) \in 0 .. Cardinality(DOMAIN b)
         /\ Cardinality(Held(b)) = Cardinality(DOMAIN b) => Held(b) = DOMAIN b
<1>1. IsFiniteSet(DOMAIN b) /\ Held(b) \subseteq DOMAIN b
  BY BufferShape DEF Held
<1>2. /\ IsFiniteSet(Held(b)) /\ Cardinality(Held(b)) \in Nat
      /\ Cardinality(DOMAIN b) \in Nat
      /\ Cardinality(Held(b)) <= Cardinality(DOMAIN b)
      /\ Cardinality(Held(b)) = Cardinality(DOMAIN b) => Held(b) = DOMAIN b
  BY <1>1, FS_Subset, FS_CardinalityType
<1> QED BY <1>2

\* initBuffers adds no piece, and keeps buffers that are there.
LEMMA InitBuffersKeeps ==
  ASSUME pieces \in Buffers, NEW n \in 0 .. MaxPieces
  PROVE  /\ InitBuffers(n) \in Buffers
         /\ Known(pieces) => InitBuffers(n) = pieces
         /\ Held(InitBuffers(n)) = Held(pieces)
<1>1. CASE Known(pieces)
  BY <1>1 DEF InitBuffers
<1>2. CASE ~Known(pieces)
  <2>1. InitBuffers(n) = [i \in 0 .. (n - 1) |-> "none"]
    BY <1>2 DEF InitBuffers
  <2>2. InitBuffers(n) \in [0 .. (n - 1) -> Contents]
    BY <2>1 DEF Contents
  <2>3. Held(InitBuffers(n)) = {}
    BY <2>1 DEF Held
  <2>4. Held(pieces) = {}
    BY <1>2 DEF Held, Known
  <2> QED BY <1>2, <2>2, <2>3, <2>4 DEF Buffers
<1> QED BY <1>1, <1>2

\* requestMissing asks for one piece at most, and one there is.
LEMMA OneRequest ==
  ASSUME NEW p \in Peers, NEW b \in Buffers
  PROVE  /\ NextPiece(p, b) \subseteq DOMAIN b
         /\ \E i : NextPiece(p, b) \subseteq {i}
<1>1. NextPiece(p, b) \subseteq DOMAIN b
  BY DEF NextPiece
<1>2. DOMAIN b \subseteq Int
  BY BufferShape
<1>3. ASSUME NEW i \in NextPiece(p, b), NEW j \in NextPiece(p, b) PROVE i = j
  <2>1. i <= j /\ j <= i /\ i \in Int /\ j \in Int
    BY <1>1, <1>2 DEF NextPiece
  <2> QED BY <2>1
<1>4. CASE NextPiece(p, b) = {}
  BY <1>1, <1>4
<1>5. CASE NextPiece(p, b) # {}
  <2>1. PICK i : i \in NextPiece(p, b)
    BY <1>5
  <2> QED BY <1>1, <1>3, <2>1
<1> QED BY <1>4, <1>5

-----------------------------------------------------------------------------
(* Connections.                                                            *)

LEMMA FinitePeers ==
  \A S \in SUBSET Peers : IsFiniteSet(S) /\ Cardinality(S) \in Nat
BY MetadataAssumption, FS_Subset, FS_CardinalityType

\* An open connection is counted.
LEMMA OpenIsLive ==
  ASSUME TypeOK, SettledIsQuiet, NEW p \in Peers, phase[p] # "finished"
  PROVE  live > 0 /\ Pending
<1>1. p \in Unfinished /\ Unfinished \in SUBSET Peers
  BY DEF Unfinished
<1>2. Cardinality(Unfinished) # 0
  BY <1>1, FinitePeers, FS_EmptySet
<1> QED BY <1>1, <1>2, FinitePeers DEF SettledIsQuiet

LEMMA StopKeeps ==
  ASSUME TypeOK, SettledIsQuiet, Debtors, NEW gone \in SUBSET Unfinished, Stop(gone)
  PROVE  /\ phase' \in [Peers -> {"connecting", "handshaking", "open", "finished"}]
         /\ owed' \in [Complete -> SUBSET (0 .. (MaxPieces - 1))]
         /\ live' \in Nat
         /\ live' = Cardinality(Unfinished')
         /\ Unfinished' = Unfinished \ gone
         /\ Debtors'
         /\ UNCHANGED <<supports, asked, pieces, received>>
<1>1. Unfinished \in SUBSET Peers /\ gone \in SUBSET Peers
  BY DEF Unfinished
<1>2. Unfinished' = Unfinished \ gone
  BY <1>1 DEF Stop, Unfinished
<1>3. IsFiniteSet(Unfinished) /\ IsFiniteSet(gone)
  BY <1>1, FinitePeers
<1>4. Cardinality(Unfinished \ gone) = Cardinality(Unfinished) - Cardinality(Unfinished \cap gone)
  BY <1>3, FS_Difference
<1>5. Unfinished \cap gone = gone
  OBVIOUS
<1>6. Cardinality(Unfinished') \in Nat
  BY <1>1, <1>2, FinitePeers
<1>7. live' = Cardinality(Unfinished')
  BY <1>2, <1>4, <1>5 DEF Stop, SettledIsQuiet
<1>8. phase' \in [Peers -> {"connecting", "handshaking", "open", "finished"}]
  BY DEF Stop, TypeOK
<1>9. owed' \in [Complete -> SUBSET (0 .. (MaxPieces - 1))]
  BY DEF Stop, TypeOK
<1>10. Debtors'
  BY DEF Stop, Debtors
<1> QED BY <1>2, <1>6, <1>7, <1>8, <1>9, <1>10 DEF Stop

-----------------------------------------------------------------------------
(* The outcome.                                                            *)

LEMMA InitMInv == Init => MInv
<1> SUFFICES ASSUME Init PROVE MInv
  OBVIOUS
<1>1. pieces \in Buffers /\ DOMAIN pieces = {}
  <2>1. DOMAIN pieces = {} /\ pieces \in [0 .. (0 - 1) -> Contents] /\ 0 \in 0 .. MaxPieces
    BY MetadataAssumption DEF Init
  <2> QED BY <2>1 DEF Buffers
<1>2. TypeOK
  <2>1. Cardinality(Peers) \in Nat /\ MaxPieces \in Nat
    BY FinitePeers, MetadataAssumption
  <2>2. /\ phase \in [Peers -> {"connecting", "handshaking", "open", "finished"}]
        /\ supports \in [Peers -> BOOLEAN]
        /\ asked \in [Peers -> SUBSET (0 .. (MaxPieces - 1))]
        /\ owed \in [Complete -> SUBSET (0 .. (MaxPieces - 1))]
    BY DEF Init
  <2>3. received \in 0 .. MaxPieces /\ live \in Nat
    <3>1. received = 0 /\ live = Cardinality(Peers)
      BY DEF Init
    <3> QED BY <2>1, <3>1
  <2>5. hashing \in BOOLEAN
    BY DEF Init
  <2>4. result \in {"pending", "info", "error", "timeout"}
    BY DEF Init
  <2> QED BY <1>1, <2>2, <2>3, <2>4, <2>5 DEF TypeOK
<1>3. ReceivedIsExact
  <2>1. {i \in DOMAIN pieces : pieces[i] # "none"} = {}
    BY <1>1
  <2> QED BY <2>1, FS_EmptySet DEF Init, ReceivedIsExact
<1>4. Debtors
  BY MetadataAssumption DEF Init, Debtors
<1>5. SettledIsQuiet
  <2>1. Unfinished = Peers
    BY DEF Init, Unfinished
  <2>2. Cardinality(Peers) = 0 => Peers = {}
    BY MetadataAssumption, FS_EmptySet
  <2> QED BY <2>1, <2>2 DEF Init, SettledIsQuiet, Pending
<1>6. OutcomeIsJust
  BY <1>1 DEF Init, OutcomeIsJust, Known
<1> QED BY <1>2, <1>3, <1>4, <1>5, <1>6 DEF MInv, Init

\* Steps that leave the buffers alone keep the count.
LEMMA CountKept ==
  ASSUME ReceivedIsExact, UNCHANGED <<pieces, received>>, hashing' => hashing
  PROVE  ReceivedIsExact'
BY DEF ReceivedIsExact

LEMMA FinishMInv ==
  ASSUME MInv, Pending, NEW outcome \in {"info", "error", "timeout"}, Finish(outcome),
         hashing' \in BOOLEAN, hashing' => hashing,
         outcome = "info" => Verified,
         outcome = "error" => ~Known(pieces) \/ ~Untainted
  PROVE  MInv'
<1>1. /\ phase' \in [Peers -> {"connecting", "handshaking", "open", "finished"}]
      /\ owed' \in [Complete -> SUBSET (0 .. (MaxPieces - 1))]
      /\ live' \in Nat
      /\ live' = Cardinality(Unfinished')
      /\ Unfinished' = {}
      /\ Debtors'
      /\ UNCHANGED <<supports, asked, pieces, received>>
  <2>1. Stop(Unfinished) /\ Unfinished \in SUBSET Unfinished
    BY DEF Finish
  <2> QED BY <2>1, StopKeeps DEF MInv
<1>2. result' = outcome
  BY DEF Finish
<1>3. TypeOK'
  BY <1>1, <1>2 DEF MInv, TypeOK
<1>4. ReceivedIsExact'
  BY <1>1, CountKept DEF MInv
<1>5. SettledIsQuiet'
  BY <1>1, <1>2 DEF SettledIsQuiet, Pending
<1>6. OutcomeIsJust'
  BY <1>1, <1>2 DEF OutcomeIsJust, Verified, Known, Untainted
<1>7. hashing' => Known(pieces')
  BY <1>1 DEF MInv
<1> QED BY <1>1, <1>3, <1>4, <1>5, <1>6, <1>7 DEF MInv

\* Pieces that are all there, of the right size and from truthful peers, are
\* the info dict.
LEMMA FullUntainted ==
  ASSUME MInv, hashing, Known(pieces), Untainted
  PROVE  Verified
<1>1. pieces \in Buffers /\ Held(pieces) = DOMAIN pieces
  <2>1. pieces \in Buffers
    BY DEF MInv, TypeOK
  <2>2. Cardinality(Held(pieces)) = Cardinality(DOMAIN pieces)
    BY DEF MInv, ReceivedIsExact, Held
  <2> QED BY <2>1, <2>2, HeldCount
<1>2. DOMAIN pieces = 0 .. (InfoPieces - 1)
  BY DEF Known, Untainted
<1>3. \A i \in DOMAIN pieces : pieces[i] = "good"
  BY <1>1 DEF Untainted, Held
<1> QED BY <1>2, <1>3, MetadataAssumption DEF Verified

LEMMA HashMInv ==
  ASSUME MInv, HashDone
  PROVE  MInv'
<1>1. hashing /\ hashing' = FALSE
  BY DEF HashDone
<1>2. CASE Pending
  <2>1. CASE Verified
    <3>1. Finish("info")
      BY <1>2, <2>1 DEF HashDone
    <3> QED BY <1>1, <1>2, <2>1, <3>1, FinishMInv
  <2>2. CASE ~Verified
    <3>1. Finish("error")
      BY <1>2, <2>2 DEF HashDone
    <3>2. ~Known(pieces) \/ ~Untainted
      BY <1>1, <2>2, FullUntainted
    <3> QED BY <1>1, <1>2, <3>1, <3>2, FinishMInv
  <2> QED BY <2>1, <2>2
<1>3. CASE ~Pending
  <2>1. UNCHANGED <<phase, supports, asked, owed, pieces, received, live, result>>
    BY <1>3 DEF HashDone
  <2>2. TypeOK' /\ Debtors' /\ SettledIsQuiet' /\ OutcomeIsJust'
    BY <1>1, <2>1 DEF MInv, TypeOK, Debtors, SettledIsQuiet, OutcomeIsJust, Pending,
                      Unfinished, Known, Verified, Untainted
  <2>3. ReceivedIsExact'
    BY <1>1, <2>1, CountKept DEF MInv
  <2> QED BY <1>1, <2>2, <2>3 DEF MInv
<1> QED BY <1>2, <1>3

LEMMA SocketMInv ==
  ASSUME MInv, NEW p \in Peers, SocketFails(p)
  PROVE  MInv'
<1>1. phase[p] # "finished" /\ hashing' = hashing
  BY DEF SocketFails
<1>2. Pending /\ live > 0
  BY <1>1, OpenIsLive DEF MInv
<1>3. CASE GivesUp
  <2>1. Finish("error") /\ ~Known(pieces)
    BY <1>3 DEF SocketFails, GivesUp
  <2>2. hashing' \in BOOLEAN
    BY <1>1 DEF MInv, TypeOK
  <2> QED BY <1>1, <1>2, <2>1, <2>2, FinishMInv
<1>4. CASE ~GivesUp
  <2>1. Stop({p}) /\ result' = result
    BY <1>4 DEF SocketFails
  <2>2. {p} \in SUBSET Unfinished
    BY <1>1 DEF Unfinished
  <2>3. /\ phase' \in [Peers -> {"connecting", "handshaking", "open", "finished"}]
        /\ owed' \in [Complete -> SUBSET (0 .. (MaxPieces - 1))]
        /\ live' \in Nat
        /\ live' = Cardinality(Unfinished')
        /\ Debtors'
        /\ UNCHANGED <<supports, asked, pieces, received>>
    BY <2>1, <2>2, StopKeeps DEF MInv
  <2>4. live' = live - 1
    BY <2>1, FS_Singleton DEF Stop
  <2>5. TypeOK'
    BY <1>1, <2>1, <2>3 DEF MInv, TypeOK
  <2>6. ReceivedIsExact'
    BY <1>1, <2>3, CountKept DEF MInv
  <2>7. SettledIsQuiet'
    <3>1. live' = 0 => Known(pieces')
      BY <1>2, <1>4, <2>3, <2>4 DEF GivesUp, MInv, TypeOK
    <3> QED BY <1>2, <2>1, <2>3, <3>1 DEF SettledIsQuiet, Pending
  <2>8. OutcomeIsJust'
    BY <1>2, <2>1 DEF OutcomeIsJust, Pending
  <2> QED BY <1>1, <2>3, <2>5, <2>6, <2>7, <2>8 DEF MInv
<1> QED BY <1>3, <1>4

-----------------------------------------------------------------------------
(* Messages.                                                               *)

LEMMA AskStep ==
  ASSUME TypeOK, Debtors, NEW p \in Peers, NEW able, NEW b \in Buffers, NEW debts,
         RequestMissing(p, able, b, debts),
         p \in Complete => debts = {} /\ supports'[p],
         \A q \in Peers \ {p} : supports'[q] = supports[q]
  PROVE  /\ asked' \in [Peers -> SUBSET (0 .. (MaxPieces - 1))]
         /\ owed' \in [Complete -> SUBSET (0 .. (MaxPieces - 1))]
         /\ Debtors'
<1> DEFINE want == IF able THEN NextPiece(p, b) ELSE {}
<1>1. want \subseteq 0 .. (MaxPieces - 1) /\ \E i : want \subseteq {i}
  <2>1. DOMAIN b \subseteq 0 .. (MaxPieces - 1)
    BY BufferShape
  <2>2. NextPiece(p, b) \subseteq DOMAIN b /\ \E i : NextPiece(p, b) \subseteq {i}
    BY OneRequest
  <2> QED BY <2>1, <2>2
<1>2. /\ asked' = [asked EXCEPT ![p] = @ \cup want]
      /\ owed' = [q \in Complete |-> IF q = p THEN debts \cup want ELSE owed[q]]
  BY DEF RequestMissing
<1> HIDE DEF want
<1>3. asked' \in [Peers -> SUBSET (0 .. (MaxPieces - 1))]
  BY <1>1, <1>2 DEF TypeOK
<1>4. ASSUME NEW q \in Complete
      PROVE  /\ owed'[q] \in SUBSET (0 .. (MaxPieces - 1))
             /\ \E i : owed'[q] \subseteq {i}
             /\ ~supports'[q] => owed'[q] = {}
  <2>1. CASE q = p
    <3>1. owed'[q] = want
      BY <1>2, <2>1
    <3> QED BY <1>1, <2>1, <3>1
  <2>2. CASE q # p
    <3>1. owed'[q] = owed[q] /\ q \in Peers \ {p}
      BY <1>2, <2>2, MetadataAssumption
    <3> QED BY <3>1 DEF Debtors, TypeOK
  <2> QED BY <2>1, <2>2
<1>5. owed' \in [Complete -> SUBSET (0 .. (MaxPieces - 1))]
  BY <1>2, <1>4
<1> QED BY <1>3, <1>4, <1>5 DEF Debtors

\* What all messages have in common.
LEMMA MessageStep ==
  ASSUME MInv, NEW p \in Peers, phase[p] = "open",
         UNCHANGED <<phase, live, result>>,
         supports' \in [Peers -> BOOLEAN],
         asked' \in [Peers -> SUBSET (0 .. (MaxPieces - 1))],
         owed' \in [Complete -> SUBSET (0 .. (MaxPieces - 1))],
         Debtors',
         pieces' \in Buffers,
         hashing' \in BOOLEAN,
         ReceivedIsExact',
         hashing' => Known(pieces')
  PROVE  MInv'
<1>1. Pending /\ live > 0
  BY OpenIsLive DEF MInv
<1>2. received' \in 0 .. MaxPieces
  <2>1. received' = Cardinality(Held(pieces'))
    BY DEF ReceivedIsExact, Held
  <2>2. /\ Cardinality(Held(pieces')) \in 0 .. Cardinality(DOMAIN pieces')
        /\ Cardinality(DOMAIN pieces') \in 0 .. MaxPieces
    BY HeldCount, BufferShape
  <2> QED BY <2>1, <2>2, MetadataAssumption
<1>3. TypeOK'
  BY <1>2 DEF MInv, TypeOK
<1>4. SettledIsQuiet'
  BY <1>1 DEF MInv, SettledIsQuiet, Unfinished, Pending, TypeOK
<1>5. OutcomeIsJust'
  BY <1>1 DEF OutcomeIsJust, Pending
<1> QED BY <1>3, <1>4, <1>5 DEF MInv

LEMMA ExtHandshakeMInv ==
  ASSUME MInv, NEW p \in Peers, NEW able \in BOOLEAN, NEW n \in 0 .. MaxPieces,
         ExtHandshake(p, able, n)
  PROVE  MInv'
<1>1. /\ phase[p] = "open"
      /\ p \in Complete => ~supports[p] /\ able
      /\ supports' = [supports EXCEPT ![p] = able]
      /\ pieces' = InitBuffers(n)
      /\ RequestMissing(p, able, InitBuffers(n), Debts(p))
      /\ UNCHANGED <<phase, received, live, hashing, result>>
  BY DEF ExtHandshake
<1>2. /\ InitBuffers(n) \in Buffers
      /\ Known(pieces) => InitBuffers(n) = pieces
      /\ Held(InitBuffers(n)) = Held(pieces)
  BY InitBuffersKeeps DEF MInv, TypeOK
<1>3. supports' \in [Peers -> BOOLEAN] /\ \A q \in Peers \ {p} : supports'[q] = supports[q]
  BY <1>1 DEF MInv, TypeOK
<1>4. p \in Complete => Debts(p) = {} /\ supports'[p]
  <2>1. p \in Complete => Debts(p) = {}
    BY <1>1 DEF Debts, MInv, Debtors
  <2>2. p \in Complete => supports'[p]
    BY <1>1 DEF MInv, TypeOK
  <2> QED BY <2>1, <2>2
<1>5. /\ asked' \in [Peers -> SUBSET (0 .. (MaxPieces - 1))]
      /\ owed' \in [Complete -> SUBSET (0 .. (MaxPieces - 1))]
      /\ Debtors'
  BY <1>1, <1>2, <1>3, <1>4, AskStep DEF MInv
<1>6. ReceivedIsExact'
  BY <1>1, <1>2 DEF MInv, ReceivedIsExact, Held
<1>7. pieces' \in Buffers /\ hashing' \in BOOLEAN /\ (hashing' => Known(pieces'))
  BY <1>1, <1>2 DEF MInv, TypeOK
<1> QED BY <1>1, <1>3, <1>5, <1>6, <1>7, MessageStep

\* A complete peer answers the one request it owes.
LEMMA AnswersAll ==
  ASSUME MInv, NEW p \in Complete, NEW i \in owed[p]
  PROVE  owed[p] \ {i} = {} /\ supports[p]
<1>1. PICK j : owed[p] \subseteq {j}
  BY DEF MInv, Debtors
<1>2. supports[p]
  BY DEF MInv, Debtors
<1> QED BY <1>1, <1>2

LEMMA RejectMInv ==
  ASSUME MInv, NEW p \in Peers, NEW i, Reject(p, i)
  PROVE  MInv'
<1>1. /\ phase[p] = "open"
      /\ p \in Complete => i \in owed[p]
      /\ RequestMissing(p, supports[p], pieces, Debts(p) \ {i})
      /\ UNCHANGED <<phase, supports, pieces, received, live, hashing, result>>
  BY DEF Reject
<1>2. p \in Complete => Debts(p) \ {i} = {} /\ supports'[p]
  BY <1>1, AnswersAll DEF Debts
<1>3. /\ asked' \in [Peers -> SUBSET (0 .. (MaxPieces - 1))]
      /\ owed' \in [Complete -> SUBSET (0 .. (MaxPieces - 1))]
      /\ Debtors'
  BY <1>1, <1>2, AskStep DEF MInv, TypeOK
<1>4. ReceivedIsExact'
  BY <1>1, CountKept DEF MInv
<1>5. /\ supports' \in [Peers -> BOOLEAN]
      /\ pieces' \in Buffers /\ hashing' \in BOOLEAN /\ (hashing' => Known(pieces'))
  BY <1>1 DEF MInv, TypeOK
<1> QED BY <1>1, <1>3, <1>4, <1>5, MessageStep

\* A piece stored is counted; while hashing there is none left to store.
LEMMA StoreStep ==
  ASSUME MInv, NEW n \in 0 .. MaxPieces, NEW i, NEW bytes \in {"good", "bad", "empty"},
         pieces' = [j \in DOMAIN InitBuffers(n) |->
                      IF j = i /\ Stores(i, InitBuffers(n)) THEN bytes
                      ELSE InitBuffers(n)[j]],
         received' = IF Stores(i, InitBuffers(n)) THEN received + 1 ELSE received,
         hashing' = (hashing \/ Fills(i, InitBuffers(n)))
  PROVE  /\ pieces' \in Buffers
         /\ hashing' \in BOOLEAN
         /\ ReceivedIsExact'
         /\ hashing' => Known(pieces')
<1> DEFINE b == InitBuffers(n)
<1>1. /\ b \in Buffers
      /\ Known(pieces) => b = pieces
      /\ Held(b) = Held(pieces)
  BY InitBuffersKeeps DEF MInv, TypeOK
<1>2. received = Cardinality(Held(b)) /\ received \in Nat
  <2>1. received = Cardinality(Held(pieces))
    BY DEF MInv, ReceivedIsExact, Held
  <2>2. received \in Nat
    BY MetadataAssumption DEF MInv, TypeOK
  <2> QED BY <1>1, <2>1, <2>2
<1> HIDE DEF b
<1>3. pieces' = [j \in DOMAIN b |-> IF j = i /\ Stores(i, b) THEN bytes ELSE b[j]]
  BY DEF b
<1>4. DOMAIN pieces' = DOMAIN b
  BY <1>3
<1>5. pieces' \in Buffers
  <2>1. PICK m \in 0 .. MaxPieces : b \in [0 .. (m - 1) -> Contents]
    BY <1>1 DEF Buffers
  <2>2. DOMAIN b = 0 .. (m - 1) /\ \A j \in DOMAIN b : b[j] \in Contents
    BY <2>1
  <2>3. pieces' \in [0 .. (m - 1) -> Contents]
    BY <1>3, <2>2 DEF Contents
  <2> QED BY <2>1, <2>3 DEF Buffers
<1>6. CASE Stores(i, b)
  <2>1. i \in DOMAIN b /\ b[i] = "none"
    BY <1>6 DEF Stores
  <2>2. Held(pieces') = Held(b) \cup {i} /\ i \notin Held(b)
    BY <1>3, <1>4, <1>6, <2>1 DEF Held
  <2>3. Cardinality(Held(pieces')) = received + 1
    BY <1>1, <1>2, <2>2, HeldCount, FS_AddElement
  <2>4. received' = received + 1
    BY <1>6 DEF b
  <2>5. ~hashing
    <3>1. SUFFICES ASSUME hashing PROVE FALSE
      OBVIOUS
    <3>2. b = pieces /\ Cardinality(Held(b)) = Cardinality(DOMAIN b)
      BY <1>1, <1>2, <3>1 DEF MInv, ReceivedIsExact
    <3>3. Held(b) = DOMAIN b
      BY <1>1, <3>2, HeldCount
    <3> QED BY <2>1, <2>2, <3>3
  <2>6. hashing' <=> Fills(i, b)
    BY <2>5 DEF b
  <2>7. hashing' => received' = Cardinality(DOMAIN pieces')
    BY <1>4, <2>4, <2>6 DEF Fills
  <2>8. ReceivedIsExact'
    BY <2>3, <2>4, <2>7 DEF ReceivedIsExact, Held
  <2>9. Known(pieces')
    BY <1>4, <2>1 DEF Known
  <2>10. hashing' \in BOOLEAN
    OBVIOUS
  <2> QED BY <1>5, <2>8, <2>9, <2>10
<1>7. CASE ~Stores(i, b)
  <2>1. ~Fills(i, b)
    BY <1>7 DEF Fills
  <2>2. hashing' = hashing
    BY <2>1 DEF b, MInv, TypeOK
  <2>3. received' = received
    BY <1>7 DEF b
  <2>4. Held(pieces') = Held(b)
    BY <1>3, <1>4, <1>7 DEF Held
  <2>5. hashing => Known(pieces) /\ received = Cardinality(DOMAIN b)
    BY <1>1 DEF MInv, ReceivedIsExact
  <2>6. ReceivedIsExact'
    <3>1. received' = Cardinality(Held(pieces'))
      BY <1>2, <2>3, <2>4
    <3>2. hashing' => received' = Cardinality(DOMAIN pieces')
      BY <1>4, <2>2, <2>3, <2>5
    <3> QED BY <3>1, <3>2 DEF ReceivedIsExact, Held
  <2>7. hashing' => Known(pieces')
    BY <1>1, <1>4, <2>2, <2>5 DEF Known
  <2>8. hashing' \in BOOLEAN
    BY <2>2 DEF MInv, TypeOK
  <2> QED BY <1>5, <2>6, <2>7, <2>8
<1> QED BY <1>6, <1>7

LEMMA DataMInv ==
  ASSUME MInv, NEW p \in Peers, NEW i, NEW n \in 0 .. MaxPieces,
         NEW bytes \in {"good", "bad", "empty"}, Data(p, i, n, bytes)
  PROVE  MInv'
<1> DEFINE b == InitBuffers(n)
           filled == [j \in DOMAIN b |-> IF j = i /\ Stores(i, b) THEN bytes ELSE b[j]]
<1>1. /\ phase[p] = "open"
      /\ p \in Complete => i \in owed[p]
      /\ pieces' = filled
      /\ received' = IF Stores(i, b) THEN received + 1 ELSE received
      /\ hashing' = (hashing \/ Fills(i, b))
      /\ RequestMissing(p, AsksOn(p, i, b), filled, Debts(p) \ {i})
      /\ UNCHANGED <<phase, supports, live, result>>
  BY DEF Data
<1>2. /\ pieces' \in Buffers
      /\ hashing' \in BOOLEAN
      /\ ReceivedIsExact'
      /\ hashing' => Known(pieces')
  BY <1>1, StoreStep
<1> HIDE DEF b, filled
<1>3. p \in Complete => Debts(p) \ {i} = {} /\ supports'[p]
  BY <1>1, AnswersAll DEF Debts
<1>4. filled \in Buffers
  BY <1>1, <1>2
<1>5. /\ asked' \in [Peers -> SUBSET (0 .. (MaxPieces - 1))]
      /\ owed' \in [Complete -> SUBSET (0 .. (MaxPieces - 1))]
      /\ Debtors'
  BY <1>1, <1>3, <1>4, AskStep DEF MInv
<1>6. supports' \in [Peers -> BOOLEAN]
  BY <1>1 DEF MInv, TypeOK
<1> QED BY <1>1, <1>2, <1>5, <1>6, MessageStep

\* Connecting and shaking hands.
LEMMA OpeningMInv ==
  ASSUME MInv, NEW p \in Peers, Connect(p) \/ Handshake(p)
  PROVE  MInv'
<1>1. /\ phase[p] # "finished"
      /\ \E s \in {"handshaking", "open"} : phase' = [phase EXCEPT ![p] = s]
      /\ UNCHANGED <<supports, asked, owed, pieces, received, live, hashing, result>>
  BY DEF Connect, Handshake
<1>2. TypeOK'
  BY <1>1 DEF MInv, TypeOK
<1>3. Unfinished' = Unfinished
  BY <1>1 DEF Unfinished, MInv, TypeOK
<1>4. SettledIsQuiet' /\ Debtors' /\ OutcomeIsJust' /\ (hashing' => Known(pieces'))
  BY <1>1, <1>3 DEF MInv, SettledIsQuiet, Debtors, OutcomeIsJust, Pending, Known,
                    Verified, Untainted
<1>5. ReceivedIsExact'
  BY <1>1, CountKept DEF MInv
<1> QED BY <1>2, <1>4, <1>5 DEF MInv

LEMMA NextMInv == MInv /\ [Next]_vars => MInv'
<1> SUFFICES ASSUME MInv, [Next]_vars PROVE MInv'
  OBVIOUS
<1>1. CASE UNCHANGED vars
  BY <1>1 DEF vars, MInv, TypeOK, ReceivedIsExact, Debtors, SettledIsQuiet, OutcomeIsJust,
              Unfinished, Pending, Known, Verified, Untainted
<1>2. ASSUME NEW p \in Peers, Connect(p) \/ Handshake(p) PROVE MInv'
  BY <1>2, OpeningMInv
<1>3. ASSUME NEW p \in Peers, SocketFails(p) PROVE MInv'
  BY <1>3, SocketMInv
<1>4. ASSUME NEW p \in Peers, Message(p) PROVE MInv'
  <2>1. CASE \E able \in BOOLEAN, n \in 0 .. MaxPieces : ExtHandshake(p, able, n)
    BY <2>1, ExtHandshakeMInv
  <2>2. CASE \E i \in 0 .. MaxPieces, n \in 0 .. MaxPieces,
                bytes \in {"good", "bad", "empty"} : Data(p, i, n, bytes)
    BY <2>2, DataMInv
  <2>3. CASE \E i \in 0 .. MaxPieces : Reject(p, i)
    BY <2>3, RejectMInv
  <2> QED BY <1>4, <2>1, <2>2, <2>3 DEF Message
<1>5. CASE HashDone
  BY <1>5, HashMInv
<1>6. CASE Timer
  <2>1. Pending /\ Finish("timeout") /\ hashing' = hashing
    BY <1>6 DEF Timer
  <2>2. hashing' \in BOOLEAN
    BY <2>1 DEF MInv, TypeOK
  <2> QED BY <2>1, <2>2, FinishMInv
<1> QED BY <1>1, <1>2, <1>3, <1>4, <1>5, <1>6 DEF Next

-----------------------------------------------------------------------------
LEMMA AlwaysMInv == Spec => []MInv
<1>1. Init => MInv
  BY InitMInv
<1>2. MInv /\ [Next]_vars => MInv'
  BY NextMInv
<1> QED BY <1>1, <1>2, PTL DEF Spec

(* Types, for any number of peers and pieces.                              *)
THEOREM FetchIsTyped == Spec => []TypeOK
<1>1. MInv => TypeOK
  BY DEF MInv
<1> QED BY <1>1, AlwaysMInv, PTL

(* The count that starts the assembly is exact (metadata-session.ts:83-86).*)
THEOREM PiecesAreCounted == Spec => []ReceivedIsExact
<1>1. MInv => ReceivedIsExact
  BY DEF MInv
<1> QED BY <1>1, AlwaysMInv, PTL

(* No peer that answers has two requests to answer (line 69).              *)
THEOREM OnePieceAtATime == Spec => []OneOutstanding
<1>1. MInv => OneOutstanding
  <2> SUFFICES ASSUME MInv, NEW p \in Complete PROVE Cardinality(owed[p]) <= 1
    BY DEF OneOutstanding
  <2>1. PICK i : owed[p] \subseteq {i}
    BY DEF MInv, Debtors
  <2>2. IsFiniteSet({i}) /\ Cardinality({i}) = 1
    BY FS_Singleton
  <2>3. Cardinality(owed[p]) <= Cardinality({i})
    BY <2>1, <2>2, FS_Subset
  <2> QED BY <2>2, <2>3
<1> QED BY <1>1, AlwaysMInv, PTL

(* A finished fetch is quiet, and a hopeless one is finished.              *)
THEOREM FetchSettles == Spec => []SettledIsQuiet
<1>1. MInv => SettledIsQuiet
  BY DEF MInv
<1> QED BY <1>1, AlwaysMInv, PTL

(* Only the info dict is returned, and only liars or silence fail a fetch. *)
THEOREM OutcomesAreJust == Spec => []OutcomeIsJust
<1>1. MInv => OutcomeIsJust
  BY DEF MInv
<1> QED BY <1>1, AlwaysMInv, PTL
=============================================================================
