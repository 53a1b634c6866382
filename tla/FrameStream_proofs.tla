------------------------- MODULE FrameStream_proofs -------------------------
(* The readers hand out what the encoders were given, for streams of any   *)
(* items, of any length, cut anywhere.                                     *)
EXTENDS FrameStream, SequenceTheorems, TLAPS

-----------------------------------------------------------------------------
(* Numbers of four bytes.                                                  *)

LEMMA Digit ==
  ASSUME NEW n \in Nat
  PROVE  n = (n \div 256) * 256 + (n % 256) /\ n % 256 \in 0 .. 255 /\ n \div 256 \in Nat
BY SMT

LEMMA U32Digits ==
  ASSUME NEW v, IsU32(v)
  PROVE  /\ v \in Nat
         /\ (v \div 16777216) % 256 \in Byte /\ (v \div 65536) % 256 \in Byte
         /\ (v \div 256) % 256 \in Byte /\ v % 256 \in Byte
         /\ ((v \div 16777216) % 256) * 16777216 + ((v \div 65536) % 256) * 65536
              + ((v \div 256) % 256) * 256 + (v % 256) = v
<1> DEFINE a == v \div 256
           b == v \div 65536
           c == v \div 16777216
<1>1. v \in Nat /\ c \in 0 .. 255
  BY SMT DEF IsU32, Byte
<1>2. b = a \div 256 /\ c = b \div 256 /\ a = v \div 256
  BY <1>1, SMT
<1> HIDE DEF a, b, c
<1>3. v = a * 256 + (v % 256) /\ v % 256 \in 0 .. 255 /\ a \in Nat
  BY <1>1, <1>2, Digit, SMT
<1>4. a = b * 256 + (a % 256) /\ a % 256 \in 0 .. 255 /\ b \in Nat
  BY <1>2, <1>3, Digit, SMT
<1>5. b = c * 256 + (b % 256) /\ b % 256 \in 0 .. 255
  <2>1. b = (b \div 256) * 256 + (b % 256) /\ b % 256 \in 0 .. 255
    BY <1>4, Digit
  <2> QED BY <2>1, <1>2
<1>6. c % 256 = c
  BY <1>1, SMT
<1>7. c * 16777216 + (b % 256) * 65536 + (a % 256) * 256 + (v % 256) = v
  BY <1>1, <1>3, <1>4, <1>5, SMT
<1>8. /\ v \in Nat /\ c % 256 \in 0 .. 255 /\ b % 256 \in 0 .. 255
      /\ a % 256 \in 0 .. 255 /\ v % 256 \in 0 .. 255
      /\ (c % 256) * 16777216 + (b % 256) * 65536 + (a % 256) * 256 + (v % 256) = v
  BY <1>1, <1>3, <1>4, <1>5, <1>6, <1>7, SMT
<1> QED BY <1>8, SMT DEF Byte, a, b, c

LEMMA WriteU32Bytes ==
  ASSUME NEW v, IsU32(v)
  PROVE  /\ WriteU32(v) \in Seq(Byte) /\ Len(WriteU32(v)) = 4
         /\ ReadU32(WriteU32(v), 0) = v
<1>1. WriteU32(v) \in Seq(Byte) /\ Len(WriteU32(v)) = 4
  BY U32Digits, SMT DEF WriteU32
<1>2. ReadU32(WriteU32(v), 0) = v
  BY U32Digits, SMT DEF WriteU32, ReadU32
<1> QED BY <1>1, <1>2, SMT

\* A number is read wherever the same four bytes are.
LEMMA SameU32 ==
  ASSUME NEW s, NEW t, NEW m \in Nat, NEW n \in Nat,
         s[m + 1] = t[n + 1], s[m + 2] = t[n + 2],
         s[m + 3] = t[n + 3], s[m + 4] = t[n + 4]
  PROVE  ReadU32(s, m) = ReadU32(t, n)
BY SMT DEF ReadU32

-----------------------------------------------------------------------------
(* What an item looks like in the stream: a header that says how long its  *)
(* data are, and the data.                                                 *)

LEMMA Appended ==
  ASSUME NEW s \in Seq(Byte), NEW t \in Seq(Byte)
  PROVE  /\ s \o t \in Seq(Byte) /\ Len(s \o t) = Len(s) + Len(t)
         /\ \A i \in 1 .. Len(s) : (s \o t)[i] = s[i]
         /\ \A i \in 1 .. Len(t) : (s \o t)[Len(s) + i] = t[i]
<1>1. /\ s \o t \in Seq(Byte) /\ Len(s \o t) = Len(s) + Len(t)
      /\ \A i \in 1 .. Len(s) + Len(t) : (s \o t)[i] =
            IF i <= Len(s) THEN s[i] ELSE t[i - Len(s)]
  BY ConcatProperties
<1>2. Len(s) \in Nat /\ Len(t) \in Nat
  OBVIOUS
<1> QED BY <1>1, <1>2

LEMMA Chunk ==
  ASSUME NEW s \in Seq(Byte), NEW m \in Nat, NEW n \in Nat, m + n <= Len(s)
  PROVE  /\ SubSeq(s, m + 1, m + n) \in Seq(Byte) /\ Len(SubSeq(s, m + 1, m + n)) = n
         /\ \A i \in 1 .. n : SubSeq(s, m + 1, m + n)[i] = s[m + i]
<1> DEFINE a == m + 1
           b == m + n
           u == SubSeq(s, a, b)
<1>1. a \in Int /\ b \in Int /\ Len(s) \in Nat
  OBVIOUS
<1>2. \A i \in a .. b : s[i] \in Byte
  <2> SUFFICES ASSUME NEW i \in a .. b PROVE s[i] \in Byte
    OBVIOUS
  <2>1. i \in 1 .. Len(s)
    BY <1>1
  <2> QED BY <2>1
<1> HIDE DEF a, b
<1>3. /\ u \in Seq(Byte) /\ Len(u) = (IF a <= b THEN b - a + 1 ELSE 0)
      /\ \A i \in 1 .. b - a + 1 : u[i] = s[a + i - 1]
  BY <1>1, <1>2, SubSeqProperties
<1> HIDE DEF u
<1>4. b - a + 1 = n /\ (a <= b <=> n # 0)
  BY DEF a, b
<1>5. Len(u) = n
  BY <1>3, <1>4
<1>6. ASSUME NEW i \in 1 .. n
      PROVE  u[i] = s[m + i]
  <2>1. u[i] = s[a + i - 1] /\ a + i - 1 = m + i
    BY <1>3, <1>4 DEF a
  <2> QED BY <2>1
<1> QED BY <1>3, <1>5, <1>6 DEF u, a, b

LEMMA PieceBytes ==
  ASSUME NEW index, NEW data \in Seq(Byte), IsU32(index), IsU32(Len(data)),
         NEW b, b = Bytes(Piece(index, data))
  PROVE  /\ b \in Seq(Byte) /\ Len(b) = 9 + Len(data)
         /\ b[1] = PIECE /\ ReadU32(b, 1) = index /\ ReadU32(b, 5) = Len(data)
         /\ \A i \in 1 .. Len(data) : b[9 + i] = data[i]
<1> DEFINE t == <<PIECE>>
           u == WriteU32(index)
           w == WriteU32(Len(data))
           h == t \o u
           g == h \o w
           r == g \o data
<1>1. t \in Seq(Byte) /\ Len(t) = 1 /\ t[1] = PIECE
  BY DEF PIECE, Byte
<1>2. /\ u \in Seq(Byte) /\ Len(u) = 4 /\ ReadU32(u, 0) = index
      /\ w \in Seq(Byte) /\ Len(w) = 4 /\ ReadU32(w, 0) = Len(data)
  BY WriteU32Bytes
<1>3. b = r /\ Len(data) \in Nat
  BY DEF Bytes, Piece
<1> HIDE DEF t, u, w
<1>4. /\ h \in Seq(Byte) /\ Len(h) = Len(t) + Len(u)
      /\ \A i \in 1 .. Len(t) : h[i] = t[i]
      /\ \A i \in 1 .. Len(u) : h[Len(t) + i] = u[i]
  BY <1>1, <1>2, Appended
<1>5. Len(h) = 5 /\ h[1] = PIECE /\ \A i \in 1 .. 4 : h[1 + i] = u[i]
  BY <1>1, <1>2, <1>4
<1> HIDE DEF h
<1>6. /\ g \in Seq(Byte) /\ Len(g) = Len(h) + Len(w)
      /\ \A i \in 1 .. Len(h) : g[i] = h[i]
      /\ \A i \in 1 .. Len(w) : g[Len(h) + i] = w[i]
  BY <1>2, <1>4, Appended
<1>7. Len(g) = 9 /\ (\A i \in 1 .. 5 : g[i] = h[i]) /\ \A i \in 1 .. 4 : g[5 + i] = w[i]
  BY <1>2, <1>5, <1>6
<1> HIDE DEF g
<1>8. /\ r \in Seq(Byte) /\ Len(r) = Len(g) + Len(data)
      /\ \A i \in 1 .. Len(g) : r[i] = g[i]
      /\ \A i \in 1 .. Len(data) : r[Len(g) + i] = data[i]
  BY <1>3, <1>6, Appended
<1> HIDE DEF r
<1>9. /\ b \in Seq(Byte) /\ Len(b) = 9 + Len(data) /\ \A i \in 1 .. 9 : b[i] = g[i]
      /\ \A i \in 1 .. Len(data) : b[9 + i] = data[i]
  BY <1>3, <1>7, <1>8
<1>10. /\ b[1] = PIECE /\ b[2] = u[1] /\ b[3] = u[2] /\ b[4] = u[3] /\ b[5] = u[4]
       /\ b[6] = w[1] /\ b[7] = w[2] /\ b[8] = w[3] /\ b[9] = w[4]
  BY <1>5, <1>7, <1>9
<1>11. ReadU32(b, 1) = ReadU32(u, 0) /\ ReadU32(b, 5) = ReadU32(w, 0)
  BY <1>10, SameU32
<1> QED BY <1>2, <1>8, <1>9, <1>10, <1>11

LEMMA SummaryBytes ==
  ASSUME NEW data \in Seq(Byte), IsU32(Len(data)),
         NEW b, b = Bytes(Summary(data))
  PROVE  /\ b \in Seq(Byte) /\ Len(b) = 5 + Len(data)
         /\ b[1] = SUMMARY /\ ReadU32(b, 1) = Len(data)
         /\ \A i \in 1 .. Len(data) : b[5 + i] = data[i]
<1> DEFINE t == <<SUMMARY>>
           w == WriteU32(Len(data))
           h == t \o w
           r == h \o data
<1>1. t \in Seq(Byte) /\ Len(t) = 1 /\ t[1] = SUMMARY
  BY DEF SUMMARY, Byte
<1>2. w \in Seq(Byte) /\ Len(w) = 4 /\ ReadU32(w, 0) = Len(data)
  BY WriteU32Bytes
<1>3. b = r /\ Len(data) \in Nat
  BY DEF Bytes, Summary
<1> HIDE DEF t, w
<1>4. /\ h \in Seq(Byte) /\ Len(h) = Len(t) + Len(w)
      /\ \A i \in 1 .. Len(t) : h[i] = t[i]
      /\ \A i \in 1 .. Len(w) : h[Len(t) + i] = w[i]
  BY <1>1, <1>2, Appended
<1>5. Len(h) = 5 /\ h[1] = SUMMARY /\ \A i \in 1 .. 4 : h[1 + i] = w[i]
  BY <1>1, <1>2, <1>4
<1> HIDE DEF h
<1>6. /\ r \in Seq(Byte) /\ Len(r) = Len(h) + Len(data)
      /\ \A i \in 1 .. Len(h) : r[i] = h[i]
      /\ \A i \in 1 .. Len(data) : r[Len(h) + i] = data[i]
  BY <1>3, <1>4, Appended
<1> HIDE DEF r
<1>7. /\ b \in Seq(Byte) /\ Len(b) = 5 + Len(data) /\ \A i \in 1 .. 5 : b[i] = h[i]
      /\ \A i \in 1 .. Len(data) : b[5 + i] = data[i]
  BY <1>3, <1>5, <1>6
<1>8. b[1] = SUMMARY /\ b[2] = w[1] /\ b[3] = w[2] /\ b[4] = w[3] /\ b[5] = w[4]
  BY <1>5, <1>7
<1>9. ReadU32(b, 1) = ReadU32(w, 0)
  BY <1>8, SameU32
<1> QED BY <1>2, <1>6, <1>7, <1>8, <1>9

LEMMA MessageBytes ==
  ASSUME NEW data \in Seq(Byte), IsU32(Len(data)),
         NEW b, b = Bytes(Message(data))
  PROVE  /\ b \in Seq(Byte) /\ Len(b) = 4 + Len(data)
         /\ ReadU32(b, 0) = Len(data)
         /\ \A i \in 1 .. Len(data) : b[4 + i] = data[i]
<1> DEFINE w == WriteU32(Len(data))
           r == w \o data
<1>1. w \in Seq(Byte) /\ Len(w) = 4 /\ ReadU32(w, 0) = Len(data)
  BY WriteU32Bytes
<1>2. b = r /\ Len(data) \in Nat
  BY DEF Bytes, Message
<1> HIDE DEF w
<1>3. /\ r \in Seq(Byte) /\ Len(r) = Len(w) + Len(data)
      /\ \A i \in 1 .. Len(w) : r[i] = w[i]
      /\ \A i \in 1 .. Len(data) : r[Len(w) + i] = data[i]
  BY <1>1, <1>2, Appended
<1> HIDE DEF r
<1>4. /\ b \in Seq(Byte) /\ b[1] = w[1] /\ b[2] = w[2] /\ b[3] = w[3] /\ b[4] = w[4]
      /\ Len(b) = 4 + Len(data) /\ \A i \in 1 .. Len(data) : b[4 + i] = data[i]
  BY <1>1, <1>2, <1>3
<1>5. ReadU32(b, 0) = ReadU32(w, 0)
  BY <1>4, SameU32
<1> QED BY <1>1, <1>4, <1>5

LEMMA PstrlenIsThere ==
  ASSUME NEW data \in Seq(Byte), Len(data) - 48 \in Byte
  PROVE  Len(data) \in Nat /\ Len(data) - 48 \in Nat
<1> DEFINE n == Len(data)
<1>1. n \in Nat /\ n - 48 \in 0 .. 255
  BY LenProperties DEF Byte
<1> HIDE DEF n
<1>2. n - 48 \in Nat
  BY <1>1
<1> QED BY <1>1, <1>2 DEF n

LEMMA HandshakeBytes ==
  ASSUME NEW data \in Seq(Byte), Len(data) - 48 \in Byte,
         NEW b, b = Bytes([type |-> "handshake", data |-> data])
  PROVE  /\ b \in Seq(Byte) /\ Len(b) = 1 + Len(data)
         /\ b[1] = Len(data) - 48
         /\ \A i \in 1 .. Len(data) : b[1 + i] = data[i]
<1> DEFINE t == <<Len(data) - 48>>
           r == t \o data
<1>1. t \in Seq(Byte) /\ Len(t) = 1 /\ t[1] = Len(data) - 48 /\ Len(data) \in Nat
  OBVIOUS
<1>2. b = r
  BY DEF Bytes
<1> HIDE DEF t
<1>3. /\ r \in Seq(Byte) /\ Len(r) = Len(t) + Len(data)
      /\ \A i \in 1 .. Len(t) : r[i] = t[i]
      /\ \A i \in 1 .. Len(data) : r[Len(t) + i] = data[i]
  BY <1>1, <1>2, Appended
<1> HIDE DEF r
<1>4. Len(r) = 1 + Len(data) /\ \A i \in 1 .. Len(data) : r[1 + i] = data[i]
  BY <1>1, <1>3
<1>5. r[1] = t[1]
  BY <1>1, <1>3
<1> QED BY <1>1, <1>2, <1>3, <1>4, <1>5
-----------------------------------------------------------------------------
(* What the sender has, what it has written, and where the reader is in it. *)

ScriptIsRight == \/ format = "frames" /\ IsFrameStream(script)
                 \/ format = "wire" /\ IsWireStream(script)

PieceAt(k) ==
  /\ format = "frames" /\ script[k] = Piece(script[k].index, script[k].data)
  /\ script[k].data \in Seq(Byte)
  /\ IsU32(script[k].index) /\ IsU32(Len(script[k].data))

SummaryAt(k) ==
  /\ format = "frames" /\ script[k] = Summary(script[k].data)
  /\ script[k].data \in Seq(Byte) /\ IsU32(Len(script[k].data))

NoiseAt(k) ==
  /\ format = "frames" /\ script[k] = Noise(script[k].data)
  /\ script[k].data \in Seq(Byte) /\ script[k].data # <<>> /\ k = Len(script)
  /\ IF k = 1 THEN Len(script[k].data) >= 4 =>
                      ReadU32(script[k].data, 0) # ReadU32(Magic, 0)
              ELSE script[k].data[1] \notin {PIECE, SUMMARY}

HandshakeAt(k) ==
  /\ format = "wire" /\ k = 1
  /\ script[k] = [type |-> "handshake", data |-> script[k].data]
  /\ script[k].data \in Seq(Byte) /\ Len(script[k].data) - 48 \in Byte

MessageAt(k) ==
  /\ format = "wire" /\ k # 1 /\ script[k] = Message(script[k].data)
  /\ script[k].data \in Seq(Byte) /\ IsU32(Len(script[k].data))

LEMMA Shapes ==
  ASSUME ScriptIsRight, NEW k \in 1 .. Len(script)
  PROVE  PieceAt(k) \/ SummaryAt(k) \/ NoiseAt(k) \/ HandshakeAt(k) \/ MessageAt(k)
<1>1. CASE format = "frames" /\ IsFrameStream(script)
  <2>1. script[k] \in [type : {"piece"}, index : Nat, data : Seq(Byte)]
                       \cup [type : {"summary", "noise"}, data : Seq(Byte)]
    BY <1>1 DEF IsFrameStream
  <2>2. /\ script[k].type = "piece" => IsU32(script[k].index)
        /\ script[k].type # "noise" => IsU32(Len(script[k].data))
        /\ script[k].type = "noise" =>
             /\ k = Len(script) /\ script[k].data # <<>>
             /\ IF k = 1 THEN Len(script[k].data) >= 4 =>
                                 ReadU32(script[k].data, 0) # ReadU32(Magic, 0)
                         ELSE script[k].data[1] \notin {PIECE, SUMMARY}
    BY <1>1 DEF IsFrameStream
  <2>3. CASE script[k] \in [type : {"piece"}, index : Nat, data : Seq(Byte)]
    BY <1>1, <2>2, <2>3 DEF PieceAt, Piece
  <2>4. CASE script[k] \in [type : {"summary"}, data : Seq(Byte)]
    BY <1>1, <2>2, <2>4 DEF SummaryAt, Summary
  <2>5. CASE script[k] \in [type : {"noise"}, data : Seq(Byte)]
    BY <1>1, <2>2, <2>5 DEF NoiseAt, Noise
  <2> QED BY <2>1, <2>3, <2>4, <2>5
<1>2. CASE format = "wire" /\ IsWireStream(script)
  <2> DEFINE Items == [type : {"handshake", "message"}, data : Seq(Byte)]
  <2>1. script[k] \in Items
    <3>1. script \in Seq(Items)
      BY <1>2 DEF IsWireStream
    <3> HIDE DEF Items
    <3> QED BY <3>1
  <2>2. /\ script[k].type = "handshake" <=> k = 1
        /\ k = 1 => Len(script[k].data) - 48 \in Byte
        /\ k # 1 => IsU32(Len(script[k].data))
    BY <1>2 DEF IsWireStream
  <2>3. CASE k = 1
    BY <1>2, <2>1, <2>2, <2>3 DEF HandshakeAt
  <2>4. CASE k # 1
    BY <1>2, <2>1, <2>2, <2>4 DEF MessageAt, Message
  <2> QED BY <2>3, <2>4
<1> QED BY <1>1, <1>2 DEF ScriptIsRight

LEMMA NoiseBytes ==
  ASSUME NEW data
  PROVE  Bytes(Noise(data)) = data
BY DEF Bytes, Noise

LEMMA ItemsHaveBytes ==
  ASSUME ScriptIsRight, NEW k \in 1 .. Len(script)
  PROVE  Bytes(script[k]) \in Seq(Byte) /\ Len(Bytes(script[k])) \in Nat \ {0}
<1>1. CASE PieceAt(k)
  BY <1>1, PieceBytes DEF PieceAt
<1>2. CASE SummaryAt(k)
  BY <1>2, SummaryBytes DEF SummaryAt
<1>3. CASE NoiseAt(k)
  BY <1>3, NoiseBytes, EmptySeq DEF NoiseAt
<1>4. CASE HandshakeAt(k)
  BY <1>4, HandshakeBytes DEF HandshakeAt
<1>5. CASE MessageAt(k)
  BY <1>5, MessageBytes DEF MessageAt
<1> QED BY <1>1, <1>2, <1>3, <1>4, <1>5, Shapes

LEMMA Starts ==
  ASSUME ScriptIsRight
  PROVE  /\ Start \in Seq(Byte) /\ Len(Start) \in {0, 4}
         /\ Start = IF Len(Start) = 4 THEN Magic ELSE <<>>
         /\ Len(Start) = 0 <=>
              format = "wire" \/ (Len(script) > 0 /\ script[1].type = "noise")
<1>1. Magic \in Seq(Byte) /\ Len(Magic) = 4 /\ <<>> \in Seq(Byte) /\ Len(<<>>) = 0
  BY DEF Magic, Byte
<1>2. script = <<>> <=> Len(script) = 0
  BY EmptySeq DEF ScriptIsRight, IsFrameStream, IsWireStream
<1>3. Len(script) \in Nat
  BY DEF ScriptIsRight, IsFrameStream, IsWireStream
<1> DEFINE none == format = "wire" \/ (Len(script) > 0 /\ script[1].type = "noise")
<1>4. Start = IF none THEN <<>> ELSE Magic
  BY <1>2, <1>3 DEF Start
<1> HIDE DEF none
<1>5. CASE none
  BY <1>1, <1>4, <1>5 DEF none
<1>6. CASE ~none
  BY <1>1, <1>4, <1>6 DEF none
<1> QED BY <1>5, <1>6
-----------------------------------------------------------------------------
(* The inductive invariant.                                                *)

Sendable == {script[k] : k \in 1 .. Len(script)}

\* Item k is where ends says, after the items before it.
Written ==
  /\ sent \in 0 .. Len(script) /\ written \in Seq(Byte)
  /\ ends \in [0 .. sent -> Nat]
  /\ ends[0] = Len(Start) /\ ends[sent] = Len(written)
  /\ \A i \in 1 .. Len(Start) : written[i] = Start[i]
  /\ \A k \in 1 .. sent :
       /\ ends[k] = ends[k - 1] + Len(Bytes(script[k]))
       /\ \A i \in 1 .. Len(Bytes(script[k])) :
            written[ends[k - 1] + i] = Bytes(script[k])[i]
  /\ \A j \in 0 .. sent, k \in 0 .. sent : j <= k => ends[j] <= ends[k]

\* The buffer is what came after the bytes the reader is done with.
Buffered ==
  /\ came \in 0 .. Len(written) /\ buf \in Seq(Byte) /\ Len(buf) <= came
  /\ \A i \in 1 .. Len(buf) : buf[i] = written[Consumed + i]

Read ==
  /\ begun \in BOOLEAN /\ taken \in Seq(Sendable) /\ Len(taken) <= sent
  /\ \A k \in 1 .. Len(taken) : taken[k] = script[k] /\ script[k].type # "noise"
  /\ Consumed = IF begun THEN ends[Len(taken)] ELSE 0
  /\ ~begun => taken = <<>>
  /\ format = "frames" /\ begun => Len(Start) = 4
  /\ format = "wire" /\ begun => taken # <<>>

NothingHeldBack ==
  reader \in {"waiting", "ended"} =>
    \A k \in (Len(taken) + 1) .. sent : script[k].type # "noise" => came < ends[k]

FailedAtNoise ==
  reader = "failed" => Len(taken) < sent /\ script[Len(taken) + 1].type = "noise"

ReaderInv ==
  ScriptIsRight /\ Written /\ Buffered /\ Read /\ NothingHeldBack /\ FailedAtNoise

LEMMA ReaderInvInit == Init => ReaderInv
<1> SUFFICES ASSUME Init PROVE ReaderInv
  OBVIOUS
<1>1. ScriptIsRight
  BY StreamAssumption DEF Init, ScriptIsRight
<1>2. Start \in Seq(Byte) /\ Len(Start) \in Nat /\ Len(script) \in Nat
  BY <1>1, Starts DEF ScriptIsRight, IsFrameStream, IsWireStream
<1>3. Written
  BY <1>2 DEF Init, Written
<1>4. /\ buf = <<>> /\ taken = <<>> /\ came = 0 /\ begun = FALSE /\ sent = 0
      /\ Len(<<>>) = 0 /\ <<>> \in Seq(Sendable) /\ <<>> \in Seq(Byte)
  BY EmptySeq DEF Init
<1>5. Buffered
  BY <1>2, <1>4 DEF Init, Buffered
<1>6. Len(buf) = 0 /\ Len(taken) = 0 /\ buf \in Seq(Byte) /\ taken \in Seq(Sendable)
  BY <1>4, Zenon
<1>7. Read
  <2>1. came = 0
    BY <1>4
  <2>2. Consumed = 0
    BY <1>6, <2>1 DEF Consumed
  <2>3. \A k \in 1 .. Len(taken) : taken[k] = script[k] /\ script[k].type # "noise"
    BY <1>6
  <2>4. Len(taken) <= sent
    BY <1>4, <1>6
  <2> QED BY <1>4, <1>6, <2>2, <2>3, <2>4, Zenon DEF Read
<1>8. NothingHeldBack /\ FailedAtNoise
  BY <1>4 DEF Init, NothingHeldBack, FailedAtNoise
<1> QED BY <1>1, <1>3, <1>5, <1>7, <1>8 DEF ReaderInv

LEMMA Sent ==
  ASSUME ReaderInv, Send
  PROVE  ReaderInv'
<1> DEFINE m == sent + 1
           c == Bytes(script[m])
<1> USE DEF senderVars
<1>1. m \in 1 .. Len(script) /\ sent \in Nat /\ Len(script) \in Nat
  BY DEF ReaderInv, Written, Send, ScriptIsRight, IsFrameStream, IsWireStream
<1>2. c \in Seq(Byte) /\ Len(c) \in Nat \ {0} /\ written \in Seq(Byte) /\ Len(written) \in Nat
  BY <1>1, ItemsHaveBytes DEF ReaderInv, Written
<1>3. script' = script /\ format' = format /\ Start' = Start /\ sent' = m
  BY DEF Send, Start
<1>4. ScriptIsRight'
  BY <1>3 DEF ReaderInv, ScriptIsRight
<1> DEFINE r == written \o c
<1>5. written' = r
  BY DEF Send
<1> HIDE DEF c
<1>6. /\ r \in Seq(Byte) /\ Len(r) = Len(written) + Len(c)
      /\ \A i \in 1 .. Len(written) : r[i] = written[i]
      /\ \A i \in 1 .. Len(c) : r[Len(written) + i] = c[i]
  BY <1>2, Appended
<1> HIDE DEF r
<1>7. /\ ends' \in [0 .. m -> Nat] /\ ends'[m] = Len(written) + Len(c)
      /\ \A k \in 0 .. sent : ends'[k] = ends[k]
      /\ ends \in [0 .. sent -> Nat]
  <2>1. ends' = [k \in 0 .. m |-> IF k <= sent THEN ends[k] ELSE Len(written')]
    BY DEF Send
  <2>2. Len(written') = Len(written) + Len(c)
    BY <1>5, <1>6
  <2>3. ends \in [0 .. sent -> Nat]
    BY DEF ReaderInv, Written
  <2> QED BY <1>1, <1>2, <2>1, <2>2, <2>3
<1>8. /\ ends[0] = Len(Start) /\ ends[sent] = Len(written)
      /\ \A j \in 0 .. sent, k \in 0 .. sent : j <= k => ends[j] <= ends[k]
  BY DEF ReaderInv, Written
<1>9. \A k \in 0 .. sent : ends[k] <= Len(written)
  BY <1>1, <1>8
<1>10. \A j \in 0 .. m, k \in 0 .. m : j <= k => ends'[j] <= ends'[k]
  <2> SUFFICES ASSUME NEW j \in 0 .. m, NEW k \in 0 .. m, j <= k
               PROVE  ends'[j] <= ends'[k]
    OBVIOUS
  <2>1. CASE k <= sent
    BY <1>1, <1>7, <1>8, <2>1
  <2>2. CASE k = m /\ j <= sent
    BY <1>1, <1>2, <1>7, <1>9, <2>2
  <2>3. CASE k = m /\ j = m
    BY <1>1, <1>2, <1>7, <2>3
  <2> QED BY <1>1, <2>1, <2>2, <2>3
<1>11. \A i \in 1 .. Len(Start) : r[i] = Start[i]
  <2>1. Len(Start) <= Len(written) /\ Len(Start) \in Nat
    BY <1>1, <1>7, <1>8, <1>9
  <2>2. \A i \in 1 .. Len(Start) : written[i] = Start[i]
    BY DEF ReaderInv, Written
  <2> QED BY <1>2, <1>6, <2>1, <2>2
<1>12. ASSUME NEW k \in 1 .. m
       PROVE  /\ ends'[k] = ends'[k - 1] + Len(Bytes(script[k]))
              /\ \A i \in 1 .. Len(Bytes(script[k])) :
                   r[ends'[k - 1] + i] = Bytes(script[k])[i]
  <2>1. CASE k <= sent
    <3>1. k \in 1 .. sent /\ k \in 0 .. sent /\ k - 1 \in 0 .. sent
      BY <1>1, <2>1
    <3>2. /\ ends[k] = ends[k - 1] + Len(Bytes(script[k]))
          /\ \A i \in 1 .. Len(Bytes(script[k])) :
               written[ends[k - 1] + i] = Bytes(script[k])[i]
      BY <3>1 DEF ReaderInv, Written
    <3>3. ends'[k] = ends[k] /\ ends'[k - 1] = ends[k - 1]
      BY <1>7, <3>1
    <3>4. ends[k] <= Len(written) /\ ends[k - 1] \in Nat /\ Len(Bytes(script[k])) \in Nat
      BY <1>1, <1>7, <1>9, <3>1, ItemsHaveBytes DEF ReaderInv
    <3>5. ASSUME NEW i \in 1 .. Len(Bytes(script[k]))
          PROVE  r[ends[k - 1] + i] = Bytes(script[k])[i]
      <4>1. ends[k - 1] + i \in 1 .. Len(written)
        BY <1>2, <3>2, <3>4
      <4> QED BY <1>6, <3>2, <4>1
    <3> QED BY <3>2, <3>3, <3>5
  <2>2. CASE k = m
    <3>1. ends'[k - 1] = Len(written) /\ ends'[k] = Len(written) + Len(c)
      BY <1>1, <1>7, <1>8, <2>2
    <3> QED BY <1>6, <2>2, <3>1 DEF c
  <2> QED BY <1>1, <2>1, <2>2
<1>13. Written'
  <2>1. sent' \in 0 .. Len(script') /\ written' \in Seq(Byte) /\ ends' \in [0 .. sent' -> Nat]
    BY <1>1, <1>3, <1>5, <1>6, <1>7
  <2>2. ends'[0] = Len(Start') /\ ends'[sent'] = Len(written')
    BY <1>1, <1>3, <1>5, <1>6, <1>7, <1>8
  <2>3. \A i \in 1 .. Len(Start') : written'[i] = Start'[i]
    BY <1>3, <1>5, <1>11
  <2>4. \A k \in 1 .. sent' :
          /\ ends'[k] = ends'[k - 1] + Len(Bytes(script'[k]))
          /\ \A i \in 1 .. Len(Bytes(script'[k])) :
               written'[ends'[k - 1] + i] = Bytes(script'[k])[i]
    BY <1>3, <1>5, <1>12
  <2>5. \A j \in 0 .. sent', k \in 0 .. sent' : j <= k => ends'[j] <= ends'[k]
    BY <1>3, <1>10
  <2> QED BY <2>1, <2>2, <2>3, <2>4, <2>5 DEF Written
<1>14. /\ came' = came /\ buf' = buf /\ begun' = begun /\ taken' = taken
       /\ reader' = reader /\ Consumed' = Consumed
  BY DEF Send, Consumed
<1>15. Len(buf) \in Nat /\ came \in 0 .. Len(written) /\ Len(buf) <= came
  BY DEF ReaderInv, Buffered
<1>16. Buffered'
  <2>1. came \in 0 .. Len(r)
    BY <1>2, <1>6, <1>15
  <2>2. ASSUME NEW i \in 1 .. Len(buf)
        PROVE  buf[i] = r[Consumed + i]
    <3>1. Consumed + i \in 1 .. Len(written)
      BY <1>2, <1>15 DEF Consumed
    <3>2. buf[i] = written[Consumed + i]
      BY DEF ReaderInv, Buffered
    <3> QED BY <1>6, <3>1, <3>2
  <2> QED BY <1>5, <1>14, <1>15, <2>1, <2>2 DEF ReaderInv, Buffered
<1>17. Read'
  <2>1. Len(taken) \in 0 .. sent
    BY <1>1 DEF ReaderInv, Read
  <2>2. Sendable' = Sendable /\ ends'[Len(taken)] = ends[Len(taken)]
    BY <1>3, <1>7, <2>1 DEF Sendable
  <2> QED BY <1>1, <1>3, <1>14, <2>1, <2>2 DEF ReaderInv, Read
<1>18. NothingHeldBack'
  <2> SUFFICES ASSUME reader \in {"waiting", "ended"}, NEW k \in (Len(taken) + 1) .. m,
                      script[k].type # "noise"
               PROVE  came < ends'[k]
    BY <1>3, <1>14 DEF NothingHeldBack
  <2>1. Len(taken) \in 0 .. sent
    BY <1>1 DEF ReaderInv, Read
  <2>2. CASE k = m
    BY <1>2, <1>7, <1>15, <2>2
  <2>3. CASE k <= sent
    <3>1. k \in (Len(taken) + 1) .. sent /\ k \in 0 .. sent
      BY <1>1, <2>1, <2>3
    <3> QED BY <1>7, <3>1 DEF ReaderInv, NothingHeldBack
  <2> QED BY <1>1, <2>1, <2>2, <2>3
<1>19. FailedAtNoise'
  <2>1. Len(taken) \in 0 .. sent
    BY <1>1 DEF ReaderInv, Read
  <2> QED BY <1>1, <1>3, <1>14, <2>1 DEF ReaderInv, FailedAtNoise
<1> QED BY <1>4, <1>13, <1>16, <1>17, <1>18, <1>19 DEF ReaderInv
LEMMA Lengths ==
  ASSUME ReaderInv
  PROVE  /\ Len(script) \in Nat /\ sent \in Nat /\ sent <= Len(script)
         /\ Len(written) \in Nat /\ came \in Nat /\ came <= Len(written)
         /\ Len(buf) \in Nat /\ Consumed \in Nat /\ came = Consumed + Len(buf)
         /\ Len(taken) \in 0 .. sent /\ Len(taken) + 1 \in Nat /\ ends[Len(taken)] \in Nat
<1>1. Len(script) \in Nat
  BY DEF ReaderInv, ScriptIsRight, IsFrameStream, IsWireStream
<1>2. /\ sent \in Nat /\ sent <= Len(script)
      /\ Len(written) \in Nat /\ came \in Nat /\ came <= Len(written)
      /\ Len(buf) \in Nat /\ Len(buf) <= came
  BY <1>1 DEF ReaderInv, Written, Buffered
<1>3. Len(taken) \in 0 .. sent
  BY <1>2 DEF ReaderInv, Read
<1>4. ends[Len(taken)] \in Nat
  BY <1>3 DEF ReaderInv, Written
<1> QED BY <1>1, <1>2, <1>3, <1>4 DEF Consumed

\* A reader that has begun, or has no magic to wait for, is at an item's start.
LEMMA AtAnItem ==
  ASSUME ReaderInv, begun \/ Len(Start) = 0
  PROVE  Consumed = ends[Len(taken)]
<1>1. CASE begun
  BY <1>1 DEF ReaderInv, Read
<1>2. CASE ~begun /\ Len(Start) = 0
  <2>1. Consumed = 0 /\ taken = <<>>
    BY <1>2 DEF ReaderInv, Read
  <2>2. Len(taken) = 0
    BY <2>1, EmptySeq
  <2> QED BY <1>2, <2>1, <2>2 DEF ReaderInv, Written
<1>3. begun \in BOOLEAN
  BY DEF ReaderInv, Read
<1> QED BY <1>1, <1>2, <1>3

\* What it has is then the beginning of the next item.
LEMMA NextItem ==
  ASSUME ReaderInv, begun \/ Len(Start) = 0, Len(buf) > 0,
         NEW k, k = Len(taken) + 1, NEW c, c = Bytes(script[k])
  PROVE  /\ k \in 1 .. sent /\ k \in 1 .. Len(script)
         /\ c \in Seq(Byte) /\ Len(c) \in Nat \ {0}
         /\ Consumed = ends[k - 1] /\ ends[k] = Consumed + Len(c)
         /\ \A i \in 1 .. Len(c) : i <= Len(buf) => buf[i] = c[i]
<1>1. Consumed = ends[Len(taken)]
  BY AtAnItem
<1>2. ends[sent] = Len(written) /\ ends \in [0 .. sent -> Nat]
  BY DEF ReaderInv, Written
<1>3. Len(taken) # sent
  BY <1>1, <1>2, Lengths
<1>4. k \in 1 .. sent /\ k \in 1 .. Len(script) /\ k - 1 = Len(taken)
  BY <1>3, Lengths
<1>5. c \in Seq(Byte) /\ Len(c) \in Nat \ {0}
  BY <1>4, ItemsHaveBytes DEF ReaderInv
<1>6. /\ ends[k] = ends[k - 1] + Len(c)
      /\ \A i \in 1 .. Len(c) : written[ends[k - 1] + i] = c[i]
  BY <1>4 DEF ReaderInv, Written
<1>7. \A i \in 1 .. Len(buf) : buf[i] = written[Consumed + i]
  BY DEF ReaderInv, Buffered
<1>8. \A i \in 1 .. Len(c) : i <= Len(buf) => buf[i] = c[i]
  BY <1>1, <1>4, <1>5, <1>6, <1>7, Lengths
<1> QED BY <1>1, <1>4, <1>5, <1>6, <1>8

LEMMA Pushed ==
  ASSUME ReaderInv, NEW n \in 1 .. (Len(written) - came), Push(n)
  PROVE  ReaderInv'
<1> DEFINE new == SubSeq(written, came + 1, came + n)
           r == buf \o new
<1>1. /\ written \in Seq(Byte) /\ buf \in Seq(Byte) /\ came + n \in 1 .. Len(written)
      /\ came + 1 \in 1 .. came + n
  BY Lengths DEF ReaderInv, Written, Buffered
<1>2. /\ new \in Seq(Byte) /\ Len(new) = n
      /\ \A i \in 1 .. n : new[i] = written[came + i]
  <2>1. n \in Nat /\ came \in Nat /\ came + n <= Len(written)
    BY <1>1, Lengths
  <2> QED BY <1>1, <2>1, Chunk
<1> HIDE DEF new
<1>3. /\ r \in Seq(Byte) /\ Len(r) = Len(buf) + Len(new)
      /\ \A i \in 1 .. Len(buf) : r[i] = buf[i]
      /\ \A i \in 1 .. Len(new) : r[Len(buf) + i] = new[i]
  BY <1>1, <1>2, Appended
<1>4. buf' = r /\ came' = came + n
  BY DEF Push, new
<1> HIDE DEF r
<1>5. /\ reader' = "draining" /\ format' = format /\ script' = script /\ sent' = sent
      /\ written' = written /\ ends' = ends /\ begun' = begun /\ taken' = taken
  BY DEF Push, senderVars
<1>6. Start' = Start /\ Sendable' = Sendable
  BY <1>5 DEF Start, Sendable
<1>7. Len(r) = Len(buf) + n
  BY <1>2, <1>3
<1>8. Consumed' = Consumed
  <2>1. Consumed' = (came + n) - Len(r)
    BY <1>4 DEF Consumed
  <2> QED BY <1>7, <2>1, Lengths DEF Consumed
<1>9. Buffered'
  <2>1. ASSUME NEW i \in 1 .. Len(r)
        PROVE  r[i] = written[Consumed + i]
    <3>1. CASE i <= Len(buf)
      BY <1>3, <3>1, Lengths DEF ReaderInv, Buffered
    <3>2. CASE i > Len(buf)
      <4>1. i - Len(buf) \in 1 .. n /\ i = Len(buf) + (i - Len(buf))
        BY <1>7, <3>2, Lengths
      <4>2. r[i] = new[i - Len(buf)]
        BY <1>2, <1>3, <4>1
      <4>3. r[i] = written[came + (i - Len(buf))]
        BY <1>2, <4>1, <4>2
      <4>4. came + (i - Len(buf)) = Consumed + i
        BY <4>1, Lengths
      <4> QED BY <4>3, <4>4
    <3> QED BY <1>7, <3>1, <3>2, Lengths
  <2>2. came + n \in 0 .. Len(written) /\ Len(r) <= came + n
    BY <1>1, <1>7, Lengths DEF ReaderInv, Buffered
  <2> QED BY <1>3, <1>4, <1>5, <1>8, <2>1, <2>2 DEF Buffered
<1>10. ScriptIsRight' /\ Written' /\ Read'
  BY <1>5, <1>6, <1>8 DEF ReaderInv, ScriptIsRight, Written, Read
<1>11. NothingHeldBack' /\ FailedAtNoise'
  BY <1>5 DEF NothingHeldBack, FailedAtNoise
<1> QED BY <1>9, <1>10, <1>11 DEF ReaderInv
LEMMA Skipped ==
  ASSUME NEW s \in Seq(Byte), NEW n \in Nat, n <= Len(s)
  PROVE  /\ Skip(s, n) \in Seq(Byte) /\ Len(Skip(s, n)) = Len(s) - n
         /\ \A i \in 1 .. Len(s) - n : Skip(s, n)[i] = s[n + i]
<1> DEFINE m == Len(s) - n
<1>1. m \in Nat /\ n + m = Len(s)
  OBVIOUS
<1>2. Skip(s, n) = SubSeq(s, n + 1, n + m)
  BY <1>1 DEF Skip
<1> HIDE DEF m
<1>3. /\ Skip(s, n) \in Seq(Byte) /\ Len(Skip(s, n)) = m
      /\ \A i \in 1 .. m : Skip(s, n)[i] = s[n + i]
  BY <1>1, <1>2, Chunk
<1> QED BY <1>3 DEF m

\* The reader is past the first n bytes of its buffer.
LEMMA Passed ==
  ASSUME ReaderInv, NEW n \in Nat, n <= Len(buf), buf' = Skip(buf, n),
         UNCHANGED <<written, came>>
  PROVE  Buffered' /\ Consumed' = Consumed + n
<1>1. buf \in Seq(Byte) /\ \A i \in 1 .. Len(buf) : buf[i] = written[Consumed + i]
  BY DEF ReaderInv, Buffered
<1>2. /\ buf' \in Seq(Byte) /\ Len(buf') = Len(buf) - n
      /\ \A i \in 1 .. Len(buf) - n : buf'[i] = buf[n + i]
  BY <1>1, Skipped
<1>3. Consumed' = Consumed + n
  <2>1. Consumed' = came - Len(buf')
    BY DEF Consumed
  <2> QED BY <1>2, <2>1, Lengths DEF Consumed
<1>4. ASSUME NEW i \in 1 .. Len(buf')
      PROVE  buf'[i] = written[Consumed' + i]
  <2>1. n + i \in 1 .. Len(buf) /\ i \in 1 .. Len(buf) - n
    BY <1>2, Lengths
  <2>2. Consumed + (n + i) = Consumed' + i
    BY <1>3, <2>1, Lengths
  <2> QED BY <1>1, <1>2, <2>1, <2>2
<1>5. came \in 0 .. Len(written) /\ Len(buf') <= came
  BY <1>2, Lengths
<1> QED BY <1>2, <1>3, <1>4, <1>5 DEF Buffered

LEMMA TakesItem ==
  ASSUME ReaderInv, reader = "draining", Len(buf) > 0,
         format = "frames" => begun,
         NEW k, k = Len(taken) + 1, script[k].type # "noise",
         NEW n, n = Len(Bytes(script[k])), n <= Len(buf),
         buf' = Skip(buf, n), taken' = Append(taken, script[k]), begun' = TRUE,
         UNCHANGED <<senderVars, came, reader>>
  PROVE  ReaderInv'
<1>1. begun \/ Len(Start) = 0
  BY Starts DEF ReaderInv, ScriptIsRight
<1>2. /\ k \in 1 .. sent /\ k \in 1 .. Len(script) /\ n \in Nat \ {0}
      /\ Consumed = ends[k - 1] /\ ends[k] = Consumed + n
  BY <1>1, NextItem
<1>3. Buffered' /\ Consumed' = ends[k]
  BY <1>2, Passed DEF senderVars
<1>4. /\ format' = format /\ script' = script /\ sent' = sent /\ reader' = reader
      /\ written' = written /\ ends' = ends /\ Start' = Start /\ Sendable' = Sendable
  BY DEF senderVars, Start, Sendable
<1>5. ScriptIsRight' /\ Written'
  BY <1>4 DEF ReaderInv, ScriptIsRight, Written
<1>6. taken \in Seq(Sendable) /\ script[k] \in Sendable
  BY <1>2 DEF ReaderInv, Read, Sendable
<1>7. /\ taken' \in Seq(Sendable) /\ taken' # <<>> /\ Len(taken') = k
      /\ \A j \in 1 .. Len(taken) : taken'[j] = taken[j]
      /\ taken'[k] = script[k]
  BY <1>6, AppendProperties
<1>8. Read'
  <2>1. ASSUME NEW j \in 1 .. k
        PROVE  taken'[j] = script[j] /\ script[j].type # "noise"
    <3>1. CASE j = k
      BY <1>7, <3>1
    <3>2. CASE j # k
      <4>1. j \in 1 .. Len(taken)
        BY <3>2, Lengths
      <4> QED BY <1>7, <4>1 DEF ReaderInv, Read
    <3> QED BY <3>1, <3>2
  <2>2. format = "frames" => Len(Start) = 4
    BY DEF ReaderInv, Read
  <2> QED BY <1>2, <1>3, <1>4, <1>7, <2>1, <2>2, Lengths DEF Read
<1>9. NothingHeldBack' /\ FailedAtNoise'
  BY <1>4 DEF NothingHeldBack, FailedAtNoise
<1> QED BY <1>3, <1>5, <1>8, <1>9 DEF ReaderInv
-----------------------------------------------------------------------------
(* Which item the reader is at, and what its buffer says of it.            *)

LEMMA AtFrame ==
  ASSUME ReaderInv, format = "frames", begun, Len(buf) > 0,
         NEW k, k = Len(taken) + 1
  PROVE  /\ k \in 1 .. sent /\ k \in 1 .. Len(script)
         /\ \/ PieceAt(k) /\ buf[1] = PIECE
            \/ SummaryAt(k) /\ buf[1] = SUMMARY
            \/ NoiseAt(k) /\ buf[1] \notin {PIECE, SUMMARY}
<1> DEFINE c == Bytes(script[k])
<1>1. /\ k \in 1 .. sent /\ k \in 1 .. Len(script) /\ Len(c) \in Nat \ {0}
      /\ \A i \in 1 .. Len(c) : i <= Len(buf) => buf[i] = c[i]
  BY NextItem
<1>2. buf[1] = c[1]
  BY <1>1, Lengths
<1>3. CASE PieceAt(k)
  BY <1>1, <1>2, <1>3, PieceBytes DEF PieceAt
<1>4. CASE SummaryAt(k)
  BY <1>1, <1>2, <1>4, SummaryBytes DEF SummaryAt
<1>5. CASE NoiseAt(k)
  <2>1. k # 1
    <3>1. Len(Start) = 4
      BY DEF ReaderInv, Read
    <3>2. CASE k = 1
      <4>1. script[1].type = "noise" /\ Len(script) > 0
        BY <1>1, <1>5, <3>2 DEF NoiseAt, Noise
      <4> QED BY <3>1, <4>1, Starts DEF ReaderInv
    <3> QED BY <3>2
  <2>2. c = script[k].data
    BY <1>5, NoiseBytes DEF NoiseAt
  <2> QED BY <1>1, <1>2, <1>5, <2>1, <2>2 DEF NoiseAt
<1>6. ~HandshakeAt(k) /\ ~MessageAt(k)
  BY DEF HandshakeAt, MessageAt
<1> QED BY <1>1, <1>3, <1>4, <1>5, <1>6, Shapes DEF ReaderInv

LEMMA AtMessage ==
  ASSUME ReaderInv, format = "wire", Len(buf) > 0,
         NEW k, k = Len(taken) + 1
  PROVE  /\ k \in 1 .. sent /\ k \in 1 .. Len(script)
         /\ IF begun THEN MessageAt(k) ELSE HandshakeAt(k)
<1>1. Len(Start) = 0
  BY Starts DEF ReaderInv
<1>2. k \in 1 .. sent /\ k \in 1 .. Len(script)
  BY <1>1, NextItem
<1>3. HandshakeAt(k) \/ MessageAt(k)
  BY <1>2, Shapes DEF ReaderInv, PieceAt, SummaryAt, NoiseAt
<1>4. begun \in BOOLEAN /\ taken \in Seq(Sendable)
  BY DEF ReaderInv, Read
<1>5. CASE begun
  <2>1. taken # <<>>
    BY <1>5 DEF ReaderInv, Read
  <2>2. Len(taken) # 0
    BY <1>4, <2>1, EmptySeq
  <2> QED BY <1>2, <1>3, <1>5, <2>2, Lengths DEF HandshakeAt
<1>6. CASE ~begun
  <2>1. taken = <<>>
    BY <1>6 DEF ReaderInv, Read
  <2>2. Len(taken) = 0
    BY <2>1, EmptySeq
  <2> QED BY <1>2, <1>3, <1>6, <2>2 DEF MessageAt
<1> QED BY <1>2, <1>4, <1>5, <1>6

\* The body is the item's data.
LEMMA BodyIsData ==
  ASSUME NEW c, NEW data \in Seq(Byte), NEW h \in Nat, NEW m,
         m = h + Len(data), m <= Len(buf), buf \in Seq(Byte),
         \A i \in 1 .. m : buf[i] = c[i],
         \A i \in 1 .. Len(data) : c[h + i] = data[i]
  PROVE  SubSeq(buf, h + 1, m) = data
<1> DEFINE u == SubSeq(buf, h + 1, h + Len(data))
<1>1. Len(data) \in Nat
  OBVIOUS
<1>2. u \in Seq(Byte) /\ Len(u) = Len(data) /\ \A i \in 1 .. Len(data) : u[i] = buf[h + i]
  BY <1>1, Chunk
<1> HIDE DEF u
<1>3. ASSUME NEW i \in 1 .. Len(data)
      PROVE  u[i] = data[i]
  <2>1. h + i \in 1 .. m
    BY <1>1
  <2> QED BY <1>2, <2>1
<1>4. u = data
  BY <1>2, <1>3, SeqEqual
<1> QED BY <1>4 DEF u

LEMMA PieceRead ==
  ASSUME ReaderInv, Framed(PIECE), NEW k, k = Len(taken) + 1
  PROVE  /\ k \in 1 .. sent /\ PieceAt(k)
         /\ Len(Bytes(script[k])) = 9 + Len(script[k].data)
         /\ Len(buf) >= 9 => ReadU32(buf, 5) = Len(script[k].data)
         /\ Len(buf) >= 9 + Len(script[k].data) =>
              Piece(ReadU32(buf, 1), Body(9, 5)) = script[k]
<1> DEFINE c == Bytes(script[k])
           d == script[k].data
<1>1. format = "frames" /\ begun /\ buf[1] = PIECE /\ buf \in Seq(Byte) /\ Len(buf) > 0
  BY EmptySeq DEF Framed, ReaderInv, Buffered
<1>2. PieceAt(k) /\ k \in 1 .. sent
  BY <1>1, AtFrame DEF PIECE, SUMMARY
<1>3. \A i \in 1 .. Len(c) : i <= Len(buf) => buf[i] = c[i]
  BY <1>1, NextItem
<1>4. /\ script[k] = Piece(script[k].index, d) /\ d \in Seq(Byte) /\ Len(d) \in Nat
      /\ Len(c) = 9 + Len(d) /\ ReadU32(c, 1) = script[k].index /\ ReadU32(c, 5) = Len(d)
      /\ \A i \in 1 .. Len(d) : c[9 + i] = d[i]
  BY <1>2, PieceBytes DEF PieceAt
<1> HIDE DEF c
<1>5. ASSUME Len(buf) >= 9
      PROVE  ReadU32(buf, 1) = script[k].index /\ ReadU32(buf, 5) = Len(d)
  <2>1. \A i \in 1 .. 9 : buf[i] = c[i]
    <3> SUFFICES ASSUME NEW i \in 1 .. 9 PROVE buf[i] = c[i]
      OBVIOUS
    <3>1. Len(buf) \in Nat
      BY Lengths
    <3>2. i \in 1 .. Len(c) /\ i <= Len(buf)
      BY <1>4, <1>5, <3>1
    <3> QED BY <1>3, <3>2
  <2>2. /\ buf[2] = c[2] /\ buf[3] = c[3] /\ buf[4] = c[4] /\ buf[5] = c[5]
        /\ buf[6] = c[6] /\ buf[7] = c[7] /\ buf[8] = c[8] /\ buf[9] = c[9]
    BY <2>1
  <2>3. ReadU32(buf, 1) = ReadU32(c, 1) /\ ReadU32(buf, 5) = ReadU32(c, 5)
    BY <2>2, SameU32
  <2> QED BY <1>4, <2>3
<1>6. ASSUME Len(buf) >= 9 + Len(d)
      PROVE  Piece(ReadU32(buf, 1), Body(9, 5)) = script[k]
  <2>1. ReadU32(buf, 1) = script[k].index /\ ReadU32(buf, 5) = Len(d)
    BY <1>4, <1>5, <1>6, Lengths
  <2>2. \A i \in 1 .. (9 + Len(d)) : buf[i] = c[i]
    BY <1>3, <1>4, <1>6, Lengths
  <2>3. SubSeq(buf, 9 + 1, 9 + Len(d)) = d
    BY <1>1, <1>4, <1>6, <2>2, BodyIsData, Lengths
  <2>4. Body(9, 5) = d
    BY <2>1, <2>3 DEF Body
  <2> QED BY <1>4, <2>1, <2>4
<1> QED BY <1>2, <1>4, <1>5, <1>6 DEF c
LEMMA SummaryRead ==
  ASSUME ReaderInv, Framed(SUMMARY), NEW k, k = Len(taken) + 1
  PROVE  /\ k \in 1 .. sent /\ SummaryAt(k)
         /\ Len(Bytes(script[k])) = 5 + Len(script[k].data)
         /\ Len(buf) >= 5 => ReadU32(buf, 1) = Len(script[k].data)
         /\ Len(buf) >= 5 + Len(script[k].data) => Summary(Body(5, 1)) = script[k]
<1> DEFINE c == Bytes(script[k])
           d == script[k].data
<1>1. format = "frames" /\ begun /\ buf[1] = SUMMARY /\ buf \in Seq(Byte) /\ Len(buf) > 0
  BY EmptySeq DEF Framed, ReaderInv, Buffered
<1>2. SummaryAt(k) /\ k \in 1 .. sent
  BY <1>1, AtFrame DEF PIECE, SUMMARY
<1>3. \A i \in 1 .. Len(c) : i <= Len(buf) => buf[i] = c[i]
  BY <1>1, NextItem
<1>4. /\ script[k] = Summary(d) /\ d \in Seq(Byte) /\ Len(d) \in Nat
      /\ Len(c) = 5 + Len(d) /\ ReadU32(c, 1) = Len(d)
      /\ \A i \in 1 .. Len(d) : c[5 + i] = d[i]
  BY <1>2, SummaryBytes DEF SummaryAt
<1> HIDE DEF c
<1>5. ASSUME Len(buf) >= 5
      PROVE  ReadU32(buf, 1) = Len(d)
  <2>1. \A i \in 1 .. 5 : buf[i] = c[i]
    <3> SUFFICES ASSUME NEW i \in 1 .. 5 PROVE buf[i] = c[i]
      OBVIOUS
    <3>1. Len(buf) \in Nat
      BY Lengths
    <3>2. i \in 1 .. Len(c) /\ i <= Len(buf)
      BY <1>4, <1>5, <3>1
    <3> QED BY <1>3, <3>2
  <2>2. buf[2] = c[2] /\ buf[3] = c[3] /\ buf[4] = c[4] /\ buf[5] = c[5]
    BY <2>1
  <2>3. ReadU32(buf, 1) = ReadU32(c, 1)
    BY <2>2, SameU32
  <2> QED BY <1>4, <2>3
<1>6. ASSUME Len(buf) >= 5 + Len(d)
      PROVE  Summary(Body(5, 1)) = script[k]
  <2>1. ReadU32(buf, 1) = Len(d)
    BY <1>4, <1>5, <1>6, Lengths
  <2>2. \A i \in 1 .. (5 + Len(d)) : buf[i] = c[i]
    BY <1>3, <1>4, <1>6, Lengths
  <2>3. SubSeq(buf, 5 + 1, 5 + Len(d)) = d
    BY <1>1, <1>4, <1>6, <2>2, BodyIsData, Lengths
  <2>4. Body(5, 1) = d
    BY <2>1, <2>3 DEF Body
  <2> QED BY <1>4, <2>4
<1> QED BY <1>2, <1>4, <1>5, <1>6 DEF c

LEMMA MessageRead ==
  ASSUME ReaderInv, format = "wire", begun, Len(buf) > 0, NEW k, k = Len(taken) + 1
  PROVE  /\ k \in 1 .. sent /\ MessageAt(k)
         /\ Len(Bytes(script[k])) = 4 + Len(script[k].data)
         /\ Len(buf) >= 4 => ReadU32(buf, 0) = Len(script[k].data)
         /\ Len(buf) >= 4 + Len(script[k].data) => Message(Body(4, 0)) = script[k]
<1> DEFINE c == Bytes(script[k])
           d == script[k].data
<1>1. buf \in Seq(Byte)
  BY DEF ReaderInv, Buffered
<1>2. MessageAt(k) /\ k \in 1 .. sent
  BY AtMessage
<1>3. \A i \in 1 .. Len(c) : i <= Len(buf) => buf[i] = c[i]
  BY NextItem
<1>4. /\ script[k] = Message(d) /\ d \in Seq(Byte) /\ Len(d) \in Nat
      /\ Len(c) = 4 + Len(d) /\ ReadU32(c, 0) = Len(d)
      /\ \A i \in 1 .. Len(d) : c[4 + i] = d[i]
  BY <1>2, MessageBytes DEF MessageAt
<1> HIDE DEF c
<1>5. ASSUME Len(buf) >= 4
      PROVE  ReadU32(buf, 0) = Len(d)
  <2>1. \A i \in 1 .. 4 : buf[i] = c[i]
    <3> SUFFICES ASSUME NEW i \in 1 .. 4 PROVE buf[i] = c[i]
      OBVIOUS
    <3>1. Len(buf) \in Nat
      BY Lengths
    <3>2. i \in 1 .. Len(c) /\ i <= Len(buf)
      BY <1>4, <1>5, <3>1
    <3> QED BY <1>3, <3>2
  <2>2. buf[1] = c[1] /\ buf[2] = c[2] /\ buf[3] = c[3] /\ buf[4] = c[4]
    BY <2>1
  <2>3. ReadU32(buf, 0) = ReadU32(c, 0)
    BY <2>2, SameU32
  <2> QED BY <1>4, <2>3
<1>6. ASSUME Len(buf) >= 4 + Len(d)
      PROVE  Message(Body(4, 0)) = script[k]
  <2>1. ReadU32(buf, 0) = Len(d)
    BY <1>4, <1>5, <1>6, Lengths
  <2>2. \A i \in 1 .. (4 + Len(d)) : buf[i] = c[i]
    BY <1>3, <1>4, <1>6, Lengths
  <2>3. SubSeq(buf, 4 + 1, 4 + Len(d)) = d
    BY <1>1, <1>4, <1>6, <2>2, BodyIsData, Lengths
  <2>4. Body(4, 0) = d
    BY <2>1, <2>3 DEF Body
  <2> QED BY <1>4, <2>4
<1> QED BY <1>2, <1>4, <1>5, <1>6 DEF c

LEMMA HandshakeRead ==
  ASSUME ReaderInv, format = "wire", ~begun, Len(buf) > 0, NEW k, k = Len(taken) + 1
  PROVE  /\ k \in 1 .. sent /\ HandshakeAt(k)
         /\ Len(Bytes(script[k])) = 49 + buf[1] /\ Len(script[k].data) = 48 + buf[1]
         /\ buf[1] \in Nat
         /\ Len(buf) >= 49 + buf[1] =>
              [type |-> "handshake", data |-> SubSeq(buf, 2, 49 + buf[1])] = script[k]
<1> DEFINE c == Bytes(script[k])
           d == script[k].data
<1>1. buf \in Seq(Byte)
  BY DEF ReaderInv, Buffered
<1>2. HandshakeAt(k) /\ k \in 1 .. sent
  BY AtMessage
<1>3. \A i \in 1 .. Len(c) : i <= Len(buf) => buf[i] = c[i]
  <2>1. Len(Start) = 0
    BY Starts DEF ReaderInv
  <2> QED BY <2>1, NextItem
<1>4. /\ script[k] = [type |-> "handshake", data |-> d] /\ d \in Seq(Byte)
      /\ Len(d) \in Nat /\ Len(d) - 48 \in Nat
      /\ Len(c) = 1 + Len(d) /\ c[1] = Len(d) - 48
      /\ \A i \in 1 .. Len(d) : c[1 + i] = d[i]
  <2>1. /\ script[k] = [type |-> "handshake", data |-> d] /\ d \in Seq(Byte)
        /\ Len(d) - 48 \in Byte
    BY <1>2 DEF HandshakeAt
  <2> HIDE DEF d
  <2>2. c = Bytes([type |-> "handshake", data |-> d])
    BY <2>1
  <2>3. /\ Len(c) = 1 + Len(d) /\ c[1] = Len(d) - 48
        /\ \A i \in 1 .. Len(d) : c[1 + i] = d[i]
    BY <2>1, <2>2, HandshakeBytes
  <2>4. Len(d) \in Nat /\ Len(d) - 48 \in Nat
    BY <2>1, PstrlenIsThere
  <2> QED BY <2>1, <2>3, <2>4, Zenon
<1> HIDE DEF c
<1>5. buf[1] = Len(d) - 48
  <2>1. 1 \in 1 .. Len(c) /\ 1 <= Len(buf)
    BY <1>4, Lengths
  <2> QED BY <1>3, <1>4, <2>1
<1>6. Len(c) = 49 + buf[1] /\ Len(d) = 48 + buf[1] /\ buf[1] \in Nat
  BY <1>4, <1>5
<1>7. ASSUME Len(buf) >= 49 + buf[1]
      PROVE  SubSeq(buf, 2, 49 + buf[1]) = d
  <2>1. \A i \in 1 .. (1 + Len(d)) : buf[i] = c[i]
    BY <1>3, <1>4, <1>6, <1>7, Lengths
  <2>2. 1 + Len(d) <= Len(buf)
    BY <1>4, <1>6, <1>7, Lengths
  <2>3. SubSeq(buf, 1 + 1, 1 + Len(d)) = d
    BY <1>1, <1>4, <2>1, <2>2, BodyIsData, Lengths
  <2>4. 1 + Len(d) = 49 + buf[1]
    BY <1>4, <1>6
  <2> QED BY <2>3, <2>4
<1> QED BY <1>2, <1>4, <1>6, <1>7 DEF c
-----------------------------------------------------------------------------
(* The steps of the readers.                                               *)

LEMMA PieceTaken ==
  ASSUME ReaderInv, TakePiece
  PROVE  ReaderInv'
<1> DEFINE k == Len(taken) + 1
           d == script[k].data
<1>1. /\ Framed(PIECE) /\ Len(buf) >= 9 /\ Len(buf) >= 9 + ReadU32(buf, 5)
      /\ reader = "draining" /\ begun' = begun /\ begun
      /\ UNCHANGED <<senderVars, came, reader>>
  BY DEF TakePiece, Holds, Take, Framed
<1>2. /\ PieceAt(k) /\ Len(Bytes(script[k])) = 9 + Len(d) /\ ReadU32(buf, 5) = Len(d)
      /\ Piece(ReadU32(buf, 1), Body(9, 5)) = script[k]
  BY <1>1, PieceRead
<1>3. /\ buf' = Skip(buf, 9 + Len(script[k].data)) /\ taken' = Append(taken, script[k])
  BY <1>2 DEF TakePiece, Take
<1>4. script[k].type # "noise"
  BY <1>2 DEF PieceAt, Piece
<1>5. Len(buf) > 0
  BY <1>1, Lengths
<1> QED BY <1>1, <1>2, <1>3, <1>4, <1>5, TakesItem

LEMMA SummaryTaken ==
  ASSUME ReaderInv, TakeSummary
  PROVE  ReaderInv'
<1> DEFINE k == Len(taken) + 1
           d == script[k].data
<1>1. /\ Framed(SUMMARY) /\ Len(buf) >= 5 /\ Len(buf) >= 5 + ReadU32(buf, 1)
      /\ reader = "draining" /\ begun' = begun /\ begun
      /\ UNCHANGED <<senderVars, came, reader>>
  BY DEF TakeSummary, Holds, Take, Framed
<1>2. /\ SummaryAt(k) /\ Len(Bytes(script[k])) = 5 + Len(d) /\ ReadU32(buf, 1) = Len(d)
      /\ Summary(Body(5, 1)) = script[k]
  BY <1>1, SummaryRead
<1>3. /\ buf' = Skip(buf, 5 + Len(script[k].data)) /\ taken' = Append(taken, script[k])
  BY <1>2 DEF TakeSummary, Take
<1>4. script[k].type # "noise"
  BY <1>2 DEF SummaryAt, Summary
<1>5. Len(buf) > 0
  BY <1>1, Lengths
<1> QED BY <1>1, <1>2, <1>3, <1>4, <1>5, TakesItem

LEMMA MessageTaken ==
  ASSUME ReaderInv, TakeMessage
  PROVE  ReaderInv'
<1> DEFINE k == Len(taken) + 1
           d == script[k].data
<1>1. /\ format = "wire" /\ Len(buf) >= 4 /\ Len(buf) >= 4 + ReadU32(buf, 0)
      /\ reader = "draining" /\ begun' = begun /\ begun
      /\ UNCHANGED <<senderVars, came, reader>>
  BY DEF TakeMessage, Holds, Take
<1>2. Len(buf) > 0
  BY <1>1, Lengths
<1>3. /\ MessageAt(k) /\ Len(Bytes(script[k])) = 4 + Len(d) /\ ReadU32(buf, 0) = Len(d)
      /\ Message(Body(4, 0)) = script[k]
  BY <1>1, <1>2, MessageRead
<1>4. /\ buf' = Skip(buf, 4 + Len(script[k].data)) /\ taken' = Append(taken, script[k])
  BY <1>3 DEF TakeMessage, Take
<1>5. script[k].type # "noise"
  BY <1>3 DEF MessageAt, Message
<1> QED BY <1>1, <1>2, <1>3, <1>4, <1>5, TakesItem

LEMMA HandshakeTaken ==
  ASSUME ReaderInv, TakeHandshake
  PROVE  ReaderInv'
<1> DEFINE k == Len(taken) + 1
<1>1. /\ format = "wire" /\ ~begun /\ buf # <<>> /\ Len(buf) >= 49 + buf[1]
      /\ reader = "draining" /\ begun' = TRUE
      /\ UNCHANGED <<senderVars, came, reader>>
  BY DEF TakeHandshake, Take
<1>2. Len(buf) > 0
  BY <1>1, EmptySeq DEF ReaderInv, Buffered
<1>3. /\ HandshakeAt(k) /\ Len(Bytes(script[k])) = 49 + buf[1]
      /\ Len(script[k].data) = 48 + buf[1] /\ buf[1] \in Nat
      /\ [type |-> "handshake", data |-> SubSeq(buf, 2, 49 + buf[1])] = script[k]
  BY <1>1, <1>2, HandshakeRead
<1>4. buf' = Skip(buf, 1 + Len(script[k].data)) /\ taken' = Append(taken, script[k])
  <2> DEFINE item == [type |-> "handshake", data |-> SubSeq(buf, 2, 49 + buf[1])]
  <2>1. buf' = Skip(buf, 1 + Len(item.data)) /\ taken' = Append(taken, item)
    BY DEF TakeHandshake, Take
  <2> QED BY <1>3, <2>1
<1>5. 1 + Len(script[k].data) = 49 + buf[1]
  BY <1>3
<1>6. script[k].type # "noise"
  BY <1>3 DEF HandshakeAt
<1> QED BY <1>1, <1>2, <1>3, <1>4, <1>5, <1>6, TakesItem

\* Before the first frame: the magic, or noise from the first byte.
LEMMA BeforeTheMagic ==
  ASSUME ReaderInv, format = "frames", ~begun
  PROVE  /\ Len(taken) = 0 /\ Consumed = 0 /\ came = Len(buf)
         /\ \A i \in 1 .. Len(buf) : buf[i] = written[i]
         /\ \/ Len(Start) = 4
            \/ Len(Start) = 0 /\ Len(script) = 1 /\ NoiseAt(1)
         /\ Len(buf) >= 4 =>
              IF Len(Start) = 4 THEN ReadU32(buf, 0) = ReadU32(Magic, 0)
                ELSE 1 \in 1 .. sent /\ ReadU32(buf, 0) # ReadU32(Magic, 0)
<1>1. Len(taken) = 0 /\ Consumed = 0
  BY EmptySeq DEF ReaderInv, Read
<1>2. came = Len(buf)
  BY <1>1, Lengths
<1>3. \A i \in 1 .. Len(buf) : buf[i] = written[i]
  BY <1>1 DEF ReaderInv, Buffered
<1>4. CASE Len(Start) = 4
  <2>1. \A i \in 1 .. 4 : written[i] = Magic[i]
    BY <1>4, Starts DEF ReaderInv, Written
  <2>2. ASSUME Len(buf) >= 4
        PROVE  ReadU32(buf, 0) = ReadU32(Magic, 0)
    <3>1. /\ buf[1] = Magic[1] /\ buf[2] = Magic[2]
          /\ buf[3] = Magic[3] /\ buf[4] = Magic[4]
      BY <1>3, <2>1, <2>2, Lengths
    <3> QED BY <3>1, SameU32
  <2> QED BY <1>1, <1>2, <1>3, <1>4, <2>2
<1>5. CASE Len(Start) # 4
  <2>1. Len(Start) = 0 /\ Len(script) > 0 /\ script[1].type = "noise"
    BY <1>5, Starts DEF ReaderInv
  <2>2. 1 \in 1 .. Len(script)
    BY <2>1, Lengths
  <2>3. NoiseAt(1)
    <3>1. PieceAt(1) \/ SummaryAt(1) \/ NoiseAt(1) \/ HandshakeAt(1) \/ MessageAt(1)
      BY <2>2, Shapes DEF ReaderInv
    <3>2. ~HandshakeAt(1) /\ ~MessageAt(1)
      BY DEF HandshakeAt, MessageAt
    <3>3. ~PieceAt(1)
      BY <2>1 DEF PieceAt, Piece
    <3>4. ~SummaryAt(1)
      BY <2>1 DEF SummaryAt, Summary
    <3> QED BY <3>1, <3>2, <3>3, <3>4
  <2>4. Len(script) = 1 /\ Bytes(script[1]) = script[1].data
    BY <2>3, NoiseBytes DEF NoiseAt
  <2>5. ASSUME Len(buf) >= 4
        PROVE  1 \in 1 .. sent /\ ReadU32(buf, 0) # ReadU32(Magic, 0)
    <3> DEFINE d == script[1].data
    <3>1. Len(buf) > 0
      BY <2>5, Lengths
    <3>2. 1 \in 1 .. sent
      BY <1>1, <2>1, <3>1, NextItem
    <3>3. sent = 1
      BY <2>4, <3>2, Lengths
    <3>4. ends[1] = Len(written) /\ ends[0] = 0 /\ ends[1] = ends[0] + Len(d)
      BY <2>1, <2>4, <3>2, <3>3 DEF ReaderInv, Written
    <3>5. Len(d) \in Nat /\ d \in Seq(Byte)
      BY <2>3 DEF NoiseAt
    <3>6. Len(d) = Len(written) /\ Len(d) >= 4
      BY <1>2, <2>5, <3>4, <3>5, Lengths
    <3>7. \A i \in 1 .. Len(d) : written[0 + i] = d[i]
      BY <2>4, <3>2, <3>4 DEF ReaderInv, Written
    <3>8. buf[1] = d[1] /\ buf[2] = d[2] /\ buf[3] = d[3] /\ buf[4] = d[4]
      <4> HIDE DEF d
      <4> SUFFICES ASSUME NEW i \in 1 .. 4 PROVE buf[i] = d[i]
        OBVIOUS
      <4>1. Len(buf) \in Nat
        BY Lengths
      <4>2. i \in 1 .. Len(buf) /\ i \in 1 .. Len(d) /\ 0 + i = i
        BY <2>5, <3>5, <3>6, <4>1
      <4> QED BY <1>3, <3>7, <4>2
    <3>9. ReadU32(buf, 0) = ReadU32(d, 0)
      BY <3>8, SameU32
    <3> QED BY <2>3, <3>2, <3>6, <3>9 DEF NoiseAt
  <2> QED BY <1>1, <1>2, <1>3, <1>5, <2>1, <2>3, <2>4, <2>5
<1> QED BY <1>4, <1>5

LEMMA MagicTaken ==
  ASSUME ReaderInv, TakeMagic
  PROVE  ReaderInv'
<1>1. /\ reader = "draining" /\ format = "frames" /\ ~begun /\ Len(buf) >= 4
      /\ ReadU32(buf, 0) = ReadU32(Magic, 0) /\ buf' = Skip(buf, 4) /\ begun' = TRUE
      /\ UNCHANGED <<senderVars, came, taken, reader>>
  BY DEF TakeMagic
<1>2. Len(taken) = 0 /\ Consumed = 0 /\ Len(Start) = 4
  BY <1>1, BeforeTheMagic
<1>3. Buffered' /\ Consumed' = 4
  BY <1>1, <1>2, Passed DEF senderVars
<1>4. /\ format' = format /\ script' = script /\ sent' = sent /\ reader' = reader
      /\ written' = written /\ ends' = ends /\ Start' = Start /\ Sendable' = Sendable
      /\ taken' = taken
  BY <1>1 DEF senderVars, Start, Sendable
<1>5. ScriptIsRight' /\ Written' /\ ends[0] = 4
  BY <1>2, <1>4 DEF ReaderInv, ScriptIsRight, Written
<1>6. Read'
  BY <1>1, <1>2, <1>3, <1>4, <1>5 DEF ReaderInv, Read
<1>7. NothingHeldBack' /\ FailedAtNoise'
  BY <1>1, <1>4 DEF NothingHeldBack, FailedAtNoise
<1> QED BY <1>3, <1>5, <1>6, <1>7 DEF ReaderInv

\* Steps of the reader that take nothing.
LEMMA NothingTaken ==
  ASSUME ReaderInv, UNCHANGED <<senderVars, came, buf, begun, taken>>
  PROVE  /\ ScriptIsRight' /\ Written' /\ Buffered' /\ Read'
         /\ sent' = sent /\ script' = script /\ ends' = ends /\ came' = came /\ taken' = taken
<1>1. /\ format' = format /\ script' = script /\ sent' = sent
      /\ written' = written /\ ends' = ends /\ Start' = Start /\ Sendable' = Sendable
      /\ Consumed' = Consumed
  BY DEF senderVars, Start, Sendable, Consumed
<1> QED BY <1>1 DEF ReaderInv, ScriptIsRight, Written, Buffered, Read
LEMMA ReaderThrows ==
  ASSUME ReaderInv, Throws
  PROVE  ReaderInv'
<1>1. reader = "draining" /\ reader' = "failed" /\ format = "frames"
  BY DEF Throws, Unreadable
<1>2. /\ ScriptIsRight' /\ Written' /\ Buffered' /\ Read'
      /\ sent' = sent /\ script' = script /\ taken' = taken
  BY NothingTaken DEF Throws
<1>3. Len(taken) + 1 \in 1 .. sent /\ NoiseAt(Len(taken) + 1)
  <2>1. CASE begun
    <3>1. buf # <<>> /\ buf[1] \notin {PIECE, SUMMARY}
      BY <2>1 DEF Throws, Unreadable
    <3>2. Len(buf) > 0
      BY <3>1, EmptySeq DEF ReaderInv, Buffered
    <3> QED BY <1>1, <2>1, <3>1, <3>2, AtFrame
  <2>2. CASE ~begun
    <3>1. Len(buf) >= 4 /\ ReadU32(buf, 0) # ReadU32(Magic, 0)
      BY <2>2 DEF Throws, Unreadable
    <3>2. Len(taken) = 0 /\ NoiseAt(1) /\ 1 \in 1 .. sent
      BY <1>1, <2>2, <3>1, BeforeTheMagic
    <3> QED BY <3>2
  <2> QED BY <2>1, <2>2
<1>4. script[Len(taken) + 1].type = "noise"
  BY <1>3 DEF NoiseAt, Noise
<1>5. FailedAtNoise' /\ NothingHeldBack'
  BY <1>1, <1>2, <1>3, <1>4, Lengths DEF FailedAtNoise, NothingHeldBack
<1> QED BY <1>2, <1>5 DEF ReaderInv

LEMMA ReaderEnds ==
  ASSUME ReaderInv, End
  PROVE  ReaderInv'
<1>1. reader = "waiting" /\ reader' = "ended"
  BY DEF End
<1>2. /\ ScriptIsRight' /\ Written' /\ Buffered' /\ Read' /\ sent' = sent
      /\ script' = script /\ ends' = ends /\ came' = came /\ taken' = taken
  BY NothingTaken DEF End
<1>3. NothingHeldBack' /\ FailedAtNoise'
  BY <1>1, <1>2 DEF ReaderInv, NothingHeldBack, FailedAtNoise
<1> QED BY <1>2, <1>3 DEF ReaderInv

\* If the next item is not all there, neither is any later one.
LEMMA NoneIsWhole ==
  ASSUME ReaderInv, NEW k, k = Len(taken) + 1,
         k <= sent => came < ends[k]
  PROVE  \A j \in k .. sent : came < ends[j]
<1> SUFFICES ASSUME NEW j \in k .. sent PROVE came < ends[j]
  OBVIOUS
<1>1. k \in 0 .. sent /\ j \in 0 .. sent /\ k <= j /\ k <= sent
  BY Lengths
<1>2. ends[k] <= ends[j] /\ ends[k] \in Nat /\ ends[j] \in Nat
  BY <1>1 DEF ReaderInv, Written
<1> QED BY <1>1, <1>2, Lengths

LEMMA ReaderDrained ==
  ASSUME ReaderInv, Drained
  PROVE  ReaderInv'
<1> DEFINE k == Len(taken) + 1
<1>1. reader = "draining" /\ reader' = "waiting"
  BY DEF Drained
<1>2. /\ ScriptIsRight' /\ Written' /\ Buffered' /\ Read' /\ sent' = sent
      /\ script' = script /\ ends' = ends /\ came' = came /\ taken' = taken
  BY NothingTaken DEF Drained
<1>3. begun \in BOOLEAN /\ buf \in Seq(Byte) /\ (buf = <<>> <=> Len(buf) = 0)
  BY EmptySeq DEF ReaderInv, Read, Buffered
<1>4. ASSUME k <= sent
      PROVE  k \in 1 .. sent /\ ends[k] = ends[k - 1] + Len(Bytes(script[k]))
             /\ Len(Bytes(script[k])) \in Nat \ {0} /\ k - 1 = Len(taken)
             /\ ends[k - 1] \in Nat
  <2>1. k \in 1 .. sent /\ k \in 1 .. Len(script) /\ k - 1 = Len(taken)
    BY <1>4, Lengths
  <2>2. ends[k] = ends[k - 1] + Len(Bytes(script[k]))
    BY <2>1 DEF ReaderInv, Written
  <2>3. Len(Bytes(script[k])) \in Nat \ {0}
    BY <2>1, ItemsHaveBytes DEF ReaderInv
  <2> QED BY <2>1, <2>2, <2>3, Lengths
<1>5. ASSUME begun \/ Len(Start) = 0, k <= sent, Len(buf) < Len(Bytes(script[k]))
      PROVE  came < ends[k]
  <2>1. Consumed = ends[k - 1]
    BY <1>4, <1>5, AtAnItem
  <2> QED BY <1>4, <1>5, <2>1, Lengths
<1>6. ASSUME k <= sent, script[k].type # "noise"
      PROVE  came < ends[k]
  <2>1. CASE format = "frames" /\ ~begun /\ Len(buf) < 4
    <3>1. Len(taken) = 0 /\ came = Len(buf) /\ (Len(Start) = 4 \/ NoiseAt(1))
      BY <2>1, BeforeTheMagic
    <3>2. Len(Start) = 4
      BY <1>6, <3>1 DEF NoiseAt, Noise
    <3>3. ends[k - 1] = 4
      BY <3>1, <3>2 DEF ReaderInv, Written
    <3> QED BY <1>4, <1>6, <2>1, <3>1, <3>3, Lengths
  <2>2. CASE format = "frames" /\ begun /\ buf = <<>>
    BY <1>3, <1>4, <1>5, <1>6, <2>2
  <2>3. CASE Framed(PIECE) /\ ~Holds(9, 5)
    <3>1. /\ Len(Bytes(script[k])) = 9 + Len(script[k].data)
          /\ Len(buf) >= 9 => ReadU32(buf, 5) = Len(script[k].data)
          /\ Len(script[k].data) \in Nat /\ begun
      BY <2>3, PieceRead, LenProperties DEF PieceAt, Framed
    <3>2. Len(buf) < Len(Bytes(script[k]))
      BY <2>3, <3>1, Lengths DEF Holds
    <3> QED BY <1>5, <1>6, <3>1, <3>2
  <2>4. CASE Framed(SUMMARY) /\ ~Holds(5, 1)
    <3>1. /\ Len(Bytes(script[k])) = 5 + Len(script[k].data)
          /\ Len(buf) >= 5 => ReadU32(buf, 1) = Len(script[k].data)
          /\ Len(script[k].data) \in Nat /\ begun
      BY <2>4, SummaryRead, LenProperties DEF SummaryAt, Framed
    <3>2. Len(buf) < Len(Bytes(script[k]))
      BY <2>4, <3>1, Lengths DEF Holds
    <3> QED BY <1>5, <1>6, <3>1, <3>2
  <2>5. CASE format = "wire" /\ ~begun /\ (buf = <<>> \/ Len(buf) < 49 + buf[1])
    <3>1. Len(Start) = 0
      BY <2>5, Starts DEF ReaderInv
    <3>2. CASE buf = <<>>
      BY <1>3, <1>4, <1>5, <1>6, <3>1, <3>2
    <3>3. CASE buf # <<>>
      <4>1. Len(buf) > 0
        BY <1>3, <3>3, Lengths
      <4>2. Len(Bytes(script[k])) = 49 + buf[1]
        BY <2>5, <4>1, HandshakeRead
      <4> QED BY <1>5, <1>6, <2>5, <3>1, <3>3, <4>2
    <3> QED BY <3>2, <3>3
  <2>6. CASE format = "wire" /\ begun /\ ~Holds(4, 0)
    <3>1. CASE buf = <<>>
      BY <1>3, <1>4, <1>5, <1>6, <2>6, <3>1
    <3>2. CASE buf # <<>>
      <4>1. Len(buf) > 0
        BY <1>3, <3>2, Lengths
      <4>2. /\ Len(Bytes(script[k])) = 4 + Len(script[k].data)
            /\ Len(buf) >= 4 => ReadU32(buf, 0) = Len(script[k].data)
            /\ Len(script[k].data) \in Nat
        BY <2>6, <4>1, MessageRead, LenProperties DEF MessageAt
      <4>3. Len(buf) < Len(Bytes(script[k]))
        BY <2>6, <4>2, Lengths DEF Holds
      <4> QED BY <1>5, <1>6, <2>6, <4>3
    <3> QED BY <3>1, <3>2
  <2> QED BY <2>1, <2>2, <2>3, <2>4, <2>5, <2>6 DEF Drained
<1>7. NothingHeldBack'
  <2> SUFFICES ASSUME NEW j \in k .. sent, script[j].type # "noise"
               PROVE  came < ends[j]
    BY <1>2 DEF NothingHeldBack
  <2>1. CASE script[k].type # "noise"
    BY <1>6, <2>1, NoneIsWhole
  <2>2. CASE script[k].type = "noise"
    <3>1. k \in 1 .. Len(script) /\ j \in k .. Len(script)
      BY Lengths
    <3>2. NoiseAt(k)
      <4>1. PieceAt(k) \/ SummaryAt(k) \/ NoiseAt(k) \/ HandshakeAt(k) \/ MessageAt(k)
        BY <3>1, Shapes DEF ReaderInv
      <4> QED BY <2>2, <4>1 DEF PieceAt, Piece, SummaryAt, Summary, HandshakeAt,
                               MessageAt, Message
    <3>3. j = k
      BY <3>1, <3>2, Lengths DEF NoiseAt
    <3> QED BY <2>2, <3>3
  <2> QED BY <2>1, <2>2
<1>8. FailedAtNoise'
  BY <1>1 DEF FailedAtNoise
<1> QED BY <1>2, <1>7, <1>8 DEF ReaderInv

LEMMA ReaderInvStays ==
  ASSUME ReaderInv, [Next]_vars
  PROVE  ReaderInv'
<1>1. CASE Send
  BY <1>1, Sent
<1>2. CASE \E n \in 1 .. (Len(written) - came) : Push(n)
  BY <1>2, Pushed
<1>3. CASE TakeMagic
  BY <1>3, MagicTaken
<1>4. CASE TakePiece
  BY <1>4, PieceTaken
<1>5. CASE TakeSummary
  BY <1>5, SummaryTaken
<1>6. CASE TakeHandshake
  BY <1>6, HandshakeTaken
<1>7. CASE TakeMessage
  BY <1>7, MessageTaken
<1>8. CASE Throws
  BY <1>8, ReaderThrows
<1>9. CASE Drained
  BY <1>9, ReaderDrained
<1>10. CASE End
  BY <1>10, ReaderEnds
<1>11. CASE UNCHANGED vars
  <2>1. UNCHANGED <<senderVars, came, buf, begun, taken>> /\ reader' = reader
    BY <1>11 DEF vars
  <2>2. /\ ScriptIsRight' /\ Written' /\ Buffered' /\ Read' /\ sent' = sent
        /\ script' = script /\ ends' = ends /\ came' = came /\ taken' = taken
    BY <2>1, NothingTaken
  <2> QED BY <2>1, <2>2 DEF ReaderInv, NothingHeldBack, FailedAtNoise
<1> QED BY <1>1, <1>2, <1>3, <1>4, <1>5, <1>6, <1>7, <1>8, <1>9, <1>10, <1>11
        DEF Next, Takes

-----------------------------------------------------------------------------
(* The invariant is what the readers promise.                              *)

LEMMA ReaderInvIsEnough == ReaderInv => ItemsAreExact
<1> SUFFICES ASSUME ReaderInv PROVE ItemsAreExact
  OBVIOUS
<1>1. /\ Len(taken) <= sent
      /\ \A k \in 1 .. Len(taken) : taken[k] = script[k]
      /\ Consumed = IF begun THEN ends[Len(taken)] ELSE 0
  BY DEF ReaderInv, Read
<1>2. buf = SubSeq(written, Consumed + 1, came)
  <2> DEFINE u == SubSeq(written, Consumed + 1, Consumed + Len(buf))
  <2>1. written \in Seq(Byte) /\ buf \in Seq(Byte) /\ Consumed + Len(buf) <= Len(written)
    BY Lengths DEF ReaderInv, Written, Buffered
  <2>2. /\ u \in Seq(Byte) /\ Len(u) = Len(buf)
        /\ \A i \in 1 .. Len(buf) : u[i] = written[Consumed + i]
    BY <2>1, Lengths, Chunk
  <2>3. \A i \in 1 .. Len(buf) : buf[i] = written[Consumed + i]
    BY DEF ReaderInv, Buffered
  <2> HIDE DEF u
  <2>4. buf = u
    BY <2>1, <2>2, <2>3, SeqEqual
  <2> QED BY <2>4, Lengths DEF u
<1> QED BY <1>1, <1>2 DEF ReaderInv, NothingHeldBack, FailedAtNoise, ItemsAreExact

(* However a stream of frames or of wire messages is cut into chunks and   *)
(* wherever it stops, its reader hands out the first of the items sent,    *)
(* each with its own data, holds none back, and fails only at what is not  *)
(* one: for streams of any items (frames.js:36-65, wire.ts:153-178).      *)
THEOREM ReadersAreExact == Spec => []ItemsAreExact
<1>1. Init => ReaderInv
  BY ReaderInvInit
<1>2. ReaderInv /\ [Next]_vars => ReaderInv'
  BY ReaderInvStays
<1>3. ReaderInv => ItemsAreExact
  BY ReaderInvIsEnough
<1> QED BY <1>1, <1>2, <1>3, PTL DEF Spec
=============================================================================
