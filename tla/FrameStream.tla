---------------------------- MODULE FrameStream ----------------------------
(***************************************************************************)
(* The two length-prefixed byte streams of the program, each from its      *)
(* encoder to its incremental reader: the frames of /api/download          *)
(* (lib/frames.ts to public/frames.js) and the peer wire protocol          *)
(* (lib/wire.ts).  The bytes come in chunks that are cut anywhere, and may *)
(* stop coming anywhere.  A reader is drained after every chunk; it hands  *)
(* out one item at a time.                                                 *)
(***************************************************************************)
EXTENDS Integers, Sequences

\* Sequences of items: of frames, noise among them, or of wire messages.
CONSTANTS FrameStreams, WireStreams

VARIABLES
  format,         \* "frames" or "wire"
  script,         \* the items the sender has to send
  sent,           \* how many of them it has written
  written,        \* the bytes it has written
  ends,           \* after how many bytes each item sent ends; 0: the header
  came,           \* how many bytes have come
  buf,
  begun,          \* magicSeen, handshakeDone
  taken,          \* items handed out
  reader          \* draining its buffer, waiting for bytes, ended or failed

senderVars == <<format, script, sent, written, ends>>
vars == <<senderVars, came, buf, begun, taken, reader>>

Skip(s, n) == SubSeq(s, n + 1, Len(s))

-----------------------------------------------------------------------------
(* Encoders.                                                               *)

WriteU32(v) == <<(v \div 16777216) % 256, (v \div 65536) % 256, (v \div 256) % 256, v % 256>>

\* The number in the four bytes after the first off.
ReadU32(b, off) == b[off+1] * 16777216 + b[off+2] * 65536 + b[off+3] * 256 + b[off+4]

Magic == <<83, 84, 70, 49>>
PIECE == 1
SUMMARY == 2

Zeros(n) == [i \in 1 .. n |-> 0]

Piece(index, data) == [type |-> "piece", index |-> index, data |-> data]
Summary(data) == [type |-> "summary", data |-> data]
Handshake(pstrlen) == [type |-> "handshake", data |-> Zeros(48 + pstrlen)]
Message(data) == [type |-> "message", data |-> data]  \* id and payload, or neither
Noise(data) == [type |-> "noise", data |-> data]

Bytes(item) ==
  CASE item.type = "piece" ->
         <<PIECE>> \o WriteU32(item.index) \o WriteU32(Len(item.data)) \o item.data
    [] item.type = "summary" -> <<SUMMARY>> \o WriteU32(Len(item.data)) \o item.data
    [] item.type = "handshake" -> <<Len(item.data) - 48>> \o item.data
    [] item.type = "message" -> WriteU32(Len(item.data)) \o item.data
    [] item.type = "noise" -> item.data

\* The magic comes first, unless the response is none of the endpoint's.
Start == IF format = "wire" \/ (script # <<>> /\ script[1].type = "noise")
         THEN <<>> ELSE Magic

-----------------------------------------------------------------------------
(* What is sent.                                                           *)

Byte == 0 .. 255
IsU32(v) == v \in Nat /\ v \div 16777216 \in Byte

\* Frames, at most followed by bytes that no endpoint sends: a page that does
\* not start with the magic, or what cannot be a frame.
IsFrameStream(s) ==
  /\ s \in Seq([type : {"piece"}, index : Nat, data : Seq(Byte)]
                 \cup [type : {"summary", "noise"}, data : Seq(Byte)])
  /\ \A k \in 1 .. Len(s) :
       LET data == s[k].data IN
       /\ s[k].type = "piece" => IsU32(s[k].index)
       /\ s[k].type # "noise" => IsU32(Len(data))
       /\ s[k].type = "noise" =>
            /\ k = Len(s) /\ data # <<>>
            /\ IF k = 1 THEN Len(data) >= 4 => ReadU32(data, 0) # ReadU32(Magic, 0)
                        ELSE data[1] \notin {PIECE, SUMMARY}

\* A handshake, then messages.
IsWireStream(s) ==
  /\ s \in Seq([type : {"handshake", "message"}, data : Seq(Byte)])
  /\ \A k \in 1 .. Len(s) :
       /\ s[k].type = "handshake" <=> k = 1
       /\ IF k = 1 THEN Len(s[k].data) - 48 \in Byte ELSE IsU32(Len(s[k].data))

ASSUME StreamAssumption ==
  /\ \A s \in FrameStreams : IsFrameStream(s)
  /\ \A s \in WireStreams : IsWireStream(s)

-----------------------------------------------------------------------------
(* Readers.                                                                *)

Init ==
  /\ \/ format = "frames" /\ script \in FrameStreams
     \/ format = "wire" /\ script \in WireStreams
  /\ sent = 0 /\ written = Start /\ ends = [k \in {0} |-> Len(Start)]
  /\ came = 0 /\ buf = <<>> /\ begun = FALSE /\ taken = <<>> /\ reader = "waiting"

\* The sender writes its next item.
Send ==
  /\ sent < Len(script)
  /\ sent' = sent + 1
  /\ written' = written \o Bytes(script[sent + 1])
  /\ ends' = [k \in 0 .. (sent + 1) |-> IF k <= sent THEN ends[k] ELSE Len(written')]
  /\ UNCHANGED <<format, script, came, buf, begun, taken, reader>>

\* The next n bytes come, as one chunk.
Push(n) ==
  /\ reader = "waiting"
  /\ buf' = buf \o SubSeq(written, came + 1, came + n)
  /\ came' = came + n
  /\ reader' = "draining"
  /\ UNCHANGED <<senderVars, begun, taken>>

\* The bytes stop coming: all have come, or the function or the peer is gone.
End ==
  /\ reader = "waiting"
  /\ reader' = "ended"
  /\ UNCHANGED <<senderVars, came, buf, begun, taken>>

\* Mutant of Holds: a body is waited for until a byte of the next item comes.
Holds_More(n, off) == Len(buf) >= n /\ Len(buf) > n + ReadU32(buf, off)

\* The buffer holds a header of n bytes and the body whose length the header
\* has after off.
Holds(n, off) == Len(buf) >= n /\ Len(buf) >= n + ReadU32(buf, off)

Take(n, item) ==
  /\ reader = "draining"
  /\ buf' = Skip(buf, n + Len(item.data))
  /\ taken' = Append(taken, item)
  /\ UNCHANGED <<senderVars, came, reader>>

Body(n, off) == SubSeq(buf, n + 1, n + ReadU32(buf, off))

Framed(type) == format = "frames" /\ begun /\ buf # <<>> /\ buf[1] = type

TakePiece ==
  /\ Framed(PIECE) /\ Holds(9, 5)
  /\ Take(9, Piece(ReadU32(buf, 1), Body(9, 5)))
  /\ UNCHANGED begun

TakeSummary ==
  /\ Framed(SUMMARY) /\ Holds(5, 1)
  /\ Take(5, Summary(Body(5, 1)))
  /\ UNCHANGED begun

TakeMessage ==
  /\ format = "wire" /\ begun /\ Holds(4, 0)
  /\ Take(4, Message(Body(4, 0)))
  /\ UNCHANGED begun

TakeHandshake ==
  /\ format = "wire" /\ ~begun
  /\ buf # <<>> /\ Len(buf) >= 49 + buf[1]
  /\ Take(1, [type |-> "handshake", data |-> SubSeq(buf, 2, 49 + buf[1])])
  /\ begun' = TRUE

TakeMagic ==
  /\ reader = "draining" /\ format = "frames" /\ ~begun
  /\ Len(buf) >= 4 /\ ReadU32(buf, 0) = ReadU32(Magic, 0)
  /\ buf' = Skip(buf, 4)
  /\ begun' = TRUE
  /\ UNCHANGED <<senderVars, came, taken, reader>>

Unreadable ==
  /\ format = "frames"
  /\ IF begun THEN buf # <<>> /\ buf[1] \notin {PIECE, SUMMARY}
              ELSE Len(buf) >= 4 /\ ReadU32(buf, 0) # ReadU32(Magic, 0)

Throws ==
  /\ reader = "draining" /\ Unreadable
  /\ reader' = "failed"
  /\ UNCHANGED <<senderVars, came, buf, begun, taken>>

Takes == TakeMagic \/ TakePiece \/ TakeSummary \/ TakeHandshake \/ TakeMessage

\* Nothing more can be taken: the generator returns.
Drained ==
  /\ reader = "draining"
  /\ \/ format = "frames" /\ ~begun /\ Len(buf) < 4
     \/ format = "frames" /\ begun /\ buf = <<>>
     \/ Framed(PIECE) /\ ~Holds(9, 5)
     \/ Framed(SUMMARY) /\ ~Holds(5, 1)
     \/ format = "wire" /\ ~begun /\ (buf = <<>> \/ Len(buf) < 49 + buf[1])
     \/ format = "wire" /\ begun /\ ~Holds(4, 0)
  /\ reader' = "waiting"
  /\ UNCHANGED <<senderVars, came, buf, begun, taken>>

Next ==
  \/ Send
  \/ \E n \in 1 .. (Len(written) - came) : Push(n)
  \/ Takes \/ Throws \/ Drained \/ End

Spec == Init /\ [][Next]_vars

-----------------------------------------------------------------------------
\* The bytes that the reader is done with.
Consumed == came - Len(buf)

(* However the stream is cut (frames.ts:96-98, wire.ts:3), the items handed *)
(* out are the first of those sent, with their own data.  No byte is dropped*)
(* or read twice: the reader is always at the end of the last item it took. *)
(* A reader that waits holds no whole item back: what a truncated stream    *)
(* delivered is kept (frames.js:6), and a summary is there only after       *)
(* everything else.  And it fails only at what is no item.                  *)
ItemsAreExact ==
  /\ Len(taken) <= sent
  /\ \A k \in 1 .. Len(taken) : taken[k] = script[k]
  /\ Consumed = IF begun THEN ends[Len(taken)] ELSE 0
  /\ buf = SubSeq(written, Consumed + 1, came)
  /\ reader \in {"waiting", "ended"} =>
       \A k \in (Len(taken) + 1) .. sent : script[k].type # "noise" => came < ends[k]
  /\ reader = "failed" =>
       Len(taken) < sent /\ script[Len(taken) + 1].type = "noise"
=============================================================================
