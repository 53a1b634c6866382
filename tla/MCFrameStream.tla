--------------------------- MODULE MCFrameStream ---------------------------
(* Small streams: an index of more than two bytes, bodies that look like    *)
(* headers, empty bodies, a handshake of another protocol name, and noise   *)
(* before and after the first frame.                                        *)
EXTENDS FrameStream

MCFrameStreams ==
  {<<Piece(16908291, <<1, 2>>), Piece(0, <<2>>), Summary(<<1, 0, 0>>)>>,
   <<Piece(7, <<>>), Summary(<<>>)>>,
   <<Summary(<<9>>)>>,
   <<Piece(1, <<5>>), Noise(<<7, 1, 0>>)>>,
   <<Noise(<<60, 33, 68, 79, 67>>)>>}

MCWireStreams ==
  {<<Handshake(19), Message(<<1>>), Message(<<>>), Message(<<7, 0, 0, 0, 9>>)>>,
   <<Handshake(0), Message(<<>>), Message(<<4, 0, 0, 1, 2>>)>>}
=============================================================================
