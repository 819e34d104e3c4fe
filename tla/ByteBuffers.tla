---------------------------- MODULE ByteBuffers -----------------------------
(***************************************************************************)
(* Class ByteBuffer, as far as the JDWP code uses it, and the operations   *)
(* of JdwpPacket that take a packet off the front of a buffer.             *)
(*                                                                         *)
(* A buffer is its array, whose length is the capacity, a position and a   *)
(* limit.  Between operations the data are the bytes before the position,  *)
(* and the limit is the capacity.                                          *)
(***************************************************************************)
EXTENDS Naturals, Sequences

(* A byte that nobody has stored                                           *)
NoByte == <<0, 0>>

NewBuffer(size) == [array |-> [i \in 1..size |-> NoByte], pos |-> 0, limit |-> size]

Capacity(b) == Len(b.array)

Data(b) == SubSeq(b.array, 1, b.pos)

Space(b) == b.limit - b.pos

(* What follows is not called with a position beyond the limit, or a limit *)
(* beyond the capacity; for either the code throws or reallocates.         *)
SetPosition(b, p) == [b EXCEPT !.pos = p]

SetLimit(b, l) == [b EXCEPT !.limit = l]

Flip(b) == [b EXCEPT !.limit = b.pos, !.pos = 0]

Clear(b) == [b EXCEPT !.limit = Capacity(b), !.pos = 0]

(* The bytes from the position to the limit are moved to the front.  What  *)
(* stays behind them nobody looks at; the model takes it for gone.         *)
Compact(b) ==
  [array |-> [i \in DOMAIN b.array |->
                IF i <= b.limit - b.pos THEN b.array[i + b.pos] ELSE NoByte],
   pos |-> b.limit - b.pos,
   limit |-> Capacity(b)]

(* Bytes are stored from the position on.  (The caller knows that they     *)
(* fit.)                                                                   *)
PutBytes(b, bytes) ==
  [b EXCEPT !.array = [i \in DOMAIN @ |-> IF i - b.pos \in DOMAIN bytes THEN bytes[i - b.pos] ELSE @[i]],
            !.pos = @ + Len(bytes)]

(* put(src) stores all bytes of src up to its limit.                       *)
PutBuffer(b, src) == PutBytes(b, SubSeq(src.array, 1, src.limit))

-----------------------------------------------------------------------------

(* JdwpPacket::consume and consumeHandshake: n bytes are skipped.          *)
Consume(b, n) == Compact(SetPosition(Flip(b), n))

(* JdwpPacket::writeAndConsume and movePacket: what is sent or stored, and *)
(* the buffer that is left.                                                *)
WriteLimited(b, n) == SetLimit(Flip(b), n)

Written(b, n) == SubSeq(WriteLimited(b, n).array, 1, WriteLimited(b, n).limit)

AfterWrite(b, n) ==
  LET oldLimit == Flip(b).limit
  IN  Compact(SetLimit(SetPosition(WriteLimited(b, n), n), oldLimit))

Moved(b, n) == SetLimit(SetPosition(b, 0), n)

AfterMove(b, n) ==
  LET oldPosn == b.pos
  IN  Compact(SetLimit(SetPosition(Moved(b, n), n), oldPosn))
=============================================================================
