-------------------------------- MODULE Wire --------------------------------
(***************************************************************************)
(* The protobuf wire format as the generated code of types/*.pb.go writes  *)
(* and reads it: varints, tags, the pieces a message is written in, and    *)
(* the skipping of fields a reader does not know.                          *)
(*                                                                         *)
(* Bytes are the numbers 0..255.  An index counts the bytes before it, as  *)
(* iNdEx does.  The machine's 64-bit words and 32-bit field numbers are    *)
(* parameters, so that small instances meet their overflows.               *)
(***************************************************************************)
EXTENDS Integers, SequencesExt

CONSTANTS
  WordBits,   \* bits of uint64 and int, 64
  FieldBits   \* bits of a field number, 32

ASSUME WidthAssumption ==
  /\ WordBits \in Nat /\ FieldBits \in Nat
  /\ 3 < FieldBits /\ FieldBits < WordBits - 3

Byte == 0 .. 255

Pow2[n \in Nat] == IF n = 0 THEN 1 ELSE 2 * Pow2[n - 1]

Word == Pow2[WordBits]

\* What len() of a slice stays below: lengths are ints.
MaxLength == Pow2[WordBits - 1]

\* int(x), int32(x): the number that the low bits of x spell in two's complement.
Signed(x, bits) ==
  LET low == x % Pow2[bits] IN
  IF low < Pow2[bits - 1] THEN low ELSE low - Pow2[bits]

-----------------------------------------------------------------------------
(* Writing.                                                                 *)

\* Seven bits to a byte, the lowest first, a high bit on all but the last.
encodeVarint[v \in Nat] ==
  IF v < 128 THEN <<v>> ELSE <<128 + (v % 128)>> \o encodeVarint[v \div 128]

\* math_bits.Len64: the bits it takes to write x.
BitLen[x \in Nat] == IF x = 0 THEN 0 ELSE 1 + BitLen[x \div 2]

sov(x) == (BitLen[IF x = 0 THEN 1 ELSE x] + 6) \div 7

\* A field that is always written: tag, length, payload.
Field(tag, payload) == <<tag>> \o encodeVarint[Len(payload)] \o payload

\* A string is left out when it is empty, a number when it is zero.
Text(tag, str)    == IF str = <<>> THEN <<>> ELSE Field(tag, str)
Number(tag, n)    == IF n = 0 THEN <<>> ELSE <<tag>> \o encodeVarint[n]
Each(tag, pieces) == FlattenSeq([i \in DOMAIN pieces |-> Field(tag, pieces[i])])

FieldSize(n)      == 1 + n + sov(n)
TextSize(str)     == IF str = <<>> THEN 0 ELSE FieldSize(Len(str))
NumberSize(n)     == IF n = 0 THEN 0 ELSE 1 + sov(n)
EachSize(sizes)   == SumFunction([i \in DOMAIN sizes |-> FieldSize(sizes[i])])

\* The pieces are written from the end of the buffer to its front, in the
\* order given.
Backwards(pieces) == FlattenSeq(Reverse(pieces))

\* Marshal: a buffer of Size() zero bytes is filled from its end, and as many
\* bytes as were written are taken from its front.  A buffer too small for
\* what is written makes the index negative, and the program panics.
Fits(written, size) == Len(written) <= size

Buffered(written, size) ==
  SubSeq([i \in 1 .. size - Len(written) |-> 0] \o written, 1, Len(written))

-----------------------------------------------------------------------------
(* Reading.                                                                 *)

\* The varint of d after index i: whether it ends before the shift reaches the
\* word and before d does, its value modulo the word, and the index after it.
\* The groups are joined by shifts and ors, that is, added with their weights.
Varint(d, i) ==
  LET more[at \in Nat] ==
        IF 7 * (at - i) >= WordBits \/ at >= Len(d) THEN [ok |-> FALSE, value |-> 0, next |-> at]
        ELSE IF d[at + 1] < 128 THEN [ok |-> TRUE, value |-> d[at + 1], next |-> at + 1]
        ELSE [more[at + 1] EXCEPT !.value = (d[at + 1] % 128) + 128 * @]
  IN  [more[i] EXCEPT !.value = @ % Word]

\* Mutant: the sum of index and length is not checked for its sign.
PayloadWrapping(d, i) ==
  LET len == Varint(d, i)
      int == Signed(len.value, WordBits)
      end == Signed(len.next + int, WordBits)
  IN  [ok |-> len.ok /\ int >= 0 /\ end <= Len(d), from |-> len.next, to |-> end]

\* Mutant: a payload is taken to be what is left of it.
PayloadOfRest(d, i) ==
  LET len == Varint(d, i)
      end == len.next + len.value
  IN  [ok |-> len.ok, from |-> len.next, to |-> IF end > Len(d) THEN Len(d) ELSE end]

\* The payload that a varint after index i announces: whether it lies inside
\* d, and where it starts and ends.
Payload(d, i) ==
  LET len == Varint(d, i)
      int == Signed(len.value, WordBits)
      end == Signed(len.next + int, WordBits)
  IN  [ok |-> len.ok /\ int >= 0 /\ end >= 0 /\ end <= Len(d), from |-> len.next, to |-> end]

Slice(d, from, to) == SubSeq(d, from + 1, to)

FieldNum(tag) == Signed(tag \div 8, FieldBits)
WireType(tag) == tag % 8

Error == [ok |-> FALSE, n |-> 0]

\* The index after one more item of a skipped field: a varint, a payload (not
\* compared with the end of d), 8 or 4 bytes.  Groups move only the depth.
SkipItem(d, tag) ==
  LET type == WireType(tag.value)
      len  == Varint(d, tag.next)
  IN
  CASE type = 0        -> [ok |-> len.ok, n |-> len.next]
    [] type = 1        -> [ok |-> TRUE, n |-> tag.next + 8]
    [] type = 2        -> [ok |-> len.ok /\ Signed(len.value, WordBits) >= 0,
                           n  |-> Signed(len.next + len.value, WordBits)]
    [] type \in {3, 4} -> [ok |-> TRUE, n |-> tag.next]
    [] type = 5        -> [ok |-> TRUE, n |-> tag.next + 4]
    [] OTHER           -> Error

\* How many bytes of d its first field takes: one item, or all items up to the
\* end of the group it opens.
skip(d) ==
  LET Next[p \in Nat \X Nat] ==
        LET i      == p[1]
            depth  == p[2]
            tag    == Varint(d, i)
            type   == WireType(tag.value)
            item   == SkipItem(d, tag)
            inside == IF type = 3 THEN depth + 1 ELSE IF type = 4 THEN depth - 1 ELSE depth
        IN
        IF i >= Len(d) \/ ~tag.ok THEN Error
        ELSE IF ~item.ok \/ inside < 0 \/ item.n < 0 THEN Error
        ELSE IF inside = 0 THEN item ELSE Next[<<item.n, inside>>]
  IN  Next[<<0, 0>>]
=============================================================================
