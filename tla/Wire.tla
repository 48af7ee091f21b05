-------------------------------- MODULE Wire --------------------------------
(***************************************************************************)
(* What travels between coordinator and motes, byte by byte: the setup     *)
(* messages that MessageWrapper builds and leap.c takes apart, the answers *)
(* that leap.c builds and the coordinator takes apart, and the checksum    *)
(* that each side computes with code of its own.                           *)
(*                                                                         *)
(* The other modules treat a message as a record that arrives whole or not *)
(* at all, and an answer as a set of bits; NodeOnWire checks that they may *)
(* do so.  A message is a sequence of bytes: the hexadecimal digits in     *)
(* between (KeyHelper, encode_hex, decode_hex) are undone on the other     *)
(* side.  Where the code computes with bits, a number is the set of the    *)
(* bits that are 1 in it: & is \cap, | is \cup.                            *)
(***************************************************************************)
EXTENDS MessageWrapper, Addresses

CONSTANTS KeyLen,     \* bytes of a key; the code's is 16
          OwnKeys,    \* the bytes of a node's "ik", "gk" and "ck"
          KeyOf       \* the bytes of its keys for others, by kind and name

ASSUME WireAssumption ==
  /\ KeyLen \in Nat \ {0}
  /\ OwnKeys \in [{"ik", "gk", "ck"} -> [1 .. KeyLen -> 0 .. 255]]
  /\ KeyOf \in [{"pairwise", "cluster"} \X Names -> [1 .. KeyLen -> 0 .. 255]]

-----------------------------------------------------------------------------
(* Numbers as sets of bits *)

LowByte == 0 .. 7
HighByte == 8 .. 15
Short == 0 .. 15

BitsOf(byte) == {b \in LowByte : (byte \div 2^b) % 2 = 1}
ByteOf(bits) ==
  LET value(b) == IF b \in bits THEN 2^b ELSE 0
  IN  value(0) + value(1) + value(2) + value(3) + value(4) + value(5) + value(6) + value(7)

Xor(x, y) == (x \ y) \cup (y \ x)

\* A shift by n to the left, or by -n to the right, in an integer that wide.
Shift(x, n, width) == {b \in 0 .. width - 1 : b - n \in x}

\* The two bytes of a short in a mote's memory, and back.
BytesLE(short) == <<ByteOf(short \cap LowByte), ByteOf(Shift(short, -8, 16))>>
FromBytesLE(lo, hi) == BitsOf(lo) \cup Shift(BitsOf(hi), 8, 16)

-----------------------------------------------------------------------------
(* The checksum *)

\* crc16_add: one byte into a checksum, in unsigned shorts.
Crc16Add(byte, acc) ==
  LET x == Xor(acc, BitsOf(byte))
      y == Shift(x, -8, 16) \cup Shift(x, 8, 16)
      z == Xor(y, Shift(y \cap HighByte, 4, 16))
      w == Xor(z, Shift(Shift(z, -8, 16), -4, 16))
  IN  Xor(w, Shift(w \cap HighByte, -5, 16))

Crc16Data(data, acc) == Seqs!FoldLeft(LAMBDA sum, byte : Crc16Add(byte, sum), acc, data)

\* A slip: the third of the five steps is not cut off to 16 bits.
Crc16StepUncut(crc, byte) ==
  LET x == Xor(crc, BitsOf(byte))
      y == (Shift(x, -8, 32) \cap Short) \cup (Shift(x, 8, 32) \cap Short)
      z == Xor(y, Shift(y \cap HighByte, 4, 32))
      w == Xor(z, Shift(Shift(z, -8, 32), -4, 32))
  IN  Xor(w, Shift(w \cap HighByte, -5, 32))

\* A turn of CRC16.crc16: the same in Java's wider int, where whatever is
\* shifted to the left is cut off by a mask.
Crc16Step(crc, byte) ==
  LET x == Xor(crc, BitsOf(byte))
      y == (Shift(x, -8, 32) \cap Short) \cup (Shift(x, 8, 32) \cap Short)
      z == Xor(y, Shift(y \cap HighByte, 4, 32) \cap Short)
      w == Xor(z, Shift(Shift(z, -8, 32), -4, 32))
  IN  Xor(w, Shift(w \cap HighByte, -5, 32))

Crc16Int(bytes) == Seqs!FoldLeft(Crc16Step, Short, bytes) \cap Short

\* A slip: the digits keep the order in which an int is printed.
Crc16CalculateBigEndian(bytes) ==
  <<ByteOf(Shift(Crc16Int(bytes), -8, 16)), ByteOf(Crc16Int(bytes) \cap LowByte)>>

\* CRC16.calculate: four digits, the low byte first (reverseEndianness).
Crc16Calculate(bytes) == BytesLE(Crc16Int(bytes))

\* The checksum by its definition: the remainder of the bits, the lowest of
\* each byte first, by x^16 + x^12 + x^5 + 1, in a register that is full of ones
\* at first.  Bit 15 of the register is the coefficient of 1, bit 0 that of x^15.
ShiftOut(r) ==
  LET rest == Shift(r, -1, 16)
  IN  IF 0 \in r THEN Xor(rest, {15, 15 - 5, 15 - 12}) ELSE rest

CcittStep(r, byte) ==
  LET four(q) == ShiftOut(ShiftOut(ShiftOut(ShiftOut(q))))
  IN  four(four(Xor(r, BitsOf(byte))))

CcittRemainder(bytes) == Seqs!FoldLeft(CcittStep, Short, bytes)

-----------------------------------------------------------------------------
(* Setup messages: a record of MessageWrapper, and the bytes of it *)

\* A slip: the number is shifted by two bits.
HeaderByteNarrow(type, header) ==
  ByteOf((IF type = "basic" THEN {} ELSE {6})
           \cup Shift(BitsOf(header.seq), 2, 8) \cup BitsOf(header.rem))

\* Bitter: two bits of type, three of the number, three of what remains.
HeaderByte(type, header) ==
  ByteOf((IF type = "basic" THEN {} ELSE {6})
           \cup Shift(BitsOf(header.seq), 3, 8) \cup BitsOf(header.rem))

Sealed(bytes) == bytes \o Crc16Calculate(bytes)

\* One key of an extended message: what kind it is, whose it is, the key.
Entity(prologue, n, key) == <<prologue>> \o TransformTo16Bit(n) \o key

EntitySize == KeyLen + 3

\* The keys of one kind for the names of a list, one after the other.
Entities(prologue, kind, names) ==
  [x \in 1 .. EntitySize * Len(names) |->
     LET n == names[1 + (x - 1) \div EntitySize]
     IN  Entity(prologue, n, KeyOf[<<kind, n>>])[1 + ((x - 1) % EntitySize)]]

\* generateMessage for the k-th message of a list of the given size. The
\* cluster keys go first.
GenerateMessage(msg, k, size) ==
  LET header == <<HeaderByte(msg.type, GenerateHeader(k, size))>>
      body == IF msg.type = "basic"
              THEN OwnKeys["ik"] \o OwnKeys["gk"] \o OwnKeys["ck"]
              ELSE Entities(98, "cluster", Seqs!SetToSeq(msg.cluster))
                     \o Entities(97, "pairwise", Seqs!SetToSeq(msg.pairwise))
  IN  Sealed(header \o body)

\* A slip: a checksum is compared as if it were one byte.
VerifyCrcLowByte(bytes) ==
  LET len == Len(bytes)
  IN  Crc16Data(SubSeq(bytes, 1, len - 2), Short) \cap LowByte = BitsOf(bytes[len - 1])

\* verify_crc
VerifyCrc(bytes) ==
  LET len == Len(bytes)
  IN  Crc16Data(SubSeq(bytes, 1, len - 2), Short) = FromBytesLE(bytes[len - 1], bytes[len])

\* The n bytes at an offset, as memcpy takes them.
Copied(bytes, offset, n) == SubSeq(bytes, offset + 1, offset + n)

\* process_header
HeaderOf(bytes) == [seq |-> ByteOf(Shift(BitsOf(bytes[1]), -3, 8) \cap 0 .. 2),
                    rem |-> ByteOf(BitsOf(bytes[1]) \cap 0 .. 2)]

\* parse_basic_message
ParseBasicMessage(bytes) ==
  [ik |-> Copied(bytes, 1, KeyLen),
   gk |-> Copied(bytes, 1 + KeyLen, KeyLen),
   ck |-> Copied(bytes, 1 + 2 * KeyLen, KeyLen)]

EntityCount(len) == (len - 3) \div EntitySize

\* parse_extended_message: what is inserted, into which list.
ParseExtendedMessage(bytes) ==
  LET entity(x) == Copied(bytes, 1 + EntitySize * x, EntitySize)
      entities == {entity(x) : x \in 0 .. EntityCount(Len(bytes)) - 1}
      inserted(prologue) == {[address |-> ShortLE(e[2], e[3]), key |-> Copied(e, 3, KeyLen)] :
                               e \in {d \in entities : d[1] = prologue}}
  IN  [pairwise |-> inserted(97), cluster |-> inserted(98)]

MessageType(bytes) == ByteOf(Shift(BitsOf(bytes[1]), -6, 8))     \* multiplex_message

-----------------------------------------------------------------------------
(* Answers *)

\* send_ack_nack: type, mask and checksum.
SendAckNack(mask) ==
  LET body == <<128>> \o BytesLE(mask)
  IN  body \o BytesLE(Crc16Data(body, Short))

\* SendSetup.receiveString: the worker hears only of answers whose checksum fits.
ReceiveString(bytes) ==
  LET len == Len(bytes)
  IN  Crc16Calculate(SubSeq(bytes, 1, len - 2)) = SubSeq(bytes, len - 1, len)

\* The start of analyseNACK: the type and the high byte of the mask are dropped.
MaskOf(bytes) == BitsOf(bytes[2])
=============================================================================
