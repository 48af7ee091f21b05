----------------------------- MODULE WireProofs -----------------------------
(***************************************************************************)
(* Facts about the bytes of messages and answers: numbers and their bits,  *)
(* the checksum, what is put together and what is taken apart.  The        *)
(* checksum is proved in three steps: what eight turns of its register do  *)
(* to each of the sixteen bits, the registers that a list of bytes goes    *)
(* through, and two lists with one byte between them.                      *)
(***************************************************************************)
EXTENDS Wire, MessageProofs

-----------------------------------------------------------------------------
(* Bytes and bits *)

\* The bits of a byte, one by one.
LEMMA Powers ==
  2^0 = 1 /\ 2^1 = 2 /\ 2^2 = 4 /\ 2^3 = 8 /\ 2^4 = 16 /\ 2^5 = 32 /\ 2^6 = 64 /\ 2^7 = 128
BY SMT

\* Which bits a byte has.
LEMMA BitsOfByte ==
  ASSUME NEW n \in 0 .. 255
  PROVE  /\ BitsOf(n) \subseteq LowByte
         /\ 0 \in BitsOf(n) <=> n % 2 = 1
         /\ 1 \in BitsOf(n) <=> (n \div 2) % 2 = 1
         /\ 2 \in BitsOf(n) <=> (n \div 4) % 2 = 1
         /\ 3 \in BitsOf(n) <=> (n \div 8) % 2 = 1
         /\ 4 \in BitsOf(n) <=> (n \div 16) % 2 = 1
         /\ 5 \in BitsOf(n) <=> (n \div 32) % 2 = 1
         /\ 6 \in BitsOf(n) <=> (n \div 64) % 2 = 1
         /\ 7 \in BitsOf(n) <=> (n \div 128) % 2 = 1
<1>1. n \div 1 = n
  OBVIOUS
<1> QED BY Powers, <1>1 DEF BitsOf, LowByte

\* What one bit adds to a number.
Bit(B, b, value) == IF b \in B THEN value ELSE 0

\* What all of them make.
LEMMA ByteOfBits ==
  ASSUME NEW B
  PROVE  ByteOf(B) = Bit(B, 0, 1) + Bit(B, 1, 2) + Bit(B, 2, 4) + Bit(B, 3, 8)
                       + Bit(B, 4, 16) + Bit(B, 5, 32) + Bit(B, 6, 64) + Bit(B, 7, 128)
BY Powers DEF ByteOf, Bit

\* A number below 256 is the sum of its bits, and no other bits make that sum.
LEMMA SumOfBits ==
  ASSUME NEW x0 \in 0 .. 1, NEW x1 \in 0 .. 1, NEW x2 \in 0 .. 1, NEW x3 \in 0 .. 1,
         NEW x4 \in 0 .. 1, NEW x5 \in 0 .. 1, NEW x6 \in 0 .. 1, NEW x7 \in 0 .. 1,
         NEW n, n = x0 + 2 * x1 + 4 * x2 + 8 * x3 + 16 * x4 + 32 * x5 + 64 * x6 + 128 * x7
  PROVE  /\ n \in 0 .. 255
         /\ n % 2 = x0
         /\ (n \div 2) % 2 = x1
         /\ (n \div 4) % 2 = x2
         /\ (n \div 8) % 2 = x3
         /\ (n \div 16) % 2 = x4
         /\ (n \div 32) % 2 = x5
         /\ (n \div 64) % 2 = x6
         /\ (n \div 128) % 2 = x7
<1>1. n \in 0 .. 255
  OBVIOUS
<1>2. n % 2 = x0
  OBVIOUS
<1>3. (n \div 2) % 2 = x1
  OBVIOUS
<1>4. (n \div 4) % 2 = x2
  OBVIOUS
<1>5. (n \div 8) % 2 = x3
  OBVIOUS
<1>6. (n \div 16) % 2 = x4
  OBVIOUS
<1>7. (n \div 32) % 2 = x5
  OBVIOUS
<1>8. (n \div 64) % 2 = x6
  OBVIOUS
<1>9. (n \div 128) % 2 = x7
  OBVIOUS
<1> QED BY <1>1, <1>2, <1>3, <1>4, <1>5, <1>6, <1>7, <1>8, <1>9

\* Every number below 256 is such a sum.
LEMMA BitsInSum ==
  ASSUME NEW n \in 0 .. 255
  PROVE  \E x0, x1, x2, x3, x4, x5, x6, x7 \in 0 .. 1 :
           /\ n = x0 + 2 * x1 + 4 * x2 + 8 * x3 + 16 * x4 + 32 * x5 + 64 * x6 + 128 * x7
           /\ n % 2 = x0 /\ (n \div 2) % 2 = x1 /\ (n \div 4) % 2 = x2 /\ (n \div 8) % 2 = x3
           /\ (n \div 16) % 2 = x4 /\ (n \div 32) % 2 = x5 /\ (n \div 64) % 2 = x6
           /\ (n \div 128) % 2 = x7
<1> DEFINE x(p) == (n \div p) % 2
<1>1. n = (n % 2) + 2 * x(2) + 4 * x(4) + 8 * x(8) + 16 * x(16)
            + 32 * x(32) + 64 * x(64) + 128 * x(128)
  OBVIOUS
<1>2. n % 2 \in 0 .. 1 /\ x(2) \in 0 .. 1 /\ x(4) \in 0 .. 1 /\ x(8) \in 0 .. 1
      /\ x(16) \in 0 .. 1 /\ x(32) \in 0 .. 1 /\ x(64) \in 0 .. 1 /\ x(128) \in 0 .. 1
  OBVIOUS
<1> QED BY <1>1, <1>2

\* A byte and the set of its bits stand for each other.
LEMMA ByteAndBits ==
  /\ \A n \in 0 .. 255 : BitsOf(n) \subseteq LowByte /\ ByteOf(BitsOf(n)) = n
  /\ \A B \in SUBSET LowByte : ByteOf(B) \in 0 .. 255 /\ BitsOf(ByteOf(B)) = B
<1>1. ASSUME NEW n \in 0 .. 255 PROVE BitsOf(n) \subseteq LowByte /\ ByteOf(BitsOf(n)) = n
  <2>1. PICK x0, x1, x2, x3, x4, x5, x6, x7 \in 0 .. 1 :
           /\ n = x0 + 2 * x1 + 4 * x2 + 8 * x3 + 16 * x4 + 32 * x5 + 64 * x6 + 128 * x7
           /\ n % 2 = x0 /\ (n \div 2) % 2 = x1 /\ (n \div 4) % 2 = x2 /\ (n \div 8) % 2 = x3
           /\ (n \div 16) % 2 = x4 /\ (n \div 32) % 2 = x5 /\ (n \div 64) % 2 = x6
           /\ (n \div 128) % 2 = x7
    BY BitsInSum
  <2>2. /\ 0 \in BitsOf(n) <=> x0 = 1
        /\ 1 \in BitsOf(n) <=> x1 = 1
        /\ 2 \in BitsOf(n) <=> x2 = 1
        /\ 3 \in BitsOf(n) <=> x3 = 1
        /\ 4 \in BitsOf(n) <=> x4 = 1
        /\ 5 \in BitsOf(n) <=> x5 = 1
        /\ 6 \in BitsOf(n) <=> x6 = 1
        /\ 7 \in BitsOf(n) <=> x7 = 1
    BY <2>1, BitsOfByte
  <2>3. /\ Bit(BitsOf(n), 0, 1) = x0
        /\ Bit(BitsOf(n), 1, 2) = 2 * x1
        /\ Bit(BitsOf(n), 2, 4) = 4 * x2
        /\ Bit(BitsOf(n), 3, 8) = 8 * x3
        /\ Bit(BitsOf(n), 4, 16) = 16 * x4
        /\ Bit(BitsOf(n), 5, 32) = 32 * x5
        /\ Bit(BitsOf(n), 6, 64) = 64 * x6
        /\ Bit(BitsOf(n), 7, 128) = 128 * x7
    BY <2>2 DEF Bit
  <2> QED BY <2>1, <2>3, BitsOfByte, ByteOfBits
<1>2. ASSUME NEW B \in SUBSET LowByte
      PROVE  ByteOf(B) \in 0 .. 255 /\ BitsOf(ByteOf(B)) = B
  <2>1. PICK n : n = ByteOf(B)
    OBVIOUS
  <2>2. \E x0, x1, x2, x3, x4, x5, x6, x7 \in 0 .. 1 :
          /\ x0 = Bit(B, 0, 1) /\ 2 * x1 = Bit(B, 1, 2) /\ 4 * x2 = Bit(B, 2, 4)
          /\ 8 * x3 = Bit(B, 3, 8) /\ 16 * x4 = Bit(B, 4, 16) /\ 32 * x5 = Bit(B, 5, 32)
          /\ 64 * x6 = Bit(B, 6, 64) /\ 128 * x7 = Bit(B, 7, 128)
    <3> DEFINE x(b) == IF b \in B THEN 1 ELSE 0
    <3>1. \A b : x(b) \in 0 .. 1
      OBVIOUS
    <3>2. /\ x(0) = Bit(B, 0, 1) /\ 2 * x(1) = Bit(B, 1, 2) /\ 4 * x(2) = Bit(B, 2, 4)
          /\ 8 * x(3) = Bit(B, 3, 8) /\ 16 * x(4) = Bit(B, 4, 16) /\ 32 * x(5) = Bit(B, 5, 32)
          /\ 64 * x(6) = Bit(B, 6, 64) /\ 128 * x(7) = Bit(B, 7, 128)
      BY DEF Bit
    <3> HIDE DEF x
    <3> QED BY <3>1, <3>2
  <2>3. PICK x0, x1, x2, x3, x4, x5, x6, x7 \in 0 .. 1 :
          /\ x0 = Bit(B, 0, 1) /\ 2 * x1 = Bit(B, 1, 2) /\ 4 * x2 = Bit(B, 2, 4)
          /\ 8 * x3 = Bit(B, 3, 8) /\ 16 * x4 = Bit(B, 4, 16) /\ 32 * x5 = Bit(B, 5, 32)
          /\ 64 * x6 = Bit(B, 6, 64) /\ 128 * x7 = Bit(B, 7, 128)
    BY <2>2
  <2>4. n = x0 + 2 * x1 + 4 * x2 + 8 * x3 + 16 * x4 + 32 * x5 + 64 * x6 + 128 * x7
    BY <2>1, <2>3, ByteOfBits
  <2>5. n \in 0 .. 255
    BY <2>4, SumOfBits
  <2>6. /\ 0 \in BitsOf(n) <=> x0 = 1
        /\ 1 \in BitsOf(n) <=> x1 = 1
        /\ 2 \in BitsOf(n) <=> x2 = 1
        /\ 3 \in BitsOf(n) <=> x3 = 1
        /\ 4 \in BitsOf(n) <=> x4 = 1
        /\ 5 \in BitsOf(n) <=> x5 = 1
        /\ 6 \in BitsOf(n) <=> x6 = 1
        /\ 7 \in BitsOf(n) <=> x7 = 1
    <3>1. n % 2 = x0 /\ (n \div 2) % 2 = x1 /\ (n \div 4) % 2 = x2 /\ (n \div 8) % 2 = x3
          /\ (n \div 16) % 2 = x4 /\ (n \div 32) % 2 = x5 /\ (n \div 64) % 2 = x6
          /\ (n \div 128) % 2 = x7
      BY <2>4, SumOfBits
    <3> QED BY <2>5, <3>1, BitsOfByte
  <2>7. /\ 0 \in B <=> x0 = 1
        /\ 1 \in B <=> x1 = 1
        /\ 2 \in B <=> x2 = 1
        /\ 3 \in B <=> x3 = 1
        /\ 4 \in B <=> x4 = 1
        /\ 5 \in B <=> x5 = 1
        /\ 6 \in B <=> x6 = 1
        /\ 7 \in B <=> x7 = 1
    BY <2>3 DEF Bit
  <2>8. BitsOf(n) \subseteq LowByte
    BY DEF BitsOf
  <2>9. \A b \in LowByte : b \in BitsOf(n) <=> b \in B
    BY <2>6, <2>7 DEF LowByte
  <2>10. BitsOf(n) = B
    BY <2>8, <2>9
  <2> QED BY <2>1, <2>5, <2>10
<1> QED BY <1>1, <1>2

-----------------------------------------------------------------------------
(* The register of the checksum: one byte *)

\* The bits of a short, one by one.
LEMMA ShiftedOut ==
  ASSUME NEW r \in SUBSET Short
  PROVE  LET s == ShiftOut(r)
         IN  /\ s \subseteq Short
             /\ 0 \in s <=> 1 \in r
             /\ 1 \in s <=> 2 \in r
             /\ 2 \in s <=> 3 \in r
             /\ 3 \in s <=> ~ (4 \in r <=> 0 \in r)
             /\ 4 \in s <=> 5 \in r
             /\ 5 \in s <=> 6 \in r
             /\ 6 \in s <=> 7 \in r
             /\ 7 \in s <=> 8 \in r
             /\ 8 \in s <=> 9 \in r
             /\ 9 \in s <=> 10 \in r
             /\ 10 \in s <=> ~ (11 \in r <=> 0 \in r)
             /\ 11 \in s <=> 12 \in r
             /\ 12 \in s <=> 13 \in r
             /\ 13 \in s <=> 14 \in r
             /\ 14 \in s <=> 15 \in r
             /\ 15 \in s <=> 0 \in r
<1> DEFINE rest == Shift(r, -1, 16)
<1>1. \A b \in Short : b \in rest <=> b + 1 \in r
  BY DEF Shift, Short
<1>2. rest \subseteq Short /\ 15 \notin rest
  BY DEF Shift, Short
<1>3. ShiftOut(r) = IF 0 \in r THEN Xor(rest, {15, 10, 3}) ELSE rest
  BY DEF ShiftOut
<1> HIDE DEF rest
<1>4. ShiftOut(r) \subseteq Short
  BY <1>2, <1>3 DEF Xor, Short
<1>5. \A b \in Short : b \in ShiftOut(r) <=>
                       IF b \in {15, 10, 3} THEN ~ (b \in rest <=> 0 \in r) ELSE b \in rest
  BY <1>3 DEF Xor
<1>6. \A b \in Short : b \in ShiftOut(r) <=>
                       IF b \in {15, 10, 3} THEN ~ (b + 1 \in r <=> 0 \in r) ELSE b + 1 \in r
  BY <1>1, <1>5
<1>7. 16 \notin r
  BY DEF Short
<1> QED BY <1>4, <1>6, <1>7 DEF Short

\* The bits after four turns of the register, and after eight.
AfterFour(r, s) ==
  /\ s \subseteq Short
  /\ 0 \in s <=> ~ (0 \in r <=> 4 \in r)
  /\ 1 \in s <=> ~ (1 \in r <=> 5 \in r)
  /\ 2 \in s <=> ~ (2 \in r <=> 6 \in r)
  /\ 3 \in s <=> ~ (3 \in r <=> 7 \in r)
  /\ 4 \in s <=> 8 \in r
  /\ 5 \in s <=> 9 \in r
  /\ 6 \in s <=> 10 \in r
  /\ 7 \in s <=> ~ (0 \in r <=> 11 \in r)
  /\ 8 \in s <=> ~ (1 \in r <=> 12 \in r)
  /\ 9 \in s <=> ~ (2 \in r <=> 13 \in r)
  /\ 10 \in s <=> ~ (3 \in r <=> 14 \in r)
  /\ 11 \in s <=> 15 \in r
  /\ 12 \in s <=> 0 \in r
  /\ 13 \in s <=> 1 \in r
  /\ 14 \in s <=> 2 \in r
  /\ 15 \in s <=> 3 \in r

AfterEight(r, s) ==
  /\ s \subseteq Short
  /\ 0 \in s <=> (0 \in r <=> (4 \in r <=> 8 \in r))
  /\ 1 \in s <=> (1 \in r <=> (5 \in r <=> 9 \in r))
  /\ 2 \in s <=> (2 \in r <=> (6 \in r <=> 10 \in r))
  /\ 3 \in s <=> ~ ((0 \in r <=> 3 \in r) <=> (7 \in r <=> 11 \in r))
  /\ 4 \in s <=> ~ (1 \in r <=> 12 \in r)
  /\ 5 \in s <=> ~ (2 \in r <=> 13 \in r)
  /\ 6 \in s <=> ~ (3 \in r <=> 14 \in r)
  /\ 7 \in s <=> (0 \in r <=> (4 \in r <=> 15 \in r))
  /\ 8 \in s <=> (0 \in r <=> (1 \in r <=> 5 \in r))
  /\ 9 \in s <=> (1 \in r <=> (2 \in r <=> 6 \in r))
  /\ 10 \in s <=> (2 \in r <=> (3 \in r <=> 7 \in r))
  /\ 11 \in s <=> 3 \in r
  /\ 12 \in s <=> ~ (0 \in r <=> 4 \in r)
  /\ 13 \in s <=> ~ (1 \in r <=> 5 \in r)
  /\ 14 \in s <=> ~ (2 \in r <=> 6 \in r)
  /\ 15 \in s <=> ~ (3 \in r <=> 7 \in r)

\* Four turns.
LEMMA FourTurns ==
  ASSUME NEW r \in SUBSET Short
  PROVE  AfterFour(r, ShiftOut(ShiftOut(ShiftOut(ShiftOut(r)))))
<1>1. PICK r1, r2, r3, r4 :
        r1 = ShiftOut(r) /\ r2 = ShiftOut(r1) /\ r3 = ShiftOut(r2) /\ r4 = ShiftOut(r3)
  OBVIOUS
<1>2. r1 \subseteq Short /\ r2 \subseteq Short /\ r3 \subseteq Short /\ r4 \subseteq Short
  <2>1. r1 \in SUBSET Short
    BY <1>1, ShiftedOut
  <2>2. r2 \in SUBSET Short
    BY <1>1, <2>1, ShiftedOut
  <2>3. r3 \in SUBSET Short
    BY <1>1, <2>2, ShiftedOut
  <2>4. r4 \in SUBSET Short
    BY <1>1, <2>3, ShiftedOut
  <2> QED BY <2>1, <2>2, <2>3, <2>4
<1> DEFINE Turned(q, s) ==
      /\ 0 \in s <=> 1 \in q
      /\ 1 \in s <=> 2 \in q
      /\ 2 \in s <=> 3 \in q
      /\ 3 \in s <=> ~ (4 \in q <=> 0 \in q)
      /\ 4 \in s <=> 5 \in q
      /\ 5 \in s <=> 6 \in q
      /\ 6 \in s <=> 7 \in q
      /\ 7 \in s <=> 8 \in q
      /\ 8 \in s <=> 9 \in q
      /\ 9 \in s <=> 10 \in q
      /\ 10 \in s <=> ~ (11 \in q <=> 0 \in q)
      /\ 11 \in s <=> 12 \in q
      /\ 12 \in s <=> 13 \in q
      /\ 13 \in s <=> 14 \in q
      /\ 14 \in s <=> 15 \in q
      /\ 15 \in s <=> 0 \in q
<1>3. Turned(r, r1) /\ Turned(r1, r2) /\ Turned(r2, r3) /\ Turned(r3, r4)
  <2>1. \A q \in SUBSET Short : Turned(q, ShiftOut(q))
    BY ShiftedOut
  <2> HIDE DEF Turned
  <2> QED BY <1>1, <1>2, <2>1
<1>4. AfterFour(r, r4)
  BY <1>2, <1>3 DEF AfterFour
<1> QED BY <1>1, <1>4

\* Four more.
LEMMA EightTurns ==
  ASSUME NEW r \in SUBSET Short, NEW s, NEW t, AfterFour(r, s), AfterFour(s, t)
  PROVE  AfterEight(r, t)
BY DEF AfterFour, AfterEight

\* After eight turns two registers still differ just if they did.
LEMMA AfterEightAlike ==
  ASSUME NEW r \in SUBSET Short, NEW q \in SUBSET Short, NEW s, NEW t,
         AfterEight(r, s), AfterEight(q, t)
  PROVE  r = q <=> s = t
<1>1. ASSUME s = t PROVE r = q
  <2>1. \A b \in Short : b \in r <=> b \in q
    <3>1. /\ 3 \in r <=> 3 \in q
          /\ 7 \in r <=> 7 \in q
          /\ 14 \in r <=> 14 \in q
          /\ 10 \in r <=> 10 \in q
          /\ 2 \in r <=> 2 \in q
          /\ 6 \in r <=> 6 \in q
          /\ 13 \in r <=> 13 \in q
          /\ 1 \in r <=> 1 \in q
          /\ 5 \in r <=> 5 \in q
          /\ 12 \in r <=> 12 \in q
          /\ 9 \in r <=> 9 \in q
          /\ 0 \in r <=> 0 \in q
          /\ 4 \in r <=> 4 \in q
          /\ 8 \in r <=> 8 \in q
          /\ 11 \in r <=> 11 \in q
          /\ 15 \in r <=> 15 \in q
      BY <1>1 DEF AfterEight
    <3> QED BY <3>1 DEF Short
  <2> QED BY <2>1
<1>2. ASSUME r = q PROVE s = t
  <2>1. s \subseteq Short /\ t \subseteq Short
    BY DEF AfterEight
  <2>2. \A b \in Short : b \in s <=> b \in t
    BY <1>2 DEF AfterEight, Short
  <2> QED BY <2>1, <2>2
<1> QED BY <1>1, <1>2

\* The register with a byte in it.
LEMMA XorFacts ==
  ASSUME NEW r \in SUBSET Short, NEW B \in SUBSET LowByte
  PROVE  /\ Xor(r, B) \in SUBSET Short
         /\ \A q \in SUBSET Short : Xor(r, B) = Xor(q, B) => r = q
         /\ \A C \in SUBSET LowByte : Xor(r, B) = Xor(r, C) => B = C
BY DEF Xor, Short, LowByte

\* A byte by the definition of the checksum.
LEMMA CcittAfterEight ==
  ASSUME NEW r \in SUBSET Short, NEW byte \in 0 .. 255
  PROVE  AfterEight(Xor(r, BitsOf(byte)), CcittStep(r, byte))
<1> DEFINE four(q) == ShiftOut(ShiftOut(ShiftOut(ShiftOut(q))))
           x == Xor(r, BitsOf(byte))
<1>1. x \in SUBSET Short
  BY XorFacts, ByteAndBits
<1> HIDE DEF x
<1>2. AfterFour(x, four(x)) /\ four(x) \in SUBSET Short
  BY <1>1, FourTurns DEF AfterFour
<1> HIDE DEF four
<1>3. AfterFour(four(x), four(four(x)))
  BY <1>2, FourTurns DEF four
<1>4. AfterEight(x, four(four(x)))
  BY <1>1, <1>2, <1>3, EightTurns
<1> QED BY <1>4 DEF CcittStep, x, four

\* A byte by the five steps of crc16_add.
LEMMA Crc16AddAfterEight ==
  ASSUME NEW r \in SUBSET Short, NEW byte \in 0 .. 255
  PROVE  AfterEight(Xor(r, BitsOf(byte)), Crc16Add(byte, r))
<1> DEFINE x == Xor(r, BitsOf(byte))
           y == Shift(x, -8, 16) \cup Shift(x, 8, 16)
           z == Xor(y, Shift(y \cap HighByte, 4, 16))
           w == Xor(z, Shift(Shift(z, -8, 16), -4, 16))
           v == Xor(w, Shift(w \cap HighByte, -5, 16))
<1>1. x \in SUBSET Short
  BY XorFacts, ByteAndBits
<1>2. y \in SUBSET Short /\ \A b \in Short : b \in y <=> IF b < 8 THEN b + 8 \in x ELSE b - 8 \in x
  BY <1>1 DEF Shift, Short
<1>3. z \in SUBSET Short /\ \A b \in Short : b \in z <=>
        IF b < 12 THEN b \in y ELSE ~ (b \in y <=> b - 4 \in y)
  <2> HIDE DEF y
  <2>1. \A b \in Short : b \in z <=> ~ (b \in y <=> b - 4 \in y /\ b - 4 \in HighByte)
    BY <1>2 DEF Shift, Xor, Short
  <2>2. z \subseteq Short
    <3>1. Shift(y \cap HighByte, 4, 16) \subseteq Short
      BY DEF Shift, Short
    <3> QED BY <1>2, <3>1 DEF Xor
  <2> HIDE DEF z
  <2> QED BY <1>2, <2>1, <2>2 DEF Short, HighByte
<1>4. w \in SUBSET Short /\ \A b \in Short : b \in w <=>
        IF b < 4 THEN ~ (b \in z <=> b + 12 \in z) ELSE b \in z
  <2> HIDE DEF z
  <2> DEFINE high == Shift(z, -8, 16)
  <2>1. high \subseteq LowByte /\ \A b \in LowByte : b \in high <=> b + 8 \in z
    BY <1>3 DEF Shift, Short, LowByte
  <2> HIDE DEF high
  <2>2. Shift(high, -4, 16) \subseteq Short
        /\ \A b \in Short : b \in Shift(high, -4, 16) <=> b + 4 \in high
    BY <2>1 DEF Shift, Short, LowByte
  <2>3. \A b \in Short : b \in w <=> ~ (b \in z <=> b + 12 \in z)
    <3>1. \A b \in Short : b + 4 \in high <=> b + 12 \in z
      BY <1>3, <2>1 DEF Short, LowByte
    <3> QED BY <2>2, <3>1 DEF Xor, high
  <2>4. w \subseteq Short
    BY <1>3, <2>2 DEF Xor, high
  <2> HIDE DEF w
  <2> QED BY <1>3, <2>3, <2>4 DEF Short
<1>5. v \in SUBSET Short /\ \A b \in Short : b \in v <=>
        IF b < 3 \/ b > 10 THEN b \in w ELSE ~ (b \in w <=> b + 5 \in w)
  <2> HIDE DEF w
  <2>1. \A b \in Short : b \in v <=> ~ (b \in w <=> b + 5 \in w /\ b + 5 \in HighByte)
    BY <1>4 DEF Shift, Xor, Short
  <2>2. v \subseteq Short
    <3>1. Shift(w \cap HighByte, -5, 16) \subseteq Short
      BY DEF Shift, Short, HighByte
    <3> QED BY <1>4, <3>1 DEF Xor
  <2> HIDE DEF v
  <2> QED BY <1>4, <2>1, <2>2 DEF Short, HighByte
<1>6. AfterEight(x, v)
  <2> HIDE DEF x, y, z, w, v
  <2>1.
    /\ 0 \in y <=> 8 \in x
    /\ 1 \in y <=> 9 \in x
    /\ 2 \in y <=> 10 \in x
    /\ 3 \in y <=> 11 \in x
    /\ 4 \in y <=> 12 \in x
    /\ 5 \in y <=> 13 \in x
    /\ 6 \in y <=> 14 \in x
    /\ 7 \in y <=> 15 \in x
    /\ 8 \in y <=> 0 \in x
    /\ 9 \in y <=> 1 \in x
    /\ 10 \in y <=> 2 \in x
    /\ 11 \in y <=> 3 \in x
    /\ 12 \in y <=> 4 \in x
    /\ 13 \in y <=> 5 \in x
    /\ 14 \in y <=> 6 \in x
    /\ 15 \in y <=> 7 \in x
    BY <1>2 DEF Short
  <2>2.
    /\ 0 \in z <=> 0 \in y
    /\ 1 \in z <=> 1 \in y
    /\ 2 \in z <=> 2 \in y
    /\ 3 \in z <=> 3 \in y
    /\ 4 \in z <=> 4 \in y
    /\ 5 \in z <=> 5 \in y
    /\ 6 \in z <=> 6 \in y
    /\ 7 \in z <=> 7 \in y
    /\ 8 \in z <=> 8 \in y
    /\ 9 \in z <=> 9 \in y
    /\ 10 \in z <=> 10 \in y
    /\ 11 \in z <=> 11 \in y
    /\ 12 \in z <=> ~ (12 \in y <=> 8 \in y)
    /\ 13 \in z <=> ~ (13 \in y <=> 9 \in y)
    /\ 14 \in z <=> ~ (14 \in y <=> 10 \in y)
    /\ 15 \in z <=> ~ (15 \in y <=> 11 \in y)
    BY <1>3 DEF Short
  <2>3.
    /\ 0 \in w <=> ~ (0 \in z <=> 12 \in z)
    /\ 1 \in w <=> ~ (1 \in z <=> 13 \in z)
    /\ 2 \in w <=> ~ (2 \in z <=> 14 \in z)
    /\ 3 \in w <=> ~ (3 \in z <=> 15 \in z)
    /\ 4 \in w <=> 4 \in z
    /\ 5 \in w <=> 5 \in z
    /\ 6 \in w <=> 6 \in z
    /\ 7 \in w <=> 7 \in z
    /\ 8 \in w <=> 8 \in z
    /\ 9 \in w <=> 9 \in z
    /\ 10 \in w <=> 10 \in z
    /\ 11 \in w <=> 11 \in z
    /\ 12 \in w <=> 12 \in z
    /\ 13 \in w <=> 13 \in z
    /\ 14 \in w <=> 14 \in z
    /\ 15 \in w <=> 15 \in z
    BY <1>4 DEF Short
  <2>4.
    /\ 0 \in v <=> 0 \in w
    /\ 1 \in v <=> 1 \in w
    /\ 2 \in v <=> 2 \in w
    /\ 3 \in v <=> ~ (3 \in w <=> 8 \in w)
    /\ 4 \in v <=> ~ (4 \in w <=> 9 \in w)
    /\ 5 \in v <=> ~ (5 \in w <=> 10 \in w)
    /\ 6 \in v <=> ~ (6 \in w <=> 11 \in w)
    /\ 7 \in v <=> ~ (7 \in w <=> 12 \in w)
    /\ 8 \in v <=> ~ (8 \in w <=> 13 \in w)
    /\ 9 \in v <=> ~ (9 \in w <=> 14 \in w)
    /\ 10 \in v <=> ~ (10 \in w <=> 15 \in w)
    /\ 11 \in v <=> 11 \in w
    /\ 12 \in v <=> 12 \in w
    /\ 13 \in v <=> 13 \in w
    /\ 14 \in v <=> 14 \in w
    /\ 15 \in v <=> 15 \in w
    BY <1>5 DEF Short
  <2> QED BY <1>5, <2>1, <2>2, <2>3, <2>4 DEF AfterEight
<1> QED BY <1>6 DEF Crc16Add

\* Java's wider int makes no difference.
LEMMA WidthsAgree ==
  ASSUME NEW r \in SUBSET Short, NEW byte \in 0 .. 255
  PROVE  Crc16Step(r, byte) = Crc16Add(byte, r)
<1>1. PICK x \in SUBSET Short : x = Xor(r, BitsOf(byte))
  BY XorFacts, ByteAndBits
<1>2. PICK y \in SUBSET Short : y = Shift(x, -8, 16) \cup Shift(x, 8, 16)
  <2>1. Shift(x, -8, 16) \subseteq Short /\ Shift(x, 8, 16) \subseteq Short
    BY DEF Shift, Short
  <2> QED BY <2>1
<1>3. y = (Shift(x, -8, 32) \cap Short) \cup (Shift(x, 8, 32) \cap Short)
  <2>1. \A n \in Int : Shift(x, n, 16) = Shift(x, n, 32) \cap Short
    BY DEF Shift, Short
  <2> QED BY <1>2, <2>1
<1>4. PICK z \in SUBSET Short : z = Xor(y, Shift(y \cap HighByte, 4, 16))
  <2>1. Shift(y \cap HighByte, 4, 16) \subseteq Short
    BY DEF Shift, Short
  <2> QED BY <2>1 DEF Xor
<1>5. z = Xor(y, Shift(y \cap HighByte, 4, 32) \cap Short)
  <2>1. Shift(y \cap HighByte, 4, 16) = Shift(y \cap HighByte, 4, 32) \cap Short
    BY DEF Shift, Short
  <2> QED BY <1>4, <2>1
<1>6. PICK w \in SUBSET Short : w = Xor(z, Shift(Shift(z, -8, 16), -4, 16))
  <2>1. Shift(Shift(z, -8, 16), -4, 16) \subseteq Short
    BY DEF Shift, Short
  <2> QED BY <2>1 DEF Xor
<1>7. w = Xor(z, Shift(Shift(z, -8, 32), -4, 32))
  <2>1. ASSUME NEW u \in SUBSET Short, NEW n \in Nat
        PROVE  Shift(u, -n, 16) = Shift(u, -n, 32) /\ Shift(u, -n, 16) \in SUBSET Short
    BY DEF Shift, Short
  <2>2. Shift(z, -8, 16) = Shift(z, -8, 32) /\ Shift(z, -8, 16) \in SUBSET Short
    BY <2>1
  <2>3. Shift(Shift(z, -8, 16), -4, 16) = Shift(Shift(z, -8, 16), -4, 32)
    BY <2>1, <2>2
  <2> QED BY <1>6, <2>2, <2>3
<1>8. Shift(w \cap HighByte, -5, 16) = Shift(w \cap HighByte, -5, 32)
  BY DEF Shift, Short, HighByte
<1>9. Crc16Add(byte, r) = Xor(w, Shift(w \cap HighByte, -5, 16))
  BY <1>1, <1>2, <1>4, <1>6 DEF Crc16Add
<1>10. Crc16Step(r, byte) = Xor(w, Shift(w \cap HighByte, -5, 32))
  BY <1>1, <1>3, <1>5, <1>7 DEF Crc16Step
<1> QED BY <1>8, <1>9, <1>10

\* One byte makes the same of a register everywhere, and the register and the
\* byte can be told from what it makes.
LEMMA StepFacts ==
  ASSUME NEW r \in SUBSET Short, NEW byte \in 0 .. 255
  PROVE  /\ CcittStep(r, byte) \in SUBSET Short
         /\ Crc16Add(byte, r) = CcittStep(r, byte)
         /\ Crc16Step(r, byte) = CcittStep(r, byte)
         /\ \A q \in SUBSET Short : CcittStep(q, byte) = CcittStep(r, byte) => q = r
         /\ \A other \in 0 .. 255 :
              CcittStep(r, other) = CcittStep(r, byte) => other = byte
<1>1. \A b \in 0 .. 255 : BitsOf(b) \in SUBSET LowByte /\ ByteOf(BitsOf(b)) = b
  BY ByteAndBits
<1>2. \A q \in SUBSET Short, b \in 0 .. 255 : Xor(q, BitsOf(b)) \in SUBSET Short
  BY <1>1, XorFacts
<1>3. \A q \in SUBSET Short, b \in 0 .. 255 :
        AfterEight(Xor(q, BitsOf(b)), CcittStep(q, b))
  BY CcittAfterEight
<1>4. Crc16Add(byte, r) = CcittStep(r, byte)
  <2>1. PICK x \in SUBSET Short : x = Xor(r, BitsOf(byte))
    BY <1>2
  <2>2. AfterEight(x, Crc16Add(byte, r)) /\ AfterEight(x, CcittStep(r, byte))
    BY <1>3, <2>1, Crc16AddAfterEight
  <2> QED BY <2>2, AfterEightAlike
<1>5. ASSUME NEW q \in SUBSET Short, CcittStep(q, byte) = CcittStep(r, byte) PROVE q = r
  <2>1. Xor(q, BitsOf(byte)) = Xor(r, BitsOf(byte))
    BY <1>2, <1>3, <1>5, AfterEightAlike
  <2> QED BY <1>1, <2>1, XorFacts
<1>6. ASSUME NEW other \in 0 .. 255, CcittStep(r, other) = CcittStep(r, byte)
      PROVE  other = byte
  <2>1. Xor(r, BitsOf(other)) = Xor(r, BitsOf(byte))
    BY <1>2, <1>3, <1>6, AfterEightAlike
  <2>2. BitsOf(other) = BitsOf(byte)
    BY <1>1, <2>1, XorFacts
  <2> QED BY <1>1, <2>2
<1>7. CcittStep(r, byte) \in SUBSET Short
  BY <1>3 DEF AfterEight
<1> QED BY <1>4, <1>5, <1>6, <1>7, WidthsAgree

-----------------------------------------------------------------------------
(* Folds: a list of bytes goes through the register *)

\* The greatest of some numbers.
LEMMA GreatestFacts ==
  ASSUME NEW n \in Nat, NEW s \in SUBSET (1 .. n), s # {}
  PROVE  /\ Seqs!Max(s) \in s /\ \A y \in s : Seqs!Max(s) >= y
         /\ \A m \in 0 .. n : s \subseteq 1 .. m + 1 => s \ {Seqs!Max(s)} \subseteq 1 .. m
<1> DEFINE gaps == {n - y : y \in s}
<1>1. gaps \subseteq Nat /\ gaps # {}
  OBVIOUS
<1>2. PICK x \in gaps : \A y \in gaps : ~ (<<y, x>> \in OpToRel(<, Nat))
  BY <1>1, WFMin, NatLessThanWellFounded
<1>3. ASSUME NEW y \in gaps PROVE x <= y
  <2>1. x \in Nat /\ y \in Nat
    BY <1>1, <1>2
  <2>2. ~ (<<y, x>> \in OpToRel(<, Nat))
    BY <1>2
  <2>3. y < x => <<y, x>> \in OpToRel(<, Nat)
    BY <2>1 DEF OpToRel
  <2>4. ~ (y < x)
    BY <2>3, <2>2
  <2> QED BY <2>1, <2>4
<1>4. \E y \in s : \A z \in s : y >= z
  <2>1. PICK y \in s : x = n - y
    BY <1>2
  <2>2. \A z \in s : n - z \in gaps /\ z \in Nat
    <3>1. \A z \in s : z \in 1 .. n
      OBVIOUS
    <3> QED BY <3>1
  <2>3. \A z \in s : n - y <= n - z
    BY <1>3, <2>1, <2>2
  <2> QED BY <2>2, <2>3
<1>5. Seqs!Max(s) \in s /\ \A y \in s : Seqs!Max(s) >= y
  BY <1>4 DEF Seqs!Max
<1>6. PICK t : t = Seqs!Max(s)
  OBVIOUS
<1>7. t \in Nat /\ t \in s /\ \A y \in s : t >= y /\ y \in Nat /\ y >= 1
  <2>1. \A y \in s : y \in 1 .. n
    OBVIOUS
  <2>2. \A y \in s : y \in Nat /\ y >= 1
    BY <2>1
  <2> QED BY <1>5, <1>6, <2>2
<1>8. ASSUME NEW m \in 0 .. n, s \subseteq 1 .. m + 1 PROVE s \ {t} \subseteq 1 .. m
  <2>1. ASSUME NEW y \in s, y # t PROVE y \in 1 .. m
    <3>1. t <= m + 1 /\ y < t
      BY <1>7, <1>8, <2>1
    <3> QED BY <1>7, <3>1
  <2> QED BY <2>1
<1> QED BY <1>5, <1>6, <1>8

\* h is the recursive function by which FoldLeft goes through a list, over the
\* sets of places it has to go through.
IsFold(h, step, base, list, n) ==
  h = [s \in SUBSET (1 .. n) |->
         IF s = {} THEN base
         ELSE step[<<h[s \ {Seqs!Max(s)}], list[Seqs!Max(s)]>>]]

\* There is such a function, whatever the step is.
LEMMA FoldExists ==
  ASSUME NEW R, NEW B, NEW step \in [R \X B -> R], NEW base \in R,
         NEW list \in Seq(B)
  PROVE  \E h \in [SUBSET (1 .. Len(list)) -> R] : IsFold(h, step, base, list, Len(list))
<1> DEFINE n == Len(list)
           Run(k) == \E h \in [SUBSET (1 .. k) -> R] : IsFold(h, step, base, list, k)
           Runs == {k \in Nat : k <= n => Run(k)}
<1>1. n \in Nat /\ \A x \in 1 .. n : list[x] \in B
  OBVIOUS
<1> HIDE DEF n
<1>2. 0 \in Runs
  <2> DEFINE h == [s \in SUBSET (1 .. 0) |-> base]
  <2>1. \A s \in SUBSET (1 .. 0) : s = {}
    OBVIOUS
  <2>2. IsFold(h, step, base, list, 0)
    BY <2>1 DEF IsFold
  <2>3. h \in [SUBSET (1 .. 0) -> R]
    OBVIOUS
  <2> HIDE DEF h
  <2> QED BY <2>2, <2>3
<1>3. ASSUME NEW k \in Runs PROVE k + 1 \in Runs
  <2>1. SUFFICES ASSUME k + 1 <= n PROVE Run(k + 1)
    <3> HIDE DEF Run
    <3> QED OBVIOUS
  <2>2. k \in Nat /\ k <= n /\ Run(k)
    <3> HIDE DEF Run
    <3> QED BY <1>1, <2>1
  <2>3. PICK g \in [SUBSET (1 .. k) -> R] : IsFold(g, step, base, list, k)
    BY <2>2
  <2> HIDE DEF Runs
  <2> DEFINE turn(f, s) == IF s = {} THEN base
                           ELSE step[<<f[s \ {Seqs!Max(s)}], list[Seqs!Max(s)]>>]
             h == [s \in SUBSET (1 .. k + 1) |-> turn(g, s)]
  <2>4. ASSUME NEW s \in SUBSET (1 .. k + 1), s # {}
        PROVE  s \ {Seqs!Max(s)} \in SUBSET (1 .. k) /\ list[Seqs!Max(s)] \in B
    <3>1. k + 1 \in Nat /\ k \in 0 .. k + 1
      BY <2>2
    <3>2. Seqs!Max(s) \in s /\ s \ {Seqs!Max(s)} \subseteq 1 .. k
      BY <2>4, <3>1, GreatestFacts
    <3>3. Seqs!Max(s) \in 1 .. n
      <4>1. Seqs!Max(s) \in 1 .. k + 1
        BY <3>2
      <4> QED BY <1>1, <2>1, <2>2, <4>1
    <3> QED BY <1>1, <3>2, <3>3
  <2>5. ASSUME NEW s \in SUBSET (1 .. k) PROVE h[s] = g[s]
    <3>1. s \in SUBSET (1 .. k + 1)
      BY <2>2
    <3>2. g[s] = turn(g, s)
      BY <2>3 DEF IsFold
    <3> QED BY <3>1, <3>2
  <2>6. h \in [SUBSET (1 .. k + 1) -> R]
    <3>1. \A s \in SUBSET (1 .. k + 1) : turn(g, s) \in R
      BY <2>4
    <3> HIDE DEF turn
    <3> QED BY <3>1
  <2>7. IsFold(h, step, base, list, k + 1)
    <3>1. \A s \in SUBSET (1 .. k + 1) : turn(g, s) = turn(h, s)
      BY <2>4, <2>5
    <3>2. h = [s \in SUBSET (1 .. k + 1) |-> turn(h, s)]
      BY <3>1
    <3> HIDE DEF h
    <3> QED BY <3>2 DEF IsFold
  <2> HIDE DEF h
  <2> QED BY <2>6, <2>7
<1>4. Runs = Nat
  <2>1. Runs \in SUBSET Nat
    OBVIOUS
  <2> HIDE DEF Runs
  <2> QED BY <1>2, <1>3, <2>1, SetInduction
<1>5. \E h \in [SUBSET (1 .. n) -> R] : IsFold(h, step, base, list, n)
  <2> HIDE DEF Run
  <2>1. n \in Runs
    <3> HIDE DEF Runs
    <3> QED BY <1>1, <1>4
  <2>2. n <= n
    BY <1>1
  <2>3. Run(n)
    BY <2>1, <2>2
  <2> QED BY <2>3 DEF Run
<1> QED BY <1>5 DEF n

\* From the first elements of a list to one more.
LEMMA PrefixFacts ==
  ASSUME NEW k \in Nat
  PROVE  /\ 1 .. k + 1 # {} /\ Seqs!Max(1 .. k + 1) = k + 1
         /\ (1 .. k + 1) \ {Seqs!Max(1 .. k + 1)} = 1 .. k
<1>1. k + 1 \in Nat /\ 1 .. k + 1 \in SUBSET (1 .. k + 1) /\ 1 .. k + 1 # {}
  OBVIOUS
<1>2. /\ Seqs!Max(1 .. k + 1) \in 1 .. k + 1
      /\ \A y \in 1 .. k + 1 : Seqs!Max(1 .. k + 1) >= y
  BY <1>1, GreatestFacts
<1>3. Seqs!Max(1 .. k + 1) = k + 1
  BY <1>2
<1> QED BY <1>1, <1>3

\* Whatever they are given, the steps make a register.
LEMMA AlwaysShort ==
  ASSUME NEW r, NEW byte
  PROVE  /\ Crc16Add(byte, r) \in SUBSET Short
         /\ Crc16Step(r, byte) \in SUBSET Short
         /\ CcittStep(r, byte) \in SUBSET Short
<1>1. \A x, n : Shift(x, n, 16) \subseteq Short
  BY DEF Shift, Short
<1>2. \A x, y \in SUBSET Short : Xor(x, y) \in SUBSET Short
  BY DEF Xor
<1>3. Crc16Add(byte, r) \in SUBSET Short
  BY <1>1, <1>2 DEF Crc16Add
<1>4. \A q : ShiftOut(q) \in SUBSET Short
  <2>1. {15, 15 - 5, 15 - 12} \in SUBSET Short
    BY DEF Short
  <2> QED BY <1>1, <1>2, <2>1 DEF ShiftOut
<1>5. CcittStep(r, byte) \in SUBSET Short
  BY <1>4 DEF CcittStep
<1>6. Crc16Step(r, byte) \in SUBSET Short
  <2>1. PICK x : x = Xor(r, BitsOf(byte))
    OBVIOUS
  <2>2. PICK y \in SUBSET Short :
          y = (Shift(x, -8, 32) \cap Short) \cup (Shift(x, 8, 32) \cap Short)
    OBVIOUS
  <2>3. PICK z \in SUBSET Short : z = Xor(y, Shift(y \cap HighByte, 4, 32) \cap Short)
    BY <1>2
  <2>4. Shift(z, -8, 32) \subseteq Short
    BY DEF Shift, Short
  <2>5. Shift(Shift(z, -8, 32), -4, 32) \subseteq Short
    BY <2>4 DEF Shift, Short
  <2>6. PICK w \in SUBSET Short : w = Xor(z, Shift(Shift(z, -8, 32), -4, 32))
    BY <1>2, <2>5
  <2>7. Shift(w \cap HighByte, -5, 32) \subseteq Short
    BY DEF Shift, Short
  <2>8. Xor(w, Shift(w \cap HighByte, -5, 32)) \in SUBSET Short
    BY <1>2, <2>7
  <2> QED BY <2>1, <2>2, <2>3, <2>6, <2>8 DEF Crc16Step
<1> QED BY <1>3, <1>5, <1>6

Byte == 0 .. 255

\* The step as a function.
Step == [p \in (SUBSET Short) \X Byte |-> CcittStep(p[1], p[2])]

\* The register before the first byte of the data, and after each.
Registers(t, acc, data) ==
  /\ t \in [0 .. Len(data) -> SUBSET Short]
  /\ t[0] = acc
  /\ \A k \in 1 .. Len(data) : t[k] = CcittStep(t[k - 1], data[k])

\* It makes a register of a register and a byte.
LEMMA StepTyped ==
  /\ Step \in [(SUBSET Short) \X Byte -> SUBSET Short]
  /\ \A r \in SUBSET Short, b \in Byte : Step[<<r, b>>] = CcittStep(r, b)
<1>1. \A p \in (SUBSET Short) \X Byte : CcittStep(p[1], p[2]) \in SUBSET Short
  BY AlwaysShort
<1>2. Step \in [(SUBSET Short) \X Byte -> SUBSET Short]
  <2> DEFINE f(p) == CcittStep(p[1], p[2])
  <2>1. \A p \in (SUBSET Short) \X Byte : f(p) \in SUBSET Short
    BY <1>1
  <2> HIDE DEF f
  <2>2. [p \in (SUBSET Short) \X Byte |-> f(p)] \in [(SUBSET Short) \X Byte -> SUBSET Short]
    BY <2>1
  <2> QED BY <2>2 DEF Step, f
<1>3. ASSUME NEW r \in SUBSET Short, NEW b \in Byte PROVE Step[<<r, b>>] = CcittStep(r, b)
  <2>1. <<r, b>> \in (SUBSET Short) \X Byte /\ <<r, b>>[1] = r /\ <<r, b>>[2] = b
    OBVIOUS
  <2> QED BY <2>1 DEF Step
<1> QED BY <1>2, <1>3

\* Such a function h goes through the registers.
LEMMA FoldRegisters ==
  ASSUME NEW data \in Seq(Byte), NEW acc \in SUBSET Short,
         NEW h \in [SUBSET (1 .. Len(data)) -> SUBSET Short],
         IsFold(h, Step, acc, data, Len(data))
  PROVE  Registers([k \in 0 .. Len(data) |-> h[1 .. k]], acc, data)
<1> DEFINE n == Len(data)
           t == [k \in 0 .. n |-> h[1 .. k]]
<1>1. n \in Nat /\ \A k \in 0 .. n : 1 .. k \in SUBSET (1 .. n)
  OBVIOUS
<1>2. t \in [0 .. n -> SUBSET Short]
  BY <1>1
<1>3. t[0] = acc
  <2>1. 1 .. 0 = {} /\ 0 \in 0 .. n
    BY <1>1
  <2> QED BY <1>1, <2>1 DEF IsFold
<1>4. ASSUME NEW k \in 1 .. n PROVE t[k] = CcittStep(t[k - 1], data[k])
  <2>1. k \in Nat /\ k - 1 \in Nat /\ k - 1 \in 0 .. n /\ (k - 1) + 1 = k /\ k \in 0 .. n
    BY <1>1
  <2>2. 1 .. k # {} /\ Seqs!Max(1 .. k) = k /\ (1 .. k) \ {Seqs!Max(1 .. k)} = 1 .. k - 1
    BY <2>1, PrefixFacts
  <2>3. h[1 .. k] = Step[<<h[1 .. k - 1], data[k]>>]
    BY <1>1, <2>1, <2>2 DEF IsFold
  <2>4. h[1 .. k - 1] \in SUBSET Short /\ data[k] \in Byte
    BY <1>1, <2>1
  <2> HIDE DEF n
  <2> QED BY <2>1, <2>3, <2>4, StepTyped
<1> QED BY <1>2, <1>3, <1>4 DEF Registers

\* The sums of the data are what is in the register at the end, however they
\* are computed.
LEMMA SumsAreRegisters ==
  ASSUME NEW data \in Seq(Byte), NEW acc \in SUBSET Short
  PROVE  /\ \E t : Registers(t, acc, data) /\ Crc16Data(data, acc) = t[Len(data)]
         /\ \E t : Registers(t, Short, data) /\ Crc16Int(data) = t[Len(data)]
         /\ \E t : Registers(t, Short, data) /\ CcittRemainder(data) = t[Len(data)]
<1> DEFINE n == Len(data)
           at(s) == data[Seqs!Max(s)]
           less(s) == s \ {Seqs!Max(s)}
<1>1. n \in Nat /\ DOMAIN data = 1 .. n /\ 1 .. n \in SUBSET (1 .. n) /\ n \in 0 .. n
      /\ Short \in SUBSET Short
  OBVIOUS
<1>2. ASSUME NEW s \in SUBSET (1 .. n), s # {}
      PROVE  less(s) \in SUBSET (1 .. n) /\ at(s) \in Byte
  <2>1. Seqs!Max(s) \in s
    BY <1>1, <1>2, GreatestFacts
  <2>2. \A x \in 1 .. n : data[x] \in Byte
    OBVIOUS
  <2> QED BY <2>1, <2>2
<1>3. \A a \in SUBSET Short :
        \E h \in [SUBSET (1 .. n) -> SUBSET Short] : IsFold(h, Step, a, data, n)
  BY FoldExists, StepTyped
<1>4. \A r \in SUBSET Short, b \in Byte :
        /\ Step[<<r, b>>] = Crc16Add(b, r) /\ Step[<<r, b>>] = Crc16Step(r, b)
        /\ Step[<<r, b>>] = CcittStep(r, b)
  <2>1. \A r \in SUBSET Short, b \in Byte :
          Crc16Add(b, r) = CcittStep(r, b) /\ Crc16Step(r, b) = CcittStep(r, b)
    BY StepFacts DEF Byte
  <2> QED BY <2>1, StepTyped
<1>5. \E t : Registers(t, acc, data) /\ Crc16Data(data, acc) = t[n]
  <2> DEFINE turn(f, s) == IF s = {} THEN acc ELSE Crc16Add(at(s), f[less(s)])
             h == CHOOSE h : h = [s \in SUBSET (1 .. n) |-> turn(h, s)]
  <2>1. Crc16Data(data, acc) = h[1 .. n]
    BY <1>1 DEF Crc16Data, Seqs!FoldLeft, Seqs!MapThenFoldSet
  <2>2. h = [s \in SUBSET (1 .. n) |-> turn(h, s)]
    <3>1. PICK g \in [SUBSET (1 .. n) -> SUBSET Short] : IsFold(g, Step, acc, data, n)
      BY <1>3
    <3>2. g = [s \in SUBSET (1 .. n) |-> turn(g, s)]
      BY <1>2, <1>4, <3>1 DEF IsFold
    <3> HIDE DEF turn
    <3> QED BY <3>2
  <2> HIDE DEF h
  <2>3. h \in [SUBSET (1 .. n) -> SUBSET Short]
    <3>1. \A s \in SUBSET (1 .. n) : turn(h, s) \in SUBSET Short
      BY AlwaysShort
    <3> HIDE DEF turn
    <3> QED BY <2>2, <3>1
  <2>4. IsFold(h, Step, acc, data, n)
    <3>1. \A s \in SUBSET (1 .. n) :
            turn(h, s) = IF s = {} THEN acc ELSE Step[<<h[less(s)], at(s)>>]
      BY <1>2, <1>4, <2>3
    <3> HIDE DEF turn
    <3> QED BY <2>2, <3>1 DEF IsFold
  <2>5. Registers([k \in 0 .. n |-> h[1 .. k]], acc, data)
    BY <2>3, <2>4, FoldRegisters
  <2> HIDE DEF n
  <2> QED BY <1>1, <2>1, <2>5
<1>6. \E t : Registers(t, Short, data) /\ Crc16Int(data) = t[n]
  <2> DEFINE turn(f, s) == IF s = {} THEN Short ELSE Crc16Step(f[less(s)], at(s))
             h == CHOOSE h : h = [s \in SUBSET (1 .. n) |-> turn(h, s)]
  <2>1. Crc16Int(data) = h[1 .. n] \cap Short
    BY <1>1 DEF Crc16Int, Seqs!FoldLeft, Seqs!MapThenFoldSet
  <2>2. h = [s \in SUBSET (1 .. n) |-> turn(h, s)]
    <3>1. PICK g \in [SUBSET (1 .. n) -> SUBSET Short] : IsFold(g, Step, Short, data, n)
      BY <1>3
    <3>2. g = [s \in SUBSET (1 .. n) |-> turn(g, s)]
      BY <1>2, <1>4, <3>1 DEF IsFold
    <3> HIDE DEF turn
    <3> QED BY <3>2
  <2> HIDE DEF h
  <2>3. h \in [SUBSET (1 .. n) -> SUBSET Short]
    <3>1. \A s \in SUBSET (1 .. n) : turn(h, s) \in SUBSET Short
      BY AlwaysShort
    <3> HIDE DEF turn
    <3> QED BY <2>2, <3>1
  <2>4. IsFold(h, Step, Short, data, n)
    <3>1. \A s \in SUBSET (1 .. n) :
            turn(h, s) = IF s = {} THEN Short ELSE Step[<<h[less(s)], at(s)>>]
      BY <1>2, <1>4, <2>3
    <3> HIDE DEF turn
    <3> QED BY <2>2, <3>1 DEF IsFold
  <2>5. Registers([k \in 0 .. n |-> h[1 .. k]], Short, data)
    BY <2>3, <2>4, FoldRegisters
  <2> HIDE DEF n
  <2> QED BY <1>1, <2>1, <2>5
<1>7. \E t : Registers(t, Short, data) /\ CcittRemainder(data) = t[n]
  <2> DEFINE turn(f, s) == IF s = {} THEN Short ELSE CcittStep(f[less(s)], at(s))
             h == CHOOSE h : h = [s \in SUBSET (1 .. n) |-> turn(h, s)]
  <2>1. CcittRemainder(data) = h[1 .. n]
    BY <1>1 DEF CcittRemainder, Seqs!FoldLeft, Seqs!MapThenFoldSet
  <2>2. h = [s \in SUBSET (1 .. n) |-> turn(h, s)]
    <3>1. PICK g \in [SUBSET (1 .. n) -> SUBSET Short] : IsFold(g, Step, Short, data, n)
      BY <1>3
    <3>2. g = [s \in SUBSET (1 .. n) |-> turn(g, s)]
      BY <1>2, <1>4, <3>1 DEF IsFold
    <3> HIDE DEF turn
    <3> QED BY <3>2
  <2> HIDE DEF h
  <2>3. h \in [SUBSET (1 .. n) -> SUBSET Short]
    <3>1. \A s \in SUBSET (1 .. n) : turn(h, s) \in SUBSET Short
      BY AlwaysShort
    <3> HIDE DEF turn
    <3> QED BY <2>2, <3>1
  <2>4. IsFold(h, Step, Short, data, n)
    <3>1. \A s \in SUBSET (1 .. n) :
            turn(h, s) = IF s = {} THEN Short ELSE Step[<<h[less(s)], at(s)>>]
      BY <1>2, <1>4, <2>3
    <3> HIDE DEF turn
    <3> QED BY <2>2, <3>1 DEF IsFold
  <2>5. Registers([k \in 0 .. n |-> h[1 .. k]], Short, data)
    BY <2>3, <2>4, FoldRegisters
  <2> HIDE DEF n
  <2> QED BY <1>1, <2>1, <2>5
<1> QED BY <1>5, <1>6, <1>7

-----------------------------------------------------------------------------
(* One wrong byte *)

\* Two lists that differ in their x-th byte at most have the same register
\* before it, and after it just if they do not differ.
LEMMA OneByteApart ==
  ASSUME NEW d \in Seq(Byte), NEW e \in Seq(Byte), NEW n \in Nat, Len(d) = n, Len(e) = n,
         NEW x \in Nat \ {0}, \A k \in 1 .. n : k # x => d[k] = e[k],
         NEW acc, NEW t, NEW u, Registers(t, acc, d), Registers(u, acc, e)
  PROVE  t[n] = u[n] <=> (n < x \/ d[x] = e[x])
<1> DEFINE Alike(k) == t[k] = u[k] <=> (k < x \/ d[x] = e[x])
           Done == {k \in Nat : k <= n => Alike(k)}
<1>1. \A k \in 1 .. n : d[k] \in 0 .. 255 /\ e[k] \in 0 .. 255
  <2>1. \A k \in 1 .. n : d[k] \in Byte /\ e[k] \in Byte
    OBVIOUS
  <2> QED BY <2>1 DEF Byte
<1>2. \A r, q \in SUBSET Short, b \in 0 .. 255 : CcittStep(r, b) = CcittStep(q, b) <=> r = q
  BY StepFacts
<1>3. \A r \in SUBSET Short, b, c \in 0 .. 255 : CcittStep(r, b) = CcittStep(r, c) <=> b = c
  BY StepFacts
<1>4. \A k \in 0 .. n : t[k] \in SUBSET Short /\ u[k] \in SUBSET Short
  BY DEF Registers
<1>5. \A k \in 1 .. n : t[k] = CcittStep(t[k - 1], d[k]) /\ u[k] = CcittStep(u[k - 1], e[k])
  BY DEF Registers
<1>6. t[0] = u[0] /\ 0 < x
  BY DEF Registers
<1>7. 0 \in Done
  BY <1>6
<1>8. ASSUME NEW k \in Done PROVE k + 1 \in Done
  <2> HIDE DEF Alike
  <2> SUFFICES ASSUME k + 1 <= n PROVE Alike(k + 1)
    OBVIOUS
  <2>1. k \in Nat /\ k \in 0 .. n /\ k + 1 \in 1 .. n /\ k + 1 \in 0 .. n /\ (k + 1) - 1 = k
        /\ Alike(k)
    OBVIOUS
  <2> HIDE DEF Done
  <2>2. PICK m \in 1 .. n : m = k + 1 /\ m - 1 = k /\ m \in 0 .. n
    BY <2>1
  <2>3. PICK r \in SUBSET Short, q \in SUBSET Short, b \in 0 .. 255, c \in 0 .. 255 :
          r = t[k] /\ q = u[k] /\ b = d[m] /\ c = e[m]
    BY <1>1, <1>4, <2>1, <2>2
  <2>4. t[m] = CcittStep(r, b) /\ u[m] = CcittStep(q, c)
    BY <1>5, <2>3, <2>2
  <2>5. CASE m = x
    <3>1. r = q
      BY <2>1, <2>3, <2>5, <2>2 DEF Alike
    <3>2. t[m] = u[m] <=> b = c
      <4>1. u[m] = CcittStep(r, c)
        BY <2>4, <3>1
      <4>2. CcittStep(r, b) = CcittStep(r, c) <=> b = c
        BY <1>3
      <4> QED BY <2>4, <4>1, <4>2
    <3> QED BY <2>1, <2>3, <2>5, <2>2, <3>2 DEF Alike
  <2>6. CASE m # x
    <3>1. b = c
      BY <2>3, <2>6, <2>2
    <3>2. t[m] = u[m] <=> r = q
      <4>1. u[m] = CcittStep(q, b)
        BY <2>4, <3>1
      <4>2. CcittStep(r, b) = CcittStep(q, b) <=> r = q
        BY <1>2
      <4> QED BY <2>4, <4>1, <4>2
    <3>3. k < x <=> m < x
      BY <2>1, <2>6, <2>2
    <3> QED BY <2>1, <2>3, <2>2, <3>2, <3>3 DEF Alike
  <2> QED BY <2>5, <2>6
<1>9. Done = Nat
  <2>1. Done \in SUBSET Nat
    OBVIOUS
  <2> HIDE DEF Done
  <2> QED BY <1>7, <1>8, <2>1, SetInduction
<1>10. n \in Done
  BY <1>9
<1> QED BY <1>10

\* Three ways to compute a sum.
LEMMA SumsAgree ==
  ASSUME NEW data \in Seq(Byte)
  PROVE  /\ Crc16Data(data, Short) = CcittRemainder(data)
         /\ Crc16Int(data) = CcittRemainder(data)
         /\ CcittRemainder(data) \in SUBSET Short
<1>1. PICK n \in Nat : n = Len(data)
  OBVIOUS
<1>2. Short \in SUBSET Short
  OBVIOUS
<1>3. PICK t : Registers(t, Short, data) /\ Crc16Data(data, Short) = t[n]
  BY <1>1, <1>2, SumsAreRegisters
<1>4. PICK u : Registers(u, Short, data) /\ Crc16Int(data) = u[n]
  BY <1>1, <1>2, SumsAreRegisters
<1>5. PICK v : Registers(v, Short, data) /\ CcittRemainder(data) = v[n]
  BY <1>1, <1>2, SumsAreRegisters
<1>6. n + 1 \in Nat \ {0} /\ n < n + 1 /\ \A k \in 1 .. n : k # n + 1 => data[k] = data[k]
  OBVIOUS
<1>7. t[n] = v[n] /\ u[n] = v[n]
  BY <1>1, <1>3, <1>4, <1>5, <1>6, OneByteApart
<1>8. v[n] \in SUBSET Short
  BY <1>1, <1>5 DEF Registers
<1> QED BY <1>3, <1>4, <1>5, <1>7, <1>8

\* One wrong byte makes another sum.
LEMMA SumsDiffer ==
  ASSUME NEW d \in Seq(Byte), NEW e \in Seq(Byte), Len(d) = Len(e),
         NEW x \in 1 .. Len(d), d[x] # e[x], \A k \in 1 .. Len(d) : k # x => d[k] = e[k]
  PROVE  Crc16Data(d, Short) # Crc16Data(e, Short)
<1>1. PICK n \in Nat : n = Len(d) /\ n = Len(e)
  OBVIOUS
<1>2. Short \in SUBSET Short
  OBVIOUS
<1>3. PICK t : Registers(t, Short, d) /\ Crc16Data(d, Short) = t[n]
  BY <1>1, <1>2, SumsAreRegisters
<1>4. PICK u : Registers(u, Short, e) /\ Crc16Data(e, Short) = u[n]
  BY <1>1, <1>2, SumsAreRegisters
<1>5. x \in Nat \ {0} /\ ~ (n < x)
  BY <1>1
<1>6. t[n] # u[n]
  BY <1>1, <1>3, <1>4, <1>5, OneByteApart
<1> QED BY <1>3, <1>4, <1>6

\* A short is two bytes, and each of them counts.
LEMMA TwoBytes ==
  /\ \A s \in SUBSET Short :
       \E lo, hi \in Byte : BytesLE(s) = <<lo, hi>> /\ FromBytesLE(lo, hi) = s
  /\ \A lo, hi \in Byte : FromBytesLE(lo, hi) \in SUBSET Short
                          /\ BytesLE(FromBytesLE(lo, hi)) = <<lo, hi>>
<1>1. ASSUME NEW lo \in Byte, NEW hi \in Byte
      PROVE  /\ FromBytesLE(lo, hi) \in SUBSET Short
             /\ BytesLE(FromBytesLE(lo, hi)) = <<lo, hi>>
  <2>1. /\ BitsOf(lo) \subseteq LowByte /\ ByteOf(BitsOf(lo)) = lo
        /\ BitsOf(hi) \subseteq LowByte /\ ByteOf(BitsOf(hi)) = hi
    BY ByteAndBits DEF Byte
  <2>2. PICK l \in SUBSET LowByte, h \in SUBSET LowByte : l = BitsOf(lo) /\ h = BitsOf(hi)
    BY <2>1
  <2>3. /\ Shift(h, 8, 16) \subseteq Short
        /\ \A b : b \in Shift(h, 8, 16) <=> b \in Short /\ b - 8 \in h
    BY DEF Shift, Short
  <2>4. Shift(h, 8, 16) \cap LowByte = {} /\ l \subseteq Short
    BY <2>3 DEF Short, LowByte
  <2>5. (l \cup Shift(h, 8, 16)) \cap LowByte = l
    BY <2>4
  <2>6. Shift(l \cup Shift(h, 8, 16), -8, 16) = h
    <3>1. \A b \in LowByte : b + 8 \in Short /\ b + 8 \notin l /\ (b + 8) - 8 = b /\ b \in Short
      BY DEF Short, LowByte
    <3>2. \A b \in Short \ LowByte : b + 8 \notin Short
      BY DEF Short, LowByte
    <3>3. \A b \in Short : b - (-8) = b + 8
      BY DEF Short
    <3>4. \A b \in Short : b + 8 \in l \cup Shift(h, 8, 16) <=> b \in h
      BY <2>3, <2>4, <3>1, <3>2
    <3>5. h \subseteq Short
      BY DEF Short, LowByte
    <3>6. PICK both : both = l \cup Shift(h, 8, 16)
      OBVIOUS
    <3>7. Shift(both, -8, 16) = {b \in Short : b - (-8) \in both}
      BY DEF Shift, Short
    <3>8. Shift(both, -8, 16) = {b \in Short : b \in h}
      BY <3>3, <3>4, <3>6, <3>7
    <3> QED BY <3>5, <3>6, <3>8
  <2> QED BY <2>1, <2>2, <2>4, <2>3, <2>5, <2>6 DEF FromBytesLE, BytesLE
<1>2. ASSUME NEW s \in SUBSET Short
      PROVE  \E lo, hi \in Byte : BytesLE(s) = <<lo, hi>> /\ FromBytesLE(lo, hi) = s
  <2>1. PICK l \in SUBSET LowByte : l = s \cap LowByte
    OBVIOUS
  <2>2. PICK h : h = Shift(s, -8, 16)
    OBVIOUS
  <2>3. h \in SUBSET LowByte /\ \A b \in LowByte : b \in h <=> b + 8 \in s
    BY <2>2 DEF Shift, Short, LowByte
  <2>4. PICK lo \in 0 .. 255, hi \in 0 .. 255 :
          lo = ByteOf(l) /\ hi = ByteOf(h) /\ BitsOf(lo) = l /\ BitsOf(hi) = h
    BY <2>3, ByteAndBits
  <2>5. BytesLE(s) = <<lo, hi>>
    BY <2>1, <2>2, <2>4 DEF BytesLE
  <2>6. l \cup Shift(h, 8, 16) = s
    <3>1. \A b \in Short : b \in Shift(h, 8, 16) <=> b - 8 \in h
      BY DEF Shift, Short
    <3>2. \A b \in LowByte : b - 8 \notin LowByte
      BY DEF LowByte
    <3>3. \A b \in Short \ LowByte : b - 8 \in LowByte /\ (b - 8) + 8 = b
      BY DEF Short, LowByte
    <3>4. \A b \in Short : b \in l \cup Shift(h, 8, 16) <=> b \in s
      BY <2>1, <2>3, <3>1, <3>2, <3>3
    <3>5. l \cup Shift(h, 8, 16) \subseteq Short
      <4>1. l \subseteq Short
        BY DEF Short, LowByte
      <4>2. Shift(h, 8, 16) \subseteq Short
        BY DEF Shift, Short
      <4> QED BY <4>1, <4>2
    <3> QED BY <3>4, <3>5
  <2> QED BY <2>4, <2>5, <2>6 DEF FromBytesLE, Byte
<1> QED BY <1>1, <1>2

-----------------------------------------------------------------------------
(* Lists of bytes *)

\* A list with another behind it.
LEMMA ConcatFacts ==
  ASSUME NEW S, NEW s \in Seq(S), NEW t \in Seq(S)
  PROVE  /\ s \o t \in Seq(S) /\ Len(s \o t) = Len(s) + Len(t)
         /\ \A k \in 1 .. Len(s) : (s \o t)[k] = s[k]
         /\ \A k \in 1 .. Len(t) : (s \o t)[Len(s) + k] = t[k]
<1>1. /\ s \o t \in Seq(S) /\ Len(s \o t) = Len(s) + Len(t)
      /\ \A k \in 1 .. Len(s) + Len(t) :
           (s \o t)[k] = IF k <= Len(s) THEN s[k] ELSE t[k - Len(s)]
  BY ConcatProperties
<1>2. PICK m \in Nat, n \in Nat : m = Len(s) /\ n = Len(t)
  OBVIOUS
<1>3. \A k \in 1 .. n : m + k \in 1 .. m + n /\ ~ (m + k <= m) /\ (m + k) - m = k
  OBVIOUS
<1>4. \A k \in 1 .. m : k \in 1 .. m + n /\ k <= m
  OBVIOUS
<1> QED BY <1>1, <1>2, <1>3, <1>4

\* The beginning and the end of a list.
LEMMA PartFacts ==
  ASSUME NEW S, NEW s \in Seq(S), NEW n \in Nat, Len(s) = n + 2
  PROVE  /\ SubSeq(s, 1, Len(s) - 2) \in Seq(S) /\ Len(SubSeq(s, 1, Len(s) - 2)) = n
         /\ \A k \in 1 .. n : SubSeq(s, 1, Len(s) - 2)[k] = s[k]
         /\ SubSeq(s, Len(s) - 1, Len(s)) = <<s[n + 1], s[n + 2]>>
<1>1. Len(s) - 2 = n /\ Len(s) - 1 = n + 1
  OBVIOUS
<1>2. /\ SubSeq(s, 1, n) \in Seq(S) /\ Len(SubSeq(s, 1, n)) = n
      /\ \A k \in 1 .. n : SubSeq(s, 1, n)[k] = s[k]
  <2>1. \A k \in 1 .. n : s[k] \in S
    OBVIOUS
  <2>2. SubSeq(s, 1, n) = [k \in 1 .. n |-> s[k]]
    BY SubSeqProperties
  <2> QED BY <2>1, <2>2
<1>3. SubSeq(s, n + 1, n + 2) = <<s[n + 1], s[n + 2]>>
  <2>1. PICK e : e = SubSeq(s, n + 1, n + 2)
    OBVIOUS
  <2>2. e \in Seq(S) /\ Len(e) = 2
    BY <2>1, SubSeqProperties
  <2>3. e[1] = s[n + 1] /\ e[2] = s[n + 2]
    <3>1. \A k \in 1 .. 2 : e[k] = s[(n + 1) + k - 1]
      BY <2>1, SubSeqProperties
    <3> QED BY <3>1
  <2>4. e = <<e[1], e[2]>>
    BY <2>2
  <2> QED BY <2>1, <2>4, <2>3
<1> QED BY <1>1, <1>2, <1>3

\* The bytes are accepted just if the last two are the sum of the others.
LEMMA CheckFacts ==
  ASSUME NEW bytes \in Seq(Byte), NEW n \in Nat, Len(bytes) = n + 2,
         NEW body, body = SubSeq(bytes, 1, Len(bytes) - 2)
  PROVE  /\ VerifyCrc(bytes) <=> CcittRemainder(body) = FromBytesLE(bytes[n + 1], bytes[n + 2])
         /\ ReceiveString(bytes) <=> VerifyCrc(bytes)
<1>1. body \in Seq(Byte) /\ bytes[n + 1] \in Byte /\ bytes[n + 2] \in Byte
  BY PartFacts
<1>2. Crc16Data(body, Short) = CcittRemainder(body) /\ Crc16Int(body) = CcittRemainder(body)
      /\ CcittRemainder(body) \in SUBSET Short
  BY <1>1, SumsAgree
<1>3. Len(bytes) - 1 = n + 1
  OBVIOUS
<1>4. VerifyCrc(bytes) <=> CcittRemainder(body) = FromBytesLE(bytes[n + 1], bytes[n + 2])
  BY <1>2, <1>3 DEF VerifyCrc
<1>5. ReceiveString(bytes) <=> BytesLE(CcittRemainder(body)) = <<bytes[n + 1], bytes[n + 2]>>
  <2>1. SubSeq(bytes, Len(bytes) - 1, Len(bytes)) = <<bytes[n + 1], bytes[n + 2]>>
    BY PartFacts
  <2>2. Crc16Calculate(body) = BytesLE(CcittRemainder(body))
    BY <1>2 DEF Crc16Calculate
  <2> QED BY <2>1, <2>2 DEF ReceiveString
<1>6. BytesLE(CcittRemainder(body)) = <<bytes[n + 1], bytes[n + 2]>>
        <=> CcittRemainder(body) = FromBytesLE(bytes[n + 1], bytes[n + 2])
  <2>1. PICK lo \in Byte, hi \in Byte : /\ BytesLE(CcittRemainder(body)) = <<lo, hi>>
                                        /\ FromBytesLE(lo, hi) = CcittRemainder(body)
    BY <1>2, TwoBytes
  <2>2. BytesLE(FromBytesLE(bytes[n + 1], bytes[n + 2])) = <<bytes[n + 1], bytes[n + 2]>>
    BY <1>1, TwoBytes
  <2>3. ASSUME BytesLE(CcittRemainder(body)) = <<bytes[n + 1], bytes[n + 2]>>
        PROVE  CcittRemainder(body) = FromBytesLE(bytes[n + 1], bytes[n + 2])
    BY <2>1, <2>3
  <2> QED BY <2>2, <2>3
<1> QED BY <1>4, <1>5, <1>6

\* What carries the sum of its bytes is accepted, and no longer when one byte
\* is wrong.
LEMMA SealHolds ==
  ASSUME NEW body \in Seq(Byte),
         NEW bytes, bytes = body \o BytesLE(CcittRemainder(body))
  PROVE  /\ bytes \in Seq(Byte) /\ Len(bytes) = Len(body) + 2
         /\ \A k \in 1 .. Len(body) : bytes[k] = body[k]
         /\ SubSeq(bytes, 1, Len(bytes) - 2) = body
         /\ VerifyCrc(bytes) /\ ReceiveString(bytes)
         /\ \A x \in DOMAIN bytes : \A byte \in Byte \ {bytes[x]} :
              LET wrong == [bytes EXCEPT ![x] = byte]
              IN  ~ VerifyCrc(wrong) /\ ~ ReceiveString(wrong)
<1>1. PICK n \in Nat : n = Len(body)
  OBVIOUS
<1>2. CcittRemainder(body) \in SUBSET Short
  BY SumsAgree
<1>3. PICK lo \in Byte, hi \in Byte : /\ BytesLE(CcittRemainder(body)) = <<lo, hi>>
                                      /\ FromBytesLE(lo, hi) = CcittRemainder(body)
  BY <1>2, TwoBytes
<1>4. /\ bytes \in Seq(Byte) /\ Len(bytes) = n + 2
      /\ \A k \in 1 .. n : bytes[k] = body[k]
      /\ bytes[n + 1] = lo /\ bytes[n + 2] = hi
  <2>1. PICK tail : tail = <<lo, hi>>
    OBVIOUS
  <2>2. tail \in Seq(Byte) /\ Len(tail) = 2 /\ tail[1] = lo /\ tail[2] = hi
    BY <2>1
  <2>3. 1 \in 1 .. 2 /\ 2 \in 1 .. 2
    OBVIOUS
  <2>4. bytes = body \o tail
    BY <1>3, <2>1
  <2>5. /\ bytes \in Seq(Byte) /\ Len(bytes) = Len(body) + Len(tail)
        /\ \A k \in 1 .. Len(body) : bytes[k] = body[k]
        /\ \A k \in 1 .. Len(tail) : bytes[Len(body) + k] = tail[k]
    <3>1. /\ body \o tail \in Seq(Byte) /\ Len(body \o tail) = Len(body) + Len(tail)
          /\ \A k \in 1 .. Len(body) : (body \o tail)[k] = body[k]
          /\ \A k \in 1 .. Len(tail) : (body \o tail)[Len(body) + k] = tail[k]
      BY ONLY <2>2, ConcatFacts, body \in Seq(Byte)
    <3> QED BY <2>4, <3>1
  <2> QED BY <1>1, <2>2, <2>3, <2>5
<1>5. SubSeq(bytes, 1, Len(bytes) - 2) = body
  <2>1. PICK b : b = SubSeq(bytes, 1, Len(bytes) - 2)
    OBVIOUS
  <2>2. b \in Seq(Byte) /\ Len(b) = n /\ \A k \in 1 .. n : b[k] = bytes[k]
    BY <1>4, <2>1, PartFacts
  <2> QED BY <1>1, <1>4, <2>2, <2>1
<1>6. VerifyCrc(bytes) /\ ReceiveString(bytes)
  BY <1>3, <1>4, <1>5, CheckFacts
<1>7. ASSUME NEW x \in DOMAIN bytes, NEW byte \in Byte \ {bytes[x]},
             NEW wrong, wrong = [bytes EXCEPT ![x] = byte]
      PROVE  ~ VerifyCrc(wrong) /\ ~ ReceiveString(wrong)
  <2>1. DOMAIN bytes = 1 .. n + 2 /\ bytes \in [1 .. n + 2 -> Byte]
    <3>1. bytes \in [1 .. Len(bytes) -> Byte]
      BY <1>4, LenProperties
    <3> QED BY <1>4, <3>1
  <2>2. wrong \in [1 .. n + 2 -> Byte]
    BY <1>7, <2>1
  <2>3. /\ wrong \in Seq(Byte) /\ Len(wrong) = n + 2 /\ x \in 1 .. n + 2
        /\ wrong[x] # bytes[x] /\ \A k \in 1 .. n + 2 : k # x => wrong[k] = bytes[k]
    <3>1. n + 2 \in Nat
      OBVIOUS
    <3>2. wrong \in Seq(Byte) /\ Len(wrong) = n + 2
      BY <2>2, <3>1
    <3> QED BY <1>7, <2>1, <3>2
  <2>4. PICK d : d = SubSeq(wrong, 1, Len(wrong) - 2)
    OBVIOUS
  <2>5. d \in Seq(Byte) /\ Len(d) = n /\ \A k \in 1 .. n : d[k] = wrong[k]
    BY <2>3, <2>4, PartFacts
  <2>6. wrong[n + 1] \in Byte /\ wrong[n + 2] \in Byte
    BY <2>3
  <2>7. CcittRemainder(d) # FromBytesLE(wrong[n + 1], wrong[n + 2])
    <3>1. CASE x \in 1 .. n
      <4>1. \A k \in 1 .. n : k \in 1 .. n + 2
        OBVIOUS
      <4>2. d[x] # body[x] /\ \A k \in 1 .. n : k # x => d[k] = body[k]
        BY <1>4, <2>3, <2>5, <3>1, <4>1
      <4>3. CcittRemainder(d) # CcittRemainder(body)
        BY <1>1, <2>5, <3>1, <4>2, SumsDiffer, SumsAgree
      <4>4. wrong[n + 1] = lo /\ wrong[n + 2] = hi
        <5>1. n + 1 \in 1 .. n + 2 /\ n + 2 \in 1 .. n + 2 /\ x # n + 1 /\ x # n + 2
          BY <3>1
        <5> QED BY <1>4, <2>3, <5>1
      <4> QED BY <1>3, <4>3, <4>4
    <3>2. CASE x \notin 1 .. n
      <4>1. \A k \in 1 .. n : k \in 1 .. n + 2 /\ k # x
        BY <3>2
      <4>2. \A k \in 1 .. n : d[k] = body[k]
        BY <1>4, <2>3, <2>5, <4>1
      <4>3. d = body
        BY <1>1, <2>5, <4>2
      <4>4. wrong[n + 1] # lo \/ wrong[n + 2] # hi
        <5>1. x = n + 1 \/ x = n + 2
          BY <2>3, <3>2
        <5> QED BY <1>4, <2>3, <5>1
      <4>5. BytesLE(FromBytesLE(wrong[n + 1], wrong[n + 2])) # BytesLE(FromBytesLE(lo, hi))
        BY <2>6, <4>4, TwoBytes
      <4> QED BY <1>3, <4>3, <4>5
    <3> QED BY <3>1, <3>2
  <2> QED BY <2>3, <2>4, <2>7, CheckFacts
<1> QED BY <1>1, <1>4, <1>5, <1>6, <1>7

\* Where in a row of pieces, each as long as the others, something is.
LEMMA Pieces ==
  ASSUME NEW P \in Nat \ {0}, NEW y \in Nat, NEW r \in 0 .. P - 1, NEW x, x = P * y + r
  PROVE  x \in Nat /\ x \div P = y /\ x % P = r
<1>1. P * y \in Nat /\ x \in Nat
  OBVIOUS
<1>2. x \div P = y
  BY <1>1
<1>3. x % P = r
  BY <1>1
<1> QED BY <1>1, <1>2, <1>3

LEMMA MoreTimes ==
  ASSUME NEW P \in Nat, NEW n \in Nat, NEW y \in Nat, n <= y
  PROVE  P * n \in Nat /\ P * y \in Nat /\ P * n <= P * y
<1>1. PICK d \in Nat : y = n + d
  <2>1. y - n \in Nat /\ y = n + (y - n)
    OBVIOUS
  <2> QED BY <2>1
<1>2. P * d \in Nat /\ P * n \in Nat /\ P * y = P * n + P * d
  BY <1>1
<1> QED BY <1>2

\* Every place in a row of n pieces is in one of them.
LEMMA PieceOf ==
  ASSUME NEW P \in Nat \ {0}, NEW n \in Nat, NEW x \in 1 .. P * n
  PROVE  \E y \in 0 .. n - 1, z \in 1 .. P : x = P * y + z
<1>1. P * n \in Nat /\ x - 1 \in Nat
  OBVIOUS
<1>2. PICK y \in Nat : y = (x - 1) \div P
  BY <1>1
<1>3. P * y <= x - 1 /\ x - 1 < P * y + P
  BY <1>1, <1>2
<1>4. y < n
  <2>1. SUFFICES ASSUME y >= n PROVE FALSE
    BY <1>2
  <2>2. P * n <= P * y
    BY <1>2, <2>1, MoreTimes
  <2> QED BY <1>1, <1>2, <1>3, <2>2
<1>5. PICK c \in Nat : c = P * y
  BY <1>2
<1>6. PICK z \in 1 .. P : x = c + z
  <2>1. x - c \in 1 .. P /\ x = c + (x - c)
    BY <1>3, <1>5
  <2> QED BY <2>1
<1>7. y \in 0 .. n - 1 /\ x = P * y + z
  BY <1>2, <1>4, <1>5, <1>6
<1> QED BY <1>6, <1>7

\* The first piece that is not there begins where the others end.
LEMMA PieceFits ==
  ASSUME NEW P \in Nat \ {0}, NEW n \in Nat, NEW y \in 0 .. n - 1, NEW z \in 1 .. P
  PROVE  P * y + z \in 1 .. P * n
<1>1. P * y + P <= P * n
  <2>1. y + 1 <= n /\ y + 1 \in Nat /\ y \in Nat
    OBVIOUS
  <2>2. P * (y + 1) <= P * n
    BY <2>1, MoreTimes
  <2>3. P * (y + 1) = P * y + P
    BY <2>1
  <2> QED BY <2>2, <2>3
<1>2. P * y \in Nat /\ P * n \in Nat
  OBVIOUS
<1> QED BY <1>1, <1>2

\* What memcpy takes.
LEMMA CopiedFacts ==
  ASSUME NEW S, NEW s \in Seq(S), NEW offset \in Nat, NEW n \in Nat, offset + n <= Len(s)
  PROVE  /\ Copied(s, offset, n) \in Seq(S) /\ Len(Copied(s, offset, n)) = n
         /\ \A k \in 1 .. n : Copied(s, offset, n)[k] = s[offset + k]
<1>1. PICK m \in Nat, l \in Nat : m = offset + 1 /\ l = offset + n
  OBVIOUS
<1>2. \A i \in m .. l : s[i] \in S
  BY <1>1
<1>3. /\ SubSeq(s, m, l) \in Seq(S)
      /\ Len(SubSeq(s, m, l)) = IF m <= l THEN l - m + 1 ELSE 0
      /\ \A i \in 1 .. l - m + 1 : SubSeq(s, m, l)[i] = s[m + i - 1]
  BY <1>2, SubSeqProperties
<1>4. /\ l - m + 1 = n /\ (IF m <= l THEN l - m + 1 ELSE 0) = n
      /\ \A k \in 1 .. n : m + k - 1 = offset + k
  BY <1>1
<1> QED BY <1>1, <1>3, <1>4 DEF Copied

\* One key, as bytes.
LEMMA EntityFacts ==
  ASSUME NEW prologue \in Byte, NEW n \in Names, NEW kind \in {"pairwise", "cluster"}
  PROVE  LET e == Entity(prologue, n, KeyOf[<<kind, n>>])
         IN  /\ e \in Seq(Byte) /\ Len(e) = EntitySize
             /\ e[1] = prologue /\ ShortLE(e[2], e[3]) = StoredAddress(n)
             /\ Copied(e, 3, KeyLen) = KeyOf[<<kind, n>>]
<1>1. PICK e : e = Entity(prologue, n, KeyOf[<<kind, n>>])
  OBVIOUS
<1>2. PICK key : key = KeyOf[<<kind, n>>]
  OBVIOUS
<1>3. key \in [1 .. KeyLen -> Byte] /\ KeyLen \in Nat \ {0}
  BY <1>2, WireAssumption DEF Byte
<1>4. key \in Seq(Byte) /\ Len(key) = KeyLen
  BY <1>3
<1>5. PICK a : a = TransformTo16Bit(n)
  OBVIOUS
<1>6. Low(n[1]) \in Byte /\ Low(n[2]) \in Byte
  BY NamesAssumption DEF Low, Byte
<1>7. a \in Seq(Byte) /\ Len(a) = 2 /\ StoredAddress(n) = ShortLE(a[1], a[2])
  BY <1>5, <1>6 DEF TransformTo16Bit, StoredAddress
<1>8. PICK h : h = <<prologue>>
  OBVIOUS
<1>9. h \in Seq(Byte) /\ Len(h) = 1 /\ h[1] = prologue
  BY <1>8
<1>10. PICK ha : ha = h \o a
  OBVIOUS
<1>11. ha \in Seq(Byte) /\ Len(ha) = 3 /\ ha[1] = prologue /\ ha[2] = a[1] /\ ha[3] = a[2]
  <2>1. /\ ha \in Seq(Byte) /\ Len(ha) = Len(h) + Len(a)
        /\ \A k \in 1 .. Len(h) : ha[k] = h[k]
        /\ \A k \in 1 .. Len(a) : ha[Len(h) + k] = a[k]
    <3>1. h \in Seq(Byte) /\ a \in Seq(Byte)
      BY <1>7, <1>9
    <3> QED BY ONLY <1>10, <3>1, ConcatFacts
  <2>2. 1 \in 1 .. Len(h) /\ 1 \in 1 .. Len(a) /\ 2 \in 1 .. Len(a)
    BY <1>7, <1>9
  <2> QED BY <1>7, <1>9, <2>1, <2>2
<1>12. e = ha \o key
  BY <1>2, <1>5, <1>8, <1>10, <1>1 DEF Entity
<1>13. /\ e \in Seq(Byte) /\ Len(e) = 3 + KeyLen
       /\ \A k \in 1 .. 3 : e[k] = ha[k]
       /\ \A k \in 1 .. KeyLen : e[3 + k] = key[k]
  <2>1. ha \in Seq(Byte) /\ key \in Seq(Byte)
    BY <1>4, <1>11
  <2>2. /\ e \in Seq(Byte) /\ Len(e) = Len(ha) + Len(key)
        /\ \A k \in 1 .. Len(ha) : e[k] = ha[k]
        /\ \A k \in 1 .. Len(key) : e[Len(ha) + k] = key[k]
    BY ONLY <1>12, <2>1, ConcatFacts
  <2> QED BY <1>4, <1>11, <2>2
<1>14. Copied(e, 3, KeyLen) = key
  <2>1. PICK c : c = Copied(e, 3, KeyLen)
    OBVIOUS
  <2>2. c \in Seq(Byte) /\ Len(c) = KeyLen /\ \A k \in 1 .. KeyLen : c[k] = e[3 + k]
    <3>1. KeyLen \in Nat /\ 3 \in Nat /\ 3 + KeyLen <= Len(e)
      BY <1>3, <1>13
    <3>2. e \in Seq(Byte)
      BY <1>13
    <3>3. /\ Copied(e, 3, KeyLen) \in Seq(Byte) /\ Len(Copied(e, 3, KeyLen)) = KeyLen
          /\ \A k \in 1 .. KeyLen : Copied(e, 3, KeyLen)[k] = e[3 + k]
      BY ONLY <3>1, <3>2, CopiedFacts
    <3> QED BY <2>1, <3>3
  <2>3. \A k \in 1 .. KeyLen : c[k] = key[k]
    BY <1>13, <2>2
  <2>4. c = key
    BY <1>4, <2>2, <2>3
  <2> QED BY <2>1, <2>4
<1> QED BY <1>2, <1>3, <1>7, <1>11, <1>13, <1>14, <1>1 DEF EntitySize

-----------------------------------------------------------------------------
(* Messages *)

\* The header comes apart as it was put together.
LEMMA HeaderRead ==
  ASSUME NEW type \in {"basic", "extended"}, NEW header,
         header.seq \in 0 .. 7, header.rem \in 0 .. 7,
         NEW bytes, bytes[1] = HeaderByte(type, header)
  PROVE  /\ bytes[1] \in Byte
         /\ HeaderOf(bytes) = [seq |-> header.seq, rem |-> header.rem]
         /\ MessageType(bytes) = IF type = "basic" THEN 0 ELSE 1
<1>1. \A x \in 0 .. 7 : BitsOf(x) \subseteq 0 .. 2 /\ ByteOf(BitsOf(x)) = x
  <2> SUFFICES ASSUME NEW x \in 0 .. 7 PROVE BitsOf(x) \subseteq 0 .. 2 /\ ByteOf(BitsOf(x)) = x
    OBVIOUS
  <2>1. x \in 0 .. 255
    OBVIOUS
  <2>2. x \div 8 = 0 /\ x \div 16 = 0 /\ x \div 32 = 0 /\ x \div 64 = 0 /\ x \div 128 = 0
    OBVIOUS
  <2>3. 3 \notin BitsOf(x) /\ 4 \notin BitsOf(x) /\ 5 \notin BitsOf(x) /\ 6 \notin BitsOf(x)
        /\ 7 \notin BitsOf(x)
    BY <2>1, <2>2, BitsOfByte
  <2>4. BitsOf(x) \subseteq LowByte /\ ByteOf(BitsOf(x)) = x
    BY <2>1, ByteAndBits
  <2> QED BY <2>3, <2>4 DEF LowByte
<1>2. PICK s \in SUBSET (0 .. 2), r \in SUBSET (0 .. 2), t \in SUBSET {6} :
        /\ s = BitsOf(header.seq) /\ r = BitsOf(header.rem)
        /\ t = IF type = "basic" THEN {} ELSE {6}
  BY <1>1
<1>3. PICK h : h = t \cup Shift(s, 3, 8) \cup r
  OBVIOUS
<1>4. /\ h \in SUBSET LowByte
      /\ \A b \in 0 .. 2 : b \in h <=> b \in r
      /\ \A b \in 3 .. 5 : b \in h <=> b - 3 \in s
      /\ 6 \in h <=> type # "basic"
      /\ 7 \notin h
  <2>1. \A b : b \in Shift(s, 3, 8) <=> b \in 3 .. 5 /\ b - 3 \in s
    <3>1. \A b \in 0 .. 7 : b - 3 \in 0 .. 2 <=> b \in 3 .. 5
      OBVIOUS
    <3>2. Shift(s, 3, 8) = {b \in 0 .. 7 : b - 3 \in s}
      BY DEF Shift
    <3>3. \A b \in 3 .. 5 : b \in 0 .. 7
      OBVIOUS
    <3> QED BY <3>1, <3>2, <3>3
  <2>2. h \in SUBSET LowByte
    <3>1. \A b \in 3 .. 5 : b \in LowByte
      BY DEF LowByte
    <3>2. \A b \in 0 .. 2 : b \in LowByte
      BY DEF LowByte
    <3>3. 6 \in LowByte
      BY DEF LowByte
    <3> QED BY <1>2, <1>3, <2>1, <3>1, <3>2, <3>3
  <2>3. \A b \in 0 .. 2 : b \notin 3 .. 5 /\ b # 6
    OBVIOUS
  <2>4. \A b \in 3 .. 5 : b \notin 0 .. 2 /\ b # 6
    OBVIOUS
  <2>5. 6 \notin 0 .. 2 /\ 6 \notin 3 .. 5 /\ 7 \notin 0 .. 2 /\ 7 \notin 3 .. 5 /\ 7 # 6
    OBVIOUS
  <2>6. 6 \in t <=> type # "basic"
    BY <1>2
  <2> QED BY <1>3, <2>1, <2>2, <2>3, <2>4, <2>5, <2>6
<1>5. bytes[1] = ByteOf(h)
  BY <1>2, <1>3 DEF HeaderByte
<1>6. bytes[1] \in Byte /\ BitsOf(bytes[1]) = h
  BY <1>4, <1>5, ByteAndBits DEF Byte
<1>7. Shift(h, -3, 8) \cap 0 .. 2 = s
  <2>1. \A b \in 0 .. 2 : b \in Shift(h, -3, 8) <=> b + 3 \in h
    BY DEF Shift
  <2>2. \A b \in 0 .. 2 : b + 3 \in 3 .. 5 /\ (b + 3) - 3 = b
    OBVIOUS
  <2>3. \A b \in 0 .. 2 : b \in Shift(h, -3, 8) <=> b \in s
    BY <1>4, <2>1, <2>2
  <2> QED BY <1>2, <2>3
<1>8. h \cap 0 .. 2 = r
  BY <1>2, <1>4
<1>9. Shift(h, -6, 8) = IF type = "basic" THEN {} ELSE {0}
  <2>1. \A b \in 0 .. 7 : b \in Shift(h, -6, 8) <=> b + 6 \in h
    BY DEF Shift
  <2>2. Shift(h, -6, 8) \subseteq 0 .. 7
    BY DEF Shift
  <2>3. \A b \in 0 .. 7 : b = 0 \/ b + 6 = 7 \/ b + 6 \notin LowByte
    BY DEF LowByte
  <2>4. \A b \in 0 .. 7 : b \in Shift(h, -6, 8) <=> b = 0 /\ type # "basic"
    BY <1>4, <2>1, <2>3
  <2> QED BY <2>2, <2>4
<1>10. ByteOf({}) = 0 /\ ByteOf({0}) = 1
  BY ByteOfBits DEF Bit
<1>11. HeaderOf(bytes) = [seq |-> ByteOf(s), rem |-> ByteOf(r)]
  BY <1>6, <1>7, <1>8 DEF HeaderOf
<1>12. ByteOf(s) = header.seq /\ ByteOf(r) = header.rem
  BY <1>1, <1>2
<1>13. MessageType(bytes) = IF type = "basic" THEN 0 ELSE 1
  BY <1>6, <1>9, <1>10 DEF MessageType
<1> QED BY <1>6, <1>11, <1>12, <1>13

\* The keys of one kind, one after the other.
LEMMA EntitiesFacts ==
  ASSUME NEW prologue \in Byte, NEW kind \in {"pairwise", "cluster"}, NEW names \in Seq(Names)
  PROVE  LET row == Entities(prologue, kind, names)
         IN  /\ row \in Seq(Byte) /\ Len(row) = EntitySize * Len(names)
             /\ \A y \in 0 .. Len(names) - 1, z \in 1 .. EntitySize :
                  /\ EntitySize * y + z \in 1 .. Len(row)
                  /\ row[EntitySize * y + z]
                       = Entity(prologue, names[y + 1], KeyOf[<<kind, names[y + 1]>>])[z]
<1>1. PICK row : row = Entities(prologue, kind, names)
  OBVIOUS
<1>2. PICK size \in Nat \ {0}, n \in Nat : size = EntitySize /\ n = Len(names)
  <2>1. EntitySize \in Nat \ {0}
    BY WireAssumption DEF EntitySize
  <2> QED BY <2>1
<1>3. PICK l \in Nat : l = size * n
  BY <1>2
<1> DEFINE entity(m) == Entity(prologue, m, KeyOf[<<kind, m>>])
           piece(x) == entity(names[1 + (x - 1) \div size])[1 + ((x - 1) % size)]
<1>4. row = [x \in 1 .. l |-> piece(x)]
  BY <1>2, <1>3, <1>1 DEF Entities
<1>5. \A m \in Names : entity(m) \in Seq(Byte) /\ Len(entity(m)) = size
  <2> SUFFICES ASSUME NEW m \in Names
               PROVE  entity(m) \in Seq(Byte) /\ Len(entity(m)) = size
    OBVIOUS
  <2>1. PICK e : e = entity(m)
    OBVIOUS
  <2>2. e = Entity(prologue, m, KeyOf[<<kind, m>>])
    BY <2>1
  <2>3. e \in Seq(Byte) /\ Len(e) = EntitySize
    <3>1. /\ Entity(prologue, m, KeyOf[<<kind, m>>]) \in Seq(Byte)
          /\ Len(Entity(prologue, m, KeyOf[<<kind, m>>])) = EntitySize
      BY EntityFacts
    <3> QED BY <2>2, <3>1
  <2> QED BY <1>2, <2>1, <2>3
<1> HIDE DEF entity
<1>6. ASSUME NEW y \in 0 .. n - 1, NEW z \in 1 .. size
      PROVE  /\ size * y + z \in 1 .. l
             /\ piece(size * y + z) = entity(names[y + 1])[z]
             /\ piece(size * y + z) \in Byte
  <2>1. size * y + z \in 1 .. l
    BY <1>3, PieceFits
  <2>2. PICK x \in Nat, r \in 0 .. size - 1 :
          x = size * y + r /\ r = z - 1 /\ size * y + z = x + 1
    <3>1. size * y \in Nat /\ z - 1 \in 0 .. size - 1 /\ size * y + (z - 1) \in Nat
          /\ size * y + z = (size * y + (z - 1)) + 1
      OBVIOUS
    <3> QED BY <3>1
  <2>3. x \div size = y /\ x % size = r
    <3>1. y \in Nat
      BY <1>2
    <3>2. \A p \in Nat \ {0} : \A q \in Nat : \A w \in 0 .. p - 1 :
            (p * q + w) \div p = q /\ (p * q + w) % p = w
      BY Pieces
    <3>3. (size * y + r) \div size = y /\ (size * y + r) % size = r
      BY ONLY <3>1, <3>2, size \in Nat \ {0}, r \in 0 .. size - 1
    <3> QED BY <2>2, <3>3
  <2>4. (size * y + z) - 1 = x /\ 1 + r = z /\ 1 + y = y + 1
    BY <2>2
  <2>5. piece(size * y + z) = entity(names[y + 1])[z]
    BY <2>3, <2>4
  <2>6. names[y + 1] \in Names
    BY <1>2
  <2>7. entity(names[y + 1])[z] \in Byte
    BY <1>5, <2>6
  <2> QED BY <2>1, <2>5, <2>7
<1> HIDE DEF piece
<1>7. \A x \in 1 .. l : piece(x) \in Byte
  <2> SUFFICES ASSUME NEW x \in 1 .. l PROVE piece(x) \in Byte
    OBVIOUS
  <2>1. PICK y \in 0 .. n - 1, z \in 1 .. size : x = size * y + z
    BY <1>3, PieceOf
  <2> QED BY <1>6, <2>1
<1>8. row \in [1 .. l -> Byte]
  BY <1>4, <1>7
<1>9. row \in Seq(Byte) /\ Len(row) = l
  BY <1>8
<1>10. \A y \in 0 .. n - 1, z \in 1 .. size :
         size * y + z \in 1 .. l /\ row[size * y + z] = entity(names[y + 1])[z]
  BY <1>4, <1>6
<1> QED BY <1>2, <1>3, <1>9, <1>10, <1>1 DEF entity

\* What generateMessage puts between the header and the checksum.
Keys(msg) ==
  IF msg.type = "basic" THEN OwnKeys["ik"] \o OwnKeys["gk"] \o OwnKeys["ck"]
  ELSE Entities(98, "cluster", Seqs!SetToSeq(msg.cluster))
         \o Entities(97, "pairwise", Seqs!SetToSeq(msg.pairwise))

\* The bytes of a message, around its keys.
LEMMA MessageOnWire ==
  ASSUME NEW msg, NEW p, NEW size, NEW keys \in Seq(Byte), keys = Keys(msg),
         NEW header, header = GenerateHeader(p, size),
         msg.type \in {"basic", "extended"}, header.seq \in 0 .. 7, header.rem \in 0 .. 7
  PROVE  LET bytes == GenerateMessage(msg, p, size)
             body == SubSeq(bytes, 1, Len(bytes) - 2)
         IN  /\ bytes \in Seq(Byte) /\ Len(bytes) = Len(keys) + 3
             /\ \A k \in 1 .. Len(keys) : bytes[1 + k] = keys[k]
             /\ body \in Seq(Byte) /\ VerifyCrc(bytes)
             /\ \A x \in DOMAIN bytes : \A byte \in Byte \ {bytes[x]} :
                  ~ VerifyCrc([bytes EXCEPT ![x] = byte])
             /\ HeaderOf(bytes) = [seq |-> header.seq, rem |-> header.rem]
             /\ MessageType(bytes) = IF msg.type = "basic" THEN 0 ELSE 1
<1>1. PICK h : h = <<HeaderByte(msg.type, header)>>
  OBVIOUS
<1>2. h \in Seq(Byte) /\ Len(h) = 1 /\ h[1] = HeaderByte(msg.type, header)
  <2>1. h[1] \in Byte
    BY <1>1, HeaderRead
  <2> QED BY <1>1, <2>1
<1>3. PICK body : body = h \o keys
  OBVIOUS
<1>4. /\ body \in Seq(Byte) /\ Len(body) = 1 + Len(keys)
      /\ body[1] = h[1] /\ \A k \in 1 .. Len(keys) : body[1 + k] = keys[k]
  <2>1. /\ h \o keys \in Seq(Byte) /\ Len(h \o keys) = Len(h) + Len(keys)
        /\ \A k \in 1 .. Len(h) : (h \o keys)[k] = h[k]
        /\ \A k \in 1 .. Len(keys) : (h \o keys)[Len(h) + k] = keys[k]
    <3>1. h \in Seq(Byte) /\ keys \in Seq(Byte)
      BY <1>2
    <3> QED BY ONLY <3>1, ConcatFacts
  <2>2. 1 \in 1 .. Len(h)
    BY <1>2
  <2> QED BY <1>2, <1>3, <2>1, <2>2
<1>5. PICK bytes : bytes = GenerateMessage(msg, p, size)
  OBVIOUS
<1>6. bytes = body \o BytesLE(CcittRemainder(body))
  <2>1. Crc16Calculate(body) = BytesLE(CcittRemainder(body))
    BY <1>4, SumsAgree DEF Crc16Calculate
  <2>2. bytes = Sealed(body)
    BY <1>1, <1>3, <1>5 DEF GenerateMessage, Keys
  <2> QED BY <2>1, <2>2 DEF Sealed
<1>7. /\ bytes \in Seq(Byte) /\ Len(bytes) = Len(body) + 2
      /\ \A k \in 1 .. Len(body) : bytes[k] = body[k]
      /\ SubSeq(bytes, 1, Len(bytes) - 2) = body
      /\ VerifyCrc(bytes)
      /\ \A x \in DOMAIN bytes : \A byte \in Byte \ {bytes[x]} :
           ~ VerifyCrc([bytes EXCEPT ![x] = byte])
  <2>1. body \in Seq(Byte)
    BY <1>4
  <2> QED BY ONLY <1>6, <2>1, SealHolds
<1>8. PICK n \in Nat : n = Len(keys)
  OBVIOUS
<1>9. /\ Len(body) = 1 + n /\ 1 \in 1 .. 1 + n /\ \A k \in 1 .. n : 1 + k \in 1 .. 1 + n
  BY <1>4, <1>8
<1>10. bytes[1] = HeaderByte(msg.type, header) /\ \A k \in 1 .. n : bytes[1 + k] = keys[k]
  BY <1>2, <1>4, <1>7, <1>8, <1>9
<1>11. /\ HeaderOf(bytes) = [seq |-> header.seq, rem |-> header.rem]
       /\ MessageType(bytes) = IF msg.type = "basic" THEN 0 ELSE 1
  BY <1>10, HeaderRead
<1> QED BY <1>4, <1>5, <1>7, <1>8, <1>9, <1>10, <1>11

\* A copy of bytes that are known.
LEMMA CopiedIs ==
  ASSUME NEW S, NEW s \in Seq(S), NEW offset \in Nat, NEW n \in Nat, offset + n <= Len(s),
         NEW t \in Seq(S), Len(t) = n, \A k \in 1 .. n : s[offset + k] = t[k]
  PROVE  Copied(s, offset, n) = t
<1>1. /\ Copied(s, offset, n) \in Seq(S) /\ Len(Copied(s, offset, n)) = n
      /\ \A k \in 1 .. n : Copied(s, offset, n)[k] = s[offset + k]
  BY ONLY s \in Seq(S), offset \in Nat, n \in Nat, offset + n <= Len(s), CopiedFacts
<1>2. PICK c : c = Copied(s, offset, n)
  OBVIOUS
<1> QED BY <1>1, <1>2

\* The node's own three keys arrive.
LEMMA BasicRead ==
  ASSUME NEW keys, keys = OwnKeys["ik"] \o OwnKeys["gk"] \o OwnKeys["ck"]
  PROVE  /\ keys \in Seq(Byte)
         /\ \A bytes \in Seq(Byte) :
              Len(bytes) = Len(keys) + 3 /\ (\A k \in 1 .. Len(keys) : bytes[1 + k] = keys[k])
                => ParseBasicMessage(bytes) = OwnKeys
<1>1. PICK n \in Nat : n = KeyLen
  BY WireAssumption
<1>2. PICK ik, gk, ck : ik = OwnKeys["ik"] /\ gk = OwnKeys["gk"] /\ ck = OwnKeys["ck"]
  OBVIOUS
<1>3. /\ ik \in [1 .. n -> Byte] /\ gk \in [1 .. n -> Byte] /\ ck \in [1 .. n -> Byte]
      /\ OwnKeys = [ik |-> ik, gk |-> gk, ck |-> ck]
  BY <1>1, <1>2, WireAssumption DEF Byte
<1>4. /\ ik \in Seq(Byte) /\ gk \in Seq(Byte) /\ ck \in Seq(Byte)
      /\ Len(ik) = n /\ Len(gk) = n /\ Len(ck) = n
  BY <1>3
<1>5. PICK two : two = ik \o gk
  OBVIOUS
<1>6. /\ two \in Seq(Byte) /\ Len(two) = n + n
      /\ \A k \in 1 .. n : two[k] = ik[k] /\ two[n + k] = gk[k]
  <2>1. /\ ik \o gk \in Seq(Byte) /\ Len(ik \o gk) = Len(ik) + Len(gk)
        /\ \A k \in 1 .. Len(ik) : (ik \o gk)[k] = ik[k]
        /\ \A k \in 1 .. Len(gk) : (ik \o gk)[Len(ik) + k] = gk[k]
    <3>1. ik \in Seq(Byte) /\ gk \in Seq(Byte)
      BY <1>4
    <3> QED BY ONLY <3>1, ConcatFacts
  <2> QED BY <1>4, <1>5, <2>1
<1>7. /\ keys \in Seq(Byte) /\ Len(keys) = n + n + n
      /\ \A k \in 1 .. n : keys[k] = ik[k] /\ keys[n + k] = gk[k] /\ keys[n + n + k] = ck[k]
  <2>1. /\ two \o ck \in Seq(Byte) /\ Len(two \o ck) = Len(two) + Len(ck)
        /\ \A k \in 1 .. Len(two) : (two \o ck)[k] = two[k]
        /\ \A k \in 1 .. Len(ck) : (two \o ck)[Len(two) + k] = ck[k]
    <3>1. two \in Seq(Byte) /\ ck \in Seq(Byte)
      BY <1>4, <1>6
    <3> QED BY ONLY <3>1, ConcatFacts
  <2>2. keys = two \o ck
    BY <1>2, <1>5
  <2>3. \A k \in 1 .. n : k \in 1 .. n + n /\ n + k \in 1 .. n + n
    OBVIOUS
  <2> QED BY <1>4, <1>6, <2>1, <2>2, <2>3
<1>8. ASSUME NEW bytes \in Seq(Byte), Len(bytes) = Len(keys) + 3,
             \A k \in 1 .. Len(keys) : bytes[1 + k] = keys[k]
      PROVE  ParseBasicMessage(bytes) = OwnKeys
  <2>1. Len(bytes) = n + n + n + 3 /\ \A k \in 1 .. n + n + n : bytes[1 + k] = keys[k]
    BY <1>7, <1>8
  <2>2. ASSUME NEW offset \in 0 .. n + n, NEW key \in [1 .. n -> Byte],
               \A k \in 1 .. n : keys[offset + k] = key[k]
        PROVE  Copied(bytes, 1 + offset, n) = key
    <3>1. PICK from \in Nat : from = 1 + offset /\ from + n <= Len(bytes)
      BY <2>1
    <3>2. \A k \in 1 .. n : offset + k \in 1 .. n + n + n /\ from + k = 1 + (offset + k)
      BY <3>1
    <3>3. \A k \in 1 .. n : bytes[from + k] = key[k]
      BY <2>1, <2>2, <3>2
    <3>4. key \in Seq(Byte) /\ Len(key) = n
      OBVIOUS
    <3>5. Copied(bytes, from, n) = key
      <4>1. bytes \in Seq(Byte) /\ from \in Nat /\ n \in Nat /\ from + n <= Len(bytes)
        BY <3>1
      <4> QED BY ONLY <3>3, <3>4, <4>1, CopiedIs
    <3> QED BY <3>1, <3>5
  <2>3. Copied(bytes, 1 + 0, n) = ik
    <3>1. \A k \in 1 .. n : 0 + k = k
      OBVIOUS
    <3>2. 0 \in 0 .. n + n
      OBVIOUS
    <3>3. \A k \in 1 .. n : keys[0 + k] = ik[k]
      BY <1>7, <3>1
    <3> QED BY <1>3, <2>2, <3>2, <3>3
  <2>4. Copied(bytes, 1 + n, n) = gk
    <3>1. n \in 0 .. n + n
      OBVIOUS
    <3> QED BY <1>3, <1>7, <2>2, <3>1
  <2>5. Copied(bytes, 1 + (n + n), n) = ck
    <3>1. n + n \in 0 .. n + n
      OBVIOUS
    <3> QED BY <1>3, <1>7, <2>2, <3>1
  <2>6. 1 + 0 = 1 /\ 1 + (n + n) = 1 + 2 * n
    OBVIOUS
  <2> QED BY <1>1, <1>3, <2>3, <2>4, <2>5, <2>6 DEF ParseBasicMessage
<1> QED BY <1>7, <1>8

\* What parse_extended_message inserts for these names.
Stored(kind, names) == {[address |-> StoredAddress(n), key |-> KeyOf[<<kind, n>>]] : n \in names}

\* The keys of the neighbours arrive.
LEMMA ExtendedRead ==
  ASSUME NEW P \in SUBSET Names, NEW C \in SUBSET Names, IsFiniteSet(P), IsFiniteSet(C)
  PROVE  LET keys == Entities(98, "cluster", Seqs!SetToSeq(C))
                       \o Entities(97, "pairwise", Seqs!SetToSeq(P))
         IN  /\ keys \in Seq(Byte)
             /\ \A bytes \in Seq(Byte) :
                  /\ Len(bytes) = Len(keys) + 3
                  /\ \A k \in 1 .. Len(keys) : bytes[1 + k] = keys[k]
                  => ParseExtendedMessage(bytes)
                       = [pairwise |-> Stored("pairwise", P), cluster |-> Stored("cluster", C)]
<1>1. PICK keys : keys = Entities(98, "cluster", Seqs!SetToSeq(C))
                          \o Entities(97, "pairwise", Seqs!SetToSeq(P))
  OBVIOUS
<1>2. PICK ps, cs : ps = Seqs!SetToSeq(P) /\ cs = Seqs!SetToSeq(C)
  OBVIOUS
<1>3. /\ ps \in Seq(Names) /\ {ps[k] : k \in 1 .. Len(ps)} = P
      /\ cs \in Seq(Names) /\ {cs[k] : k \in 1 .. Len(cs)} = C
  <2>1. ps \in Seq(P) /\ Elements(ps) = P /\ cs \in Seq(C) /\ Elements(cs) = C
    <3>1. /\ Seqs!SetToSeq(P) \in Seq(P) /\ Elements(Seqs!SetToSeq(P)) = P
          /\ Seqs!SetToSeq(C) \in Seq(C) /\ Elements(Seqs!SetToSeq(C)) = C
      BY SetToList
    <3> QED BY <1>2, <3>1
  <2> QED BY <2>1 DEF Elements
<1>4. PICK size \in Nat \ {0}, p \in Nat, c \in Nat :
        size = EntitySize /\ p = Len(ps) /\ c = Len(cs)
  <2>1. EntitySize \in Nat \ {0}
    BY WireAssumption DEF EntitySize
  <2>2. Len(ps) \in Nat /\ Len(cs) \in Nat
    BY <1>3
  <2> QED BY <2>1, <2>2
<1>5. PICK P97, C98 : P97 = Entities(97, "pairwise", ps) /\ C98 = Entities(98, "cluster", cs)
  OBVIOUS
<1> DEFINE Pair(n) == Entity(97, n, KeyOf[<<"pairwise", n>>])
           Clus(n) == Entity(98, n, KeyOf[<<"cluster", n>>])
<1>6. /\ P97 \in Seq(Byte) /\ Len(P97) = size * p
      /\ \A y \in 0 .. p - 1, z \in 1 .. size :
           size * y + z \in 1 .. size * p /\ P97[size * y + z] = Pair(ps[y + 1])[z]
  <2>1. 97 \in Byte /\ "pairwise" \in {"pairwise", "cluster"} /\ ps \in Seq(Names)
    BY <1>3 DEF Byte
  <2>2. /\ Entities(97, "pairwise", ps) \in Seq(Byte)
        /\ Len(Entities(97, "pairwise", ps)) = EntitySize * Len(ps)
        /\ \A y \in 0 .. Len(ps) - 1, z \in 1 .. EntitySize :
             /\ EntitySize * y + z \in 1 .. Len(Entities(97, "pairwise", ps))
             /\ Entities(97, "pairwise", ps)[EntitySize * y + z] = Pair(ps[y + 1])[z]
    BY ONLY <2>1, EntitiesFacts
  <2> HIDE DEF Pair
  <2> QED BY <1>4, <1>5, <2>2
<1>7. /\ C98 \in Seq(Byte) /\ Len(C98) = size * c
      /\ \A y \in 0 .. c - 1, z \in 1 .. size :
           size * y + z \in 1 .. size * c /\ C98[size * y + z] = Clus(cs[y + 1])[z]
  <2>1. 98 \in Byte /\ "cluster" \in {"pairwise", "cluster"} /\ cs \in Seq(Names)
    BY <1>3 DEF Byte
  <2>2. /\ Entities(98, "cluster", cs) \in Seq(Byte)
        /\ Len(Entities(98, "cluster", cs)) = EntitySize * Len(cs)
        /\ \A y \in 0 .. Len(cs) - 1, z \in 1 .. EntitySize :
             /\ EntitySize * y + z \in 1 .. Len(Entities(98, "cluster", cs))
             /\ Entities(98, "cluster", cs)[EntitySize * y + z] = Clus(cs[y + 1])[z]
    BY ONLY <2>1, EntitiesFacts
  <2> HIDE DEF Clus
  <2> QED BY <1>4, <1>5, <2>2
<1>8. ASSUME NEW n \in Names
      PROVE  /\ Pair(n) \in Seq(Byte) /\ Len(Pair(n)) = size /\ Pair(n)[1] = 97
             /\ ShortLE(Pair(n)[2], Pair(n)[3]) = StoredAddress(n)
             /\ Copied(Pair(n), 3, KeyLen) = KeyOf[<<"pairwise", n>>]
             /\ Clus(n) \in Seq(Byte) /\ Len(Clus(n)) = size /\ Clus(n)[1] = 98
             /\ ShortLE(Clus(n)[2], Clus(n)[3]) = StoredAddress(n)
             /\ Copied(Clus(n), 3, KeyLen) = KeyOf[<<"cluster", n>>]
  <2>1. 97 \in Byte /\ 98 \in Byte /\ "pairwise" \in {"pairwise", "cluster"}
        /\ "cluster" \in {"pairwise", "cluster"}
    BY DEF Byte
  <2>2. /\ Pair(n) \in Seq(Byte) /\ Len(Pair(n)) = EntitySize /\ Pair(n)[1] = 97
        /\ ShortLE(Pair(n)[2], Pair(n)[3]) = StoredAddress(n)
        /\ Copied(Pair(n), 3, KeyLen) = KeyOf[<<"pairwise", n>>]
    BY ONLY <2>1, n \in Names, EntityFacts
  <2>3. /\ Clus(n) \in Seq(Byte) /\ Len(Clus(n)) = EntitySize /\ Clus(n)[1] = 98
        /\ ShortLE(Clus(n)[2], Clus(n)[3]) = StoredAddress(n)
        /\ Copied(Clus(n), 3, KeyLen) = KeyOf[<<"cluster", n>>]
    BY ONLY <2>1, n \in Names, EntityFacts
  <2> HIDE DEF Pair, Clus
  <2> QED BY <1>4, <2>2, <2>3
<1> HIDE DEF Pair, Clus
<1>9. PICK lc \in Nat, lp \in Nat : lc = size * c /\ lp = size * p
  BY <1>4
<1>10. /\ keys \in Seq(Byte) /\ Len(keys) = lc + lp
       /\ \A k \in 1 .. lc : keys[k] = C98[k]
       /\ \A k \in 1 .. lp : keys[lc + k] = P97[k]
  <2>1. /\ C98 \o P97 \in Seq(Byte) /\ Len(C98 \o P97) = Len(C98) + Len(P97)
        /\ \A k \in 1 .. Len(C98) : (C98 \o P97)[k] = C98[k]
        /\ \A k \in 1 .. Len(P97) : (C98 \o P97)[Len(C98) + k] = P97[k]
    <3>1. C98 \in Seq(Byte) /\ P97 \in Seq(Byte)
      BY <1>6, <1>7
    <3> QED BY ONLY <3>1, ConcatFacts
  <2>2. Len(C98) = lc /\ Len(P97) = lp /\ keys = C98 \o P97
    BY <1>1, <1>2, <1>5, <1>6, <1>7, <1>9
  <2> QED BY <2>1, <2>2
<1>11. ASSUME NEW bytes \in Seq(Byte), Len(bytes) = Len(keys) + 3,
              \A k \in 1 .. Len(keys) : bytes[1 + k] = keys[k]
       PROVE  ParseExtendedMessage(bytes)
                = [pairwise |-> Stored("pairwise", P), cluster |-> Stored("cluster", C)]
  <2> DEFINE piece(x) == Copied(bytes, 1 + EntitySize * x, EntitySize)
             entities == {piece(x) : x \in 0 .. EntityCount(Len(bytes)) - 1}
  <2>1. /\ Len(bytes) = lc + lp + 3
        /\ \A k \in 1 .. lc : bytes[1 + k] = C98[k]
        /\ \A k \in 1 .. lp : bytes[1 + (lc + k)] = P97[k]
    <3>1. Len(keys) = lc + lp
      BY <1>10, <1>9
    <3>2. \A k \in 1 .. lc : k \in 1 .. lc + lp
      OBVIOUS
    <3>3. \A k \in 1 .. lp : lc + k \in 1 .. lc + lp
      OBVIOUS
    <3> QED BY <1>10, <1>9, <1>11, <3>1, <3>2, <3>3
  <2>2. EntityCount(Len(bytes)) = c + p
    <3>1. Len(bytes) - 3 = size * (c + p) + 0
      <4>1. size * (c + p) = size * c + size * p
        BY <1>4
      <4> QED BY <1>9, <2>1, <4>1
    <3>2. c + p \in Nat /\ 0 \in 0 .. size - 1 /\ size \in Nat \ {0}
      BY <1>4
    <3>3. (size * (c + p) + 0) \div size = c + p
      BY ONLY <3>2, Pieces
    <3> QED BY <1>4, <3>1, <3>3 DEF EntityCount
  <2>3. ASSUME NEW x \in 0 .. c - 1
        PROVE  piece(x) = Clus(cs[x + 1])
    <3>1. PICK n \in Names : n = cs[x + 1]
      BY <1>3, <1>4
    <3>2. PICK from \in Nat : from = 1 + size * x
      BY <1>4
    <3>3. ASSUME NEW z \in 1 .. size
          PROVE  bytes[from + z] = Clus(n)[z] /\ from + z <= 1 + lc
      <4>1. PICK k \in Nat : k = size * x + z
        BY <1>4
      <4>2. k \in 1 .. lc /\ C98[k] = Clus(n)[z]
        BY <1>7, <1>9, <3>1, <4>1
      <4>3. from + z = 1 + k
        BY <1>4, <3>2, <4>1
      <4> QED BY <2>1, <4>2, <4>3
    <3>4. from + size <= Len(bytes)
      <4>1. size \in 1 .. size
        BY <1>4
      <4>2. from + size <= 1 + lc
        BY <3>3, <4>1
      <4> QED BY <1>4, <2>1, <4>2
    <3>5. Clus(n) \in Seq(Byte) /\ Len(Clus(n)) = size
      BY <1>8
    <3>6. size \in Nat
      BY <1>4
    <3>7. Copied(bytes, from, size) = Clus(n)
      BY ONLY bytes \in Seq(Byte), from \in Nat, <3>3, <3>4, <3>5, <3>6, CopiedIs
    <3> QED BY <1>4, <3>1, <3>2, <3>7
  <2>4. ASSUME NEW y \in 0 .. p - 1
        PROVE  piece(c + y) = Pair(ps[y + 1])
    <3>1. PICK n \in Names : n = ps[y + 1]
      BY <1>3, <1>4
    <3>2. PICK w \in Nat : w = size * y
      BY <1>4
    <3>3. PICK from \in Nat : from = 1 + size * (c + y) /\ from = 1 + lc + w
      <4>1. size * (c + y) = size * c + size * y
        BY <1>4
      <4> QED BY <1>9, <3>2, <4>1
    <3>4. ASSUME NEW z \in 1 .. size
          PROVE  bytes[from + z] = Pair(n)[z] /\ from + z <= 1 + lc + lp
      <4>1. PICK k \in Nat : k = w + z
        OBVIOUS
      <4>2. k \in 1 .. lp /\ P97[k] = Pair(n)[z]
        BY <1>6, <1>9, <3>1, <3>2, <4>1
      <4>3. from + z = 1 + (lc + k)
        BY <3>3, <4>1
      <4>4. from + z <= 1 + lc + lp
        BY <4>2, <4>3
      <4>5. bytes[from + z] = P97[k]
        BY <2>1, <4>2, <4>3
      <4> QED BY <4>2, <4>4, <4>5
    <3>5. from + size <= Len(bytes)
      <4>1. size \in 1 .. size
        BY <1>4
      <4>2. from + size <= 1 + lc + lp
        BY <3>4, <4>1
      <4> QED BY <1>4, <2>1, <4>2
    <3>6. Pair(n) \in Seq(Byte) /\ Len(Pair(n)) = size
      BY <1>8
    <3>7. size \in Nat
      BY <1>4
    <3>8. Copied(bytes, from, size) = Pair(n)
      BY ONLY bytes \in Seq(Byte), from \in Nat, <3>4, <3>5, <3>6, <3>7, CopiedIs
    <3> QED BY <1>4, <3>1, <3>3, <3>8
  <2> HIDE DEF piece
  <2>5. entities = {Clus(n) : n \in C} \cup {Pair(n) : n \in P}
    <3>1. entities = {piece(x) : x \in 0 .. (c + p) - 1}
      BY <2>2
    <3>2. ASSUME NEW x \in 0 .. (c + p) - 1
          PROVE  piece(x) \in {Clus(n) : n \in C} \cup {Pair(n) : n \in P}
      <4>1. CASE x < c
        <5>1. x \in 0 .. c - 1 /\ x + 1 \in 1 .. Len(cs)
          BY <1>4, <4>1
        <5> QED BY <1>3, <2>3, <5>1
      <4>2. CASE ~ (x < c)
        <5>1. PICK y \in 0 .. p - 1 : x = c + y /\ y + 1 \in 1 .. Len(ps)
          <6>1. x - c \in 0 .. p - 1 /\ x = c + (x - c) /\ (x - c) + 1 \in 1 .. p
            BY <1>4, <4>2
          <6> QED BY <1>4, <6>1
        <5> QED BY <1>3, <2>4, <5>1
      <4> QED BY <4>1, <4>2
    <3>3. ASSUME NEW n \in C
          PROVE  Clus(n) \in {piece(x) : x \in 0 .. (c + p) - 1}
      <4>1. PICK k \in 1 .. Len(cs) : n = cs[k]
        BY <1>3
      <4>2. PICK x \in 0 .. c - 1 : x + 1 = k /\ x \in 0 .. (c + p) - 1
        <5>1. k - 1 \in 0 .. c - 1 /\ (k - 1) + 1 = k /\ k - 1 \in 0 .. (c + p) - 1
          BY <1>4
        <5> QED BY <5>1
      <4> QED BY <2>3, <4>1, <4>2
    <3>4. ASSUME NEW n \in P
          PROVE  Pair(n) \in {piece(x) : x \in 0 .. (c + p) - 1}
      <4>1. PICK k \in 1 .. Len(ps) : n = ps[k]
        BY <1>3
      <4>2. PICK y \in 0 .. p - 1 : y + 1 = k /\ c + y \in 0 .. (c + p) - 1
        <5>1. k - 1 \in 0 .. p - 1 /\ (k - 1) + 1 = k /\ c + (k - 1) \in 0 .. (c + p) - 1
          BY <1>4
        <5> QED BY <5>1
      <4> QED BY <2>4, <4>1, <4>2
    <3> QED BY <3>1, <3>2, <3>3, <3>4
  <2> HIDE DEF entities
  <2> DEFINE taken(e) == [address |-> ShortLE(e[2], e[3]), key |-> Copied(e, 3, KeyLen)]
             inserted(prologue) == {taken(e) : e \in {d \in entities : d[1] = prologue}}
  <2>6. (\A n \in P : Pair(n)[1] = 97) /\ (\A n \in C : Clus(n)[1] = 98)
    <3>1. \A n \in Names : Pair(n)[1] = 97 /\ Clus(n)[1] = 98
      BY <1>8
    <3> QED BY <3>1
  <2>7. {d \in entities : d[1] = 97} = {Pair(n) : n \in P}
    BY <2>5, <2>6
  <2>8. {d \in entities : d[1] = 98} = {Clus(n) : n \in C}
    BY <2>5, <2>6
  <2>9. \A n \in P : taken(Pair(n))
                       = [address |-> StoredAddress(n), key |-> KeyOf[<<"pairwise", n>>]]
    BY <1>8
  <2>10. \A n \in C : taken(Clus(n))
                        = [address |-> StoredAddress(n), key |-> KeyOf[<<"cluster", n>>]]
    BY <1>8
  <2> HIDE DEF taken
  <2>11. inserted(97) = Stored("pairwise", P)
    <3>1. inserted(97) = {taken(e) : e \in {Pair(n) : n \in P}}
      BY <2>7
    <3>2. inserted(97) = {taken(Pair(n)) : n \in P}
      BY ONLY <3>1
    <3> HIDE DEF inserted
    <3> QED BY <2>9, <3>2 DEF Stored
  <2>12. inserted(98) = Stored("cluster", C)
    <3>1. inserted(98) = {taken(e) : e \in {Clus(n) : n \in C}}
      BY <2>8
    <3>2. inserted(98) = {taken(Clus(n)) : n \in C}
      BY ONLY <3>1
    <3> HIDE DEF inserted
    <3> QED BY <2>10, <3>2 DEF Stored
  <2> HIDE DEF inserted
  <2>13. ParseExtendedMessage(bytes) = [pairwise |-> inserted(97), cluster |-> inserted(98)]
    BY DEF ParseExtendedMessage, inserted, taken, entities, piece
  <2> QED BY <2>11, <2>12, <2>13
<1> QED BY <1>1, <1>10, <1>11
=============================================================================
