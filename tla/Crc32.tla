-------------------------------- MODULE Crc32 --------------------------------
(***************************************************************************)
(* Crc32 of src/safety/crc32.cpp.  A word is the set of the positions of   *)
(* its one bits, so that exclusive or is the symmetric difference, and a   *)
(* byte is such a set within 0 .. 7.                                       *)
(***************************************************************************)
EXTENDS Integers, Sequences, FiniteSetsExt

Bytes == SUBSET (0 .. 7)
Words == SUBSET (0 .. 31)

(* The word of a number below 2^16, and a word from its two halves: TLC's  *)
(* integers have 32 bits with the sign.                                    *)
Bits(n) == {i \in 0 .. 15 : (n \div 2 ^ i) % 2 = 1}
Word(high, low) == {i + 16 : i \in Bits(high)} \cup Bits(low)

kPolynomial          == Word(62636, 64275)  \* 0xF4ACFB13
kReflectedPolynomial == Word(51423, 13615)  \* 0xC8DF352F
kInitial             == 0 .. 31
kFinalXor            == 0 .. 31
kCheckValue          == Word(5783, 53354)   \* 0x1697D06A

ShiftRight(word, by) == {i - by : i \in {j \in word : j >= by}}

(* One step of the reflected algorithm, and the eight of buildTable().     *)
Step(remainder) ==
  IF 0 \in remainder THEN SymDiff(ShiftRight(remainder, 1), kReflectedPolynomial)
  ELSE ShiftRight(remainder, 1)

kTable ==
  [index \in Bytes |->
     LET remainder[bit \in 0 .. 8] == IF bit = 0 THEN index ELSE Step(remainder[bit - 1])
     IN remainder[8]]

update(state, byte) ==
  LET index == SymDiff(state, byte) \cap (0 .. 7) IN
  SymDiff(ShiftRight(state, 8), kTable[index])

(* update() of a span.                                                     *)
updateAll(state, data) ==
  LET fed[n \in 0 .. Len(data)] ==
        IF n = 0 THEN state ELSE update(fed[n - 1], data[n])
  IN fed[Len(data)]

(* update() of a wider value: little-endian, whatever the machine.         *)
LittleEndian(word, bytes) ==
  [n \in 1 .. bytes |-> ShiftRight(word, 8 * (n - 1)) \cap (0 .. 7)]

value(state) == SymDiff(state, kFinalXor)

compute(data) == value(updateAll(kInitial, data))
-----------------------------------------------------------------------------
(* The definition the parameters of crc32.hpp name: the message, its bytes *)
(* reflected, is divided by kPolynomial bit by bit, most significant bit   *)
(* first, and the remainder is reflected.                                  *)
Reflected(word) == {31 - i : i \in word}

(* One bit of such a division.                                             *)
DividedBit(rest, bit) ==
  LET shifted == {i + 1 : i \in rest \ {31}} IN
  IF (31 \in rest) <=> ~bit THEN SymDiff(shifted, kPolynomial) ELSE shifted

Divided(data) ==
  LET rest[n \in 0 .. 8 * Len(data)] ==
        IF n = 0 THEN kInitial
        ELSE DividedBit(rest[n - 1], ((n - 1) % 8) \in data[1 + (n - 1) \div 8])
  IN SymDiff(Reflected(rest[8 * Len(data)]), kFinalXor)

(* The two forms of the polynomial, and the CRC of "123456789".            *)
ASSUME PolynomialsReflect == kReflectedPolynomial = Reflected(kPolynomial)

ASSUME CheckValueMatches ==
  compute([n \in 1 .. 9 |-> Bits(48 + n)]) = kCheckValue

(* What flipping one bit of a message does to its CRC, so many bytes       *)
(* before its end: the algorithm is linear.                                *)
Syndrome(bit, following) ==
  updateAll({}, [n \in 1 .. following + 1 |-> IF n = 1 THEN {bit} ELSE {}])
=============================================================================
