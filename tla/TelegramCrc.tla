----------------------------- MODULE TelegramCrc -----------------------------
(***************************************************************************)
(* What the CRC of a telegram covers, computeTelegramCrc() of              *)
(* src/safety/black_channel.cpp, and which damage it tells: REQ-SAF-002.   *)
(***************************************************************************)
EXTENDS Crc32

kMaxPayloadBytes == 64

(* The bytes in order: payload, status and consecutive number, which are   *)
(* sent, and the address, which is not.                                    *)
Covered(address, payload, status, consecutive_number) ==
  payload \o <<status>> \o LittleEndian(consecutive_number, 4)
    \o LittleEndian(address.source, 2) \o LittleEndian(address.destination, 2)
    \o LittleEndian(address.parameter_signature, 4)

Addressed == 2 + 2 + 4
SentBytes(size) == size + 1 + 4

(* A bit of a telegram: of a byte that is sent, which so many bytes        *)
(* follow, or of the CRC, which follows them all.                          *)
Places(size) ==
  ((Addressed .. Addressed + SentBytes(size) - 1) \X (0 .. 7)) \cup ({-1} \X (0 .. 31))

(* Damage flips the bits at some places, of the bytes and of the CRC.      *)
DamagedBytes(data, places) ==
  [n \in 1 .. Len(data) |->
     SymDiff(data[n], {bit \in 0 .. 7 : <<Len(data) - n, bit>> \in places})]

DamagedCrc(crc, places) == SymDiff(crc, {i \in 0 .. 31 : <<-1, i>> \in places})

(* What it does, alone, to the difference between the CRC of the bytes     *)
(* and the CRC of the telegram.                                            *)
Effect == [p \in Places(kMaxPayloadBytes) |->
             IF p[1] = -1 THEN {p[2]} ELSE Syndrome(p[2], p[1])]

Effects == {Effect[p] : p \in DOMAIN Effect}

(* Where two effects differ.                                               *)
Pairs      == {{x, y} : x \in Effects, y \in Effects} \ {{x} : x \in Effects}
Differ(pair) == {i \in 0 .. 31 : \E x, y \in pair : i \in x /\ i \notin y}

(* For the longest payload, and so for every other: each effect is odd, no *)
(* two are the same, and no two pairs differ in the same bits.             *)
ASSUME EffectsAreOdd == \A x \in Effects : Cardinality(x) % 2 = 1
ASSUME EffectsAreApart == Cardinality(Effects) = Cardinality(DOMAIN Effect)
ASSUME PairsAreApart == Cardinality({Differ(pair) : pair \in Pairs}) = Cardinality(Pairs)
=============================================================================
