---------------------------- MODULE CounterProofs ----------------------------
(***************************************************************************)
(* The two components that count modulo a constant.  BlackChannel, for     *)
(* every width of the consecutive number, every watchdog period and every  *)
(* transport that holds a telegram for less than half a turn of the        *)
(* numbers; and SpscRing, for every capacity, every width of the positions *)
(* and any number of pushes.                                               *)
(***************************************************************************)
EXTENDS BlackChannel, SpscRing, TLAPS

(* A number and its remainder: the quotient is the only one that fits.     *)
LEMMA Remainder ==
  ASSUME NEW m \in Nat \ {0}, NEW n \in Int
  PROVE  /\ n % m \in 0 .. m - 1
         /\ n = m * (n \div m) + (n % m) /\ n \div m \in Int
OBVIOUS

(* Whatever is left after a multiple of m is the remainder.                *)
LEMMA OnlyRemainder ==
  ASSUME NEW m \in Nat \ {0}, NEW q \in Int, NEW r \in 0 .. m - 1
  PROVE  (m * q + r) % m = r
<1> DEFINE n == m * q + r
           p == n \div m
           s == n % m
<1>1. n \in Int
  OBVIOUS
<1>2. s \in 0 .. m - 1 /\ n = m * p + s /\ p \in Int
  BY <1>1, Remainder
<1>3. m * q + r = m * p + s
  BY <1>2
<1> HIDE DEF n, p, s
<1>4. m * (q - p) = s - r
  BY <1>2, <1>3
<1>5. q - p < 1
  <2> SUFFICES ASSUME q - p >= 1 PROVE FALSE
    BY <1>2
  <2>1. m * (q - p) >= m
    BY <1>2
  <2> QED BY <1>2, <1>4, <2>1
<1>6. q - p > -1
  <2> SUFFICES ASSUME p - q >= 1 PROVE FALSE
    BY <1>2
  <2>1. m * (p - q) >= m
    BY <1>2
  <2>2. m * (p - q) = r - s
    BY <1>2, <1>3
  <2> QED BY <1>2, <2>1, <2>2
<1>7. p = q
  BY <1>2, <1>5, <1>6
<1>8. s = r
  BY <1>2, <1>3, <1>7
<1> QED BY <1>8 DEF s, n

(* A counter goes on modulo m as it goes on.                               *)
LEMMA NextRemainder ==
  ASSUME NEW m \in Nat \ {0}, NEW n \in Int
  PROVE  ((n % m) + 1) % m = (n + 1) % m
<1> DEFINE q == n \div m
           r == n % m
<1>1. r \in 0 .. m - 1 /\ n = m * q + r /\ q \in Int
  BY Remainder
<1> HIDE DEF q, r
<1>2. CASE r + 1 < m
  <2>1. n + 1 = m * q + (r + 1) /\ r + 1 = m * 0 + (r + 1)
    BY <1>1
  <2>2. (m * q + (r + 1)) % m = r + 1 /\ (m * 0 + (r + 1)) % m = r + 1
    BY <1>1, <1>2, OnlyRemainder
  <2> QED BY <2>1, <2>2 DEF r
<1>3. CASE r + 1 = m
  <2>1. n + 1 = m * (q + 1) + 0 /\ r + 1 = m * 1 + 0
    BY <1>1, <1>3
  <2>2. (m * (q + 1) + 0) % m = 0 /\ (m * 1 + 0) % m = 0
    BY <1>1, OnlyRemainder
  <2> QED BY <2>1, <2>2 DEF r
<1> QED BY <1>1, <1>2, <1>3

(* Unsigned subtraction of two counters less than a turn apart is exact.   *)
LEMMA Difference ==
  ASSUME NEW m \in Nat \ {0}, NEW a \in Int, NEW b \in Int, a - b \in 0 .. m - 1
  PROVE  ((a % m) - (b % m)) % m = a - b
<1> DEFINE p == a \div m
           r == a % m
           q == b \div m
           s == b % m
<1>1. r \in 0 .. m - 1 /\ a = m * p + r /\ p \in Int
  BY Remainder
<1>2. s \in 0 .. m - 1 /\ b = m * q + s /\ q \in Int
  BY Remainder
<1> HIDE DEF p, q, r, s
<1>3. r - s = m * (q - p) + (a - b)
  BY <1>1, <1>2
<1>4. (m * (q - p) + (a - b)) % m = a - b
  <2>1. q - p \in Int
    BY <1>1, <1>2
  <2> QED BY <2>1, OnlyRemainder
<1> QED BY <1>3, <1>4 DEF r, s

(* Two counters less than a turn apart are equal when they look equal.     *)
LEMMA SameRemainder ==
  ASSUME NEW m \in Nat \ {0}, NEW a \in Int, NEW b \in Int, a - b \in 0 .. m - 1,
         a % m = b % m
  PROVE  a = b
<1>1. ((a % m) - (b % m)) % m = a - b
  BY Difference
<1>2. a % m \in Int
  BY Remainder
<1>3. (a % m) - (b % m) = m * 0 + 0
  BY <1>2
<1>4. (m * 0 + 0) % m = 0
  BY OnlyRemainder
<1> QED BY <1>1, <1>3, <1>4

(* Two counters less than a turn apart differ by as much as their          *)
(* remainders do, or by one turn more.                                     *)
LEMMA Apart ==
  ASSUME NEW m \in Nat \ {0}, NEW a \in Int, NEW b \in Int, a - b \in 0 .. m - 1
  PROVE  (a % m) - (b % m) \in {a - b, a - b - m}
<1> DEFINE r == a % m
           s == b % m
<1>1. r \in 0 .. m - 1 /\ s \in 0 .. m - 1
  BY Remainder
<1>2. (r - s) % m = a - b
  BY Difference
<1> HIDE DEF r, s
<1>3. CASE r - s >= 0
  <2>1. r - s = m * 0 + (r - s) /\ r - s \in 0 .. m - 1 /\ 0 \in Int
    BY <1>1, <1>3
  <2>2. (m * 0 + (r - s)) % m = r - s
    BY <2>1, OnlyRemainder
  <2> QED BY <1>2, <2>1, <2>2 DEF r, s
<1>4. CASE r - s < 0
  <2>1. r - s = m * (-1) + (r - s + m) /\ r - s + m \in 0 .. m - 1 /\ -1 \in Int
    BY <1>1, <1>4
  <2>2. (m * (-1) + (r - s + m)) % m = r - s + m
    BY <2>1, OnlyRemainder
  <2>3. r - s = a - b - m
    BY <1>1, <1>2, <2>1, <2>2
  <2> QED BY <2>3 DEF r, s
<1> QED BY <1>1, <1>3, <1>4

(* Small numbers are their own remainders, and so is a turn of zero.       *)
LEMMA WithinTurn ==
  ASSUME NEW m \in Nat \ {0}, NEW n \in 0 .. m - 1
  PROVE  n % m = n /\ m % m = 0
<1>1. n = m * 0 + n /\ m = m * 1 + 0 /\ 0 \in 0 .. m - 1
  OBVIOUS
<1>2. (m * 0 + n) % m = n /\ (m * 1 + 0) % m = 0
  BY <1>1, OnlyRemainder
<1> QED BY <1>1, <1>2
-----------------------------------------------------------------------------
(* Consecutive numbers count modulo one less than Modulus, as zero is      *)
(* skipped: the number of the i-th step of a count.                        *)
Turn   == Modulus - 1
Num(i) == 1 + (i % Turn)

(* Sender, transport and receiver count from the same base: a telegram in  *)
(* transit has the number its payload gives it, and so has the last one    *)
(* the receiver accepted.                                                  *)
CountInv ==
  \E b \in Int :
    /\ consecutive_number = Num(b + sent)
    /\ \A t \in wire : t.cn = Num(b + t.payload - 1)
    /\ receiver.synchronised =>
         receiver.last_consecutive_number = Num(b + delivered - 1)

(* The transport holds the latest telegrams of our sender, as it sent them.*)
WireInv ==
  \A t \in wire :
    /\ t.payload \in 1 .. sent /\ sent - t.payload < MaxLag
    /\ t.cn \in 0 .. Modulus - 1
    /\ t = Telegram(Address, t.payload, t.cn)

(* A receiver that is synchronised and not in its safe state has not       *)
(* fallen far behind the sender, because its watchdog bounds the time      *)
(* since the last telegram and the sender sends once in a cycle.           *)
LagInv ==
  /\ sent \in Nat /\ now \in Nat /\ delivered \in Nat
  /\ receiver \in Receiver
  /\ receiver.last_valid_ns <= now
  /\ receiver.synchronised => delivered \in 1 .. sent
  /\ (receiver.synchronised /\ ~receiver.safe_state) =>
       /\ now - receiver.last_valid_ns <= (IF "poll" \in due THEN Watchdog + 1 ELSE Watchdog)
       /\ sent - delivered < now - receiver.last_valid_ns
                               + (IF "encode" \in due THEN MaxLag ELSE MaxLag + 1)
  /\ ~receiver.safe_state => receiver.last_fault = "None"

RelationInv == CountInv /\ WireInv /\ LagInv
-----------------------------------------------------------------------------
(* What the assumptions on the constants of the channel come to.           *)
LEMMA Constants ==
  /\ Modulus \in Nat /\ Modulus \in Nat \ {0} /\ Modulus >= 4
  /\ Turn \in Nat \ {0} /\ Turn \in Nat /\ Turn = Modulus - 1
  /\ Watchdog \in Nat /\ MaxLag \in Nat /\ MaxLag >= 1
  /\ 2 * (MaxLag + Watchdog + 1) <= Modulus
BY BlackChannelAssumption DEF Turn

(* A consecutive number fits its width and is never zero.                  *)
LEMMA NumType ==
  ASSUME NEW i \in Int
  PROVE  Num(i) \in Numbers /\ Num(i) \in 1 .. Turn /\ Num(i) \in Int
<1>1. i % Turn \in 0 .. Turn - 1
  BY Constants, Remainder, Zenon
<1> QED BY <1>1, Constants DEF Num, Numbers

(* Successor() is the next number of the count.                            *)
LEMMA NumSuccessor ==
  ASSUME NEW i \in Int
  PROVE  Successor(Num(i)) = Num(i + 1) /\ Num(i + 1) # Num(i)
<1> DEFINE r == i % Turn
<1>1. r \in 0 .. Turn - 1
  BY Constants, Remainder, Zenon
<1>2. (r + 1) % Turn = (i + 1) % Turn
  BY Constants, NextRemainder, Zenon
<1> HIDE DEF r
<1>3. CASE r + 1 < Turn
  <2>1. r + 1 \in 0 .. Turn - 1 /\ r + 2 \in 0 .. Modulus - 1
    BY <1>1, <1>3, Constants
  <2>2. (r + 1) % Turn = r + 1
    BY <2>1, Constants, WithinTurn, Zenon
  <2>3. (r + 2) % Modulus = r + 2
    BY <2>1, Constants, WithinTurn, Zenon
  <2>4. Num(i) = 1 + r /\ Num(i + 1) = r + 2
    BY <1>1, <1>2, <2>2 DEF Num, r
  <2>5. Num(i) + 1 = r + 2 /\ r + 2 # 0
    BY <1>1, <2>4
  <2>6. Successor(Num(i)) = r + 2
    BY <2>3, <2>5 DEF Successor
  <2> QED BY <1>1, <2>4, <2>6
<1>4. CASE r + 1 = Turn
  <2>1. (r + 1) % Turn = 0
    <3>1. 0 \in 0 .. Turn - 1
      BY Constants
    <3> QED BY <1>4, <3>1, Constants, WithinTurn, Zenon
  <2>2. Modulus % Modulus = 0
    <3>1. 0 \in 0 .. Modulus - 1
      BY Constants
    <3> QED BY <3>1, Constants, WithinTurn, Zenon
  <2>3. Num(i) = Turn /\ Num(i + 1) = 1
    BY <1>1, <1>2, <1>4, <2>1 DEF Num, r
  <2>4. Num(i) + 1 = Modulus
    BY <2>3, Constants
  <2>5. Successor(Num(i)) = 1
    BY <2>2, <2>4 DEF Successor
  <2> QED BY <2>3, <2>5, Constants
<1> QED BY <1>1, <1>3, <1>4, Constants

(* Two numbers of the count, less than a turn apart.                       *)
LEMMA NumApart ==
  ASSUME NEW i \in Int, NEW j \in Int, i - j \in 0 .. Turn - 1
  PROVE  /\ Num(i) - Num(j) \in {i - j, i - j - Turn}
         /\ Num(i) = Num(j) <=> i = j
<1> DEFINE r == i % Turn
           s == j % Turn
<1>1. r \in 0 .. Turn - 1 /\ s \in 0 .. Turn - 1
  BY Constants, Remainder, Zenon
<1>2. r - s \in {i - j, i - j - Turn}
  BY Constants, Apart, Zenon
<1>3. Num(i) = 1 + r /\ Num(j) = 1 + s
  BY DEF Num
<1> HIDE DEF r, s
<1> QED BY <1>1, <1>2, <1>3, Constants
-----------------------------------------------------------------------------
(* The signed distance of two numbers is an integer.                       *)
LEMMA SignedType ==
  ASSUME NEW x \in Int, NEW y \in Int
  PROVE  SignedDifference(x, y) \in Int
<1>1. (x - y) % Modulus \in Int
  BY Constants
<1> QED BY <1>1, Constants DEF SignedDifference

(* What Successor() returns fits the width of the number.                  *)
LEMMA SuccessorType ==
  ASSUME NEW n \in 0 .. Modulus - 1
  PROVE  Successor(n) \in 0 .. Modulus - 1
<1>1. (n + 1) % Modulus \in 0 .. Modulus - 1
  BY Constants
<1> QED BY <1>1, Constants DEF Successor

(* What a telegram passes on its way to being accepted.                    *)
LEMMA ValidMeans ==
  ASSUME NEW r, NEW t, NEW n, ReceiveStatus(r, t, n) = "Valid"
  PROVE  /\ ~r.safe_state /\ t.sized
         /\ t.crc = computeTelegramCrc(Address, t.payload, t.cn)
         /\ r.synchronised => ~(n - r.last_valid_ns > Watchdog) /\ t.cn = Expected(r)
BY DEF ReceiveStatus

(* latch() and accept() keep a receiver a receiver.                        *)
LEMMA LatchType ==
  ASSUME NEW r \in Receiver, NEW s \in Rejections, NEW f \in TransmissionFault
  PROVE  /\ latch(r, s, f) \in Receiver
         /\ latch(r, s, f).safe_state /\ latch(r, s, f).last_fault = f
         /\ latch(r, s, f).accepted = r.accepted
         /\ latch(r, s, f).synchronised = r.synchronised
         /\ latch(r, s, f).last_consecutive_number = r.last_consecutive_number
         /\ latch(r, s, f).last_valid_ns = r.last_valid_ns
         /\ latch(r, s, f).telegrams_lost = r.telegrams_lost
         /\ latch(r, s, f).rejected = [r.rejected EXCEPT ![s] = @ + 1]
<1>1. r.rejected \in [Rejections -> Nat]
  BY DEF Receiver
<1>2. [r.rejected EXCEPT ![s] = @ + 1] \in [Rejections -> Nat]
  BY <1>1
<1>3. latch(r, s, f) = [r EXCEPT !.safe_state = TRUE, !.last_fault = f,
                                 !.rejected = [r.rejected EXCEPT ![s] = @ + 1]]
  BY DEF latch
<1> QED BY <1>2, <1>3 DEF Receiver

(* receive() accepts a valid telegram; any other leaves what the receiver  *)
(* knows of the sender alone, and puts it in the safe state.               *)
LEMMA ReceiveEffect ==
  ASSUME NEW r \in Receiver, NEW t, t.cn \in 0 .. Modulus - 1, NEW n \in Nat
  PROVE  LET q == receive(r, t, n) IN
         /\ q \in Receiver
         /\ ReceiveStatus(r, t, n) = "Valid" => q = accept(r, t, n)
         /\ ReceiveStatus(r, t, n) # "Valid" =>
              /\ q.accepted = r.accepted /\ q.synchronised = r.synchronised
              /\ q.last_consecutive_number = r.last_consecutive_number
              /\ q.last_valid_ns = r.last_valid_ns
              /\ q = r \/ q.safe_state
<1> DEFINE s == ReceiveStatus(r, t, n)
           d == delta(r, t)
           l == latch(r, s, FaultFor(s))
<1>1. s \in {"InSafeState", "Valid"} \cup Rejections
  BY DEF ReceiveStatus, Rejections
<1>2. d \in Int
  <2>1. Expected(r) \in 0 .. Modulus - 1
    BY SuccessorType DEF Expected, Receiver
  <2>2. t.cn \in Int /\ Expected(r) \in Int
    BY <2>1, Constants
  <2>3. SignedDifference(t.cn, Expected(r)) \in Int
    BY <2>2, SignedType, Zenon
  <2> QED BY <2>3 DEF delta
<1>3. s = "SequenceGap" => ~(d < 0)
  BY DEF ReceiveStatus
<1>4. s \in Rejections => FaultFor(s) \in TransmissionFault
  BY DEF FaultFor, Rejections, TransmissionFault
<1>5. /\ s = "InSafeState" => receive(r, t, n) = r
      /\ s = "Valid" => receive(r, t, n) = accept(r, t, n)
      /\ s = "SequenceGap" => receive(r, t, n) = [l EXCEPT !.telegrams_lost = @ + d]
      /\ s \in Rejections \ {"SequenceGap"} => receive(r, t, n) = l
  BY <1>1 DEF receive, Rejections
<1> HIDE DEF s, d, l
<1>6. CASE s = "InSafeState"
  BY <1>5, <1>6 DEF s
<1>7. CASE s = "Valid"
  <2>1. accept(r, t, n) \in Receiver
    <3> DEFINE k == t.cn
               m == r.accepted + 1
    <3>1. m \in Nat /\ k \in 0 .. Modulus - 1
      BY DEF Receiver
    <3>2. accept(r, t, n) = [r EXCEPT !.synchronised = TRUE,
                               !.last_consecutive_number = k, !.last_valid_ns = n,
                               !.accepted = m]
      BY DEF accept
    <3> HIDE DEF k, m
    <3> QED BY <3>1, <3>2 DEF Receiver
  <2> QED BY <1>5, <1>7, <2>1 DEF s
<1>8. CASE s \in Rejections
  <2>1. /\ l \in Receiver /\ l.safe_state /\ l.accepted = r.accepted
        /\ l.synchronised = r.synchronised
        /\ l.last_consecutive_number = r.last_consecutive_number
        /\ l.last_valid_ns = r.last_valid_ns
    <3> DEFINE f == FaultFor(s)
    <3>1. f \in TransmissionFault /\ l = latch(r, s, f)
      BY <1>4, <1>8 DEF l
    <3> HIDE DEF f
    <3>2. /\ latch(r, s, f) \in Receiver /\ latch(r, s, f).safe_state
          /\ latch(r, s, f).accepted = r.accepted
          /\ latch(r, s, f).synchronised = r.synchronised
          /\ latch(r, s, f).last_consecutive_number = r.last_consecutive_number
          /\ latch(r, s, f).last_valid_ns = r.last_valid_ns
      BY <1>8, <3>1, LatchType, ZenonT(60)
    <3> QED BY <3>1, <3>2
  <2>2. CASE s = "SequenceGap"
    <3>1. l.telegrams_lost + d \in Nat
      BY <1>2, <1>3, <2>1, <2>2 DEF Receiver
    <3>2. [l EXCEPT !.telegrams_lost = @ + d] \in Receiver
      BY <2>1, <3>1 DEF Receiver
    <3> QED BY <1>5, <2>1, <2>2, <3>2 DEF s, Receiver
  <2>3. CASE s # "SequenceGap"
    BY <1>5, <1>8, <2>1, <2>3 DEF s, Rejections
  <2> QED BY <2>2, <2>3
<1> QED BY <1>1, <1>6, <1>7, <1>8

(* REQ-SAF-002 and 008: a damaged or foreign telegram is not accepted.     *)
LEMMA DamageIsRefused ==
  ASSUME NEW t \in wire, WireInv, sent \in Nat, CountInv, NEW n
  PROVE  /\ ReceiveStatus(receiver, [t EXCEPT !.payload = NotSent], n) # "Valid"
         /\ ReceiveStatus(receiver, [t EXCEPT !.cn = Successor(t.cn)], n) # "Valid"
         /\ ReceiveStatus(receiver, [t EXCEPT !.sized = FALSE], n) # "Valid"
         /\ Successor(t.cn) \in 0 .. Modulus - 1
<1>1. /\ t.payload \in 1 .. sent /\ t.cn \in 0 .. Modulus - 1
      /\ t = [sized |-> TRUE, payload |-> t.payload, cn |-> t.cn,
              crc |-> <<Address, t.payload, t.cn>>]
  BY DEF WireInv, Telegram, computeTelegramCrc
<1>2. Successor(t.cn) # t.cn
  <2>1. PICK b \in Int : t.cn = Num(b + t.payload - 1)
    BY DEF CountInv
  <2>2. b + t.payload - 1 \in Int
    BY <1>1, <2>1
  <2> QED BY <2>1, <2>2, NumSuccessor
<1>3. Successor(t.cn) \in 0 .. Modulus - 1
  BY <1>1, SuccessorType
<1>4. ReceiveStatus(receiver, [t EXCEPT !.payload = NotSent], n) # "Valid"
  <2> DEFINE u == [t EXCEPT !.payload = NotSent]
  <2>1. u.crc = <<Address, t.payload, t.cn>> /\ u.payload = 0 /\ u.cn = t.cn
    BY <1>1 DEF NotSent
  <2>2. t.payload # 0
    BY <1>1
  <2> HIDE DEF u
  <2>3. u.crc # computeTelegramCrc(Address, u.payload, u.cn)
    BY <2>1, <2>2 DEF computeTelegramCrc
  <2> QED BY <2>3, ValidMeans DEF u
<1>5. ReceiveStatus(receiver, [t EXCEPT !.cn = Successor(t.cn)], n) # "Valid"
  <2> DEFINE u == [t EXCEPT !.cn = Successor(t.cn)]
  <2>1. u.crc = <<Address, t.payload, t.cn>> /\ u.payload = t.payload
        /\ u.cn = Successor(t.cn)
    BY <1>1
  <2> HIDE DEF u
  <2>2. u.crc # computeTelegramCrc(Address, u.payload, u.cn)
    BY <1>2, <2>1 DEF computeTelegramCrc
  <2> QED BY <2>2, ValidMeans DEF u
<1>6. ReceiveStatus(receiver, [t EXCEPT !.sized = FALSE], n) # "Valid"
  <2> DEFINE u == [t EXCEPT !.sized = FALSE]
  <2>1. u.sized = FALSE
    BY <1>1
  <2> HIDE DEF u
  <2> QED BY <2>1, ValidMeans DEF u
<1> QED BY <1>3, <1>4, <1>5, <1>6

(* A telegram of another connection fails the CRC.                         *)
LEMMA ForeignIsRefused ==
  ASSUME NEW n, NEW k
  PROVE  /\ ReceiveStatus(receiver, Telegram(Foreign, NotSent, k), n) # "Valid"
         /\ ReceiveStatus(receiver, [sized |-> TRUE, payload |-> NotSent, cn |-> 0,
                                     crc |-> <<Foreign, NotSent, 0>>], n) # "Valid"
<1>1. Foreign # Address
  BY DEF Foreign, Address
<1>2. \A u : u.crc = <<Foreign, u.payload, u.cn>> =>
               ReceiveStatus(receiver, u, n) # "Valid"
  BY <1>1, ValidMeans DEF computeTelegramCrc
<1>3. Telegram(Foreign, NotSent, k).crc = <<Foreign, NotSent, k>>
      /\ Telegram(Foreign, NotSent, k).payload = NotSent
      /\ Telegram(Foreign, NotSent, k).cn = k
  BY DEF Telegram, computeTelegramCrc
<1> QED BY <1>2, <1>3
-----------------------------------------------------------------------------
(* Before the first telegram nothing is on its way.                        *)
LEMMA InitRelation == Init => RelationInv
<1> SUFFICES ASSUME Init PROVE RelationInv
  OBVIOUS
<1>1. consecutive_number \in 1 .. Turn /\ sent = 0 /\ wire = {}
  BY BlackChannelAssumption, Constants DEF Init, Numbers
<1>2. CountInv
  <2>1. consecutive_number - 1 \in 0 .. Turn - 1 /\ consecutive_number - 1 \in Int
    BY <1>1, Constants
  <2>2. (consecutive_number - 1) % Turn = consecutive_number - 1
    BY <2>1, Constants, WithinTurn, Zenon
  <2>3. (consecutive_number - 1) + sent = consecutive_number - 1
    BY <1>1, <2>1
  <2>4. consecutive_number = Num((consecutive_number - 1) + sent)
    BY <1>1, <2>2, <2>3 DEF Num
  <2>5. ~receiver.synchronised
    BY DEF Init
  <2> QED BY <1>1, <2>1, <2>4, <2>5 DEF CountInv
<1>3. WireInv
  BY <1>1 DEF WireInv
<1>4. LagInv
  <2>1. receiver \in Receiver
    BY Constants DEF Init, Receiver, Rejections, TransmissionFault
  <2> QED BY <2>1 DEF Init, LagInv, NotSent
<1> QED BY <1>2, <1>3, <1>4 DEF RelationInv

(* A telegram that comes off the wire, or anything that is not accepted.   *)
LEMMA ReceiveStep ==
  ASSUME RelationInv, NEW t, t.cn \in 0 .. Modulus - 1, Receive(t),
         ReceiveStatus(receiver, t, now) = "Valid" => t \in wire
  PROVE  RelationInv'
<1>1. /\ sent \in Nat /\ now \in Nat /\ delivered \in Nat /\ receiver \in Receiver
      /\ receiver.last_valid_ns <= now
      /\ receiver.synchronised => delivered \in 1 .. sent
      /\ (receiver.synchronised /\ ~receiver.safe_state) =>
           /\ now - receiver.last_valid_ns
                <= (IF "poll" \in due THEN Watchdog + 1 ELSE Watchdog)
           /\ sent - delivered < now - receiver.last_valid_ns
                                   + (IF "encode" \in due THEN MaxLag ELSE MaxLag + 1)
      /\ ~receiver.safe_state => receiver.last_fault = "None"
  BY DEF RelationInv, LagInv
<1>2. PICK b \in Int :
        /\ consecutive_number = Num(b + sent)
        /\ \A u \in wire : u.cn = Num(b + u.payload - 1)
        /\ receiver.synchronised =>
             receiver.last_consecutive_number = Num(b + delivered - 1)
  BY DEF RelationInv, CountInv
<1>3. /\ receiver' = receive(receiver, t, now)
      /\ delivered' = IF receiver'.accepted # receiver.accepted
                      THEN t.payload ELSE delivered
      /\ UNCHANGED <<consecutive_number, sent, wire, now, due>>
  BY DEF Receive, senderVars
<1>4. WireInv'
  BY <1>3 DEF RelationInv, WireInv
<1>5. receiver' \in Receiver
  BY <1>1, <1>3, ReceiveEffect
<1>6. CASE ReceiveStatus(receiver, t, now) = "Valid"
  <2>1. receiver' = accept(receiver, t, now) /\ t \in wire /\ ~receiver.safe_state
    BY <1>1, <1>3, <1>6, ReceiveEffect, ValidMeans
  <2>2. /\ receiver'.synchronised /\ receiver'.last_consecutive_number = t.cn
        /\ receiver'.last_valid_ns = now /\ receiver'.accepted = receiver.accepted + 1
        /\ receiver'.last_fault = receiver.last_fault
    BY <1>1, <2>1 DEF accept, Receiver
  <2>3. delivered' = t.payload
    <3>1. receiver.accepted + 1 # receiver.accepted
      BY <1>1 DEF Receiver
    <3> QED BY <1>3, <2>2, <3>1
  <2>4. t.payload \in 1 .. sent /\ sent - t.payload < MaxLag
    BY <2>1 DEF RelationInv, WireInv
  <2>5. CountInv'
    BY <1>2, <1>3, <2>1, <2>2, <2>3 DEF CountInv
  <2>6. LagInv'
    BY <1>1, <1>3, <1>5, <2>1, <2>2, <2>3, <2>4, Constants DEF LagInv
  <2> QED BY <1>4, <2>5, <2>6 DEF RelationInv
<1>7. CASE ReceiveStatus(receiver, t, now) # "Valid"
  <2>1. /\ receiver'.accepted = receiver.accepted
        /\ receiver'.synchronised = receiver.synchronised
        /\ receiver'.last_consecutive_number = receiver.last_consecutive_number
        /\ receiver'.last_valid_ns = receiver.last_valid_ns
        /\ receiver' = receiver \/ receiver'.safe_state
    BY <1>1, <1>3, <1>7, ReceiveEffect
  <2>2. delivered' = delivered
    BY <1>3, <2>1
  <2>3. CountInv'
    BY <1>2, <1>3, <2>1, <2>2 DEF CountInv
  <2>4. LagInv'
    BY <1>1, <1>3, <1>5, <2>1, <2>2, Constants DEF LagInv
  <2> QED BY <1>4, <2>3, <2>4 DEF RelationInv
<1> QED BY <1>6, <1>7

(* encode() takes the next number of the count and falls due again only    *)
(* with the next cycle.                                                    *)
LEMMA EncodeStep ==
  ASSUME RelationInv, Encode
  PROVE  RelationInv'
<1>1. sent \in Nat /\ receiver \in Receiver /\ delivered \in Nat /\ now \in Nat
  BY DEF RelationInv, LagInv
<1>2. /\ "encode" \in due /\ due' = due \ {"encode"} /\ sent' = sent + 1
      /\ wire' = {t \in wire : sent' - t.payload < MaxLag}
                   \cup {Telegram(Address, sent', consecutive_number)}
      /\ consecutive_number' = Successor(consecutive_number)
      /\ UNCHANGED <<receiver, now, delivered>>
  BY DEF Encode, history
<1>3. PICK b \in Int :
        /\ consecutive_number = Num(b + sent)
        /\ \A t \in wire : t.cn = Num(b + t.payload - 1)
        /\ receiver.synchronised =>
             receiver.last_consecutive_number = Num(b + delivered - 1)
  BY DEF RelationInv, CountInv
<1>4. b + sent \in Int /\ b + sent' = (b + sent) + 1 /\ b + sent' - 1 = b + sent
  BY <1>1, <1>2, <1>3
<1>5. Num(b + sent) \in 0 .. Modulus - 1
  BY <1>4, NumType, Constants
<1> DEFINE u == Telegram(Address, sent', consecutive_number)
<1>6. u.payload = sent' /\ u.cn = consecutive_number
      /\ u = Telegram(Address, u.payload, u.cn)
  BY DEF Telegram
<1> HIDE DEF u
<1>7. \A t \in wire' : (t \in wire /\ sent' - t.payload < MaxLag) \/ t = u
  BY <1>2 DEF u
<1>8. CountInv'
  <2>1. consecutive_number' = Num(b + sent')
    BY <1>2, <1>3, <1>4, NumSuccessor
  <2>2. \A t \in wire' : t.cn = Num(b + t.payload - 1)
    BY <1>3, <1>4, <1>6, <1>7
  <2> QED BY <1>2, <1>3, <2>1, <2>2 DEF CountInv
<1>9. WireInv'
  <2>1. \A t \in wire : /\ t.payload \in 1 .. sent /\ t.cn \in 0 .. Modulus - 1
                        /\ t = Telegram(Address, t.payload, t.cn)
    BY DEF RelationInv, WireInv
  <2>2. sent' \in 1 .. sent' /\ sent' - sent' < MaxLag
    BY <1>1, <1>2, Constants
  <2>3. \A t \in wire : t.payload \in 1 .. sent'
    BY <1>1, <1>2, <2>1
  <2> QED BY <1>3, <1>5, <1>6, <1>7, <2>1, <2>2, <2>3 DEF WireInv
<1>10. LagInv'
  <2>1. "encode" \notin due' /\ ("poll" \in due' <=> "poll" \in due)
    BY <1>2
  <2> QED BY <1>1, <1>2, <2>1, Constants DEF RelationInv, LagInv, Receiver
<1> QED BY <1>8, <1>9, <1>10 DEF RelationInv

(* restartSequence() starts a count of its own, with nobody left who knows *)
(* the old one.                                                            *)
LEMMA RestartStep ==
  ASSUME RelationInv, NEW start \in Starts, RestartSequence(start)
  PROVE  RelationInv'
<1>1. sent \in Nat /\ start \in 1 .. Turn
  BY BlackChannelAssumption, Constants DEF RelationInv, LagInv, Numbers
<1>2. /\ ~receiver.synchronised /\ wire = {} /\ consecutive_number' = start
      /\ UNCHANGED <<sent, wire, receiver, now, due, delivered>>
  BY DEF RestartSequence, history
<1>3. CountInv'
  <2> DEFINE b == start - 1 - sent
  <2>1. start - 1 \in 0 .. Turn - 1 /\ b \in Int /\ b + sent' = start - 1
    BY <1>1, <1>2, Constants
  <2>2. (start - 1) % Turn = start - 1
    BY <2>1, Constants, WithinTurn, Zenon
  <2>3. consecutive_number' = Num(b + sent')
    BY <1>1, <1>2, <2>1, <2>2 DEF Num
  <2> HIDE DEF b
  <2> QED BY <1>2, <2>1, <2>3 DEF CountInv
<1>4. WireInv' /\ LagInv'
  BY <1>2 DEF RelationInv, WireInv, LagInv
<1> QED BY <1>3, <1>4 DEF RelationInv

(* poll() at most puts the receiver in its safe state, and does so when    *)
(* the watchdog period is over.                                            *)
LEMMA PollEffect ==
  ASSUME NEW r \in Receiver, NEW n \in Nat
  PROVE  LET q == poll(r, n) IN
         /\ q \in Receiver /\ q.accepted = r.accepted
         /\ q.synchronised = r.synchronised /\ q.last_valid_ns = r.last_valid_ns
         /\ q.last_consecutive_number = r.last_consecutive_number
         /\ q = r \/ q.safe_state
         /\ (q.synchronised /\ ~q.safe_state) => n - q.last_valid_ns <= Watchdog
<1>1. "Timeout" \in Rejections /\ "Loss" \in TransmissionFault
  BY DEF Rejections, TransmissionFault
<1>2. CASE ~r.safe_state /\ r.synchronised /\ n - r.last_valid_ns > Watchdog
  BY <1>1, <1>2, LatchType DEF poll
<1>3. CASE ~(~r.safe_state /\ r.synchronised /\ n - r.last_valid_ns > Watchdog)
  <2>1. poll(r, n) = r
    BY <1>3 DEF poll
  <2>2. (r.synchronised /\ ~r.safe_state) => n - r.last_valid_ns <= Watchdog
    BY <1>3, Constants DEF Receiver
  <2> QED BY <2>1, <2>2
<1> QED BY <1>2, <1>3

(* poll() may end the connection, and keeps what is known of it.           *)
LEMMA PollStep ==
  ASSUME RelationInv, Poll
  PROVE  RelationInv'
<1>1. now \in Nat /\ receiver \in Receiver /\ sent \in Nat /\ delivered \in Nat
  BY DEF RelationInv, LagInv
<1>2. /\ receiver' = poll(receiver, now) /\ due' = due \ {"poll"}
      /\ UNCHANGED <<consecutive_number, sent, wire, now, delivered>>
  BY DEF Poll, senderVars, history
<1>3. /\ receiver' \in Receiver
      /\ receiver'.synchronised = receiver.synchronised
      /\ receiver'.last_valid_ns = receiver.last_valid_ns
      /\ receiver'.last_consecutive_number = receiver.last_consecutive_number
      /\ receiver' = receiver \/ receiver'.safe_state
      /\ (receiver'.synchronised /\ ~receiver'.safe_state) =>
           now - receiver'.last_valid_ns <= Watchdog
  BY <1>1, <1>2, PollEffect
<1>4. "poll" \notin due' /\ ("encode" \in due' <=> "encode" \in due)
  BY <1>2
<1>5. CountInv'
  BY <1>2, <1>3 DEF RelationInv, CountInv
<1>6. WireInv'
  BY <1>2 DEF RelationInv, WireInv
<1>7. LagInv'
  BY <1>1, <1>2, <1>3, <1>4 DEF RelationInv, LagInv
<1> QED BY <1>5, <1>6, <1>7 DEF RelationInv

(* acknowledge() makes the receiver count afresh.                          *)
LEMMA AcknowledgeStep ==
  ASSUME RelationInv, Acknowledge
  PROVE  RelationInv'
<1>1. now \in Nat /\ receiver \in Receiver /\ sent \in Nat
  BY DEF RelationInv, LagInv
<1>2. /\ receiver' = acknowledgeAndReset(receiver, now) /\ delivered' = 0
      /\ UNCHANGED <<consecutive_number, sent, wire, now, due>>
  BY DEF Acknowledge, senderVars, NotSent
<1>3. /\ receiver' \in Receiver /\ ~receiver'.synchronised
      /\ receiver'.last_valid_ns = now /\ receiver'.last_fault = "None"
  <2>1. 0 \in 0 .. Modulus - 1 /\ "None" \in TransmissionFault
    BY Constants DEF TransmissionFault
  <2> QED BY <1>1, <1>2, <2>1 DEF acknowledgeAndReset, Receiver
<1>4. CountInv'
  BY <1>2, <1>3 DEF RelationInv, CountInv
<1>5. WireInv'
  BY <1>2 DEF RelationInv, WireInv
<1>6. LagInv'
  BY <1>1, <1>2, <1>3 DEF LagInv
<1> QED BY <1>4, <1>5, <1>6 DEF RelationInv

(* A cycle may end only when poll() has looked at the watchdog.            *)
LEMMA TickStep ==
  ASSUME RelationInv, Tick
  PROVE  RelationInv'
<1>1. now \in Nat /\ receiver \in Receiver /\ sent \in Nat /\ delivered \in Nat
  BY DEF RelationInv, LagInv
<1>2. /\ "poll" \notin due /\ now' = now + 1 /\ due' = {"encode", "poll"}
      /\ UNCHANGED <<consecutive_number, sent, wire, receiver, delivered>>
  BY DEF Tick, senderVars, history
<1>3. CountInv' /\ WireInv'
  BY <1>2 DEF RelationInv, CountInv, WireInv
<1>4. LagInv'
  <2>1. receiver.last_valid_ns \in Nat
    BY <1>1 DEF Receiver
  <2>2. receiver.last_valid_ns <= now
        /\ (receiver.synchronised /\ ~receiver.safe_state) =>
             /\ now - receiver.last_valid_ns <= Watchdog
             /\ sent - delivered < now - receiver.last_valid_ns
                                     + (IF "encode" \in due THEN MaxLag ELSE MaxLag + 1)
    BY <1>2 DEF RelationInv, LagInv
  <2>3. "poll" \in due' /\ "encode" \in due'
    BY <1>2
  <2> QED BY <1>1, <1>2, <2>1, <2>2, <2>3, Constants DEF RelationInv, LagInv
<1> QED BY <1>3, <1>4 DEF RelationInv

(* Every receive() of Next is of a telegram off the wire, or is refused.   *)
LEMMA ReceiveKinds ==
  ASSUME RelationInv, Deliver \/ DeliverDamaged \/ DeliverForeign
  PROVE  \E t : /\ t.cn \in 0 .. Modulus - 1 /\ Receive(t)
                /\ ReceiveStatus(receiver, t, now) = "Valid" => t \in wire
<1>1. /\ WireInv /\ CountInv /\ sent \in Nat /\ receiver \in Receiver
  BY DEF RelationInv, LagInv
<1>2. \A t \in wire : /\ t.cn \in 0 .. Modulus - 1
                      /\ [t EXCEPT !.payload = NotSent].cn = t.cn
                      /\ [t EXCEPT !.cn = Successor(t.cn)].cn = Successor(t.cn)
                      /\ [t EXCEPT !.sized = FALSE].cn = t.cn
  <2> SUFFICES ASSUME NEW t \in wire
               PROVE  /\ t.cn \in 0 .. Modulus - 1
                      /\ [t EXCEPT !.payload = NotSent].cn = t.cn
                      /\ [t EXCEPT !.cn = Successor(t.cn)].cn = Successor(t.cn)
                      /\ [t EXCEPT !.sized = FALSE].cn = t.cn
    OBVIOUS
  <2>1. /\ t.cn \in 0 .. Modulus - 1
        /\ t = [sized |-> TRUE, payload |-> t.payload, cn |-> t.cn,
                crc |-> computeTelegramCrc(Address, t.payload, t.cn)]
    BY <1>1 DEF WireInv, Telegram
  <2> QED BY <2>1
<1>3. CASE Deliver
  BY <1>2, <1>3 DEF Deliver
<1>4. CASE DeliverDamaged
  <2>1. PICK t \in wire : \/ Receive([t EXCEPT !.payload = NotSent])
                          \/ Receive([t EXCEPT !.cn = Successor(t.cn)])
                          \/ Receive([t EXCEPT !.sized = FALSE])
    BY <1>4 DEF DeliverDamaged
  <2> DEFINE u == [t EXCEPT !.payload = NotSent]
             v == [t EXCEPT !.cn = Successor(t.cn)]
             w == [t EXCEPT !.sized = FALSE]
  <2>2. /\ ReceiveStatus(receiver, u, now) # "Valid"
        /\ ReceiveStatus(receiver, v, now) # "Valid"
        /\ ReceiveStatus(receiver, w, now) # "Valid"
        /\ Successor(t.cn) \in 0 .. Modulus - 1
    BY <1>1, DamageIsRefused
  <2>3. u.cn \in 0 .. Modulus - 1 /\ v.cn \in 0 .. Modulus - 1 /\ w.cn \in 0 .. Modulus - 1
    BY <1>2, <2>2
  <2>4. Receive(u) \/ Receive(v) \/ Receive(w)
    BY <2>1
  <2> HIDE DEF u, v, w
  <2> QED BY <2>2, <2>3, <2>4
<1>5. CASE DeliverForeign
  <2> DEFINE u == Telegram(Foreign, NotSent, Expected(receiver))
             v == [sized |-> TRUE, payload |-> NotSent, cn |-> 0,
                   crc |-> <<Foreign, NotSent, 0>>]
  <2>1. Receive(u) \/ Receive(v)
    BY <1>5 DEF DeliverForeign
  <2>2. /\ ReceiveStatus(receiver, u, now) # "Valid"
        /\ ReceiveStatus(receiver, v, now) # "Valid"
    BY ForeignIsRefused
  <2>3. u.cn \in 0 .. Modulus - 1
    BY <1>1, SuccessorType DEF Expected, Receiver, Telegram
  <2>4. v.cn \in 0 .. Modulus - 1
    BY Constants
  <2> HIDE DEF u, v
  <2> QED BY <2>1, <2>2, <2>3, <2>4
<1> QED BY <1>3, <1>4, <1>5

(* Every step keeps the relation of sender, transport and receiver.        *)
LEMMA RelationStep ==
  ASSUME RelationInv, [Next]_vars
  PROVE  RelationInv'
<1>1. CASE Deliver \/ DeliverDamaged \/ DeliverForeign
  BY <1>1, ReceiveKinds, ReceiveStep
<1>2. CASE Lose
  BY <1>2 DEF Lose, senderVars, history, RelationInv, CountInv, WireInv, LagInv
<1>3. CASE UNCHANGED vars
  BY <1>3 DEF vars, senderVars, history, RelationInv, CountInv, WireInv, LagInv
<1> QED BY <1>1, <1>2, <1>3, EncodeStep, RestartStep, PollStep, AcknowledgeStep, TickStep
        DEF Next
-----------------------------------------------------------------------------
(* Where a telegram stands that reaches a receiver in time: i steps into   *)
(* the count, when the receiver waits for step j.                          *)
LEMMA InTime ==
  ASSUME RelationInv, NEW t \in wire, receiver.synchronised, ~receiver.safe_state,
         ~(now - receiver.last_valid_ns > Watchdog)
  PROVE  \E i, j \in Int :
           /\ i - j = t.payload - delivered - 1
           /\ i - j < MaxLag + Watchdog /\ j - i <= MaxLag
           /\ t.cn = Num(i) /\ Expected(receiver) = Num(j)
           /\ receiver.last_consecutive_number = Num(j - 1)
<1>1. PICK b \in Int :
        /\ \A u \in wire : u.cn = Num(b + u.payload - 1)
        /\ receiver.last_consecutive_number = Num(b + delivered - 1)
  BY DEF RelationInv, CountInv
<1>2. t.payload \in 1 .. sent /\ sent - t.payload < MaxLag
  BY DEF RelationInv, WireInv
<1>3. /\ sent \in Nat /\ delivered \in 1 .. sent /\ now \in Nat
      /\ receiver.last_valid_ns \in Nat
      /\ sent - delivered < now - receiver.last_valid_ns
                              + (IF "encode" \in due THEN MaxLag ELSE MaxLag + 1)
  BY DEF RelationInv, LagInv, Receiver
<1> DEFINE i == b + t.payload - 1
           j == b + delivered
<1>4. i \in Int /\ j \in Int /\ j - 1 \in Int /\ (j - 1) + 1 = j
  BY <1>1, <1>2, <1>3
<1>5. i - j = t.payload - delivered - 1
  BY <1>1, <1>2, <1>3
<1>6. t.payload - delivered - 1 < MaxLag + Watchdog
      /\ delivered + 1 - t.payload <= MaxLag
  BY <1>2, <1>3, Constants
<1>7. j - i = delivered + 1 - t.payload
  BY <1>1, <1>2, <1>3
<1>8. t.cn = Num(i) /\ receiver.last_consecutive_number = Num(j - 1)
  BY <1>1, <1>2, <1>3
<1> HIDE DEF i, j
<1>9. Expected(receiver) = Num(j)
  BY <1>4, <1>8, NumSuccessor DEF Expected
<1> QED BY <1>4, <1>5, <1>6, <1>7, <1>8, <1>9

(* The signed difference of two numbers of the count has the sign of their *)
(* distance, and counts the skipped zero when they lie across the wrap.    *)
LEMMA SignedOfCount ==
  ASSUME NEW i \in Int, NEW j \in Int, i - j < MaxLag + Watchdog, j - i <= MaxLag
  PROVE  /\ i > j => SignedDifference(Num(i), Num(j)) =
                       IF Num(i) < Num(j) THEN i - j + 1 ELSE i - j
         /\ i < j => SignedDifference(Num(i), Num(j)) < 0
<1>1. Num(i) \in 1 .. Turn /\ Num(j) \in 1 .. Turn
  BY NumType
<1> DEFINE x == Num(i) - Num(j)
           d == x % Modulus
<1>2. x \in Int /\ -Modulus < x /\ x < Modulus
  BY <1>1, Constants
<1>3. SignedDifference(Num(i), Num(j)) = IF 2 * d >= Modulus THEN d - Modulus ELSE d
  BY DEF SignedDifference
<1>4. i > j => x \in {i - j, i - j - Turn}
  <2> SUFFICES ASSUME i > j PROVE Num(i) - Num(j) \in {i - j, i - j - Turn}
    OBVIOUS
  <2>1. i - j \in 0 .. Turn - 1
    BY Constants
  <2> QED BY <2>1, NumApart
<1>5. i < j => x \in {i - j, i - j + Turn}
  <2> SUFFICES ASSUME i < j PROVE x \in {i - j, i - j + Turn}
    OBVIOUS
  <2>1. j - i \in 0 .. Turn - 1
    BY Constants
  <2>2. Num(j) - Num(i) \in {j - i, j - i - Turn}
    BY <2>1, NumApart
  <2> QED BY <1>1, <2>2, Constants
<1> HIDE DEF x
<1>6. x >= 0 => d = x
  <2> SUFFICES ASSUME x >= 0 PROVE x % Modulus = x
    OBVIOUS
  <2>1. x \in 0 .. Modulus - 1
    BY <1>2, Constants
  <2> QED BY <2>1, Constants, WithinTurn, Zenon
<1>7. x < 0 => d = x + Modulus
  <2> SUFFICES ASSUME x < 0 PROVE x % Modulus = x + Modulus
    OBVIOUS
  <2>1. x = Modulus * (-1) + (x + Modulus) /\ x + Modulus \in 0 .. Modulus - 1
        /\ -1 \in Int
    BY <1>2, Constants
  <2>2. (Modulus * (-1) + (x + Modulus)) % Modulus = x + Modulus
    BY <2>1, Constants, OnlyRemainder, Zenon
  <2> QED BY <2>1, <2>2
<1> HIDE DEF d
<1>8. Num(i) < Num(j) <=> x < 0
  BY <1>1 DEF x
<1> QED BY <1>2, <1>3, <1>4, <1>5, <1>6, <1>7, <1>8, Constants

(* A telegram in transit whose number the receiver waits for, or had last, *)
(* is the one that number was given to.                                    *)
LEMMA NumberNamesPayload ==
  ASSUME RelationInv, NEW t \in wire, receiver.synchronised, ~receiver.safe_state,
         ~(now - receiver.last_valid_ns > Watchdog)
  PROVE  /\ t.cn = Expected(receiver) <=> t.payload = delivered + 1
         /\ t.cn = receiver.last_consecutive_number <=> t.payload = delivered
<1>1. PICK i, j \in Int :
        /\ i - j = t.payload - delivered - 1
        /\ i - j < MaxLag + Watchdog /\ j - i <= MaxLag
        /\ t.cn = Num(i) /\ Expected(receiver) = Num(j)
        /\ receiver.last_consecutive_number = Num(j - 1)
  BY InTime
<1>2. t.payload \in Nat /\ delivered \in Nat
  BY DEF RelationInv, WireInv, LagInv
<1>3. Num(i) = Num(j) <=> i = j
  <2>1. CASE i - j \in 0 .. Turn - 1
    BY <2>1, NumApart
  <2>2. CASE j - i \in 0 .. Turn - 1
    BY <2>2, NumApart
  <2> QED BY <1>1, <2>1, <2>2, Constants
<1>4. Num(i) = Num(j - 1) <=> i = j - 1
  <2>1. j - 1 \in Int
    OBVIOUS
  <2>2. CASE i - (j - 1) \in 0 .. Turn - 1
    BY <2>1, <2>2, NumApart
  <2>3. CASE (j - 1) - i \in 0 .. Turn - 1
    BY <2>1, <2>3, NumApart
  <2> QED BY <1>1, <2>2, <2>3, Constants
<1> QED BY <1>1, <1>2, <1>3, <1>4

(* What SequenceVerdictIsTrue says of one telegram.                        *)
LEMMA Verdict ==
  ASSUME RelationInv, NEW t \in wire, NEW q, q = receive(receiver, t, now), q # receiver
  PROVE  CASE q.last_fault = "UnintendedRepetition" -> t.payload = delivered
           [] q.last_fault = "IncorrectSequence"    -> t.payload < delivered
           [] q.rejected["SequenceGap"] # receiver.rejected["SequenceGap"]
                -> LET skipped == t.payload - delivered - 1 IN
                   /\ skipped > 0
                   /\ q.telegrams_lost - receiver.telegrams_lost =
                        IF SpansZero(receiver, t.cn) THEN skipped + 1 ELSE skipped
           [] OTHER -> TRUE
<1> DEFINE s == ReceiveStatus(receiver, t, now)
           d == delta(receiver, t)
           spans == SpansZero(receiver, t.cn)
           l == latch(receiver, s, FaultFor(s))
           skipped == t.payload - delivered - 1
<1>1. /\ receiver \in Receiver /\ t.payload \in Nat /\ delivered \in Nat
      /\ ~receiver.safe_state => receiver.last_fault = "None"
  BY DEF RelationInv, WireInv, LagInv
<1>2. s \in {"InSafeState", "Valid"} \cup Rejections
  BY DEF ReceiveStatus, Rejections
<1>3. /\ s = "InSafeState" => q = receiver
      /\ s = "Valid" => q = accept(receiver, t, now)
      /\ s = "SequenceGap" => q = [l EXCEPT !.telegrams_lost = @ + d]
      /\ s \in Rejections \ {"SequenceGap"} => q = l
  BY <1>2 DEF receive, Rejections
<1>4. s \in {"Repetition", "OutOfOrder", "SequenceGap"} =>
        /\ receiver.synchronised /\ ~receiver.safe_state
        /\ ~(now - receiver.last_valid_ns > Watchdog)
        /\ t.cn # Expected(receiver)
  BY DEF ReceiveStatus
<1>5. /\ s = "Repetition" => t.cn = receiver.last_consecutive_number
      /\ s \in {"OutOfOrder", "SequenceGap"} => t.cn # receiver.last_consecutive_number
      /\ s = "OutOfOrder" => d < 0
      /\ s = "SequenceGap" => ~(d < 0)
  BY DEF ReceiveStatus
<1>6. s = "Valid" => ~receiver.safe_state
  BY ValidMeans
<1>7. s \in Rejections =>
        /\ FaultFor(s) \in TransmissionFault
        /\ l \in Receiver /\ l.last_fault = FaultFor(s)
        /\ l.telegrams_lost = receiver.telegrams_lost
        /\ l.rejected = [receiver.rejected EXCEPT ![s] = @ + 1]
  <2>1. s \in Rejections => FaultFor(s) \in TransmissionFault
    BY DEF FaultFor, Rejections, TransmissionFault
  <2> QED BY <1>1, <2>1, LatchType
<1>8. /\ s = "Repetition" => FaultFor(s) = "UnintendedRepetition"
      /\ s = "OutOfOrder" => FaultFor(s) = "IncorrectSequence"
      /\ s = "SequenceGap" => FaultFor(s) = "Loss"
      /\ s \in {"Malformed", "CrcMismatch"} => FaultFor(s) = "Corruption"
      /\ s = "Timeout" => FaultFor(s) = "UnacceptableDelay"
  BY DEF FaultFor
<1>9. receiver.rejected \in [Rejections -> Nat] /\ receiver.telegrams_lost \in Nat
  BY <1>1 DEF Receiver
<1> HIDE DEF s, d, l, skipped, spans
<1>10. CASE s = "Valid"
  <2>1. q.last_fault = "None" /\ q.rejected = receiver.rejected
    BY <1>1, <1>3, <1>6, <1>10 DEF accept, Receiver
  <2> QED BY <2>1
<1>11. CASE s \in {"Malformed", "CrcMismatch", "Timeout"}
  <2>1. /\ q.last_fault \in {"Corruption", "UnacceptableDelay"}
        /\ q.rejected["SequenceGap"] = receiver.rejected["SequenceGap"]
    BY <1>3, <1>7, <1>8, <1>9, <1>11 DEF Rejections
  <2> QED BY <2>1
<1>12. CASE s = "Repetition"
  <2>1. /\ q.last_fault = "UnintendedRepetition"
        /\ q.rejected["SequenceGap"] = receiver.rejected["SequenceGap"]
    BY <1>3, <1>7, <1>8, <1>9, <1>12 DEF Rejections
  <2>2. t.payload = delivered
    BY <1>4, <1>5, <1>12, NumberNamesPayload
  <2> QED BY <2>1, <2>2
<1>13. ASSUME s \in {"OutOfOrder", "SequenceGap"}
       PROVE  /\ skipped > 0 => d = IF spans THEN skipped + 1 ELSE skipped
              /\ skipped < 0 => d < 0
              /\ skipped # 0 /\ t.payload # delivered
              /\ skipped \in Int
  <2>1. PICK i, j \in Int :
          /\ i - j = t.payload - delivered - 1
          /\ i - j < MaxLag + Watchdog /\ j - i <= MaxLag
          /\ t.cn = Num(i) /\ Expected(receiver) = Num(j)
    BY <1>4, <1>13, InTime
  <2>2. /\ i > j => d = IF spans THEN i - j + 1 ELSE i - j
        /\ i < j => d < 0
    <3>1. d = SignedDifference(Num(i), Num(j)) /\ (spans <=> Num(i) < Num(j))
      BY <2>1 DEF d, delta, spans, SpansZero, Expected
    <3> QED BY <2>1, <3>1, SignedOfCount
  <2>3. t.payload # delivered + 1 /\ t.payload # delivered
    BY <1>4, <1>5, <1>13, NumberNamesPayload
  <2> QED BY <1>1, <2>1, <2>2, <2>3 DEF skipped
<1>14. CASE s = "OutOfOrder"
  <2>1. /\ q.last_fault = "IncorrectSequence"
        /\ q.rejected["SequenceGap"] = receiver.rejected["SequenceGap"]
    BY <1>3, <1>7, <1>8, <1>9, <1>14 DEF Rejections
  <2>2. t.payload < delivered
    BY <1>1, <1>5, <1>13, <1>14 DEF skipped
  <2> QED BY <2>1, <2>2
<1>15. CASE s = "SequenceGap"
  <2>1. q = [l EXCEPT !.telegrams_lost = @ + d] /\ l \in Receiver
        /\ l.last_fault = "Loss" /\ l.telegrams_lost = receiver.telegrams_lost
    BY <1>3, <1>7, <1>8, <1>15 DEF Rejections
  <2>2. q.last_fault = "Loss" /\ q.telegrams_lost = receiver.telegrams_lost + d
    BY <2>1 DEF Receiver
  <2>3. skipped > 0 /\ (d = IF spans THEN skipped + 1 ELSE skipped) /\ skipped \in Int
    BY <1>5, <1>13, <1>15
  <2>4. q.telegrams_lost - receiver.telegrams_lost = IF spans THEN skipped + 1 ELSE skipped
    BY <1>9, <2>2, <2>3
  <2> QED BY <2>2, <2>3, <2>4 DEF skipped, spans
<1> QED BY <1>2, <1>3, <1>10, <1>11, <1>12, <1>14, <1>15 DEF Rejections
-----------------------------------------------------------------------------
(* The inductive invariant holds of every behaviour.                       *)
THEOREM RelationInvariant == Spec => []RelationInv
<1> QED BY InitRelation, RelationStep, PTL DEF Spec

(* REQ-SAF-006: the watchdog bounds the silence of a synchronised receiver *)
(* that polls in every cycle.                                              *)
THEOREM SilenceIsNoticed == Spec => []SilenceIsBounded
<1>1. RelationInv => SilenceIsBounded
  BY DEF RelationInv, LagInv, SilenceIsBounded
<1> QED BY <1>1, RelationInvariant, PTL

(* REQ-SAF-001, 003, 004, 008 and 009: what is accepted is ours and in     *)
(* order, across any number of wraps.                                      *)
THEOREM AcceptedInOrder == Spec => DeliveredInOrder
<1>1. RelationInv /\ [Next]_vars =>
        [receiver'.accepted # receiver.accepted =>
           /\ delivered' \in 1 .. sent
           /\ receiver.synchronised => delivered' = delivered + 1]_vars
  <2> SUFFICES ASSUME RelationInv, Next, receiver'.accepted # receiver.accepted
               PROVE  /\ delivered' \in 1 .. sent
                      /\ receiver.synchronised => delivered' = delivered + 1
    OBVIOUS
  <2>1. receiver \in Receiver /\ now \in Nat
    BY DEF RelationInv, LagInv
  <2>2. ~Poll
    BY <2>1, PollEffect DEF Poll
  <2>3. ~Acknowledge
    BY <2>1 DEF Acknowledge, acknowledgeAndReset, Receiver
  <2>4. Deliver \/ DeliverDamaged \/ DeliverForeign
    BY <2>2, <2>3 DEF Next, Encode, RestartSequence, Lose, Tick
  <2>5. PICK t : /\ t.cn \in 0 .. Modulus - 1 /\ Receive(t)
                 /\ ReceiveStatus(receiver, t, now) = "Valid" => t \in wire
    BY <2>4, ReceiveKinds
  <2>6. ReceiveStatus(receiver, t, now) = "Valid"
    BY <2>1, <2>5, ReceiveEffect DEF Receive
  <2>7. t \in wire /\ delivered' = t.payload
    BY <2>5, <2>6 DEF Receive
  <2>8. t.payload \in 1 .. sent
    BY <2>7 DEF RelationInv, WireInv
  <2>9. receiver.synchronised => t.payload = delivered + 1
    BY <2>6, <2>7, ValidMeans, NumberNamesPayload
  <2> QED BY <2>7, <2>8, <2>9
<1> QED BY <1>1, RelationInvariant, PTL DEF Spec, DeliveredInOrder

(* REQ-SAF-003 to 005: the verdict on a telegram that comes out of turn    *)
(* names what happened to it, and the loss count is exact but for the zero *)
(* of the wrap.                                                            *)
THEOREM VerdictsAreTrue == Spec => SequenceVerdictIsTrue
<1>1. RelationInv =>
       \A t \in wire :
         receiver' # receiver /\ receiver' = receive(receiver, t, now) =>
           CASE receiver'.last_fault = "UnintendedRepetition" -> t.payload = delivered
             [] receiver'.last_fault = "IncorrectSequence"    -> t.payload < delivered
             [] receiver'.rejected["SequenceGap"] # receiver.rejected["SequenceGap"]
                  -> LET skipped == t.payload - delivered - 1 IN
                     /\ skipped > 0
                     /\ receiver'.telegrams_lost - receiver.telegrams_lost =
                          IF SpansZero(receiver, t.cn) THEN skipped + 1 ELSE skipped
             [] OTHER -> TRUE
  BY Verdict
<1> QED BY <1>1, RelationInvariant, PTL DEF Spec, SequenceVerdictIsTrue
-----------------------------------------------------------------------------
(* The position a count of pushes or pops comes to, and its slot.          *)
Pos(n)  == n % PosModulus
Cell(n) == n % Capacity

(* Each position is the counter it stands for.  What a side believes of    *)
(* the other was true once and errs to the safe side: the producer's copy  *)
(* is of an earlier count of pops, with which the ring is not overfull,    *)
(* the consumer's of an earlier count of pushes.  A side that has decided  *)
(* to use its slot has room, or an element, by its own copy.               *)
PositionInv ==
  /\ pushed \in Nat /\ popped \in Nat
  /\ producer \in {"idle", "refresh", "slot", "publish"}
  /\ consumer \in {"idle", "refresh", "slot", "publish"}
  /\ write_pos = Pos(pushed) /\ read_pos = Pos(popped)
  /\ \E c \in Nat :
       /\ cached_read_pos = Pos(c)
       /\ c <= popped /\ pushed - c <= Capacity
       /\ producer \in {"slot", "publish"} => pushed - c < Capacity
  /\ \E d \in Nat :
       /\ cached_write_pos = Pos(d)
       /\ popped <= d /\ d <= pushed
       /\ consumer \in {"slot", "publish"} => popped < d

(* The last element written to its slot.                                   *)
Written == IF producer = "publish" THEN pushed + 1 ELSE pushed

(* Element n lies in slot n - 1 from the moment it is written, before it   *)
(* is published, until it is taken, before that is published.              *)
ContentsInv ==
  /\ slots \in [Index -> Nat] /\ out \in Nat
  /\ \A n \in Nat :
       /\ popped < n /\ n <= Written
       /\ consumer = "publish" => n # popped + 1
       => slots[Cell(n - 1)] = n
  /\ consumer = "publish" => taken = popped + 1

RingInv == PositionInv /\ ContentsInv
-----------------------------------------------------------------------------

(* The slot of a position is the slot of what it counts, as PosModulus is  *)
(* a multiple of Capacity.                                                 *)
LEMMA SlotOfPosition ==
  ASSUME NEW n \in Int
  PROVE  Slot(Pos(n)) = Cell(n) /\ Cell(n) \in Index
<1> DEFINE q == n \div PosModulus
           r == n % PosModulus
           k == PosModulus \div Capacity
           i == r \div Capacity
           j == r % Capacity
<1>1. Capacity \in Nat \ {0} /\ PosModulus \in Nat \ {0} /\ PosModulus % Capacity = 0
  BY SpscAssumption
<1>2. r \in 0 .. PosModulus - 1 /\ n = PosModulus * q + r /\ q \in Int
  BY <1>1, Remainder
<1>3. PosModulus = Capacity * k + 0 /\ k \in Int
  BY <1>1, Remainder
<1>4. j \in 0 .. Capacity - 1 /\ r = Capacity * i + j /\ i \in Int
  BY <1>1, <1>2, Remainder
<1> HIDE DEF q, r, k, i, j
<1>5. n = (Capacity * k) * q + (Capacity * i + j)
  <2>1. PosModulus = Capacity * k
    BY <1>1, <1>3
  <2>2. n = PosModulus * q + (Capacity * i + j)
    BY <1>2, <1>4
  <2> QED BY <2>1, <2>2
<1>6. (Capacity * k) * q = Capacity * (k * q) /\ k * q \in Int
  BY <1>1, <1>2, <1>3
<1>7. n = Capacity * (k * q + i) + j /\ k * q + i \in Int
  BY <1>1, <1>4, <1>5, <1>6
<1>8. n % Capacity = j
  <2> DEFINE z == k * q + i
  <2>1. z \in Int /\ n = Capacity * z + j
    BY <1>7
  <2> HIDE DEF z
  <2> QED BY <1>1, <1>4, <2>1, OnlyRemainder
<1> QED BY <1>4, <1>8 DEF Slot, Pos, Cell, Index, j, r
-----------------------------------------------------------------------------
(* What the assumptions on the constants of the ring come to.              *)
LEMMA RingConstants ==
  /\ Capacity \in Nat /\ Capacity \in Nat \ {0} /\ Capacity > 0
  /\ PosModulus \in Nat /\ PosModulus \in Nat \ {0} /\ PosModulus > Capacity
BY SpscAssumption

(* The ring holds no more than it can and no less than nothing; a side at  *)
(* its slot has room, or an element.                                       *)
LEMMA Fill ==
  ASSUME PositionInv
  PROVE  /\ popped <= pushed /\ pushed - popped <= Capacity
         /\ producer \in {"slot", "publish"} => pushed - popped < Capacity
         /\ consumer \in {"slot", "publish"} => popped < pushed
BY RingConstants DEF PositionInv

(* LooksFull() decides on the numbers of pushes and pops as if the         *)
(* positions did not wrap.                                                 *)
LEMMA FullMeansFull ==
  ASSUME NEW c \in Nat, NEW n \in Nat, c <= n, n - c <= Capacity
  PROVE  LooksFull(Pos(n), Pos(c)) <=> n - c = Capacity
<1>1. n - c \in 0 .. PosModulus - 1 /\ n \in Int /\ c \in Int
  BY RingConstants
<1>2. (Pos(n) - Pos(c)) % PosModulus = n - c
  BY <1>1, RingConstants, Difference, Zenon DEF Pos
<1> QED BY <1>2, RingConstants DEF LooksFull

(* The emptiness test of tryPop() likewise.                                *)
LEMMA EmptyMeansEmpty ==
  ASSUME NEW d \in Nat, NEW n \in Nat, n <= d, d - n <= Capacity
  PROVE  Pos(n) = Pos(d) <=> n = d
<1>1. d - n \in 0 .. PosModulus - 1 /\ n \in Int /\ d \in Int
  BY RingConstants
<1> QED BY <1>1, RingConstants, SameRemainder, Zenon DEF Pos

(* Two elements in the ring at once are in different slots.                *)
LEMMA SlotsApart ==
  ASSUME NEW a \in Int, NEW b \in Int, a - b \in 1 .. Capacity - 1
  PROVE  Cell(a) # Cell(b)
<1>1. a - b \in 0 .. Capacity - 1 /\ a # b
  BY RingConstants
<1> QED BY <1>1, RingConstants, SameRemainder, Zenon DEF Cell

(* What the store of a position does to it.                                *)
LEMMA NextPosition ==
  ASSUME NEW n \in Nat
  PROVE  (Pos(n) + 1) % PosModulus = Pos(n + 1)
<1>1. n \in Int
  OBVIOUS
<1> QED BY <1>1, RingConstants, NextRemainder, Zenon DEF Pos

(* An empty ring satisfies the invariant.                                  *)
LEMMA InitRing == RingInit => RingInv
<1> SUFFICES ASSUME RingInit PROVE RingInv
  OBVIOUS
<1>1. Pos(0) = 0
  <2>1. PosModulus * 0 + 0 = 0
    BY RingConstants
  <2> QED BY <2>1, RingConstants, OnlyRemainder DEF Pos
<1>2. PositionInv
  BY <1>1, RingConstants DEF RingInit, PositionInv
<1>3. ContentsInv
  BY DEF RingInit, ContentsInv, Written, MovedFrom
<1> QED BY <1>2, <1>3 DEF RingInv

(* Every step keeps the positions.                                         *)
LEMMA PositionStep ==
  ASSUME PositionInv, [RingNext]_ring
  PROVE  PositionInv'
<1> USE RingConstants
<1>1. PICK c \in Nat :
        /\ cached_read_pos = Pos(c)
        /\ c <= popped /\ pushed - c <= Capacity
        /\ producer \in {"slot", "publish"} => pushed - c < Capacity
  BY DEF PositionInv
<1>2. PICK d \in Nat :
        /\ cached_write_pos = Pos(d)
        /\ popped <= d /\ d <= pushed
        /\ consumer \in {"slot", "publish"} => popped < d
  BY DEF PositionInv
<1>3. /\ pushed \in Nat /\ popped \in Nat
      /\ producer \in {"idle", "refresh", "slot", "publish"}
      /\ consumer \in {"idle", "refresh", "slot", "publish"}
      /\ write_pos = Pos(pushed) /\ read_pos = Pos(popped)
  BY DEF PositionInv
<1>4. /\ c <= pushed /\ d - popped <= Capacity
      /\ popped <= pushed /\ pushed - popped <= Capacity
  BY <1>1, <1>2, <1>3
<1>5. CASE PushBegin
  <2>1. LooksFull(write_pos, cached_read_pos) <=> pushed - c = Capacity
    BY <1>1, <1>3, <1>4, FullMeansFull
  <2> QED BY <1>1, <1>2, <1>3, <1>5, <2>1 DEF PushBegin, consumerVars, PositionInv
<1>6. CASE PushRefresh
  <2>1. LooksFull(write_pos, read_pos) <=> pushed - popped = Capacity
    BY <1>3, <1>4, FullMeansFull
  <2> QED BY <1>2, <1>3, <1>4, <1>6, <2>1 DEF PushRefresh, consumerVars, PositionInv
<1>7. CASE PushSlot
  BY <1>1, <1>2, <1>3, <1>7 DEF PushSlot, consumerVars, PositionInv
<1>8. CASE PushPublish
  <2>1. write_pos' = Pos(pushed + 1)
    BY <1>3, <1>8, NextPosition DEF PushPublish
  <2> QED BY <1>1, <1>2, <1>3, <1>8, <2>1 DEF PushPublish, consumerVars, PositionInv
<1>9. CASE PopBegin
  <2>1. read_pos = cached_write_pos <=> popped = d
    BY <1>2, <1>3, <1>4, EmptyMeansEmpty
  <2> QED BY <1>1, <1>2, <1>3, <1>9, <2>1 DEF PopBegin, producerVars, PositionInv
<1>10. CASE PopRefresh
  <2>1. read_pos = write_pos <=> popped = pushed
    BY <1>3, <1>4, EmptyMeansEmpty
  <2> QED BY <1>1, <1>3, <1>4, <1>10, <2>1 DEF PopRefresh, producerVars, PositionInv
<1>11. CASE PopSlot
  BY <1>1, <1>2, <1>3, <1>11 DEF PopSlot, producerVars, PositionInv
<1>12. CASE PopPublish
  <2>1. read_pos' = Pos(popped + 1)
    BY <1>3, <1>12, NextPosition DEF PopPublish
  <2> QED BY <1>1, <1>2, <1>3, <1>12, <2>1 DEF PopPublish, producerVars, PositionInv
<1>13. CASE UNCHANGED ring
  BY <1>1, <1>2, <1>3, <1>13 DEF ring, producerVars, consumerVars, PositionInv
<1> QED BY <1>5, <1>6, <1>7, <1>8, <1>9, <1>10, <1>11, <1>12, <1>13 DEF RingNext, Push, Pop

(* Every step keeps the contents: a write goes to a slot no element is in, *)
(* and a pop empties the slot of the oldest.                               *)
LEMMA ContentsStep ==
  ASSUME PositionInv, ContentsInv, [RingNext]_ring
  PROVE  ContentsInv'
<1> USE RingConstants
<1>1. /\ pushed \in Nat /\ popped \in Nat
      /\ write_pos = Pos(pushed) /\ read_pos = Pos(popped)
  BY DEF PositionInv
<1>2. /\ popped <= pushed /\ pushed - popped <= Capacity
      /\ producer \in {"slot", "publish"} => pushed - popped < Capacity
      /\ consumer \in {"slot", "publish"} => popped < pushed
  BY Fill
<1>3. /\ Slot(write_pos) = Cell(pushed) /\ Slot(read_pos) = Cell(popped)
      /\ Cell(pushed) \in Index /\ Cell(popped) \in Index
  BY <1>1, SlotOfPosition
<1>4. \A n \in Nat \ {0} : Cell(n - 1) \in Index
  BY SlotOfPosition
<1>5. /\ slots \in [Index -> Nat] /\ out \in Nat
      /\ consumer = "publish" => taken = popped + 1
  BY DEF ContentsInv
<1>6. \A n \in Nat : (/\ popped < n /\ n <= Written
                      /\ consumer = "publish" => n # popped + 1)
                     => slots[Cell(n - 1)] = n
  BY DEF ContentsInv
<1>7. CASE PushBegin \/ PushRefresh \/ PopBegin \/ PopRefresh \/ UNCHANGED ring
  <2>1. UNCHANGED <<slots, out, taken, pushed, popped>>
    BY <1>7 DEF PushBegin, PushRefresh, PopBegin, PopRefresh, ring, producerVars,
                consumerVars
  <2>2. /\ producer' = "publish" <=> producer = "publish"
        /\ consumer' = "publish" <=> consumer = "publish"
    BY <1>7 DEF PushBegin, PushRefresh, PopBegin, PopRefresh, ring, producerVars,
                consumerVars
  <2>3. Written' = Written
    BY <2>1, <2>2 DEF Written
  <2> QED BY <1>5, <1>6, <2>1, <2>2, <2>3 DEF ContentsInv
<1>8. CASE PushSlot
  <2>1. /\ slots' = [slots EXCEPT ![Cell(pushed)] = pushed + 1]
        /\ producer = "slot" /\ producer' = "publish"
        /\ UNCHANGED <<out, taken, pushed, popped, consumer>>
    BY <1>3, <1>8 DEF PushSlot, consumerVars
  <2>2. slots' \in [Index -> Nat]
    BY <1>1, <1>3, <1>5, <2>1
  <2>3. Written = pushed /\ Written' = pushed + 1
    BY <2>1 DEF Written
  <2>4. ASSUME NEW n \in Nat, popped < n, n <= pushed + 1, consumer = "publish" => n # popped + 1
        PROVE  slots'[Cell(n - 1)] = n
    <3>1. CASE n = pushed + 1
      BY <1>1, <1>3, <1>5, <2>1, <3>1
    <3>2. CASE n <= pushed
      <4>1. pushed - (n - 1) \in 1 .. Capacity - 1 /\ n - 1 \in Int /\ pushed \in Int
        BY <1>1, <1>2, <2>1, <2>4, <3>2
      <4>2. Cell(pushed) # Cell(n - 1)
        BY <4>1, SlotsApart
      <4>3. slots[Cell(n - 1)] = n /\ Cell(n - 1) \in Index
        BY <1>1, <1>4, <1>6, <2>3, <2>4, <3>2
      <4> QED BY <1>5, <2>1, <4>2, <4>3
    <3> QED BY <1>1, <2>4, <3>1, <3>2
  <2> QED BY <1>5, <2>1, <2>2, <2>3, <2>4 DEF ContentsInv
<1>9. CASE PushPublish
  <2>1. /\ producer = "publish" /\ producer' = "idle" /\ pushed' = pushed + 1
        /\ UNCHANGED <<slots, out, taken, popped, consumer>>
    BY <1>9 DEF PushPublish, consumerVars
  <2>2. Written' = Written
    BY <2>1 DEF Written
  <2> QED BY <1>5, <1>6, <2>1, <2>2 DEF ContentsInv
<1>10. CASE PopSlot
  <2>1. /\ slots' = [slots EXCEPT ![Cell(popped)] = 0] /\ taken' = slots[Cell(popped)]
        /\ consumer = "slot" /\ consumer' = "publish"
        /\ UNCHANGED <<out, pushed, popped, producer>>
    BY <1>3, <1>10 DEF PopSlot, producerVars, MovedFrom
  <2>2. slots' \in [Index -> Nat]
    BY <1>3, <1>5, <2>1
  <2>3. Written' = Written /\ popped + 1 <= Written /\ Written - popped <= Capacity
    BY <1>1, <1>2, <2>1 DEF Written
  <2>4. Written \in Nat
    BY <1>1 DEF Written
  <2>5. taken' = popped + 1
    <3>1. popped + 1 \in Nat /\ (popped + 1) - 1 = popped /\ popped < popped + 1
      BY <1>1
    <3>2. slots[Cell((popped + 1) - 1)] = popped + 1
      BY <1>6, <2>1, <2>3, <3>1
    <3> QED BY <2>1, <3>1, <3>2
  <2>6. ASSUME NEW n \in Nat, popped < n, n <= Written, n # popped + 1
        PROVE  slots'[Cell(n - 1)] = n
    <3>1. (n - 1) - popped \in 1 .. Capacity - 1 /\ n - 1 \in Int /\ popped \in Int
      BY <1>1, <2>3, <2>4, <2>6
    <3>2. Cell(n - 1) # Cell(popped)
      BY <3>1, SlotsApart
    <3>3. slots[Cell(n - 1)] = n /\ Cell(n - 1) \in Index
      BY <1>1, <1>4, <1>6, <2>6
    <3> QED BY <1>5, <2>1, <3>2, <3>3
  <2> QED BY <1>5, <2>1, <2>2, <2>3, <2>5, <2>6 DEF ContentsInv
<1>11. CASE PopPublish
  <2>1. /\ consumer = "publish" /\ consumer' = "idle" /\ popped' = popped + 1
        /\ out' = taken
        /\ UNCHANGED <<slots, taken, pushed, producer>>
    BY <1>11 DEF PopPublish, producerVars
  <2>2. Written' = Written
    BY <2>1 DEF Written
  <2>3. \A n \in Nat : popped + 1 < n => popped < n /\ n # popped + 1
    BY <1>1
  <2> QED BY <1>1, <1>5, <1>6, <2>1, <2>2, <2>3 DEF ContentsInv
<1> QED BY <1>7, <1>8, <1>9, <1>10, <1>11 DEF RingNext, Push, Pop
-----------------------------------------------------------------------------
(* The inductive invariant holds of every behaviour.                       *)
THEOREM RingInvariant == RingSpec => []RingInv
<1>1. RingInv /\ [RingNext]_ring => RingInv'
  BY PositionStep, ContentsStep DEF RingInv
<1> QED BY <1>1, InitRing, PTL DEF RingSpec

(* The plain accesses to the slots never meet: a producer at its slot has  *)
(* room and a consumer at its slot has an element, so that the slots are   *)
(* less than a turn apart.                                                 *)
THEOREM SlotsNeverRaced == RingSpec => []NoSlotRace
<1>1. RingInv => NoSlotRace
  <2> SUFFICES ASSUME RingInv, producer = "slot", consumer = "slot"
               PROVE  Slot(write_pos) # Slot(read_pos)
    BY DEF NoSlotRace
  <2>1. /\ pushed \in Nat /\ popped \in Nat /\ popped < pushed
        /\ pushed - popped < Capacity
        /\ write_pos = Pos(pushed) /\ read_pos = Pos(popped)
    BY Fill DEF RingInv, PositionInv
  <2>2. pushed - popped \in 1 .. Capacity - 1 /\ pushed \in Int /\ popped \in Int
    BY <2>1, RingConstants
  <2>3. Cell(pushed) # Cell(popped)
    BY <2>2, SlotsApart
  <2> QED BY <2>1, <2>2, <2>3, SlotOfPosition
<1> QED BY <1>1, RingInvariant, PTL

(* A tryPush() or tryPop() that returns false after its refresh met a ring *)
(* that was full, or empty, however far the positions have wrapped.        *)
THEOREM FalseAnswersAreGenuine == RingSpec => FalseIsGenuine
<1>1. RingInv /\ [RingNext]_ring =>
        [/\ (producer = "refresh" /\ producer' = "idle") => pushed - popped = Capacity
         /\ (consumer = "refresh" /\ consumer' = "idle") => pushed = popped]_ring
  <2> SUFFICES ASSUME RingInv, RingNext
               PROVE  /\ (producer = "refresh" /\ producer' = "idle")
                           => pushed - popped = Capacity
                      /\ (consumer = "refresh" /\ consumer' = "idle") => pushed = popped
    OBVIOUS
  <2>1. /\ pushed \in Nat /\ popped \in Nat /\ popped <= pushed
        /\ pushed - popped <= Capacity
        /\ write_pos = Pos(pushed) /\ read_pos = Pos(popped)
    BY Fill DEF RingInv, PositionInv
  <2>2. LooksFull(write_pos, read_pos) <=> pushed - popped = Capacity
    BY <2>1, FullMeansFull
  <2>3. read_pos = write_pos <=> popped = pushed
    BY <2>1, EmptyMeansEmpty
  <2>4. ASSUME producer = "refresh", producer' = "idle"
        PROVE  pushed - popped = Capacity
    BY <2>2, <2>4 DEF RingNext, Push, Pop, PushBegin, PushRefresh, PushSlot, PushPublish,
                      PopBegin, PopRefresh, PopSlot, PopPublish, producerVars
  <2>5. ASSUME consumer = "refresh", consumer' = "idle"
        PROVE  pushed = popped
    BY <2>3, <2>5 DEF RingNext, Push, Pop, PushBegin, PushRefresh, PushSlot, PushPublish,
                      PopBegin, PopRefresh, PopSlot, PopPublish, consumerVars
  <2> QED BY <2>4, <2>5
<1> QED BY <1>1, RingInvariant, PTL DEF RingSpec, FalseIsGenuine

(* The ring implements the bounded FIFO queue: the release store of a      *)
(* position is the abstract push or pop, every other step stutters.        *)
THEOREM RingImplementsQueue == RingSpec => ImplementsQueue
<1>1. RingInit => Queue!Init
  BY DEF RingInit, Queue!Init
<1>2. RingInv /\ [RingNext]_ring => [Queue!Next]_<<pushed, popped, out>>
  <2> SUFFICES ASSUME RingInv, [RingNext]_ring
               PROVE  [Queue!Next]_<<pushed, popped, out>>
    OBVIOUS
  <2>1. /\ producer \in {"slot", "publish"} => pushed - popped < Capacity
        /\ consumer \in {"slot", "publish"} => popped < pushed
    BY Fill DEF RingInv
  <2>2. consumer = "publish" => taken = popped + 1
    BY DEF RingInv, ContentsInv
  <2>3. CASE PushPublish
    BY <2>1, <2>3 DEF PushPublish, consumerVars, Queue!Next, Queue!Push
  <2>4. CASE PopPublish
    BY <2>1, <2>2, <2>4 DEF PopPublish, producerVars, Queue!Next, Queue!Pop
  <2>5. CASE \/ PushBegin \/ PushRefresh \/ PushSlot \/ PopBegin \/ PopRefresh \/ PopSlot
             \/ UNCHANGED ring
    BY <2>5 DEF PushBegin, PushRefresh, PushSlot, PopBegin, PopRefresh, PopSlot, ring,
                producerVars, consumerVars
  <2> QED BY <2>3, <2>4, <2>5 DEF RingNext, Push, Pop
<1> QED BY <1>1, <1>2, RingInvariant, PTL DEF RingSpec, ImplementsQueue, Queue!Spec
=============================================================================
