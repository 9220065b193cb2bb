-------------------------- MODULE LoRaPacketProofs --------------------------
(***************************************************************************)
(* The checksum of a packet, for payloads of any length, any header and    *)
(* any noise in a byte or two neighbours; and what a packet that came      *)
(* undisturbed leaves in the object that takes it.                         *)
(***************************************************************************)
EXTENDS LoRaPacket, FiniteSets, FiniteSetTheorems, SequenceTheorems, WellFoundedInduction, TLAPS

(* Induction, as a fact about sets: no smallest number is missing from T.   *)
LEMMA NatSet ==
    ASSUME NEW T, 0 \in T, \A n \in Nat : n \in T => n + 1 \in T
    PROVE  Nat \subseteq T
<1> SUFFICES ASSUME NEW m \in Nat, m \notin T PROVE FALSE
  OBVIOUS
<1> DEFINE S == 0..m
           B == {0..k : k \in {n \in 0..m : n \notin T}}
<1>1. B # {} /\ B \subseteq SUBSET S
  OBVIOUS
<1>2. IsFiniteSet(S)
  BY FS_Interval
<1>3. FiniteSubsetsOf(S) = SUBSET S
  BY <1>2, FS_FiniteSubsetsOfFinite
<1>4. IsWellFoundedOn(StrictSubsetOrdering(S), SUBSET S)
  BY <1>3, FS_StrictSubsetOrderingWellFounded
<1>5. \E b \in B : \A y \in B : ~(<<y, b>> \in StrictSubsetOrdering(S))
  <2> HIDE DEF S, B
  <2> QED BY <1>1, <1>4, WFMin
<1>6. PICK b \in B : \A y \in B : ~(<<y, b>> \in StrictSubsetOrdering(S))
  BY <1>5
<1>7. PICK n \in 0..m : n \notin T /\ b = 0..n
  OBVIOUS
<1>8. n # 0 /\ n - 1 \in Nat
  BY <1>7
<1>9. n - 1 \notin T
  BY <1>7, <1>8
<1>10. 0..(n - 1) \in B
  BY <1>8, <1>9
<1>11. 0..(n - 1) \subseteq 0..n /\ n \in 0..n /\ n \notin 0..(n - 1) /\ 0..n \subseteq S
  BY <1>8
<1>12. <<0..(n - 1), b>> \in StrictSubsetOrdering(S)
  BY <1>7, <1>11 DEF StrictSubsetOrdering
<1>13. QED
  BY <1>6, <1>10, <1>12

(* A register that starts with x and is changed n times, by g[1] to g[n].   *)
IsRun(r, x, g, n) == r[0] = x /\ \A k \in 1..n : r[k] = g[k][r[k - 1]]

LEMMA RunExists ==
    ASSUME NEW S, NEW x \in S, NEW n \in Nat, NEW g, \A k \in 1..n : g[k] \in [S -> S]
    PROVE  \E r \in [0..n -> S] : IsRun(r, x, g, n)
<1> DEFINE T == {m \in Nat : m <= n => \E r \in [0..m -> S] : IsRun(r, x, g, m)}
<1>1. 0 \in T
  <2>1. [i \in 0..0 |-> x] \in [0..0 -> S] /\ IsRun([i \in 0..0 |-> x], x, g, 0)
    BY DEF IsRun
  <2>2. QED
    BY <2>1
<1>2. ASSUME NEW m \in Nat, m \in T PROVE m + 1 \in T
  <2> SUFFICES ASSUME m + 1 <= n PROVE \E r \in [0..(m + 1) -> S] : IsRun(r, x, g, m + 1)
    OBVIOUS
  <2>1. PICK r \in [0..m -> S] : IsRun(r, x, g, m)
    BY <1>2
  <2>2. g[m + 1] \in [S -> S] /\ r[m] \in S
    OBVIOUS
  <2> DEFINE q == [i \in 0..(m + 1) |-> IF i = m + 1 THEN g[m + 1][r[m]] ELSE r[i]]
  <2>3. q \in [0..(m + 1) -> S]
    BY <2>2
  <2>4. q[0] = x
    BY <2>1 DEF IsRun
  <2>5. ASSUME NEW k \in 1..(m + 1) PROVE q[k] = g[k][q[k - 1]]
    <3>1. CASE k = m + 1
      BY <3>1
    <3>2. CASE k # m + 1
      <4>1. k \in 1..m /\ q[k] = r[k] /\ q[k - 1] = r[k - 1]
        BY <3>2
      <4>2. QED
        BY <2>1, <4>1 DEF IsRun
    <3>3. QED
      BY <3>1, <3>2
  <2>6. IsRun(q, x, g, m + 1)
    BY <2>4, <2>5 DEF IsRun
  <2>7. QED
    BY <2>3, <2>6
<1>3. n \in T
  <2> HIDE DEF T
  <2>1. QED
    BY <1>1, <1>2, NatSet
<1>4. QED
  BY <1>3
-----------------------------------------------------------------------------
(* Bits. *)
LEMMA XorBits ==
    ASSUME NEW x, NEW y
    PROVE  \A i : i \in Xor(x, y) <=> ((i \in x) # (i \in y))
BY DEF Xor

LEMMA XorFacts ==
    /\ \A x, y \in Word : Xor(x, y) \in Word
    /\ \A x, y \in Byte : Xor(x, y) \in Byte
    /\ \A x : Xor(x, {}) = x /\ Xor({}, x) = x /\ Xor(x, x) = {}
    /\ \A x, y : Xor(x, y) = {} => x = y
    /\ \A x, y : Xor(x, Xor(x, y)) = y
    /\ \A u, v, x, y : Xor(Xor(u, v), Xor(x, y)) = Xor(Xor(u, x), Xor(v, y))
    /\ Byte \subseteq Word
<1>1. \A x, y \in Word : Xor(x, y) \in Word
  BY DEF Xor, Word
<1>2. \A x, y \in Byte : Xor(x, y) \in Byte
  BY DEF Xor, Byte
<1>3. \A x : Xor(x, {}) = x /\ Xor({}, x) = x /\ Xor(x, x) = {}
  BY DEF Xor
<1>4. \A x, y : Xor(x, y) = {} => x = y
  BY DEF Xor
<1>5. \A x, y : Xor(x, Xor(x, y)) = y
  BY DEF Xor
<1>6. ASSUME NEW u, NEW v, NEW x, NEW y
      PROVE  Xor(Xor(u, v), Xor(x, y)) = Xor(Xor(u, x), Xor(v, y))
  BY DEF Xor
<1>7. Byte \subseteq Word
  BY DEF Byte, Word
<1>8. QED
  BY <1>1, <1>2, <1>3, <1>4, <1>5, <1>6, <1>7

(* the bits after a shift *)
LEMMA ShiftBits ==
    ASSUME NEW w \in Word
    PROVE  /\ CrcShift(w) \in Word
           /\ \A i \in 0..15 :
                i \in CrcShift(w) <=> ((i + 1 \in w) # (0 \in w /\ i \in Polynomial))
<1>1. \A i \in 0..15 : i \in Halved(w) <=> i + 1 \in w
  BY DEF Halved, Word
<1>2. Halved(w) \in Word
  BY DEF Halved, Word
<1>3. Polynomial \in Word
  BY DEF Polynomial, Word
<1>4. CASE 0 \in w
  BY <1>1, <1>2, <1>3, <1>4, XorFacts DEF CrcShift, Xor
<1>5. CASE 0 \notin w
  BY <1>1, <1>2, <1>5 DEF CrcShift
<1>6. QED
  BY <1>4, <1>5

LEMMA ShiftLinear ==
    ASSUME NEW x \in Word, NEW y \in Word
    PROVE  Xor(CrcShift(x), CrcShift(y)) = CrcShift(Xor(x, y))
<1>1. /\ CrcShift(x) \in Word /\ CrcShift(y) \in Word /\ Xor(x, y) \in Word
      /\ CrcShift(Xor(x, y)) \in Word /\ Xor(CrcShift(x), CrcShift(y)) \in Word
  BY ShiftBits, XorFacts
<1>2. ASSUME NEW i \in 0..15
      PROVE  i \in Xor(CrcShift(x), CrcShift(y)) <=> i \in CrcShift(Xor(x, y))
  <2>1. i \in CrcShift(x) <=> ((i + 1 \in x) # (0 \in x /\ i \in Polynomial))
    BY ShiftBits
  <2>2. i \in CrcShift(y) <=> ((i + 1 \in y) # (0 \in y /\ i \in Polynomial))
    BY ShiftBits
  <2>3. i \in CrcShift(Xor(x, y)) <=>
          ((i + 1 \in Xor(x, y)) # (0 \in Xor(x, y) /\ i \in Polynomial))
    BY <1>1, ShiftBits
  <2>4. QED
    BY <2>1, <2>2, <2>3, XorBits
<1>3. QED
  BY <1>1, <1>2 DEF Word

LEMMA ShiftLosesNothing ==
    /\ CrcShift({}) = {}
    /\ \A w \in Word : 0 \in w => 15 \in CrcShift(w)
    /\ \A w \in Word : \A p \in 1..15 : 0 \notin w /\ p \in w => p - 1 \in CrcShift(w)
    /\ \A w \in Word : w # {} => CrcShift(w) # {}
<1>1. CrcShift({}) = {}
  BY DEF CrcShift, Halved
<1>2. ASSUME NEW w \in Word, 0 \in w PROVE 15 \in CrcShift(w)
  BY <1>2, ShiftBits DEF Word, Polynomial
<1>3. ASSUME NEW w \in Word, NEW p \in 1..15, 0 \notin w, p \in w PROVE p - 1 \in CrcShift(w)
  <2>1. p - 1 \in 0..15 /\ (p - 1) + 1 = p
    OBVIOUS
  <2>2. QED
    BY <1>3, <2>1, ShiftBits
<1>4. ASSUME NEW w \in Word, w # {} PROVE CrcShift(w) # {}
  <2>1. PICK p \in 0..15 : p \in w
    BY <1>4 DEF Word
  <2>2. QED
    BY <1>2, <1>3, <2>1
<1>5. QED
  BY <1>1, <1>2, <1>3, <1>4

-----------------------------------------------------------------------------
(* The eight shifts for a byte. *)
ByteRun(r, crc, byte) ==
    /\ r \in [0..8 -> Word]
    /\ r[0] = Xor(crc, byte) /\ \A j \in 1..8 : r[j] = CrcShift(r[j - 1])
    /\ CrcByte(crc, byte) = r[8]

LEMMA ByteRunExists ==
    ASSUME NEW crc \in Word, NEW byte \in Byte
    PROVE  \E r : ByteRun(r, crc, byte)
<1> DEFINE shift == [w \in Word |-> CrcShift(w)]
           g     == [k \in 1..8 |-> shift]
           reg   == CHOOSE reg : reg = [j \in 0..8 |-> IF j = 0 THEN Xor(crc, byte)
                                                       ELSE CrcShift(reg[j - 1])]
<1>1. shift \in [Word -> Word] /\ Xor(crc, byte) \in Word
  BY ShiftBits, XorFacts
<1>2. \A k \in 1..8 : g[k] \in [Word -> Word]
  BY <1>1
<1>3. \E r \in [0..8 -> Word] : IsRun(r, Xor(crc, byte), g, 8)
  <2> HIDE DEF g
  <2>1. QED
    BY <1>1, <1>2, RunExists
<1>4. PICK r \in [0..8 -> Word] : IsRun(r, Xor(crc, byte), g, 8)
  BY <1>3
<1>5. ASSUME NEW j \in 1..8 PROVE r[j] = CrcShift(r[j - 1])
  <2>1. r[j - 1] \in Word /\ g[j] = shift
    OBVIOUS
  <2>2. r[j] = g[j][r[j - 1]]
    BY <1>4 DEF IsRun
  <2>3. QED
    BY <2>1, <2>2
<1>6. r = [j \in 0..8 |-> IF j = 0 THEN Xor(crc, byte) ELSE CrcShift(r[j - 1])]
  BY <1>4, <1>5 DEF IsRun
<1>7. reg = [j \in 0..8 |-> IF j = 0 THEN Xor(crc, byte) ELSE CrcShift(reg[j - 1])]
  BY <1>6
<1>8. CrcByte(crc, byte) = reg[8]
  <2>1. CrcByte(crc, byte) = Shifted(Xor(crc, byte))
    BY <1>1 DEF CrcByte
  <2>2. QED
    BY <2>1 DEF Shifted
<1> HIDE DEF reg
<1>9. reg[0] = Xor(crc, byte) /\ \A j \in 1..8 : reg[j] = CrcShift(reg[j - 1])
  BY <1>7
<1>10. \A j \in 0..8 : reg[j] \in Word
  <2> DEFINE T == {j \in Nat : j <= 8 => reg[j] \in Word}
  <2>1. 0 \in T
    BY <1>1, <1>9
  <2>2. ASSUME NEW j \in Nat, j \in T PROVE j + 1 \in T
    <3> SUFFICES ASSUME j + 1 <= 8 PROVE reg[j + 1] \in Word
      OBVIOUS
    <3>1. reg[j] \in Word /\ reg[j + 1] = CrcShift(reg[j])
      BY <1>9, <2>2
    <3>2. QED
      BY <3>1, ShiftBits
  <2>3. Nat \subseteq T
    <3> HIDE DEF T
    <3>1. QED
      BY <2>1, <2>2, NatSet
  <2>4. QED
    BY <2>3
<1>11. reg \in [0..8 -> Word]
  BY <1>7, <1>10
<1>12. QED
  BY <1>8, <1>9, <1>11 DEF ByteRun

LEMMA ByteTyped ==
    ASSUME NEW crc \in Word, NEW byte \in Byte
    PROVE  CrcByte(crc, byte) \in Word
BY ByteRunExists DEF ByteRun

LEMMA ByteLinear ==
    ASSUME NEW x \in Word, NEW y \in Word, NEW a \in Byte, NEW b \in Byte
    PROVE  Xor(CrcByte(x, a), CrcByte(y, b)) = CrcByte(Xor(x, y), Xor(a, b))
<1>1. Xor(x, y) \in Word /\ Xor(a, b) \in Byte
  BY XorFacts
<1>2. PICK r : ByteRun(r, x, a)
  BY ByteRunExists
<1>3. PICK s : ByteRun(s, y, b)
  BY ByteRunExists
<1>4. PICK t : ByteRun(t, Xor(x, y), Xor(a, b))
  BY <1>1, ByteRunExists
<1> DEFINE T == {j \in Nat : j <= 8 => Xor(r[j], s[j]) = t[j]}
<1>5. 0 \in T
  BY <1>2, <1>3, <1>4, XorFacts DEF ByteRun
<1>6. ASSUME NEW j \in Nat, j \in T PROVE j + 1 \in T
  <2> SUFFICES ASSUME j + 1 <= 8 PROVE Xor(r[j + 1], s[j + 1]) = t[j + 1]
    OBVIOUS
  <2>1. j + 1 \in 1..8 /\ (j + 1) - 1 = j /\ j \in 0..8
    OBVIOUS
  <2>2. /\ r[j + 1] = CrcShift(r[j]) /\ s[j + 1] = CrcShift(s[j]) /\ t[j + 1] = CrcShift(t[j])
        /\ r[j] \in Word /\ s[j] \in Word
    BY <1>2, <1>3, <1>4, <2>1 DEF ByteRun
  <2>3. Xor(r[j], s[j]) = t[j]
    BY <1>6, <2>1
  <2>4. QED
    BY <2>2, <2>3, ShiftLinear
<1>7. 8 \in T
  <2> HIDE DEF T
  <2>1. QED
    BY <1>5, <1>6, NatSet
<1>8. QED
  BY <1>2, <1>3, <1>4, <1>7 DEF ByteRun

(* only bits that differ make the register differ *)
LEMMA ByteLosesNothing ==
    /\ CrcByte({}, {}) = {}
    /\ \A x \in Word, a \in Byte : Xor(x, a) # {} => CrcByte(x, a) # {}
<1>0. {} \in Word /\ {} \in Byte
  BY DEF Word, Byte
<1>1. CrcByte({}, {}) = {}
  <2>1. PICK r : ByteRun(r, {}, {})
    BY <1>0, ByteRunExists
  <2> DEFINE T == {j \in Nat : j <= 8 => r[j] = {}}
  <2>2. 0 \in T
    BY <2>1, XorFacts DEF ByteRun
  <2>3. ASSUME NEW j \in Nat, j \in T PROVE j + 1 \in T
    <3> SUFFICES ASSUME j + 1 <= 8 PROVE r[j + 1] = {}
      OBVIOUS
    <3>1. j + 1 \in 1..8 /\ (j + 1) - 1 = j /\ r[j] = {}
      BY <2>3
    <3>2. r[j + 1] = CrcShift(r[j])
      BY <2>1, <3>1 DEF ByteRun
    <3>3. QED
      BY <3>1, <3>2, ShiftLosesNothing
  <2>4. 8 \in T
    <3> HIDE DEF T
    <3>1. QED
      BY <2>2, <2>3, NatSet
  <2>5. QED
    BY <2>1, <2>4 DEF ByteRun
<1>2. ASSUME NEW x \in Word, NEW a \in Byte, Xor(x, a) # {} PROVE CrcByte(x, a) # {}
  <2>1. PICK r : ByteRun(r, x, a)
    BY ByteRunExists
  <2> DEFINE T == {j \in Nat : j <= 8 => r[j] # {}}
  <2>2. 0 \in T
    BY <1>2, <2>1 DEF ByteRun
  <2>3. ASSUME NEW j \in Nat, j \in T PROVE j + 1 \in T
    <3> SUFFICES ASSUME j + 1 <= 8 PROVE r[j + 1] # {}
      OBVIOUS
    <3>1. j + 1 \in 1..8 /\ (j + 1) - 1 = j /\ j \in 0..8 /\ r[j] # {}
      BY <2>3
    <3>2. r[j + 1] = CrcShift(r[j]) /\ r[j] \in Word
      BY <2>1, <3>1 DEF ByteRun
    <3>3. QED
      BY <3>1, <3>2, ShiftLosesNothing
  <2>4. 8 \in T
    <3> HIDE DEF T
    <3>1. QED
      BY <2>2, <2>3, NatSet
  <2>5. QED
    BY <2>1, <2>4 DEF ByteRun
<1>3. QED
  BY <1>1, <1>2

(* A byte alone leaves a bit in the upper half of the register: the last of *)
(* its bits to fall out sets bit 15, and at most seven shifts follow.       *)
LEMMA ByteReachesUp ==
    ASSUME NEW f \in Byte, f # {}
    PROVE  \E p \in 8..15 : p \in CrcByte({}, f)
<1>0. {} \in Word /\ f \in Word
  BY XorFacts DEF Word
<1>1. PICK r : ByteRun(r, {}, f)
  BY <1>0, ByteRunExists
<1> DEFINE Whole(j) == \E p \in 0..7 : p >= j /\ p - j \in r[j]
           High(j)  == \E p \in 0..15 : p >= 16 - j /\ p \in r[j]
           T        == {j \in Nat : j <= 8 => Whole(j) \/ High(j)}
<1>2. 0 \in T
  <2>1. r[0] = f
    BY <1>1, XorFacts DEF ByteRun
  <2>2. PICK p \in 0..7 : p \in f
    BY DEF Byte
  <2>3. Whole(0)
    BY <2>1, <2>2
  <2>4. QED
    BY <2>3
<1>3. ASSUME NEW j \in Nat, j \in T PROVE j + 1 \in T
  <2> SUFFICES ASSUME j + 1 <= 8 PROVE Whole(j + 1) \/ High(j + 1)
    OBVIOUS
  <2>1. j + 1 \in 1..8 /\ (j + 1) - 1 = j /\ j \in 0..7
    OBVIOUS
  <2>2. r[j + 1] = CrcShift(r[j]) /\ r[j] \in Word
    BY <1>1, <2>1 DEF ByteRun
  <2>3. CASE 0 \in r[j]
    <3>1. 15 \in r[j + 1] /\ 15 >= 16 - (j + 1)
      BY <2>1, <2>2, <2>3, ShiftLosesNothing
    <3>2. QED
      BY <3>1
  <2>4. CASE 0 \notin r[j]
    <3>1. CASE Whole(j)
      <4>1. PICK p \in 0..7 : p >= j /\ p - j \in r[j]
        BY <3>1
      <4>2. p - j \in 1..15
        BY <2>4, <4>1
      <4>3. (p - j) - 1 \in r[j + 1]
        BY <2>2, <2>4, <4>1, <4>2, ShiftLosesNothing
      <4>4. p >= j + 1 /\ p - (j + 1) = (p - j) - 1
        BY <4>2
      <4>5. QED
        BY <4>3, <4>4
    <3>2. CASE High(j)
      <4>1. PICK p \in 0..15 : p >= 16 - j /\ p \in r[j]
        BY <3>2
      <4>2. p \in 1..15
        BY <2>1, <4>1
      <4>3. p - 1 \in r[j + 1]
        BY <2>2, <2>4, <4>1, <4>2, ShiftLosesNothing
      <4>4. p - 1 \in 0..15 /\ p - 1 >= 16 - (j + 1)
        BY <4>1, <4>2
      <4>5. QED
        BY <4>3, <4>4
    <3>3. QED
      BY <1>3, <2>1, <3>1, <3>2
  <2>5. QED
    BY <2>3, <2>4
<1>4. 8 \in T
  <2> HIDE DEF T
  <2>1. QED
    BY <1>2, <1>3, NatSet
<1>5. High(8)
  BY <1>4
<1>6. CrcByte({}, f) = r[8]
  BY <1>1 DEF ByteRun
<1>7. QED
  BY <1>5, <1>6

-----------------------------------------------------------------------------
(* The bytes of a packet. *)
CrcRun(r, bytes) ==
    /\ r \in [0..Len(bytes) -> Word]
    /\ r[0] = 0..15 /\ \A k \in 1..Len(bytes) : r[k] = CrcByte(r[k - 1], bytes[k])
    /\ Crc(bytes) = r[Len(bytes)]

LEMMA CrcRunExists ==
    ASSUME NEW bytes \in Seq(Byte)
    PROVE  \E r : CrcRun(r, bytes)
<1> DEFINE n   == Len(bytes)
           g   == [k \in 1..n |-> [w \in Word |-> CrcByte(w, bytes[k])]]
           reg == CHOOSE reg : reg = [k \in 0..n |-> IF k = 0 THEN 0..15
                                                     ELSE CrcByte(reg[k - 1], bytes[k])]
<1>1. n \in Nat /\ \A k \in 1..n : bytes[k] \in Byte
  OBVIOUS
<1>2. \A k \in 1..n : g[k] \in [Word -> Word]
  BY <1>1, ByteTyped
<1>3. 0..15 \in Word
  BY DEF Word
<1>4. \E r \in [0..n -> Word] : IsRun(r, 0..15, g, n)
  <2> HIDE DEF g
  <2>1. QED
    BY <1>1, <1>2, <1>3, RunExists
<1>5. PICK r \in [0..n -> Word] : IsRun(r, 0..15, g, n)
  BY <1>4
<1>6. ASSUME NEW k \in 1..n PROVE r[k] = CrcByte(r[k - 1], bytes[k])
  <2>1. r[k - 1] \in Word /\ g[k] = [w \in Word |-> CrcByte(w, bytes[k])]
    BY <1>1
  <2>2. r[k] = g[k][r[k - 1]]
    BY <1>5 DEF IsRun
  <2>3. QED
    BY <2>1, <2>2
<1>7. r = [k \in 0..n |-> IF k = 0 THEN 0..15 ELSE CrcByte(r[k - 1], bytes[k])]
  BY <1>5, <1>6 DEF IsRun
<1>8. reg = [k \in 0..n |-> IF k = 0 THEN 0..15 ELSE CrcByte(reg[k - 1], bytes[k])]
  BY <1>7
<1>9. Crc(bytes) = reg[n]
  BY DEF Crc
<1> HIDE DEF reg
<1>10. reg[0] = 0..15 /\ \A k \in 1..n : reg[k] = CrcByte(reg[k - 1], bytes[k])
  <2> HIDE DEF n
  <2>1. reg[0] = 0..15
    BY <1>1, <1>8
  <2>2. ASSUME NEW k \in 1..n PROVE reg[k] = CrcByte(reg[k - 1], bytes[k])
    <3>1. k \in 0..n /\ k # 0
      BY <1>1
    <3>2. QED
      BY <1>8, <3>1
  <2>3. QED
    BY <2>1, <2>2
<1>11. \A k \in 0..n : reg[k] \in Word
  <2> DEFINE T == {k \in Nat : k <= n => reg[k] \in Word}
  <2>1. 0 \in T
    BY <1>3, <1>10
  <2>2. ASSUME NEW k \in Nat, k \in T PROVE k + 1 \in T
    <3> SUFFICES ASSUME k + 1 <= n PROVE reg[k + 1] \in Word
      OBVIOUS
    <3>1. k + 1 \in 1..n /\ (k + 1) - 1 = k /\ k <= n
      BY <1>1
    <3>2. reg[k] \in Word /\ reg[k + 1] = CrcByte(reg[k], bytes[k + 1]) /\ bytes[k + 1] \in Byte
      BY <1>1, <1>10, <2>2, <3>1
    <3>3. QED
      BY <3>2, ByteTyped
  <2>3. Nat \subseteq T
    <3> HIDE DEF T
    <3>1. QED
      BY <2>1, <2>2, NatSet
  <2>4. QED
    BY <2>3
<1>12. reg \in [0..n -> Word]
  BY <1>8, <1>11
<1>13. QED
  BY <1>9, <1>10, <1>12 DEF CrcRun

(* what noise changes: f in byte i, g in the next one *)
Noisy(i, f, g, k) == IF k = i THEN f ELSE IF k = i + 1 THEN g ELSE {}

(* The checksums differ wherever the noise is: the register differs from    *)
(* byte i on, since f leaves a bit that the byte after it cannot reach.     *)
LEMMA ChecksumsDiffer ==
    ASSUME NEW a \in Seq(Byte), NEW b \in Seq(Byte), Len(a) = Len(b),
           NEW i \in 1..Len(a), NEW f \in Byte, f # {}, NEW g \in Byte,
           \A k \in 1..Len(a) : b[k] = Xor(a[k], Noisy(i, f, g, k))
    PROVE  Crc(a) # Crc(b)
<1> DEFINE n == Len(a)
           e(k) == Noisy(i, f, g, k)
<1>0. n \in Nat /\ \A k \in 1..n : a[k] \in Byte /\ b[k] \in Byte
  OBVIOUS
<1>1. PICK r : CrcRun(r, a)
  BY CrcRunExists
<1>2. PICK s : CrcRun(s, b)
  BY CrcRunExists
<1> DEFINE d(k) == Xor(r[k], s[k])
<1>3. \A k \in 0..n : r[k] \in Word /\ s[k] \in Word /\ d(k) \in Word
  BY <1>1, <1>2, XorFacts DEF CrcRun
<1>4. d(0) = {}
  BY <1>1, <1>2, XorFacts DEF CrcRun
<1>5. ASSUME NEW k \in 1..n PROVE d(k) = CrcByte(d(k - 1), e(k))
  <2>1. r[k] = CrcByte(r[k - 1], a[k]) /\ s[k] = CrcByte(s[k - 1], b[k])
    BY <1>1, <1>2 DEF CrcRun
  <2>2. Xor(a[k], b[k]) = e(k)
    <3>1. b[k] = Xor(a[k], e(k))
      OBVIOUS
    <3>2. QED
      BY <3>1, XorFacts
  <2>3. k - 1 \in 0..n
    BY <1>0
  <2>4. r[k - 1] \in Word /\ s[k - 1] \in Word /\ a[k] \in Byte /\ b[k] \in Byte
    BY <1>0, <1>3, <2>3
  <2>5. Xor(CrcByte(r[k - 1], a[k]), CrcByte(s[k - 1], b[k])) = CrcByte(d(k - 1), Xor(a[k], b[k]))
    BY <2>4, ByteLinear
  <2>6. QED
    BY <2>1, <2>2, <2>5
<1>6. \A k \in 1..n : e(k) \in Byte /\ (k < i => e(k) = {}) /\ (k > i + 1 => e(k) = {})
  BY DEF Noisy, Byte
<1>7. e(i) = f /\ e(i + 1) = g
  BY DEF Noisy
<1> HIDE DEF d, e
<1> DEFINE Before(k) == k < i => d(k) = {}
           At(k)     == k = i => \E p \in 8..15 : p \in d(k)
           After(k)  == k > i => d(k) # {}
           T == {k \in Nat : k <= n => Before(k) /\ At(k) /\ After(k)}
<1>8. 0 \in T
  BY <1>4
<1>9. ASSUME NEW k \in Nat, k \in T PROVE k + 1 \in T
  <2> SUFFICES ASSUME k + 1 <= n PROVE Before(k + 1) /\ At(k + 1) /\ After(k + 1)
    OBVIOUS
  <2>1. k + 1 \in 1..n /\ k \in 0..n /\ (k + 1) - 1 = k /\ k <= n
    BY <1>0
  <2>2. d(k + 1) = CrcByte(d(k), e(k + 1)) /\ d(k) \in Word /\ e(k + 1) \in Byte
    <3>1. d(k + 1) = CrcByte(d((k + 1) - 1), e(k + 1))
      BY <1>5, <2>1
    <3>2. QED
      BY <1>3, <1>6, <2>1, <3>1
  <2>3. Before(k) /\ At(k) /\ After(k)
    BY <1>9, <2>1
  <2>4. CASE k + 1 < i
    <3>1. d(k) = {} /\ e(k + 1) = {}
      BY <1>6, <2>1, <2>3, <2>4
    <3>2. d(k + 1) = {}
      BY <2>2, <3>1, ByteLosesNothing
    <3>3. QED
      BY <2>4, <3>2
  <2>5. CASE k + 1 = i
    <3>1. d(k) = {} /\ e(k + 1) = f
      BY <1>7, <2>3, <2>5
    <3>2. \E p \in 8..15 : p \in d(k + 1)
      BY <2>2, <3>1, ByteReachesUp
    <3>3. QED
      BY <2>5, <3>2
  <2>6. CASE k + 1 > i
    <3>1. Xor(d(k), e(k + 1)) # {}
      <4>1. CASE k = i
        <5>1. PICK p \in 8..15 : p \in d(k)
          BY <2>3, <4>1
        <5>2. p \notin e(k + 1)
          BY <2>2 DEF Byte
        <5>3. QED
          BY <5>1, <5>2, XorBits
      <4>2. CASE k # i
        <5>1. d(k) # {} /\ e(k + 1) = {}
          BY <1>6, <2>1, <2>3, <2>6, <4>2
        <5>2. QED
          BY <5>1, XorFacts
      <4>3. QED
        BY <4>1, <4>2
    <3>2. d(k + 1) # {}
      BY <2>2, <3>1, ByteLosesNothing
    <3>3. QED
      BY <2>6, <3>2
  <2>7. QED
    BY <2>4, <2>5, <2>6
<1>10. n \in T
  <2> HIDE DEF T
  <2>1. QED
    BY <1>0, <1>8, <1>9, NatSet
<1>11. d(n) # {}
  BY <1>0, <1>10
<1>12. Crc(a) = r[n] /\ Crc(b) = s[n]
  BY <1>1, <1>2 DEF CrcRun
<1>13. QED
  BY <1>11, <1>12, XorFacts DEF d

-----------------------------------------------------------------------------
(* Packets and bytes. *)
LEMMA HalfBits ==
    /\ \A w \in Word : \A i \in 0..7 : /\ i \in HighByte(w) <=> i + 8 \in w
                                       /\ i \in LowByte(w) <=> i \in w
    /\ \A hi, lo \in Byte : \A i \in 0..15 :
         i \in Word16(hi, lo) <=> (IF i <= 7 THEN i \in lo ELSE i - 8 \in hi)
<1>1. ASSUME NEW w \in Word, NEW i \in 0..7
      PROVE  (i \in HighByte(w) <=> i + 8 \in w) /\ (i \in LowByte(w) <=> i \in w)
  BY DEF HighByte, LowByte, Word
<1>2. ASSUME NEW hi \in Byte, NEW lo \in Byte, NEW i \in 0..15
      PROVE  i \in Word16(hi, lo) <=> (IF i <= 7 THEN i \in lo ELSE i - 8 \in hi)
  <2>1. i \in {j + 8 : j \in hi} <=> i - 8 \in hi
    BY DEF Byte
  <2>2. hi \subseteq 0..7 /\ lo \subseteq 0..7
    BY DEF Byte
  <2>3. QED
    BY <2>1, <2>2 DEF Word16
<1>3. QED
  BY <1>1, <1>2

LEMMA WordBytes ==
    /\ END_BYTE \in Byte
    /\ \A w \in Word : HighByte(w) \in Byte /\ LowByte(w) \in Byte
    /\ \A hi, lo \in Byte : Word16(hi, lo) \in Word
    /\ \A w \in Word : \A hi, lo \in Byte :
         w = Word16(hi, lo) <=> HighByte(w) = hi /\ LowByte(w) = lo
<1>1. END_BYTE \in Byte
  BY DEF END_BYTE, Byte
<1>2. ASSUME NEW w \in Word PROVE HighByte(w) \in Byte /\ LowByte(w) \in Byte
  BY DEF HighByte, LowByte, Byte
<1>3. ASSUME NEW hi \in Byte, NEW lo \in Byte PROVE Word16(hi, lo) \in Word
  <2>1. {i + 8 : i \in hi} \subseteq 0..15
    BY DEF Byte
  <2>2. lo \subseteq 0..15
    BY DEF Byte
  <2>3. QED
    BY <2>1, <2>2 DEF Word16, Word
<1>4. ASSUME NEW w \in Word, NEW hi \in Byte, NEW lo \in Byte, w = Word16(hi, lo)
      PROVE  HighByte(w) = hi /\ LowByte(w) = lo
  <2>1. ASSUME NEW i \in 0..7
        PROVE  (i \in HighByte(w) <=> i \in hi) /\ (i \in LowByte(w) <=> i \in lo)
    <3>1. i + 8 \in 0..15 /\ ~(i + 8 <= 7) /\ (i + 8) - 8 = i /\ i \in 0..15 /\ i <= 7
      OBVIOUS
    <3>2. (i + 8 \in w <=> i \in hi) /\ (i \in w <=> i \in lo)
      BY <1>4, <3>1, HalfBits
    <3>3. QED
      BY <3>2, HalfBits
  <2>2. HighByte(w) \subseteq 0..7 /\ LowByte(w) \subseteq 0..7 /\ hi \subseteq 0..7 /\ lo \subseteq 0..7
    BY <1>2 DEF Byte
  <2>3. QED
    BY <2>1, <2>2
<1>5. ASSUME NEW w \in Word, NEW hi \in Byte, NEW lo \in Byte, HighByte(w) = hi, LowByte(w) = lo
      PROVE  w = Word16(hi, lo)
  <2>1. ASSUME NEW i \in 0..15 PROVE i \in w <=> i \in Word16(hi, lo)
    <3>1. CASE i <= 7
      BY <1>5, <3>1, HalfBits
    <3>2. CASE ~(i <= 7)
      <4>1. i - 8 \in 0..7 /\ (i - 8) + 8 = i
        BY <3>2
      <4>2. i \in w <=> i - 8 \in hi
        BY <1>5, <4>1, HalfBits
      <4>3. QED
        BY <3>2, <4>2, HalfBits
    <3>3. QED
      BY <3>1, <3>2
  <2>2. Word16(hi, lo) \in Word
    BY <1>3
  <2>3. QED
    BY <2>1, <2>2 DEF Word
<1>6. QED
  BY <1>1, <1>2, <1>3, <1>4, <1>5

LEMMA JoinedBytes ==
    ASSUME NEW s \in Seq(Byte), NEW t \in Seq(Byte)
    PROVE  /\ s \o t \in Seq(Byte) /\ Len(s \o t) = Len(s) + Len(t)
           /\ \A k \in 1..Len(s) : (s \o t)[k] = s[k]
           /\ \A k \in 1..Len(t) : (s \o t)[Len(s) + k] = t[k]
<1>1. s \o t \in Seq(Byte)
  OBVIOUS
<1>2. Len(s \o t) = Len(s) + Len(t)
  OBVIOUS
<1>3. ASSUME NEW k \in 1..Len(s) PROVE (s \o t)[k] = s[k]
  OBVIOUS
<1>4. ASSUME NEW k \in 1..Len(t) PROVE (s \o t)[Len(s) + k] = t[k]
  OBVIOUS
<1>5. QED
  BY <1>1, <1>2, <1>3, <1>4

LEMMA BodyBytes ==
    ASSUME NEW p \in Packet
    PROVE  /\ p.payload \in Seq(Byte) /\ Len(p.payload) \in Nat
           /\ Body(p) \in Seq(Byte) /\ Len(Body(p)) = Len(p.payload) + 4
           /\ Body(p)[Len(p.payload) + 1] = p.options
           /\ Body(p)[Len(p.payload) + 2] = p.msgType
           /\ Crc(Body(p)) \in Word
<1> DEFINE L == Len(p.payload)
           h == <<p.options, p.msgType>>
           q == Bytes16(p.seqNum)
<1>1. p.payload \in Seq(Byte) /\ L \in Nat /\ p.options \in Byte /\ p.msgType \in Byte
  BY DEF Packet
<1>2. h \in Seq(Byte) /\ Len(h) = 2 /\ h[1] = p.options /\ h[2] = p.msgType
  BY <1>1
<1>3. q \in Seq(Byte) /\ Len(q) = 2
  BY WordBytes DEF Packet, Bytes16
<1> DEFINE ph == p.payload \o h
<1>4. Body(p) = ph \o q
  BY DEF Body
<1> HIDE DEF h, q
<1>5. ph \in Seq(Byte) /\ Len(ph) = L + 2 /\ ph[L + 1] = p.options /\ ph[L + 2] = p.msgType
  <2>1. /\ ph \in Seq(Byte) /\ Len(ph) = Len(p.payload) + Len(h)
        /\ \A k \in 1..Len(h) : ph[Len(p.payload) + k] = h[k]
    BY <1>1, <1>2, JoinedBytes, Zenon
  <2> HIDE DEF ph
  <2>2. QED
    BY <1>2, <2>1
<1> HIDE DEF ph
<1>6. /\ Body(p) \in Seq(Byte) /\ Len(Body(p)) = L + 4
      /\ Body(p)[L + 1] = ph[L + 1] /\ Body(p)[L + 2] = ph[L + 2]
  <2>1. L + 2 \in Nat
    BY <1>1
  <2>2. /\ ph \o q \in Seq(Byte) /\ Len(ph \o q) = Len(ph) + Len(q)
        /\ \A k \in 1..Len(ph) : (ph \o q)[k] = ph[k]
    BY <1>3, <1>5, JoinedBytes, Zenon
  <2>3. L + 1 \in 1..(L + 2) /\ L + 2 \in 1..(L + 2) /\ (L + 2) + 2 = L + 4
    BY <1>1
  <2>4. QED
    BY <1>3, <1>4, <1>5, <2>2, <2>3
<1>7. Crc(Body(p)) \in Word
  <2>1. PICK r : CrcRun(r, Body(p))
    BY <1>6, CrcRunExists
  <2>2. QED
    BY <1>1, <1>6, <2>1 DEF CrcRun
<1>8. QED
  BY <1>1, <1>5, <1>6, <1>7

LEMMA SerializedBytes ==
    ASSUME NEW p \in Packet
    PROVE  LET L   == Len(p.payload)
               raw == Serialized(p)
           IN  /\ raw \in Seq(Byte) /\ Len(raw) = L + 7
               /\ \A k \in 1..(L + 4) : raw[k] = Body(p)[k]
               /\ raw[L + 5] = HighByte(Crc(Body(p))) /\ raw[L + 6] = LowByte(Crc(Body(p)))
               /\ raw[L + 7] = END_BYTE
               /\ Summed(raw) = Body(p)
<1> DEFINE L   == Len(p.payload)
           raw == Serialized(p)
           B   == Body(p)
           c   == Bytes16(Crc(B))
           z   == <<END_BYTE>>
<1>1. B \in Seq(Byte) /\ Len(B) = L + 4 /\ L \in Nat /\ Crc(B) \in Word
  BY BodyBytes
<1>2. /\ c \in Seq(Byte) /\ Len(c) = 2
      /\ c[1] = HighByte(Crc(B)) /\ c[2] = LowByte(Crc(B))
  BY <1>1, WordBytes DEF Bytes16
<1>3. z \in Seq(Byte) /\ Len(z) = 1 /\ z[1] = END_BYTE
  BY WordBytes
<1> DEFINE Bc == B \o c
<1>4. raw = Bc \o z
  BY DEF Serialized
<1> HIDE DEF B, c, z
<1>5. /\ Bc \in Seq(Byte) /\ Len(Bc) = L + 6 /\ \A k \in 1..(L + 4) : Bc[k] = B[k]
      /\ Bc[L + 5] = c[1] /\ Bc[L + 6] = c[2]
  <2>1. L + 4 \in Nat /\ (L + 4) + 1 = L + 5 /\ (L + 4) + 2 = L + 6
    BY <1>1
  <2>2. /\ Bc \in Seq(Byte) /\ Len(Bc) = Len(B) + Len(c) /\ \A k \in 1..Len(B) : Bc[k] = B[k]
        /\ \A k \in 1..Len(c) : Bc[Len(B) + k] = c[k]
    BY <1>1, <1>2, JoinedBytes, Zenon
  <2> HIDE DEF Bc, L
  <2>3. Bc[(L + 4) + 1] = c[1] /\ Bc[(L + 4) + 2] = c[2]
    BY <1>1, <1>2, <2>2
  <2>4. QED
    BY <1>1, <1>2, <2>1, <2>2, <2>3
<1> HIDE DEF Bc, raw, L
<1>6. /\ raw \in Seq(Byte) /\ Len(raw) = L + 7 /\ \A k \in 1..(L + 6) : raw[k] = Bc[k]
      /\ raw[L + 7] = z[1]
  <2>1. L + 6 \in Nat /\ (L + 6) + 1 = L + 7
    BY <1>1
  <2>2. /\ raw \in Seq(Byte) /\ Len(raw) = Len(Bc) + Len(z) /\ \A k \in 1..Len(Bc) : raw[k] = Bc[k]
        /\ \A k \in 1..Len(z) : raw[Len(Bc) + k] = z[k]
    BY <1>3, <1>4, <1>5, JoinedBytes, Zenon
  <2>3. raw[(L + 6) + 1] = z[1]
    BY <1>3, <1>5, <2>2
  <2>4. QED
    BY <1>3, <1>5, <2>1, <2>2, <2>3
<1>7. \A k \in 1..(L + 4) : raw[k] = B[k]
  BY <1>1, <1>5, <1>6
<1>8. raw[L + 5] = c[1] /\ raw[L + 6] = c[2]
  <2>1. L + 5 \in 1..(L + 6) /\ L + 6 \in 1..(L + 6)
    BY <1>1
  <2>2. QED
    BY <1>5, <1>6, <2>1
<1>9. Summed(raw) = B
  <2>1. Len(raw) - 3 = L + 4
    BY <1>1, <1>6
  <2>2. SubSeq(raw, 1, L + 4) \in Seq(Byte) /\ Len(SubSeq(raw, 1, L + 4)) = L + 4
    BY <1>1, <1>6
  <2>3. \A k \in 1..(L + 4) : SubSeq(raw, 1, L + 4)[k] = B[k]
    BY <1>1, <1>6, <1>7
  <2>4. SubSeq(raw, 1, L + 4) = B
    BY <1>1, <2>2, <2>3, SeqEqual
  <2>5. QED
    BY <2>1, <2>4 DEF Summed
<1>10. QED
  BY <1>2, <1>3, <1>6, <1>7, <1>8, <1>9 DEF raw, B, L

(* A packet that comes as it was sent is taken if and only if both halves   *)
(* of its checksum are END_BYTE: validatePacket reads the checksum one byte *)
(* too far to the right (message.cpp:28), where serialize put its lower     *)
(* half and END_BYTE (lines 55-57).                                         *)
THEOREM ValidIfChecksumIsEndBytes ==
    ASSUME NEW p \in Packet, p.payload # <<>>
    PROVE  ValidatePacket(Serialized(p)) <=> Crc(Body(p)) = Word16(END_BYTE, END_BYTE)
<1> DEFINE L   == Len(p.payload)
           raw == Serialized(p)
           w   == Crc(Body(p))
<1>1. /\ raw \in Seq(Byte) /\ Len(raw) = L + 7 /\ Summed(raw) = Body(p)
      /\ raw[L + 6] = LowByte(w) /\ raw[L + 7] = END_BYTE
  BY SerializedBytes
<1>2. w \in Word /\ L \in Nat /\ p.payload \in Seq(Byte)
  BY BodyBytes
<1>3. L >= 1
  BY <1>2, EmptySeq
<1> HIDE DEF L, raw, w
<1>4. FromEnd(raw, 1) = END_BYTE /\ FromEnd(raw, 2) = LowByte(w) /\ Len(raw) >= 8
  <2>1. Len(raw) - 1 + 1 = L + 7 /\ Len(raw) - 2 + 1 = L + 6 /\ Len(raw) >= 8
    BY <1>1, <1>2, <1>3
  <2>2. QED
    BY <1>1, <2>1 DEF FromEnd
<1>5. Crc(Summed(raw)) = w
  BY <1>1 DEF w
<1>6. ValidatePacket(raw) <=> w = Word16(LowByte(w), END_BYTE)
  BY <1>4, <1>5 DEF ValidatePacket
<1>7. LowByte(w) \in Byte /\ END_BYTE \in Byte
  BY <1>2, WordBytes
<1>8. w = Word16(LowByte(w), END_BYTE) <=> HighByte(w) = LowByte(w) /\ LowByte(w) = END_BYTE
  BY <1>2, <1>7, WordBytes
<1>9. w = Word16(END_BYTE, END_BYTE) <=> HighByte(w) = END_BYTE /\ LowByte(w) = END_BYTE
  BY <1>2, <1>7, WordBytes
<1>10. QED
  BY <1>6, <1>8, <1>9 DEF raw, w

-----------------------------------------------------------------------------
(* What is on the air: nothing, the packet, the packet with noise in it or  *)
(* something shorter.                                                       *)
Disturbed(w, sent, i, f, g) ==
    /\ Len(w) = Len(sent)
    /\ \A k \in 1..Len(w) : w[k] = Xor(sent[k], Noisy(i, f, g, k))

OnAir(w, sent) ==
    \/ w = sent
    \/ Len(w) < Len(sent)
    \/ \E i \in 1..Len(w), f \in Byte \ {{}}, g \in Byte : Disturbed(w, sent, i, f, g)

WireInv == OnAir(wire, Serialized(packet))

PacketInv == TypeOK /\ WireInv

LEMMA DeserializedTyped ==
    ASSUME NEW p \in Packet, NEW raw \in Seq(Byte), Len(raw) >= 8
    PROVE  /\ Deserialized(p, raw) \in Packet
           /\ Deserialized(p, raw).msgType = FromEnd(raw, 6)
           /\ Deserialized(p, raw).options = FromEnd(raw, 7)
<1>1. Len(raw) \in Nat /\ \A k \in 1..Len(raw) : raw[k] \in Byte
  OBVIOUS
<1>2. \A k \in 1..8 : FromEnd(raw, k) \in Byte
  BY <1>1 DEF FromEnd
<1>3. Word16(FromEnd(raw, 4), FromEnd(raw, 3)) \in Word
  BY <1>2, WordBytes
<1>4. Len(raw) - 8 \in Nat /\ SubSeq(raw, 1, Len(raw) - 8) \in Seq(Byte)
  BY <1>1
<1>5. p.payload \in Seq(Byte)
  BY DEF Packet
<1>6. p.payload \o SubSeq(raw, 1, Len(raw) - 8) \in Seq(Byte)
  BY <1>4, <1>5, ConcatProperties
<1>7. FromEnd(raw, 6) \in Byte /\ FromEnd(raw, 7) \in Byte
  BY <1>2
<1>8. QED
  BY <1>3, <1>4, <1>6, <1>7 DEF Deserialized, Packet

LEMMA SettersTyped ==
    ASSUME PacketInv, SetHeader \/ SetPayload
    PROVE  PacketInv'
<1>1. wire = <<>> /\ wire' = <<>> /\ peer' = peer
  BY DEF SetHeader, SetPayload
<1>2. packet' \in Packet /\ packet'.payloadSize = Len(packet'.payload)
  <2>1. packet \in Packet /\ packet.payloadSize = Len(packet.payload)
    BY DEF PacketInv, TypeOK
  <2>2. CASE SetHeader
    <3>1. PICK h \in Headers : packet' = [packet EXCEPT
            !.msgType = h.msgType, !.options = h.options, !.seqNum = h.seqNum]
      BY <2>2 DEF SetHeader
    <3>2. h.msgType \in Byte /\ h.options \in Byte /\ h.seqNum \in Word
      BY PacketAssumption
    <3>3. QED
      BY <2>1, <3>1, <3>2 DEF Packet
  <2>3. CASE SetPayload
    <3>1. PICK q \in Pieces :
            packet' = IF raised' THEN packet
                      ELSE [packet EXCEPT !.payload = @ \o q, !.payloadSize = @ + Len(q)]
      BY <2>3 DEF SetPayload
    <3>2. q \in Seq(Byte) /\ packet.payload \in Seq(Byte)
      BY <2>1, PacketAssumption DEF Packet
    <3>3. /\ packet.payload \o q \in Seq(Byte)
          /\ Len(packet.payload \o q) = Len(packet.payload) + Len(q)
          /\ Len(q) \in Nat /\ Len(packet.payload) \in Nat
      BY <3>2, ConcatProperties, LenProperties
    <3>4. CASE raised'
      BY <2>1, <3>1, <3>4
    <3>5. CASE ~raised'
      <4> DEFINE pl == packet.payload \o q
                 n  == Len(packet.payload) + Len(q)
      <4>1. packet' = [packet EXCEPT !.payload = pl, !.payloadSize = n]
        BY <2>1, <3>1, <3>5
      <4>2. pl \in Seq(Byte) /\ n \in Nat /\ n = Len(pl)
        BY <3>3
      <4> HIDE DEF pl, n
      <4>3. QED
        BY <2>1, <4>1, <4>2 DEF Packet
    <3>6. QED
      BY <3>4, <3>5
  <2>4. QED
    BY <2>2, <2>3
<1>3. raised' \in BOOLEAN /\ pieces' \in 0..MaxPieces
  <2>1. CASE SetHeader
    BY <2>1 DEF SetHeader, PacketInv, TypeOK
  <2>2. CASE SetPayload
    <3>1. PICK q \in Pieces : raised' = (Len(q) > MAX_PAYLOAD)
      BY <2>2, Zenon DEF SetPayload
    <3>2. (Len(q) > MAX_PAYLOAD) \in BOOLEAN
      OBVIOUS
    <3>3. raised' \in BOOLEAN
      BY <3>1, <3>2, Zenon
    <3>4. pieces \in 0..MaxPieces /\ pieces < MaxPieces /\ pieces' = pieces + 1
      BY <2>2, Zenon DEF SetPayload, PacketInv, TypeOK
    <3>5. pieces' \in 0..MaxPieces
      BY <3>4, PacketAssumption
    <3>6. QED
      BY <3>3, <3>5
  <2>3. QED
    BY <2>1, <2>2
<1>4. WireInv'
  <2>1. Len(Serialized(packet)') \in Nat /\ Len(Serialized(packet)') > 0
    <3>1. ASSUME NEW p \in Packet PROVE Len(Serialized(p)) \in Nat /\ Len(Serialized(p)) > 0
      BY SerializedBytes, BodyBytes
    <3>2. Serialized(packet)' = Serialized(packet')
      BY DEF Serialized, Body
    <3>3. QED
      BY <1>2, <3>1, <3>2
  <2>2. QED
    BY <1>1, <2>1 DEF WireInv, OnAir
<1>5. TypeOK'
  BY <1>1, <1>2, <1>3 DEF PacketInv, TypeOK
<1>6. QED
  BY <1>4, <1>5 DEF PacketInv

LEMMA AirTyped ==
    ASSUME PacketInv, Serialize \/ Noise \/ CutShort
    PROVE  PacketInv'
<1> DEFINE sent == Serialized(packet)
<1>1. UNCHANGED <<packet, peer, raised, pieces>>
  BY DEF Serialize, Noise, CutShort
<1>2. /\ sent \in Seq(Byte) /\ Len(sent) \in Nat /\ Len(sent) > 0
      /\ \A k \in 1..Len(sent) : sent[k] \in Byte
  BY SerializedBytes, BodyBytes DEF PacketInv, TypeOK
<1>3. Serialized(packet)' = sent
  BY <1>1 DEF Serialized, Body
<1> HIDE DEF sent
<1>4. CASE Serialize
  <2>1. wire' = sent
    BY <1>4 DEF Serialize, sent
  <2>2. QED
    BY <1>1, <1>2, <1>3, <2>1 DEF PacketInv, TypeOK, WireInv, OnAir
<1>5. CASE CutShort
  <2>1. PICK n \in 0..(Len(sent) - 1) : wire' = SubSeq(sent, 1, n)
    BY <1>5 DEF CutShort, sent
  <2>2. wire' \in Seq(Byte) /\ Len(wire') = n
    BY <1>2, <2>1
  <2>3. Len(wire') < Len(sent)
    BY <1>2, <2>2
  <2>4. QED
    BY <1>1, <1>3, <2>2, <2>3 DEF PacketInv, TypeOK, WireInv, OnAir
<1>6. CASE Noise
  <2>0. PICK i \in 1..Len(wire), f \in Flips, g \in Flips \cup {{}} :
          wire' = [k \in 1..Len(wire) |->
                     Xor(wire[k], IF k = i THEN f ELSE IF k = i + 1 THEN g ELSE {})]
    BY <1>6 DEF Noise
  <2>1. i \in 1..Len(sent) /\ wire' = [k \in 1..Len(sent) |-> Xor(sent[k], Noisy(i, f, g, k))]
    BY <1>6, <2>0 DEF Noise, Noisy, sent
  <2>2. f \in Byte \ {{}} /\ g \in Byte
    BY PacketAssumption DEF Byte
  <2>3. \A k \in 1..Len(sent) : Noisy(i, f, g, k) \in Byte
    BY <2>2 DEF Noisy, Byte
  <2>4. \A k \in 1..Len(sent) : Xor(sent[k], Noisy(i, f, g, k)) \in Byte
    BY <1>2, <2>3, XorFacts
  <2>5. wire' \in Seq(Byte) /\ Len(wire') = Len(sent)
    BY <1>2, <2>1, <2>4
  <2>6. Disturbed(wire', sent, i, f, g)
    BY <2>1, <2>5 DEF Disturbed
  <2>7. WireInv'
    <3>1. i \in 1..Len(wire')
      BY <2>1, <2>5
    <3>2. OnAir(wire', sent)
      BY <2>2, <2>6, <3>1, Zenon DEF OnAir
    <3>3. QED
      BY <1>3, <3>2 DEF WireInv
  <2>8. QED
    BY <1>1, <2>5, <2>7 DEF PacketInv, TypeOK
<1>7. QED
  BY <1>4, <1>5, <1>6

LEMMA DeserializeTyped ==
    ASSUME PacketInv, Deserialize
    PROVE  PacketInv'
<1>1. /\ UNCHANGED <<packet, wire, pieces>>
      /\ peer' = IF raised' THEN peer ELSE Deserialized(peer, wire)
  BY DEF Deserialize
<1>2. raised' \in BOOLEAN /\ (~raised' => ValidatePacket(wire))
  BY Zenon DEF Deserialize
<1>3. peer' \in Packet
  BY <1>1, <1>2, DeserializedTyped DEF PacketInv, TypeOK, ValidatePacket
<1>4. WireInv'
  <2>1. Serialized(packet)' = Serialized(packet) /\ wire' = wire
    BY <1>1 DEF Serialized, Body
  <2>2. QED
    BY <2>1 DEF PacketInv, WireInv
<1>5. QED
  BY <1>1, <1>2, <1>3, <1>4 DEF PacketInv, TypeOK

LEMMA PacketInvariant == Spec => []PacketInv
<1>1. Init => PacketInv
  <2> SUFFICES ASSUME Init PROVE PacketInv
    OBVIOUS
  <2>1. Empty \in Packet /\ Len(Empty.payload) = 0 /\ Empty.payloadSize = 0
    BY EmptySeq DEF Empty, Packet, Byte, Word
  <2>2. TypeOK
    <3>1. packet = Empty /\ peer = Empty /\ wire = <<>> /\ pieces = 0 /\ raised \in BOOLEAN
      BY Zenon DEF Init
    <3>2. wire \in Seq(Byte) /\ pieces \in 0..MaxPieces
      BY <3>1, PacketAssumption, EmptySeq
    <3>3. QED
      BY <2>1, <3>1, <3>2 DEF TypeOK
  <2>3. Len(wire) < Len(Serialized(packet))
    BY <2>1, SerializedBytes, BodyBytes DEF Init
  <2>4. QED
    BY <2>2, <2>3 DEF PacketInv, WireInv, OnAir
<1>2. PacketInv /\ [Next]_vars => PacketInv'
  <2>1. PacketInv /\ UNCHANGED vars => PacketInv'
    BY DEF PacketInv, TypeOK, WireInv, Serialized, Body, vars
  <2>2. QED
    BY <2>1, SettersTyped, AirTyped, DeserializeTyped DEF Next
<1>3. QED
  BY <1>1, <1>2, PTL DEF Spec

(* TypeOK: every field of a packet object, sent or received, and everything *)
(* on the air has its type, and the object that is sent knows how long its  *)
(* payload is (message.cpp:8-17, 32-45, 78-88), for payloads of any length. *)
THEOREM PacketTypes == Spec => []TypeOK
<1>1. PacketInv => TypeOK
  BY DEF PacketInv
<1>2. QED
  BY <1>1, PacketInvariant, PTL

(* CrcDetectsNoise: whatever noise does to one byte or to two neighbours of *)
(* what the checksum is over, the checksum is another one                   *)
(* (message.cpp:62-76), for every header, every payload of any length and   *)
(* every pattern of noise.                                                  *)
THEOREM NoiseIsNoticed == Spec => []CrcDetectsNoise
<1>1. PacketInv => CrcDetectsNoise
  <2> SUFFICES ASSUME PacketInv, Len(wire) = Len(Serialized(packet)),
                      Summed(wire) # Body(packet)
               PROVE  Crc(Summed(wire)) # Crc(Body(packet))
    BY DEF CrcDetectsNoise
  <2> DEFINE L == Len(packet.payload)
             a == Body(packet)
             b == Summed(wire)
             n == Len(wire)
  <2>1. packet \in Packet /\ wire \in Seq(Byte)
    BY DEF PacketInv, TypeOK
  <2>2. /\ a \in Seq(Byte) /\ Len(a) = L + 4 /\ L \in Nat
        /\ n = L + 7 /\ \A k \in 1..(L + 4) : Serialized(packet)[k] = a[k]
        /\ Summed(Serialized(packet)) = a
    BY <2>1, BodyBytes, SerializedBytes
  <2>3. b \in Seq(Byte) /\ Len(b) = L + 4 /\ \A k \in 1..(L + 4) : b[k] = wire[k]
    <3>1. n - 3 = L + 4 /\ b = SubSeq(wire, 1, n - 3)
      BY <2>2 DEF Summed
    <3>2. QED
      BY <2>1, <2>2, <3>1
  <2>4. wire # Serialized(packet)
    BY <2>2
  <2> HIDE DEF L, a, b
  <2>5. PICK i \in 1..n, f \in Byte \ {{}}, g \in Byte :
          Disturbed(wire, Serialized(packet), i, f, g)
    <3>1. OnAir(wire, Serialized(packet)) /\ ~(Len(wire) < Len(Serialized(packet)))
      BY <2>2 DEF PacketInv, WireInv
    <3>2. QED
      BY <2>4, <3>1, Zenon DEF OnAir, n
  <2>6. \A k \in 1..(L + 4) : b[k] = Xor(a[k], Noisy(i, f, g, k))
    BY <2>2, <2>3, <2>5 DEF Disturbed
  <2>7. i \in 1..(L + 4)
    <3> SUFFICES ASSUME i > L + 4 PROVE FALSE
      BY <2>2
    <3>1. ASSUME NEW k \in 1..(L + 4) PROVE b[k] = a[k]
      <4>1. Noisy(i, f, g, k) = {}
        BY <2>2 DEF Noisy
      <4>2. b[k] = Xor(a[k], {})
        BY <2>6, <4>1
      <4>3. QED
        BY <4>2, XorFacts
    <3>2. b = a
      BY <2>2, <2>3, <3>1, SeqEqual
    <3>3. QED
      BY <3>2 DEF a, b
  <2>8. /\ a \in Seq(Byte) /\ b \in Seq(Byte) /\ Len(a) = Len(b) /\ i \in 1..Len(a)
        /\ f \in Byte /\ f # {} /\ g \in Byte
        /\ \A k \in 1..Len(a) : b[k] = Xor(a[k], Noisy(i, f, g, k))
    BY <2>2, <2>3, <2>6, <2>7
  <2>9. Crc(a) # Crc(b)
    BY <2>8, ChecksumsDiffer, Zenon
  <2>10. QED
    BY <2>9 DEF a, b
<1>2. QED
  BY <1>1, PacketInvariant, PTL

(* AcceptedAsSent: deserialize changes nothing when it throws, and of a     *)
(* packet that came undisturbed it takes the type and the options that were *)
(* sent (message.cpp:32-39), however long the payload is.                   *)
THEOREM AcceptedIsSent == Spec => AcceptedAsSent
<1>1. ASSUME PacketInv, [Next]_vars, peer' # peer
      PROVE  /\ ~raised'
             /\ wire = Serialized(packet) =>
                  peer'.msgType = packet.msgType /\ peer'.options = packet.options
  <2>1. Deserialize
    BY <1>1 DEF Next, SetHeader, SetPayload, Serialize, Noise, CutShort, vars
  <2>2. ~raised' /\ peer' = Deserialized(peer, wire)
    BY <1>1, <2>1 DEF Deserialize
  <2>3. ValidatePacket(wire)
    BY <2>1, <2>2, Zenon DEF Deserialize
  <2>4. ASSUME wire = Serialized(packet)
        PROVE  peer'.msgType = packet.msgType /\ peer'.options = packet.options
    <3> DEFINE L == Len(packet.payload)
    <3>1. packet \in Packet /\ peer \in Packet /\ wire \in Seq(Byte) /\ Len(wire) >= 8
      BY <1>1, <2>3 DEF PacketInv, TypeOK, ValidatePacket
    <3>2. peer'.msgType = FromEnd(wire, 6) /\ peer'.options = FromEnd(wire, 7)
      BY <2>2, <3>1, DeserializedTyped
    <3>3. /\ L \in Nat /\ Len(wire) = L + 7
          /\ \A k \in 1..(L + 4) : wire[k] = Body(packet)[k]
          /\ Body(packet)[L + 1] = packet.options /\ Body(packet)[L + 2] = packet.msgType
      BY <2>4, <3>1, BodyBytes, SerializedBytes
    <3> HIDE DEF L
    <3>4. Len(wire) - 6 + 1 = L + 2 /\ Len(wire) - 7 + 1 = L + 1
      BY <3>3
    <3>5. L + 1 \in 1..(L + 4) /\ L + 2 \in 1..(L + 4)
      BY <3>3
    <3>6. FromEnd(wire, 6) = packet.msgType /\ FromEnd(wire, 7) = packet.options
      BY <3>3, <3>4, <3>5 DEF FromEnd
    <3>7. QED
      BY <3>2, <3>6
  <2>5. QED
    BY <2>2, <2>4
<1>2. PacketInv /\ [Next]_vars =>
        [peer' # peer =>
           /\ ~raised'
           /\ wire = Serialized(packet) =>
                peer'.msgType = packet.msgType /\ peer'.options = packet.options]_vars
  BY <1>1
<1>3. QED
  BY <1>2, PacketInvariant, PTL DEF Spec, AcceptedAsSent
=============================================================================
