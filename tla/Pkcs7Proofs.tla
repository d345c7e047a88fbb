---------------------------- MODULE Pkcs7Proofs ----------------------------
(***************************************************************************)
(* Padding and unpadding are inverse to each other, for every block size   *)
(* and every byte string.                                                  *)
(***************************************************************************)
EXTENDS Pkcs7, TLAPS

LEMMA MultipleModulo ==
  ASSUME NEW b \in Nat \ {0}, NEW q \in Nat, NEW k \in Nat, k = b * q
  PROVE  k % b = 0
OBVIOUS

(* Padding fills up the last block, or adds one.                           *)
LEMMA PadLengthRange ==
  ASSUME NEW n \in Nat
  PROVE  PadLength(n) \in 1 .. BlockSize /\ (n + PadLength(n)) % BlockSize = 0
<1>1. BlockSize \in Nat \ {0}
  BY BlockAssumption
<1>2. n = (BlockSize * (n \div BlockSize)) + (n % BlockSize)
      /\ n \div BlockSize \in Nat /\ n % BlockSize \in 0 .. BlockSize - 1
  BY <1>1
<1>3. PadLength(n) \in 1 .. BlockSize
  BY <1>1, <1>2 DEF PadLength
<1>4. PICK q \in Nat : n + PadLength(n) = BlockSize * q
  <2>1. n + PadLength(n) = BlockSize * ((n \div BlockSize) + 1)
    BY <1>1, <1>2 DEF PadLength
  <2> QED BY <1>2, <2>1
<1>5. (n + PadLength(n)) % BlockSize = 0
  <2>1. n + PadLength(n) \in Nat
    BY <1>1, <1>3
  <2> QED BY <1>1, <1>4, <2>1, MultipleModulo
<1> QED BY <1>3, <1>5

(* What pkcs7_pad_alloc returns: whole blocks, no shorter than the input   *)
(* and at most one block longer.                                           *)
LEMMA PadShape ==
  ASSUME NEW s \in Seq(Byte)
  PROVE  /\ Pad(s) \in Seq(Byte)
         /\ Len(Pad(s)) = Len(s) + PadLength(Len(s))
         /\ \A i \in 1 .. Len(s) : Pad(s)[i] = s[i]
         /\ \A i \in Len(s) + 1 .. Len(Pad(s)) : Pad(s)[i] = PadLength(Len(s))
<1> DEFINE n == PadLength(Len(s))
           t == [i \in 1 .. n |-> n]
<1>1. Len(s) \in Nat
  OBVIOUS
<1>2. n \in 1 .. BlockSize
  BY <1>1, PadLengthRange
<1> HIDE DEF n
<1>3. n \in Nat /\ n \in Byte
  <2>1. BlockSize \in Nat /\ BlockSize <= 255
    BY BlockAssumption
  <2> QED BY <1>2, <2>1 DEF Byte
<1>4. t \in Seq(Byte) /\ Len(t) = n
  BY <1>3
<1>5. Pad(s) = s \o t
  BY DEF Pad, n
<1> HIDE DEF t
<1>6. \A i \in 1 .. n : t[i] = n
  BY <1>3 DEF t
<1>7. /\ s \o t \in Seq(Byte)
      /\ Len(s \o t) = Len(s) + n
      /\ \A i \in 1 .. Len(s) : (s \o t)[i] = s[i]
      /\ \A i \in Len(s) + 1 .. Len(s) + n : (s \o t)[i] = t[i - Len(s)]
  BY <1>3, <1>4
<1>8. \A i \in Len(s) + 1 .. Len(s) + n : (s \o t)[i] = n
  <2> TAKE i \in Len(s) + 1 .. Len(s) + n
  <2>1. i - Len(s) \in 1 .. n
    BY <1>1, <1>3
  <2> QED BY <1>6, <1>7, <2>1
<1> QED BY <1>5, <1>7, <1>8 DEF n

(* What was padded is accepted and unpadded to the input: the client gets  *)
(* back exactly the bytes that went in.                                    *)
THEOREM UnpadUndoesPad ==
  ASSUME NEW s \in Seq(Byte)
  PROVE  Padded(Pad(s)) /\ Unpad(Pad(s)) = s
<1> DEFINE n == PadLength(Len(s))
           p == Pad(s)
<1>1. Len(s) \in Nat /\ BlockSize \in Nat
  BY BlockAssumption
<1>2. n \in 1 .. BlockSize /\ (Len(s) + n) % BlockSize = 0
  BY <1>1, PadLengthRange
<1>3. /\ p \in Seq(Byte)
      /\ Len(p) = Len(s) + n
      /\ \A i \in 1 .. Len(s) : p[i] = s[i]
      /\ \A i \in Len(s) + 1 .. Len(p) : p[i] = n
  BY PadShape
<1> HIDE DEF n, p
<1>4. p[Len(p)] = n
  BY <1>1, <1>2, <1>3
<1>5. Padded(p)
  <2>1. \A i \in 0 .. n - 1 : p[Len(p) - i] = n
    BY <1>1, <1>2, <1>3
  <2>2. p # <<>>
    BY <1>1, <1>2, <1>3
  <2>3. n <= Len(p)
    BY <1>1, <1>2, <1>3
  <2>4. Len(p) % BlockSize = 0
    BY <1>2, <1>3
  <2> QED BY <1>2, <1>4, <2>1, <2>2, <2>3, <2>4 DEF Padded
<1>6. Unpad(p) = s
  <2>1. Unpad(p) = SubSeq(p, 1, Len(s))
    BY <1>1, <1>2, <1>3, <1>4 DEF Unpad
  <2>2. /\ SubSeq(p, 1, Len(s)) \in Seq(Byte)
        /\ Len(SubSeq(p, 1, Len(s))) = Len(s)
        /\ \A i \in 1 .. Len(s) : SubSeq(p, 1, Len(s))[i] = p[i]
    BY <1>1, <1>2, <1>3
  <2> QED BY <1>3, <2>1, <2>2
<1> QED BY <1>5, <1>6 DEF p

(* pkcs7_unpad_inplace accepts nothing but padded strings: what it accepts *)
(* is the padding of what it returns, so no ciphertext has two readings.   *)
THEOREM PadUndoesUnpad ==
  ASSUME NEW s \in Seq(Byte), Padded(s)
  PROVE  Unpad(s) \in Seq(Byte) /\ Pad(Unpad(s)) = s
<1> DEFINE n == s[Len(s)]
           m == Len(s) - n
<1>1. /\ Len(s) \in Nat /\ Len(s) % BlockSize = 0 /\ s # <<>>
      /\ n \in 1 .. BlockSize /\ n <= Len(s)
      /\ \A i \in 0 .. n - 1 : s[Len(s) - i] = n
      /\ BlockSize \in Nat \ {0}
  BY BlockAssumption DEF Padded
<1>2. m \in Nat /\ n \in Nat /\ Len(s) = m + n
  BY <1>1
<1>3. Unpad(s) = SubSeq(s, 1, m)
  BY DEF Unpad
<1> HIDE DEF n, m
<1>4. /\ Unpad(s) \in Seq(Byte)
      /\ Len(Unpad(s)) = m
      /\ \A i \in 1 .. m : Unpad(s)[i] = s[i]
  BY <1>2, <1>3
<1>5. PadLength(m) = n
  <2>1. /\ m = (BlockSize * (m \div BlockSize)) + (m % BlockSize)
        /\ m \div BlockSize \in Nat /\ m % BlockSize \in 0 .. BlockSize - 1
    BY <1>1, <1>2
  <2>2. /\ m + n = (BlockSize * ((m + n) \div BlockSize)) + ((m + n) % BlockSize)
        /\ (m + n) \div BlockSize \in Nat
    BY <1>1, <1>2
  <2> DEFINE a == m \div BlockSize
             b == (m + n) \div BlockSize
             r == m % BlockSize
  <2>3. (BlockSize * b) - (BlockSize * a) = r + n
    BY <1>1, <1>2, <2>1, <2>2
  <2>0. r \in 0 .. BlockSize - 1
    BY <2>1
  <2> HIDE DEF a, b, r
  <2>4. r + n > 0 /\ r + n < BlockSize + BlockSize
    BY <1>1, <1>2, <2>0
  <2>5. b - a = 1
    <3>1. a \in Nat /\ b \in Nat /\ r \in Nat
      BY <2>1, <2>2 DEF a, b, r
    <3>2. BlockSize * (b - a) = r + n
      BY <1>1, <2>3, <3>1
    <3>3. b - a > 0
      BY <1>1, <2>4, <3>1, <3>2
    <3>4. b - a < 2
      BY <1>1, <2>4, <3>1, <3>2
    <3> QED BY <3>1, <3>3, <3>4
  <2>6. r + n = BlockSize
    <3>1. b = a + 1 /\ a \in Nat
      BY <2>1, <2>2, <2>5 DEF a, b
    <3> QED BY <1>1, <1>2, <2>1, <2>3, <3>1 DEF r
  <2> QED BY <1>1, <1>2, <2>1, <2>6 DEF PadLength, r
<1>6. /\ Pad(Unpad(s)) \in Seq(Byte)
      /\ Len(Pad(Unpad(s))) = m + n
      /\ \A i \in 1 .. m : Pad(Unpad(s))[i] = s[i]
      /\ \A i \in m + 1 .. m + n : Pad(Unpad(s))[i] = n
  BY <1>2, <1>4, <1>5, PadShape
<1>7. \A i \in m + 1 .. m + n : s[i] = n
  <2> TAKE i \in m + 1 .. m + n
  <2>1. Len(s) - i \in 0 .. n - 1 /\ Len(s) - (Len(s) - i) = i
    BY <1>2
  <2> QED BY <1>1, <2>1
<1> QED BY <1>2, <1>4, <1>6, <1>7

=============================================================================
