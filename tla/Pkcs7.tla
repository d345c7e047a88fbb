------------------------------- MODULE Pkcs7 -------------------------------
(***************************************************************************)
(* The padding of bai_1/driver/pkcs7.c as operators on byte strings.  The  *)
(* null-pointer checks and the allocation are left to the caller.          *)
(***************************************************************************)
EXTENDS Integers, Sequences

CONSTANT BlockSize   \* SECURE_AES_BLOCK_SIZE

ASSUME BlockAssumption == BlockSize \in 1 .. 255

Byte == 0 .. 255

PadLength(n) == BlockSize - (n % BlockSize)

Pad(s) == s \o [i \in 1 .. PadLength(Len(s)) |-> PadLength(Len(s))]

(* Faulty variant: a padding byte of 0 is accepted.                        *)
PaddedOrBare(s) ==
  /\ s # <<>> /\ Len(s) % BlockSize = 0
  /\ LET n == s[Len(s)] IN
       /\ n \in 0 .. BlockSize /\ n <= Len(s)
       /\ \A i \in 0 .. n - 1 : s[Len(s) - i] = n

Padded(s) ==
  /\ s # <<>> /\ Len(s) % BlockSize = 0
  /\ LET n == s[Len(s)] IN
       /\ n \in 1 .. BlockSize /\ n <= Len(s)
       /\ \A i \in 0 .. n - 1 : s[Len(s) - i] = n

Unpad(s) == SubSeq(s, 1, Len(s) - s[Len(s)])

=============================================================================
