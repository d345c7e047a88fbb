--------------------------- MODULE MCSecureStorage ---------------------------
EXTENDS SecureStorage, TLC

CONSTANTS p1, p2, a, b, dot, bad, k0, k1, k2, short, part, long, full

\* A short text, one that is a block longer, and one as long as the driver
\* allows, whose ciphertext is longer than it allows.  The first block of the
\* long text ends like a block of padding, and part is what precedes that end.
MCBlocks == [d \in Data |-> CASE d \in {short, part} -> 1 [] d = long -> 2 [] d = full -> 3]
MCCut == [d \in Data |-> [k \in 1 .. 2 |-> IF d = long /\ k = 1 THEN part ELSE None]]

\* A short and a long version of one file, reads under the right, a wrong
\* and an illegal key, deletions, lists, a bad name.
MCRequest ==
  [kind : {"create"}, name : {a}, key : {k1}, data : {short}]
    \union [kind : {"update"}, name : {a}, key : {k1}, data : {long, full}]
    \union [kind : {"read"}, name : {a}, key : {k0, k1, k2}]
    \union [kind : {"delete"}, name : {a, b, bad}]
    \union [kind : {"list"}]

ProcSymmetry == Permutations(Proc)
=============================================================================
