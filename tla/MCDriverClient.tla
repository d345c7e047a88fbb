--------------------------- MODULE MCDriverClient ---------------------------
EXTENDS DriverClient

\* A byte-wise cipher stands in for cbc(aes): invertible, and different for
\* different keys and initialization vectors.
Shift(s, n) == [i \in DOMAIN s |-> (s[i] + n) % 256]
MCEncrypt(key, iv, s) == Shift(s, 5 * key + iv)
MCDecrypt(key, iv, s) == Shift(s, 256 - (5 * key + iv))

\* Blocks of two bytes, a buffer of two blocks.  Among the inputs: nothing,
\* part of a block, the limit, one byte more, and ciphertexts of good and of
\* bad padding under key 1.
MCData == {<<7>>, <<7, 7, 7, 7>>}
MCInput == {<<>>, <<7>>, <<7, 7, 7, 7>>, <<7, 7, 7, 7, 7>>, <<12, 6>>, <<7, 7>>, <<12, 5>>}
MCRequest == {[config |-> [mode |-> m, key |-> k, iv |-> 0], input |-> s] :
                m \in {"encrypt", "decrypt"}, k \in Key, s \in MCInput}
=============================================================================
