------------------------------ MODULE KeyState ------------------------------
(***************************************************************************)
(* Key state words, what both halves of the keyboard exchange: a word is   *)
(* the set of its one bits, one bit per key of a half.  The service sends  *)
(* whole words in notifications and single bytes when it is read.          *)
(***************************************************************************)
EXTENDS Integers, FiniteSetsExt

Positions == 0..23          \* bits of a key state word: row * 6 + column

BT_KBDS_VAL_INVALID == 0..7       \* 0xff, the sentinel "no key state yet"
BT_KBDS_VAL_MAX == 100            \* the largest byte a read may return

\* The value of a byte, given as the set of its one bits.
ByteValue(byte) == MapThenSumSet(LAMBDA p : 2^p, byte)

\* The byte that a read of the service returns: the lowest of the word.
LowByte(word) == word \cap 0..7
=============================================================================
