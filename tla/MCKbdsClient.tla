---------------------------- MODULE MCKbdsClient ----------------------------
(***************************************************************************)
(* KbdsClient with both programs, all kinds of peers and the words that    *)
(* the client can tell apart.                                              *)
(***************************************************************************)
EXTENDS KbdsClient

\* A word that fits a byte, one whose low byte is above BT_KBDS_VAL_MAX, and
\* one that a byte cannot hold.
SomeWords == {{1}, {1, 7}, {1, 12}}

\* The initial stack pointer, somewhere in the memory at 0x20000000.
StackPointer == {16, 29}
=============================================================================
