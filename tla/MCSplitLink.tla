---------------------------- MODULE MCSplitLink -----------------------------
(***************************************************************************)
(* SplitLink with words the read tells, hides in part, and gets dropped.   *)
(***************************************************************************)
EXTENDS SplitLink

SomeWords == {{}, {1}, {1, 7}, {1, 12}}

\* The initial stack pointer, somewhere in the memory at 0x20000000.
StackPointer == {16, 29}
=============================================================================
