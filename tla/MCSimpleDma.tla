---------------------------- MODULE MCSimpleDma ----------------------------
(* Values for the constants of SimpleDma. *)
EXTENDS SimpleDma

\* Two bytes and the terminator, in a buffer of four.
Hi == <<"H", "i">>

AllMayFail == Resources \cup {"find", "alloc", "mmap", "munmap"}

=============================================================================
