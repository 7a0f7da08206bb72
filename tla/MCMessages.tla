----------------------------- MODULE MCMessages -----------------------------
(* Two threads and three blocks: a message with its payload, and a payload *)
(* of the other thread's.  The ids are 1 and 2.                            *)
EXTENDS Messages, TLC

MCSymmetry == Permutations(Block) \cup Permutations(Buf) \cup Permutations(Thread)
=============================================================================
