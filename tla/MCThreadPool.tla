---------------------------- MODULE MCThreadPool ----------------------------
(* Two workers, two users and three tasks: one task more than workers, and *)
(* two users that may wait at once.                                        *)
EXTENDS ThreadPool
=============================================================================
