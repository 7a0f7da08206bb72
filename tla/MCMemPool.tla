----------------------------- MODULE MCMemPool -----------------------------
(* A machine of eight-bit sizes and pages of eight bytes: four tiny objects *)
(* in a page, three small ones of eight, two big ones.  Bulk slots begin at *)
(* three pages and are kept up to six.                                      *)
EXTENDS MemPool

MCResident == [Tiny |-> 1, Small |-> 0, Big |-> 1, Bulk |-> 1]
MCSizeSets == {{2}, {3, 5}, {16}, {17, 30}, {17, 33, 48}, {41, 50, 56}}
=============================================================================
