----------------------------- MODULE MsgChannel -----------------------------
(***************************************************************************)
(* What one direction of a connection promises: messages accepted for      *)
(* sending come out once each and in the order they were accepted, or the  *)
(* connection breaks and no more come out.                                 *)
(***************************************************************************)
EXTENDS Naturals, Sequences

CONSTANT Msg

VARIABLES accepted,   \* the messages accepted, in order
          delivered,  \* the messages that came out, in order
          broken

vars == <<accepted, delivered, broken>>

Init == accepted = <<>> /\ delivered = <<>> /\ broken = FALSE

Accept(m) == accepted' = Append(accepted, m) /\ UNCHANGED <<delivered, broken>>

Deliver == /\ ~broken
           /\ Len(delivered) < Len(accepted)
           /\ delivered' = Append(delivered, accepted[Len(delivered) + 1])
           /\ UNCHANGED <<accepted, broken>>

Break == ~broken /\ broken' = TRUE /\ UNCHANGED <<accepted, delivered>>

Next == (\E m \in Msg : Accept(m)) \/ Deliver \/ Break

Spec == Init /\ [][Next]_vars
FairSpec == Spec /\ WF_vars(Deliver)
=============================================================================
