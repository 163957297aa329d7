----------------------------- MODULE MCListener -----------------------------
(* Listener with a few connections.                                         *)
EXTENDS Listener

MCLimits == { <<>>, <<0>>, <<1>>, <<2>> }

=============================================================================
