---------------------------- MODULE MCIpmcBlock ----------------------------
(* IpmcBlock for TLC: two cells of data, sequence numbers modulo three. *)
EXTENDS IpmcBlock

=============================================================================
