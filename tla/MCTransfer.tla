----------------------------- MODULE MCTransfer -----------------------------
(* Instance of Transfer for TLC. *)
EXTENDS Transfer

\* A length, an empty name, a block longer than the connection holds, an ACK.
Sizes == <<2, 0, 4, 3>>
=============================================================================
