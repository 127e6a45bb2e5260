--------------------------- MODULE MCConnFraming ---------------------------
(***************************************************************************)
(* Bound of the run framing_answers: of three requests the last one is     *)
(* there to meet what the two before it, of any kind, have left.           *)
(***************************************************************************)
EXTENDS ConnFraming

MCLast == ask[N] \in {"get", "upload"}

=============================================================================
