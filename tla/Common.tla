------------------------------- MODULE Common -------------------------------
(***************************************************************************)
(* What the modules of the core's services share, so that one module can   *)
(* extend several of them.                                                 *)
(***************************************************************************)
CONSTANT Nil    \* SQL NULL, Go's nil, or the empty string
=============================================================================
