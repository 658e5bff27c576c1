--------------------------- MODULE MCRenewalAdvice ---------------------------
(* RenewalAdvice by itself: what happens to the advice about a certificate   *)
(* that was renewed.                                                         *)
EXTENDS RenewalAdvice

Spec == AdviceInit /\ [][AdviceNext]_adviceVars /\ AdviceFairness
=============================================================================
