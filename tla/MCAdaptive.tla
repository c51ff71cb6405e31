----------------------------- MODULE MCAdaptive -----------------------------
(* Instances of Adaptive.                                                   *)
EXTENDS Adaptive, TLC

CONSTANTS a1, a2

Addresses == {a1, a2}
Found     == {{a1, a2}}
=============================================================================
