-------------------------- MODULE MCCallRefinement --------------------------
(***************************************************************************)
(* CallRefinement on the instance of MCCall.                               *)
(***************************************************************************)
EXTENDS CallRefinement

MCStartMs == {0, 600, 1500}
MCTickMs == 700
MCLifetime == 2
=============================================================================
