------------------------------- MODULE MCCall -------------------------------
(***************************************************************************)
(* Call on a small instance: two account states of which one aborts the    *)
(* message, a two-second lifetime, starts at two phases of the second and  *)
(* a clock step that does not divide a second, and one transaction of      *)
(* another sender.                                                         *)
(***************************************************************************)
EXTENDS Call

MCStartMs == {0, 600, 1500}
MCTickMs == 700
MCLifetime == 2
=============================================================================
