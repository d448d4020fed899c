---------------------------- MODULE MCParseParams ----------------------------
(***************************************************************************)
(* ParseParams on the method of the DeBot test (setParams(wallet, key))    *)
(* and a one-input method, with two plain values and up to two dashes.     *)
(***************************************************************************)
EXTENDS ParseParams

MCAbi == ("setParams" :> <<"wallet", "key">>) @@ ("setABI" :> <<"dabi">>)
MCValues == {"v1", "v2"}
=============================================================================
