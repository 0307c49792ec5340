---------------------------- MODULE MCMpmSupply ----------------------------
(***************************************************************************)
(* Two versions, so that one can replace the other and an older one be     *)
(* checked out again.                                                      *)
(***************************************************************************)
EXTENDS MpmSupply

CONSTANTS s1

In(foreign, cn) == [foreign |-> foreign, cn |-> cn, secret |-> NoSecret]

\* The operator writes subscription.env, with CN.
CnFiles == {In(TRUE, TRUE)}
NoEnvs == {NoInputs}
=============================================================================
