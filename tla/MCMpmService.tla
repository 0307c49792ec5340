---------------------------- MODULE MCMpmService ----------------------------
(* Instances of MpmService for TLC. *)
EXTENDS MpmService

CONSTANTS s1

In(foreign, cn) == [foreign |-> foreign, cn |-> cn, secret |-> NoSecret]

\* The inputs are in subscription.env, with CN.
CnFiles == {In(TRUE, TRUE)}
NoEnvs == {NoInputs}
=============================================================================
