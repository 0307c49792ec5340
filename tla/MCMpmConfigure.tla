--------------------------- MODULE MCMpmConfigure ---------------------------
(* Instances of MpmConfigure for TLC. *)
EXTENDS MpmBackup, TLC

CONSTANTS s1, s2

In(cn, s) == [foreign |-> TRUE, cn |-> cn, secret |-> s]

\* subscription.env with CN, and without it but with a controller secret.
MCFiles == {In(TRUE, NoSecret), In(FALSE, s2)}

\* Commands run in an environment that provides nothing, or the CN keys, or the
\* controller secret.
Nothing == NoInputs
MCEnvs == {Nothing, [Nothing EXCEPT !.cn = TRUE], [Nothing EXCEPT !.secret = s1]}
NoEnvs == {Nothing}
CnFiles == {In(TRUE, NoSecret)}
\* The names of copies are alike.
AnyNames == Permutations(Names)
=============================================================================
