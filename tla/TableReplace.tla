---------------------------- MODULE TableReplace ----------------------------
(***************************************************************************)
(* replace_records of scripts/sync-feishu-bitable.py: one Feishu table,    *)
(* and the runs that replace its rows: list the old ones, create the new   *)
(* ones, delete what was listed, chunk by chunk.                           *)
(*                                                                         *)
(* A request may fail with or without having been carried out (a timeout   *)
(* is not retried), and a run may be killed.  The lock keeps runs of one   *)
(* host apart; runs of two hosts, or of a host without a working lock, are *)
(* kept apart by nothing.  A run replaces the table once.                  *)
(***************************************************************************)
EXTENDS Naturals

CONSTANTS
    Runs,      \* runs that replace the table
    Chunks,    \* Chunks[r]: batch_create requests its rows take
    OldRows    \* rows the table has before

ASSUME ReplaceAssumption ==
    /\ Chunks \in [Runs -> Nat]
    /\ OldRows \cap (Runs \X Nat) = {}

VARIABLES
    rows,     \* the rows of the table; <<r, i>> stands for the i-th chunk of r
    pc,       \* pc[r]: next step of run r
    made,     \* made[r]: chunks it has created
    ids,      \* ids[r]: listed rows it has still to delete
    apart     \* history: runs that no other run has overlapped

tvars == <<rows, pc, made, ids, apart>>

Own(r) == {<<r, i>> : i \in 1..Chunks[r]}
Rows == OldRows \cup UNION {Own(r) : r \in Runs}

ReplaceTypeOK ==
    /\ rows \subseteq Rows
    /\ pc \in [Runs -> {"new", "list", "create", "delete", "done", "failed"}]
    /\ made \in [Runs -> Nat]
    /\ \A r \in Runs : made[r] <= Chunks[r]
    /\ ids \in [Runs -> SUBSET Rows]
    /\ apart \subseteq Runs

ReplaceInit ==
    /\ rows = OldRows
    /\ pc = [r \in Runs |-> "new"]
    /\ made = [r \in Runs |-> 0]
    /\ ids = [r \in Runs |-> {}]
    /\ apart = {}

Running(r) == pc[r] \in {"list", "create", "delete"}
Goto(r, step) == pc' = [pc EXCEPT ![r] = step]

-----------------------------------------------------------------------------
Begin(r) ==
    /\ pc[r] = "new"
    /\ Goto(r, "list")
    /\ apart' = IF \E q \in Runs : Running(q) THEN apart \ {q \in Runs : Running(q)}
                ELSE apart \cup {r}
    /\ UNCHANGED <<rows, made, ids>>

\* Mutant: only the first page of rows is listed.
ListFirstPage(r) ==
    /\ pc[r] = "list"
    /\ ids' = [ids EXCEPT ![r] = {CHOOSE x \in rows : TRUE}]
    /\ Goto(r, IF Chunks[r] = 0 THEN "done" ELSE "create")
    /\ UNCHANGED <<rows, made, apart>>

\* list_records; no rows to write means nothing is written and nothing deleted.
List(r) ==
    /\ pc[r] = "list"
    /\ ids' = [ids EXCEPT ![r] = rows]
    /\ Goto(r, IF Chunks[r] = 0 THEN "done" ELSE "create")
    /\ UNCHANGED <<rows, made, apart>>

\* Mutant: the rows to delete are listed once the new ones are there.
CreateThenList(r) ==
    /\ pc[r] = "create"
    /\ rows' = rows \cup {<<r, made[r] + 1>>}
    /\ made' = [made EXCEPT ![r] = @ + 1]
    /\ ids' = [ids EXCEPT ![r] = rows']
    /\ Goto(r, IF made[r] + 1 < Chunks[r] THEN "create" ELSE "delete")
    /\ UNCHANGED apart

\* One request of batch_create, carried out and answered.
Create(r) ==
    /\ pc[r] = "create"
    /\ rows' = rows \cup {<<r, made[r] + 1>>}
    /\ made' = [made EXCEPT ![r] = @ + 1]
    /\ Goto(r, IF made[r] + 1 < Chunks[r] THEN "create"
               ELSE IF ids[r] = {} THEN "done" ELSE "delete")
    /\ UNCHANGED <<ids, apart>>

\* One request of batch_delete, for 200 rows at most.
Delete(r) ==
    /\ pc[r] = "delete"
    /\ \E batch \in SUBSET ids[r] \ {{}} :
          /\ rows' = rows \ batch
          /\ ids' = [ids EXCEPT ![r] = @ \ batch]
          /\ Goto(r, IF batch = ids[r] THEN "done" ELSE "delete")
    /\ UNCHANGED <<made, apart>>

\* A request is not carried out, is refused (as one for a row that is gone may
\* be), or is carried out and its answer lost: the run ends.
Fail(r) ==
    /\ Running(r)
    /\ \/ UNCHANGED rows
       \/ pc[r] = "create" /\ rows' = rows \cup {<<r, made[r] + 1>>}
       \/ pc[r] = "delete" /\ \E batch \in SUBSET (ids[r] \cap rows) : rows' = rows \ batch
    /\ Goto(r, "failed")
    /\ UNCHANGED <<made, ids, apart>>

-----------------------------------------------------------------------------
ReplaceNext ==
    \E r \in Runs : Begin(r) \/ List(r) \/ Create(r) \/ Delete(r) \/ Fail(r)

ReplaceSpec == ReplaceInit /\ [][ReplaceNext]_tvars

-----------------------------------------------------------------------------
(* Properties *)

\* "Never leave the table empty" (replace_records): not by failures, and not by
\* runs that delete each other's rows.
NeverEmptied == OldRows # {} => rows # {}

\* A run that succeeds without another beside it leaves its own rows and no
\* others, whatever earlier runs had left half-done.
SuccessLeavesOwnRows ==
    [][\A r \in Runs :
         pc'[r] = "done" /\ pc[r] # "done" /\ r \in apart /\ Chunks[r] > 0
           => rows' = Own(r)]_tvars
=============================================================================
