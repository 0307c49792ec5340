------------------------------- MODULE GptGate -------------------------------
(***************************************************************************)
(* Which nodes scripts/sync-feishu-bitable.py declares usable for GPT: a   *)
(* round measures the nodes of its pool, loads the history of earlier      *)
(* rounds, derives how often each node passed in a row, writes the tables  *)
(* and only then saves the history.                                        *)
(*                                                                         *)
(* Of the last hundred results of a node the history keeps, the number of  *)
(* passes at their end is kept here, counted to Required.  A round without *)
(* a speed test takes none of these steps (SyncRound has those rounds).    *)
(* The tables are those of TableReplace, one write being one step.         *)
(***************************************************************************)
EXTENDS Naturals

CONSTANTS
    Nodes,
    Required,    \* GPT_REQUIRED_CONSECUTIVE
    Failures     \* what may happen: the history is "lost" or "unsaved", a
                 \* "write" to Feishu fails, a "run" is killed

ASSUME GateAssumption ==
    /\ Required \in Nat \ {0}
    /\ Failures \subseteq {"lost", "unsaved", "write", "run"}

VARIABLES
    history,   \* the history file: passes in a row
    regions,   \* rows of the table of GPT regions
    pc,        \* next step of the round that runs, if any
    rows,      \* the rows it will write
    next,      \* the history it will save
    passes,    \* history: passes in a row that were measured
    forgotten  \* history: nodes whose last failure was measured and not saved

qvars == <<history, regions, pc, rows, next, passes, forgotten>>

Counts == [Nodes -> 0..Required]
Zero == [n \in Nodes |-> 0]
Row == [node : Nodes, usable : BOOLEAN]

GateTypeOK ==
    /\ {history, next, passes} \subseteq Counts
    /\ regions \subseteq Row /\ rows \subseteq Row
    /\ pc \in {"idle", "nodes", "regions", "save"}
    /\ forgotten \subseteq Nodes

GateInit ==
    /\ history = Zero /\ next = Zero /\ passes = Zero
    /\ regions = {} /\ rows = {} /\ forgotten = {}
    /\ pc = "idle"

\* What was measured, for the history variable.
InARow(counts, pool, passed) ==
    [n \in Nodes |-> IF n \notin pool \cap passed THEN 0
                     ELSE IF counts[n] < Required THEN counts[n] + 1
                     ELSE Required]

\* Mutant: a failed round leaves the count as it is.
AdvanceKeeping(counts, pool, passed) ==
    [n \in Nodes |-> IF n \notin pool THEN 0
                     ELSE IF n \in passed /\ counts[n] < Required THEN counts[n] + 1
                     ELSE counts[n]]

\* advance_gpt_history: a node that failed, or is not in the pool, starts over.
Advance(counts, pool, passed) ==
    [n \in Nodes |-> IF n \notin pool \cap passed THEN 0
                     ELSE IF counts[n] < Required THEN counts[n] + 1
                     ELSE Required]

\* build_region_records: the nodes with a measured egress in the US or in
\* Singapore, usable when they passed now and often enough.
RegionRecords(measured, passed, counts) ==
    {[node |-> n, usable |-> n \in passed /\ counts[n] >= Required] : n \in measured}

-----------------------------------------------------------------------------
\* The nodes of pool are measured: those of passed answered both GPT targets,
\* those of measured have their egress in a region of the table (none, when only
\* the live controller could be asked).
Measure(pool, passed, measured) ==
    /\ pc = "idle"
    /\ next' = Advance(history, pool, passed)
    /\ rows' = RegionRecords(measured, passed, next')
    /\ passes' = InARow(passes, pool, passed)
    /\ pc' = "nodes"
    /\ UNCHANGED <<history, regions, forgotten>>

End == pc' = "idle" /\ rows' = {} /\ next' = Zero

\* Nodes that failed, or were not there, in the round that runs.
Failed == {n \in Nodes : passes[n] = 0}
Unsaved == forgotten' = forgotten \cup Failed

WriteNodes ==
    /\ pc = "nodes"
    /\ pc' = "regions"
    /\ UNCHANGED <<history, regions, rows, next, passes, forgotten>>

\* An empty batch does not replace a table.
WriteRegions ==
    /\ pc = "regions"
    /\ regions' = IF rows = {} THEN regions ELSE rows
    /\ pc' = "save"
    /\ UNCHANGED <<history, rows, next, passes, forgotten>>

\* The first table fails, or the second does, before or after it has its new
\* rows: the round ends.
WriteFails ==
    /\ "write" \in Failures
    /\ pc \in {"nodes", "regions"}
    /\ End
    /\ regions' \in {regions, IF pc = "regions" THEN regions \cup rows ELSE regions}
    /\ Unsaved
    /\ UNCHANGED <<history, passes>>

\* save_gpt_history; a failure is only logged.
SaveHistory ==
    /\ pc = "save"
    /\ \/ history' = next /\ forgotten' = forgotten \ Failed
       \/ "unsaved" \in Failures /\ UNCHANGED history /\ Unsaved
    /\ End
    /\ UNCHANGED <<regions, passes>>

\* The file is removed or damaged: load_gpt_history starts over.
LoseHistory ==
    /\ "lost" \in Failures
    /\ pc = "idle"
    /\ history' = Zero /\ forgotten' = {}
    /\ UNCHANGED <<regions, pc, rows, next, passes>>

Killed ==
    /\ "run" \in Failures
    /\ pc # "idle"
    /\ End
    /\ Unsaved
    /\ UNCHANGED <<history, regions, passes>>

-----------------------------------------------------------------------------
GateNext ==
    \/ \E pool \in SUBSET Nodes : \E passed, measured \in SUBSET pool :
          Measure(pool, passed, measured)
    \/ WriteNodes \/ WriteRegions \/ WriteFails
    \/ SaveHistory \/ LoseHistory \/ Killed

GateSpec == GateInit /\ [][GateNext]_qvars

-----------------------------------------------------------------------------
(* Properties *)

\* A node is declared usable only after it passed in as many measured rounds in
\* a row as the gate requires ("consecutive-pass gate"), unless its last failure
\* was measured by a round that did not get to save the history.
UsableAfterPassesInARow ==
    \A row \in rows :
        row.usable /\ row.node \notin forgotten => passes[row.node] >= Required
=============================================================================
