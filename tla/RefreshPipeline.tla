--------------------------- MODULE RefreshPipeline ---------------------------
(***************************************************************************)
(* The refresh of RefreshProduction with what it is made of: convert_sub   *)
(* merges the sources that answer into the candidate file,                 *)
(* health-check-provider.py keeps the nodes that answer every target, and  *)
(* the selections read before the provider is replaced are put back by     *)
(* name after every reload, while the auto-switch selects as it likes.     *)
(*                                                                         *)
(* A provider is a set of nodes.  One select group stands for all: each is *)
(* read and put back by itself.                                            *)
(***************************************************************************)
EXTENDS RefreshProduction, MergeProxies

CONSTANTS
    Setups,     \* per source: the list of nodes it delivers
    Targets,    \* the targets of the health check
    MinNodes,   \* the least number of candidates
    Wanted      \* the names of which the health check wants one: "US"

\* The lists of the sources that answer, in their order.
Delivered(setup, up) ==
    FlattenSeq([s \in DOMAIN setup |-> IF s \in up THEN setup[s] ELSE <<>>])

\* A provider is what the conversion can leave, or the part of it that passed.
ASSUME PipelineAssumption ==
    /\ MinNodes \in Nat \ {0}
    /\ \A setup \in Setups :
          /\ setup \in Seq(Seq(Node))
          /\ \A up \in SUBSET DOMAIN setup :
                Merged(Delivered(setup, up)) \in Providers \cup {{}}
    /\ \A provider \in Providers : SUBSET provider \subseteq Providers \cup {{}}

VARIABLES
    offer,       \* the lists of the sources, chosen once
    candidate,   \* $Candidate
    converted,   \* converted[r]: the candidate was written by this run
    now,         \* the node selected in the group
    saved,       \* saved[r]: $selections
    delivered,   \* history: delivered[r], the nodes this run's sources answered with
    kept         \* history: kept[r], nobody has selected since, and no request to
                 \* put the selection back was the last and failed

pipeVars == <<offer, candidate, converted, now, saved, delivered, kept>>
pvars == <<rvars, pipeVars>>

Selected == {Missing} \cup UNION Providers

PipelineTypeOK ==
    /\ RefreshTypeOK
    /\ offer \in Setups
    /\ candidate \in File /\ converted \in [Runs -> BOOLEAN]
    /\ now \in Selected /\ saved \in [Runs -> Selected]
    /\ IF loaded = Missing THEN now = Missing ELSE now \in loaded
    /\ delivered \in [Runs -> SUBSET Node] /\ kept \in [Runs -> BOOLEAN]

PipelineInit ==
    /\ RefreshInit
    /\ offer \in Setups
    /\ healthy \in {Missing, Merged(Delivered(offer, DOMAIN offer))}
    /\ candidate = healthy
    /\ IF loaded = Missing THEN now = Missing ELSE now \in loaded
    /\ converted = [r \in Runs |-> FALSE]
    /\ saved = [r \in Runs |-> Missing]
    /\ delivered = [r \in Runs |-> {}]
    /\ kept = [r \in Runs |-> FALSE]

-----------------------------------------------------------------------------
(* The candidate *)

\* Mutant: the exit code of the conversion is not looked at.
ConvertOrNot(r) ==
    /\ pc[r] = "prepare" /\ ~converted[r]
    /\ \E up \in SUBSET DOMAIN offer :
          LET answered == Delivered(offer, up)
              merged == Merged(answered) IN
          /\ delivered' = [delivered EXCEPT ![r] = Range(answered)]
          /\ candidate' = IF Cardinality(merged) < MinNodes THEN candidate ELSE merged
    /\ converted' = [converted EXCEPT ![r] = TRUE]
    /\ UNCHANGED <<rvars, offer, now, saved, kept>>

\* convert_sub replaces the candidate when enough nodes are left, whatever sources
\* failed (exit 0 or 5), and leaves it alone otherwise: the refresh gives up.
Convert(r) ==
    /\ pc[r] = "prepare" /\ ~converted[r]
    /\ \E up \in SUBSET DOMAIN offer :
          LET answered == Delivered(offer, up)
              merged == Merged(answered) IN
          /\ delivered' = [delivered EXCEPT ![r] = Range(answered)]
          /\ IF Cardinality(merged) < MinNodes
             THEN Goto(r, "rm next") /\ UNCHANGED <<candidate, converted>>
             ELSE /\ candidate' = merged
                  /\ converted' = [converted EXCEPT ![r] = TRUE]
                  /\ UNCHANGED pc
    /\ UNCHANGED <<lock, next, healthy, previous, loaded, proven, cut, offer, now, saved, kept>>

\* The nodes that answered every target; they are told apart by name.
Survivors(passed) ==
    {node \in candidate : \A t \in Targets : node.name \in passed[t]}

\* Mutant: the output is replaced before the wanted nodes are counted.
HealthCheckLate(r) ==
    /\ pc[r] = "prepare" /\ converted[r]
    /\ converted' = [converted EXCEPT ![r] = FALSE]
    /\ \E passed \in [Targets -> SUBSET NodeNames(candidate)] :
          /\ next' = Survivors(passed)
          /\ Goto(r, IF NodeNames(Survivors(passed)) \cap Wanted # {}
                     THEN "backup" ELSE "rm next")
    /\ UNCHANGED <<lock, healthy, previous, loaded, proven, cut,
                   offer, candidate, now, saved, delivered, kept>>

\* health-check-provider.py: its core may not start, or too few of the wanted nodes
\* answer; the output is replaced only when all is well.
HealthCheck(r) ==
    /\ pc[r] = "prepare" /\ converted[r]
    /\ converted' = [converted EXCEPT ![r] = FALSE]
    /\ \/ /\ candidate # Missing
          /\ \E passed \in [Targets -> SUBSET NodeNames(candidate)] :
                /\ NodeNames(Survivors(passed)) \cap Wanted # {}
                /\ next' = Survivors(passed)
          /\ Goto(r, "backup")
       \/ UNCHANGED next /\ Goto(r, "rm next")
    /\ UNCHANGED <<lock, healthy, previous, loaded, proven, cut,
                   offer, candidate, now, saved, delivered, kept>>

-----------------------------------------------------------------------------
(* The selections *)

\* Get-Selections, before the provider is touched.
BackupSelected(r) ==
    /\ Backup(r)
    /\ IF pc'[r] = "publish"
       THEN saved' = [saved EXCEPT ![r] = now] /\ kept' = [kept EXCEPT ![r] = TRUE]
       ELSE UNCHANGED <<saved, kept>>
    /\ UNCHANGED <<offer, candidate, converted, now, delivered>>

\* After a reload mihomo has some member selected.
Forgotten == IF loaded' = Missing THEN now' = Missing ELSE now' \in loaded'

\* Mutant: whether the group still has the node is not asked.
PutBackAnyway(r) == IF saved[r] # Missing THEN now' = saved[r] ELSE Forgotten

\* The script puts back the node of the saved name, when there is one.
PutBack(r) ==
    IF saved[r] # Missing /\ saved[r].name \in NodeNames(loaded')
    THEN now' \in {node \in loaded' : node.name = saved[r].name}
    ELSE Forgotten

Forget(r) == kept' = [kept EXCEPT ![r] = FALSE]

\* Reload-And-Restore comes to its end, or its calls fail before the reload or
\* after it.
LoadSelected(r) ==
    /\ Load(r)
    /\ CASE pc'[r] = "try" -> PutBack(r)
         [] pc'[r] = "restore" /\ loaded' = loaded -> UNCHANGED now \/ Forgotten
         [] pc'[r] = "restore" /\ loaded' # loaded -> Forgotten
    /\ UNCHANGED <<offer, candidate, converted, saved, delivered, kept>>

\* Without a previous provider the selection is left as the reload made it.
RestoreSelected(r) ==
    /\ Restore(r)
    /\ IF pc'[r] = "reload" THEN UNCHANGED kept ELSE Forget(r)
    /\ UNCHANGED <<offer, candidate, converted, now, saved, delivered>>

\* Mutant: the selections are read again before the provider is put back.
ReloadReread(r) ==
    /\ Reload(r)
    /\ \/ /\ loaded' = healthy
          /\ IF now.name \in NodeNames(loaded')
             THEN now' \in {node \in loaded' : node.name = now.name} ELSE Forgotten
          /\ UNCHANGED kept
       \/ (IF loaded' = loaded THEN UNCHANGED now ELSE Forgotten) /\ Forget(r)
    /\ UNCHANGED <<offer, candidate, converted, saved, delivered>>

\* In the catch block the same selections are put back.
ReloadSelected(r) ==
    /\ Reload(r)
    /\ \/ loaded' = healthy /\ PutBack(r) /\ UNCHANGED kept
       \/ (IF loaded' = loaded THEN UNCHANGED now ELSE Forgotten) /\ Forget(r)
    /\ UNCHANGED <<offer, candidate, converted, saved, delivered>>

\* Somebody selects a node: the auto-switch, or a user.
Select ==
    /\ loaded # Missing
    /\ now' \in loaded
    /\ kept' = [r \in Runs |-> FALSE]
    /\ UNCHANGED <<rvars, offer, candidate, converted, saved, delivered>>

-----------------------------------------------------------------------------
\* A run begins without any of these, and dies with them.
BeginOrDie(r) ==
    /\ TakeLock(r) \/ Kill(r)
    /\ converted' = [converted EXCEPT ![r] = FALSE]
    /\ delivered' = [delivered EXCEPT ![r] = {}]
    /\ saved' = [saved EXCEPT ![r] = Missing]
    /\ Forget(r)
    /\ UNCHANGED <<offer, candidate, now>>

Plain(r) ==
    /\ Publish(r) \/ TryOut(r) \/ RemoveNext(r) \/ RemoveLock(r)
    /\ UNCHANGED pipeVars

GoOnPipeline(r) ==
    \/ Convert(r) \/ HealthCheck(r) \/ BackupSelected(r) \/ LoadSelected(r)
    \/ RestoreSelected(r) \/ ReloadSelected(r) \/ Plain(r)

PipelineNext == Select \/ \E r \in Runs : BeginOrDie(r) \/ GoOnPipeline(r)

PipelineSpec == PipelineInit /\ [][PipelineNext]_pvars

\* The scheduled task starts it again and again, and what is started goes on.
FairPipelineSpec ==
    PipelineSpec /\ \A r \in Runs : WF_pvars(BeginOrDie(r) /\ pc[r] = "idle")
                                 /\ WF_pvars(GoOnPipeline(r))

-----------------------------------------------------------------------------
(* Properties *)

\* The refresh is that of RefreshProduction, whatever the sources deliver and who
\* selects what: its theorems hold here.
ImplementsRefresh == RefreshSpec

\* The candidates are told apart by name, as the health check and the restoring of
\* selections take for granted, each key is there once, and a name stays with the
\* nodes that brought it along: no suffix makes it another's.
CandidatesToldApart ==
    \A r \in Runs : converted[r] /\ candidate # Missing =>
        /\ \A x, y \in candidate : x # y => x.key # y.key /\ x.name # y.name
        /\ \A x \in candidate :
              x.name \in NodeNames(delivered[r]) =>
                  \E y \in delivered[r] : y.key = x.key /\ y.name \in {x.name, Unnamed}

\* What a run publishes was delivered by the sources while it ran: a candidate left
\* by an earlier run is not published again.
PublishesFreshNodes ==
    \A r \in Runs : pc[r] \in {"backup", "publish"} /\ next # Missing
                     => NodeKeys(next) \subseteq NodeKeys(delivered[r])

\* The nodes of the sources are all named, and apart; one that several sources
\* have is named alike.
Offered == UNION {Range(offer[s]) : s \in DOMAIN offer}
NamesDiffer ==
    \A x, y \in Offered : x.name # Unnamed /\ (x.name = y.name <=> x.key = y.key)

\* A refresh, whether it succeeds or is rolled back, leaves selected what was
\* selected when it began to replace the provider, as long as that name is there,
\* unless somebody selected another since or the controller did not answer.  When
\* the sources name their nodes apart, that is the same node: names do not move
\* from one node to another because a source failed.
SelectionSurvives ==
    \A r \in Runs :
        pc[r] \in {"try", "rm next"} /\ kept[r] /\ saved[r] # Missing =>
            /\ saved[r].name \in NodeNames(loaded) => now.name = saved[r].name
            /\ NamesDiffer /\ saved[r].key \in NodeKeys(loaded) => now.key = saved[r].key
=============================================================================
