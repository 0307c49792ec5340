----------------------------- MODULE GroupSwitch -----------------------------
(***************************************************************************)
(* One select group under scripts/proxy-auto-switch.py, round after round. *)
(*                                                                         *)
(* A round reads the controller, probes, reads the state file and decides  *)
(* (Start), asks the controller to switch (Put), reads it back and saves   *)
(* the state file (Save).  Each of these talks to another program: the     *)
(* request may fail, or be carried out with its answer lost; the run may   *)
(* be killed in between; somebody else may select a node at any time.      *)
(*                                                                         *)
(* The three groups share the probes and nothing else, so one is enough;   *)
(* its setting says whether it is the one with rules of its own.           *)
(***************************************************************************)
EXTENDS SwitchDecision

CONSTANTS
    Delays,       \* Delays[n]: what a probe of n may measure
    Memberships,  \* leaf members the group may have
    Elsewhere,    \* leaf members of the other groups
    Gaps,         \* rounds that may pass from one to the next
    Settings      \* what the group may be and what may happen to it

Modes == {"legacy", "shadow", "hysteresis"}

\* Whether the group is MUSE, the decision modes its rounds are run with, whether
\* somebody else selects nodes too, and what may fail: requests, runs, the state
\* file.
Setting == [muse : BOOLEAN, modes : SUBSET Modes, manual : BOOLEAN,
            failures : SUBSET {"request", "run", "file"}]

ASSUME GroupAssumption ==
    /\ Settings \subseteq Setting
    /\ \A n \in Nodes : Delays[n] \subseteq Nat /\ Delays[n] # {}
    /\ Memberships \subseteq SUBSET Nodes
    /\ Elsewhere \subseteq Nodes
    /\ Gaps \subseteq Nat \ {0}

VARIABLES
    setting,  \* one of Settings; this never changes
    now,      \* the controller: the node the group runs
    members,  \* the controller: the leaf members of the group
    delay,    \* what a probe of each node would measure
    file,     \* the state file: the group's and the nodes' history
    pc, loc,  \* the round that runs, if any, and what it holds
    held      \* history: rounds since now changed

gvars == <<setting, now, members, delay, file, pc, loc, held>>

File == [legacy : BOOLEAN, gs : GroupState, hist : [Nodes -> Seq(Sample)]]

Local == [mode : Modes,
          cur : Nodes, target : Nodes \cup {NoNode},
          reason : Holds \cup Moves \cup {"legacy", ""},
          cand : Nodes \cup {NoNode}, gs : GroupState,
          hist : [Nodes -> Seq(Sample)], told : Nodes]

GroupTypeOK ==
    /\ setting \in Settings
    /\ now \in Nodes
    /\ members \in Memberships
    /\ delay \in [Nodes -> Nat]
    /\ file \in File
    /\ pc \in {"idle", "put", "save"}
    /\ loc \in Local
    /\ held \in 0..MinDwell

NoHistory == [n \in Nodes |-> <<>>]
NoFile == [legacy |-> TRUE, gs |-> Fresh(NoNode), hist |-> NoHistory]
Nothing(n) == [mode |-> "legacy", cur |-> n, target |-> NoNode, reason |-> "",
               cand |-> NoNode, gs |-> Fresh(NoNode), hist |-> NoHistory, told |-> n]

\* Ages stop where nothing distinguishes them any more.
Older(age, d, enough) == IF age + d > enough THEN enough ELSE age + d

AgedFile(d) ==
    [file EXCEPT
        !.gs = [file.gs EXCEPT !.since = Older(file.gs.since, d, MinDwell)],
        !.hist = [n \in Nodes |-> [i \in DOMAIN file.hist[n] |->
                    [age |-> Older(file.hist[n][i].age, d, PruneAge + 1),
                     ms |-> file.hist[n][i].ms]]]]

GroupInit ==
    /\ setting \in Settings
    /\ now \in Nodes
    /\ members \in Memberships
    /\ delay \in [Nodes -> UNION {Delays[n] : n \in Nodes}]
    /\ \A n \in Nodes : delay[n] \in Delays[n]
    /\ file = NoFile
    /\ pc = "idle"
    /\ loc = Nothing(now)
    /\ held = MinDwell

-----------------------------------------------------------------------------
(* The world around *)

Network ==
    /\ pc = "idle"
    /\ \E n \in Nodes, ms \in UNION {Delays[m] : m \in Nodes} :
          ms \in Delays[n] /\ delay' = [delay EXCEPT ![n] = ms]
    /\ UNCHANGED <<setting, now, members, file, pc, loc, held>>

\* The subscription is refreshed: nodes come and go.
Refresh ==
    /\ pc = "idle"
    /\ members' \in Memberships
    /\ UNCHANGED <<setting, now, delay, file, pc, loc, held>>

Select ==
    /\ setting.manual
    /\ \E n \in members \ {now} : now' = n
    /\ held' = 0
    /\ UNCHANGED <<setting, members, delay, file, pc, loc>>

-----------------------------------------------------------------------------
(* A round *)

\* The members of all groups are probed; outside legacy the current node is
\* probed again if that failed, which here only a node that is nobody's member
\* profits from.
Results(mode) ==
    [n \in members \cup Elsewhere
           \cup (IF mode # "legacy" /\ Alive(delay[now]) THEN {now} ELSE {})
        |-> delay[n]]

\* Mutant: no target is a target.
NextStepOfAny(target) == IF target = now THEN "save" ELSE "put"

\* There is a switch to ask for, or only the state to save.
NextStep(target) == IF target \in {NoNode, now} THEN "save" ELSE "put"

\* d rounds after the last one.
Start(mode, d) ==
    /\ pc = "idle"
    /\ held' = Older(held, d, MinDwell)
    /\ \E f \in {AgedFile(d)}, results \in {Results(mode)} :
       \E hist \in {UpdateNodes(f.hist, results)},
          gs \in {Align(f.gs, f.legacy, now)} :
       \E st \in {Stats(hist, results)} :
       \E decision \in {Decide(setting.muse, now, members, st, gs)} :
          /\ file' = f
          /\ loc' = [mode |-> mode, cur |-> now, told |-> now,
                     target |-> IF mode = "hysteresis" THEN decision.target
                                ELSE Plan(setting.muse, members, results),
                     reason |-> IF mode = "legacy" THEN "legacy" ELSE decision.reason,
                     cand |-> decision.cand, gs |-> gs, hist |-> hist]
    /\ pc' = NextStep(loc'.target)
    /\ UNCHANGED <<setting, now, members, delay>>

\* The controller switches, or does not, and the answer says so, or is lost.
Put(carried, answered) ==
    /\ pc = "put"
    /\ ~(carried /\ answered) => "request" \in setting.failures
    /\ now' = IF carried THEN loc.target ELSE now
    /\ held' = IF now' # now THEN 0 ELSE held
    /\ loc' = IF carried /\ answered THEN [loc EXCEPT !.told = loc.target] ELSE loc
    /\ pc' = "save"
    /\ UNCHANGED <<setting, members, delay, file>>

\* What the state file says of the group and of the nodes: read back from the
\* controller or, if it does not answer, taken from what it answered before.
Save(readback) ==
    /\ pc = "save"
    /\ ~readback => "request" \in setting.failures
    /\ LET real == IF readback THEN now ELSE loc.told
       IN  file' = IF loc.mode = "legacy"
                   THEN [legacy |-> TRUE, gs |-> Fresh(real), hist |-> NoHistory]
                   ELSE [legacy |-> FALSE, hist |-> loc.hist,
                         gs |-> Advance(loc.gs, real,
                                        IF loc.gs.current # real THEN NoNode
                                        ELSE loc.cand)]
    /\ pc' = "idle"
    /\ loc' = Nothing(loc.cur)
    /\ UNCHANGED <<setting, now, members, delay, held>>

\* The run is killed, or the controller does not answer its first request, or
\* the state file is lost.
Killed ==
    /\ "run" \in setting.failures
    /\ pc # "idle"
    /\ pc' = "idle"
    /\ loc' = Nothing(loc.cur)
    /\ UNCHANGED <<setting, now, members, delay, file, held>>

LoseFile ==
    /\ "file" \in setting.failures
    /\ pc = "idle"
    /\ file' = NoFile
    /\ UNCHANGED <<setting, now, members, delay, pc, loc, held>>

-----------------------------------------------------------------------------
World == Network \/ Refresh \/ Select

Round ==
    \/ \E mode \in setting.modes, d \in Gaps : Start(mode, d)
    \/ \E carried, answered \in BOOLEAN : Put(carried, answered)
    \/ \E readback \in BOOLEAN : Save(readback)

GroupNext == World \/ Round \/ Killed \/ LoseFile

GroupSpec == GroupInit /\ [][GroupNext]_gvars

\* The scheduled task goes on; requests succeed again and again.
GroupFairness ==
    /\ WF_gvars(Round)
    /\ SF_gvars(Put(TRUE, TRUE))
    /\ SF_gvars(Save(TRUE))

FairGroupSpec == GroupSpec /\ GroupFairness

-----------------------------------------------------------------------------
(* Properties *)

\* The round moves the group.
Switches == pc = "put" /\ pc' = "save" /\ now' # now

\* A node that is alive, after its retries, is not left for a node of a lower
\* tier.
NoDowngradeOfLiveNode ==
    [][Switches /\ now \in members /\ Tier[now'] < Tier[now]
         => ~Alive(delay[now])]_gvars

\* A round moves a group to a node that answered it only, and so nothing when none
\* does; and MUSE, when the round found it on one of its members, to a US node only.
MovesToFitNodes ==
    [][Switches => /\ Alive(delay[now'])
                   /\ setting.muse /\ loc.cur \in members => Tier[now'] = US]_gvars

Living == {n \in members : Alive(delay[n])}

KnowsItsSwitches ==
    /\ setting.modes = {"hysteresis"}
    /\ ~setting.manual
    /\ "run" \notin setting.failures

\* Two switches for speed alone, or one after any other switch, are the dwell
\* apart, whatever requests failed or state was lost in between.  Runs that die,
\* selections by somebody else and legacy rounds blur what the script knows of
\* its own switches.
MarginSwitchHadDwell ==
    [][Switches /\ loc.reason = "switch_margin" /\ KnowsItsSwitches
         => held = MinDwell]_gvars

\* The probes measure the same, the subscription lists the same, and nobody but
\* the rounds selects a node, ends a round or loses the state file.
Undisturbed ==
    /\ UNCHANGED <<delay, members>>
    /\ now' # now => pc = "put"
    /\ pc' # pc /\ pc' = "idle" => pc = "save"
    /\ file' # file => pc' # pc

\* Once undisturbed the group comes to rest, although requests go on failing.  When
\* any of its members is alive, it rests on a member that is alive itself, off the
\* dead node it may have run, and of the best tier that has a living one; MUSE only
\* when that tier is the US.
SettlesOnBestTier ==
    <>[][Undisturbed]_gvars
      => /\ <>[][UNCHANGED now]_gvars
         /\ <>[]((\E n \in Living : setting.muse => Tier[n] = US)
                   => now \in TopTier(Living))
=============================================================================
