---------------------------- MODULE FailoverAlert ----------------------------
(***************************************************************************)
(* The alerts of scripts/proxy-auto-switch.py.  A run classifies its       *)
(* probes, compares them with the state file, alerts if there is news, and *)
(* saves the state file.  Nothing keeps two runs apart, and a run may be   *)
(* killed before it has saved.                                             *)
(*                                                                         *)
(* Of the probes it matters whether a US node, a Singapore node or any     *)
(* other node is alive.  An alert is given through Feishu or, failing      *)
(* that, the alert log; when both fail nobody learns of it.                *)
(***************************************************************************)
EXTENDS Naturals

CONSTANTS
    Runs,           \* runs that may overlap
    DecisionModes,  \* decision modes they are started with
    Kills,          \* whether a run may be killed
    Losses,         \* whether Feishu and the alert log may both refuse an alert
    MaxStreak       \* bound of the count of all-dead rounds

ASSUME AlertAssumption ==
    /\ DecisionModes \subseteq {"legacy", "shadow", "hysteresis"}
    /\ Kills \in BOOLEAN /\ Losses \in BOOLEAN
    /\ MaxStreak \in Nat \ {0, 1}

VARIABLES
    state,   \* the state file: mode, alerted_mode and all_dead_streak
    pc,      \* pc[r]: next step of run r
    loc,     \* loc[r]: its probes, and what it has read of the state file
    told,    \* history: the last alert given, or "nothing"
    bell,    \* history: flips with every alert given
    mishap   \* history: what has happened that alerts do not allow for

given == <<told, bell>>
avars == <<state, pc, loc, given, mishap>>

\* Nothing; at most news that was held back because the probe was suspect; runs
\* that overlapped or were killed, or alerts that were lost.
Mishaps == {"none", "suspect", "fault"}

Alerts == {"nothing", "B", "C", "A_recovered"}
State == [mode : {"none", "A", "B", "C"}, alerted : Alerts, dead : 0..MaxStreak]
Probes == [dm : {"legacy", "shadow", "hysteresis"},
           us : BOOLEAN, sg : BOOLEAN, other : BOOLEAN]
AlertLocal == [probes : Probes, prev : State, alerted : Alerts]

AlertTypeOK ==
    /\ state \in State
    /\ pc \in [Runs -> {"idle", "read", "alert", "save"}]
    /\ loc \in [Runs -> AlertLocal]
    /\ told \in Alerts /\ bell \in BOOLEAN
    /\ mishap \in Mishaps

NoState == [mode |-> "none", alerted |-> "nothing", dead |-> 0]
NoProbes == [dm |-> "legacy", us |-> FALSE, sg |-> FALSE, other |-> FALSE]
Unread(probes) == [probes |-> probes, prev |-> NoState, alerted |-> "nothing"]

AlertInit ==
    /\ state = NoState
    /\ pc = [r \in Runs |-> "idle"]
    /\ loc = [r \in Runs |-> Unread(NoProbes)]
    /\ told = "nothing" /\ bell = FALSE
    /\ mishap = "none"

-----------------------------------------------------------------------------
\* decide_mode
ModeOf(probes) == IF probes.us THEN "A" ELSE IF probes.sg THEN "B" ELSE "C"
AnyAlive(probes) == probes.us \/ probes.sg \/ probes.other

\* Mutant: an outage is alerted in every round.
NewsAlways(m, prev) ==
    \/ m \in {"B", "C"}
    \/ m = "A" /\ prev.mode \in {"B", "C"} /\ prev.alerted # "A_recovered"

\* Mutant: a recovery is no news.
NewsOfOutage(m, prev) == m \in {"B", "C"} /\ prev.alerted # m

\* should_alert
News(m, prev) ==
    \/ m \in {"B", "C"} /\ prev.alerted # m
    \/ m = "A" /\ prev.mode \in {"B", "C"} /\ prev.alerted # "A_recovered"

\* all_dead_streak, which a legacy run neither counts nor saves.
DeadStreak(probes, prev) ==
    IF probes.dm = "legacy" \/ AnyAlive(probes) THEN 0
    ELSE IF prev.dead < MaxStreak THEN prev.dead + 1 ELSE MaxStreak

\* Mutant: the streak is compared before it is counted.
SuspectTwice(probes, prev) ==
    probes.dm = "hysteresis" /\ ~AnyAlive(probes) /\ prev.dead < 2

\* The first all-dead round is taken for a failure of the probe: no alert.
Suspect(probes, prev) ==
    probes.dm = "hysteresis" /\ ~AnyAlive(probes) /\ DeadStreak(probes, prev) < 2

\* The alert a run gives, or "nothing".
AlertOf(probes, prev) ==
    LET m == ModeOf(probes)
    IN  IF ~News(m, prev) \/ Suspect(probes, prev) THEN "nothing"
        ELSE IF m = "A" THEN "A_recovered" ELSE m

\* News that a suspect probe keeps from being alerted.
HeldBack(probes, prev) ==
    IF News(ModeOf(probes), prev) /\ Suspect(probes, prev) THEN "suspect" ELSE "none"

-----------------------------------------------------------------------------
\* The worst that has happened.
Record(happened) ==
    mishap' = IF "fault" \in {mishap, happened} THEN "fault"
              ELSE IF "suspect" \in {mishap, happened} THEN "suspect" ELSE "none"

\* The controller is read and the nodes are probed.  A legacy run reads the
\* state file after its switches, the other modes decide with it.
Probe(r, probes) ==
    /\ pc[r] = "idle"
    /\ probes.dm \in DecisionModes
    /\ loc' = [loc EXCEPT ![r] =
                 IF probes.dm = "legacy" THEN Unread(probes)
                 ELSE [probes |-> probes, prev |-> state, alerted |-> "nothing"]]
    /\ pc' = [pc EXCEPT ![r] = IF probes.dm = "legacy" THEN "read" ELSE "alert"]
    /\ Record(IF \E q \in Runs : pc[q] # "idle" THEN "fault" ELSE "none")
    /\ UNCHANGED <<state, given>>

ReadState(r) ==
    /\ pc[r] = "read"
    /\ loc' = [loc EXCEPT ![r] = [probes |-> loc[r].probes, prev |-> state,
                                  alerted |-> "nothing"]]
    /\ pc' = [pc EXCEPT ![r] = "alert"]
    /\ UNCHANGED <<state, given, mishap>>

\* Given or lost, the alert counts as alerted.
GiveAlert(r, lost) ==
    /\ pc[r] = "alert"
    /\ lost => Losses
    /\ LET alert == AlertOf(loc[r].probes, loc[r].prev)
       IN  /\ Record(IF alert = "nothing" THEN HeldBack(loc[r].probes, loc[r].prev)
                     ELSE IF lost THEN "fault" ELSE "none")
           /\ IF alert = "nothing" \/ lost
              THEN UNCHANGED given
              ELSE told' = alert /\ bell' = ~bell
           /\ loc' = [loc EXCEPT ![r] =
                        [probes |-> loc[r].probes, prev |-> loc[r].prev,
                         alerted |-> IF alert = "nothing" THEN loc[r].prev.alerted
                                     ELSE alert]]
    /\ pc' = [pc EXCEPT ![r] = "save"]
    /\ UNCHANGED state

SaveState(r) ==
    /\ pc[r] = "save"
    /\ state' = [mode |-> ModeOf(loc[r].probes),
                 alerted |-> loc[r].alerted,
                 dead |-> DeadStreak(loc[r].probes, loc[r].prev)]
    /\ pc' = [pc EXCEPT ![r] = "idle"]
    /\ loc' = [loc EXCEPT ![r] = Unread(NoProbes)]
    /\ UNCHANGED <<given, mishap>>

Kill(r) ==
    /\ Kills
    /\ pc[r] # "idle"
    /\ pc' = [pc EXCEPT ![r] = "idle"]
    /\ loc' = [loc EXCEPT ![r] = Unread(NoProbes)]
    /\ Record("fault")
    /\ UNCHANGED <<state, given>>

AlertNext ==
    \E r \in Runs :
        \/ \E probes \in Probes : Probe(r, probes)
        \/ ReadState(r)
        \/ \E lost \in BOOLEAN : GiveAlert(r, lost)
        \/ SaveState(r)
        \/ Kill(r)

AlertSpec == AlertInit /\ [][AlertNext]_avars

-----------------------------------------------------------------------------
(* Properties *)

\* Every alert is news, and a recovery follows an outage the reader was told of
\* (the refinement of OutageNotice), until something happens that the alerts do
\* not allow for.
Notice == INSTANCE OutageNotice WITH disturbed <- (mishap # "none")
AlertsAreNews == Notice!NoticeSpec

\* What the state file says was alerted is what its mode calls for, whatever
\* happened: an outage of more than the one suspect round was alerted as that
\* outage, and once it is over the file does not take it for the last alert any
\* more.
AlertMatchesMode ==
    /\ state.mode = "B" => state.alerted = "B"
    /\ state.mode = "C" /\ state.dead # 1 => state.alerted = "C"
    /\ state.mode = "A" => state.alerted \notin {"B", "C"}

\* The reader knows what the state file says, between runs that neither overlap
\* nor are killed, and that lose no alert.
ReaderKnows ==
    (\A r \in Runs : pc[r] = "idle") /\ mishap # "fault" =>
        /\ state.mode = "A" => told \notin {"B", "C"}
        /\ state.mode \in {"B", "C"} /\ state.dead # 1 => told = state.mode
=============================================================================
