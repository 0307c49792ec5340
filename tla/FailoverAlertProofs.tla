------------------------- MODULE FailoverAlertProofs -------------------------
(***************************************************************************)
(* What the state file says about alerts holds however many runs overlap,  *)
(* die or lose their alerts: AlertMatchesMode.  Until that happens it also *)
(* says what the reader was told: ReaderKnows; and until a suspect probe   *)
(* has held back news, the alerts implement OutageNotice.                  *)
(***************************************************************************)
EXTENDS FailoverAlert, TLAPS

\* AlertMatchesMode of any record of the state file, and of the first one, which
\* has no mode.
Matches(s) ==
    /\ s.mode = "none" => s.alerted = "nothing"
    /\ s.mode = "B" => s.alerted = "B"
    /\ s.mode = "C" /\ s.dead # 1 => s.alerted = "C"
    /\ s.mode = "A" => s.alerted \notin {"B", "C"}

Modes == {"legacy", "shadow", "hysteresis"}

\* The record a run saves.
Saved(l) == [mode |-> ModeOf(l.probes), alerted |-> l.alerted,
             dead |-> DeadStreak(l.probes, l.prev)]

\* The state file matches, so did what any run has read of it, and so will what
\* a run is about to save.
MatchInv ==
    /\ AlertTypeOK
    /\ Matches(state)
    /\ \A r \in Runs : Matches(loc[r].prev)
    /\ \A r \in Runs : pc[r] = "save" => Matches(Saved(loc[r]))

\* What a run records after its alert, in terms of what it read.
Recorded(probes, prev) ==
    IF AlertOf(probes, prev) = "nothing" THEN prev.alerted ELSE AlertOf(probes, prev)

LEMMA AlertTypes ==
  ASSUME AlertAssumption, NEW probes \in Probes, NEW prev \in State
  PROVE  /\ ModeOf(probes) \in {"A", "B", "C"}
         /\ AlertOf(probes, prev) \in Alerts
         /\ DeadStreak(probes, prev) \in 0..MaxStreak
BY DEF AlertAssumption, Probes, State, ModeOf, AlertOf, DeadStreak, Alerts

\* A record that matches is followed by one that matches: an outage that is not
\* alerted was alerted before, or is the first suspect round; a recovery that is
\* not alerted follows no outage.
LEMMA RecordMatches ==
  ASSUME AlertAssumption, NEW probes \in Probes, NEW prev \in State, Matches(prev)
  PROVE  Matches([mode |-> ModeOf(probes), alerted |-> Recorded(probes, prev),
                  dead |-> DeadStreak(probes, prev)])
<1> DEFINE m == ModeOf(probes)
           d == DeadStreak(probes, prev)
<1>1. m \in {"A", "B", "C"}
  BY AlertTypes
<1>2. CASE m = "B"
  <2>1. ~Suspect(probes, prev)
    BY <1>2 DEF ModeOf, Suspect, AnyAlive
  <2> QED
    BY <1>2, <2>1 DEF Recorded, AlertOf, News, Matches
<1>3. CASE m = "C"
  <2>1. Suspect(probes, prev) => d = 1
    BY DEF Suspect, DeadStreak, AlertAssumption, Probes, State
  <2> QED
    BY <1>3, <2>1 DEF Recorded, AlertOf, News, Matches
<1>4. CASE m = "A"
  <2>1. ~Suspect(probes, prev)
    BY <1>4 DEF ModeOf, Suspect, AnyAlive
  <2>2. prev.mode \in {"none", "A", "B", "C"}
    BY DEF State
  <2> QED
    BY <1>4, <2>1, <2>2 DEF Recorded, AlertOf, News, Matches
<1> QED
  BY <1>1, <1>2, <1>3, <1>4

LEMMA MatchInvAtInit ==
  ASSUME AlertAssumption, AlertInit
  PROVE  MatchInv
<1>1. NoState \in State /\ NoProbes \in Probes
  BY DEF NoState, State, NoProbes, Probes, Alerts, AlertAssumption
<1>2. Unread(NoProbes) \in AlertLocal
  BY <1>1 DEF Unread, AlertLocal, Alerts
<1>3. AlertTypeOK
  BY <1>1, <1>2 DEF AlertInit, AlertTypeOK, Alerts, Mishaps
<1> QED
  BY <1>3 DEF AlertInit, MatchInv, Matches, NoState, Unread

LEMMA UnreadType ==
  ASSUME AlertAssumption, NEW probes \in Probes
  PROVE  Unread(probes) \in AlertLocal /\ Matches(Unread(probes).prev)
BY DEF Unread, AlertLocal, Alerts, NoState, State, Matches, AlertAssumption

LEMMA RecordType ==
  ASSUME mishap \in Mishaps, NEW happened \in Mishaps, Record(happened)
  PROVE  mishap' \in Mishaps
BY DEF Record, Mishaps

LEMMA MatchInvPreserved ==
  ASSUME AlertAssumption, MatchInv, [AlertNext]_avars
  PROVE  MatchInv'
<1> USE DEF MatchInv, AlertTypeOK
<1>0. NoProbes \in Probes
  BY DEF NoProbes, Probes
<1>1. ASSUME NEW r \in Runs, NEW probes \in Probes, Probe(r, probes)
      PROVE  MatchInv'
  <2>1. /\ pc' = [pc EXCEPT ![r] = pc'[r]] /\ pc'[r] \in {"read", "alert"}
        /\ UNCHANGED <<state, told, bell>>
    BY <1>1 DEF Probe, given
  <2>2. /\ loc' = [loc EXCEPT ![r] = loc'[r]]
        /\ loc'[r] \in AlertLocal /\ Matches(loc'[r].prev)
    <3>1. CASE probes.dm = "legacy"
      BY <1>1, <3>1, UnreadType DEF Probe
    <3>2. CASE probes.dm # "legacy"
      BY <1>1, <3>2 DEF Probe, AlertLocal, Alerts
    <3> QED
      BY <3>1, <3>2
  <2>3. mishap' \in Mishaps
    BY <1>1, RecordType DEF Probe, Mishaps
  <2> QED
    BY <2>1, <2>2, <2>3
<1>2. ASSUME NEW r \in Runs, ReadState(r)
      PROVE  MatchInv'
  <2>1. loc[r] \in AlertLocal
    OBVIOUS
  <2>2. [probes |-> loc[r].probes, prev |-> state, alerted |-> "nothing"] \in AlertLocal
    BY <2>1 DEF AlertLocal, Alerts
  <2> QED
    BY <1>2, <2>2 DEF ReadState, given
<1>3. ASSUME NEW r \in Runs, NEW lost \in BOOLEAN, GiveAlert(r, lost)
      PROVE  MatchInv'
  <2> DEFINE probes == loc[r].probes
             prev == loc[r].prev
             l == [probes |-> probes, prev |-> prev, alerted |-> Recorded(probes, prev)]
  <2>1. probes \in Probes /\ prev \in State /\ Matches(prev)
    BY DEF AlertLocal
  <2>2. Recorded(probes, prev) \in Alerts
    BY <2>1, AlertTypes DEF Recorded, State
  <2>3. l \in AlertLocal
    BY <2>1, <2>2 DEF AlertLocal
  <2>4. Matches(Saved(l))
    BY <2>1, RecordMatches DEF Saved
  <2>5. /\ loc' = [loc EXCEPT ![r] = l]
        /\ pc' = [pc EXCEPT ![r] = "save"]
        /\ state' = state
    BY <1>3 DEF GiveAlert, Recorded
  <2>6. told' \in Alerts /\ bell' \in BOOLEAN
    BY <1>3, <2>1, AlertTypes DEF GiveAlert, given
  <2>7. mishap' \in Mishaps
    BY <1>3, RecordType DEF GiveAlert, HeldBack, Mishaps
  <2> QED
    BY <2>1, <2>3, <2>4, <2>5, <2>6, <2>7
<1>4. ASSUME NEW r \in Runs, SaveState(r)
      PROVE  MatchInv'
  <2>1. loc[r].probes \in Probes /\ loc[r].prev \in State /\ loc[r].alerted \in Alerts
    BY DEF AlertLocal
  <2>2. state' = Saved(loc[r]) /\ Matches(state')
    BY <1>4 DEF SaveState, Saved
  <2>3. state' \in State
    BY <2>1, <2>2, AlertTypes DEF Saved, State
  <2>4. /\ loc' = [loc EXCEPT ![r] = Unread(NoProbes)]
        /\ pc' = [pc EXCEPT ![r] = "idle"]
        /\ UNCHANGED <<told, bell, mishap>>
    BY <1>4 DEF SaveState, given
  <2> QED
    BY <1>0, <2>2, <2>3, <2>4, UnreadType
<1>5. ASSUME NEW r \in Runs, Kill(r)
      PROVE  MatchInv'
  <2>1. mishap' \in Mishaps
    BY <1>5, RecordType DEF Kill, Mishaps
  <2> QED
    BY <1>0, <1>5, <2>1, UnreadType DEF Kill, given
<1>6. CASE UNCHANGED avars
  BY <1>6 DEF avars, given, Saved
<1> QED
  BY <1>1, <1>2, <1>3, <1>4, <1>5, <1>6 DEF AlertNext

LEMMA MatchInvHolds ==
  ASSUME AlertAssumption
  PROVE  AlertSpec => []MatchInv
<1>1. AlertInit => MatchInv
  BY MatchInvAtInit
<1>2. MatchInv /\ [AlertNext]_avars => MatchInv'
  BY MatchInvPreserved
<1> QED
  BY <1>1, <1>2, PTL DEF AlertSpec

\* The state file and what runs hold of it keep their types, whatever overlaps, dies
\* or is lost.
THEOREM AlertTypeCorrect ==
  ASSUME AlertAssumption
  PROVE  AlertSpec => []AlertTypeOK
<1>1. MatchInv => AlertTypeOK
  BY DEF MatchInv
<1> QED
  BY <1>1, MatchInvHolds, PTL

\* What the state file says was alerted is what its mode calls for.
THEOREM AlertMatchesModeThm ==
  ASSUME AlertAssumption
  PROVE  AlertSpec => []AlertMatchesMode
<1>1. MatchInv => AlertMatchesMode
  BY DEF MatchInv, Matches, AlertMatchesMode
<1> QED
  BY <1>1, MatchInvHolds, PTL

-----------------------------------------------------------------------------
(* What the reader knows *)

\* Between runs that neither overlap nor die and that lose no alert, the one
\* that runs alerts by the state file as it is, and whoever reads the alerts was
\* told last what the file, or the run that is about to save it, says.
ToldInv ==
    mishap # "fault" =>
        /\ \A p, q \in Runs : pc[p] # "idle" /\ pc[q] # "idle" => p = q
        /\ \A r \in Runs : pc[r] = "alert" => loc[r].prev = state
        /\ \A r \in Runs : pc[r] = "save" => loc[r].alerted = told
        /\ (\A r \in Runs : pc[r] # "save") => state.alerted = told

\* When no news was held back, an outage on record was alerted as an outage.
OutageTold ==
    mishap = "none" =>
        /\ state.mode \in {"B", "C"} => state.alerted \in {"B", "C"}
        /\ \A r \in Runs :
             pc[r] = "save" /\ ModeOf(loc[r].probes) \in {"B", "C"}
               => loc[r].alerted \in {"B", "C"}

KnownInv == MatchInv /\ ToldInv /\ OutageTold

LEMMA RecordWorst ==
  ASSUME mishap \in Mishaps, NEW happened \in Mishaps, Record(happened)
  PROVE  /\ mishap' # "fault" <=> mishap # "fault" /\ happened # "fault"
         /\ mishap' = "none" <=> mishap = "none" /\ happened = "none"
BY DEF Record, Mishaps

\* Unless news is held back, a round of an outage records an outage.
LEMMA OutageRecorded ==
  ASSUME AlertAssumption, NEW probes \in Probes, NEW prev \in State,
         HeldBack(probes, prev) = "none", ModeOf(probes) \in {"B", "C"}
  PROVE  Recorded(probes, prev) \in {"B", "C"}
BY DEF Recorded, AlertOf, HeldBack, News

LEMMA KnownInvPreserved ==
  ASSUME AlertAssumption, KnownInv, [AlertNext]_avars
  PROVE  ToldInv' /\ OutageTold'
<1> USE DEF KnownInv, ToldInv, OutageTold
<1>0. AlertTypeOK
  BY DEF MatchInv
<1> USE <1>0 DEF AlertTypeOK
\* Who starts beside another run is a fault.
<1>1. ASSUME NEW r \in Runs, NEW probes \in Probes, Probe(r, probes)
      PROVE  ToldInv' /\ OutageTold'
  <2>1. /\ mishap' # "fault" =>
             mishap # "fault" /\ \A q \in Runs : pc[q] = "idle"
        /\ mishap' = "none" => mishap = "none"
    BY <1>1, RecordWorst DEF Probe, Mishaps
  <2>2. /\ UNCHANGED <<state, told>>
        /\ pc' = [pc EXCEPT ![r] = pc'[r]] /\ pc'[r] \in {"read", "alert"}
        /\ loc' = [loc EXCEPT ![r] = loc'[r]]
        /\ pc'[r] = "alert" => loc'[r].prev = state
    BY <1>1 DEF Probe, given
  <2> QED
    BY <2>1, <2>2
<1>2. ASSUME NEW r \in Runs, ReadState(r)
      PROVE  ToldInv' /\ OutageTold'
  BY <1>2 DEF ReadState, given
<1>3. ASSUME NEW r \in Runs, NEW lost \in BOOLEAN, GiveAlert(r, lost)
      PROVE  ToldInv' /\ OutageTold'
  <2> DEFINE probes == loc[r].probes
             prev == loc[r].prev
             alert == AlertOf(probes, prev)
  <2>1. probes \in Probes /\ prev \in State
    BY DEF AlertLocal
  <2>2. /\ mishap' # "fault" => mishap # "fault" /\ (alert = "nothing" \/ ~lost)
        /\ mishap' = "none" =>
             mishap = "none" /\ (alert = "nothing" => HeldBack(probes, prev) = "none")
    BY <1>3, RecordWorst DEF GiveAlert, HeldBack, Mishaps
  <2>3. /\ UNCHANGED state
        /\ pc[r] = "alert" /\ pc' = [pc EXCEPT ![r] = "save"]
        /\ loc' = [loc EXCEPT ![r] = loc'[r]]
        /\ loc'[r].probes = probes
        /\ loc'[r].alerted = Recorded(probes, prev)
        /\ alert = "nothing" => told' = told
        /\ alert # "nothing" /\ ~lost => told' = alert
    BY <1>3 DEF GiveAlert, Recorded, given
  <2>4. ASSUME mishap' # "fault"
        PROVE  loc'[r].alerted = told'
    <3>1. prev = state /\ \A q \in Runs : pc[q] # "save"
      BY <2>2, <2>3, <2>4
    <3> QED
      BY <2>2, <2>3, <2>4, <3>1 DEF Recorded
  <2>5. ASSUME mishap' = "none", ModeOf(probes) \in {"B", "C"}
        PROVE  loc'[r].alerted \in {"B", "C"}
    <3>1. CASE alert = "nothing"
      BY <2>1, <2>2, <2>3, <2>5, <3>1, OutageRecorded
    <3>2. CASE alert # "nothing"
      BY <2>3, <2>5, <3>2 DEF Recorded, AlertOf
    <3> QED
      BY <3>1, <3>2
  <2> QED
    BY <2>2, <2>3, <2>4, <2>5
<1>4. ASSUME NEW r \in Runs, SaveState(r)
      PROVE  ToldInv' /\ OutageTold'
  <2>1. /\ pc[r] = "save" /\ pc' = [pc EXCEPT ![r] = "idle"]
        /\ loc' = [loc EXCEPT ![r] = Unread(NoProbes)]
        /\ state'.mode = ModeOf(loc[r].probes) /\ state'.alerted = loc[r].alerted
        /\ UNCHANGED <<told, mishap>>
    BY <1>4 DEF SaveState, given
  <2> QED
    BY <2>1
<1>5. ASSUME NEW r \in Runs, Kill(r)
      PROVE  ToldInv' /\ OutageTold'
  BY <1>5, RecordWorst DEF Kill, Mishaps
<1>6. CASE UNCHANGED avars
  BY <1>6 DEF avars, given
<1> QED
  BY <1>1, <1>2, <1>3, <1>4, <1>5, <1>6 DEF AlertNext

\* What has happened does not become undone.
LEMMA NoMishapBefore ==
  ASSUME KnownInv, [AlertNext]_avars, mishap' = "none"
  PROVE  mishap = "none"
BY DEF AlertNext, Probe, ReadState, GiveAlert, SaveState, Kill, Record, avars,
       KnownInv, MatchInv, AlertTypeOK, Mishaps

LEMMA KnownInvHolds ==
  ASSUME AlertAssumption
  PROVE  AlertSpec => []KnownInv
<1>1. AlertInit => ToldInv /\ OutageTold
  BY DEF AlertInit, ToldInv, OutageTold, NoState
<1>2. KnownInv /\ MatchInv' /\ [AlertNext]_avars => KnownInv'
  BY KnownInvPreserved DEF KnownInv
<1> QED
  BY <1>1, <1>2, MatchInvHolds, PTL DEF AlertSpec, KnownInv

\* Between runs, the reader's last alert is what the state file's mode calls for.
THEOREM ReaderKnowsThm ==
  ASSUME AlertAssumption
  PROVE  AlertSpec => []ReaderKnows
<1>1. KnownInv => ReaderKnows
  BY DEF KnownInv, MatchInv, Matches, ToldInv, ReaderKnows
<1> QED
  BY <1>1, KnownInvHolds, PTL

\* FailoverAlert implements OutageNotice: the alerts are news and a recovery
\* follows an outage, until a mishap.
THEOREM AlertsAreNewsThm ==
  ASSUME AlertAssumption
  PROVE  AlertSpec => AlertsAreNews
<1>1. AlertInit => Notice!NoticeInit
  BY DEF AlertInit, Notice!NoticeInit
<1>2. ASSUME KnownInv, KnownInv', [AlertNext]_avars
      PROVE  [Notice!NoticeNext]_(Notice!notice)
  <2>1. CASE mishap' # "none"
    BY <2>1 DEF Notice!NoticeNext, Notice!Disturbance
  <2>2. CASE mishap' = "none" /\ UNCHANGED given
    <3>1. mishap = "none"
      BY <1>2, <2>2, NoMishapBefore
    <3> QED
      BY <2>2, <3>1 DEF given, Notice!notice
  <2>3. CASE mishap' = "none" /\ ~UNCHANGED given
    <3>1. PICK r \in Runs, lost \in BOOLEAN : GiveAlert(r, lost)
      BY <1>2, <2>3 DEF AlertNext, Probe, ReadState, SaveState, Kill, avars
    <3> DEFINE probes == loc[r].probes
               alert == AlertOf(probes, state)
    <3>2. mishap = "none"
      BY <1>2, <2>3, NoMishapBefore
    <3>3. loc[r].prev = state /\ state.alerted = told
      BY <1>2, <3>1, <3>2 DEF KnownInv, ToldInv, GiveAlert
    <3>4. alert # "nothing" /\ told' = alert /\ bell' = ~bell
      BY <2>3, <3>1, <3>3 DEF GiveAlert
    <3>5. News(ModeOf(probes), state)
      BY <3>4 DEF AlertOf
    <3>6. CASE ModeOf(probes) = "A"
      <4>1. told \in {"B", "C"} /\ told' = "A_recovered"
        BY <1>2, <3>2, <3>3, <3>4, <3>5, <3>6 DEF KnownInv, OutageTold, News, AlertOf
      <4> QED
        BY <2>3, <3>2, <3>4, <4>1
           DEF Notice!NoticeNext, Notice!NoticeRecovery, Notice!Outage
    <3>7. CASE ModeOf(probes) # "A"
      <4>1. told' = ModeOf(probes) /\ told' \in {"B", "C"} /\ told' # told
        BY <3>3, <3>4, <3>5, <3>7 DEF News, AlertOf
      <4> QED
        BY <2>3, <3>2, <3>4, <4>1
           DEF Notice!NoticeNext, Notice!NoticeOutage, Notice!Outage
    <3> QED
      BY <3>6, <3>7
  <2> QED
    BY <2>1, <2>2, <2>3
<1> QED
  BY <1>1, <1>2, KnownInvHolds, PTL DEF AlertSpec, AlertsAreNews, Notice!NoticeSpec
=============================================================================
