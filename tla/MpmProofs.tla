------------------------------ MODULE MpmProofs ------------------------------
(***************************************************************************)
(* What the Linux package guarantees for every set of secrets,             *)
(* environments and contents of subscription.env, names of copies and      *)
(* versions of the program, any size of the backups' window, and commands  *)
(* killed at every step: configure, its backups, the service around them   *)
(* and the supply chain behind that.  Type correctness holds for any       *)
(* number of concurrent commands; what the files say of each other only    *)
(* while at most one command runs at a time, which is why the theorems     *)
(* about it assume SingleOperator (two commands break it).                 *)
(***************************************************************************)
EXTENDS MpmBackup, MpmSupply, TLAPS

USE ConstantsAssumption

(***************************************************************************)
(* What the pure parts return.                                             *)
(***************************************************************************)

\* Reading degraded.json yields one of the three health values.
LEMMA LoadDegradedType ==
    ASSUME NEW h \in Health \cup {"absent"}
    PROVE  LoadDegraded(h) \in Health
BY DEF LoadDegraded, Health

\* A rendered configuration is one the audit accepts: CN rules exactly when
\* there is a CN provider.
LEMMA RenderType ==
    ASSUME NEW cn \in BOOLEAN, NEW s \in Secrets, NEW h \in Health, NEW x \in Additions
    PROVE  Render(cn, s, h, x) \in Config
BY DEF Render, Config, Routes, Health

\* The settled controller secret is a real one.
LEMMA SecretChoicesType ==
    ASSUME NEW file \in Inputs, NEW e \in Inputs,
           NEW stored \in Secrets \cup {NoSecret}
    PROVE  SecretChoices(file, e, stored) \subseteq Secrets
BY DEF SecretChoices, Inputs

\* The record of a configure run and of a health check are health values.
LEMMA RecordTypes ==
    ASSUME NEW cn \in BOOLEAN, NEW obs \in {"OK", "DEGRADED"}, NEW h \in Health
    PROVE  DegradedRecord(cn, h) \in Health /\ CheckedHealth(cn, obs, h) \in Health
BY DEF DegradedRecord, CheckedHealth, Health

\* What is accepted is something a config may have been given.
LEMMA AcceptedType ==
    ASSUME NEW x \in Overrides, NEW c, Accepted(x, c)
    PROVE  x \in Additions
BY DEF Accepted, Additions, Overrides

\* A fresh process holds nothing but its environment.
LEMMA BlankType ==
    ASSUME NEW e \in Inputs
    PROVE  Blank(e) \in Local
BY DEF Blank, Local, Health, Additions

LEMMA NoInputsType == NoInputs \in Inputs
BY DEF NoInputs, Inputs

(***************************************************************************)
(* Type correctness.  The rendering steps need the secret of the process   *)
(* to be settled, which the step counter tells.                            *)
(***************************************************************************)
Settled ==
    \A p \in Procs : pc[p] \in {"render", "load", "replace", "plan", "health"}
                       => loc[p].secret \in Secrets

TypeInv == TypeOK /\ Settled

\* Ending a command keeps the types.
LEMMA FinishType ==
    ASSUME TypeInv, NEW p \in Procs, Finish(p)
    PROVE  /\ pc' \in [Procs -> Steps] /\ cmd' \in [Procs -> Commands]
           /\ loc' \in [Procs -> Local] /\ Settled'
BY BlankType, NoInputsType DEF TypeInv, TypeOK, Finish, Settled, Steps, Commands

LEMMA InitType == Init => TypeInv
<1> SUFFICES ASSUME Init PROVE TypeInv
  OBVIOUS
<1>1. subEnv \in Inputs
  BY DEF Init
<1>2. loc \in [Procs -> Local]
  BY BlankType, NoInputsType DEF Init
<1> QED
  BY <1>1, <1>2 DEF Init, TypeInv, TypeOK, Settled, Overrides, Additions, Steps, Commands,
     Health

LEMMA NextType == TypeInv /\ [Next]_vars => TypeInv'
<1> SUFFICES ASSUME TypeInv, [Next]_vars PROVE TypeInv'
  OBVIOUS
<1> USE DEF TypeInv
<1>1. CASE EditInputs
  BY <1>1 DEF EditInputs, TypeOK, Settled
<1>2. ASSUME NEW p \in Procs, NEW k \in Commands, NEW e \in Envs, Begin(p, k, e)
      PROVE  TypeInv'
  BY <1>2, BlankType DEF Begin, Goto, Hold, files, TypeOK, Settled, Steps, Commands
<1>3. ASSUME NEW p \in Procs, NEW obs \in {"OK", "DEGRADED", "unreachable"}, Probe(p, obs)
      PROVE  TypeInv'
  <2>1. CASE Finish(p)
    BY <1>3, <2>1, FinishType DEF Probe, files, TypeOK
  <2>2. CASE Goto(p, "record") /\ UNCHANGED cmd /\
             Hold(p, [loc[p] EXCEPT !.plan = planCn,
                                    !.obs = IF obs = "OK" THEN "OK" ELSE "DEGRADED"])
    <3>1. [loc[p] EXCEPT !.plan = planCn,
                         !.obs = IF obs = "OK" THEN "OK" ELSE "DEGRADED"] \in Local
      BY DEF TypeOK, Local
    <3> QED
      BY <1>3, <2>2, <3>1 DEF Probe, Goto, Hold, files, TypeOK, Settled, Steps
  <2> QED
    BY <1>3, <2>1, <2>2 DEF Probe
<1>4. ASSUME NEW p \in Procs, RecordCnHealth(p)
      PROVE  TypeInv'
  <2>1. CheckedHealth(loc[p].plan, loc[p].obs, LoadDegraded(health)) \in Health
    BY LoadDegradedType, RecordTypes DEF TypeOK, Local
  <2>2. health' \in Health \cup {"absent"}
    BY <1>4, <2>1 DEF RecordCnHealth, TypeOK
  <2>3. CASE Finish(p)
    BY <1>4, <2>2, <2>3, FinishType DEF RecordCnHealth, TypeOK
  <2>4. CASE Goto(p, "resolve") /\ UNCHANGED <<cmd, loc>>
    BY <1>4, <2>2, <2>4 DEF RecordCnHealth, Goto, TypeOK, Settled, Steps
  <2> QED
    BY <1>4, <2>3, <2>4 DEF RecordCnHealth
<1>5. ASSUME NEW p \in Procs, Refuse(p)
      PROVE  TypeInv'
  BY <1>5, FinishType DEF Refuse, files, TypeOK
<1>6. ASSUME NEW p \in Procs, Resolve(p)
      PROVE  TypeInv'
  <2> DEFINE cn == subEnv.cn \/ loc[p].env.cn
  <2>1. PICK s \in SecretChoices(subEnv, loc[p].env, secretFile) :
          /\ secretFile' = s
          /\ Hold(p, [loc[p] EXCEPT !.cn = cn, !.secret = s])
    BY <1>6 DEF Resolve
  <2>2. s \in Secrets
    BY <2>1, SecretChoicesType DEF TypeOK, Local
  <2>3. cn \in BOOLEAN
    OBVIOUS
  <2> HIDE DEF cn
  <2>4. [loc[p] EXCEPT !.cn = cn, !.secret = s] \in Local
    BY <2>2, <2>3 DEF TypeOK, Local
  <2>5. loc'[p].secret = s
    BY <2>1 DEF Hold, TypeOK, Local
  <2>6. \A q \in Procs : q # p => loc'[q] = loc[q] /\ pc'[q] = pc[q]
    BY <1>6, <2>1 DEF Hold, Resolve, Goto, TypeOK
  <2>7. Settled'
    BY <2>2, <2>5, <2>6 DEF Settled
  <2>8. loc' \in [Procs -> Local]
    BY <2>1, <2>4 DEF Hold, TypeOK
  <2> QED
    BY <1>6, <2>1, <2>2, <2>7, <2>8 DEF Resolve, Goto, TypeOK, Steps
<1>7. ASSUME NEW p \in Procs, RenderAudit(p)
      PROVE  TypeInv'
  <2>1. CASE Finish(p)
    BY <1>7, <2>1, FinishType DEF RenderAudit, files, TypeOK
  <2>2. CASE /\ Accepted(overrides, Render(loc[p].cn, loc[p].secret, LoadDegraded(health),
                                           overrides))
             /\ Hold(p, [loc[p] EXCEPT !.seen = LoadDegraded(health), !.extra = overrides])
             /\ Goto(p, "load") /\ UNCHANGED cmd
    <3>1. [loc[p] EXCEPT !.seen = LoadDegraded(health), !.extra = overrides] \in Local
      BY <2>2, LoadDegradedType, AcceptedType DEF TypeOK, Local
    <3> QED
      BY <1>7, <2>2, <3>1 DEF RenderAudit, Goto, Hold, files, TypeOK, Settled, Steps, Local
  <2> QED
    BY <1>7, <2>1, <2>2 DEF RenderAudit
<1>8. ASSUME NEW p \in Procs, LoadRecord(p)
      PROVE  TypeInv'
  <2>1. [loc[p] EXCEPT !.rec = DegradedRecord(loc[p].cn, LoadDegraded(health))] \in Local
    BY LoadDegradedType, RecordTypes DEF TypeOK, Local
  <2> QED
    BY <1>8, <2>1 DEF LoadRecord, Goto, Hold, files, TypeOK, Settled, Steps, Local
<1>9. ASSUME NEW p \in Procs, Replace(p)
      PROVE  TypeInv'
  <2>1. Rendered(p) \in Config
    BY <1>9, RenderType DEF Rendered, Replace, TypeOK, Settled, Local
  <2> QED
    BY <1>9, <2>1 DEF Replace, Goto, TypeOK, Settled, Steps
<1>10. ASSUME NEW p \in Procs, Reject(p)
       PROVE  TypeInv'
  BY <1>10, FinishType DEF Reject, files, TypeOK
<1>11. ASSUME NEW p \in Procs, SavePlan(p)
       PROVE  TypeInv'
  BY <1>11 DEF SavePlan, Goto, TypeOK, Settled, Steps, Local
<1>12. ASSUME NEW p \in Procs, SaveDegraded(p)
       PROVE  TypeInv'
  BY <1>12, FinishType DEF SaveDegraded, TypeOK, Local
<1>13. ASSUME NEW p \in Procs, Crash(p)
       PROVE  TypeInv'
  BY <1>13, FinishType DEF Crash, files, TypeOK
<1>14. CASE UNCHANGED vars
  BY <1>14 DEF vars, files, TypeOK, Settled
<1> QED
  BY <1>1, <1>2, <1>3, <1>4, <1>5, <1>6, <1>7, <1>8, <1>9, <1>10, <1>11, <1>12,
     <1>13, <1>14 DEF Next, ConfigureStep, Progress

\* Every file and every process keeps its type, for any number of commands
\* running at the same time.
THEOREM TypeCorrect == Spec => []TypeOK
<1>1. TypeInv => TypeOK
  BY DEF TypeInv
<1> QED
  BY InitType, NextType, <1>1, PTL DEF Spec

(***************************************************************************)
(* One command at a time.  Between its first read of degraded.json and its *)
(* last write, a configure run then owns the record: what it saw is still  *)
(* recorded, what it will record follows from what it saw, the overrides   *)
(* it loaded are accepted by what it rendered, and once it has replaced    *)
(* config.yaml that file is what it rendered.                              *)
(***************************************************************************)
Owned(p) ==
    /\ pc[p] \in {"load", "replace", "plan", "health"}
         => loc[p].seen = LoadDegraded(health)
    /\ pc[p] \in {"replace", "plan", "health"}
         => loc[p].rec = DegradedRecord(loc[p].cn, loc[p].seen)
    /\ pc[p] \in {"load", "replace", "plan", "health"} => Accepted(loc[p].extra, Rendered(p))
    /\ pc[p] \in {"plan", "health"} => config = Rendered(p)

RunInv == TypeInv /\ \A p \in Procs : Owned(p)

\* The rest of a run is forgotten when it ends.
LEMMA FinishOwned ==
    ASSUME SingleOperator, TypeInv, NEW p \in Procs, Finish(p)
    PROVE  \A q \in Procs : Owned(q)'
BY DEF SingleOperator, TypeInv, TypeOK, Finish, Owned

LEMMA NextRun ==
    ASSUME SingleOperator
    PROVE  RunInv /\ [Next]_vars => RunInv'
<1> SUFFICES ASSUME RunInv, [Next]_vars PROVE \A q \in Procs : Owned(q)'
  BY NextType DEF RunInv
<1> USE DEF RunInv, TypeInv
<1>1. CASE EditInputs
  BY <1>1 DEF EditInputs, Owned, Rendered
<1>2. ASSUME NEW p \in Procs, NEW k \in Commands, NEW e \in Envs, Begin(p, k, e)
      PROVE  \A q \in Procs : Owned(q)'
  BY <1>2 DEF SingleOperator, Begin, Goto, TypeOK, Owned
<1>3. ASSUME NEW p \in Procs, NEW obs \in {"OK", "DEGRADED", "unreachable"}, Probe(p, obs)
      PROVE  \A q \in Procs : Owned(q)'
  BY <1>3, FinishOwned DEF SingleOperator, Probe, Goto, TypeOK, Owned
<1>4. ASSUME NEW p \in Procs, RecordCnHealth(p)
      PROVE  \A q \in Procs : Owned(q)'
  BY <1>4, FinishOwned DEF SingleOperator, RecordCnHealth, Goto, TypeOK, Owned
<1>5. ASSUME NEW p \in Procs, Refuse(p) \/ Reject(p) \/ SaveDegraded(p) \/ Crash(p)
      PROVE  \A q \in Procs : Owned(q)'
  BY <1>5, FinishOwned DEF Refuse, Reject, SaveDegraded, Crash
<1>6. ASSUME NEW p \in Procs, Resolve(p)
      PROVE  \A q \in Procs : Owned(q)'
  BY <1>6 DEF SingleOperator, Resolve, Goto, TypeOK, Owned
<1>7. ASSUME NEW p \in Procs, RenderAudit(p)
      PROVE  \A q \in Procs : Owned(q)'
  <2>1. CASE Finish(p)
    BY <2>1, FinishOwned
  <2>2. CASE /\ Accepted(overrides, Render(loc[p].cn, loc[p].secret, LoadDegraded(health),
                                           overrides))
             /\ Hold(p, [loc[p] EXCEPT !.seen = LoadDegraded(health), !.extra = overrides])
             /\ Goto(p, "load")
    <3>1. /\ loc'[p].cn = loc[p].cn /\ loc'[p].secret = loc[p].secret
          /\ loc'[p].seen = LoadDegraded(health) /\ loc'[p].extra = overrides
      BY <2>2 DEF Hold, TypeOK, Local
    <3>2. Accepted(loc[p].extra, Rendered(p))'
      BY <2>2, <3>1 DEF Rendered
    <3> QED
      BY <1>7, <2>2, <3>1, <3>2 DEF SingleOperator, RenderAudit, Goto, files, TypeOK, Owned
  <2> QED
    BY <1>7, <2>1, <2>2 DEF RenderAudit
<1>8. ASSUME NEW p \in Procs, LoadRecord(p)
      PROVE  \A q \in Procs : Owned(q)'
  <2>1. /\ loc'[p].cn = loc[p].cn /\ loc'[p].seen = loc[p].seen
        /\ loc'[p].secret = loc[p].secret /\ loc'[p].extra = loc[p].extra
        /\ loc'[p].rec = DegradedRecord(loc[p].cn, LoadDegraded(health))
        /\ loc[p].seen = LoadDegraded(health)
    BY <1>8 DEF LoadRecord, Hold, TypeOK, Local, Owned
  <2>2. Rendered(p)' = Rendered(p)
    BY <2>1 DEF Rendered
  <2> QED
    BY <1>8, <2>1, <2>2 DEF SingleOperator, LoadRecord, Goto, files, TypeOK, Owned
<1>9. ASSUME NEW p \in Procs, Replace(p)
      PROVE  \A q \in Procs : Owned(q)'
  <2>1. Rendered(p)' = Rendered(p)
    BY <1>9 DEF Replace, Rendered
  <2> QED
    BY <1>9, <2>1 DEF SingleOperator, Replace, Goto, TypeOK, Owned
<1>10. ASSUME NEW p \in Procs, SavePlan(p)
       PROVE  \A q \in Procs : Owned(q)'
  <2>1. Rendered(p)' = Rendered(p)
    BY <1>10 DEF SavePlan, Rendered
  <2> QED
    BY <1>10, <2>1 DEF SingleOperator, SavePlan, Goto, TypeOK, Owned
<1>11. CASE UNCHANGED vars
  BY <1>11 DEF vars, files, Owned, Rendered
<1> QED
  BY <1>1, <1>2, <1>3, <1>4, <1>5, <1>6, <1>7, <1>8, <1>9, <1>10, <1>11
     DEF Next, ConfigureStep, Progress

LEMMA RunInvariant ==
    ASSUME SingleOperator
    PROVE  Spec => []RunInv
<1>1. Init => RunInv
  BY InitType DEF Init, RunInv, Owned
<1> QED
  BY <1>1, NextRun, PTL DEF Spec

(***************************************************************************)
(* What follows for the files.                                             *)
(***************************************************************************)

\* A rendered configuration agrees with the health it was rendered for.
LEMMA RenderAgrees ==
    ASSUME NEW cn \in BOOLEAN, NEW s \in Secrets, NEW h \in Health, NEW x \in Additions
    PROVE  (Render(cn, s, h, x).route = "refuse") <=> (cn /\ h = "DEGRADED")
BY DEF Render

\* Only the last step of configure and the verdict of a health check write
\* degraded.json.
LEMMA HealthWriters ==
    ASSUME [Next]_vars, health' # health
    PROVE  \E p \in Procs : RecordCnHealth(p) \/ SaveDegraded(p)
BY DEF Next, ConfigureStep, Progress, vars, files, EditInputs, Begin, Probe, Refuse, Resolve,
       RenderAudit, LoadRecord, Replace, Reject, SavePlan, Crash

\* Only one step of configure writes config.yaml.
LEMMA ConfigWriters ==
    ASSUME [Next]_vars, config' # config
    PROVE  \E p \in Procs : Replace(p)
BY DEF Next, ConfigureStep, Progress, vars, files, EditInputs, Begin, Probe, RecordCnHealth,
       Refuse, Resolve, RenderAudit, LoadRecord, Reject, SavePlan, SaveDegraded, Crash

\* Only one step of configure writes plan.json.
LEMMA PlanWriters ==
    ASSUME [Next]_vars, planCn' # planCn
    PROVE  \E p \in Procs : SavePlan(p)
BY DEF Next, ConfigureStep, Progress, vars, files, EditInputs, Begin, Probe, RecordCnHealth,
       Refuse, Resolve, RenderAudit, LoadRecord, Replace, Reject, SaveDegraded, Crash

\* The step that replaces config.yaml leaves it in agreement with the record.
LEMMA ReplaceAgrees ==
    ASSUME RunInv, NEW p \in Procs, Replace(p)
    PROVE  Agreement'
<1>1. config' = Render(loc[p].cn, loc[p].secret, loc[p].seen, loc[p].extra) /\ health' = health
  BY DEF Replace, Rendered
<1>2. loc[p].seen = LoadDegraded(health) /\ loc[p].secret \in Secrets
      /\ loc[p].cn \in BOOLEAN /\ loc[p].seen \in Health /\ loc[p].extra \in Additions
  BY DEF RunInv, TypeInv, Settled, Owned, Replace, TypeOK, Local
<1>3. config'.cn = loc[p].cn
  BY <1>1 DEF Render
<1>4. (config'.route = "refuse") <=> (loc[p].cn /\ loc[p].seen = "DEGRADED")
  BY <1>1, <1>2, RenderAgrees
<1> QED
  BY <1>1, <1>2, <1>3, <1>4 DEF Agreement, LoadDegraded

\* So does the step that saves the record of a configure run.
LEMMA SaveAgrees ==
    ASSUME RunInv, NEW p \in Procs, SaveDegraded(p)
    PROVE  /\ Agreement'
           /\ ~(health = "DEGRADED" /\ health' = "OK")
<1>1. config' = Render(loc[p].cn, loc[p].secret, loc[p].seen, loc[p].extra)
      /\ health' = DegradedRecord(loc[p].cn, loc[p].seen)
  BY DEF SaveDegraded, RunInv, Owned, Rendered
<1>2. loc[p].seen = LoadDegraded(health) /\ loc[p].secret \in Secrets
      /\ loc[p].cn \in BOOLEAN /\ loc[p].seen \in Health /\ loc[p].extra \in Additions
  BY DEF RunInv, TypeInv, Settled, Owned, SaveDegraded, TypeOK, Local
<1>3. config'.cn = loc[p].cn
  BY <1>1 DEF Render
<1>4. (config'.route = "refuse") <=> (loc[p].cn /\ loc[p].seen = "DEGRADED")
  BY <1>1, <1>2, RenderAgrees
<1> QED
  BY <1>1, <1>2, <1>3, <1>4 DEF Agreement, DegradedRecord, LoadDegraded

\* With one command at a time, a recorded DEGRADED becomes OK only through a
\* health check that saw a live CN node, and never through configure
\* (lifecycle._degraded_record, _record_cn_health).
THEOREM OnlyHealthCheckClearsThm ==
    ASSUME SingleOperator
    PROVE  Spec => OnlyHealthCheckClears
<1>1. ASSUME RunInv, [Next]_vars, health = "DEGRADED", health' = "OK"
      PROVE  \E p \in Procs : pc[p] = "record" /\ loc[p].obs = "OK"
  <2>1. PICK p \in Procs : RecordCnHealth(p)
    BY <1>1, HealthWriters, SaveAgrees
  <2>2. health' = CheckedHealth(loc[p].plan, loc[p].obs, "DEGRADED")
    BY <1>1, <2>1 DEF RecordCnHealth, LoadDegraded
  <2> QED
    BY <1>1, <2>1, <2>2 DEF CheckedHealth, RecordCnHealth
<1>2. RunInv /\ [Next]_vars =>
        [health = "DEGRADED" /\ health' = "OK"
           => \E p \in Procs : pc[p] = "record" /\ loc[p].obs = "OK"]_vars
  BY <1>1
<1> QED
  BY <1>2, RunInvariant, PTL DEF Spec, OnlyHealthCheckClears

\* With one command at a time, only the verdict of a health check can make the
\* record and the CN rules disagree, no step of configure does and no crash; and
\* replacing config.yaml always makes its rules say what is recorded
\* (lifecycle.configure).
THEOREM OnlyVerdictBreaksAgreementThm ==
    ASSUME SingleOperator
    PROVE  Spec => OnlyVerdictBreaksAgreement
<1>1. ASSUME RunInv, [Next]_vars, Agreement, ~Agreement'
      PROVE  \E p \in Procs : pc[p] = "record"
  <2>1. config' # config \/ health' # health
    BY <1>1 DEF Agreement
  <2>2. ~ \E p \in Procs : Replace(p) \/ SaveDegraded(p)
    BY <1>1, ReplaceAgrees, SaveAgrees
  <2> QED
    BY <1>1, <2>1, <2>2, ConfigWriters, HealthWriters DEF RecordCnHealth
<1>2. ASSUME RunInv, [Next]_vars, config' # config
      PROVE  Agreement'
  BY <1>2, ConfigWriters, ReplaceAgrees
<1>3. RunInv /\ [Next]_vars =>
        [/\ Agreement /\ ~Agreement' => \E p \in Procs : pc[p] = "record"
         /\ config' # config => Agreement']_vars
  BY <1>1, <1>2
<1> QED
  BY <1>3, RunInvariant, PTL DEF Spec, OnlyVerdictBreaksAgreement

(***************************************************************************)
(* The plan.  Killed between config.yaml and plan.json a run leaves them   *)
(* apart; one that got past both leaves them in agreement.                 *)
(***************************************************************************)
PlanInv == \A p \in Procs : pc[p] = "health" => planCn = loc[p].cn

\* With one command at a time, a configure that gets as far as its last write
\* leaves a plan that describes config.yaml (lifecycle.configure, save_plan).
THEOREM PlanDescribesConfigThm ==
    ASSUME SingleOperator
    PROVE  Spec => PlanDescribesConfig
<1>1. Init => PlanInv
  BY DEF Init, PlanInv
<1>2. ASSUME RunInv, PlanInv, [Next]_vars
      PROVE  PlanInv'
  <2>1. ASSUME NEW p \in Procs, SavePlan(p)
        PROVE  PlanInv'
    BY <2>1 DEF SingleOperator, SavePlan, PlanInv
  <2>2. ASSUME NEW p \in Procs, pc'[p] # "health"
        PROVE  PlanInv'
    BY <2>2 DEF SingleOperator, PlanInv
  <2>3. ASSUME NEW p \in Procs,
               \/ \E k \in Commands, e \in Envs : Begin(p, k, e)
               \/ \E obs \in {"OK", "DEGRADED", "unreachable"} : Probe(p, obs)
               \/ RecordCnHealth(p)
        PROVE  pc'[p] # "health"
    BY <1>2, <2>3 DEF Begin, Probe, RecordCnHealth, Goto, Finish, RunInv, TypeInv, TypeOK
  <2>4. ASSUME NEW p \in Procs,
               \/ Resolve(p) \/ RenderAudit(p) \/ LoadRecord(p) \/ Replace(p)
               \/ SaveDegraded(p) \/ Refuse(p) \/ Reject(p) \/ Crash(p)
        PROVE  pc'[p] # "health"
    BY <1>2, <2>4 DEF Resolve, RenderAudit, LoadRecord, Replace, SaveDegraded, Refuse,
                      Reject, Crash, Goto, Finish, RunInv, TypeInv, TypeOK
  <2>5. CASE UNCHANGED vars \/ EditInputs
    BY <1>2, <2>5 DEF vars, files, EditInputs, PlanInv
  <2> QED
    BY <1>2, <2>1, <2>2, <2>3, <2>4, <2>5 DEF Next, ConfigureStep, Progress
<1>3. ASSUME RunInv, PlanInv, [Next]_vars,
             NEW p \in Procs, pc[p] = "health", pc'[p] = "idle"
      PROVE  config' # NoConfig /\ planCn' = config'.cn
  <2>1. config = Rendered(p) /\ planCn = loc[p].cn
    BY <1>3 DEF RunInv, Owned, PlanInv
  <2>2. config \in Config /\ config.cn = loc[p].cn
    BY <1>3, <2>1, RenderType DEF Rendered, Render, RunInv, TypeInv, TypeOK, Settled, Local
  <2>3. UNCHANGED <<config, planCn>>
    BY <1>3, ConfigWriters, PlanWriters DEF SingleOperator, Replace, SavePlan
  <2> QED
    BY <2>1, <2>2, <2>3
<1>4. RunInv /\ PlanInv /\ [Next]_vars =>
        [\A p \in Procs : pc[p] = "health" /\ pc'[p] = "idle"
           => config' # NoConfig /\ planCn' = config'.cn]_vars
  BY <1>3
<1>5. RunInv /\ PlanInv /\ [Next]_vars => PlanInv'
  BY <1>2
<1> QED
  BY <1>1, <1>4, <1>5, RunInvariant, PTL DEF Spec, PlanDescribesConfig

(***************************************************************************)
(* The controller secret.  From the step that settles it, a run and the    *)
(* stored file have the same secret, and there is one as soon as there is  *)
(* a config.yaml.                                                          *)
(***************************************************************************)
SecretInv ==
    /\ \A p \in Procs : pc[p] \in {"render", "load", "replace", "plan", "health"}
                          => secretFile = loc[p].secret
    /\ config # NoConfig => secretFile # NoSecret

\* Only one step of configure writes controller.secret.
LEMMA SecretWriters ==
    ASSUME [Next]_vars, secretFile' # secretFile
    PROVE  \E p \in Procs : Resolve(p)
BY DEF Next, ConfigureStep, Progress, vars, files, EditInputs, Begin, Probe, RecordCnHealth,
       Refuse, RenderAudit, LoadRecord, Replace, Reject, SavePlan, SaveDegraded, Crash

\* The secret a run settles on is the one it stores.
LEMMA ResolveStores ==
    ASSUME RunInv, NEW p \in Procs, Resolve(p)
    PROVE  /\ secretFile' = loc'[p].secret
           /\ secretFile' \in SecretChoices(subEnv, loc[p].env, secretFile)
           /\ secretFile' \in Secrets
<1>1. PICK s \in SecretChoices(subEnv, loc[p].env, secretFile) :
        /\ secretFile' = s
        /\ Hold(p, [loc[p] EXCEPT !.cn = subEnv.cn \/ loc[p].env.cn, !.secret = s])
  BY DEF Resolve
<1>2. s \in Secrets
  BY SecretChoicesType DEF RunInv, TypeInv, TypeOK, Local
<1>3. loc'[p].secret = s
  BY <1>1 DEF Hold, RunInv, TypeInv, TypeOK, Local
<1> QED
  BY <1>1, <1>2, <1>3

LEMMA SecretInvPreserved ==
    ASSUME SingleOperator, RunInv, SecretInv, [Next]_vars
    PROVE  SecretInv'
<1> USE DEF SecretInv, RunInv, TypeInv
<1>1. ASSUME NEW p \in Procs, Resolve(p)
      PROVE  SecretInv'
  BY <1>1, ResolveStores DEF SingleOperator, Resolve
<1>2. ASSUME NEW p \in Procs, RenderAudit(p) \/ LoadRecord(p)
      PROVE  SecretInv'
  <2>1. loc'[p].secret = loc[p].secret \/ pc'[p] = "idle"
    BY <1>2 DEF RenderAudit, LoadRecord, Hold, Finish, TypeOK, Local
  <2>2. secretFile' = secretFile /\ config' = config
    BY <1>2 DEF RenderAudit, LoadRecord, files
  <2>3. pc[p] \in {"render", "load"}
    BY <1>2 DEF RenderAudit, LoadRecord
  <2> QED
    BY <2>1, <2>2, <2>3 DEF SingleOperator
<1>3. ASSUME NEW p \in Procs, Replace(p)
      PROVE  SecretInv'
  <2>1. secretFile # NoSecret
    BY <1>3 DEF Replace, Settled
  <2> QED
    BY <1>3, <2>1 DEF SingleOperator, Replace, Goto, TypeOK
<1>4. ASSUME NEW p \in Procs, SavePlan(p)
      PROVE  SecretInv'
  BY <1>4 DEF SingleOperator, SavePlan, Goto, TypeOK
<1>5. ASSUME NEW p \in Procs,
             \/ \E k \in Commands, e \in Envs : Begin(p, k, e)
             \/ \E obs \in {"OK", "DEGRADED", "unreachable"} : Probe(p, obs)
             \/ RecordCnHealth(p) \/ SaveDegraded(p)
             \/ Refuse(p) \/ Reject(p) \/ Crash(p)
      PROVE  SecretInv'
  <2>1. pc'[p] \in {"idle", "probe", "record", "resolve"}
    BY <1>5 DEF Begin, Probe, RecordCnHealth, SaveDegraded, Refuse, Reject, Crash, Goto,
       Finish, TypeOK
  <2>2. secretFile' = secretFile /\ config' = config
    BY <1>5 DEF Begin, Probe, RecordCnHealth, SaveDegraded, Refuse, Reject, Crash, files
  <2> QED
    BY <2>1, <2>2 DEF SingleOperator
<1>6. CASE EditInputs \/ UNCHANGED vars
  BY <1>6 DEF EditInputs, vars, files
<1> QED
  BY <1>1, <1>2, <1>3, <1>4, <1>5, <1>6 DEF Next, ConfigureStep, Progress

\* With one command at a time, the CLI is locked out of mihomo only by a run
\* that was given another secret, until a configure gets to its last write
\* (secrets_io.resolve, lifecycle.configure).
THEOREM OnlyGivenSecretLocksOutThm ==
    ASSUME SingleOperator
    PROVE  Spec => OnlyGivenSecretLocksOut
<1> DEFINE Given == \E p \in Procs :
                       pc[p] = "resolve" /\ {subEnv.secret, loc[p].env.secret} # {NoSecret}
           Restored == \A p \in Procs :
                         pc[p] = "health" /\ pc'[p] = "idle" => SecretsAgree'
<1>1. Init => SecretInv
  BY DEF Init, SecretInv
<1>2. ASSUME RunInv, SecretInv, [Next]_vars, SecretsAgree, ~SecretsAgree'
      PROVE  Given
  <2>1. ~ \E p \in Procs : Replace(p)
    BY <1>2 DEF Replace, Rendered, Render, SecretInv, SecretsAgree
  <2>2. config' = config /\ config # NoConfig
    BY <1>2, <2>1, ConfigWriters DEF SecretsAgree
  <2>3. PICK p \in Procs : Resolve(p)
    BY <1>2, <2>2, SecretWriters DEF SecretsAgree
  <2>4. secretFile' \in SecretChoices(subEnv, loc[p].env, secretFile) /\ secretFile' # secretFile
    BY <1>2, <2>2, <2>3, ResolveStores DEF SecretsAgree
  <2>5. {subEnv.secret, loc[p].env.secret} \ {NoSecret} # {}
    BY <1>2, <2>2, <2>4 DEF SecretChoices, SecretInv
  <2> QED
    BY <2>3, <2>5 DEF Resolve
<1>3. ASSUME RunInv, SecretInv, [Next]_vars
      PROVE  Restored
  <2> SUFFICES ASSUME NEW p \in Procs, pc[p] = "health", pc'[p] = "idle"
               PROVE  SecretsAgree'
    OBVIOUS
  <2>1. config = Rendered(p) /\ secretFile = loc[p].secret
    BY <1>3 DEF RunInv, Owned, SecretInv
  <2>2. config.secret = secretFile
    BY <2>1 DEF Rendered, Render
  <2>3. config' = config /\ secretFile' = secretFile
    BY <1>3, ConfigWriters, SecretWriters DEF SingleOperator, Replace, Resolve
  <2> QED
    BY <2>2, <2>3 DEF SecretsAgree
<1>4. RunInv /\ SecretInv /\ [Next]_vars
        => [(SecretsAgree /\ ~SecretsAgree' => Given) /\ Restored]_vars
  BY <1>2, <1>3
<1>5. RunInv /\ SecretInv /\ [Next]_vars => SecretInv'
  BY SecretInvPreserved
<1> QED
  BY <1>1, <1>4, <1>5, RunInvariant, PTL DEF Spec, OnlyGivenSecretLocksOut

(***************************************************************************)
(* The gate of the unit.  What configure rendered for the health it saw is *)
(* what the gate renders for the record configure leaves, whether its last *)
(* write took place or not.                                                *)
(***************************************************************************)

\* Rendering for the health a run records gives what it rendered for the health
\* it saw: only DEGRADED makes a difference, and the record keeps it.
LEMMA RecordRendersAlike ==
    ASSUME NEW cn \in BOOLEAN, NEW s, NEW h \in Health, NEW x
    PROVE  Render(cn, s, LoadDegraded(DegradedRecord(cn, h)), x) = Render(cn, s, h, x)
BY DEF Render, LoadDegraded, DegradedRecord, Health

\* A run that has written all but the record ends by writing it or by dying.
LEMMA LastWrite ==
    ASSUME SingleOperator, TypeInv, [Next]_vars,
           NEW p \in Procs, pc[p] = "health", pc'[p] = "idle"
    PROVE  SaveDegraded(p) \/ Crash(p)
<1>1. ASSUME NEW q \in Procs
      PROVE  q = p
  BY DEF SingleOperator
<1>2. ~(EditInputs \/ UNCHANGED vars)
  BY DEF EditInputs, vars
<1> QED
  BY <1>1, <1>2 DEF Next, ConfigureStep, Progress, Begin, Probe, RecordCnHealth, Refuse, Resolve,
     RenderAudit, LoadRecord, Replace, Reject, SavePlan

\* With one command at a time, a configure that gets as far as its last write
\* leaves files the unit's `configure --check-only` accepts, if those are all
\* the inputs it had (lifecycle.configure, the ExecStartPre of the unit).
THEOREM ConfigurePassesGateThm ==
    ASSUME SingleOperator
    PROVE  Spec => ConfigurePassesGate
<1>1. Init => SecretInv
  BY DEF Init, SecretInv
<1>2. ASSUME RunInv, SecretInv, [Next]_vars, NEW p \in Procs,
             pc[p] = "health", pc'[p] = "idle", InputsAsResolved(p)
      PROVE  GateAccepts'
  <2> DEFINE cn == loc[p].cn
             s == loc[p].secret
             h == loc[p].seen
             x == loc[p].extra
  <2>1. /\ config = Render(cn, s, h, x) /\ secretFile = s /\ Accepted(x, config)
        /\ h = LoadDegraded(health) /\ loc[p].rec = DegradedRecord(cn, h)
    BY <1>2 DEF RunInv, Owned, SecretInv, Rendered
  <2>2. cn \in BOOLEAN /\ s \in Secrets /\ h \in Health /\ x \in Additions
    BY <1>2 DEF RunInv, TypeInv, Settled, TypeOK, Local
  <2>3. UNCHANGED <<subEnv, overrides, secretFile, config>> /\ health' \in {health, loc[p].rec}
    BY <1>2, LastWrite DEF RunInv, SaveDegraded, Crash, files
  <2>4. Render(cn, s, LoadDegraded(health'), x) = config
    BY <2>1, <2>2, <2>3, RecordRendersAlike
  <2>5. config \in Config
    BY <2>1, <2>2, RenderType
  <2>6. /\ subEnv.foreign /\ subEnv.cn = cn /\ subEnv.secret \in {NoSecret, s}
        /\ overrides = x
    BY <1>2, <2>1 DEF InputsAsResolved
  <2>7. Resolvable(subEnv, NoInputs)
    BY <2>6 DEF Resolvable, NoInputs
  <2>8. s \in SecretChoices(subEnv, NoInputs, s)
    BY <2>2, <2>6 DEF SecretChoices, NoInputs
  <2> HIDE DEF cn, s, h, x
  <2> QED
    BY <2>1, <2>3, <2>4, <2>5, <2>6, <2>7, <2>8 DEF GateAccepts
<1>3. RunInv /\ SecretInv /\ [Next]_vars =>
        [\A p \in Procs :
           pc[p] = "health" /\ pc'[p] = "idle" /\ InputsAsResolved(p)
             => GateAccepts']_vars
  BY <1>2
<1>4. RunInv /\ SecretInv /\ [Next]_vars => SecretInv'
  BY SecretInvPreserved
<1> QED
  BY <1>1, <1>3, <1>4, RunInvariant, PTL DEF Spec, ConfigurePassesGate

-----------------------------------------------------------------------------
(* The backups of config.yaml.  They do not disturb configure, so that the *)
(* theorems above hold with them.  The copy a run has made is that of the  *)
(* config.yaml it replaces because no other command replaces it in between *)
(* (SingleOperator), and because the entry of that copy, the last one, is  *)
(* always inside the window.                                               *)

\* Every step of a backup leaves the files and processes of configure alone.
LEMMA BackupStep ==
    ASSUME [BackupNext]_<<vars, bvars>>
    PROVE  [Next]_vars
BY DEF BackupNext, Copy, Prune, WriteIndex

\* Configure with its backups is configure (lifecycle.configure, state.backup).
THEOREM BackupsImplementConfigure == BackupSpec => Spec
<1>1. BackupInit => Init
  BY DEF BackupInit
<1> QED
  BY <1>1, BackupStep, PTL DEF BackupSpec, Spec

-----------------------------------------------------------------------------
(* Types *)

\* The window is never exceeded.
LEMMA EntriesFit ==
    ASSUME BackupAssumption, index \in Seq(Names), Len(index) <= Keep,
           NEW p \in Procs, bname[p] \in Names
    PROVE  Entries(p) \in Seq(Names) /\ Len(Entries(p)) <= Keep
<1> DEFINE all == Append(index, bname[p])
<1>1. all \in Seq(Names) /\ Len(all) = Len(index) + 1
  OBVIOUS
<1>2. CASE Len(all) <= Keep
  BY <1>1, <1>2 DEF Entries
<1>3. CASE ~(Len(all) <= Keep)
  <2>1. Entries(p) = Tail(all)
    BY <1>3 DEF Entries
  <2>2. Tail(all) \in Seq(Names) /\ Len(Tail(all)) = Len(all) - 1
    BY <1>1
  <2> QED
    BY <1>1, <2>1, <2>2 DEF BackupAssumption
<1> QED
  BY <1>2, <1>3

LEMMA BackupTypesPreserved ==
    ASSUME BackupAssumption, TypeOK, BackupTypeOK, [BackupNext]_<<vars, bvars>>
    PROVE  BackupTypeOK'
<1> USE DEF BackupTypeOK
<1>1. CASE Next /\ Around
  <2>1. copies' \in [Names -> Copied]
    BY <1>1 DEF Around, Copied
  <2>2. ASSUME NEW p \in Procs, bstep'[p] # "none"
        PROVE  pc'[p] = "replace" /\ bname'[p] # NoName
    BY <1>1, <2>2 DEF Around
  <2> QED
    BY <1>1, <2>1, <2>2 DEF Around
<1>2. ASSUME NEW p \in Procs, Copy(p)
      PROVE  BackupTypeOK'
  <2>1. PICK n \in Names :
           /\ copies' = [copies EXCEPT ![n] = "current"]
           /\ bname' = [bname EXCEPT ![p] = n]
           /\ latest' = n
    BY <1>2 DEF Copy, Existing, ToSet
  <2>2. pc' = pc /\ index' = index
    BY <1>2 DEF Copy, vars
  <2> QED
    BY <1>2, <2>1, <2>2 DEF Copy, Copied, BackupAssumption
<1>3. ASSUME NEW p \in Procs, Prune(p)
      PROVE  BackupTypeOK'
  <2>1. pc' = pc /\ UNCHANGED <<index, latest, bname>>
    BY <1>3 DEF Prune, vars
  <2>2. copies' \in [Names -> Copied]
    BY <1>3 DEF Prune, Copied
  <2>3. bstep' = bstep \/ bstep' = [bstep EXCEPT ![p] = "index"]
    BY <1>3 DEF Prune
  <2> QED
    BY <1>3, <2>1, <2>2, <2>3 DEF Prune
<1>4. ASSUME NEW p \in Procs, WriteIndex(p)
      PROVE  BackupTypeOK'
  <2>1. Entries(p) \in Seq(Names) /\ Len(Entries(p)) <= Keep
    BY <1>4, EntriesFit DEF WriteIndex
  <2>2. pc' = pc
    BY <1>4 DEF WriteIndex, vars
  <2> QED
    BY <1>4, <2>1, <2>2 DEF WriteIndex
<1>5. CASE UNCHANGED <<vars, bvars>>
  BY <1>5 DEF vars, bvars
<1> QED
  BY <1>1, <1>2, <1>3, <1>4, <1>5 DEF BackupNext

\* The backup area and its index keep their types, however many commands there
\* are, and the index never exceeds its window (state.backup).
THEOREM BackupTypes ==
    ASSUME BackupAssumption
    PROVE  BackupSpec => []BackupTypeOK
<1>1. BackupInit => BackupTypeOK
  BY DEF BackupInit, BackupTypeOK, Copied, BackupAssumption
<1>2. TypeOK /\ BackupTypeOK /\ [BackupNext]_<<vars, bvars>> => BackupTypeOK'
  BY BackupTypesPreserved
<1> QED
  BY <1>1, <1>2, BackupsImplementConfigure, TypeCorrect, PTL DEF BackupSpec

-----------------------------------------------------------------------------
\* Whoever has begun a backup is about to replace the config.yaml it has copied.
Copies ==
    /\ copies \in [Names -> Copied]
    /\ index \in Seq(Names)
    /\ latest \in Names \cup {NoName}
    /\ bstep \in [Procs -> {"none", "prune", "index", "done"}]
    /\ DOMAIN bname = Procs
    /\ \A p \in Procs : bstep[p] # "none" => /\ bname[p] \in Names
                                             /\ copies[bname[p]] = "current"

\* The window holds the newest entry.
LEMMA NewestIsKept ==
    ASSUME BackupAssumption, index \in Seq(Names), NEW p \in Procs, bname[p] \in Names
    PROVE  Entries(p) \in Seq(Names) /\ bname[p] \in Kept(p)
<1> DEFINE all == Append(index, bname[p])
<1>1. all \in Seq(Names) /\ Len(all) = Len(index) + 1 /\ all[Len(all)] = bname[p]
  OBVIOUS
<1>2. CASE Len(all) <= Keep
  <2>1. Entries(p) = all
    BY <1>2 DEF Entries
  <2> QED
    BY <1>1, <2>1 DEF Kept, ToSet
<1>3. CASE ~(Len(all) <= Keep)
  <2>1. Entries(p) = Tail(all)
    BY <1>3 DEF Entries
  <2>2. Len(all) >= 2
    BY <1>1, <1>3 DEF BackupAssumption
  <2>3. Tail(all) \in Seq(Names) /\ Len(Tail(all)) = Len(all) - 1
    BY <1>1, <2>2
  <2>4. Tail(all)[Len(all) - 1] = all[Len(all)]
    BY <1>1, <2>2
  <2>5. Len(all) - 1 \in DOMAIN Tail(all)
    BY <1>1, <2>2, <2>3
  <2> QED
    BY <1>1, <2>1, <2>3, <2>4, <2>5 DEF Kept, ToSet
<1> QED
  BY <1>2, <1>3

LEMMA CopiesPreserved ==
    ASSUME BackupAssumption, SingleOperator, TypeOK, Copies, [BackupNext]_<<vars, bvars>>
    PROVE  Copies'
<1> USE DEF Copies
<1>1. CASE Next /\ Around
  <2>1. ASSUME NEW p \in Procs, bstep'[p] # "none"
        PROVE  bstep[p] # "none" /\ bname'[p] = bname[p] /\ config' = config
    <3>1. pc'[p] = "replace" /\ bstep'[p] = bstep[p] /\ bname'[p] = bname[p]
      BY <1>1, <2>1 DEF Around
    <3>2. ~ Replace(p)
      BY <3>1 DEF Replace, Goto, TypeOK
    <3> QED
      BY <1>1, <2>1, <3>1, <3>2, ConfigWriters DEF SingleOperator
  <2> QED
    BY <1>1, <2>1 DEF Around, Copied, Existing
<1>2. ASSUME NEW p \in Procs, Copy(p)
      PROVE  Copies'
  <2>1. PICK n \in Names :
           copies' = [copies EXCEPT ![n] = "current"] /\ bname' = [bname EXCEPT ![p] = n]
    BY <1>2 DEF Copy, Existing, ToSet
  <2> QED
    BY <1>2, <2>1 DEF Copy, SingleOperator, Copied
<1>3. ASSUME NEW p \in Procs, Prune(p)
      PROVE  Copies'
  <2>1. bname[p] \in Kept(p) /\ bname[p] \in Names /\ copies[bname[p]] = "current"
    BY <1>3, NewestIsKept DEF Prune
  <2>2. CASE Existing \ Kept(p) = {}
    BY <1>3, <2>1, <2>2 DEF Prune, SingleOperator
  <2>3. CASE Existing \ Kept(p) # {}
    <3>1. PICK n \in Names \ Kept(p) : copies' = [copies EXCEPT ![n] = "none"]
      BY <1>3, <2>3 DEF Prune, Existing
    <3>2. UNCHANGED <<index, latest, bstep, bname>>
      BY <1>3, <2>3 DEF Prune
    <3>3. copies' \in [Names -> Copied]
      BY <3>1 DEF Copied
    <3>4. copies'[bname[p]] = "current"
      BY <2>1, <3>1
    <3>5. \A q \in Procs : q = p
      BY DEF SingleOperator
    <3> QED
      BY <3>2, <3>3, <3>4, <3>5
  <2> QED
    BY <2>2, <2>3
<1>4. ASSUME NEW p \in Procs, WriteIndex(p)
      PROVE  Copies'
  <2>1. Entries(p) \in Seq(Names)
    BY <1>4, NewestIsKept DEF WriteIndex
  <2> QED
    BY <1>4, <2>1 DEF WriteIndex, SingleOperator
<1>5. CASE UNCHANGED <<vars, bvars>>
  BY <1>5 DEF bvars
<1> QED
  BY <1>1, <1>2, <1>3, <1>4, <1>5 DEF BackupNext

\* With one command at a time, config.yaml is never replaced before there is a copy
\* of it in the backup area, however often runs were killed in the middle of a
\* backup and whatever copies share a name (state.backup, lifecycle.configure).
THEOREM ReplacedIsKeptThm ==
    ASSUME BackupAssumption, SingleOperator
    PROVE  BackupSpec => ReplacedIsKept
<1> DEFINE Saved == config' # config /\ config # NoConfig
                      => \E n \in Names : copies[n] = "current" /\ copies'[n] # "none"
<1>1. BackupInit => Copies
  BY DEF BackupInit, Copies, Copied
<1>2. TypeOK /\ Copies /\ [BackupNext]_<<vars, bvars>> => Copies'
  BY CopiesPreserved
<1>3. Copies /\ [BackupNext]_<<vars, bvars>> => [Saved]_<<vars, bvars>>
  <2> SUFFICES ASSUME Copies, [BackupNext]_<<vars, bvars>>, config' # config, config # NoConfig
               PROVE  \E n \in Names : copies[n] = "current" /\ copies'[n] # "none"
    OBVIOUS
  <2>1. PICK p \in Procs : Replace(p)
    BY BackupStep, ConfigWriters
  <2>2. Around
    BY DEF BackupNext, Copy, Prune, WriteIndex, vars, files
  <2>3. bstep[p] = "done" /\ bname[p] \in Names /\ copies[bname[p]] = "current"
    BY <2>1, <2>2 DEF Around, Copies
  <2>4. copies'[bname[p]] = "earlier"
    BY <2>2, <2>3 DEF Around, Existing
  <2> QED
    BY <2>3, <2>4
<1> QED
  BY <1>1, <1>2, <1>3, BackupsImplementConfigure, TypeCorrect, PTL
  DEF BackupSpec, ReplacedIsKept

-----------------------------------------------------------------------------
(* The index.  A killed run may leave copies the index does not name, and  *)
(* an index whose oldest entry, about to leave the window, has no copy any *)
(* more; every other entry has one.  Once the pruning of a run is over, no *)
(* copy is left that its window does not name.                             *)
InWindow == {i \in DOMAIN index : i > 1 \/ Len(index) < Keep}

WindowExists == \A i \in InWindow : index[i] \in Existing

Pruned == \A p \in Procs : bstep[p] = "index" => Existing \subseteq Kept(p)

\* What the next window names: the new copy, and the old entries but one.
LEMMA WindowOf ==
    ASSUME BackupAssumption, index \in Seq(Names), Len(index) <= Keep,
           NEW p \in Procs, bname[p] \in Names
    PROVE  Kept(p) = {bname[p]} \cup {index[i] : i \in InWindow}
<1> DEFINE all == Append(index, bname[p])
           n == Len(index)
<1>1. /\ all \in Seq(Names) /\ Len(all) = n + 1 /\ all[n + 1] = bname[p]
      /\ \A i \in 1..n : all[i] = index[i]
      /\ n \in Nat /\ DOMAIN index = 1..n
  OBVIOUS
<1>2. CASE n + 1 <= Keep
  <2>1. Entries(p) = all
    BY <1>1, <1>2 DEF Entries
  <2>2. InWindow = 1..n
    BY <1>1, <1>2 DEF InWindow, BackupAssumption
  <2>3. Kept(p) = {all[i] : i \in 1..n + 1}
    BY <1>1, <2>1 DEF Kept, ToSet
  <2>4. 1..n + 1 = 1..n \cup {n + 1}
    BY <1>1
  <2> HIDE DEF all, n
  <2> QED
    BY <1>1, <2>2, <2>3, <2>4
<1>3. CASE ~(n + 1 <= Keep)
  <2>1. Entries(p) = Tail(all)
    BY <1>1, <1>3 DEF Entries
  <2>2. n = Keep /\ n >= 1
    <3>1. n <= Keep /\ Keep \in Nat \ {0}
      BY DEF BackupAssumption
    <3> HIDE DEF all, n
    <3> QED
      BY <1>1, <1>3, <3>1
  <2>3. InWindow = 2..n
    BY <1>1, <2>2 DEF InWindow
  <2>4. /\ Len(Tail(all)) = n /\ DOMAIN Tail(all) = 1..n
        /\ \A i \in 1..n : Tail(all)[i] = all[i + 1]
    BY <1>1, <2>2
  <2>5. Kept(p) = {all[i + 1] : i \in 1..n}
    BY <2>1, <2>4 DEF Kept, ToSet
  <2> HIDE DEF all, n
  <2>6. ASSUME NEW x \in Kept(p)
        PROVE  x \in {bname[p]} \cup {index[i] : i \in 2..n}
    <3>1. PICK i \in 1..n : x = all[i + 1]
      BY <2>5
    <3>2. CASE i = n
      BY <1>1, <3>1, <3>2
    <3>3. CASE i # n
      <4>1. i + 1 \in 2..n /\ i + 1 \in 1..n
        BY <1>1, <3>1, <3>3
      <4> QED
        BY <1>1, <3>1, <4>1
    <3> QED
      BY <3>2, <3>3
  <2>7. ASSUME NEW x \in {bname[p]} \cup {index[i] : i \in 2..n}
        PROVE  x \in Kept(p)
    <3>1. CASE x = bname[p]
      <4>1. n \in 1..n
        BY <1>1, <2>2
      <4> QED
        BY <1>1, <2>5, <3>1, <4>1
    <3>2. CASE x # bname[p]
      <4>1. PICK i \in 2..n : x = index[i]
        BY <2>7, <3>2
      <4>2. i - 1 \in 1..n /\ (i - 1) + 1 = i /\ i \in 1..n
        BY <1>1, <4>1
      <4> QED
        BY <1>1, <2>5, <4>1, <4>2
    <3> QED
      BY <3>1, <3>2
  <2> QED
    BY <2>3, <2>6, <2>7
<1> QED
  BY <1>2, <1>3

\* The window a run will write names copies that are there.
LEMMA KeptExists ==
    ASSUME BackupAssumption, Copies, WindowExists, Len(index) <= Keep,
           NEW p \in Procs, bstep[p] # "none"
    PROVE  Kept(p) \subseteq Existing
<1>1. bname[p] \in Names /\ bname[p] \in Existing
  BY DEF Copies, Existing
<1> QED
  BY <1>1, WindowOf DEF Copies, WindowExists

IndexInv == Copies /\ Len(index) <= Keep /\ WindowExists /\ Pruned

LEMMA IndexInvPreserved ==
    ASSUME BackupAssumption, SingleOperator, TypeOK, IndexInv, [BackupNext]_<<vars, bvars>>
    PROVE  WindowExists' /\ Pruned'
<1> USE DEF IndexInv, WindowExists, Pruned
<1>1. CASE Next /\ Around
  <2>1. index' = index /\ InWindow' = InWindow
    BY <1>1 DEF Around, InWindow
  <2>2. Existing' = Existing
    BY <1>1 DEF Around, Existing, Copies, Copied
  <2>3. ASSUME NEW p \in Procs, bstep'[p] = "index"
        PROVE  bstep[p] = "index" /\ Kept(p)' = Kept(p)
    BY <1>1, <2>3 DEF Around, Kept, Entries
  <2> QED
    BY <2>1, <2>2, <2>3
<1>2. ASSUME NEW p \in Procs, Copy(p)
      PROVE  WindowExists' /\ Pruned'
  <2>1. PICK n \in Names : copies' = [copies EXCEPT ![n] = "current"]
    BY <1>2 DEF Copy, Copies, Existing, ToSet
  <2>2. Existing \subseteq Existing'
    BY <2>1 DEF Existing, Copies
  <2>3. index' = index /\ InWindow' = InWindow
    BY <1>2 DEF Copy, InWindow
  <2>4. \A q \in Procs : bstep'[q] # "index"
    BY <1>2 DEF Copy, SingleOperator, Copies
  <2> QED
    BY <2>2, <2>3, <2>4
<1>3. ASSUME NEW p \in Procs, Prune(p)
      PROVE  WindowExists' /\ Pruned'
  <2>1. /\ index' = index /\ InWindow' = InWindow
        /\ Kept(p)' = Kept(p)
    BY <1>3 DEF Prune, InWindow, Kept, Entries
  <2>2. \A i \in InWindow : index[i] \in Kept(p) \cap Existing
    BY <1>3, WindowOf DEF Prune, Copies
  <2>3. CASE Existing \ Kept(p) = {}
    <3>1. Existing' = Existing
      BY <1>3, <2>3 DEF Prune, Existing
    <3>2. \A q \in Procs : q = p
      BY DEF SingleOperator
    <3> QED
      BY <2>1, <2>3, <3>1, <3>2
  <2>4. CASE Existing \ Kept(p) # {}
    <3>1. PICK n \in Names \ Kept(p) : copies' = [copies EXCEPT ![n] = "none"]
      BY <1>3, <2>4 DEF Prune, Existing
    <3>2. Existing' = Existing \ {n}
      BY <3>1 DEF Existing, Copies
    <3>3. \A q \in Procs : bstep'[q] # "index"
      BY <1>3, <2>4 DEF Prune, SingleOperator
    <3> QED
      BY <2>1, <2>2, <3>1, <3>2, <3>3
  <2> QED
    BY <2>3, <2>4
<1>4. ASSUME NEW p \in Procs, WriteIndex(p)
      PROVE  WindowExists' /\ Pruned'
  <2>1. Kept(p) \subseteq Existing
    BY <1>4, KeptExists DEF WriteIndex
  <2>2. Existing' = Existing /\ ToSet(index') = Kept(p)
    BY <1>4 DEF WriteIndex, Existing, Kept
  <2>3. \A i \in InWindow' : index'[i] \in ToSet(index')
    BY DEF InWindow, ToSet
  <2>4. \A q \in Procs : bstep'[q] # "index"
    BY <1>4 DEF WriteIndex, SingleOperator, Copies
  <2> QED
    BY <2>1, <2>2, <2>3, <2>4
<1>5. CASE UNCHANGED <<vars, bvars>>
  BY <1>5 DEF bvars, InWindow, Existing, Kept, Entries
<1> QED
  BY <1>1, <1>2, <1>3, <1>4, <1>5 DEF BackupNext

\* With one command at a time, a complete backup leaves an index that names all
\* copies there are and no other, whatever runs were killed before it and
\* wherever (state.backup).
THEOREM IndexDescribesCopiesThm ==
    ASSUME BackupAssumption, SingleOperator
    PROVE  BackupSpec => IndexDescribesCopies
<1>1. BackupInit => IndexInv
  BY DEF BackupInit, IndexInv, Copies, Copied, WindowExists, InWindow, Pruned, BackupAssumption
<1>2. TypeOK /\ BackupTypeOK /\ IndexInv /\ [BackupNext]_<<vars, bvars>> => IndexInv'
  <2> SUFFICES ASSUME TypeOK, BackupTypeOK, IndexInv, [BackupNext]_<<vars, bvars>>
               PROVE  IndexInv'
    OBVIOUS
  <2>1. Copies' /\ BackupTypeOK'
    BY BackupTypesPreserved, CopiesPreserved DEF IndexInv
  <2> QED
    BY <2>1, IndexInvPreserved DEF IndexInv, BackupTypeOK
<1>3. ASSUME IndexInv, [BackupNext]_<<vars, bvars>>,
             NEW p \in Procs, bstep'[p] = "done", bstep[p] # "done"
      PROVE  ToSet(index') = Existing'
  <2>1. ASSUME NEW q \in Procs, Copy(q) \/ Prune(q)
        PROVE  bstep'[q] # "done" \/ bstep'[q] = bstep[q]
    BY <1>3, <2>1 DEF Copy, Prune, IndexInv, Copies
  <2>2. WriteIndex(p)
    BY <1>3, <2>1 DEF SingleOperator, BackupNext, Around, bvars
  <2>3. ToSet(index') = Kept(p) /\ Existing' = Existing
    BY <2>2 DEF WriteIndex, Kept, Existing
  <2>4. Kept(p) = Existing
    BY <1>3, <2>2, KeptExists DEF WriteIndex, IndexInv, Pruned
  <2> QED
    BY <2>3, <2>4
<1>4. IndexInv /\ [BackupNext]_<<vars, bvars>> =>
        [\A p \in Procs :
           bstep'[p] = "done" /\ bstep[p] # "done"
             => ToSet(index') = Existing']_<<vars, bvars>>
  BY <1>3
<1> QED
  BY <1>1, <1>2, <1>4, BackupsImplementConfigure, TypeCorrect, BackupTypes, PTL
  DEF BackupSpec, IndexDescribesCopies

-----------------------------------------------------------------------------
(***************************************************************************)
(* The service.  Every step of it is one of configure's own or one of a    *)
(* few that touch the files otherwise.                                     *)
(***************************************************************************)

\* The steps of the service that are none of MpmConfigure.
HostStep(p) ==
    \/ \E e \in Envs : Install(p, e)
    \/ Supply(p) \/ SupplyFails(p) \/ Interrupt(p)
    \/ RemoveFile(p) \/ PurgeDirectory(p)

\* What the service does to the files is a step of configure, a step of its own, or
\* a reboot.
LEMMA FileSteps ==
    ASSUME [ServiceNext]_svars
    PROVE  [Next]_vars \/ Reboot \/ \E p \in Procs : HostStep(p)
<1>1. CASE UNCHANGED svars
  BY <1>1 DEF svars
<1>2. CASE Edit \/ Die \/ RestartDue \/ CnNodes \/ Systemd
  BY <1>2 DEF Edit, Die, RestartDue, CnNodes, Systemd, Gate, Exec, Supervise, Next
<1>3. CASE Reboot
  BY <1>3
<1>4. ASSUME NEW p \in Procs,
             \/ ConfigureFails(p) /\ KeepOrEndTask(p)
             \/ SupplyFails(p) \/ StartRefused(p) \/ AskInVain(p)
             \/ \E t \in Uninstalls : Command(p, t)
             \/ UninstallStep(p)
             \/ Interrupt(p)
      PROVE  [Next]_vars \/ HostStep(p)
  <2>1. CASE ConfigureFails(p) \/ AskInVain(p)
    BY <2>1 DEF ConfigureFails, AskInVain, Next, ConfigureStep
  <2>2. CASE StartRefused(p) \/ (\E t \in Uninstalls : Command(p, t)) \/ DisableNow(p)
               \/ RemoveUnit(p)
    BY <2>2 DEF StartRefused, Command, DisableNow, RemoveUnit
  <2>3. CASE SupplyFails(p) \/ RemoveFile(p) \/ PurgeDirectory(p) \/ Interrupt(p)
    BY <2>3 DEF HostStep
  <2> QED
    BY <1>4, <2>1, <2>2, <2>3 DEF UninstallStep
<1>5. ASSUME NEW p \in Procs, OperatorStarts(p) \/ AskMihomo(p) \/ CommandStep(p)
      PROVE  [Next]_vars \/ HostStep(p)
  <2>1. CASE OperatorStarts(p)
    BY <2>1 DEF OperatorStarts, BeginCommand, Command, HostStep, Next
  <2>2. CASE AskMihomo(p)
    BY <2>2 DEF AskMihomo, Answer, Next
  <2>3. CASE RecordVerdict(p) \/ ConfigureOn(p)
    BY <2>3 DEF RecordVerdict, ConfigureOn, Next, ConfigureStep
  <2>4. CASE InstallUnit(p) \/ StartUnchanged(p) \/ StartWithout(p) \/ StartUnit(p)
               \/ Ready(p) \/ Stop(p)
    BY <2>4 DEF InstallUnit, StartUnchanged, StartWithout, StartUnit, Ready, Stop
  <2>5. CASE Supply(p)
    BY <2>5 DEF HostStep
  <2> QED
    BY <1>5, <2>1, <2>2, <2>3, <2>4, <2>5 DEF CommandStep
<1> QED
  BY <1>1, <1>2, <1>3, <1>4, <1>5 DEF ServiceNext, Calm, Trouble

LEMMA FileTypesPreserved ==
    ASSUME TypeInv, [ServiceNext]_svars
    PROVE  TypeInv'
<1>1. CASE [Next]_vars
  BY <1>1, NextType
<1>2. CASE Reboot
  <2>1. Blank(NoInputs) \in Local
    BY BlankType, NoInputsType
  <2> QED
    BY <1>2, <2>1 DEF Reboot, files, TypeInv, TypeOK, Settled, Steps, Commands
<1>3. ASSUME NEW p \in Procs, HostStep(p)
      PROVE  TypeInv'
  <2>1. ASSUME NEW e \in Envs, Install(p, e)
        PROVE  TypeInv'
    <3>1. secretFile' \in Secrets
      BY <2>1, SecretChoicesType DEF Install, TypeInv, TypeOK
    <3>2. Blank(e) \in Local /\ pc[p] = "idle" /\ loc' = [loc EXCEPT ![p] = Blank(e)]
          /\ UNCHANGED <<subEnv, overrides, config, planCn, health, pc, cmd>>
      BY <2>1, BlankType DEF Install, Hold, Free
    <3> QED
      BY <3>1, <3>2 DEF TypeInv, TypeOK, Settled
  <2>2. CASE Supply(p)
    BY <2>2 DEF Supply, Goto, files, TypeInv, TypeOK, Settled, Steps
  <2>3. CASE SupplyFails(p) \/ Interrupt(p)
    <3>1. Finish(p) /\ UNCHANGED files
      BY <2>3 DEF SupplyFails, Interrupt
    <3> QED
      BY <3>1, FinishType DEF files, TypeInv, TypeOK
  <2>4. CASE RemoveFile(p) \/ PurgeDirectory(p)
    <3>1. UNCHANGED <<pc, cmd, loc>>
      BY <2>4 DEF RemoveFile, PurgeDirectory
    <3>2. subEnv' \in {subEnv, NoInputs} /\ overrides' \in {overrides, "none"}
          /\ secretFile' \in {secretFile, NoSecret} /\ config' \in {config, NoConfig}
          /\ planCn' \in {planCn, FALSE} /\ health' \in {health, "absent"}
      BY <2>4 DEF RemoveFile, PurgeDirectory, files
    <3> QED
      BY <3>1, <3>2, NoInputsType DEF TypeInv, TypeOK, Settled, Overrides, Additions
  <2> QED
    BY <1>3, <2>1, <2>2, <2>3, <2>4 DEF HostStep
<1> QED
  BY <1>1, <1>2, <1>3, FileSteps

(***************************************************************************)
(* The rest of the host: which steps write what.                           *)
(***************************************************************************)

\* mihomo runs what Exec found on disk; anything else only ends it.
LEMMA RunningWriters ==
    ASSUME [ServiceNext]_svars, running' # running
    PROVE  running' = NoConfig \/ (Exec /\ running' = config /\ binary /\ config # NoConfig)
<1>1. CASE Exec
  BY <1>1 DEF Exec
<1>2. CASE ~Exec
  BY <1>2 DEF svars, host, ServiceNext, Calm, Trouble, Systemd, Edit, Die, RestartDue, Reboot,
     CnNodes, Gate, Supervise, ConfigureFails, SupplyFails, StartRefused, AskInVain, Command,
     UninstallStep, DisableNow, RemoveUnit, RemoveFile, PurgeDirectory, Interrupt,
     OperatorStarts, BeginCommand, Install, AskMihomo, CommandStep, RecordVerdict,
     ConfigureOn, Supply, InstallUnit, StartUnchanged, StartWithout, StartUnit, Ready, Stop
<1> QED
  BY <1>1, <1>2

LEMMA BinaryWriters ==
    ASSUME [ServiceNext]_svars, binary' # binary
    PROVE  \E p \in Procs : HandlesProgram(p)
BY DEF svars, host, ServiceNext, Calm, Trouble, Systemd, Edit, Die, RestartDue, Reboot,
   CnNodes, Gate, Exec, Supervise, ConfigureFails, SupplyFails, StartRefused, AskInVain,
   Command, UninstallStep, DisableNow, RemoveUnit, Interrupt,
   OperatorStarts, BeginCommand, Install, AskMihomo, CommandStep, RecordVerdict,
   ConfigureOn, InstallUnit, StartUnchanged, StartWithout, StartUnit, Ready, Stop,
   HandlesProgram

HostTypes ==
    /\ binary \in BOOLEAN
    /\ unit \in {"absent", "disabled", "enabled"}
    /\ svc \in Services
    /\ running \in Config \cup {NoConfig}
    /\ cnAlive \in BOOLEAN
    /\ task \in [Procs -> Tasks]

ServiceInv == TypeInv /\ HostTypes

LEMMA ServiceInitTypes == ServiceInit => ServiceInv
BY InitType DEF ServiceInit, ServiceInv, HostTypes, Services, Tasks

\* Gate, Exec, Die, RestartDue and Reboot: what systemd does on its own.
LEMMA SystemdTypes ==
    ASSUME ServiceInv, Gate \/ Exec \/ Die \/ RestartDue \/ Reboot
    PROVE  HostTypes'
<1> USE DEF ServiceInv, HostTypes
<1>1. CASE Gate
  BY <1>1 DEF Gate, Supervise, Services, Activating
<1>2. CASE Exec
  BY <1>2 DEF Exec, Supervise, Services, Activating, TypeInv, TypeOK
<1>3. CASE Die \/ RestartDue
  BY <1>3 DEF Die, RestartDue, Supervise, Services, Activating
<1>4. CASE Reboot
  BY <1>4 DEF Reboot, Services, Activating, Tasks
<1> QED
  BY <1>1, <1>2, <1>3, <1>4

\* What a command of the operator, or the world, does to the host.
LEMMA CommandTypes ==
    ASSUME ServiceInv, NEW p \in Procs,
           \/ ConfigureFails(p) /\ KeepOrEndTask(p)
           \/ SupplyFails(p) \/ StartRefused(p) \/ AskInVain(p)
           \/ \E t \in Uninstalls : Command(p, t)
           \/ UninstallStep(p) \/ Interrupt(p)
           \/ OperatorStarts(p) \/ AskMihomo(p) \/ CommandStep(p)
    PROVE  HostTypes'
<1> USE DEF ServiceInv, HostTypes
<1>1. ASSUME NEW t \in Tasks, Do(p, t)
      PROVE  task' \in [Procs -> Tasks]
  BY <1>1 DEF Do
<1>2. {"none", "supply", "unit", "start", "ready", "stop", "restart", "rm unit",
       "purge unit"} \cup Uninstalls \cup Removals \subseteq Tasks
  BY DEF Tasks
<1>3. CASE (ConfigureFails(p) \/ ConfigureOn(p)) /\ KeepOrEndTask(p)
  BY <1>1, <1>2, <1>3 DEF ConfigureFails, ConfigureOn, KeepOrEndTask, host
<1>4. CASE SupplyFails(p) \/ StartRefused(p) \/ Interrupt(p) \/ StartUnchanged(p)
             \/ StartWithout(p) \/ Ready(p)
  BY <1>1, <1>2, <1>4 DEF SupplyFails, StartRefused, Interrupt, StartUnchanged,
     StartWithout, Ready, host
<1>5. CASE AskInVain(p) \/ AskMihomo(p) \/ RecordVerdict(p)
             \/ \E k \in Commands, e \in Envs : BeginCommand(p, k, e)
  BY <1>5 DEF AskInVain, AskMihomo, RecordVerdict, BeginCommand, host
<1>6. CASE \E t \in Uninstalls \cup {"start", "stop", "restart"} : Command(p, t)
  BY <1>1, <1>2, <1>6 DEF Command, host
<1>7. CASE \E e \in Envs : Install(p, e)
  BY <1>1, <1>2, <1>7 DEF Install, host
<1>8. CASE Supply(p) \/ InstallUnit(p) \/ StartUnit(p)
  BY <1>1, <1>2, <1>8 DEF Supply, InstallUnit, StartUnit, Services, Activating
<1>9. CASE Stop(p) \/ DisableNow(p) \/ RemoveUnit(p)
  BY <1>1, <1>2, <1>9 DEF Stop, DisableNow, RemoveUnit, Services, Removals
<1>10. CASE RemoveFile(p) \/ PurgeDirectory(p)
  BY <1>1, <1>2, <1>10 DEF RemoveFile, PurgeDirectory, Removals
<1> QED
  BY <1>3, <1>4, <1>5, <1>6, <1>7, <1>8, <1>9, <1>10
     DEF UninstallStep, OperatorStarts, CommandStep

LEMMA ServiceTypesPreserved ==
    ASSUME ServiceInv, [ServiceNext]_svars
    PROVE  ServiceInv'
<1>1. TypeInv'
  BY FileTypesPreserved DEF ServiceInv
<1>2. HostTypes'
  <2>1. CASE UNCHANGED svars
    BY <2>1 DEF svars, host, ServiceInv, HostTypes
  <2>2. CASE Edit \/ CnNodes
    BY <2>2 DEF Edit, CnNodes, host, ServiceInv, HostTypes
  <2> QED
    BY <2>1, <2>2, SystemdTypes, CommandTypes DEF ServiceNext, Calm, Trouble, Systemd
<1> QED
  BY <1>1, <1>2 DEF ServiceInv

LEMMA ServiceInvariant == ServiceSpec => []ServiceInv
BY ServiceInitTypes, ServiceTypesPreserved, PTL DEF ServiceSpec

\* Any number of commands on the host, interrupted, refused or cut off by a reboot:
\* the files, the unit, mihomo's config and every command keep their types.
THEOREM ServiceTypes == ServiceSpec => []ServiceTypeOK
<1>1. ServiceInv => ServiceTypeOK
  BY DEF ServiceInv, TypeInv, HostTypes, ServiceTypeOK
<1> QED
  BY <1>1, ServiceInvariant, PTL

(***************************************************************************)
(* What uninstall removes.  mihomo has a configuration while the unit is   *)
(* active and not otherwise; and neither a unit that is gone nor one that  *)
(* is being uninstalled is ever started again, because systemd only        *)
(* restarts what it was told to start and did not see stopped since.       *)
(***************************************************************************)
Removing == {"rm unit", "purge unit"} \cup Removals

DownInv ==
    /\ svc = "active" <=> running # NoConfig
    /\ unit = "absent" => svc \in Down
    /\ \A p \in Procs : task[p] \in Removing => svc \in Down

\* systemd alone neither starts what is down nor begins a task.
LEMMA SystemdDown ==
    ASSUME ServiceInv, DownInv, Gate \/ Exec \/ Die \/ RestartDue \/ Reboot
    PROVE  DownInv'
<1> USE DEF DownInv, Down
<1>1. CASE Gate \/ RestartDue
  BY <1>1 DEF Gate, RestartDue, Supervise
<1>2. CASE Exec
  BY <1>2 DEF Exec, Supervise
<1>3. CASE Die
  BY <1>3 DEF Die, Supervise
<1>4. CASE Reboot
  BY <1>4 DEF Reboot, Removing, Removals
<1> QED
  BY <1>1, <1>2, <1>3, <1>4

LEMMA DownPreserved ==
    ASSUME SingleOperator, ServiceInv, DownInv, [ServiceNext]_svars
    PROVE  DownInv'
<1> USE DEF DownInv
<1>1. CASE UNCHANGED svars \/ Edit \/ CnNodes
  BY <1>1 DEF svars, host, Edit, CnNodes
<1>2. CASE Gate \/ Exec \/ Die \/ RestartDue \/ Reboot
  BY <1>2, SystemdDown
<1>3. ASSUME NEW p \in Procs,
             \/ ConfigureFails(p) /\ KeepOrEndTask(p)
             \/ ConfigureOn(p) /\ KeepOrEndTask(p)
             \/ SupplyFails(p) \/ StartRefused(p) \/ AskInVain(p)
             \/ AskMihomo(p) \/ RecordVerdict(p) \/ Interrupt(p)
             \/ StartUnchanged(p) \/ StartWithout(p) \/ Ready(p)
             \/ \E t \in Uninstalls \cup {"start", "stop", "restart"} : Command(p, t)
             \/ \E k \in Commands, e \in Envs : BeginCommand(p, k, e)
             \/ \E e \in Envs : Install(p, e)
             \/ Supply(p) \/ InstallUnit(p)
      PROVE  DownInv'
  <2>1. UNCHANGED <<svc, running>> /\ (unit' = "absent" => unit = "absent")
    BY <1>3 DEF ConfigureFails, ConfigureOn, SupplyFails, StartRefused, AskInVain, AskMihomo,
       RecordVerdict, Interrupt, StartUnchanged, StartWithout, Ready, Command,
       BeginCommand, Install, Supply, InstallUnit, host
  <2>2. \/ UNCHANGED task
        \/ \E t \in {"none", "supply", "unit", "start", "stop", "restart"} \cup Uninstalls :
              Do(p, t)
    <3>1. CASE \E t \in Uninstalls \cup {"start", "stop", "restart"} : Command(p, t)
      BY <3>1 DEF Command
    <3>2. CASE AskInVain(p) \/ AskMihomo(p) \/ RecordVerdict(p)
                 \/ \E k \in Commands, e \in Envs : BeginCommand(p, k, e)
      BY <3>2 DEF AskInVain, AskMihomo, RecordVerdict, BeginCommand
    <3>3. CASE (ConfigureFails(p) \/ ConfigureOn(p)) /\ KeepOrEndTask(p)
      BY <3>3 DEF KeepOrEndTask
    <3>4. CASE SupplyFails(p) \/ StartRefused(p) \/ Interrupt(p) \/ StartUnchanged(p)
                 \/ StartWithout(p) \/ Ready(p)
      BY <3>4 DEF SupplyFails, StartRefused, Interrupt, StartUnchanged, StartWithout, Ready
    <3>5. CASE (\E e \in Envs : Install(p, e)) \/ Supply(p) \/ InstallUnit(p)
      BY <3>5 DEF Install, Supply, InstallUnit
    <3> QED
      BY <1>3, <3>1, <3>2, <3>3, <3>4, <3>5
  <2>3. \A q \in Procs : task'[q] \in Removing => task[q] \in Removing
    BY <2>2 DEF Do, ServiceInv, HostTypes, Removing, Removals, Uninstalls
  <2> QED
    BY <2>1, <2>3
<1>4. ASSUME NEW p \in Procs, StartUnit(p)
      PROVE  DownInv'
  <2>1. task[p] = "start" /\ unit # "absent" /\ svc # "active"
        /\ svc' \in {"starting", "checked"} /\ UNCHANGED <<unit, running>> /\ Do(p, "ready")
    BY <1>4 DEF StartUnit, Startable
  <2>2. \A q \in Procs : task'[q] \notin Removing
    BY <2>1 DEF SingleOperator, Do, ServiceInv, HostTypes, Removing, Removals
  <2> QED
    BY <2>1, <2>2
<1>5. ASSUME NEW p \in Procs, Stop(p)
      PROVE  DownInv'
  <2>1. /\ \/ svc' = "inactive" /\ running' = NoConfig
           \/ UNCHANGED <<svc, running>>
        /\ UNCHANGED unit
        /\ \E t \in {"start", "none"} : Do(p, t)
    BY <1>5 DEF Stop
  <2>2. \A q \in Procs : task'[q] \in Removing => task[q] \in Removing
    BY <2>1 DEF Do, ServiceInv, HostTypes, Removing, Removals
  <2> QED
    BY <2>1, <2>2 DEF Down
<1>6. ASSUME NEW p \in Procs, DisableNow(p)
      PROVE  DownInv'
  <2>1. /\ svc' \in Down
        /\ svc' = "active" <=> running' # NoConfig
    BY <1>6 DEF DisableNow, Down
  <2> QED
    BY <2>1
<1>7. ASSUME NEW p \in Procs, RemoveUnit(p) \/ RemoveFile(p) \/ PurgeDirectory(p)
      PROVE  DownInv'
  <2>1. task[p] \in Removing /\ UNCHANGED <<svc, running>>
    BY <1>7 DEF RemoveUnit, RemoveFile, PurgeDirectory, Removing, Removals
  <2> QED
    BY <2>1
<1> QED
  BY <1>1, <1>2, <1>3, <1>4, <1>5, <1>6, <1>7
     DEF ServiceNext, Calm, Trouble, Systemd, UninstallStep, OperatorStarts, CommandStep

LEMMA DownInvariant ==
    ASSUME SingleOperator
    PROVE  ServiceSpec => [](ServiceInv /\ DownInv)
<1>1. ServiceInit => ServiceInv /\ DownInv
  <2>1. ASSUME ServiceInit PROVE DownInv
    BY <2>1 DEF ServiceInit, DownInv, Down, Removing, Removals
  <2> QED
    BY <2>1, ServiceInitTypes
<1>2. ServiceInv /\ DownInv /\ [ServiceNext]_svars => (ServiceInv /\ DownInv)'
  BY ServiceTypesPreserved, DownPreserved
<1> QED
  BY <1>1, <1>2, PTL DEF ServiceSpec

\* Only uninstall removes a unit, a config or a secret.
LEMMA Removers ==
    ASSUME ServiceInv, [ServiceNext]_svars,
           \/ unit' = "absent" /\ unit # "absent"
           \/ config' = NoConfig /\ config # NoConfig
           \/ secretFile' = NoSecret /\ secretFile # NoSecret
    PROVE  \E p \in Procs : task[p] \in Removing
<1>1. CASE unit' = "absent" /\ unit # "absent"
  <2>1. \E p \in Procs : RemoveUnit(p)
    BY <1>1 DEF svars, host, ServiceNext, Calm, Trouble, Systemd, Edit, Die, RestartDue,
       Reboot, CnNodes, Gate, Exec, Supervise, ConfigureFails, SupplyFails, StartRefused,
       AskInVain, Command, UninstallStep, DisableNow, RemoveFile, PurgeDirectory,
       Interrupt, OperatorStarts, BeginCommand, Install, AskMihomo, CommandStep,
       RecordVerdict, ConfigureOn, Supply, InstallUnit, StartUnchanged, StartWithout,
       StartUnit, Ready, Stop
  <2> QED
    BY <2>1 DEF RemoveUnit, Removing
<1>2. CASE config' = NoConfig /\ config # NoConfig
  <2>1. CASE [Next]_vars
    <3>1. PICK p \in Procs : Replace(p)
      BY <1>2, <2>1, ConfigWriters
    <3>2. /\ loc[p].cn \in BOOLEAN /\ loc[p].seen \in Health
          /\ loc[p].secret \in Secrets /\ loc[p].extra \in Additions
      BY <3>1 DEF Replace, ServiceInv, TypeInv, TypeOK, Settled, Local
    <3>3. config' \in Config
      BY <3>1, <3>2, RenderType DEF Replace, Rendered
    <3> QED
      BY <1>2, <3>3
  <2>2. CASE Reboot
    BY <1>2, <2>2 DEF Reboot, files
  <2>3. ASSUME NEW p \in Procs, HostStep(p)
        PROVE  task[p] \in Removing
    BY <1>2, <2>3 DEF HostStep, Install, Supply, SupplyFails, Interrupt, files, RemoveFile,
       PurgeDirectory, Removing, Removals
  <2> QED
    BY <2>1, <2>2, <2>3, FileSteps
<1>3. CASE secretFile' = NoSecret /\ secretFile # NoSecret
  <2>1. CASE [Next]_vars
    <3>1. PICK p \in Procs : Resolve(p)
      BY <1>3, <2>1, SecretWriters
    <3>2. loc[p].env \in Inputs
      BY DEF ServiceInv, TypeInv, TypeOK, Local
    <3>3. secretFile' \in Secrets
      BY <3>1, <3>2, SecretChoicesType DEF Resolve, ServiceInv, TypeInv, TypeOK
    <3> QED
      BY <1>3, <3>3
  <2>2. CASE Reboot
    BY <1>3, <2>2 DEF Reboot, files
  <2>3. ASSUME NEW p \in Procs, NEW e \in Envs, Install(p, e)
        PROVE  FALSE
    <3>1. secretFile' \in Secrets
      BY <2>3, SecretChoicesType DEF Install, ServiceInv, TypeInv, TypeOK
    <3> QED
      BY <1>3, <3>1
  <2>4. ASSUME NEW p \in Procs, HostStep(p)
        PROVE  task[p] \in Removing
    BY <1>3, <2>3, <2>4 DEF HostStep, Supply, SupplyFails, Interrupt, files, RemoveFile,
       PurgeDirectory, Removing, Removals
  <2> QED
    BY <2>1, <2>2, <2>4, FileSteps
<1> QED
  BY <1>1, <1>2, <1>3

\* One command at a time, whatever systemd does in between and whenever the host
\* reboots: uninstall takes the unit, the secrets and the config from under a stopped
\* service only.
THEOREM RemovedOnlyWhenDownThm ==
    ASSUME SingleOperator
    PROVE  ServiceSpec => RemovedOnlyWhenDown
<1>1. ServiceInv /\ DownInv /\ [ServiceNext]_svars
        => [\/ unit' = "absent" /\ unit # "absent"
            \/ config' = NoConfig /\ config # NoConfig
            \/ secretFile' = NoSecret /\ secretFile # NoSecret
            => svc \in Down /\ running = NoConfig]_svars
  <2> SUFFICES ASSUME ServiceInv, DownInv, [ServiceNext]_svars,
                      \/ unit' = "absent" /\ unit # "absent"
                      \/ config' = NoConfig /\ config # NoConfig
                      \/ secretFile' = NoSecret /\ secretFile # NoSecret
               PROVE  svc \in Down /\ running = NoConfig
    OBVIOUS
  <2>1. PICK p \in Procs : task[p] \in Removing
    BY Removers
  <2> QED
    BY <2>1 DEF DownInv, Down
<1> QED
  BY <1>1, DownInvariant, PTL DEF ServiceSpec, RemovedOnlyWhenDown

(***************************************************************************)
(* The gate.  In calm the inputs stay those of the first install, so that  *)
(* every command resolves the same secret and the same CN from them.  Only *)
(* a health check changes the recorded health of a config.yaml, and it     *)
(* goes on to bring config.yaml along: until it has, the command is still  *)
(* running.                                                                *)
(***************************************************************************)
Match == config = Render(subEnv.cn, secretFile, LoadDegraded(health), overrides)

\* What a command that has resolved its inputs holds.
Resolved(p) ==
    /\ loc[p].env = NoInputs
    /\ pc[p] \in {"render", "load", "replace", "plan", "health"}
         => loc[p].cn = subEnv.cn /\ loc[p].secret = secretFile
    /\ pc[p] \in {"load", "replace", "plan", "health"} => loc[p].extra = overrides

\* Command p is about to bring config.yaml along.
Syncs(p) == pc[p] \in {"resolve", "render", "load", "replace"} /\ cmd[p] # "check"

CalmInv ==
    /\ overrides = "none"
    /\ \A p \in Procs : Resolved(p)
    /\ secretFile # NoSecret =>
          /\ Resolvable(subEnv, NoInputs)
          /\ secretFile \in SecretChoices(subEnv, NoInputs, secretFile)
    /\ config # NoConfig =>
          /\ secretFile # NoSecret
          /\ (\A p \in Procs : ~Syncs(p)) => Match
    /\ \A p \in Procs :
          pc[p] \in {"probe", "record", "load", "replace", "plan", "health"}
            => cmd[p] # "check"

LEMMA CalmSteps ==
    ASSUME [Calm]_svars
    PROVE  \/ UNCHANGED vars
           \/ \E p \in Procs :
                \/ \E k \in Commands, e \in Envs : Begin(p, k, e)
                \/ \E obs \in {"OK", "DEGRADED", "unreachable"} : Probe(p, obs)
                \/ RecordCnHealth(p) \/ Progress(p)
                \/ \E e \in Envs : Install(p, e)
                \/ Supply(p)
<1>1. CASE UNCHANGED svars
  BY <1>1 DEF svars
<1>2. CASE CnNodes \/ Systemd
  BY <1>2 DEF CnNodes, Systemd, Gate, Exec, Supervise
<1>3. ASSUME NEW p \in Procs, OperatorStarts(p) \/ AskMihomo(p) \/ CommandStep(p)
      PROVE  \/ UNCHANGED vars
             \/ \E k \in Commands, e \in Envs : Begin(p, k, e)
             \/ \E obs \in {"OK", "DEGRADED", "unreachable"} : Probe(p, obs)
             \/ RecordCnHealth(p) \/ Progress(p)
             \/ \E e \in Envs : Install(p, e)
             \/ Supply(p)
  <2>1. CASE OperatorStarts(p)
    BY <2>1 DEF OperatorStarts, BeginCommand, Command
  <2>2. CASE AskMihomo(p)
    BY <2>2 DEF AskMihomo, Answer
  <2>3. CASE RecordVerdict(p) \/ ConfigureOn(p) \/ Supply(p)
    BY <2>3 DEF RecordVerdict, ConfigureOn
  <2>4. CASE InstallUnit(p) \/ StartUnchanged(p) \/ StartWithout(p) \/ StartUnit(p)
               \/ Ready(p) \/ Stop(p)
    BY <2>4 DEF InstallUnit, StartUnchanged, StartWithout, StartUnit, Ready, Stop
  <2> QED
    BY <1>3, <2>1, <2>2, <2>3, <2>4 DEF CommandStep
<1> QED
  BY <1>1, <1>2, <1>3 DEF Calm

\* Of install, the steps around its configure.
LEMMA InstallRun ==
    ASSUME SingleOperator, RunInv, NEW p \in Procs,
           (\E e \in Envs : Install(p, e)) \/ Supply(p)
    PROVE  \A q \in Procs : Owned(q)'
<1>1. pc'[p] \in {"idle", "resolve"}
  BY DEF Install, Free, Supply, Goto, RunInv, TypeInv, TypeOK
<1> QED
  BY <1>1 DEF SingleOperator, Owned

LEMMA CalmRun ==
    ASSUME SingleOperator, RunInv, [Calm]_svars
    PROVE  RunInv'
<1>1. [ServiceNext]_svars
  BY DEF ServiceNext
<1>2. TypeInv'
  BY <1>1, FileTypesPreserved DEF RunInv
<1>3. ASSUME [Next]_vars PROVE RunInv'
  BY <1>3, NextRun
<1> QED
  BY <1>2, <1>3, CalmSteps, InstallRun DEF RunInv, Next, ConfigureStep

\* The secret of a host that has one, and whose inputs resolve to it, is taken up by
\* every command.
LEMMA SecretStays ==
    ASSUME NEW file \in Inputs, NEW stored \in Secrets,
           stored \in SecretChoices(file, NoInputs, stored)
    PROVE  SecretChoices(file, NoInputs, stored) = {stored}
<1>1. SecretChoices(file, NoInputs, stored)
        = IF file.secret # NoSecret THEN {file.secret} ELSE {stored}
  <2>1. {file.secret, NoSecret} \ {NoSecret}
          = IF file.secret # NoSecret THEN {file.secret} ELSE {}
    OBVIOUS
  <2> QED
    BY <2>1 DEF SecretChoices, NoInputs
<1> QED
  BY <1>1

\* A secret that was settled on from the inputs is settled on again.
LEMMA SecretSettled ==
    ASSUME NEW file \in Inputs, NEW stored \in Secrets \cup {NoSecret},
           NEW s \in SecretChoices(file, NoInputs, stored)
    PROVE  s \in Secrets /\ s \in SecretChoices(file, NoInputs, s)
<1>1. s \in Secrets
  BY SecretChoicesType, NoInputsType
<1>2. {file.secret, NoInputs.secret} \ {NoSecret} # {}
        => s \in {file.secret, NoInputs.secret} \ {NoSecret}
  BY DEF SecretChoices
<1> QED
  BY <1>1, <1>2 DEF SecretChoices

\* Install and Resolve settle on a secret: the stored one, if there is any.
LEMMA SecretOnce ==
    ASSUME RunInv, CalmInv, Resolvable(subEnv, NoInputs),
           secretFile' \in SecretChoices(subEnv, NoInputs, secretFile),
           UNCHANGED subEnv
    PROVE  /\ secretFile # NoSecret => UNCHANGED secretFile
           /\ secretFile' # NoSecret
           /\ Resolvable(subEnv', NoInputs)
           /\ secretFile' \in SecretChoices(subEnv', NoInputs, secretFile')
<1>1. subEnv \in Inputs /\ secretFile \in Secrets \cup {NoSecret}
  BY DEF RunInv, TypeInv, TypeOK
<1>2. secretFile' \in Secrets /\ secretFile' \in SecretChoices(subEnv, NoInputs, secretFile')
  BY <1>1, SecretSettled
<1>3. secretFile # NoSecret => secretFile' = secretFile
  BY <1>1, SecretStays DEF CalmInv
<1> QED
  BY <1>2, <1>3

LEMMA CalmPreserved ==
    ASSUME SingleOperator, Envs \subseteq {NoInputs}, RunInv, CalmInv, [Calm]_svars
    PROVE  CalmInv'
<1> USE DEF CalmInv
<1>1. TypeOK
  BY DEF RunInv, TypeInv
<1>2. CASE UNCHANGED vars
  BY <1>2 DEF vars, files, Resolved, Syncs, Match
<1>3. ASSUME NEW p \in Procs, NEW k \in Commands, NEW e \in Envs, Begin(p, k, e)
      PROVE  CalmInv'
  <2>1. /\ pc[p] = "idle" /\ loc' = [loc EXCEPT ![p] = Blank(NoInputs)]
        /\ pc' = [pc EXCEPT ![p] = IF k \in {"status", "update"} THEN "probe" ELSE "resolve"]
        /\ cmd' = [cmd EXCEPT ![p] = k] /\ UNCHANGED files
    BY <1>3 DEF Begin, Goto, Hold
  <2>2. Match' = Match
    BY <2>1 DEF files, Match
  <2>3. ~Syncs(p) /\ pc'[p] \in {"probe", "resolve"} /\ (pc'[p] = "probe" => cmd'[p] # "check")
        /\ loc'[p].env = NoInputs
    BY <1>1, <2>1 DEF Syncs, TypeOK, Blank
  <2> QED
    BY <2>1, <2>2, <2>3 DEF SingleOperator, files, Resolved
\* A step that writes no file, of a command that does not sync.
<1>4. ASSUME NEW p \in Procs, UNCHANGED files, loc'[p].env = NoInputs, ~Syncs(p),
             pc'[p] \in {"idle", "record"} /\ (pc'[p] = "record" => cmd'[p] # "check")
      PROVE  CalmInv'
  <2>1. Match' = Match
    BY <1>4 DEF files, Match
  <2> QED
    BY <1>4, <2>1 DEF SingleOperator, files, Resolved
<1>5. ASSUME NEW p \in Procs, Finish(p)
      PROVE  loc'[p].env = NoInputs /\ pc'[p] = "idle"
  BY <1>1, <1>5 DEF Finish, TypeOK, Blank
<1>6. ASSUME NEW p \in Procs, NEW obs \in {"OK", "DEGRADED", "unreachable"}, Probe(p, obs)
      PROVE  CalmInv'
  <2>1. pc[p] = "probe" /\ ~Syncs(p) /\ UNCHANGED files /\ cmd[p] # "check"
    BY <1>6 DEF Probe, Syncs
  <2> DEFINE seen == [loc[p] EXCEPT !.plan = planCn,
                                    !.obs = IF obs = "OK" THEN "OK" ELSE "DEGRADED"]
  <2>2. Finish(p) \/ (/\ Goto(p, "record") /\ UNCHANGED cmd
                      /\ loc'[p].env = loc[p].env)
    <3>1. Finish(p) \/ (Goto(p, "record") /\ UNCHANGED cmd /\ Hold(p, seen))
      BY <1>6 DEF Probe
    <3>2. seen.env = loc[p].env
      BY <1>1 DEF TypeOK, Local
    <3> HIDE DEF seen
    <3> QED
      BY <1>1, <3>1, <3>2 DEF Hold, TypeOK
  <2>3. loc'[p].env = NoInputs /\ pc'[p] \in {"idle", "record"}
        /\ (pc'[p] = "record" => cmd'[p] # "check")
    <3>1. CASE Finish(p)
      BY <1>5, <3>1
    <3>2. CASE Goto(p, "record") /\ UNCHANGED cmd /\ loc'[p].env = loc[p].env
      BY <1>1, <2>1, <3>2 DEF Goto, TypeOK, Resolved
    <3> QED
      BY <2>2, <3>1, <3>2
  <2> QED
    BY <1>4, <2>1, <2>3
<1>7. ASSUME NEW p \in Procs, RecordCnHealth(p)
      PROVE  CalmInv'
  <2>1. pc[p] = "record" /\ ~Syncs(p) /\ cmd[p] # "check"
        /\ UNCHANGED <<subEnv, overrides, secretFile, config, planCn>>
    BY <1>7 DEF RecordCnHealth, Syncs
  <2>2. CASE Finish(p) /\ UNCHANGED health
    BY <1>4, <1>5, <2>1, <2>2 DEF files
  <2>3. CASE config = NoConfig /\ Finish(p)
    BY <1>5, <2>1, <2>3 DEF SingleOperator, Resolved
  <2>4. CASE config # NoConfig /\ Goto(p, "resolve") /\ UNCHANGED <<cmd, loc>>
    <3>1. pc'[p] = "resolve" /\ Syncs(p)'
      BY <1>1, <2>1, <2>4 DEF Goto, Syncs, TypeOK
    <3> QED
      BY <2>1, <2>4, <3>1 DEF SingleOperator, Resolved
  <2> QED
    BY <1>7, <2>2, <2>3, <2>4 DEF RecordCnHealth
<1>8. ASSUME NEW p \in Procs, Resolve(p)
      PROVE  CalmInv'
  <2>1. pc[p] = "resolve" /\ pc' = [pc EXCEPT ![p] = "render"]
        /\ UNCHANGED <<subEnv, overrides, config, planCn, health, cmd>>
        /\ loc[p].env = NoInputs /\ Resolvable(subEnv, NoInputs)
    BY <1>8 DEF Resolve, Goto, Resolved
  <2>2. secretFile' = loc'[p].secret
        /\ secretFile' \in SecretChoices(subEnv, NoInputs, secretFile)
    BY <1>8, <2>1, ResolveStores
  <2>3. loc'[p].env = NoInputs /\ loc'[p].cn = subEnv.cn
    <3>1. loc'[p].env = loc[p].env /\ loc'[p].cn = (subEnv.cn \/ loc[p].env.cn)
      BY <1>1, <1>8 DEF Resolve, Hold, TypeOK, Local
    <3>2. subEnv.cn \in BOOLEAN
      BY <1>1 DEF TypeOK, Inputs
    <3> QED
      BY <2>1, <3>1, <3>2 DEF NoInputs
  <2>4. /\ secretFile # NoSecret => UNCHANGED secretFile
        /\ secretFile' # NoSecret /\ Resolvable(subEnv', NoInputs)
        /\ secretFile' \in SecretChoices(subEnv', NoInputs, secretFile')
    BY <2>1, <2>2, SecretOnce
  <2>5. pc'[p] = "render" /\ (Syncs(p)' <=> Syncs(p))
    BY <1>1, <2>1 DEF Syncs, TypeOK
  <2>6. config # NoConfig => Match' = Match
    BY <2>1, <2>4 DEF Match
  <2>7. \A q \in Procs : q = p
    BY DEF SingleOperator
  <2> QED
    BY <2>1, <2>2, <2>3, <2>4, <2>5, <2>6, <2>7 DEF Resolved
<1>9. ASSUME NEW p \in Procs, RenderAudit(p)
      PROVE  CalmInv'
  <2>1. pc[p] = "render" /\ UNCHANGED files
    BY <1>9 DEF RenderAudit
  <2>2. CASE Finish(p) /\ cmd[p] = "check"
    BY <1>4, <1>5, <2>1, <2>2 DEF Syncs
  <2>3. CASE /\ Hold(p, [loc[p] EXCEPT !.seen = LoadDegraded(health), !.extra = overrides])
             /\ Goto(p, "load") /\ UNCHANGED cmd /\ cmd[p] # "check"
    <3>1. /\ loc'[p].env = loc[p].env /\ loc'[p].cn = loc[p].cn
          /\ loc'[p].secret = loc[p].secret /\ loc'[p].extra = overrides
      BY <1>1, <2>3 DEF Hold, TypeOK, Local
    <3>2. pc'[p] = "load" /\ Syncs(p)'
      BY <1>1, <2>3 DEF Goto, Syncs, TypeOK
    <3> QED
      BY <2>1, <2>3, <3>1, <3>2 DEF SingleOperator, files, Resolved
  <2> QED
    BY <1>9, <2>2, <2>3 DEF RenderAudit, Accepted
<1>10. ASSUME NEW p \in Procs, LoadRecord(p)
       PROVE  CalmInv'
  <2>1. /\ pc[p] = "load" /\ UNCHANGED <<files, cmd>> /\ cmd[p] # "check"
        /\ pc' = [pc EXCEPT ![p] = IF config = Rendered(p) THEN "plan" ELSE "replace"]
    BY <1>10 DEF LoadRecord, Goto
  <2>2. /\ loc'[p].env = loc[p].env /\ loc'[p].cn = loc[p].cn
        /\ loc'[p].secret = loc[p].secret /\ loc'[p].extra = loc[p].extra
    BY <1>1, <1>10 DEF LoadRecord, Hold, TypeOK, Local
  <2>3. pc'[p] \in {"plan", "replace"} /\ (pc'[p] = "plan" => Match) /\ cmd'[p] = cmd[p]
    BY <1>1, <2>1 DEF RunInv, Owned, Resolved, Rendered, Match, TypeOK
  <2>4. Match' = Match
    BY <2>1 DEF files, Match
  <2>5. pc'[p] = "replace" => Syncs(p)'
    BY <2>1 DEF Syncs
  <2> QED
    BY <2>1, <2>2, <2>3, <2>4, <2>5 DEF SingleOperator, files, Resolved
<1>11. ASSUME NEW p \in Procs, Replace(p)
       PROVE  CalmInv'
  <2>1. /\ pc[p] = "replace" /\ config' = Rendered(p) /\ pc' = [pc EXCEPT ![p] = "plan"]
        /\ UNCHANGED <<subEnv, overrides, secretFile, planCn, health, cmd, loc>>
    BY <1>11 DEF Replace, Goto
  <2>2. Match' /\ secretFile # NoSecret
    <3>1. loc[p].secret = secretFile /\ loc[p].secret \in Secrets
      BY <2>1 DEF Resolved, RunInv, TypeInv, Settled
    <3> QED
      BY <2>1, <3>1 DEF RunInv, Owned, Resolved, Rendered, Match
  <2>3. pc'[p] = "plan"
    BY <1>1, <2>1 DEF TypeOK
  <2> QED
    BY <2>1, <2>2, <2>3 DEF SingleOperator, Resolved
<1>12. ASSUME NEW p \in Procs, SavePlan(p)
       PROVE  CalmInv'
  <2>1. /\ pc[p] = "plan" /\ pc' = [pc EXCEPT ![p] = "health"]
        /\ UNCHANGED <<subEnv, overrides, secretFile, config, health, cmd, loc>>
    BY <1>12 DEF SavePlan, Goto
  <2>2. ~Syncs(p) /\ pc'[p] = "health" /\ Match' = Match
    BY <1>1, <2>1 DEF Syncs, Match, TypeOK
  <2> QED
    BY <2>1, <2>2 DEF SingleOperator, Resolved
<1>13. ASSUME NEW p \in Procs, SaveDegraded(p)
       PROVE  CalmInv'
  <2>1. /\ pc[p] = "health" /\ health' = loc[p].rec /\ Finish(p)
        /\ UNCHANGED <<subEnv, overrides, secretFile, config, planCn>>
    BY <1>13 DEF SaveDegraded
  <2>2. /\ loc[p].seen = LoadDegraded(health)
        /\ loc[p].rec = DegradedRecord(loc[p].cn, loc[p].seen)
        /\ config = Render(loc[p].cn, loc[p].secret, loc[p].seen, loc[p].extra)
        /\ loc[p].cn = subEnv.cn /\ loc[p].secret = secretFile /\ loc[p].extra = overrides
    BY <2>1 DEF RunInv, Owned, Resolved, Rendered
  <2>3. loc[p].cn \in BOOLEAN /\ loc[p].seen \in Health
    BY <1>1 DEF TypeOK, Local
  <2>4. Match'
    BY <2>1, <2>2, <2>3, RecordRendersAlike DEF Match
  <2> QED
    BY <1>5, <2>1, <2>4 DEF SingleOperator, Resolved
<1>14. ASSUME NEW p \in Procs, NEW e \in Envs, Install(p, e)
       PROVE  CalmInv'
  <2>1. /\ pc[p] = "idle" /\ loc' = [loc EXCEPT ![p] = Blank(NoInputs)]
        /\ UNCHANGED <<subEnv, overrides, config, planCn, health, pc, cmd>>
        /\ Resolvable(subEnv, NoInputs)
        /\ secretFile' \in SecretChoices(subEnv, NoInputs, secretFile)
    BY <1>14 DEF Install, Free, Hold
  <2>2. /\ secretFile # NoSecret => UNCHANGED secretFile
        /\ secretFile' # NoSecret /\ Resolvable(subEnv', NoInputs)
        /\ secretFile' \in SecretChoices(subEnv', NoInputs, secretFile')
    BY <2>1, SecretOnce
  <2>3. loc'[p].env = NoInputs /\ ~Syncs(p) /\ (config # NoConfig => Match' = Match)
    BY <1>1, <2>1, <2>2 DEF Syncs, Match, TypeOK, Blank
  <2> QED
    BY <2>1, <2>2, <2>3 DEF SingleOperator, Resolved
<1>15. ASSUME NEW p \in Procs, Supply(p)
       PROVE  CalmInv'
  <2>1. pc' = [pc EXCEPT ![p] = "resolve"] /\ UNCHANGED <<files, cmd, loc>>
    BY <1>15 DEF Supply, Goto
  <2>2. pc'[p] = "resolve" /\ (~Syncs(p)' => ~Syncs(p)) /\ Match' = Match
    BY <1>1, <2>1 DEF Syncs, Match, files, TypeOK
  <2> QED
    BY <2>1, <2>2 DEF SingleOperator, files, Resolved
<1> QED
  BY <1>2, <1>3, <1>6, <1>7, <1>8, <1>9, <1>10, <1>11, <1>12, <1>13, <1>14, <1>15,
     CalmSteps DEF Progress

LEMMA CalmInvariant ==
    ASSUME SingleOperator, Envs \subseteq {NoInputs}
    PROVE  CalmSpec => [](RunInv /\ CalmInv)
<1>1. ServiceInit => RunInv /\ CalmInv
  BY InitType DEF ServiceInit, Init, RunInv, Owned, CalmInv, Resolved, Blank
<1>2. RunInv /\ CalmInv /\ [Calm]_svars => (RunInv /\ CalmInv)'
  BY CalmRun, CalmPreserved
<1> QED
  BY <1>1, <1>2, PTL DEF CalmSpec

\* One command at a time, on a host whose inputs are those of subscription.env, any
\* of them, with any CN nodes that come and go: whenever no command runs, the
\* config.yaml on disk passes the gate of the next start.
THEOREM GateStaysOpenThm ==
    ASSUME SingleOperator, Envs \subseteq {NoInputs}
    PROVE  CalmSpec => []GateStaysOpen
<1>1. RunInv /\ CalmInv => GateStaysOpen
  <2> SUFFICES ASSUME RunInv, CalmInv, Standing, config # NoConfig
               PROVE  GateAccepts
    BY DEF GateStaysOpen
  <2>1. \A p \in Procs : ~Syncs(p)
    BY DEF Standing, Free, Syncs
  <2> QED
    BY <2>1 DEF CalmInv, Match, GateAccepts, Accepted
<1> QED
  BY <1>1, CalmInvariant, PTL

(***************************************************************************)
(* The supply chain.  It adds the files of the program to the steps of the *)
(* service, and changes none of these.                                     *)
(***************************************************************************)

LEMMA SupplyStep ==
    ASSUME [SupplyNext]_supplyVars
    PROVE  [ServiceNext]_svars
<1>1. CASE Checkout \/ \E p \in Procs : \/ Fetch(p) \/ MoveBinary(p)
                                        \/ MoveGeo(p, "GeoIP.dat", "GeoSite.dat")
                                        \/ MoveGeo(p, "GeoSite.dat", "switch")
  BY <1>1 DEF Checkout, Fetch, MoveBinary, MoveGeo
<1>2. CASE \E p \in Procs : Supply(p) \/ RemoveFile(p) \/ PurgeDirectory(p) \/ Interrupt(p)
  BY <1>2 DEF ServiceNext, Calm, Trouble, CommandStep, UninstallStep
<1>3. CASE ServiceNext \/ UNCHANGED supplyVars
  BY <1>3 DEF supplyVars
<1> QED
  BY <1>1, <1>2, <1>3 DEF SupplyNext

\* install_verified, download by download and move by move, does to the service what
\* the one step Supply of MpmService says, or nothing.
THEOREM ImplementsServiceThm == SupplySpec => ServiceSpec
<1>1. SupplyInit => ServiceInit
  BY DEF SupplyInit
<1>2. [SupplyNext]_supplyVars => [ServiceNext]_svars
  BY SupplyStep
<1> QED
  BY <1>1, <1>2, PTL DEF SupplySpec, ServiceSpec

DiskTypes ==
    /\ libexec \in [Tags -> Content]
    /\ geo \in [GeoFiles -> Content]
    /\ current \in Tags \cup {NoTag}
    /\ executed \in Content
    /\ binary <=> current # NoTag

OwnTypes ==
    /\ tag \in Tags
    /\ step \in [Procs -> Stages]
    /\ pin \in [Procs -> Tags \cup {NoTag}]
    /\ staged \in [Procs -> Staging]
    /\ \A p \in Procs : step[p] # "none" <=> task[p] = "supply"
    /\ \A p \in Procs : step[p] # "none" => pin[p] \in Tags

SupplyInv == ServiceInv /\ OwnTypes /\ DiskTypes

LEMMA NothingStagedType == NothingStaged \in Staging
BY DEF NothingStaged, Staging, Content

LEMMA SupplyInitTypes == SupplyInit => SupplyInv
<1> SUFFICES ASSUME SupplyInit PROVE SupplyInv
  OBVIOUS
<1>1. ServiceInv /\ task = [p \in Procs |-> "none"] /\ binary = FALSE
  BY ServiceInitTypes DEF SupplyInit, ServiceInit
<1>2. OwnTypes
  BY <1>1, NothingStagedType DEF SupplyInit, OwnTypes, Stages
<1>3. DiskTypes
  BY <1>1 DEF SupplyInit, DiskTypes, Content
<1> QED
  BY <1>1, <1>2, <1>3 DEF SupplyInv

\* What follows any step of the service: an install that begins loads the lock, one
\* that ends forgets it.
LEMMA FollowTypes ==
    ASSUME SupplyInv, [ServiceNext]_svars, Follow
    PROVE  OwnTypes' /\ executed' \in Content
<1> USE DEF SupplyInv, OwnTypes
<1>1. tag' = tag /\ step' \in [Procs -> Stages]
  BY DEF Follow, Stages
<1>2. pin' \in [Procs -> Tags \cup {NoTag}]
  BY DEF Follow
<1>3. staged' \in [Procs -> Staging]
  BY NothingStagedType DEF Follow
<1>4. \A p \in Procs : /\ step'[p] # "none" <=> task'[p] = "supply"
                       /\ step'[p] # "none" => pin'[p] \in Tags
  BY DEF Follow
<1>5. executed' \in Content
  <2>1. CASE running' = NoConfig
    BY <2>1 DEF Follow, Content
  <2>2. CASE running' # NoConfig /\ running = NoConfig
    <3>1. binary
      BY <2>2, RunningWriters
    <3>2. libexec[current] \in Content
      BY <3>1 DEF DiskTypes
    <3> QED
      BY <2>2, <3>2 DEF Follow
  <2>3. CASE running' # NoConfig /\ running # NoConfig
    BY <2>3 DEF Follow, DiskTypes
  <2> QED
    BY <2>1, <2>2, <2>3
<1> QED
  BY <1>1, <1>2, <1>3, <1>4, <1>5

LEMMA SupplyTypesPreserved ==
    ASSUME SupplyInv, [SupplyNext]_supplyVars
    PROVE  SupplyInv'
<1>1. ServiceInv'
  BY SupplyStep, ServiceTypesPreserved DEF SupplyInv
<1> SUFFICES OwnTypes' /\ DiskTypes'
  BY <1>1 DEF SupplyInv
<1> USE DEF SupplyInv
<1>2. CASE UNCHANGED supplyVars \/ Checkout
  BY <1>2 DEF supplyVars, own, disk, svars, host, Checkout, OwnTypes, DiskTypes
<1>3. ASSUME NEW p \in Procs, Fetch(p)
      PROVE  OwnTypes' /\ DiskTypes'
  BY <1>3 DEF Fetch, At, disk, svars, host, OwnTypes, DiskTypes, Stages
<1>4. ASSUME NEW p \in Procs, MoveBinary(p)
      PROVE  OwnTypes' /\ DiskTypes'
  <2>1. pin[p] \in Tags /\ staged[p]["binary"] \in Content
    BY <1>4 DEF MoveBinary, At, OwnTypes, Staging
  <2>2. libexec' \in [Tags -> Content]
    BY <1>4, <2>1 DEF MoveBinary, DiskTypes
  <2> QED
    BY <1>4, <2>2 DEF MoveBinary, At, svars, host, OwnTypes, DiskTypes, Stages
<1>5. ASSUME NEW p \in Procs, NEW f \in GeoFiles, NEW then \in {"GeoSite.dat", "switch"},
             MoveGeo(p, f, then)
      PROVE  OwnTypes' /\ DiskTypes'
  <2>1. staged[p][f] \in Content
    BY <1>5 DEF OwnTypes, Staging
  <2>2. geo' \in [GeoFiles -> Content]
    BY <1>5, <2>1 DEF MoveGeo, DiskTypes
  <2>3. step[p] # "none" /\ step' = [step EXCEPT ![p] = then]
    BY <1>5 DEF MoveGeo, At, GeoFiles
  <2>4. OwnTypes'
    BY <1>5, <2>3 DEF MoveGeo, svars, OwnTypes, Stages
  <2> QED
    BY <1>5, <2>2, <2>4 DEF MoveGeo, svars, host, DiskTypes
<1>6. ASSUME NEW p \in Procs, Supply(p), SwitchCurrent(p) \/ SkipDownload(p), Follow
      PROVE  OwnTypes' /\ DiskTypes'
  <2>1. OwnTypes' /\ executed' \in Content
    BY <1>6, FollowTypes DEF ServiceNext, Calm, CommandStep
  <2>2. binary' = TRUE
    BY <1>6 DEF Supply
  <2>3. /\ libexec' = libexec /\ geo' = geo
        /\ current' \in Tags
    BY <1>6, SupplyAssumption DEF SwitchCurrent, SkipDownload, disk, OwnTypes, DiskTypes
  <2> QED
    BY <2>1, <2>2, <2>3, SupplyAssumption DEF DiskTypes
<1>7. ASSUME NEW p \in Procs, RemoveFile(p) \/ PurgeDirectory(p), Discard(p), Follow
      PROVE  OwnTypes' /\ DiskTypes'
  <2>1. OwnTypes' /\ executed' \in Content
    BY <1>7, FollowTypes DEF ServiceNext, Trouble, UninstallStep
  <2>2. /\ libexec' \in [Tags -> Content]
        /\ geo' \in [GeoFiles -> Content]
    BY <1>7 DEF Discard, DiskTypes, Content
  <2>3. \/ task[p] \in {"rm binary", "purge binary"} /\ binary' = FALSE /\ current' = NoTag
        \/ UNCHANGED <<binary, current>>
    BY <1>7 DEF RemoveFile, PurgeDirectory, Discard
  <2>4. current' \in Tags \cup {NoTag} /\ (binary' <=> current' # NoTag)
    <3>1. CASE binary' = FALSE /\ current' = NoTag
      BY <3>1
    <3>2. CASE binary' = binary /\ current' = current
      <4>1. binary' <=> binary
        BY <3>2, Zenon
      <4> QED
        BY <3>2, <4>1 DEF DiskTypes
    <3> QED
      BY <2>3, <3>1, <3>2
  <2> QED
    BY <2>1, <2>2, <2>4 DEF DiskTypes
<1>8. ASSUME [ServiceNext]_svars, UNCHANGED <<disk, binary>>, Follow
      PROVE  OwnTypes' /\ DiskTypes'
  BY <1>8, FollowTypes DEF disk, DiskTypes
<1>9. ASSUME NEW p \in Procs, Interrupt(p), UNCHANGED disk, Follow
      PROVE  OwnTypes' /\ DiskTypes'
  BY <1>8, <1>9 DEF Interrupt, host, ServiceNext, Trouble
<1>10. ASSUME ServiceNext, ~ \E p \in Procs : HandlesProgram(p), UNCHANGED disk, Follow
       PROVE  OwnTypes' /\ DiskTypes'
  BY <1>8, <1>10, BinaryWriters
<1>11. GeoFiles = {"GeoIP.dat", "GeoSite.dat"}
  BY DEF GeoFiles
<1> QED
  BY <1>2, <1>3, <1>4, <1>5, <1>6, <1>7, <1>9, <1>10, <1>11 DEF SupplyNext

LEMMA SupplyInvariant == SupplySpec => []SupplyInv
BY SupplyInitTypes, SupplyTypesPreserved, PTL DEF SupplySpec

\* Any number of installs and uninstalls beside each other, of any versions: what is
\* installed keeps its types, each install knows how far it is, and the program is
\* there for the service exactly when the link names a version.
THEOREM SupplyTypes == SupplySpec => []SupplyTypeOK
<1>1. SupplyInv => SupplyTypeOK
  BY DEF SupplyInv, ServiceInv, TypeInv, HostTypes, OwnTypes, DiskTypes, SupplyTypeOK,
     ServiceTypeOK
<1> QED
  BY <1>1, SupplyInvariant, PTL

(***************************************************************************)
(* Whole versions.  An install holds verified files only, and the files    *)
(* it has moved so far stay in place while it runs: what an install of     *)
(* another version, or an uninstall, would do to them comes before or      *)
(* after.                                                                  *)
(***************************************************************************)
MovedSoFar(p) ==
    /\ step[p] \notin {"none", "fetch"} =>
          \A f \in {"binary"} \cup GeoFiles : staged[p][f] = pin[p]
    /\ step[p] \in {"GeoIP.dat", "GeoSite.dat", "switch"} => libexec[pin[p]] = pin[p]
    /\ step[p] \in {"GeoSite.dat", "switch"} => geo["GeoIP.dat"] = pin[p]
    /\ step[p] = "switch" => geo["GeoSite.dat"] = pin[p]

WholeInv ==
    /\ \A p \in Procs : MovedSoFar(p)
    /\ current # NoTag => libexec[current] = current
    /\ running # NoConfig => executed \in Tags

\* What mihomo was started from is what the link pointed at.
LEMMA FollowRuns ==
    ASSUME SupplyInv, WholeInv, [ServiceNext]_svars, Follow
    PROVE  running' # NoConfig => executed' \in Tags
<1>1. CASE running' # NoConfig /\ running = NoConfig
  <2>1. binary
    BY <1>1, RunningWriters
  <2>2. libexec[current] \in Tags
    BY <2>1 DEF SupplyInv, DiskTypes, WholeInv
  <2> QED
    BY <1>1, <2>2 DEF Follow
<1>2. CASE running' # NoConfig /\ running # NoConfig
  BY <1>2 DEF Follow, WholeInv
<1> QED
  BY <1>1, <1>2

\* A step of the service that leaves the files of the program alone.
LEMMA FollowWhole ==
    ASSUME SupplyInv, WholeInv, [ServiceNext]_svars, Follow, UNCHANGED disk
    PROVE  WholeInv'
<1>1. ASSUME NEW p \in Procs
      PROVE  MovedSoFar(p)'
  <2>1. CASE step'[p] \in {"none", "fetch"}
    BY <2>1 DEF MovedSoFar
  <2>2. CASE step'[p] \notin {"none", "fetch"}
    <3>1. step'[p] = step[p] /\ pin'[p] = pin[p] /\ staged'[p] = staged[p]
      BY <2>2 DEF Follow
    <3>2. libexec' = libexec /\ geo' = geo
      BY DEF disk
    <3>3. MovedSoFar(p)
      BY DEF WholeInv
    <3> QED
      BY <3>1, <3>2, <3>3 DEF MovedSoFar
  <2> QED
    BY <2>1, <2>2
<1> QED
  BY <1>1, FollowRuns DEF disk, WholeInv

LEMMA WholePreserved ==
    ASSUME SingleOperator, SupplyInv, WholeInv, [SupplyNext]_supplyVars
    PROVE  WholeInv'
<1>1. CASE UNCHANGED supplyVars \/ Checkout
  BY <1>1 DEF supplyVars, own, disk, svars, host, Checkout, WholeInv, MovedSoFar
<1>2. ASSUME NEW p \in Procs, Fetch(p)
      PROVE  WholeInv'
  <2>1. /\ step'[p] = "binary" /\ \A f \in {"binary"} \cup GeoFiles : staged'[p][f] = pin'[p]
        /\ UNCHANGED <<libexec, geo, current, running, executed>>
    BY <1>2 DEF Fetch, At, Verified, disk, svars, host, SupplyInv, OwnTypes
  <2> QED
    BY <2>1 DEF SingleOperator, WholeInv, MovedSoFar
<1>3. ASSUME NEW p \in Procs, MoveBinary(p)
      PROVE  WholeInv'
  <2>1. /\ step[p] = "binary" /\ step'[p] = "GeoIP.dat" /\ pin[p] \in Tags
        /\ libexec' = [libexec EXCEPT ![pin[p]] = staged[p]["binary"]]
        /\ UNCHANGED <<pin, staged, geo, current, running, executed>>
    BY <1>3 DEF MoveBinary, At, svars, host, SupplyInv, OwnTypes
  <2>2. /\ staged[p]["binary"] = pin[p]
        /\ \A f \in {"binary"} \cup GeoFiles : staged[p][f] = pin[p]
    BY <2>1 DEF WholeInv, MovedSoFar
  <2>3. libexec'[pin[p]] = pin[p] /\ (current # NoTag => libexec'[current] = current)
    BY <2>1, <2>2 DEF WholeInv, SupplyInv, DiskTypes
  <2> QED
    BY <2>1, <2>2, <2>3 DEF SingleOperator, WholeInv, MovedSoFar
<1>4. ASSUME NEW p \in Procs, MoveGeo(p, "GeoIP.dat", "GeoSite.dat")
      PROVE  WholeInv'
  <2>1. /\ step[p] = "GeoIP.dat" /\ step'[p] = "GeoSite.dat"
        /\ geo'["GeoIP.dat"] = staged[p]["GeoIP.dat"]
        /\ UNCHANGED <<pin, staged, libexec, current, running, executed>>
    BY <1>4 DEF MoveGeo, At, svars, host, SupplyInv, OwnTypes, DiskTypes, GeoFiles
  <2>2. libexec[pin[p]] = pin[p] /\ \A f \in {"binary"} \cup GeoFiles : staged[p][f] = pin[p]
    BY <2>1 DEF WholeInv, MovedSoFar
  <2>3. staged[p]["GeoIP.dat"] = pin[p]
    BY <2>2 DEF GeoFiles
  <2> QED
    BY <2>1, <2>2, <2>3 DEF SingleOperator, WholeInv, MovedSoFar
<1>5. ASSUME NEW p \in Procs, MoveGeo(p, "GeoSite.dat", "switch")
      PROVE  WholeInv'
  <2>1. /\ step[p] = "GeoSite.dat" /\ step'[p] = "switch"
        /\ geo'["GeoSite.dat"] = staged[p]["GeoSite.dat"]
        /\ geo'["GeoIP.dat"] = geo["GeoIP.dat"]
        /\ UNCHANGED <<pin, staged, libexec, current, running, executed>>
    BY <1>5 DEF MoveGeo, At, svars, host, SupplyInv, OwnTypes, DiskTypes, GeoFiles
  <2>2. /\ libexec[pin[p]] = pin[p] /\ geo["GeoIP.dat"] = pin[p]
        /\ \A f \in {"binary"} \cup GeoFiles : staged[p][f] = pin[p]
    BY <2>1 DEF WholeInv, MovedSoFar
  <2>3. staged[p]["GeoSite.dat"] = pin[p]
    BY <2>2 DEF GeoFiles
  <2> QED
    BY <2>1, <2>2, <2>3 DEF SingleOperator, WholeInv, MovedSoFar
<1>6. ASSUME NEW p \in Procs, Supply(p), SwitchCurrent(p), Follow
      PROVE  WholeInv'
  <2>1. step[p] = "switch" /\ current' = pin[p] /\ libexec' = libexec /\ task'[p] = "unit"
    BY <1>6 DEF SwitchCurrent, Supply, Do, SupplyInv, ServiceInv, HostTypes
  <2>2. libexec'[current'] = current'
    BY <2>1 DEF WholeInv, MovedSoFar
  <2>3. \A q \in Procs : step'[q] = "none"
    BY <1>6, <2>1 DEF SingleOperator, Follow
  <2>4. running' # NoConfig => executed' \in Tags
    BY <1>6, FollowRuns DEF ServiceNext, Calm, CommandStep
  <2> QED
    BY <2>2, <2>3, <2>4 DEF WholeInv, MovedSoFar
<1>7. ASSUME NEW p \in Procs, Supply(p), SkipDownload(p), Follow
      PROVE  WholeInv'
  BY <1>7, FollowWhole DEF SkipDownload, ServiceNext, Calm, CommandStep
<1>8. ASSUME NEW p \in Procs, RemoveFile(p) \/ PurgeDirectory(p), Discard(p), Follow
      PROVE  WholeInv'
  <2>1. task[p] \in Removals /\ \E t \in Removals \cup {"none"} : Do(p, t)
    BY <1>8 DEF RemoveFile, PurgeDirectory, Removals
  <2>2. \A q \in Procs : task'[q] # "supply"
    BY <2>1 DEF SingleOperator, Do, SupplyInv, ServiceInv, HostTypes, Removals
  <2>3. \A q \in Procs : step'[q] = "none"
    BY <1>8, <2>2 DEF Follow
  <2>4. current' = NoTag \/ UNCHANGED <<libexec, current>>
    BY <1>8 DEF Discard
  <2>5. running' # NoConfig => executed' \in Tags
    BY <1>8, FollowRuns DEF ServiceNext, Trouble, UninstallStep
  <2> QED
    BY <2>3, <2>4, <2>5 DEF WholeInv, MovedSoFar
<1>9. ASSUME NEW p \in Procs, Interrupt(p), UNCHANGED disk, Follow
      PROVE  WholeInv'
  BY <1>9, FollowWhole DEF ServiceNext, Trouble
<1>10. ASSUME ServiceNext, UNCHANGED disk, Follow
       PROVE  WholeInv'
  BY <1>10, FollowWhole
<1> QED
  BY <1>1, <1>2, <1>3, <1>4, <1>5, <1>6, <1>7, <1>8, <1>9, <1>10 DEF SupplyNext

LEMMA WholeInvariant ==
    ASSUME SingleOperator
    PROVE  SupplySpec => [](SupplyInv /\ WholeInv)
<1>1. SupplyInit => SupplyInv /\ WholeInv
  <2>1. ASSUME SupplyInit PROVE WholeInv
    BY <2>1 DEF SupplyInit, ServiceInit, WholeInv, MovedSoFar
  <2> QED
    BY <2>1, SupplyInitTypes
<1>2. SupplyInv /\ WholeInv /\ [SupplyNext]_supplyVars => (SupplyInv /\ WholeInv)'
  BY SupplyTypesPreserved, WholePreserved
<1> QED
  BY <1>1, <1>2, PTL DEF SupplySpec

\* Only the last step of an install names a version in the link.
LEMMA LinkWriters ==
    ASSUME [SupplyNext]_supplyVars, current' \notin {current, NoTag}
    PROVE  \E p \in Procs : SwitchCurrent(p)
BY DEF SupplyNext, supplyVars, disk, Checkout, Fetch, MoveBinary, MoveGeo, SkipDownload,
   Discard

\* One install or uninstall at a time, of any versions, whatever was downloaded and
\* wherever it is killed: mihomo only runs what a lock file pins, and a version is
\* linked once its binary and both its geo files are in place.
THEOREM RunsWholeVersionsThm ==
    ASSUME SingleOperator
    PROVE  SupplySpec => RunsWholeVersions
<1>1. (SupplyInv /\ WholeInv) /\ (SupplyInv /\ WholeInv)' /\ [SupplyNext]_supplyVars
        => [/\ running' # NoConfig => executed' \in Tags
            /\ current' \notin {current, NoTag} =>
                  /\ libexec[current'] = current'
                  /\ \A f \in GeoFiles : geo[f] = current']_supplyVars
  <2> SUFFICES ASSUME SupplyInv, WholeInv, WholeInv', [SupplyNext]_supplyVars
               PROVE  /\ running' # NoConfig => executed' \in Tags
                      /\ current' \notin {current, NoTag} =>
                            /\ libexec[current'] = current'
                            /\ \A f \in GeoFiles : geo[f] = current'
    OBVIOUS
  <2>1. running' # NoConfig => executed' \in Tags
    BY DEF WholeInv
  <2>2. ASSUME current' \notin {current, NoTag}
        PROVE  libexec[current'] = current' /\ \A f \in GeoFiles : geo[f] = current'
    <3>1. PICK p \in Procs : SwitchCurrent(p)
      BY <2>2, LinkWriters
    <3> QED
      BY <3>1 DEF SwitchCurrent, WholeInv, MovedSoFar, GeoFiles
  <2> QED
    BY <2>1, <2>2
<1> QED
  BY <1>1, WholeInvariant, PTL DEF SupplySpec, RunsWholeVersions
=============================================================================
