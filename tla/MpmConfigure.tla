---------------------------- MODULE MpmConfigure ----------------------------
(***************************************************************************)
(* The files behind `mihomo-proxy-management configure` on Linux, and the  *)
(* commands that write them, step by step.  Nothing in the package takes a *)
(* lock, so every command is a process whose reads and writes of the files *)
(* may fall between those of another, and which may die between any two.   *)
(*                                                                         *)
(*   subscription.env, overrides.d   edited by the operator at any time    *)
(*   controller.secret               written by secrets_io.resolve         *)
(*   config.yaml                     written by lifecycle.configure        *)
(*   state/plan.json                 written by lifecycle.configure        *)
(*   state/degraded.json             written by configure and by the       *)
(*                                   health checks (status, test, update)  *)
(*                                                                         *)
(* Each file is replaced atomically (atomicio.write_atomic), so one write  *)
(* is one step.  URLs are abstracted to whether they are there; of the     *)
(* text of config.yaml the CN rules, the secret and what overrides.d adds  *)
(* to it are kept.                                                         *)
(***************************************************************************)

CONSTANTS
    Procs,      \* command processes that may run at the same time
    Secrets,    \* values of the controller secret
    NoSecret,   \* the secret is absent from a source
    NoConfig,   \* config.yaml does not exist
    Envs,       \* environments the operator starts commands with
    Files,      \* contents subscription.env may have
    Extras,     \* what the operator may write to overrides.d
    Crashes     \* whether a command may die half-way

Health == {"OK", "DEGRADED", "DISABLED"}    \* state.py HEALTH_*
Routes == {"none", "exit", "refuse"}        \* no CN rule / CN-EXIT / REJECT

\* What overrides.d adds to a rendered config: nothing; settings or rules that
\* have nothing to do with CN; a CN rule to CN-EXIT or to REJECT.  The operator
\* may also write what no configuration accepts (DIRECT for CN, a foreign group,
\* MATCH, a key that is not allowed).
Additions == {"none", "other", "exit", "reject"}
Overrides == Additions \cup {"refused"}

\* What a source of inputs provides: the required keys, well-formed; the CN
\* subscription with its health URL; the controller secret.
Inputs == [foreign : BOOLEAN, cn : BOOLEAN, secret : Secrets \cup {NoSecret}]

Config == {c \in [cn : BOOLEAN, route : Routes, secret : Secrets, extra : Additions] :
             (c.route = "none") <=> ~c.cn}

Commands == {"configure", "check", "status", "update"}
Steps == {"idle", "probe", "record", "resolve", "render", "load", "replace",
          "plan", "health"}

ASSUME ConstantsAssumption ==
    /\ Secrets # {}
    /\ NoSecret \notin Secrets
    /\ NoConfig \notin Config
    /\ Envs \subseteq Inputs /\ Files \subseteq Inputs
    /\ Extras \subseteq Overrides
    /\ Files # {}
    /\ Crashes \in BOOLEAN

VARIABLES
    subEnv,      \* subscription.env
    overrides,   \* overrides.d
    secretFile,  \* controller.secret
    config,      \* config.yaml
    planCn,      \* plan.json: cn_configured
    health,      \* degraded.json: cn, or "absent"
    pc,          \* pc[p]: next step of process p
    cmd,         \* cmd[p]: the command it runs
    loc          \* loc[p]: what it has read

files == <<subEnv, overrides, secretFile, config, planCn, health>>
vars == <<files, pc, cmd, loc>>

\* What a process holds: its environment; the plan and the CN liveness a health
\* check saw; the resolved inputs; the health and the overrides it rendered for;
\* the health it will record.
Local == [env : Inputs, plan : BOOLEAN, obs : {"OK", "DEGRADED"},
          cn : BOOLEAN, secret : Secrets \cup {NoSecret},
          seen : Health, extra : Additions, rec : Health]

NoInputs == [foreign |-> FALSE, cn |-> FALSE, secret |-> NoSecret]
Blank(e) == [env |-> e, plan |-> FALSE, obs |-> "OK", cn |-> FALSE,
             secret |-> NoSecret, seen |-> "OK", extra |-> "none", rec |-> "OK"]

TypeOK ==
    /\ subEnv \in Inputs
    /\ overrides \in Overrides
    /\ secretFile \in Secrets \cup {NoSecret}
    /\ config \in Config \cup {NoConfig}
    /\ planCn \in BOOLEAN
    /\ health \in Health \cup {"absent"}
    /\ pc \in [Procs -> Steps]
    /\ cmd \in [Procs -> Commands]
    /\ loc \in [Procs -> Local]

-----------------------------------------------------------------------------
(* Pure parts *)
\* A missing degraded.json reads as a healthy CN.
LoadDegraded(h) == IF h = "absent" THEN "OK" ELSE h

\* secrets_io.resolve: the required keys in one source or the other, and no key
\* set to different values in both.
Resolvable(file, e) ==
    /\ file.foreign \/ e.foreign
    /\ {file.secret, e.secret} \subseteq Secrets => file.secret = e.secret

\* Mutant: a stored secret is not taken up again.
SecretChoicesFresh(file, e, stored) ==
    LET given == {file.secret, e.secret} \ {NoSecret}
    IN  IF given # {} THEN given ELSE Secrets

\* The controller secret a run settles on: given, else stored, else generated.
SecretChoices(file, e, stored) ==
    LET given == {file.secret, e.secret} \ {NoSecret}
    IN  IF given # {} THEN given
        ELSE IF stored # NoSecret THEN {stored}
        ELSE Secrets

\* Mutant: rendering forgets the recorded health.
RenderAlwaysExit(cn, secret, h, extra) ==
    [cn |-> cn, secret |-> secret, extra |-> extra,
     route |-> IF cn THEN "exit" ELSE "none"]

\* config.render: the CN rules for a recorded health, below what the overrides add.
Render(cn, secret, h, extra) ==
    [cn |-> cn, secret |-> secret, extra |-> extra,
     route |-> IF ~cn THEN "none" ELSE IF h = "DEGRADED" THEN "refuse" ELSE "exit"]

\* load_overrides, validate_extra_rule and audit: a CN rule among the overrides has
\* to agree with the CN rules rendered below it.
Accepted(extra, c) ==
    \/ extra \in {"none", "other"}
    \/ extra = "exit" /\ c.route = "exit"
    \/ extra = "reject" /\ c.route = "refuse"

\* Mutant: a configure run starts over with a healthy CN.
DegradedRecordReset(cn, existing) == IF cn THEN "OK" ELSE "DISABLED"

\* The CN health a configure run records.
DegradedRecord(cn, existing) ==
    IF ~cn THEN "DISABLED"
    ELSE IF existing = "DEGRADED" THEN "DEGRADED"
    ELSE "OK"

\* Mutant: a bad result is not recorded.
CheckedHealthBlind(plan, obs, previous) ==
    IF ~plan THEN "DISABLED" ELSE IF obs = "OK" THEN obs ELSE previous

\* The CN health a health check records: DISABLED if the plan has no CN, and
\* what it observed otherwise; a good result only clears a DEGRADED.
CheckedHealth(plan, obs, previous) ==
    IF ~plan THEN "DISABLED"
    ELSE IF obs = "DEGRADED" \/ previous = "DEGRADED" THEN obs
    ELSE previous

-----------------------------------------------------------------------------
Init ==
    /\ subEnv \in Files
    /\ overrides = "none"
    /\ secretFile = NoSecret
    /\ config = NoConfig
    /\ planCn = FALSE
    /\ health = "absent"
    /\ pc = [p \in Procs |-> "idle"]
    /\ cmd = [p \in Procs |-> "configure"]
    /\ loc = [p \in Procs |-> Blank(NoInputs)]

Goto(p, step) == pc' = [pc EXCEPT ![p] = step]
Hold(p, l) == loc' = [loc EXCEPT ![p] = l]

\* The command ends, in success or in a refusal; what it held is gone.
Finish(p) ==
    /\ pc' = [pc EXCEPT ![p] = "idle"]
    /\ cmd' = [cmd EXCEPT ![p] = "configure"]
    /\ loc' = [loc EXCEPT ![p] = Blank(NoInputs)]

\* The operator edits subscription.env or overrides.d.
EditInputs ==
    /\ \/ subEnv' \in Files /\ UNCHANGED overrides
       \/ overrides' \in Extras /\ UNCHANGED subEnv
    /\ UNCHANGED <<secretFile, config, planCn, health, pc, cmd, loc>>

\* The operator starts command k in environment e.
Begin(p, k, e) ==
    /\ pc[p] = "idle"
    /\ Goto(p, IF k \in {"status", "update"} THEN "probe" ELSE "resolve")
    /\ cmd' = [cmd EXCEPT ![p] = k]
    /\ Hold(p, Blank(e))
    /\ UNCHANGED files

\* status, test and update-subscription read the plan and then ask mihomo, with
\* the stored secret.  When it does not answer, the first two record nothing,
\* while update-subscription takes an unreadable CN provider for a dead one.
Probe(p, obs) ==
    /\ pc[p] = "probe"
    /\ LET records == /\ secretFile # NoSecret
                      /\ IF cmd[p] = "update" THEN planCn ELSE obs # "unreachable"
       IN  IF records
           THEN /\ Goto(p, "record")
                /\ Hold(p, [loc[p] EXCEPT
                              !.plan = planCn,
                              !.obs = IF obs = "OK" THEN "OK" ELSE "DEGRADED"])
                /\ UNCHANGED cmd
           ELSE Finish(p)
    /\ UNCHANGED files

\* Mutant: the record changes and config.yaml is not re-rendered.
RecordCnHealthOnly(p) ==
    /\ pc[p] = "record"
    /\ health' = CheckedHealth(loc[p].plan, loc[p].obs, LoadDegraded(health))
    /\ Finish(p)
    /\ UNCHANGED <<subEnv, overrides, secretFile, config, planCn>>

\* _record_cn_health; only when it changes the record does the command go on
\* to re-render (_sync_cn_routing, a configure in the same environment).
RecordCnHealth(p) ==
    /\ pc[p] = "record"
    /\ LET previous == LoadDegraded(health)
           new == CheckedHealth(loc[p].plan, loc[p].obs, previous)
       IN  IF new = previous
           THEN Finish(p) /\ UNCHANGED health
           ELSE /\ health' = new
                /\ IF config # NoConfig
                   THEN Goto(p, "resolve") /\ UNCHANGED <<cmd, loc>>
                   ELSE Finish(p)
    /\ UNCHANGED <<subEnv, overrides, secretFile, config, planCn>>

\* The strict preflight refuses the host (a check-only run takes any host), or
\* the inputs do not resolve.
Refuse(p) ==
    /\ pc[p] = "resolve"
    /\ cmd[p] # "check" \/ ~Resolvable(subEnv, loc[p].env)
    /\ Finish(p)
    /\ UNCHANGED files

\* secrets_io.resolve: settles the inputs and stores the controller secret,
\* check-only runs included.
Resolve(p) ==
    /\ pc[p] = "resolve"
    /\ Resolvable(subEnv, loc[p].env)
    /\ \E s \in SecretChoices(subEnv, loc[p].env, secretFile) :
          /\ secretFile' = s
          /\ Hold(p, [loc[p] EXCEPT !.cn = subEnv.cn \/ loc[p].env.cn,
                                    !.secret = s])
    /\ Goto(p, "render")
    /\ UNCHANGED <<subEnv, overrides, config, planCn, health, cmd>>

Rendered(p) == Render(loc[p].cn, loc[p].secret, loc[p].seen, loc[p].extra)

\* What `configure --check-only` accepts as ExecStartPre of the unit: started
\* by systemd it has no inputs but the files, and may not write under /etc.
GateAccepts ==
    /\ config # NoConfig
    /\ Resolvable(subEnv, NoInputs)
    /\ secretFile \in SecretChoices(subEnv, NoInputs, secretFile)
    /\ Accepted(overrides, config)
    /\ config = Render(subEnv.cn, secretFile, LoadDegraded(health), overrides)

\* Load the recorded health and the overrides, render for them, audit.  A check-only
\* run compares the result with config.yaml and ends here.
RenderAudit(p) ==
    /\ pc[p] = "render"
    /\ LET h == LoadDegraded(health)
       IN  IF /\ Accepted(overrides, Render(loc[p].cn, loc[p].secret, h, overrides))
              /\ cmd[p] # "check"
           THEN /\ Hold(p, [loc[p] EXCEPT !.seen = h, !.extra = overrides])
                /\ Goto(p, "load")
                /\ UNCHANGED cmd
           ELSE Finish(p)
    /\ UNCHANGED files

\* Mutant: a config.yaml that only lacks what overrides.d adds is not rewritten.
LoadRecordOfRouting(p) ==
    /\ pc[p] = "load"
    /\ Hold(p, [loc[p] EXCEPT
                  !.rec = DegradedRecord(loc[p].cn, LoadDegraded(health))])
    /\ Goto(p, IF config # NoConfig /\ [config EXCEPT !.extra = loc[p].extra] = Rendered(p)
               THEN "plan" ELSE "replace")
    /\ UNCHANGED <<files, cmd>>

\* Load the recorded health again, for the record this run will leave; an
\* unchanged config.yaml is not rewritten.
LoadRecord(p) ==
    /\ pc[p] = "load"
    /\ Hold(p, [loc[p] EXCEPT
                  !.rec = DegradedRecord(loc[p].cn, LoadDegraded(health))])
    /\ Goto(p, IF config = Rendered(p) THEN "plan" ELSE "replace")
    /\ UNCHANGED <<files, cmd>>

\* mihomo -t accepts the candidate (or is not installed): config.yaml is
\* replaced by it.
Replace(p) ==
    /\ pc[p] = "replace"
    /\ config' = Rendered(p)
    /\ Goto(p, "plan")
    /\ UNCHANGED <<subEnv, overrides, secretFile, planCn, health, cmd, loc>>

\* mihomo -t rejects it: config.yaml stays.
Reject(p) ==
    /\ pc[p] = "replace"
    /\ Finish(p)
    /\ UNCHANGED files

\* Mutant: the plan is saved from the file, not from the resolved inputs.
SavePlanOfFile(p) ==
    /\ pc[p] = "plan"
    /\ planCn' = subEnv.cn
    /\ Goto(p, "health")
    /\ UNCHANGED <<subEnv, overrides, secretFile, config, health, cmd, loc>>

SavePlan(p) ==
    /\ pc[p] = "plan"
    /\ planCn' = loc[p].cn
    /\ Goto(p, "health")
    /\ UNCHANGED <<subEnv, overrides, secretFile, config, health, cmd, loc>>

SaveDegraded(p) ==
    /\ pc[p] = "health"
    /\ health' = loc[p].rec
    /\ Finish(p)
    /\ UNCHANGED <<subEnv, overrides, secretFile, config, planCn>>

\* The process is killed, or the host goes down, between two of its writes.
Crash(p) ==
    /\ Crashes
    /\ pc[p] # "idle"
    /\ Finish(p)
    /\ UNCHANGED files

-----------------------------------------------------------------------------
\* The steps of a configure that goes on, and those that end it early.
Progress(p) ==
    \/ Resolve(p) \/ RenderAudit(p) \/ LoadRecord(p) \/ Replace(p)
    \/ SavePlan(p) \/ SaveDegraded(p)

ConfigureStep(p) == Progress(p) \/ Refuse(p) \/ Reject(p)

Next ==
    \/ EditInputs
    \/ \E p \in Procs :
        \/ \E k \in Commands, e \in Envs : Begin(p, k, e)
        \/ \E obs \in {"OK", "DEGRADED", "unreachable"} : Probe(p, obs)
        \/ RecordCnHealth(p)
        \/ ConfigureStep(p)
        \/ Crash(p)

Spec == Init /\ [][Next]_vars

-----------------------------------------------------------------------------
(* Properties *)

\* The CN rules of config.yaml say what degraded.json records.
Agreement ==
    config # NoConfig /\ config.cn =>
        ((config.route = "refuse") <=> (health = "DEGRADED"))

SingleOperator == \A p, q \in Procs : p = q

\* "A persisted CN DEGRADED is never reset to OK" by configure
\* (lifecycle._degraded_record): only the step of a health check that saw a
\* live node turns DEGRADED into OK.
OnlyHealthCheckClears ==
    [][health = "DEGRADED" /\ health' = "OK"
         => \E p \in Procs : pc[p] = "record" /\ loc[p].obs = "OK"]_vars

\* Once config.yaml and degraded.json agree, only a health check's verdict can
\* make them disagree, no step of configure and no crash; and writing config.yaml
\* always brings it into agreement, whatever was edited or crashed before.
OnlyVerdictBreaksAgreement ==
    [][/\ Agreement /\ ~Agreement' => \E p \in Procs : pc[p] = "record"
       /\ config' # config => Agreement']_vars

\* A run of configure that had no inputs but the files, and finds them at its
\* end as it resolved them, leaves a config.yaml the gate accepts, even when it
\* is killed right before its last write.
InputsAsResolved(p) ==
    /\ loc[p].env = NoInputs
    /\ subEnv.foreign /\ subEnv.cn = loc[p].cn
    /\ subEnv.secret \in {NoSecret, loc[p].secret}
    /\ overrides = loc[p].extra

ConfigurePassesGate ==
    [][\A p \in Procs :
         pc[p] = "health" /\ pc'[p] = "idle" /\ InputsAsResolved(p)
           => GateAccepts']_vars

\* A configure that gets as far as its last write, killed right before it or not,
\* leaves a plan that describes config.yaml: every later health check learns
\* from it whether there is a CN provider to check.
PlanDescribesConfig ==
    [][\A p \in Procs :
         pc[p] = "health" /\ pc'[p] = "idle"
           => config' # NoConfig /\ planCn' = config'.cn]_vars

\* mihomo takes the secret of config.yaml, the CLI the stored one.
SecretsAgree == config # NoConfig => config.secret = secretFile

\* They part only in a run that was given a secret, which stores it before
\* anything that may still refuse it, and every configure that gets as far as
\* its last write has brought them together again.
OnlyGivenSecretLocksOut ==
    [][/\ SecretsAgree /\ ~SecretsAgree'
            => \E p \in Procs :
                  pc[p] = "resolve" /\ {subEnv.secret, loc[p].env.secret} # {NoSecret}
       /\ \A p \in Procs : pc[p] = "health" /\ pc'[p] = "idle" => SecretsAgree']_vars
=============================================================================
