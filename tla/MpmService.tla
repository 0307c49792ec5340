----------------------------- MODULE MpmService -----------------------------
(***************************************************************************)
(* The installed service around the files of MpmConfigure: the pinned      *)
(* binary and the systemd unit, systemd's supervision of mihomo, and the   *)
(* commands install, start, stop, restart and uninstall.                   *)
(*                                                                         *)
(* systemd runs `configure --check-only` (ExecStartPre, the gate) and then *)
(* mihomo, which loads config.yaml once; it restarts the unit five seconds *)
(* after a failure until the start limit.  It moves on its own, between    *)
(* any two steps of a command.  Health checks, abstract in MpmConfigure,   *)
(* are answered here by the mihomo that runs.                              *)
(***************************************************************************)
EXTENDS MpmConfigure

VARIABLES
    binary,    \* the pinned binary is in place
    unit,      \* the unit file
    svc,       \* ActiveState/SubState of the unit
    running,   \* the config.yaml mihomo has loaded, or NoConfig
    cnAlive,   \* the CN subscription has a live node
    task       \* task[p]: what the command of process p does next

host == <<binary, unit, svc, running, cnAlive>>
svars == <<vars, host, task>>

\* activating/start-pre, before and after the gate; activating/auto-restart.
Activating == {"starting", "checked", "waiting"}
Services == {"inactive", "active", "failed"} \cup Activating
Down == {"inactive", "failed"}

\* The files uninstall removes, in its order, after the unit file; with purge,
\* the CLI and the binary and then the whole of /etc and /var/lib.
Removals == {"rm env", "rm secret", "rm config", "rm binary",
             "purge binary", "purge etc", "purge var"}
Uninstalls == {"dry run", "uninstall", "purge"}
Tasks == {"none", "supply", "unit", "start", "ready", "stop", "restart",
          "rm unit", "purge unit"} \cup Uninstalls \cup Removals

ServiceTypeOK ==
    /\ TypeOK
    /\ binary \in BOOLEAN
    /\ unit \in {"absent", "disabled", "enabled"}
    /\ svc \in Services
    /\ running \in Config \cup {NoConfig}
    /\ cnAlive \in BOOLEAN
    /\ task \in [Procs -> Tasks]

ServiceInit ==
    /\ Init
    /\ binary = FALSE
    /\ unit = "absent"
    /\ svc = "inactive"
    /\ running = NoConfig
    /\ cnAlive \in BOOLEAN
    /\ task = [p \in Procs |-> "none"]

Free(p) == pc[p] = "idle" /\ task[p] = "none"
Do(p, t) == task' = [task EXCEPT ![p] = t]

-----------------------------------------------------------------------------
(* The commands of MpmConfigure, run on this host *)

\* The operator prepares subscription.env; the CN nodes come and go.
Edit == EditInputs /\ UNCHANGED <<host, task>>

CnNodes ==
    /\ cnAlive' = ~cnAlive
    /\ UNCHANGED <<vars, binary, unit, svc, running, task>>

BeginCommand(p, k, e) ==
    /\ Free(p)
    /\ Begin(p, k, e)
    /\ UNCHANGED <<host, task>>

\* mihomo answers an authenticated request when it was configured with the
\* secret that is stored; it knows the CN nodes if its config has the provider.
Answer ==
    IF svc # "active" \/ running.secret # secretFile THEN "unreachable"
    ELSE IF running.cn /\ cnAlive THEN "OK"
    ELSE "DEGRADED"

AskMihomo(p) == Probe(p, Answer) /\ UNCHANGED <<host, task>>
AskInVain(p) == Probe(p, "unreachable") /\ UNCHANGED <<host, task>>
RecordVerdict(p) == RecordCnHealth(p) /\ UNCHANGED <<host, task>>

\* The steps of a configure.  One that ends early ends the install around it.
ConfigureOn(p) == Progress(p) /\ UNCHANGED host
ConfigureFails(p) == (Refuse(p) \/ Reject(p)) /\ UNCHANGED host

KeepOrEndTask(p) ==
    IF pc'[p] = "idle" /\ pc[p] # "health" THEN Do(p, "none") ELSE UNCHANGED task

-----------------------------------------------------------------------------
(* install *)

\* preflight, resolve_secrets: the secret is stored before anything else is.
Install(p, e) ==
    /\ Free(p)
    /\ Resolvable(subEnv, e)
    /\ secretFile' \in SecretChoices(subEnv, e, secretFile)
    /\ Hold(p, Blank(e))
    /\ Do(p, "supply")
    /\ UNCHANGED <<subEnv, overrides, config, planCn, health, pc, cmd, host>>

\* install_verified switches to the verified binary (--skip-download finds one),
\* and install goes on as a configure in the same environment.
Supply(p) ==
    /\ task[p] = "supply"
    /\ binary' = TRUE
    /\ Goto(p, "resolve")
    /\ Do(p, "unit")
    /\ UNCHANGED <<files, cmd, loc, unit, svc, running, cnAlive>>

\* The lock or a digest does not match: nothing is installed.
SupplyFails(p) ==
    /\ task[p] = "supply"
    /\ Finish(p)
    /\ Do(p, "none")
    /\ UNCHANGED <<files, host>>

\* The unit is written, verified (or the install ends), enabled on request.
InstallUnit(p) ==
    /\ task[p] = "unit" /\ pc[p] = "idle"
    /\ LET written == IF unit = "absent" THEN "disabled" ELSE unit
       IN  \/ unit' = written /\ Do(p, "none")
           \/ unit' \in {written, "enabled"} /\ Do(p, "start")
    /\ UNCHANGED <<vars, binary, svc, running, cnAlive>>

-----------------------------------------------------------------------------
(* start, stop, restart *)

Command(p, t) ==
    /\ Free(p)
    /\ Do(p, t)
    /\ UNCHANGED <<vars, host>>

\* An active unit is left alone.
StartUnchanged(p) ==
    /\ task[p] = "start" /\ svc = "active"
    /\ Do(p, "none")
    /\ UNCHANGED <<vars, host>>

Startable == unit # "absent" /\ config # NoConfig

\* There is nothing to start.
StartWithout(p) ==
    /\ task[p] = "start" /\ svc # "active" /\ ~Startable
    /\ Do(p, "none")
    /\ UNCHANGED <<vars, host>>

\* Another program holds a port, or systemctl start meets the start limit.
StartRefused(p) ==
    /\ task[p] = "start" /\ svc # "active" /\ Startable
    /\ Do(p, "none")
    /\ UNCHANGED <<vars, host>>

\* systemctl start; a start that is under way is joined.
StartUnit(p) ==
    /\ task[p] = "start" /\ svc # "active" /\ Startable
    /\ svc' = IF svc = "checked" THEN svc ELSE "starting"
    /\ Do(p, "ready")
    /\ UNCHANGED <<vars, binary, unit, running, cnAlive>>

\* systemctl start waits for the gate and the exec; then start polls for an
\* authenticated answer and reports it, or its absence.
Ready(p) ==
    /\ task[p] = "ready" /\ svc \notin {"starting", "checked"}
    /\ Do(p, "none")
    /\ UNCHANGED <<vars, host>>

\* systemctl stop of an active unit; any other counts as stopped.  restart goes
\* on to start.
Stop(p) ==
    /\ task[p] \in {"stop", "restart"}
    /\ IF svc = "active"
       THEN svc' = "inactive" /\ running' = NoConfig
       ELSE UNCHANGED <<svc, running>>
    /\ Do(p, IF task[p] = "restart" THEN "start" ELSE "none")
    /\ UNCHANGED <<vars, binary, unit, cnAlive>>

-----------------------------------------------------------------------------
(* uninstall *)

\* Mutant: the unit is disabled without --now.
DisableOnly(p) ==
    /\ task[p] \in Uninstalls
    /\ unit' = IF unit = "absent" THEN unit ELSE "disabled"
    /\ Do(p, IF task[p] = "dry run" THEN "none"
             ELSE IF task[p] = "purge" THEN "purge unit" ELSE "rm unit")
    /\ UNCHANGED <<vars, binary, svc, running, cnAlive>>

\* systemctl disable --now, if there is a unit, stops it in whatever state it
\* is.  A dry run skips what follows: the removals and daemon-reload.
DisableNow(p) ==
    /\ task[p] \in Uninstalls
    /\ IF unit = "absent"
       THEN UNCHANGED <<unit, svc, running>>
       ELSE unit' = "disabled" /\ svc' = "inactive" /\ running' = NoConfig
    /\ Do(p, IF task[p] = "dry run" THEN "none"
             ELSE IF task[p] = "purge" THEN "purge unit" ELSE "rm unit")
    /\ UNCHANGED <<vars, binary, cnAlive>>

RemoveUnit(p) ==
    /\ task[p] \in {"rm unit", "purge unit"}
    /\ unit' = "absent"
    /\ Do(p, IF task[p] = "rm unit" THEN "rm env" ELSE "purge binary")
    /\ UNCHANGED <<vars, binary, svc, running, cnAlive>>

\* A plain uninstall removes every secret, the config and the program; it keeps
\* overrides.d and, unlisted, state/plan.json and state/degraded.json.
RemoveFile(p) ==
    /\ \/ /\ task[p] = "rm env" /\ Do(p, "rm secret")
          /\ subEnv' = NoInputs
          /\ UNCHANGED <<secretFile, config, binary>>
       \/ /\ task[p] = "rm secret" /\ Do(p, "rm config")
          /\ secretFile' = NoSecret
          /\ UNCHANGED <<subEnv, config, binary>>
       \/ /\ task[p] = "rm config" /\ Do(p, "rm binary")
          /\ config' = NoConfig
          /\ UNCHANGED <<subEnv, secretFile, binary>>
       \/ /\ task[p] = "rm binary" /\ Do(p, "none")
          /\ binary' = FALSE
          /\ UNCHANGED <<subEnv, secretFile, config>>
    /\ UNCHANGED <<overrides, planCn, health, pc, cmd, loc, unit, svc, running, cnAlive>>

\* purge removes the project's directories one after the other.
PurgeDirectory(p) ==
    /\ \/ /\ task[p] = "purge binary" /\ Do(p, "purge etc")
          /\ binary' = FALSE
          /\ UNCHANGED files
       \/ /\ task[p] = "purge etc" /\ Do(p, "purge var")
          /\ subEnv' = NoInputs /\ secretFile' = NoSecret /\ overrides' = "none"
          /\ UNCHANGED <<config, planCn, health, binary>>
       \/ /\ task[p] = "purge var" /\ Do(p, "none")
          /\ config' = NoConfig /\ planCn' = FALSE /\ health' = "absent"
          /\ UNCHANGED <<subEnv, secretFile, overrides, binary>>
    /\ UNCHANGED <<pc, cmd, loc, unit, svc, running, cnAlive>>

-----------------------------------------------------------------------------
(* systemd *)

Supervise(next) ==
    /\ svc' = next
    /\ UNCHANGED <<vars, binary, unit, cnAlive, task>>

\* ExecStartPre.
Gate ==
    /\ svc = "starting"
    /\ IF GateAccepts THEN Supervise("checked")
                      ELSE \E next \in {"waiting", "failed"} : Supervise(next)
    /\ UNCHANGED running

\* ExecStart: mihomo loads config.yaml.
Exec ==
    /\ svc = "checked"
    /\ IF binary /\ config # NoConfig
       THEN Supervise("active") /\ running' = config
       ELSE \E next \in {"waiting", "failed"} : Supervise(next) /\ UNCHANGED running

\* mihomo fails; Restart=on-failure, until StartLimitBurst.
Die ==
    /\ svc = "active"
    /\ \E next \in {"waiting", "failed"} : Supervise(next)
    /\ running' = NoConfig

\* RestartSec=5s
RestartDue ==
    /\ svc = "waiting"
    /\ Supervise("starting")
    /\ UNCHANGED running

\* The host goes down with every command on it, and boots.
Reboot ==
    /\ Crashes
    /\ svc' = IF unit = "enabled" THEN "starting" ELSE "inactive"
    /\ running' = NoConfig
    /\ pc' = [p \in Procs |-> "idle"]
    /\ cmd' = [p \in Procs |-> "configure"]
    /\ loc' = [p \in Procs |-> Blank(NoInputs)]
    /\ task' = [p \in Procs |-> "none"]
    /\ UNCHANGED <<files, binary, unit, cnAlive>>

\* A command is interrupted.
Interrupt(p) ==
    /\ Crashes
    /\ ~Free(p)
    /\ Finish(p)
    /\ Do(p, "none")
    /\ UNCHANGED <<files, host>>

-----------------------------------------------------------------------------
\* What a command, but for uninstall, does once it is started and nothing is
\* refused.
CommandStep(p) ==
    \/ RecordVerdict(p)
    \/ ConfigureOn(p) /\ KeepOrEndTask(p)
    \/ Supply(p) \/ InstallUnit(p)
    \/ StartUnchanged(p) \/ StartWithout(p) \/ StartUnit(p) \/ Ready(p)
    \/ Stop(p)

UninstallStep(p) ==
    DisableNow(p) \/ RemoveUnit(p) \/ RemoveFile(p) \/ PurgeDirectory(p)

OperatorStarts(p) ==
    \/ \E k \in Commands, e \in Envs : BeginCommand(p, k, e)
    \/ \E e \in Envs : Install(p, e)
    \/ \E t \in {"start", "stop", "restart"} : Command(p, t)

Systemd == Gate \/ Exec

\* Everything that can go wrong, and the operator who changes his mind.
Trouble ==
    \/ Edit \/ Die \/ RestartDue \/ Reboot
    \/ \E p \in Procs :
        \/ ConfigureFails(p) /\ KeepOrEndTask(p)
        \/ SupplyFails(p) \/ StartRefused(p) \/ AskInVain(p)
        \/ \E t \in Uninstalls : Command(p, t)
        \/ UninstallStep(p)
        \/ Interrupt(p)

Calm ==
    \/ CnNodes
    \/ Systemd
    \/ \E p \in Procs :
        OperatorStarts(p) \/ AskMihomo(p) \/ CommandStep(p)

ServiceNext == Calm \/ Trouble

ServiceSpec == ServiceInit /\ [][ServiceNext]_svars

\* Only that nothing is refused, fails, is edited or uninstalled: the inputs of
\* the first install stay what they were.
CalmSpec == ServiceInit /\ [][Calm]_svars

\* The operator keeps asking for the status and keeps restarting, as status
\* tells him to; what is begun goes on.
Upkeep ==
    /\ WF_svars(Systemd)
    /\ \A p \in Procs :
        /\ SF_svars(svc = "active" /\ \E e \in Envs : BeginCommand(p, "status", e))
        /\ SF_svars(Command(p, "restart"))
        /\ WF_svars(CommandStep(p))
        /\ SF_svars(AskMihomo(p))

\* Once everything is installed, CalmSpec with Upkeep.
UpkeepSpec == CalmSpec /\ Upkeep

-----------------------------------------------------------------------------
(* Properties *)

Standing == \A p \in Procs : Free(p)
Selects(route) == running # NoConfig /\ running.route = route

\* uninstall takes the unit, and any secret or config mihomo could have loaded,
\* from under a stopped service only, however systemd was about to restart it.
RemovedOnlyWhenDown ==
    [][\/ unit' = "absent" /\ unit # "absent"
       \/ config' = NoConfig /\ config # NoConfig
       \/ secretFile' = NoSecret /\ secretFile # NoSecret
       => svc \in Down /\ running = NoConfig]_svars

\* Between commands the config.yaml on disk passes the gate: a health check
\* that changes the record also brings config.yaml along, so that a later
\* (re)start is not refused.
GateStaysOpen == Standing /\ config # NoConfig => GateAccepts

\* CN traffic does not stay on CN nodes that are dead for good, and goes back to
\* them when they are back for good.  (An update-subscription of a stopped service
\* takes them for dead, so the operator leaves that in the end.)
RoutesFollowCnNodes ==
    /\ <>[](~cnAlive) => <>[](~Selects("exit"))
    /\ <>Startable /\ <>[](cnAlive /\ \A p \in Procs : cmd[p] # "update")
         => []<>Selects("exit")
=============================================================================
