# A TLA+ model of mihomo-proxy-management

This directory specifies the parts of mihomo-proxy-management whose correctness
depends on what happens *between* steps: commands that may be interrupted, runs
that may overlap, requests that may be carried out although they failed, and a
supervisor (systemd) that moves on its own. The specifications are checked with
TLC on small instances, and the results that matter most are proved with TLAPS
for all instances.

Paths below are relative to the repository root, `src/` here.

## 1. Inventory

The repository holds two programs that share a purpose (keeping a mihomo proxy
running on a changing set of nodes) and no code.

### 1.1 The Linux package, `linux/python/mpm`

A command-line tool, one process per command, no daemon of its own and no lock.

| part | state | operations | interacts with |
|---|---|---|---|
| `secrets_io` | `/etc/.../subscription.env` (read), `controller.secret` | `resolve` merges file and environment, settles and stores the secret | called by `install`, `configure`, also by check-only runs |
| `config` | none (a pure renderer and auditor) | `render`, `audit`, `load_overrides` | called by `configure` |
| `state` | `plan.json`, `degraded.json`, the backups and their index | `load_*`, `save_*`, `backup` | `configure` writes both records and backs up what it replaces, the health checks write the second |
| `lifecycle` | `config.yaml`, and the order of everything | `install`, `configure`, `start`, `stop`, `restart`, `status`, `test`, `update-subscription`, `uninstall` | every other part |
| `systemdctl`, `unit`, unit template | the unit file; systemd's own state | write, enable, start, stop, disable; `ExecStartPre` runs `configure --check-only` | systemd, which restarts mihomo on its own |
| `supply`, `supply/mihomo.lock.json` | the version directories, the geo files, the `current` link | `install_verified` | `install`; the unit runs what is behind the link |
| `preflight` | none | refuses or degrades a host | `install`, `configure`, `start` |
| `controller`, `executor`, `sanitize`, `atomicio`, `paths`, `errors` | none | transport, processes, redaction, atomic writes | everything |

What is hard: every command is a sequence of atomic file writes that may be cut
at any point or interleaved with another command; the CN health is in three
places (degraded.json, the rules of config.yaml, the rules mihomo has loaded);
the unit's gate compares the first two and refuses every start when they differ.

What makes it correct: CN traffic is never sent to CN nodes known to be dead and
never silently to the foreign exit; a DEGRADED is cleared by a health check
and by nothing else; what a successful command leaves on disk passes the gate;
a refused command locks nobody out of mihomo; no config is replaced before there is
a copy of it; only a pinned program is run; removal happens under a stopped service
only.

### 1.2 The Windows scripts, `scripts/`

| part | state | operations | interacts with |
|---|---|---|---|
| `proxy-auto-switch.py` | state file (per-group history, probe history, alert mode), the controller's selections | a scheduled *round*: read selections, probe, decide, switch, read back, alert, save | mihomo's controller, Feishu, people who select nodes |
| `sync-feishu-bitable.py` | lock file and mutex, Feishu tables, GPT history, source cache | a daily run: lock, collect sources, speed test through a temporary mihomo, look up egress regions, write three tables, save the history | Feishu, subscription sources, mihomo |
| `refresh-production.ps1` | lock file, `$next`, `$Healthy`, `$previous`, what mihomo has loaded | build, check, back up, publish, reload, try out, roll back | `convert_sub.py`, `health-check-provider.py`, mihomo |
| `convert_sub.py`, `update-subscription.ps1` | the provider file it replaces | parse, map, merge, gate, write | subscription sources |
| `health-check-provider.py` | a temporary mihomo | probe every candidate, intersect, write | mihomo |
| `install.ps1`, `start.ps1`, `stop.ps1`, `status.ps1`, `uninstall.ps1`, `lib/common.ps1` | the Windows host | straight-line host administration | scheduled tasks, processes |
| `lib/check_group_refs.py`, `config/config.yaml.template` | none | static check of a static template | |

What is hard: runs overlap (a scheduled one and one by hand); the controller or
Feishu may do what it did not confirm; a run dies between a side effect and the
record of it; histories are counted over rounds and any of them may be lost.

What makes it correct: a group is not moved without need, too soon, blindly or to
a worse region; it comes to rest on the best node there is; alerts are news; one
sync at a time works on the tables, which are never emptied, and clears away what
dead ones left without touching a living one; a node counts as usable only after
its passes in a row, under whatever name; the published provider is the last one
that served, and a refresh leaves the selections as they were.

## 2. The modules

Each module models whole handlers: one action per step between two interactions
with something shared (a file, systemd, the controller, Feishu). `PROJECT.json`
maps every definition to its source lines; the properties come last in each
module. Definitions marked *Mutant* are deliberate mistakes next to the definition they
distort; no specification uses them. They show that the properties notice such a
mistake.

### `MpmConfigure` (+ `MCMpmConfigure`, `MpmProofs`)

`configure`, `configure --check-only`, and the writing half of the health checks.
A process `p` is a command; `pc[p]` its next step, `loc[p]` what it has read:

    resolve -> render -> load -> (replace) -> plan -> health -> idle
    probe -> record -> resolve -> ...        (status, test, update-subscription)

| variable | in the code |
|---|---|
| `subEnv`, `overrides` | `subscription.env`, `overrides.d` (edited by the operator at any moment) |
| `secretFile` | `controller.secret`, written by `secrets_io.resolve` |
| `config` | `config.yaml`: is CN configured, which CN rule is rendered, which secret, what `overrides.d` has added |
| `planCn`, `health` | `plan.json`, `degraded.json` |

`configure` loads degraded.json twice, once to render and once for the record it
leaves; both loads are steps of their own. URLs are abstracted to whether they
are there, and what `overrides.d` adds to how it stands to the CN rules (`Additions`):
settings and rules unrelated to CN are one value (`other`), a CN rule to `CN-EXIT` or
`REJECT` is accepted only where the rendered one says the same (`Accepted`), and all
else is refused. The gate and the no-op test compare the whole text, and so the whole
record `Config`. mihomo's verdict on a candidate (`Replace`/`Reject`) is a choice.

### `MpmBackup` (+ `MpmProofs`)

EXTENDS `MpmConfigure` by the steps of `state.backup`, which stand between mihomo's
verdict and the replacement of config.yaml: `Copy`, `Prune` (one removal at a time),
`WriteIndex`. Names stand for seconds: a copy gets a name nobody has, or that of the
last copy. `copies[n]` says whether the copy is of config.yaml as it stands (`current`)
or of an earlier one, which is all the properties ask. A step of `MpmConfigure` goes
along with `Around`, which lets no replacement happen before its backup is done.
`MCMpmConfigure` instantiates this module, so that every property of `MpmConfigure` is
checked with the backups in place.

### `MpmService` (+ `MCMpmService`, `MpmProofs`)

EXTENDS `MpmConfigure` by the host: `binary`, `unit`, systemd's state `svc`, the
configuration mihomo has loaded (`running`) and whether the CN subscription has a
live node (`cnAlive`). `task[p]` is what the surrounding command of `p` does
next: `install` runs `Supply`, then a whole configure, then writes the unit and
may start it; `restart` is `Stop` then the start steps; `uninstall` removes file
after file. systemd's own moves are `Gate` (ExecStartPre), `Exec`, `Die` and
`RestartDue`; `Reboot` ends every command. What a health check sees is no longer
free: `Answer` is computed from what mihomo has loaded.

### `MpmSupply` (+ `MCMpmSupply`, `MpmProofs`)

EXTENDS `MpmService` by what is behind its `Supply`: `Fetch` (all downloads and all
checks), `MoveBinary`, `MoveGeo` for each geo file, and the switch of the link, which
happens in the step `Supply` itself. Content is named by the version it is pinned for;
a download may bring anything. `Checkout` changes the lock file under everything.
Every other step of the host goes along with `Follow`, which keeps track of what mihomo
was started from (`executed`).

### `SwitchDecision` and `GroupSwitch` (+ `MCGroupSwitch`, `GroupSwitchProofs`)

`SwitchDecision` is `decide_group`, `plan_switches` and the two histories as
operators: probe samples, median, margin, streak, dwell, the rules of MUSE. The median
is taken of a set of samples by counting those below it, so that nothing is sorted; the
smoothed delay is part of a node's record. Time
is kept as ages in half-hour rounds, cut where nothing distinguishes them, so that
a state does not contain a clock. `GroupSwitch` runs rounds with it on one select
group: `Start` (read, probe, decide), `Put` (a request that may fail in two
ways), `Save` (read back, advance, write). Around it probes change, the
subscription is refreshed, somebody selects by hand, the run dies, the file is
lost. `setting`, chosen in the initial state and never changed, says which group it
is, in which modes its rounds run and which of these may happen, so that one run
of TLC covers all. `held` is a history variable, the true time since the group
last moved, which the code can only estimate.

### `OutageNotice`, `FailoverAlert` (+ `FailoverAlertProofs`)

`OutageNotice` is the abstract promise of the alerts: each one is news, a recovery
follows an outage the reader was told of, as long as nothing disturbed them.
`FailoverAlert` is what a run does with the state file: probe, read, alert, save,
with overlapping and killed runs. The history variable `mishap` remembers the worst
that has happened: a *suspect* round that kept news back, or a *fault* (two runs at
once, a killed run, a lost alert). `AlertsAreNews` is the refinement:
`FailoverAlert` implements `OutageNotice` with `disturbed` read as "a mishap
happened".

### `SyncLock` (+ `SyncLockProofs`)

The single-instance lock, both platforms in one module (`platform` is chosen in the
initial state). The lock file is the run
that created it; whether its payload is there yet is `written`. A run that dies
leaves the file and gives up its kernel mutex.

### `SyncCores` (+ `MCSyncCores`)

EXTENDS `SyncLock` by what a run does with the lock: it clears what others left
(`Sweep`), finds free ports and makes a directory (`Prepare`), starts its mihomo,
measures and stops it. A run that dies leaves its mihomo running; `cores`, `dirs` and
`bound` say what of whom is left, `missed` (a history variable) which mihomos
resisted. Ports are pairs tried in order; a mihomo that finds them taken runs without.

### `TableReplace` (+ `MCTableReplace`, `TableReplaceProofs`)

`replace_records`: list, create chunk by chunk, delete batch by batch, each
request possibly failing before or after it took effect, any number of runs
overlapping.

### `GptGate` (+ `SyncRoundProofs`)

A round of the GPT gate: measure, derive the passes in a row, write the two
tables, save the history. A table write is one step here; what a write does in
detail is `TableReplace`. `passes` is a history variable with the true count, and
`forgotten` one with the nodes whose last failure was measured by a round that
ended without saving the history.

### `SyncRound` (+ `MCSyncRound`, `SyncRoundProofs`)

EXTENDS `GptGate` by the rest of a round: `Collect` downloads every source, falls back
on its cache, writes the caches it may and builds the pool (`AddNode`, `FreeName`);
`Test` measures the pool, `LeaveUntested` does not; `WriteKeys` chooses the tables of
the round's mode, which are written one after the other. Each kind of source has its
own rule for the cache (`Kinds`): source 1 reads a file somebody else writes, 2 and 3
need a URL for their own, source 4 is its cache. The gate counts by *names*; `naming`,
chosen in the initial state, says how each source calls the endpoints and what the
production config.yaml calls them, which renames the nodes of source 4
(`align_source4_names`); a name is a sequence of numbers, so that a suffix makes a new one
of it. The history variable `proved` counts passes of the *endpoints*. `ImplementsGate` is the
refinement: whatever sources, caches and modes do, history and region table only go
through the steps of `GptGate`.

### `RefreshProduction` (+ `RefreshProofs`)

`refresh-production.ps1` step by step, the `finally` block included, which also
runs when the lock is taken. `proven` is a history variable: the last content
that was loaded and answered. So is `cut`: a run was killed and none has served since.

### `MergeProxies`, `RefreshPipeline` (+ `MCRefreshPipeline`, `RefreshProofs`)

`MergeProxies` is `merge_proxies` as operators: deduplication by key and names of
their own, names being sequences of numbers again, one for each suffix.
`RefreshPipeline` EXTENDS `RefreshProduction` with a provider being a set of nodes:
`Convert` merges the sources that answer and applies the minimum gate,
`HealthCheck` keeps the nodes that answer every target, `BackupSelected` reads the
selection, `LoadSelected` and `ReloadSelected` put it back by name while `Select` (the
auto-switch, or a user) selects as it likes. `ImplementsRefresh` is the refinement:
both candidate steps together are `Prepare`, everything else is the step of the same
name. `delivered` (the nodes of the sources that answered this run) and `kept` (nobody
interfered with the selection) are history variables.

### `DataLemmas`

What several proof modules need to know of naturals, finite sets, recursive functions and
sequences. It models nothing.

## 3. What is checked

Every property of a passing run has a mutant in `PROJECT.json` that breaks it. All type
invariants are proved; those of the composed modules are checked as well: `GroupTypeOK`,
`SupplyTypeOK` (with `ServiceTypeOK`), `PipelineTypeOK` (with `RefreshTypeOK`) and
`RoundTypeOK` (with `GateTypeOK`).

### Runs that pass

| run | instance | shows |
|---|---|---|
| ConfigureSeq | 1 process, 2 secrets, 3 environments, 2 file contents, everything `overrides.d` may add, 3 names of copies, a window of 2, crashes | `OnlyHealthCheckClears`, `OnlyVerdictBreaksAgreement`: the health in config.yaml and the recorded one part only by a verdict; `ConfigurePassesGate`, `PlanDescribesConfig`: a configure leaves what the gate accepts and a plan that fits it; `OnlyGivenSecretLocksOut`: CLI and mihomo disagree on the secret only after a run that was given one; `ReplacedIsKept`, `IndexDescribesCopies`: the backups |
| ServiceTrouble | 1 process, 1 secret, 2 versions, overrides that add, do not or are refused, crashes, reboots, lock files that change | `RemovedOnlyWhenDown`; `RunsWholeVersions`: only a pinned program is run, and the link is switched to complete versions |
| ServiceUpkeep | nothing refused, nothing edited, fair | `GateStaysOpen`; `RoutesFollowCnNodes`: mihomo comes to route CN as the CN nodes are |
| GroupSafety | 3 nodes in 2 regions, streak 2, dwell 3, members come and go, one node of another group; settings: thresholded with failing requests and a lost file, thresholded with killed runs, legacy and thresholded beside manual selections, MUSE in all modes | `MarginSwitchHadDwell`, `NoDowngradeOfLiveNode`, `MovesToFitNodes` |
| GroupRest | the same nodes; a group of its own and MUSE, thresholded, requests fail, fair | `SettlesOnBestTier`: the group comes to rest, off a dead node, on a living one of the best region that has any; MUSE does when a US node lives |
| Alerts | 2 runs, all modes, kills, losses | `AlertMatchesMode` (always), `ReaderKnows` (without faults), `AlertsAreNews` (without mishaps: the refinement of `OutageNotice`) |
| Lock | both platforms, 3 runs, 2 attempts, 2 pairs of ports, deaths anywhere | `SingleInstance`, `UnlinksOwnFile` (Windows), `LeftoversTakenOver` (both); on Windows also `SweepsSpareLivingRuns`, `MeasuresAlone`: a cleanup by name touches no living run, a run measures through its own mihomo and beside no other |
| Refresh | 1 run at a time, 4 sets of sources, kills, an auto-switch, fair | `PublishedServes`, `LockComesFree`; `CandidatesToldApart`, `PublishesFreshNodes`, `SelectionSurvives`; `ImplementsRefresh` (the refinement of `RefreshProduction`) |
| ReplaceTable | 4 runs with 2, 1, 1 and 0 chunks | `NeverEmptied`, `SuccessLeavesOwnRows` |
| Gate | 2 endpoints and an info row, 4 sources, 3 setups of names and caches, 3 modes, 2 passes required, every failure, fair | `UsableAfterPassesInARow`, `UsableEndpointPassed`, `DelaysAreMeasured`, `PassingNodeUsable`; `ImplementsGate` (the refinement of `GptGate`) |

### Runs that find a disagreement with a doc or comment

Each checks one sentence of the repository against its code and finds a behaviour
that contradicts it. `PROJECT.json` quotes the sentence ("findings").

| run | sentence | behaviour found |
|---|---|---|
| ConfigureRace | a configure never resets DEGRADED | two commands at once: it writes the OK it loaded before |
| RefreshOverlap | the previous healthy provider is kept or restored | a refused run removes the lock of the one that holds it |

### What the properties' conditions leave out

The modules contain the following behaviours of the code; the properties leave them
out, most by a condition that is needed: TLC finds the behaviour when it is dropped.

| behaviour | left out by |
|---|---|
| a run that was given a secret and is refused later on has already replaced `controller.secret`; `configure --check-only` stores it too | `OnlyGivenSecretLocksOut` names these runs |
| the backups of two commands prune each other's copies | the run: one command at a time |
| a killed install leaves new geo files beside the old binary, and its staging directory | `RunsWholeVersions` asks for whole files and versions at the switch of the link |
| an install over an active unit leaves the old program running | `RunsWholeVersions` asks for a pinned version, not for the current one |
| a temporary mihomo that resists its run and the cleanup goes on running | `missed` |
| when two nodes are called alike, a source that fails moves the suffixes, and with them the passes and the selections | `NamesDiffer` in `UsableEndpointPassed`, `SelectionSurvives` and `PassingNodeUsable` |
| an endpoint that two sources call differently, or one source and config.yaml, changes its name and starts over when the first of them fails or comes back | `OneName` in `PassingNodeUsable` |
| an answer without usable nodes overwrites the cache of its source | `Undisturbed` asks for answers that name the node |
| a selection made while a refresh works is overwritten | `kept` |
| keys given in one command's environment only are missing in the next re-render, and in the unit's gate | `InputsAsResolved`, `NoEnvs` |
| a re-render that is refused after a changed verdict is not tried again while the verdict stays; a CN rule in `overrides.d` makes every such re-render refused | `CalmSpec` |
| an edit of `subscription.env` or `overrides.d` after the render shuts the gate until the next configure | `InputsAsResolved` |
| killed between config.yaml and plan.json, a configure leaves a plan that no longer fits | `PlanDescribesConfig` speaks of configures that get to their last write |
| a reinstalled host starts from the CN health of the removed one | nothing is claimed of it |
| two sessions of one Windows host do not share the mutex, which is named `Local\` (`sync-feishu-bitable.py:457`) | the model: all runs are of one session |
| a refresh whose `Copy-Item` fails (`refresh-production.ps1:66`, `:78`) | the model (§5) |
| `stop` takes a unit that waits for its automatic restart for inactive; a dry-run `uninstall` disables the unit | the service property, `RemovedOnlyWhenDown`, is about removals |
| a selection by hand while a round decides does not reset the dwell of that round | `KnowsItsSwitches` |
| a killed round does not record its switch | `KnowsItsSwitches` |
| a MUSE round that found its node gone may choose any living member, and moves the group there even if somebody has selected a member by hand meanwhile | `loc.cur \in members` in `MovesToFitNodes` |
| after a suspect round that kept an outage back, a recovery nobody waits for is announced | `mishap = "suspect"` |
| two runs alert the same outage, a killed run alerts again, a lost alert is recorded as given | `mishap = "fault"` |
| on POSIX a lock file without content yet is taken over, and a release may unlink the file of a run that took over in between | `platform = "windows"` |
| a round whose table write fails, or that is killed, forgets the failures it measured | `forgotten` |
| `restart` stops first, so that a refused start leaves a service down that ran | nothing is claimed of how long it is down; `GateStaysOpen` keeps the gate from refusing |
| in a legacy round, mode A counts the US nodes of all groups: a group without any stays on a dead node | `SettlesOnBestTier` is checked with thresholded rounds |
| a killed refresh leaves an unproven provider published | `cut` |

### Bounds and why they are enough

- *Processes and runs.* One where the code assumes a single operator or one
  scheduled task; two or three where overlap is the question. Two racing runs show
  every race of the lock except a takeover during a release, which takes a third.
  A run that sweeps must be able to meet what two others left, and both pairs of
  ports taken: three again. For the table, failed runs before, beside and after a
  good one take three, and a fourth has no rows to write. Two alerting runs show
  each order of two reads and two saves.
- *Secrets and inputs.* Two secrets tell a stale from a current copy; inputs with
  and without CN, in file and environment, are all the renderer distinguishes.
  `Extras` is what the operator may write to `overrides.d`: all of `Overrides` in
  ConfigureSeq. One `other` tells added text from none, and `other`, `exit` and `reject`
  one addition from another.
- *Copies.* The window of the index is 2 instead of 3 and there is a name more, so that
  copies are pruned and killed backups leave copies beside a full window.
- *Versions.* Two: one replaces the other and an older one is checked out again.
- *Sources and names.* One source of each kind of cache and one without a URL; names
  that are alike, apart, missing, what a suffix would make of another, or set right by
  config.yaml; that config.yaml has a third name is left to the proof. Required passes
  are 2, the least that distinguishes a pass from passes in a row. Sources of the refresh
  are two, the least of which one may fail while another decides a name.
- *Symmetry.* The names of copies in ConfigureSeq and the runs in Lock are
  interchangeable: neither module compares them or picks one, and these runs check no
  liveness.
- *Nodes.* Two US nodes compete for speed, the third is the worse region; the
  decision compares nodes pairwise and by region. Delays are chosen around the
  margin (400 and 900 against 1000: one leads by it and one does not).
- *Ages* (`MinDwell`, `SampleMaxAge`, `PruneAge`) are scaled down to a few rounds;
  `Older` cuts ages where the code compares them for the last time. `SampleKeep`
  is 2 so that a history is trimmed.
- *`MaxStreak`* = 2 cuts the count of all-dead rounds at the 2 that the code
  compares it with; streaks are cut at the required number.
- *`Attempts`* = 2 as in the code.

### Fairness and why the code justifies it

- `Upkeep`: systemd goes on (weak); the operator goes on asking for the status and
  restarting, as status tells him to (strong: each command is possible again and
  again, not continuously, because another one may run); a begun command goes on
  (weak). Nothing fair is assumed of failures and uninstalls, which `CalmSpec` leaves out.
- `GroupFairness`: the scheduled task runs (weak on the round); a request that is
  tried again and again succeeds again and again (strong on `Put(TRUE, TRUE)` and
  `Save(TRUE)`). Probes and members stop changing only as a premise of the property.
- `FairPipelineSpec`: a begun refresh goes on (weak), and somebody goes on starting them
  (weak). The second is a premise on the environment: no script of the repository
  registers a task for it.
- `FairRoundSpec`: the daily task starts a sync again and again (strong, because rounds by
  hand in another mode may be running whenever it is due) and a begun round goes on
  (weak). Kills and failed writes are never required to stop, except as a premise of the
  property; downloads may fail for ever.

`CHECK_DEADLOCK FALSE` is used for the lock and the table, whose runs happen
once each, so that the system stops when all are over.

## 4. What is proved

TLAPS checks these for every value of the constants that satisfies the modules'
assumptions.

Between them the theorems state every invariant, every action property and every
refinement that a run checks; the four liveness properties stay with TLC.

**`MpmProofs`: configure.** `TypeCorrect` holds for any number of concurrent
commands; its invariant `TypeInv` adds `Settled`, that a process past `resolve`
has a real secret, without which a rendered configuration is not a configuration.
The other theorems assume `SingleOperator` (run *ConfigureRace* shows why):
`RunInv` states, for each step of the one command, what its locals still say
about the files (`Owned`: from `load` on the overrides it loaded are accepted by what
it rendered and the record it will leave is the one it rendered for, from `plan` on
config.yaml is what it rendered). It is inductive
because no other command writes and the operator's edits touch neither config.yaml
nor degraded.json; a crash forgets the locals. From it follow
`OnlyHealthCheckClearsThm` and `OnlyVerdictBreaksAgreementThm`.
`PlanDescribesConfigThm` adds `PlanInv`, that past `plan` plan.json is what the run
resolved; with `RunInv`, which says the same of config.yaml, the two fit.
`OnlyGivenSecretLocksOutThm` needs `SecretInv`: past `resolve` the run's secret is the
stored one, and there is one as soon as there is a config.yaml.
`ConfigurePassesGateThm` takes both, and `RecordRendersAlike`: a config.yaml rendered from
the record a run leaves is the one rendered from the record it loaded, so that the gate,
which renders from the first, finds what the run wrote; what `overrides.d` adds is part of
both, unchanged since the run loaded it and accepted then (`Owned`).

**`MpmProofs`: backups.** `BackupsImplementConfigure`: a behaviour with backups is one of
`MpmConfigure`, because a step of the backup stutters and every other one is a step of
it; so its theorems hold with the backups in place. `ReplacedIsKeptThm` assumes a single
operator (`Copies`: from its copy to its replacement the run's own copy is there and of
config.yaml as it stands; pruning spares it because `Kept` names it).
`IndexDescribesCopiesThm` adds `WindowExists` (what the next index keeps of this one exists) and `Pruned`
(once the pruning is over, only what the index will name does). Both hold for any
`Names` and `Keep`, names reused within a second included. `BackupTypes` assumes nothing
of the number of commands.

**`MpmProofs`: the service.** `ServiceTypes` and `FileSteps` (every step of the service is a
step of configure, one of the host's own, or a reboot) take the types over to the host for
any number of commands. With a single operator, `RemovedOnlyWhenDownThm` follows from
`DownInv`: the unit is active exactly when mihomo has a config; a unit that is absent or
being uninstalled is down; nothing that systemd does alone starts it. It allows
every input, failure and reboot. `GateStaysOpenThm` is about calm (`CalmSpec`: nothing
refused, nothing edited) and assumes that keys come from subscription.env and not from a
command's environment. What is in the file does not matter, nor how the CN nodes come and
go. `CalmInv` says that resolving again would settle on the stored secret, that a running
command has resolved what any other would, and that config.yaml is what the gate would
render (`Match`) unless a command is on its way to replace it (`Syncs`): a health check
that has recorded another verdict does not end before it has.

**`MpmProofs`: the supply.** `ImplementsServiceThm`: install_verified step by step is the
service of `MpmService`. `SupplyTypes` holds for any number of installs and uninstalls
beside each other; its invariant contains the one fact that connects the two modules, that
the program is there exactly when the link names a version. `RunsWholeVersionsThm`, for a
single operator and any versions, downloads and kills, rests on `WholeInv`: an install has
only verified files and those it has moved stay where they are (`MovedSoFar`), the linked
version is whole, and what mihomo runs is pinned. Without `SingleOperator` the geo files
of two installs may mix.

**`GroupSwitchProofs`.** All four theorems hold for any nodes, tiers, thresholds, delays,
memberships, gaps and settings. `GroupInv` says that a round that is to move the group
has a target that is alive and of the best living tier, and a US node where MUSE requires
one (`PutFits`: members and probes are read and used within a round), and, of rounds that
know their own switches, that the state file's node has run for at least as long as the
file says (`DwellKnown`). `GoodDecision` is the contract of `decide_group`: a switch goes
to such a target, and one for speed alone only after the dwell. It needs that a best node
exists (`Firsts`, `FirstOfAll`: a set of nodes has a first one by smoothed delay and then
by name) and that there is a k-th smallest delay for every k (`RankedIsDelay`), so that a
smoothed delay is a number.

**`SyncLockProofs`.** `LockTypes` on every platform, `SingleInstance` and
`UnlinksOwnFile` (which speak of Windows), for any number of runs dying anywhere. The
invariant `LockInv` says that on Windows a run in any step that may touch the lock
file owns the mutex (`OwnerOnly`), which has one owner; that a waiting run has a
handle of it and does not own it (`WaitersHandle`), so that its refusal takes no
owner's handle away; and that a run stops before its tries are used up (`TriesLeft`).
`LeftoversTakenOverThm`, on both platforms, adds `LoneInv`: a run without competitors
finds a file of nobody alive, has two attempts left when it does, and one when it comes
back to a place that is empty. It assumes `Attempts > 1`; the code has two
(`sync-feishu-bitable.py:626`), and with one the first file left behind would refuse
every run.
`CoresImplementLock` takes all of it over to `SyncCores`. There `CoresInv`
gives `WindowsMeasuresAlone` and `WindowsSweepsSpareLivingRuns` for any number of runs,
ports and resisting cores: a run has neither core nor directory before its own cleanup
(`FreshRuns`), a run that is to measure holds the lock or is dead (`TestsHeld`), and
beside the one that holds it there are only cores that resisted, none of which listens
on the ports it picked (`OwnerAlone`).

**`TableReplaceProofs`.** `TableNeverEmptied` for any number of runs, rows and
failures. The invariant `ReplaceInv`: some row is in the list of no run that is
deleting (`Unlisted`), and the chunks a run has still to create are neither in the
table nor in anybody's list (`Fresh`), so that the request that starts a deletion
leaves a new row nobody knows. `ReplaceTypes` is its type invariant.
`SuccessLeavesOwnRowsThm`: a run that nobody has worked beside (`apart`) has the table to
itself (`HasTable`: the table is what it has listed and what it has made, which are apart),
whatever failed runs had left in it.

**`FailoverAlertProofs`.** `AlertTypeCorrect`, and `AlertMatchesModeThm` for any number
of overlapping and killed runs: the property of the file is carried through the locals of every run
between its read and its save (`MatchInv`). `ReaderKnowsThm` and the refinement
`AlertsAreNewsThm` need two more invariants. `ToldInv`: without a fault at most one run
is active, it decides on the state file as it is, and the file (or what the run is
about to save) names the reader's last alert. `OutageTold`: when no news was held
back, an outage on record was alerted as one, so that the recovery that follows it
is news.

**`SyncRoundProofs`: the gate.** `GateTypes` and `UsableAfterPasses`. The invariant `GateInv` says that
the history, and what a round is about to save, count no more passes than were measured, of every node
that is not `forgotten`; a round that measured a failure suspends the first half
until it has saved.

**`SyncRoundProofs`: whole rounds.** `RoundTypes`, and the refinement `ImplementsGateThm`: every
step of a round is one of the gate or leaves it alone, whatever sources, caches, pools and
modes do; so `UsableAfterPasses` holds of whole rounds. `DelaysAreMeasuredThm` needs
`KeysAfterTest`: only a round that measured has the table of nodes among those it is to
write. `UsableEndpointPassedThm` needs that the pool has every endpoint once and, where
no two are called alike, under a name of its own (`GoodPool`); then a name has no more
passes than its endpoint (`ProvedByName`), although the endpoint may go by another name
whenever another source is the first that has it. That the pool is good is an induction over
the rows it is built from, and that a free suffix exists is a counting argument
(`FirstFreeSuffix`). The assumptions are on the constants: finitely many endpoints, and
`Nodes` contains the names that suffixes make.

**`RefreshProofs`.** `RefreshTypes` holds for any number of overlapping runs.
`SingleRunPublishesServing` assumes `SingleRun` (run *RefreshOverlap* shows why): `Kept` says
where the provider that served is at each step: still published, or set aside in
`$previous`, or both. `PipelineTypes` and the refinement `ImplementsRefreshThm` hold for
any number of runs again, so that `SingleRunPublishesServing` holds of the whole pipeline. The others
assume `SingleRun`. `CandidatesToldApartThm` and `PublishesFreshNodesThm` rest on
`CandidateInv` (a candidate of this run has no key its sources did not deliver, names its
nodes apart, and leaves a delivered name to its node), hence on an induction over
`merge_proxies` (`MergedFrom`). `SelectionSurvivesThm` adds `OfferedInv` (where
the sources name their nodes apart, every node anywhere is one that was offered) and
`SelectionInv`. The assumption that merging the sources gives one of `Providers` says only
that the constant is large enough.

**`DataLemmas`.** The library's induction theorems take an operator, which no installed
prover can instantiate. Induction over the naturals is stated with a *set* here (`NatInd`:
a set of naturals with 0 and all successors has them all, from the library's theorem that
< is well-founded), which every backend can use. From it come the existence of functions
defined by recursion (`RecursionExists`), the finiteness of images, the first free suffix
and the types of flattened sequences; so no module proved about declares a RECURSIVE
operator.

**What the attempts found.** Several definitions were wrong or too strong in corners no
run visited, and were corrected:

- `MovesToFitNodes` said of MUSE that it moves to US nodes even where somebody selects a
  member while a round that found its node gone decides; the code does not do that, and
  the property now says which reading it is about.
- The history `delivered` listed everything the sources offer; it is now what the
  sources that answered this run offered, as the proof of `PublishesFreshNodes` needs.
- "The sources name their nodes apart" compared names in one direction; one key with two
  names slipped through. It is now an equivalence.

**Only model-checked:** the liveness properties (`RoutesFollowCnNodes`,
`SettlesOnBestTier`, `LockComesFree`, `PassingNodeUsable`), which need ENABLED and fairness, out
of the prover's reach; and that the properties are not empty, which the mutants show.

## 5. What is not modelled, and why

- Parsing and mapping of subscriptions, the rendered text beyond the CN rules, the
  secret and what `overrides.d` adds, report and log texts, redaction: data without control. Their outcome is a choice
  (a list of nodes, a refusal) of the modules that use them.
- Downloads, HTTP clients, process spawning: an unanswered or failed request is an
  alternative of the action that sends it.
- The Windows host scripts: their state is the host's.
- Of the sync: page probes and egress lookups (columns of a table), the provisioning of
  tables (run once), `--limit` and `--dry-run`, the list of nodes the live mihomo has
  under the pool's names, and caches that hold the text of URIs instead of nodes, which
  never yield a node (`sync-feishu-bitable.py:1698` looks for a mapping in what is a
  text).
- Of `convert_sub.py`: `--suffix`, `--list` and the single-source mode, which the refresh
  does not use. Of `health-check-provider.py`: its temporary mihomo, whose fixed ports are
  tested but not reserved, so that a leftover or a second refresh makes the check fail.
- That the geo files are pinned by digest under the moving tag `latest`
  (`mihomo.lock.json:17`): once they move, every install is refused, as one of the
  refusals of `SupplyFails`.
- Failures of the file system: a removal that is refused in a backup, a full disk, a copy
  of a file that is there (`Copy-Item` at `refresh-production.ps1:66` and `:78`).

## 6. Plan

Done, most important behaviour first: `MpmConfigure` and its proofs, `MpmService`,
`SwitchDecision` and `GroupSwitch`, `FailoverAlert` over `OutageNotice`, `SyncLock`,
`RefreshProduction`, `TableReplace`, `GptGate`; then what composes with them:
`MpmBackup`, `MpmSupply`, `SyncCores`, `SyncRound` over `GptGate`, `MergeProxies` and
`RefreshPipeline` over `RefreshProduction`. The composed modules are checked in place of
the ones they extend, so that there is one run for each component.

The proofs cover every safety property of the runs. What is left are behaviours next to the
model rather than in it: the line formats of `convert_sub.py`, the degradations of
`preflight`. Each would be another choice of an existing action; the invariants above say
where it would have to fit in.
