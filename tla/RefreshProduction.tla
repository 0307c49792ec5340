-------------------------- MODULE RefreshProduction --------------------------
(***************************************************************************)
(* scripts/refresh-production.ps1: a candidate provider is built, health   *)
(* checked, published over the provider mihomo uses, loaded and tried out; *)
(* when it does not serve, the previous provider is put back.              *)
(*                                                                         *)
(* The lock file is created first and removed last, with the checked       *)
(* candidate, by whatever way the script ends: also by a run that found    *)
(* the lock taken.                                                         *)
(***************************************************************************)

CONSTANTS
    Runs,        \* runs of the script that may overlap
    Providers,   \* contents of a provider file
    Missing,     \* the file does not exist
    Kills        \* whether a run may be killed, its finally block included

ASSUME RefreshAssumption ==
    /\ Missing \notin Providers
    /\ Kills \in BOOLEAN

VARIABLES
    lock,       \* subscription-refresh.lock exists
    next,       \* the health-checked candidate: $next
    healthy,    \* the provider file mihomo loads: $Healthy
    previous,   \* $previous
    loaded,     \* the content mihomo has loaded
    pc,         \* pc[r]: next step of run r
    proven,     \* history: the last content that was loaded and served
    cut         \* history: a run was killed and none has served since

rvars == <<lock, next, healthy, previous, loaded, pc, proven, cut>>

File == Providers \cup {Missing}
RefreshSteps == {"idle", "prepare", "backup", "publish", "load", "try",
                 "restore", "reload", "rm next", "rm lock"}

\* A run past its publication leaves a provider published, whatever it does.
RefreshTypeOK ==
    /\ {lock, cut} \subseteq BOOLEAN
    /\ {next, healthy, previous, loaded, proven} \subseteq File
    /\ pc \in [Runs -> RefreshSteps]
    /\ (\E r \in Runs : pc[r] \in {"load", "try", "restore", "reload"})
         => healthy # Missing

\* The first refresh, or one after a refresh that went well.
RefreshInit ==
    /\ lock = FALSE
    /\ next = Missing /\ previous = Missing
    /\ healthy \in File /\ loaded = healthy /\ proven = healthy
    /\ pc = [r \in Runs |-> "idle"]
    /\ cut = FALSE

Goto(r, step) == pc' = [pc EXCEPT ![r] = step]

-----------------------------------------------------------------------------
\* Mutant: the finally block is left out when the lock is taken.
TakeLockOrLeave(r) ==
    /\ pc[r] = "idle"
    /\ lock' = TRUE
    /\ Goto(r, IF lock THEN "idle" ELSE "prepare")
    /\ UNCHANGED <<next, healthy, previous, loaded, proven, cut>>

\* New-Item fails when the lock is there; the finally block runs all the same.
TakeLock(r) ==
    /\ pc[r] = "idle"
    /\ lock' = TRUE
    /\ Goto(r, IF lock THEN "rm next" ELSE "prepare")
    /\ UNCHANGED <<next, healthy, previous, loaded, proven, cut>>

\* update-subscription.ps1 and health-check-provider.py: either may fail, or
\* publish a provider as $next.
Prepare(r) ==
    /\ pc[r] = "prepare"
    /\ \/ next' \in Providers /\ Goto(r, "backup")
       \/ UNCHANGED next /\ Goto(r, "rm next")
    /\ UNCHANGED <<lock, healthy, previous, loaded, proven, cut>>

\* Mutant: a previous provider is kept, not overwritten.
BackupOnce(r) ==
    /\ pc[r] = "backup"
    /\ \/ /\ previous' = IF previous # Missing THEN previous ELSE healthy
          /\ Goto(r, "publish")
       \/ UNCHANGED previous /\ Goto(r, "rm next")
    /\ UNCHANGED <<lock, next, healthy, loaded, proven, cut>>

\* The selections are read, which may fail, and the provider is set aside.
Backup(r) ==
    /\ pc[r] = "backup"
    /\ \/ /\ previous' = IF healthy # Missing THEN healthy ELSE previous
          /\ Goto(r, "publish")
       \/ UNCHANGED previous /\ Goto(r, "rm next")
    /\ UNCHANGED <<lock, next, healthy, loaded, proven, cut>>

\* Copy-Item of a $next that is not there any more ends the script.
Publish(r) ==
    /\ pc[r] = "publish"
    /\ IF next # Missing
       THEN healthy' = next /\ Goto(r, "load")
       ELSE UNCHANGED healthy /\ Goto(r, "rm next")
    /\ UNCHANGED <<lock, next, previous, loaded, proven, cut>>

\* Reload-And-Restore: mihomo loads the provider, or the call fails before or
\* after that.
Load(r) ==
    /\ pc[r] = "load"
    /\ \/ loaded' = healthy /\ pc' \in {[pc EXCEPT ![r] = s] : s \in {"try", "restore"}}
       \/ UNCHANGED loaded /\ Goto(r, "restore")
    /\ UNCHANGED <<lock, next, healthy, previous, proven, cut>>

\* US-FAST has nodes and the applications answer through it, or not.
TryOut(r) ==
    /\ pc[r] = "try"
    /\ \/ proven' = loaded /\ cut' = FALSE /\ Goto(r, "rm next")
       \/ UNCHANGED <<proven, cut>> /\ Goto(r, "restore")
    /\ UNCHANGED <<lock, next, healthy, previous, loaded>>

\* The catch block; without a previous provider it only throws again.
Restore(r) ==
    /\ pc[r] = "restore"
    /\ IF previous # Missing
       THEN healthy' = previous /\ Goto(r, "reload")
       ELSE UNCHANGED healthy /\ Goto(r, "rm next")
    /\ UNCHANGED <<lock, next, previous, loaded, proven, cut>>

Reload(r) ==
    /\ pc[r] = "reload"
    /\ loaded' \in {healthy, loaded}
    /\ Goto(r, "rm next")
    /\ UNCHANGED <<lock, next, healthy, previous, proven, cut>>

\* The finally block.
RemoveNext(r) ==
    /\ pc[r] = "rm next"
    /\ next' = Missing
    /\ Goto(r, "rm lock")
    /\ UNCHANGED <<lock, healthy, previous, loaded, proven, cut>>

RemoveLock(r) ==
    /\ pc[r] = "rm lock"
    /\ lock' = FALSE
    /\ Goto(r, "idle")
    /\ UNCHANGED <<next, healthy, previous, loaded, proven, cut>>

Kill(r) ==
    /\ Kills
    /\ pc[r] # "idle"
    /\ Goto(r, "idle")
    /\ cut' = TRUE
    /\ UNCHANGED <<lock, next, healthy, previous, loaded, proven>>

-----------------------------------------------------------------------------
GoOn(r) ==
    \/ Prepare(r) \/ Backup(r) \/ Publish(r) \/ Load(r) \/ TryOut(r)
    \/ Restore(r) \/ Reload(r) \/ RemoveNext(r) \/ RemoveLock(r)

RefreshNext == \E r \in Runs : TakeLock(r) \/ GoOn(r) \/ Kill(r)

RefreshSpec == RefreshInit /\ [][RefreshNext]_rvars

-----------------------------------------------------------------------------
(* Properties *)

\* "If any step fails, the previous healthy provider is kept or restored"
\* (README.md): once a provider has served, what is published between runs is
\* the last one that did, unless a run was killed since.
PublishedServes ==
    (\A r \in Runs : pc[r] = "idle") /\ proven # Missing /\ ~cut => healthy = proven

\* A lock left by killed runs does not stop refreshes for good, once runs end by
\* themselves again.
LockComesFree ==
    <>[][\A r \in Runs : pc[r] # "idle" /\ pc'[r] = "idle" => ~lock']_rvars
        => []<>~lock
=============================================================================
