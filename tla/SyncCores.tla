----------------------------- MODULE SyncCores -----------------------------
(***************************************************************************)
(* The temporary mihomo of a sync run, under the lock of SyncLock.         *)
(*                                                                         *)
(* A run that holds the lock first clears what others left: it stops every *)
(* process whose command line shows the script's directory prefix and      *)
(* removes directories with that prefix that are old enough.  It then      *)
(* looks for free ports, makes a directory of its own, starts a mihomo     *)
(* there, measures through it and stops it.  A killed run leaves its       *)
(* mihomo running.  Cleaning up is best effort: nothing is certain to stop.*)
(***************************************************************************)
EXTENDS SyncLock

CONSTANT Ports    \* pairs of ports pick_ports tries, in order (30 in the code)

ASSUME CoresAssumption == Ports \in Nat \ {0}

VARIABLES
    work,   \* work[r]: what run r does with the lock it holds
    cores,  \* runs whose mihomo is running
    dirs,   \* runs whose temporary directory exists
    picked, \* picked[r]: the ports run r is to use
    bound,  \* bound[r]: the ports the mihomo of run r listens on
    missed  \* history: those whose mihomo did not stop when it was told to

cvars == <<work, cores, dirs, picked, bound, missed>>

NoPort == 0

CoresTypeOK ==
    /\ work \in [Runs -> {"sweep", "prepare", "start", "test", "over"}]
    /\ cores \subseteq Runs /\ missed \subseteq cores /\ dirs \subseteq Runs
    /\ picked \in [Runs -> NoPort..Ports]
    /\ bound \in [Runs -> NoPort..Ports]
    /\ \A r \in Runs \ cores : bound[r] = NoPort
    /\ \A r \in Runs : work[r] \in {"start", "test"} <=> picked[r] # NoPort

CoresInit ==
    /\ LockInit
    /\ work = [r \in Runs |-> "sweep"]
    /\ cores = {} /\ dirs = {} /\ missed = {}
    /\ picked = [r \in Runs |-> NoPort]
    /\ bound = [r \in Runs |-> NoPort]

Does(r, what, then) ==
    /\ pc[r] = "held" /\ work[r] = what
    /\ work' = [work EXCEPT ![r] = then]
    /\ UNCHANGED lvars

\* The mihomos that are left after some stopped, and the ports they keep.
Leave(running) ==
    /\ cores' = running
    /\ bound' = [r \in Runs |-> IF r \in running THEN bound[r] ELSE NoPort]

\* Is the pair of ports free?  A pair somebody listens on is not.
Free == {p \in 1..Ports : \A r \in cores : bound[r] # p}

-----------------------------------------------------------------------------
\* Mutant: the leftovers are cleared before the lock is acquired.
SweepFirst(r) ==
    /\ pc[r] = "open" /\ work[r] = "sweep"
    /\ work' = [work EXCEPT ![r] = "prepare"]
    /\ \E running \in SUBSET cores : Leave(running) /\ missed' = running
    /\ \E kept \in SUBSET dirs : dirs' = kept
    /\ UNCHANGED lvars /\ UNCHANGED picked

\* cleanup_temp_corpses.  Any of the directories may be old enough, and any
\* process or directory may resist.
Sweep(r) ==
    /\ Does(r, "sweep", "prepare")
    /\ \E running \in SUBSET cores : Leave(running) /\ missed' = running
    /\ \E kept \in SUBSET dirs : dirs' = kept
    /\ UNCHANGED picked

\* Mutant: the ports asked for are used, free or not.
PickPortsAsked(p) == p = 1

\* pick_ports: the first that are free.
PickPorts(p) == p \in Free /\ \A q \in Free : p <= q

\* no_free_port: there is no isolated test.
NoFreePort(r) ==
    /\ Free = {} /\ Does(r, "prepare", "over")
    /\ UNCHANGED <<cores, dirs, picked, bound, missed>>

\* The beginning of test_isolated
Prepare(r) ==
    /\ Does(r, "prepare", "start")
    /\ \E p \in 1..Ports : PickPorts(p) /\ picked' = [picked EXCEPT ![r] = p]
    /\ dirs' = dirs \cup {r}
    /\ UNCHANGED <<cores, bound, missed>>

\* A mihomo that finds its ports taken runs without them.
StartCore(r) ==
    /\ Does(r, "start", "test")
    /\ cores' = cores \cup {r}
    /\ bound' = [bound EXCEPT ![r] = IF picked[r] \in Free THEN picked[r] ELSE NoPort]
    /\ UNCHANGED <<dirs, picked, missed>>

\* Writing the configuration or starting fails outside the try: the directory
\* stays.
StartFails(r) ==
    /\ Does(r, "start", "over")
    /\ picked' = [picked EXCEPT ![r] = NoPort]
    /\ UNCHANGED <<cores, dirs, bound, missed>>

\* The finally block: terminate, kill, remove the directory.  A mihomo that
\* survives both is left running.
StopCore(r) ==
    /\ Does(r, "test", "over")
    /\ \/ Leave(cores \ {r}) /\ missed' = missed \ {r}
       \/ UNCHANGED <<cores, bound>> /\ missed' = missed \cup (cores \cap {r})
    /\ dirs' \in {dirs, dirs \ {r}}
    /\ picked' = [picked EXCEPT ![r] = NoPort]

\* A mihomo exits by itself.
CoreExits ==
    /\ \E r \in cores : Leave(cores \ {r}) /\ missed' = missed \ {r}
    /\ UNCHANGED lvars /\ UNCHANGED <<work, dirs, picked>>

-----------------------------------------------------------------------------
\* The lock is released in main's finally block, after the speed test, without
\* one, or after an error.
Exclude(r) ==
    /\ \/ Acquire(r)
       \/ work[r] \in {"prepare", "over"} /\ Release(r)
       \/ ReadToken(r) \/ UnlinkFile(r) \/ ReleaseMutex(r)
       \/ Die(r)
    /\ UNCHANGED cvars

CoresNext ==
    \/ \E r \in Runs :
          \/ Exclude(r)
          \/ Sweep(r) \/ Prepare(r) \/ NoFreePort(r)
          \/ StartCore(r) \/ StartFails(r) \/ StopCore(r)
    \/ CoreExits

CoresSpec == CoresInit /\ [][CoresNext]_<<lvars, cvars>>

-----------------------------------------------------------------------------
(* Properties; they need the mutex, the lock file does not keep runs apart. *)

\* The cleanup goes by names, "every live mihomo process must NEVER be touched":
\* it takes from no living run its mihomo or its directory.
SweepsSpareLivingRuns ==
    [][platform = "windows" =>
         \A q, r \in Runs :
            work[q] = "sweep" /\ work'[q] # "sweep" /\ Active(r)
              => (r \in cores => r \in cores') /\ (r \in dirs => r \in dirs')]_<<lvars, cvars>>

\* What answers on the ports a run talks to is no other run's mihomo, although
\* some outlive their run and the cleanup; and no other runs beside it, except one
\* that resisted a cleanup.
MeasuresAlone ==
    platform = "windows" =>
        \A r \in Runs :
            Active(r) /\ work[r] = "test" =>
                /\ \A q \in Runs \ {r} : bound[q] # picked[r]
                /\ cores \subseteq missed \cup {r}
=============================================================================
