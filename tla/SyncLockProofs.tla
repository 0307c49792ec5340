--------------------------- MODULE SyncLockProofs ---------------------------
(***************************************************************************)
(* On Windows the lock keeps its promises for any number of runs, however  *)
(* they fail or die: the mutex has one owner, an owned mutex has a handle  *)
(* (so it is not created a second time), and only its owner is between     *)
(* acquire and release.  Elsewhere both promises are broken; the type      *)
(* invariant holds on every platform, and on every platform a run with     *)
(* nobody to compete with takes over what killed runs left behind.         *)
(*                                                                         *)
(* From this follows what the runs may do to each other's temporary        *)
(* mihomo: a run that acquires has none yet, and of those that have one    *)
(* only one is alive.                                                      *)
(***************************************************************************)
EXTENDS SyncCores, TLAPS

\* A run that has not given up may still try to create the file.
TriesLeft ==
    \A r \in Runs : pc[r] \in {"new", "open", "inspect", "takeover"} => tries[r] > 0

\* Who waits for the mutex has a handle of it and does not own it.
WaitersHandle ==
    \A r \in Runs : pc[r] = "wait" => r \in handles /\ mutex # r

\* On Windows no run is on the path of the other platforms, the run that got the
\* mutex is the one that owns it, and the run that removes the file found its
\* own token in it.
OwnerOnly ==
    platform = "windows" =>
        \A r \in Runs :
            /\ pc[r] \notin {"inspect", "takeover", "write"}
            /\ pc[r] \in {"meta"} \cup Holding <=> mutex = r
            /\ pc[r] = "unlink" => file = r

\* Elsewhere no run has to do with the mutex.
NoMutex ==
    platform # "windows" => mutex = None /\ \A r \in Runs : pc[r] \notin {"wait", "meta"}

LockInv == LockTypeOK /\ TriesLeft /\ WaitersHandle /\ OwnerOnly /\ NoMutex

LEMMA LockInvAtInit ==
  ASSUME LockAssumption, LockInit
  PROVE  LockInv
BY DEF LockAssumption, LockInit, LockInv, LockTypeOK, TriesLeft, WaitersHandle,
       OwnerOnly, NoMutex, Acquiring, Holding, Over

LEMMA LockInvPreserved ==
  ASSUME LockAssumption, LockInv, [LockNext]_lvars
  PROVE  LockInv'
<1> USE DEF LockInv, LockTypeOK, TriesLeft, WaitersHandle, OwnerOnly, NoMutex,
            LockAssumption, Acquiring, Holding, Over, Goto
<1>1. ASSUME NEW r \in Runs, Start(r)
      PROVE  LockInv'
  BY <1>1 DEF Start
<1>2. ASSUME NEW r \in Runs, CreateMutex(r)
      PROVE  LockInv'
  \* Without a handle nobody owns the mutex.
  <2>1. CASE handles = {}
    <3>1. mutex = None
      BY <2>1
    <3> QED
      BY <1>2, <2>1, <3>1 DEF CreateMutex
  <2>2. CASE handles # {}
    BY <1>2, <2>2 DEF CreateMutex
  <2> QED
    BY <2>1, <2>2
<1>3. ASSUME NEW r \in Runs, WaitMutex(r)
      PROVE  LockInv'
  <2>1. CASE mutex = None
    BY <1>3, <2>1 DEF WaitMutex
  <2>2. CASE mutex # None
    BY <1>3, <2>2 DEF WaitMutex
  <2> QED
    BY <2>1, <2>2
<1>4. ASSUME NEW r \in Runs, WriteMeta(r)
      PROVE  LockInv'
  BY <1>4 DEF WriteMeta
<1>5. ASSUME NEW r \in Runs, CreateFile(r)
      PROVE  LockInv'
  BY <1>5 DEF CreateFile
<1>6. ASSUME NEW r \in Runs, InspectHolder(r)
      PROVE  LockInv'
  BY <1>6 DEF InspectHolder
<1>7. ASSUME NEW r \in Runs, TakeOver(r)
      PROVE  LockInv'
  BY <1>7 DEF TakeOver
<1>8. ASSUME NEW r \in Runs, WritePayload(r) \/ WriteFails(r)
      PROVE  LockInv'
  BY <1>8 DEF WritePayload, WriteFails
<1>9. ASSUME NEW r \in Runs, Release(r)
      PROVE  LockInv'
  BY <1>9 DEF Release
<1>10. ASSUME NEW r \in Runs, ReadToken(r)
       PROVE  LockInv'
  BY <1>10 DEF ReadToken, Token
<1>11. ASSUME NEW r \in Runs, UnlinkFile(r)
       PROVE  LockInv'
  BY <1>11 DEF UnlinkFile
<1>12. ASSUME NEW r \in Runs, ReleaseMutex(r)
       PROVE  LockInv'
  BY <1>12 DEF ReleaseMutex, FreeMutex
<1>13. ASSUME NEW r \in Runs, Die(r)
       PROVE  LockInv'
  BY <1>13 DEF Die, FreeMutex, Active
<1>14. CASE UNCHANGED lvars
  BY <1>14 DEF lvars
<1> QED
  BY <1>1, <1>2, <1>3, <1>4, <1>5, <1>6, <1>7, <1>8, <1>9, <1>10, <1>11, <1>12,
     <1>13, <1>14 DEF LockNext, Acquire

LEMMA LockInvHolds ==
  ASSUME LockAssumption
  PROVE  LockSpec => []LockInv
<1>1. LockInit => LockInv
  BY LockInvAtInit
<1>2. LockInv /\ [LockNext]_lvars => LockInv'
  BY LockInvPreserved
<1> QED
  BY <1>1, <1>2, PTL DEF LockSpec

\* The mutex is owned by a run that holds a handle of it, and a run stops
\* trying before it has no try left, on either platform.
THEOREM LockTypes ==
  ASSUME LockAssumption
  PROVE  LockSpec => []LockTypeOK
BY LockInvHolds, PTL DEF LockInv

\* With the mutex, two runs never work on the tables at the same time.
THEOREM WindowsSingleInstance ==
  ASSUME LockAssumption
  PROVE  LockSpec => []SingleInstance
<1>1. LockInv => SingleInstance
  BY DEF LockInv, OwnerOnly, Holding, SingleInstance
<1> QED
  BY <1>1, LockInvHolds, PTL

\* With the mutex, release never removes a lock file another run has written.
THEOREM WindowsUnlinksOwnFile ==
  ASSUME LockAssumption
  PROVE  LockSpec => UnlinksOwnFile
<1>1. LockInv /\ [LockNext]_lvars
        => [platform = "windows" =>
              \A r \in Runs : pc[r] = "unlink" /\ file' # file => file = r]_lvars
  BY DEF LockInv, OwnerOnly
<1> QED
  BY <1>1, LockInvHolds, PTL DEF LockSpec, UnlinksOwnFile

-----------------------------------------------------------------------------
(* A run with nobody to compete with.  Whatever it finds was left by runs  *)
(* that are over: nobody owns the mutex, and a file names no living run    *)
(* and is still there when it is removed, the first time.                  *)
Unopposed(r) ==
    /\ pc[r] # "new"
    /\ \A q \in Runs : Active(q) => q = r
    /\ pc[r] = "open" => tries[r] > 1 \/ file = None
    /\ pc[r] \in {"inspect", "takeover"} => tries[r] > 1 /\ file # None

LoneInv ==
    /\ \A r \in Runs : pc[r] = "new" => tries[r] = Attempts
    /\ \A r \in Runs : pc[r] \in {"new"} \cup Acquiring => r \notin written
    /\ alone # None => Unopposed(alone)

LEMMA LoneInvPreserved ==
  ASSUME LockAssumption, Attempts > 1, LockInv, LoneInv, [LockNext]_lvars
  PROVE  LoneInv'
<1> USE DEF LockInv, LockTypeOK, LoneInv, Acquiring, Holding, Over, Goto
<1>1. ASSUME NEW r \in Runs, Start(r)
      PROVE  LoneInv'
  BY <1>1 DEF Start, Unopposed, Active, LockAssumption
\* Whoever takes another step is active, so it is the one that is alone.
<1>2. ASSUME NEW r \in Runs, LockNext, ~Start(r), pc'[r] # pc[r]
      PROVE  /\ \A q \in Runs : q # r => pc'[q] = pc[q] /\ tries'[q] = tries[q]
             /\ Active(r) /\ alone' = alone /\ written' \subseteq written \cup {r}
             /\ pc'[r] # "new"
             /\ pc'[r] \in Acquiring => pc[r] \in Acquiring /\ written' = written
  BY <1>2 DEF LockNext, Acquire, Start, CreateMutex, WaitMutex, WriteMeta, CreateFile,
     InspectHolder, TakeOver, WritePayload, WriteFails, Release, ReadToken, UnlinkFile,
     ReleaseMutex, Die, Active
<1>3. ASSUME NEW r \in Runs, LockNext, ~Start(r), pc'[r] # pc[r]
      PROVE  LoneInv'
  <2>1. \A q \in Runs : pc'[q] = "new" => tries'[q] = Attempts
    BY <1>2, <1>3
  <2>2. \A q \in Runs : pc'[q] \in {"new"} \cup Acquiring => q \notin written'
    BY <1>2, <1>3
  <2>3. ASSUME alone' # None
        PROVE  Unopposed(alone)'
    <3>1. alone = r /\ alone' = r /\ Unopposed(r)
      BY <1>2, <1>3, <2>3 DEF Unopposed
    <3>2. \A q \in Runs : Active(q)' => q = r
      BY <1>2, <1>3, <3>1 DEF Active, Unopposed
    <3>3. pc'[r] = "open" => tries'[r] > 1 \/ file' = None
      BY <1>2, <1>3, <3>1 DEF Unopposed, LockNext, Acquire, Start, CreateMutex, WaitMutex,
         WriteMeta, CreateFile, InspectHolder, TakeOver, WritePayload, WriteFails, Release,
         ReadToken, UnlinkFile, ReleaseMutex, Die
    <3>4. pc'[r] \in {"inspect", "takeover"} => tries'[r] > 1 /\ file' # None
      BY <1>2, <1>3, <3>1 DEF Unopposed, LockNext, Acquire, Start, CreateMutex, WaitMutex,
         WriteMeta, CreateFile, InspectHolder, TakeOver, WritePayload, WriteFails, Release,
         ReadToken, UnlinkFile, ReleaseMutex, Die
    <3> QED
      BY <1>2, <1>3, <3>1, <3>2, <3>3, <3>4 DEF Unopposed
  <2> QED
    BY <2>1, <2>2, <2>3
<1>4. CASE UNCHANGED lvars
  BY <1>4 DEF lvars, Unopposed, Active
\* Every step moves the run that takes it.
<1>5. LockNext => \E r \in Runs : Start(r) \/ (~Start(r) /\ pc'[r] # pc[r])
  BY DEF LockNext, Acquire, Start, CreateMutex, WaitMutex, WriteMeta, CreateFile,
     InspectHolder, TakeOver, WritePayload, WriteFails, Release, ReadToken, UnlinkFile,
     ReleaseMutex, Die, Active
<1> QED
  BY <1>1, <1>3, <1>4, <1>5

\* What killed runs left behind, a file with or without content or an abandoned
\* mutex, keeps out no run that starts when no other is there, on either platform
\* (_acquire_mutex, _acquire_file, which tries more than once).
THEOREM LeftoversTakenOverThm ==
  ASSUME LockAssumption, Attempts > 1
  PROVE  LockSpec => LeftoversTakenOver
<1>1. LockInit => LoneInv
  BY DEF LockAssumption, LockInit, LoneInv
<1>2. LockInv /\ LoneInv /\ [LockNext]_lvars => LoneInv'
  BY LoneInvPreserved
<1>3. ASSUME LockInv, LoneInv, [LockNext]_lvars, NEW r \in Runs,
             pc'[r] = "refused", pc[r] \notin {"refused", "write"}, alone = r
      PROVE  FALSE
  <2> USE DEF LockInv, LockTypeOK, Goto
  <2>1. Unopposed(r)
    BY <1>3 DEF LoneInv, LockAssumption
  <2>2. WaitMutex(r) \/ InspectHolder(r) \/ TakeOver(r)
    BY <1>3 DEF LockNext, lvars, Acquire, Start, CreateMutex, WaitMutex, WriteMeta, CreateFile,
       InspectHolder, TakeOver, WritePayload, WriteFails, Release, ReadToken, UnlinkFile,
       ReleaseMutex, Die
  <2>3. CASE WaitMutex(r)
    <3>1. mutex \in Runs /\ mutex # r /\ pc[r] = "wait"
      BY <1>3, <2>3 DEF WaitMutex, WaitersHandle
    <3>2. platform = "windows"
      BY <1>3, <3>1 DEF NoMutex
    <3>3. Active(mutex)
      BY <1>3, <3>1, <3>2 DEF OwnerOnly, Active, Acquiring, Holding
    <3> QED
      BY <2>1, <3>1, <3>3 DEF Unopposed
  <2>4. CASE InspectHolder(r)
    <3>1. Token # None /\ Active(Token) /\ pc[r] = "inspect"
      BY <1>3, <2>4 DEF InspectHolder
    <3>2. Token \in Runs /\ Token \in written
      BY <1>3, <3>1 DEF Token
    <3>3. Token = r
      BY <2>1, <3>1, <3>2 DEF Unopposed
    <3> QED
      BY <1>3, <3>1, <3>2, <3>3 DEF LoneInv, Acquiring
  <2>5. CASE TakeOver(r)
    BY <1>3, <2>1, <2>5 DEF TakeOver, Unopposed, LockAssumption
  <2> QED
    BY <2>2, <2>3, <2>4, <2>5
<1>4. LockInv /\ LoneInv /\ [LockNext]_lvars =>
        [\A r \in Runs :
           pc'[r] = "refused" /\ pc[r] \notin {"refused", "write"} => alone # r]_lvars
  BY <1>3
<1> QED
  BY <1>1, <1>2, <1>4, LockInvHolds, PTL DEF LockSpec, LeftoversTakenOver

-----------------------------------------------------------------------------
(* The temporary mihomos *)

\* A run has neither mihomo nor directory before its cleanup, and that follows
\* the lock.
FreshRuns ==
    \A r \in Runs :
        /\ pc[r] \in {"new"} \cup Acquiring => work[r] = "sweep"
        /\ work[r] = "sweep" => r \notin cores /\ r \notin dirs

\* A run does not release the lock before its mihomo was told to stop.
TestsHeld ==
    \A r \in Runs : work[r] \in {"start", "test"} => pc[r] \in {"held", "dead"}

\* With the mutex, nobody listens on the ports the run with the lock has picked,
\* and after its cleanup there is nobody but those who resisted.
OwnerAlone ==
    platform = "windows" =>
        \A r \in Runs :
            pc[r] = "held" =>
                /\ work[r] \in {"start", "test"} =>
                      \A q \in Runs \ {r} : bound[q] # picked[r]
                /\ work[r] # "sweep" => cores \subseteq missed \cup {r}

CoresInv == CoresTypeOK /\ FreshRuns /\ TestsHeld /\ OwnerAlone

\* The runs do nothing to the lock that SyncLock does not.
LEMMA CoresStepIsLockStep ==
  ASSUME [CoresNext]_<<lvars, cvars>>
  PROVE  [LockNext]_lvars
BY DEF CoresNext, Exclude, LockNext, Sweep, Prepare, NoFreePort, StartCore, StartFails,
       StopCore, CoreExits, Does, lvars

LEMMA CoresInvAtInit ==
  ASSUME CoresAssumption, CoresInit
  PROVE  CoresInv
BY DEF CoresAssumption, CoresInit, LockInit, CoresInv, CoresTypeOK, FreshRuns, TestsHeld,
       OwnerAlone, NoPort

LEMMA CoresInvPreserved ==
  ASSUME CoresAssumption, LockInv, CoresInv, [CoresNext]_<<lvars, cvars>>
  PROVE  CoresInv'
<1> USE DEF CoresInv, CoresTypeOK, FreshRuns, TestsHeld, OwnerAlone, CoresAssumption,
            NoPort, cvars
<1>0. platform = "windows" => \A p, q \in Runs : pc[p] = "held" /\ pc[q] = "held" => p = q
  BY DEF LockInv, OwnerOnly, Holding
\* The lock changes hands.
<1>1. ASSUME NEW r \in Runs, Exclude(r)
      PROVE  CoresInv'
  <2>1. /\ platform' = platform
        /\ \A q \in Runs : q # r => pc'[q] = pc[q]
    BY <1>1 DEF LockInv, LockTypeOK, Exclude, Acquire, Start, CreateMutex, WaitMutex,
       WriteMeta, CreateFile, InspectHolder, TakeOver, WritePayload, WriteFails, Release,
       ReadToken, UnlinkFile, ReleaseMutex, Die, Goto
  <2>2. /\ pc'[r] \in {"new"} \cup Acquiring => pc[r] \in {"new"} \cup Acquiring
        /\ pc'[r] = "held" => pc[r] \in Acquiring
        /\ work[r] \in {"start", "test"} => pc'[r] = "dead"
    BY <1>1 DEF LockInv, LockTypeOK, Exclude, Acquire, Start, CreateMutex, WaitMutex,
       WriteMeta, CreateFile, InspectHolder, TakeOver, WritePayload, WriteFails, Release,
       ReadToken, UnlinkFile, ReleaseMutex, Die, Goto, Acquiring, Holding, Over
  <2> QED
    BY <1>1, <2>1, <2>2 DEF Exclude
\* The other steps leave the lock alone.
<1>2. ASSUME NEW r \in Runs, Sweep(r)
      PROVE  CoresInv'
  <2>1. PICK running \in SUBSET cores : Leave(running) /\ missed' = running
    BY <1>2 DEF Sweep
  <2>2. PICK kept \in SUBSET dirs : dirs' = kept
    BY <1>2 DEF Sweep
  <2>3. /\ pc[r] = "held" /\ pc' = pc /\ platform' = platform /\ picked' = picked
        /\ work[r] = "sweep" /\ work' = [work EXCEPT ![r] = "prepare"]
    BY <1>2 DEF Sweep, Does, lvars
  <2>4. CoresTypeOK'
    <3>1. bound' = [q \in Runs |-> IF q \in running THEN bound[q] ELSE NoPort]
      BY <2>1 DEF Leave
    <3>2. bound' \in [Runs -> NoPort..Ports] /\ \A q \in Runs \ cores' : bound'[q] = NoPort
      BY <3>1, <2>1 DEF Leave
    <3>3. \A q \in Runs : work'[q] \in {"start", "test"} <=> work[q] \in {"start", "test"}
      BY <2>3
    <3>4. work' \in [Runs -> {"sweep", "prepare", "start", "test", "over"}]
      BY <2>3
    <3>5. /\ cores' \subseteq Runs /\ missed' \subseteq cores' /\ dirs' \subseteq Runs
      BY <2>1, <2>2 DEF Leave
    <3> QED
      BY <2>3, <3>2, <3>3, <3>4, <3>5
  <2>5. FreshRuns' /\ TestsHeld'
    <3>1. cores' \subseteq cores /\ dirs' \subseteq dirs
      BY <2>1, <2>2 DEF Leave
    <3>2. \A q \in Runs : work'[q] = IF q = r THEN "prepare" ELSE work[q]
      BY <2>3
    <3>3. r \in Runs /\ pc[r] \notin {"new"} \cup Acquiring
      BY <2>3 DEF Acquiring
    <3>4. FreshRuns'
      BY <2>3, <3>1, <3>2, <3>3
    <3>5. TestsHeld'
      BY <2>3, <3>2
    <3> QED
      BY <3>4, <3>5
  <2>6. OwnerAlone'
    <3>1. \A q \in Runs : pc'[q] = "held" /\ platform' = "windows" => q = r
      BY <2>3, <1>0
    <3>2. work'[r] = "prepare" /\ cores' = missed'
      BY <2>1, <2>3 DEF Leave
    <3> QED
      BY <3>1, <3>2
  <2> QED
    BY <2>4, <2>5, <2>6
<1>3. ASSUME NEW r \in Runs, Prepare(r)
      PROVE  CoresInv'
  BY <1>3, <1>0 DEF Prepare, PickPorts, Free, Does, lvars
<1>4. ASSUME NEW r \in Runs, NoFreePort(r) \/ StartFails(r)
      PROVE  CoresInv'
  BY <1>4, <1>0 DEF NoFreePort, StartFails, Does, lvars
<1>5. ASSUME NEW r \in Runs, StartCore(r)
      PROVE  CoresInv'
  BY <1>5, <1>0 DEF StartCore, Does, lvars
<1>6. ASSUME NEW r \in Runs, StopCore(r)
      PROVE  CoresInv'
  BY <1>6, <1>0 DEF StopCore, Does, Leave, lvars
<1>7. CASE CoreExits
  BY <1>7 DEF CoreExits, Leave, lvars
<1>8. CASE UNCHANGED <<lvars, cvars>>
  BY <1>8 DEF lvars
<1> QED
  BY <1>1, <1>2, <1>3, <1>4, <1>5, <1>6, <1>7, <1>8 DEF CoresNext

LEMMA CoresInvHolds ==
  ASSUME LockAssumption, CoresAssumption
  PROVE  CoresSpec => [](LockInv /\ CoresInv)
<1>1. CoresInit => LockInv /\ CoresInv
  BY LockInvAtInit, CoresInvAtInit DEF CoresInit
<1>2. LockInv /\ CoresInv /\ [CoresNext]_<<lvars, cvars>> => (LockInv /\ CoresInv)'
  BY CoresStepIsLockStep, LockInvPreserved, CoresInvPreserved
<1> QED
  BY <1>1, <1>2, PTL DEF CoresSpec

\* The composition keeps the lock's promises: it is an implementation of
\* SyncLock.
THEOREM CoresImplementLock ==
  CoresSpec => LockSpec
<1>1. CoresInit => LockInit
  BY DEF CoresInit
<1> QED
  BY <1>1, CoresStepIsLockStep, PTL DEF CoresSpec, LockSpec

\* A run that is to measure has picked ports, and only running mihomos listen.
THEOREM CoresTypes ==
  ASSUME LockAssumption, CoresAssumption
  PROVE  CoresSpec => []CoresTypeOK
BY CoresInvHolds, PTL DEF CoresInv

\* With the mutex, no run is answered by another run's mihomo, and whoever measures
\* does so next to no other but those that did not stop.
THEOREM WindowsMeasuresAlone ==
  ASSUME LockAssumption, CoresAssumption
  PROVE  CoresSpec => []MeasuresAlone
<1>1. LockInv /\ CoresInv => MeasuresAlone
  BY DEF CoresInv, TestsHeld, OwnerAlone, MeasuresAlone, Active, Acquiring, Holding
<1> QED
  BY <1>1, CoresInvHolds, PTL

\* With the mutex, a cleanup takes nothing from a living run.
THEOREM WindowsSweepsSpareLivingRuns ==
  ASSUME LockAssumption, CoresAssumption
  PROVE  CoresSpec => SweepsSpareLivingRuns
<1> DEFINE Spares ==
      platform = "windows" =>
        \A q, r \in Runs :
           work[q] = "sweep" /\ work'[q] # "sweep" /\ Active(r)
             => (r \in cores => r \in cores') /\ (r \in dirs => r \in dirs')
<1>1. LockInv /\ CoresInv /\ [CoresNext]_<<lvars, cvars>> => [Spares]_<<lvars, cvars>>
  <2> SUFFICES ASSUME LockInv, CoresInv, CoresNext, platform = "windows",
                      NEW q \in Runs, NEW r \in Runs,
                      work[q] = "sweep", work'[q] # "sweep", Active(r)
               PROVE  (r \in cores => r \in cores') /\ (r \in dirs => r \in dirs')
    BY DEF lvars, cvars
  <2>1. pc[q] = "held"
    BY DEF CoresInv, CoresTypeOK, CoresNext, Exclude, Sweep, Prepare, NoFreePort, StartCore,
       StartFails, StopCore, CoreExits, Does, cvars
  \* A living run that does not hold the lock is about to acquire it.
  <2>2. work[r] = "sweep"
    <3>1. r # q => pc[r] \in Acquiring
      BY <2>1 DEF LockInv, OwnerOnly, Active, Holding
    <3> QED
      BY <3>1 DEF CoresInv, FreshRuns
  <2> QED
    BY <2>2 DEF CoresInv, FreshRuns
<1> QED
  BY <1>1, CoresInvHolds, PTL DEF CoresSpec, SweepsSpareLivingRuns
=============================================================================
