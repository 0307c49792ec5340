------------------------------ MODULE SyncLock ------------------------------
(***************************************************************************)
(* The single-instance lock of scripts/sync-feishu-bitable.py.             *)
(*                                                                         *)
(* On Windows a named kernel mutex excludes other runs and the lock file   *)
(* only describes its holder.  Elsewhere the lock file is the lock: it is  *)
(* created exclusively, its content is written afterwards, and a run that  *)
(* finds a file whose process is dead removes it and tries again.          *)
(*                                                                         *)
(* A run acquires once.  Its token is its own, and process ids are not     *)
(* used again while a lock file names them.                                *)
(***************************************************************************)
EXTENDS Naturals

CONSTANTS
    Runs,        \* runs of the script
    None,        \* no run
    Platforms,   \* "windows", "posix"
    Attempts     \* times a POSIX run tries to create the file

ASSUME LockAssumption ==
    /\ None \notin Runs
    /\ Platforms \subseteq {"windows", "posix"}
    /\ Attempts \in Nat \ {0}

VARIABLES
    platform, \* the host's; this never changes
    file,     \* the run that created the lock file, or None if there is none
    written,  \* runs that have written their payload into the file they made
    mutex,    \* Windows: the run that owns the mutex
    handles,  \* Windows: runs with a handle of the mutex, which keep it there
    pc,       \* pc[r]: next step of run r
    tries,    \* tries[r]: times it has still to try to create the file
    alone     \* history: the run, if any, that has been the only one so far

lvars == <<platform, file, written, mutex, handles, pc, tries, alone>>

Acquiring == {"open", "inspect", "takeover", "write", "wait", "meta"}
Holding == {"held", "read", "unlink", "mutex"}
Over == {"refused", "released", "dead"}

LockTypeOK ==
    /\ platform \in Platforms
    /\ file \in Runs \cup {None}
    /\ written \subseteq Runs
    /\ handles \subseteq Runs
    /\ mutex \in handles \cup {None}
    /\ pc \in [Runs -> {"new"} \cup Acquiring \cup Holding \cup Over]
    /\ tries \in [Runs -> 0..Attempts]
    /\ alone \in Runs \cup {None}

LockInit ==
    /\ platform \in Platforms
    /\ file = None /\ written = {}
    /\ mutex = None /\ handles = {}
    /\ pc = [r \in Runs |-> "new"]
    /\ tries = [r \in Runs |-> Attempts]
    /\ alone = None

Active(r) == pc[r] \in Acquiring \cup Holding
Goto(r, step) == pc' = [pc EXCEPT ![r] = step]

\* What _read_lock_meta finds: the run whose token the file carries, or None if
\* there is no file or nothing in it yet.
Token == IF file \in written THEN file ELSE None

-----------------------------------------------------------------------------
(* Acquiring.  Any refusal is the SyncError lock_busy. *)

Start(r) ==
    /\ pc[r] = "new"
    /\ Goto(r, "open")
    /\ alone' = IF \E q \in Runs : Active(q) THEN None ELSE r
    /\ UNCHANGED <<platform, file, written, mutex, handles, tries>>

\* _acquire_mutex: CreateMutexW owns a mutex nobody has a handle of; any other
\* is waited for, without waiting.
CreateMutex(r) ==
    /\ platform = "windows" /\ pc[r] = "open"
    /\ handles' = handles \cup {r}
    /\ IF handles = {} THEN mutex' = r /\ Goto(r, "meta")
                       ELSE Goto(r, "wait") /\ UNCHANGED mutex
    /\ UNCHANGED <<platform, file, written, tries, alone>>

\* Mutant: a timed out wait is taken for an abandoned mutex.
WaitMutexAnyway(r) ==
    /\ pc[r] = "wait"
    /\ mutex' = r /\ Goto(r, "meta")
    /\ UNCHANGED <<platform, file, written, handles, tries, alone>>

\* A free mutex, released or abandoned by a dead owner, is taken over.
WaitMutex(r) ==
    /\ pc[r] = "wait"
    /\ IF mutex = None
       THEN mutex' = r /\ Goto(r, "meta") /\ UNCHANGED handles
       ELSE Goto(r, "refused") /\ handles' = handles \ {r} /\ UNCHANGED mutex
    /\ UNCHANGED <<platform, file, written, tries, alone>>

\* _write_meta, whatever the file said before; a failure is only logged.
WriteMeta(r) ==
    /\ pc[r] = "meta"
    /\ \/ file' = r /\ written' = written \cup {r}
       \/ UNCHANGED <<file, written>>
    /\ Goto(r, "held")
    /\ UNCHANGED <<platform, mutex, handles, tries, alone>>

\* _acquire_file: O_CREAT | O_EXCL.
CreateFile(r) ==
    /\ platform = "posix" /\ pc[r] = "open"
    /\ IF file = None THEN file' = r /\ Goto(r, "write")
                      ELSE Goto(r, "inspect") /\ UNCHANGED file
    /\ UNCHANGED <<platform, written, mutex, handles, tries, alone>>

\* Mutant: a file that names a process is busy, dead or not.
InspectHolderAnyone(r) ==
    /\ pc[r] = "inspect"
    /\ Goto(r, IF Token # None THEN "refused" ELSE "takeover")
    /\ UNCHANGED <<platform, file, written, mutex, handles, tries, alone>>

\* The file exists: is its process alive?
InspectHolder(r) ==
    /\ pc[r] = "inspect"
    /\ Goto(r, IF Token # None /\ Active(Token) THEN "refused" ELSE "takeover")
    /\ UNCHANGED <<platform, file, written, mutex, handles, tries, alone>>

\* Whatever is there by now is removed.
TakeOver(r) ==
    /\ pc[r] = "takeover"
    /\ file' = None
    /\ tries' = [tries EXCEPT ![r] = @ - 1]
    /\ Goto(r, IF file = None \/ tries[r] = 1 THEN "refused" ELSE "open")
    /\ UNCHANGED <<platform, written, mutex, handles, alone>>

WritePayload(r) ==
    /\ pc[r] = "write"
    /\ written' = written \cup {r}
    /\ Goto(r, "held")
    /\ UNCHANGED <<platform, file, mutex, handles, tries, alone>>

\* The write fails: the file of that name is removed.
WriteFails(r) ==
    /\ pc[r] = "write"
    /\ file' = None
    /\ Goto(r, "refused")
    /\ UNCHANGED <<platform, written, mutex, handles, tries, alone>>

-----------------------------------------------------------------------------
(* Releasing *)

Release(r) ==
    /\ pc[r] = "held"
    /\ Goto(r, "read")
    /\ UNCHANGED <<platform, file, written, mutex, handles, tries, alone>>

\* Mutant: the token is not compared.
ReadTokenOfAny(r) ==
    /\ pc[r] = "read"
    /\ Goto(r, IF file # None THEN "unlink" ELSE "mutex")
    /\ UNCHANGED <<platform, file, written, mutex, handles, tries, alone>>

\* Does the file carry this run's token?
ReadToken(r) ==
    /\ pc[r] = "read"
    /\ Goto(r, IF Token = r THEN "unlink" ELSE "mutex")
    /\ UNCHANGED <<platform, file, written, mutex, handles, tries, alone>>

UnlinkFile(r) ==
    /\ pc[r] = "unlink"
    /\ file' = None
    /\ Goto(r, "mutex")
    /\ UNCHANGED <<platform, written, mutex, handles, tries, alone>>

FreeMutex(r) ==
    /\ mutex' = IF mutex = r THEN None ELSE mutex
    /\ handles' = handles \ {r}

\* _release_mutex, on Windows
ReleaseMutex(r) ==
    /\ pc[r] = "mutex"
    /\ FreeMutex(r)
    /\ Goto(r, "released")
    /\ UNCHANGED <<platform, file, written, tries, alone>>

\* The run is killed: the kernel abandons its mutex, the file stays.
Die(r) ==
    /\ Active(r)
    /\ FreeMutex(r)
    /\ Goto(r, "dead")
    /\ UNCHANGED <<platform, file, written, tries, alone>>

-----------------------------------------------------------------------------
Acquire(r) ==
    \/ Start(r) \/ CreateMutex(r) \/ WaitMutex(r) \/ WriteMeta(r)
    \/ CreateFile(r) \/ InspectHolder(r) \/ TakeOver(r)
    \/ WritePayload(r) \/ WriteFails(r)

LockNext ==
    \E r \in Runs :
        \/ Acquire(r)
        \/ Release(r) \/ ReadToken(r) \/ UnlinkFile(r) \/ ReleaseMutex(r)
        \/ Die(r)

LockSpec == LockInit /\ [][LockNext]_lvars

-----------------------------------------------------------------------------
(* Properties *)

\* "Single-instance lock": with the mutex, two runs never work on the tables at
\* the same time.
SingleInstance ==
    platform = "windows" => \A p, q \in Runs : pc[p] = "held" /\ pc[q] = "held" => p = q

\* With the mutex, release "never unlinks a lock file that carries another
\* process's token".
UnlinksOwnFile ==
    [][platform = "windows" => \A r \in Runs : pc[r] = "unlink" /\ file' # file => file = r]_lvars

\* What crashed runs left behind, a file with or without content or a mutex,
\* does not keep out a run that has nobody to compete with.
LeftoversTakenOver ==
    [][\A r \in Runs :
         pc'[r] = "refused" /\ pc[r] \notin {"refused", "write"} => alone # r]_lvars
=============================================================================
