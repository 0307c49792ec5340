----------------------------- MODULE MpmBackup -----------------------------
(***************************************************************************)
(* The backups of config.yaml (state.backup), made by configure right      *)
(* before it replaces the file: a copy named after the second it is made   *)
(* in, an index of the last few copies, and the removal of every copy the  *)
(* index no longer names.  A run may be killed between any two of these,   *)
(* and two copies made in the same second are one file.                    *)
(***************************************************************************)
EXTENDS MpmConfigure, Naturals, SequencesExt

CONSTANTS
    Names,   \* names of copies; one that is not in use stands for a later time
    NoName,  \* no copy
    Keep     \* copies the index names (3 in the code)

ASSUME BackupAssumption ==
    /\ NoName \notin Names
    /\ Keep \in Nat \ {0}

VARIABLES
    copies,  \* copies[n]: whether the copy named n is of the config as it stands
    index,   \* index.json: names of copies, the oldest first
    latest,  \* the name of the last copy made
    bstep,   \* bstep[p]: how far the backup of process p is
    bname    \* bname[p]: the copy it has made

bvars == <<copies, index, latest, bstep, bname>>

\* What a copy may be: not there, of config.yaml as it stands, of an earlier one.
Copied == {"none", "current", "earlier"}

Existing == {n \in Names : copies[n] # "none"}

BackupTypeOK ==
    /\ copies \in [Names -> Copied]
    /\ index \in Seq(Names) /\ Len(index) <= Keep
    /\ latest \in Names \cup {NoName}
    /\ bstep \in [Procs -> {"none", "prune", "index", "done"}]
    /\ bname \in [Procs -> Names \cup {NoName}]
    /\ \A p \in Procs : bstep[p] # "none" => pc[p] = "replace" /\ bname[p] # NoName

BackupInit ==
    /\ Init
    /\ copies = [n \in Names |-> "none"]
    /\ index = <<>>
    /\ latest = NoName
    /\ bstep = [p \in Procs |-> "none"]
    /\ bname = [p \in Procs |-> NoName]

-----------------------------------------------------------------------------
\* The copy is made in a later second than the last one, or in the same.
Copy(p) ==
    /\ pc[p] = "replace" /\ bstep[p] = "none" /\ config # NoConfig
    /\ \E n \in (Names \ (Existing \cup ToSet(index))) \cup ({latest} \ {NoName}) :
          /\ copies' = [copies EXCEPT ![n] = "current"]
          /\ bname' = [bname EXCEPT ![p] = n]
          /\ latest' = n
    /\ bstep' = [bstep EXCEPT ![p] = "prune"]
    /\ UNCHANGED <<vars, index>>

\* The entries the index is to have.
Entries(p) ==
    LET all == Append(index, bname[p])
    IN  IF Len(all) <= Keep THEN all ELSE Tail(all)

\* Mutant: what the old index does not name is removed.
KeptOld(p) == ToSet(index)

Kept(p) == ToSet(Entries(p))

\* Copies out of the window are removed one after the other.
Prune(p) ==
    /\ bstep[p] = "prune"
    /\ LET surplus == Existing \ Kept(p)
       IN  IF surplus = {}
           THEN bstep' = [bstep EXCEPT ![p] = "index"] /\ UNCHANGED copies
           ELSE /\ \E n \in surplus : copies' = [copies EXCEPT ![n] = "none"]
                /\ UNCHANGED bstep
    /\ UNCHANGED <<vars, index, latest, bname>>

\* Mutant: the oldest entries are kept.
WriteIndexOldest(p) ==
    /\ bstep[p] = "index"
    /\ index' = SubSeq(Append(index, bname[p]), 1,
                       IF Len(index) < Keep THEN Len(index) + 1 ELSE Keep)
    /\ bstep' = [bstep EXCEPT ![p] = "done"]
    /\ UNCHANGED <<vars, copies, latest, bname>>

WriteIndex(p) ==
    /\ bstep[p] = "index"
    /\ index' = Entries(p)
    /\ bstep' = [bstep EXCEPT ![p] = "done"]
    /\ UNCHANGED <<vars, copies, latest, bname>>

\* A backup comes after mihomo -t and before os.replace, if there is a config to
\* keep, and is forgotten with the run.
Around ==
    /\ \A p \in Procs :
          /\ Replace(p) => config = NoConfig \/ bstep[p] = "done"
          /\ bstep[p] # "none" => Replace(p) \/ Crash(p) \/ pc'[p] = pc[p]
    /\ bstep' = [p \in Procs |-> IF pc'[p] = "replace" THEN bstep[p] ELSE "none"]
    /\ bname' = [p \in Procs |-> IF pc'[p] = "replace" THEN bname[p] ELSE NoName]
    /\ copies' = [n \in Names |-> IF config' = config \/ n \notin Existing
                                THEN copies[n] ELSE "earlier"]
    /\ UNCHANGED <<index, latest>>

BackupNext ==
    \/ Next /\ Around
    \/ \E p \in Procs : Copy(p) \/ Prune(p) \/ WriteIndex(p)

BackupSpec == BackupInit /\ [][BackupNext]_<<vars, bvars>>

-----------------------------------------------------------------------------
(* Properties, of one command at a time *)

\* No config.yaml is replaced before there is a copy of it, however often a run
\* was killed in the middle of a backup.
ReplacedIsKept ==
    [][config' # config /\ config # NoConfig
         => \E n \in Names : copies[n] = "current" /\ copies'[n] # "none"]_<<vars, bvars>>

\* The index describes the backup area again once a backup is complete: it names
\* all copies that are there and none that is not, whatever killed runs left.
IndexDescribesCopies ==
    [][\A p \in Procs :
         bstep'[p] = "done" /\ bstep[p] # "done"
           => ToSet(index') = Existing']_<<vars, bvars>>
=============================================================================
