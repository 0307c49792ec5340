----------------------------- MODULE MpmSupply -----------------------------
(***************************************************************************)
(* How the pinned program gets on the host: the steps of install_verified  *)
(* behind Supply of MpmService.                                            *)
(*                                                                         *)
(* Whatever the servers send is staged and checked against the lock file   *)
(* of the checkout.  Then the binary is moved into the directory of its    *)
(* version and the two geo files, which all versions share, next to the    *)
(* state; last the `current` link is switched, and the unit runs what it   *)
(* finds behind that link.  A download may bring anything, and an install  *)
(* may fail or be killed between any two of these.                         *)
(*                                                                         *)
(* The content of a file is named by the version it is pinned for.         *)
(***************************************************************************)
EXTENDS MpmService

CONSTANTS
    Tags,      \* versions a lock file may pin
    NoTag,     \* no such file
    Unknown    \* any content no lock file pins

ASSUME SupplyAssumption == NoTag \notin Tags /\ Unknown \notin Tags /\ NoTag # Unknown

GeoFiles == {"GeoIP.dat", "GeoSite.dat"}
Content == Tags \cup {NoTag, Unknown}

VARIABLES
    tag,      \* the version the lock file of the checkout pins
    step,     \* step[p]: how far the install of process p is
    pin,      \* pin[p]: the version of the lock it has loaded
    staged,   \* staged[p]: content of its staging directory
    libexec,  \* libexec[v]: content of the binary in the directory of v
    geo,      \* geo[f]: content of the geo file f
    current,  \* the version the link points at
    executed  \* content of the binary mihomo was started from

disk == <<libexec, geo, current>>
own == <<tag, step, pin, staged>>
supplyVars == <<svars, own, disk, executed>>

Stages == {"none", "fetch", "binary", "GeoIP.dat", "GeoSite.dat", "switch"}
Staging == [{"binary"} \cup GeoFiles -> Content]
NothingStaged == [f \in {"binary"} \cup GeoFiles |-> NoTag]

SupplyTypeOK ==
    /\ ServiceTypeOK
    /\ tag \in Tags
    /\ step \in [Procs -> Stages]
    /\ pin \in [Procs -> Tags \cup {NoTag}]
    /\ staged \in [Procs -> Staging]
    /\ libexec \in [Tags -> Content]
    /\ geo \in [GeoFiles -> Content]
    /\ current \in Tags \cup {NoTag}
    /\ executed \in Content
    /\ \A p \in Procs : step[p] # "none" <=> task[p] = "supply"
    \* what MpmService knows of all this
    /\ binary <=> current # NoTag

SupplyInit ==
    /\ ServiceInit
    /\ tag \in Tags
    /\ step = [p \in Procs |-> "none"]
    /\ pin = [p \in Procs |-> NoTag]
    /\ staged = [p \in Procs |-> NothingStaged]
    /\ libexec = [v \in Tags |-> NoTag]
    /\ geo = [f \in GeoFiles |-> NoTag]
    /\ current = NoTag
    /\ executed = NoTag

-----------------------------------------------------------------------------
(* install_verified *)

At(p, s, then) == step[p] = s /\ step' = [step EXCEPT ![p] = then]

\* The digest and the size are the pinned ones, and what is unpacked is the
\* program for this host.
Verified(p, sent) == \A f \in {"binary"} \cup GeoFiles : sent[f] = pin[p]

\* Everything is downloaded and verified before anything is moved; what fails
\* that is SupplyFails.
Fetch(p) ==
    /\ At(p, "fetch", "binary")
    /\ \E sent \in Staging : Verified(p, sent) /\ staged' = [staged EXCEPT ![p] = sent]
    /\ UNCHANGED <<svars, tag, pin, disk, executed>>

\* Each file is replaced atomically.
MoveBinary(p) ==
    /\ At(p, "binary", "GeoIP.dat")
    /\ libexec' = [libexec EXCEPT ![pin[p]] = staged[p]["binary"]]
    /\ UNCHANGED <<svars, tag, pin, staged, geo, current, executed>>

MoveGeo(p, f, then) ==
    /\ At(p, f, then)
    /\ geo' = [geo EXCEPT ![f] = staged[p][f]]
    /\ UNCHANGED <<svars, tag, pin, staged, libexec, current, executed>>

\* Mutant: the link is switched once the binary is there.
SwitchCurrentEarly(p) ==
    /\ step[p] \in Stages \ {"none", "fetch", "binary"}
    /\ current' = pin[p]
    /\ UNCHANGED <<libexec, geo>>

SwitchCurrent(p) ==
    /\ step[p] = "switch"
    /\ current' = pin[p]
    /\ UNCHANGED <<libexec, geo>>

\* --skip-download goes on with the binary that is there.
SkipDownload(p) == step[p] = "fetch" /\ current # NoTag /\ UNCHANGED disk

-----------------------------------------------------------------------------
(* The rest of the host *)

\* Another version of the repository is checked out.
Checkout ==
    /\ tag' \in Tags \ {tag}
    /\ UNCHANGED <<svars, step, pin, staged, disk, executed>>

\* Mutant: the version directories are removed and the link is not.
DiscardVersions(p) ==
    /\ IF task[p] \in {"rm binary", "purge binary"}
       THEN libexec' = [v \in Tags |-> NoTag]
       ELSE UNCHANGED libexec
    /\ geo' = IF task[p] \in {"rm config", "purge var"}
              THEN [f \in GeoFiles |-> NoTag] ELSE geo
    /\ UNCHANGED current

\* uninstall removes the geo files after config.yaml, and libexec as a whole.
Discard(p) ==
    /\ IF task[p] \in {"rm binary", "purge binary"}
       THEN libexec' = [v \in Tags |-> NoTag] /\ current' = NoTag
       ELSE UNCHANGED <<libexec, current>>
    /\ geo' = IF task[p] \in {"rm config", "purge var"}
              THEN [f \in GeoFiles |-> NoTag] ELSE geo

\* What goes along with any step of MpmService: an install loads the lock file
\* first and leaves its staging directory last; ExecStart runs what is behind
\* the link.
Follow ==
    /\ UNCHANGED tag
    /\ step' = [p \in Procs |->
                  IF task'[p] # "supply" THEN "none"
                  ELSE IF task[p] # "supply" THEN "fetch" ELSE step[p]]
    /\ pin' = [p \in Procs |->
                 IF task'[p] # "supply" THEN NoTag
                 ELSE IF task[p] # "supply" THEN tag ELSE pin[p]]
    /\ staged' = [p \in Procs |->
                    IF task'[p] # "supply" THEN NothingStaged ELSE staged[p]]
    /\ executed' = IF running' = NoConfig THEN NoTag
                   ELSE IF running = NoConfig THEN libexec[current] ELSE executed

HandlesProgram(p) == Supply(p) \/ RemoveFile(p) \/ PurgeDirectory(p)

SupplyNext ==
    \/ Checkout
    \/ \E p \in Procs :
        \/ Fetch(p) \/ MoveBinary(p)
        \/ MoveGeo(p, "GeoIP.dat", "GeoSite.dat") \/ MoveGeo(p, "GeoSite.dat", "switch")
        \/ Supply(p) /\ (SwitchCurrent(p) \/ SkipDownload(p)) /\ Follow
        \/ (RemoveFile(p) \/ PurgeDirectory(p)) /\ Discard(p) /\ Follow
        \/ Interrupt(p) /\ UNCHANGED disk /\ Follow
    \/ /\ ServiceNext /\ ~ \E p \in Procs : HandlesProgram(p)
       /\ UNCHANGED disk /\ Follow

SupplySpec == SupplyInit /\ [][SupplyNext]_supplyVars

-----------------------------------------------------------------------------
(* Properties *)

\* "Any mismatch aborts the install": whatever was downloaded, mihomo only runs
\* what a lock file pins.  The link is switched to a version when the binary and
\* both geo files of that version are in place, not earlier: a killed install
\* leaves the old program.
RunsWholeVersions ==
    [][/\ running' # NoConfig => executed' \in Tags
       /\ current' \notin {current, NoTag} =>
            libexec[current'] = current' /\ \A f \in GeoFiles : geo[f] = current']_supplyVars
=============================================================================
