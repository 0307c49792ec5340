------------------------------ MODULE SyncRound ------------------------------
(***************************************************************************)
(* The rounds of scripts/sync-feishu-bitable.py around the GPT gate: the   *)
(* sources are downloaded one after the other, with their caches to fall   *)
(* back on; their nodes become a pool with a name for each endpoint; the   *)
(* pool is tested, or not; and the tables of the round's mode are written. *)
(*                                                                         *)
(* The gate (GptGate, whose variables and actions these are) counts passes *)
(* by the name in the pool.  What the user of the tables relies on is the  *)
(* endpoint behind that name.  A name is a sequence of numbers: one for    *)
(* the words of the name, to which a suffix "[k]" is appended as k.  Every *)
(* source has names of its own; those of source 4 give way to the ones the *)
(* production config.yaml has for the same server and port.                *)
(***************************************************************************)
EXTENDS GptGate, SequencesExt

CONSTANTS
    Endpoints,   \* what build_pool tells nodes apart by: type, server, port
    Info,        \* those that are rows about traffic or expiry, no proxies
    Kinds,       \* per source: its cache is "foreign" (source 1, written by
                 \* somebody else), its "own" (2, 3) or its node "list" (4)
    Urls,        \* the sources whose URL is configured
    Offers,      \* per source: the node lists a download may bring
    Setups,      \* the names of the endpoints, and what the caches hold to
                 \* begin with
    Down         \* no answer

Sources == DOMAIN Kinds
Rows == Endpoints \cup Info

\* The names each source gives its endpoints, and those config.yaml has for some.
Namings ==
    [given : [Sources -> [Endpoints -> Nodes \cap Seq(Nat)]],
     config : UNION {[known -> Nodes \cap Seq(Nat)] : known \in SUBSET Endpoints}]

\* align_source4_names: what an endpoint is called when it comes from source s.
NameIn(names, s, e) ==
    IF Kinds[s] = "list" /\ e \in DOMAIN names.config THEN names.config[e]
    ELSE names.given[s][e]

\* All it may be called.
Called(names, e) == {NameIn(names, s, e) : s \in Sources}

\* No name is that of two endpoints.
Apart(names) ==
    \A e, f \in Endpoints : e # f => Called(names, e) \cap Called(names, f) = {}

\* Nodes has the names of the sources, and those a suffix may make of them where
\* two are alike.
ASSUME RoundAssumption ==
    /\ IsFiniteSet(Endpoints)
    /\ Kinds \in Seq({"foreign", "own", "list"})
    /\ Offers \in [Sources -> SUBSET Seq(Rows)]
    /\ \A setup \in Setups :
          /\ setup.naming \in Namings
          /\ setup.cache \in [Sources -> Seq(Rows)]
          /\ ~Apart(setup.naming) =>
                \A e \in Endpoints, k \in 2..Cardinality(Endpoints) :
                    \A name \in Called(setup.naming, e) : Append(name, k) \in Nodes

VARIABLES
    naming,      \* one of Namings, chosen once
    cache,       \* the usable nodes of the cache file of each source
    phase,       \* "rest", "test" or "write"
    mode,        \* the speed test mode of the round, until it was followed
    pool,        \* the pool of nodes
    keys,        \* the tables still to be written, in order
    tested,      \* the speed test ran
    nodeTable,   \* whether there are rows with and without measured delays in
                 \* the table of nodes
    proved       \* history: measured passes in a row of each endpoint

roundVars == <<naming, cache, phase, mode, pool, keys, tested, nodeTable, proved>>
svars == <<qvars, roundVars>>

Modes == {"sync", "no_speedtest", "speedtest_write"}
Tables == {"sources", "nodes", "regions"}
Unproved == [e \in Endpoints |-> 0]

RoundTypeOK ==
    /\ GateTypeOK
    /\ naming \in {setup.naming : setup \in Setups}
    /\ cache \in [Sources -> Seq(Rows)]
    /\ phase \in {"rest", "test", "write"} /\ mode \in Modes
    /\ pool \in Seq([endpoint : Endpoints, name : Nodes])
    /\ keys \in Seq(Tables) /\ tested \in BOOLEAN
    /\ nodeTable \subseteq BOOLEAN
    /\ proved \in [Endpoints -> 0..Required]

RoundInit ==
    /\ GateInit
    /\ \E setup \in Setups : naming = setup.naming /\ cache = setup.cache
    /\ phase = "rest" /\ mode = "sync" /\ pool = <<>>
    /\ keys = <<>> /\ tested = FALSE /\ nodeTable = {}
    /\ proved = Unproved

-----------------------------------------------------------------------------
(* build_pool *)

Names(nodes) == {nodes[i].name : i \in DOMAIN nodes}
Holds(nodes, e) == \E i \in DOMAIN nodes : nodes[i].endpoint = e
NameOf(nodes, e) == nodes[CHOOSE i \in DOMAIN nodes : nodes[i].endpoint = e].name

\* Mutant: every name gets a suffix.
NumberedName(name, nodes) == Append(name, Len(nodes) + 1)

\* "name", then "name [2]", "name [3]"...: the first that no node of the pool has.
FreeName(name, nodes) ==
    LET Taken(k) == Append(name, k) \in Names(nodes)
        suffix == CHOOSE k \in 2..Len(nodes) + 2 :
                      ~Taken(k) /\ \A j \in 2..k - 1 : Taken(j)
    IN  IF name \in Names(nodes) THEN Append(name, suffix) ELSE name

\* Mutant: the name is the same whatever the endpoint.
AddByPosition(nodes, s, e) ==
    IF e \in Info \/ Holds(nodes, e) THEN nodes
    ELSE LET name == NameIn(naming, s, CHOOSE f \in Endpoints : TRUE)
         IN  Append(nodes, [endpoint |-> e, name |-> FreeName(name, nodes)])

\* A node of source s joins the pool, unless it is an info row or its endpoint is
\* there.
AddNode(nodes, s, e) ==
    IF e \in Info \/ Holds(nodes, e) THEN nodes
    ELSE Append(nodes, [endpoint |-> e, name |-> FreeName(NameIn(naming, s, e), nodes)])

-----------------------------------------------------------------------------
(* A round *)

\* Mutant: a source that fails has no nodes.
NoFallback(s) == <<>>

\* The nodes a source falls back on: one with a cache of its own only when it has
\* a URL.
Fallback(s) == IF Kinds[s] = "own" /\ s \notin Urls THEN <<>> ELSE cache[s]

\* What the downloads bring: of each source its nodes, or Down.
Answers ==
    {answer \in [Sources -> {Down} \cup UNION Range(Offers)] :
        \A s \in Sources : answer[s] # Down => s \in Urls /\ answer[s] \in Offers[s]}

\* The nodes of source s, each with the source.
NodesOf(s, answer) ==
    LET list == IF answer[s] = Down THEN Fallback(s) ELSE answer[s]
    IN  [i \in DOMAIN list |-> <<s, list[i]>>]

\* The nodes of all sources, in their order.
Collected(answer) == FlattenSeq([s \in Sources |-> NodesOf(s, answer)])

BuildPool(answer) ==
    LET list == Collected(answer)
        built[n \in 0..Len(list)] ==
            IF n = 0 THEN <<>> ELSE AddNode(built[n - 1], list[n][1], list[n][2])
    IN  built[Len(list)]

\* The sources whose caches the round may write.
Cacheable(answer) == {s \in Sources : answer[s] # Down /\ Kinds[s] # "foreign"}

\* The sources are downloaded, and cached when the cache is the script's and can
\* be written.  Nobody else reads the caches in between, and a run killed half
\* way leaves the caches of the sources it did not get to.
Collect(m) ==
    /\ phase = "rest"
    /\ phase' = "test" /\ mode' = m
    /\ \E answer \in Answers :
          /\ pool' = BuildPool(answer)
          /\ \E written \in SUBSET Cacheable(answer) :
                cache' = [s \in Sources |-> IF s \in written THEN answer[s] ELSE cache[s]]
    /\ UNCHANGED <<qvars, naming, keys, tested, nodeTable, proved>>

\* Mutant: the tables are replaced whether there was a speed test or not.
WriteKeysAlways(ran) ==
    IF mode = "speedtest_write" THEN <<"nodes", "regions">>
    ELSE <<"sources", "nodes", "regions">>

\* select_write_keys
WriteKeys(ran) ==
    CASE ~ran -> IF mode = "speedtest_write" THEN <<>> ELSE <<"sources">>
      [] ran /\ mode = "speedtest_write" -> <<"nodes", "regions">>
      [] ran /\ mode # "speedtest_write" -> <<"sources", "nodes", "regions">>

\* The round is done with its sources and goes on to write.
Decided(ran) ==
    /\ phase = "test"
    /\ phase' = "write" /\ tested' = ran /\ keys' = WriteKeys(ran) /\ mode' = "sync"
    /\ UNCHANGED <<naming, cache, pool, nodeTable>>

\* The pool is empty, or not to be tested, or neither the temporary core nor the
\* live controller could test it.
LeaveUntested == Decided(FALSE) /\ UNCHANGED <<qvars, proved>>

\* For the history variable: what was measured of the endpoints themselves.  It is
\* followed where names tell them apart.
NamesDiffer == Apart(naming)
CountPasses(passed) ==
    [e \in Endpoints |-> IF ~Holds(pool, e) \/ NameOf(pool, e) \notin passed THEN 0
                         ELSE IF proved[e] < Required THEN proved[e] + 1
                         ELSE Required]

\* The nodes of passed answered both GPT targets; measured have a known egress in
\* a region of the table, none when only the live controller could be asked.  That
\* one is asked by name: that it means the same endpoint is taken for granted.
Test ==
    /\ Decided(TRUE)
    /\ mode # "no_speedtest" /\ pool # <<>>
    /\ \E passed, measured \in SUBSET Names(pool) :
          /\ Measure(Names(pool), passed, measured)
          /\ proved' = IF NamesDiffer THEN CountPasses(passed) ELSE proved

Writing(table) ==
    /\ phase = "write" /\ keys # <<>> /\ Head(keys) = table
    /\ keys' = Tail(keys)
    /\ UNCHANGED <<naming, cache, phase, mode, pool, tested, proved>>

WriteSourceTable == Writing("sources") /\ UNCHANGED <<qvars, nodeTable>>

\* build_node_records lists a node without measured delay all the same; an empty
\* pool does not replace the table.
WriteNodeTable ==
    /\ Writing("nodes")
    /\ nodeTable' = IF pool = <<>> THEN nodeTable ELSE {tested}
    /\ IF tested THEN WriteNodes ELSE UNCHANGED qvars

WriteRegionTable ==
    /\ Writing("regions")
    /\ UNCHANGED nodeTable
    /\ IF tested THEN WriteRegions ELSE UNCHANGED qvars

EndRound ==
    /\ phase' = "rest" /\ mode' = "sync" /\ pool' = <<>>
    /\ keys' = <<>> /\ tested' = FALSE
    /\ UNCHANGED <<naming, cache, proved>>

\* All tables are written; a tested round saves the history.
Finish ==
    /\ phase = "write" /\ keys = <<>>
    /\ IF tested THEN SaveHistory ELSE UNCHANGED qvars
    /\ EndRound
    /\ UNCHANGED nodeTable

\* replace_records may have created its rows before it failed.
HalfWritten ==
    nodeTable' \in {nodeTable, IF keys # <<>> /\ Head(keys) = "nodes" /\ pool # <<>>
                               THEN nodeTable \cup {tested} ELSE nodeTable}

\* Mutant: the history is saved when the tables could not be written, too.
WriteRefusedSaved ==
    /\ "write" \in Failures
    /\ phase = "write" /\ keys # <<>>
    /\ history' = IF tested THEN next ELSE history
    /\ End /\ UNCHANGED <<regions, passes, forgotten>>
    /\ HalfWritten
    /\ EndRound

\* The first table that cannot be replaced ends the round.
WriteRefused ==
    /\ "write" \in Failures
    /\ phase = "write" /\ keys # <<>>
    /\ IF tested THEN WriteFails ELSE UNCHANGED qvars
    /\ HalfWritten
    /\ EndRound

\* Also a round that fails before it writes: without credentials, say.
KillRound ==
    /\ "run" \in Failures
    /\ phase # "rest"
    /\ IF tested THEN Killed ELSE UNCHANGED qvars
    /\ HalfWritten
    /\ EndRound

HistoryLost == LoseHistory /\ UNCHANGED roundVars

-----------------------------------------------------------------------------
GoOnRound ==
    \/ LeaveUntested \/ Test
    \/ WriteSourceTable \/ WriteNodeTable \/ WriteRegionTable \/ Finish

RoundNext ==
    \/ \E m \in Modes : Collect(m)
    \/ GoOnRound
    \/ WriteRefused \/ KillRound \/ HistoryLost

RoundSpec == RoundInit /\ [][RoundNext]_svars

\* The daily task starts the sync again and again, whoever else does, and what
\* is started goes on.
FairRoundSpec ==
    RoundSpec /\ SF_svars(Collect("sync")) /\ WF_svars(GoOnRound)

-----------------------------------------------------------------------------
(* Properties *)

\* The gate of the rounds is the gate on its own: whatever the sources, the caches,
\* the names and the modes do to the pool, the history and the table of regions
\* only go through its steps.
ImplementsGate == GateSpec

\* What is declared usable is an endpoint that passed in as many measured rounds
\* in a row as the gate requires, and not only a name under which some endpoints
\* did, when no two endpoints are called alike by any source or config.yaml: sources
\* that fail and fall back move no name to another endpoint.
UsableEndpointPassed ==
    \A row \in rows, i \in DOMAIN pool :
        row.usable /\ row.node = pool[i].name /\ row.node \notin forgotten /\ NamesDiffer
            => proved[pool[i].endpoint] >= Required

\* "A run that never measured delays must not touch" the table of nodes ("the
\* 12:45 wipe"): every delay it shows was measured, whatever modes take turns and
\* whatever write is cut.
DelaysAreMeasured == FALSE \notin nodeTable

\* From some point on a source that names e in every answer has e in its cache;
\* rounds of the daily task are tested, find e passing when they have it, and end
\* by saving; the history is not lost.  Downloads may go on failing.
Supplies(s, e) ==
    /\ Kinds[s] # "own" \/ s \in Urls
    /\ \A list \in Offers[s] : e \in Range(list)
\* All sources call e the same, once config.yaml has renamed the nodes of source 4.
\* Otherwise it changes its name, and starts over, whenever the first of its
\* sources comes or goes.
OneName(e) == Cardinality(Called(naming, e)) = 1
TheName(e) == CHOOSE name \in Called(naming, e) : TRUE
Undisturbed(e) ==
    /\ \E s \in Sources : Supplies(s, e) /\ e \in Range(cache'[s])
    /\ phase = "test" => phase' # "rest" /\ (mode = "sync" /\ phase' = "write" => tested')
    /\ tested' /\ ~tested /\ Holds(pool, e)
         => next'[TheName(e)] > 0 /\ \E row \in rows' : row.node = TheName(e)
    /\ tested /\ ~tested' => pc = "save" /\ history' = next
    /\ history' # history => pc = "save"

\* A node that goes on passing is declared usable in the end, although its source
\* may be down for good: the cache keeps it in the pool under its name.
PassingNodeUsable ==
    \A e \in Endpoints :
        NamesDiffer /\ OneName(e) /\ <>[][Undisturbed(e)]_svars
            => <>[](/\ \E row \in regions : row.node = TheName(e)
                    /\ \A row \in regions : row.node = TheName(e) => row.usable)
=============================================================================
