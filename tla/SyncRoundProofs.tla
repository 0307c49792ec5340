--------------------------- MODULE SyncRoundProofs ---------------------------
(***************************************************************************)
(* For any nodes, any required number of passes and any failures, a node   *)
(* that is declared usable has passed that often in a row, unless its last *)
(* failure was measured by a round that did not save the history.  The     *)
(* rounds of the sync only take the gate's steps, whatever their sources,  *)
(* caches and names are; the pool they build gives an endpoint the name it *)
(* has in the subscriptions when these tell endpoints apart, so that what  *)
(* holds of names holds of the endpoints behind them.                      *)
(***************************************************************************)
EXTENDS SyncRound, DataLemmas

\* The history counts no more passes than there were.  A round that measured a
\* failure makes the count stale until it has saved the new one.
HistoryBacked ==
    \A n \in Nodes \ forgotten :
        pc = "idle" \/ passes[n] > 0 => history[n] <= passes[n]

\* What the round will save counts what was measured, and nothing for a node
\* that failed in it.
NextBacked ==
    pc # "idle" => \A n \in Nodes : /\ passes[n] = 0 => next[n] = 0
                                    /\ n \notin forgotten => next[n] <= passes[n]

\* The rows of the round declare by that count.
RowsBacked ==
    /\ pc = "idle" => rows = {}
    /\ \A row \in rows : row.usable => next[row.node] >= Required

GateInv == GateTypeOK /\ HistoryBacked /\ NextBacked /\ RowsBacked

\* advance_gpt_history keeps the counts in range, and whatever the older history
\* fell short of, the new one does.
LEMMA AdvanceCounts ==
  ASSUME GateAssumption, NEW counts \in Counts, NEW tried, NEW passed
  PROVE  /\ Advance(counts, tried, passed) \in Counts
         /\ InARow(counts, tried, passed) \in Counts
BY DEF GateAssumption, Counts, Advance, InARow

LEMMA AdvanceBacked ==
  ASSUME GateAssumption, NEW counts \in Counts, NEW real \in Counts,
         NEW tried, NEW passed, NEW n \in Nodes
  PROVE  /\ InARow(real, tried, passed)[n] = 0 => Advance(counts, tried, passed)[n] = 0
         /\ counts[n] <= real[n] =>
              Advance(counts, tried, passed)[n] <= InARow(real, tried, passed)[n]
         /\ counts[n] <= real[n] /\ InARow(real, tried, passed)[n] > 0 =>
              counts[n] <= InARow(real, tried, passed)[n]
BY DEF GateAssumption, Counts, Advance, InARow

\* build_region_records declares only nodes with the required count.
LEMMA RowsOfCounts ==
  ASSUME NEW counts \in Counts, NEW measured \in SUBSET Nodes, NEW passed
  PROVE  /\ RegionRecords(measured, passed, counts) \subseteq Row
         /\ \A row \in RegionRecords(measured, passed, counts) :
               row.usable => counts[row.node] >= Required
<1>1. SUFFICES ASSUME NEW row \in RegionRecords(measured, passed, counts)
               PROVE  row \in Row /\ (row.usable => counts[row.node] >= Required)
  OBVIOUS
<1>2. PICK n \in measured :
        row = [node |-> n, usable |-> n \in passed /\ counts[n] >= Required]
  BY Zenon DEF RegionRecords
<1>3. row.node = n
  BY <1>2
<1>4. row.usable = (n \in passed /\ counts[n] >= Required)
  BY <1>2, Zenon
<1>5. row.usable => counts[row.node] >= Required
  BY <1>3, <1>4, Zenon
<1>6. n \in Nodes
  OBVIOUS
<1>7. (n \in passed /\ counts[n] >= Required) \in BOOLEAN
  OBVIOUS
<1>8. row \in Row
  BY <1>2, <1>6, <1>7, Zenon DEF Row
<1> QED
  BY <1>5, <1>8

LEMMA GateInvAtInit ==
  ASSUME GateAssumption, GateInit
  PROVE  GateInv
BY DEF GateAssumption, GateInit, GateInv, GateTypeOK, HistoryBacked, NextBacked,
       RowsBacked, Counts, Zero

LEMMA GateInvPreserved ==
  ASSUME GateAssumption, GateInv, [GateNext]_qvars
  PROVE  GateInv'
<1>1. ASSUME NEW tried \in SUBSET Nodes, NEW passed \in SUBSET tried,
             NEW measured \in SUBSET tried, Measure(tried, passed, measured)
      PROVE  GateInv'
  <2>1. /\ next' \in Counts /\ passes' \in Counts
        /\ next' = Advance(history, tried, passed)
        /\ passes' = InARow(passes, tried, passed)
    BY <1>1, AdvanceCounts DEF GateInv, GateTypeOK, Measure
  <2>2. /\ rows' \subseteq Row
        /\ \A row \in rows' : row.usable => next'[row.node] >= Required
    BY <1>1, <2>1, RowsOfCounts DEF Measure
  <2>3. GateTypeOK'
    BY <1>1, <2>1, <2>2 DEF GateInv, GateTypeOK, Measure
  <2>4. \A n \in Nodes \ forgotten : history[n] <= passes[n]
    BY <1>1 DEF GateInv, HistoryBacked, Measure
  <2>5. history \in Counts /\ passes \in Counts
    BY DEF GateInv, GateTypeOK
  <2>6. ASSUME NEW n \in Nodes
        PROVE  /\ passes'[n] = 0 => next'[n] = 0
               /\ n \notin forgotten => next'[n] <= passes'[n]
               /\ n \notin forgotten /\ passes'[n] > 0 => history[n] <= passes'[n]
    BY <2>1, <2>4, <2>5, AdvanceBacked
  <2>7. HistoryBacked' /\ NextBacked'
    BY <1>1, <2>6 DEF HistoryBacked, NextBacked, Measure
  <2> QED
    BY <1>1, <2>2, <2>3, <2>7 DEF GateInv, RowsBacked, Measure
<1>2. ASSUME WriteNodes
      PROVE  GateInv'
  BY <1>2 DEF WriteNodes, GateInv, GateTypeOK, HistoryBacked, NextBacked, RowsBacked
<1>3. ASSUME WriteRegions
      PROVE  GateInv'
  BY <1>3 DEF WriteRegions, GateInv, GateTypeOK, HistoryBacked, NextBacked, RowsBacked
\* A round that ends without saving leaves the nodes that failed forgotten.
<1>4. ASSUME End, Unsaved, UNCHANGED <<history, passes>>, regions' \subseteq Row,
             pc # "idle"
      PROVE  GateInv'
  <2>1. Zero \in Counts
    BY DEF GateAssumption, Zero, Counts
  <2>2. GateTypeOK'
    BY <1>4, <2>1 DEF End, Unsaved, Failed, GateInv, GateTypeOK
  <2>3. ASSUME NEW n \in Nodes \ forgotten'
        PROVE  history'[n] <= passes'[n]
    <3>1. n \notin forgotten /\ passes[n] # 0
      BY <1>4, <2>3 DEF Unsaved, Failed
    <3>2. passes[n] \in 0..Required
      BY DEF GateInv, GateTypeOK, Counts
    <3> QED
      BY <1>4, <3>1, <3>2 DEF GateAssumption, GateInv, HistoryBacked
  <2> QED
    BY <1>4, <2>2, <2>3 DEF End, GateInv, HistoryBacked, NextBacked, RowsBacked
<1>5. ASSUME WriteFails
      PROVE  GateInv'
  <2>1. regions' \subseteq Row
    BY <1>5 DEF WriteFails, GateInv, GateTypeOK
  <2> QED
    BY <1>4, <1>5, <2>1 DEF WriteFails
<1>6. ASSUME Killed
      PROVE  GateInv'
  BY <1>4, <1>6 DEF Killed, GateInv, GateTypeOK
<1>7. ASSUME SaveHistory
      PROVE  GateInv'
  <2>1. CASE history' = next /\ forgotten' = forgotten \ Failed
    <3>1. Zero \in Counts
      BY DEF GateAssumption, Zero, Counts
    <3>2. GateTypeOK'
      BY <1>7, <2>1, <3>1 DEF SaveHistory, End, GateInv, GateTypeOK
    \* Who failed is at zero in what was saved.
    <3>3. ASSUME NEW n \in Nodes \ forgotten'
          PROVE  history'[n] <= passes'[n]
      <4>1. CASE n \in forgotten
        <5>1. passes[n] = 0 /\ next[n] = 0
          BY <1>7, <2>1, <3>3, <4>1 DEF Failed, SaveHistory, GateInv, NextBacked
        <5> QED
          BY <1>7, <2>1, <5>1 DEF SaveHistory
      <4>2. CASE n \notin forgotten
        BY <1>7, <2>1, <4>2 DEF SaveHistory, GateInv, NextBacked
      <4> QED
        BY <4>1, <4>2
    <3> QED
      BY <1>7, <3>2, <3>3
         DEF SaveHistory, End, GateInv, HistoryBacked, NextBacked, RowsBacked
  <2>2. CASE UNCHANGED history /\ Unsaved
    BY <1>4, <1>7, <2>2 DEF SaveHistory, GateInv, GateTypeOK
  <2> QED
    BY <1>7, <2>1, <2>2 DEF SaveHistory
<1>8. ASSUME LoseHistory
      PROVE  GateInv'
  BY <1>8 DEF GateAssumption, LoseHistory, Zero, Counts, GateInv, GateTypeOK,
              HistoryBacked, NextBacked, RowsBacked
<1>9. CASE UNCHANGED qvars
  BY <1>9 DEF qvars, GateInv, GateTypeOK, HistoryBacked, NextBacked, RowsBacked
<1> QED
  BY <1>1, <1>2, <1>3, <1>5, <1>6, <1>7, <1>8, <1>9 DEF GateNext

LEMMA GateInvHolds ==
  ASSUME GateAssumption
  PROVE  GateSpec => []GateInv
<1>1. GateInit => GateInv
  BY GateInvAtInit
<1>2. GateInv /\ [GateNext]_qvars => GateInv'
  BY GateInvPreserved
<1> QED
  BY <1>1, <1>2, PTL DEF GateSpec

\* The counts stay within the required number, as the tables show them.
THEOREM GateTypes ==
  ASSUME GateAssumption
  PROVE  GateSpec => []GateTypeOK
BY GateInvHolds, PTL DEF GateInv

LEMMA UsableWhenBacked ==
  ASSUME GateAssumption, GateInv
  PROVE  UsableAfterPassesInARow
<1>1. SUFFICES ASSUME NEW row \in rows, row.usable, row.node \notin forgotten
               PROVE  passes[row.node] >= Required
  BY DEF UsableAfterPassesInARow
<1>2. pc # "idle" /\ row.node \in Nodes /\ next[row.node] >= Required
  BY <1>1 DEF GateInv, GateTypeOK, RowsBacked, Row
<1>3. next[row.node] <= passes[row.node]
  BY <1>1, <1>2 DEF GateInv, NextBacked
<1>4. next[row.node] \in Nat /\ passes[row.node] \in Nat /\ Required \in Nat
  BY <1>1, <1>2 DEF GateAssumption, GateInv, GateTypeOK, Counts
<1> QED
  BY <1>2, <1>3, <1>4

\* No node is declared usable before it passed in the required number of
\* measured rounds in a row, but for a failure that was not saved
\* (advance_gpt_history, build_region_records, save_gpt_history).
THEOREM UsableAfterPasses ==
  ASSUME GateAssumption
  PROVE  GateSpec => []UsableAfterPassesInARow
<1>1. GateInv => UsableAfterPassesInARow
  BY UsableWhenBacked
<1> QED
  BY <1>1, GateInvHolds, PTL

-----------------------------------------------------------------------------
(* The pool *)

\* The names of this run are those of a setup.
NamesFit ==
    /\ naming \in Namings
    /\ ~NamesDiffer => \A e \in Endpoints, k \in 2..Cardinality(Endpoints) :
                          \A name \in Called(naming, e) : Append(name, k) \in Nodes

PoolNode == [endpoint : Endpoints, name : Nodes]

\* Every endpoint is there once, under a name of its own when names tell them apart.
GoodPool(nodes) ==
    /\ nodes \in Seq(PoolNode)
    /\ \A i, j \in DOMAIN nodes : nodes[i].endpoint = nodes[j].endpoint => i = j
    /\ NamesDiffer => \A i \in DOMAIN nodes :
                         nodes[i].name \in Called(naming, nodes[i].endpoint)

LEMMA NameInType ==
  ASSUME NamesFit, NEW s \in Sources, NEW e \in Endpoints
  PROVE  /\ NameIn(naming, s, e) \in Nodes /\ NameIn(naming, s, e) \in Seq(Nat)
         /\ NameIn(naming, s, e) \in Called(naming, e)
<1> DEFINE Text == Nodes \cap Seq(Nat)
<1>1. /\ naming.given \in [Sources -> [Endpoints -> Text]]
      /\ naming.config \in UNION {[known -> Text] : known \in SUBSET Endpoints}
  BY DEF NamesFit, Namings
<1>2. PICK known \in SUBSET Endpoints : naming.config \in [known -> Text]
  BY <1>1
<1> HIDE DEF Text
<1>3. NameIn(naming, s, e) \in Text
  BY <1>1, <1>2 DEF NameIn
<1> QED
  BY <1>3 DEF Text, Called

LEMMA CalledType ==
  ASSUME NamesFit, NEW e \in Endpoints
  PROVE  Called(naming, e) \subseteq Nodes
BY NameInType DEF Called

\* There is room for one more endpoint than the pool holds.
LEMMA PoolSmaller ==
  ASSUME RoundAssumption, NEW nodes, GoodPool(nodes),
         NEW e \in Endpoints, ~Holds(nodes, e)
  PROVE  Len(nodes) + 1 <= Cardinality(Endpoints)
<1> DEFINE len == Len(nodes)
           f == [i \in 0..len |-> IF i = 0 THEN e ELSE nodes[i].endpoint]
<1>1. len \in Nat /\ DOMAIN nodes = 1..len /\ \A i \in 1..len : nodes[i] \in PoolNode
  BY DEF GoodPool
<1> HIDE DEF len
<1>2. \A i \in 1..len : nodes[i].endpoint \in Endpoints /\ nodes[i].endpoint # e
  BY <1>1 DEF PoolNode, Holds
<1>3. f \in [0..len -> Endpoints]
  BY <1>1, <1>2
<1>4. ASSUME NEW i \in 0..len, NEW j \in 0..len, f[i] = f[j]
      PROVE  i = j
  <2>1. CASE i = 0 \/ j = 0
    BY <1>1, <1>2, <1>4, <2>1
  <2>2. CASE i # 0 /\ j # 0
    <3>1. i \in 1..len /\ j \in 1..len
      BY <1>1, <2>2
    <3> QED
      BY <1>1, <1>4, <2>2, <3>1 DEF GoodPool
  <2> QED
    BY <2>1, <2>2
<1> HIDE DEF f
<1>5. f \in Injection(0..len, Endpoints)
  BY <1>3, <1>4 DEF Injection, IsInjective
<1>6. Cardinality(0..len) <= Cardinality(Endpoints)
  BY <1>5, FS_Injection DEF RoundAssumption
<1>7. Cardinality(0..len) = len + 1
  BY <1>1, FS_Interval
<1> QED
  BY <1>6, <1>7 DEF len

LEMMA FewNames ==
  ASSUME NEW nodes \in Seq(PoolNode)
  PROVE  /\ IsFiniteSet(Names(nodes)) /\ Cardinality(Names(nodes)) \in Nat
         /\ Cardinality(Names(nodes)) <= Len(nodes)
<1> DEFINE len == Len(nodes)
           g == [i \in 1..len |-> nodes[i].name]
<1>1. len \in Nat /\ DOMAIN nodes = 1..len
  OBVIOUS
<1> HIDE DEF len
<1>2. g \in Surjection(1..len, Names(nodes))
  BY <1>1 DEF Surjection, Names
<1> HIDE DEF g
<1>3. IsFiniteSet(1..len) /\ Cardinality(1..len) = len
  BY <1>1, FS_Interval
<1>4. IsFiniteSet(Names(nodes)) /\ Cardinality(Names(nodes)) <= len
  BY <1>2, <1>3, FS_Surjection
<1> QED
  BY <1>4, FS_CardinalityType DEF len

\* A new endpoint has its own name, or a name that is free, and both are among
\* those of the model.
LEMMA FreeNameFits ==
  ASSUME RoundAssumption, NamesFit, NEW nodes, GoodPool(nodes),
         NEW s \in Sources, NEW e \in Endpoints, ~Holds(nodes, e)
  PROVE  /\ FreeName(NameIn(naming, s, e), nodes) \in Nodes
         /\ NamesDiffer => FreeName(NameIn(naming, s, e), nodes) \in Called(naming, e)
<1> DEFINE name == NameIn(naming, s, e)
           First(k) == /\ Append(name, k) \notin Names(nodes)
                       /\ \A j \in 2..k - 1 : Append(name, j) \in Names(nodes)
           suffix == CHOOSE k \in 2..Len(nodes) + 2 : First(k)
<1>1. FreeName(name, nodes) = IF name \in Names(nodes) THEN Append(name, suffix) ELSE name
  BY DEF FreeName
<1>2. name \in Nodes /\ name \in Seq(Nat) /\ name \in Called(naming, e)
  BY NameInType
<1> HIDE DEF name
<1>3. CASE NamesDiffer
  <2>1. ASSUME NEW i \in DOMAIN nodes
        PROVE  nodes[i].name # name
    <3>1. nodes[i] \in PoolNode
      BY DEF GoodPool
    <3>2. nodes[i].endpoint \in Endpoints /\ nodes[i].endpoint # e
      BY <3>1 DEF PoolNode, Holds
    <3>3. nodes[i].name \in Called(naming, nodes[i].endpoint)
      BY <1>3 DEF GoodPool
    <3> QED
      BY <1>2, <1>3, <3>2, <3>3 DEF NamesDiffer, Apart
  <2>2. name \notin Names(nodes)
    BY <2>1, Zenon DEF Names
  <2> QED
    BY <1>1, <1>2, <2>2 DEF name
<1>4. CASE ~NamesDiffer /\ name \in Names(nodes)
  <2>1. nodes \in Seq(PoolNode) /\ Len(nodes) \in Nat
    BY DEF GoodPool
  <2>2. /\ IsFiniteSet(Names(nodes)) /\ Cardinality(Names(nodes)) \in Nat
        /\ Cardinality(Names(nodes)) <= Len(nodes)
    BY <2>1, FewNames
  <2>3. PICK k \in 2..Cardinality(Names(nodes)) + 1 : First(k)
    BY <1>2, <1>4, <2>2, FirstFreeSuffix
  <2>4. k \in 2..Len(nodes) + 2
    BY <2>1, <2>2
  <2>5. suffix \in 2..Len(nodes) + 2 /\ First(suffix)
    <3> HIDE DEF First
    <3> QED
      BY <2>3, <2>4
  \* All suffixes before it are taken, by as many nodes of the pool.
  <2>6. suffix <= k
    <3>1. suffix \in Nat /\ k \in Nat
      BY <2>1, <2>2, <2>5
    <3> HIDE DEF suffix
    <3> QED
      BY <2>3, <2>5, <3>1
  <2> HIDE DEF suffix
  <2>7. Len(nodes) + 1 <= Cardinality(Endpoints) /\ Cardinality(Endpoints) \in Nat
    BY PoolSmaller, FS_CardinalityType DEF RoundAssumption
  <2>8. suffix \in 2..Cardinality(Endpoints)
    BY <2>1, <2>2, <2>5, <2>6, <2>7
  <2>9. Append(name, suffix) \in Nodes
    BY <1>2, <1>4, <2>8 DEF NamesFit
  <2> QED
    BY <1>1, <1>4, <2>9 DEF name
<1>5. CASE ~NamesDiffer /\ name \notin Names(nodes)
  BY <1>1, <1>2, <1>5 DEF name
<1> QED
  BY <1>3, <1>4, <1>5 DEF name

LEMMA AddNodeGood ==
  ASSUME RoundAssumption, NamesFit, NEW nodes, GoodPool(nodes),
         NEW s \in Sources, NEW e \in Rows
  PROVE  GoodPool(AddNode(nodes, s, e))
<1>1. CASE e \in Info \/ Holds(nodes, e)
  BY <1>1 DEF AddNode
<1>2. CASE e \notin Info /\ ~Holds(nodes, e)
  <2> DEFINE node == [endpoint |-> e, name |-> FreeName(NameIn(naming, s, e), nodes)]
  <2>1. e \in Endpoints
    BY <1>2 DEF Rows
  <2>2. /\ node \in PoolNode /\ node.endpoint = e
        /\ NamesDiffer => node.name \in Called(naming, e)
    BY <1>2, <2>1, FreeNameFits DEF PoolNode
  <2>3. AddNode(nodes, s, e) = Append(nodes, node)
    BY <1>2 DEF AddNode
  <2> HIDE DEF node
  <2>4. nodes \in Seq(PoolNode)
    BY DEF GoodPool
  <2> DEFINE more == Append(nodes, node)
  <2>5. /\ more \in Seq(PoolNode) /\ Len(nodes) \in Nat
        /\ DOMAIN nodes = 1..Len(nodes) /\ DOMAIN more = 1..Len(nodes) + 1
        /\ more[Len(nodes) + 1] = node
        /\ \A i \in 1..Len(nodes) : more[i] = nodes[i]
    BY <2>2, <2>4
  <2> HIDE DEF more
  <2>6. ASSUME NEW i \in DOMAIN more
        PROVE  i \in DOMAIN nodes \/ i = Len(nodes) + 1
    BY <2>5
  <2>7. \A i \in DOMAIN nodes : more[i].endpoint # e
    BY <1>2, <2>5 DEF Holds
  <2>8. ASSUME NEW i \in DOMAIN more, NEW j \in DOMAIN more,
               more[i].endpoint = more[j].endpoint
        PROVE  i = j
    <3>1. CASE i \in DOMAIN nodes /\ j \in DOMAIN nodes
      BY <2>5, <2>8, <3>1 DEF GoodPool
    <3>2. CASE i = Len(nodes) + 1 \/ j = Len(nodes) + 1
      BY <2>2, <2>5, <2>6, <2>7, <2>8, <3>2
    <3> QED
      BY <2>6, <3>1, <3>2
  <2>9. ASSUME NamesDiffer, NEW i \in DOMAIN more
        PROVE  more[i].name \in Called(naming, more[i].endpoint)
    <3>1. CASE i \in DOMAIN nodes
      BY <2>5, <2>9, <3>1 DEF GoodPool
    <3>2. CASE i = Len(nodes) + 1
      BY <2>2, <2>5, <2>9, <3>2
    <3> QED
      BY <2>6, <3>1, <3>2
  <2>10. GoodPool(more)
    BY <2>5, <2>8, <2>9 DEF GoodPool
  <2> QED
    BY <2>3, <2>10 DEF more
<1> QED
  BY <1>1, <1>2

Listed == Sources \X Rows

Builds(built, list) ==
    built = [n \in 0..Len(list) |->
                IF n = 0 THEN <<>> ELSE AddNode(built[n - 1], list[n][1], list[n][2])]

LEMMA BuildExists ==
  ASSUME RoundAssumption, NamesFit, NEW list \in Seq(Listed)
  PROVE  \E built : Builds(built, list)
<1> DEFINE len == Len(list)
           Pools == {nodes \in Seq(PoolNode) : GoodPool(nodes)}
           Add(nodes, n) == AddNode(nodes, list[n][1], list[n][2])
           start == <<>>
           adding == [n \in Nat |-> [nodes \in Pools |->
                         IF n \in 1..len THEN Add(nodes, n) ELSE nodes]]
<1>1. len \in Nat /\ \A n \in 1..len : list[n][1] \in Sources /\ list[n][2] \in Rows
  BY DEF Listed
<1>2. ASSUME NEW n \in 1..len, NEW nodes \in Pools
      PROVE  Add(nodes, n) \in Pools
  <2>1. GoodPool(AddNode(nodes, list[n][1], list[n][2]))
    BY <1>1, AddNodeGood
  <2> QED
    BY <2>1 DEF GoodPool
<1>3. start \in Pools
  <2>1. <<>> \in Seq(PoolNode) /\ DOMAIN <<>> = {}
    OBVIOUS
  <2> QED
    BY <2>1 DEF GoodPool
<1> HIDE DEF Add, len, Pools
<1>4. adding \in [Nat -> [Pools -> Pools]]
  BY <1>2
<1> HIDE DEF adding, start
<1>5. PICK f \in [Nat -> Pools] : Follows(f, start, adding)
  BY <1>3, <1>4, RecursionExists
<1> DEFINE pools == [n \in 0..len |-> f[n]]
<1>6. ASSUME NEW n \in 0..len
      PROVE  pools[n] = IF n = 0 THEN start ELSE Add(pools[n - 1], n)
  <2>1. CASE n = 0
    BY <1>1, <1>5, <2>1 DEF Follows
  <2>2. CASE n # 0
    <3>1. n \in 1..len /\ n - 1 \in 0..len /\ n - 1 \in Nat /\ n - 1 + 1 = n
      BY <1>1, <2>2
    <3>2. f[n] = adding[n][f[n - 1]] /\ f[n - 1] \in Pools
      BY <1>5, <3>1 DEF Follows
    <3>3. f[n] = Add(f[n - 1], n)
      BY <3>1, <3>2 DEF adding
    <3> QED
      BY <2>2, <3>1, <3>3
  <2> QED
    BY <2>1, <2>2
<1>7. pools = [n \in 0..len |-> pools[n]]
  OBVIOUS
<1> HIDE DEF pools
<1>8. pools = [n \in 0..len |-> IF n = 0 THEN start ELSE Add(pools[n - 1], n)]
  BY <1>6, <1>7
<1>9. Builds(pools, list)
  BY <1>8 DEF Builds, Add, len, start
<1> QED
  BY <1>9

\* build_pool: whatever the nodes of the sources.
LEMMA BuiltGood ==
  ASSUME RoundAssumption, NamesFit, NEW answer, Collected(answer) \in Seq(Listed)
  PROVE  GoodPool(BuildPool(answer))
<1> DEFINE list == Collected(answer)
           len == Len(list)
           pools == CHOOSE built : Builds(built, list)
           P == {n \in Nat : n <= len => GoodPool(pools[n])}
<1>1. BuildPool(answer) = pools[len]
  BY DEF BuildPool, Builds
<1> HIDE DEF list
<1>2. /\ list \in Seq(Listed) /\ len \in Nat
      /\ \A n \in 1..len : list[n][1] \in Sources /\ list[n][2] \in Rows
  BY DEF list, Listed
<1>3. Builds(pools, list)
  BY <1>2, BuildExists
<1> HIDE DEF pools
<1>4. \A n \in 0..len :
         pools[n] = IF n = 0 THEN <<>>
                    ELSE AddNode(pools[n - 1], list[n][1], list[n][2])
  BY <1>3 DEF Builds
<1> HIDE DEF len
<1>5. 0 \in P
  <2>1. pools[0] = <<>>
    BY <1>2, <1>4
  <2>2. <<>> \in Seq(PoolNode) /\ DOMAIN <<>> = {}
    OBVIOUS
  <2> QED
    BY <2>1, <2>2 DEF GoodPool
<1>6. ASSUME NEW n \in Nat, n \in P
      PROVE  n + 1 \in P
  <2> SUFFICES ASSUME NEW i \in 1..len, i = n + 1
               PROVE  GoodPool(pools[i])
    BY <1>2
  <2>1. i \in 0..len /\ i # 0 /\ i - 1 = n /\ n <= len
    BY <1>2
  <2>2. pools[i] = AddNode(pools[n], list[i][1], list[i][2])
    BY <1>4, <2>1
  <2>3. GoodPool(pools[n])
    BY <1>6, <2>1
  <2> QED
    BY <1>2, <2>2, <2>3, AddNodeGood
<1>7. Nat \subseteq P
  <2> HIDE DEF P
  <2> QED
    BY <1>5, <1>6, NatInd
<1> QED
  BY <1>1, <1>2, <1>7

LEMMA NamesInNodes ==
  ASSUME NEW nodes \in Seq(PoolNode)
  PROVE  Names(nodes) \subseteq Nodes
<1>1. \A i \in DOMAIN nodes : nodes[i] \in PoolNode
  OBVIOUS
<1>2. \A i \in DOMAIN nodes : nodes[i].name \in Nodes
  BY <1>1 DEF PoolNode
<1> QED
  BY <1>2 DEF Names

-----------------------------------------------------------------------------
(* The rounds *)

\* The nodes of a download, or of the cache it falls back on.
LEMMA CollectedRows ==
  ASSUME RoundAssumption, cache \in [Sources -> Seq(Rows)], NEW answer \in Answers
  PROVE  /\ Collected(answer) \in Seq(Listed)
         /\ \A s \in Sources : answer[s] # Down => answer[s] \in Seq(Rows)
<1> DEFINE nodesOf == [s \in Sources |-> NodesOf(s, answer)]
<1>1. Sources = 1..Len(Kinds) /\ Len(Kinds) \in Nat
  BY DEF RoundAssumption, Sources
<1>2. ASSUME NEW s \in Sources, answer[s] # Down
      PROVE  answer[s] \in Seq(Rows)
  <2>1. answer[s] \in Offers[s]
    BY <1>2 DEF Answers
  <2>2. Offers[s] \in SUBSET Seq(Rows)
    BY DEF RoundAssumption
  <2> QED
    BY <2>1, <2>2
<1>3. \A s \in Sources : Fallback(s) \in Seq(Rows)
  <2>1. <<>> \in Seq(Rows)
    OBVIOUS
  <2> QED
    BY <2>1 DEF Fallback
<1>4. ASSUME NEW s \in Sources
      PROVE  NodesOf(s, answer) \in Seq(Listed)
  <2> DEFINE list == IF answer[s] = Down THEN Fallback(s) ELSE answer[s]
  <2>1. list \in Seq(Rows)
    BY <1>2, <1>3
  <2>2. NodesOf(s, answer) = [i \in DOMAIN list |-> <<s, list[i]>>]
    BY DEF NodesOf
  <2> HIDE DEF list
  <2>3. DOMAIN list = 1..Len(list) /\ Len(list) \in Nat /\ \A i \in 1..Len(list) : list[i] \in Rows
    BY <2>1
  <2>4. NodesOf(s, answer) \in [1..Len(list) -> Listed]
    BY <2>2, <2>3 DEF Listed
  <2> QED
    BY <2>3, <2>4
<1>5. Collected(answer) = FlattenSeq(nodesOf)
  BY DEF Collected
<1> HIDE DEF nodesOf
<1>6. nodesOf \in Seq(Seq(Listed))
  <2>1. nodesOf \in [1..Len(Kinds) -> Seq(Listed)]
    BY <1>1, <1>4 DEF nodesOf
  <2> QED
    BY <1>1, <2>1
<1> QED
  BY <1>2, <1>5, <1>6, FlattenSeqType

\* Only rounds that were tested write the table of nodes.
KeysAfterTest == tested \/ \A i \in DOMAIN keys : keys[i] # "nodes"

\* What was measured of a name was measured of its endpoint.
ProvedByName ==
    NamesDiffer => \A e \in Endpoints : \A name \in Called(naming, e) :
                       passes[name] <= proved[e]

RoundInv ==
    /\ RoundTypeOK
    /\ NamesFit
    /\ GoodPool(pool)
    /\ KeysAfterTest
    /\ DelaysAreMeasured
    /\ ProvedByName

LEMMA RoundInvAtInit ==
  ASSUME GateAssumption, RoundAssumption, RoundInit
  PROVE  RoundInv
<1>1. GateTypeOK
  BY GateInvAtInit DEF RoundInit, GateInv
<1>2. PICK setup \in Setups : naming = setup.naming /\ cache = setup.cache
  BY DEF RoundInit
<1>3. NamesFit
  BY <1>2 DEF RoundAssumption, NamesFit, NamesDiffer
<1>4. cache \in [Sources -> Seq(Rows)]
  BY <1>2 DEF RoundAssumption
<1>5. <<>> \in Seq(PoolNode) /\ <<>> \in Seq(Tables) /\ DOMAIN <<>> = {}
  OBVIOUS
<1>6. RoundTypeOK
  <2>1. proved \in [Endpoints -> 0..Required]
    BY DEF GateAssumption, RoundInit, Unproved
  <2>2. pool \in Seq(PoolNode) /\ keys \in Seq(Tables)
    BY <1>5 DEF RoundInit
  <2>3. naming \in {s.naming : s \in Setups}
    BY <1>2
  <2> QED
    BY <1>1, <1>4, <2>1, <2>2, <2>3 DEF RoundInit, RoundTypeOK, Modes, PoolNode
<1>7. GoodPool(pool) /\ KeysAfterTest /\ DelaysAreMeasured
  BY <1>5 DEF RoundInit, GoodPool, KeysAfterTest, DelaysAreMeasured
<1>8. ProvedByName
  <2>1. ASSUME NEW e \in Endpoints, NEW name \in Called(naming, e)
        PROVE  passes[name] = 0 /\ proved[e] = 0
    BY <1>3, <2>1, CalledType DEF RoundInit, GateInit, Unproved, Zero
  <2> QED
    BY <2>1 DEF ProvedByName
<1> QED
  BY <1>3, <1>6, <1>7, <1>8 DEF RoundInv

\* Every step of a round is a step of the gate, or none.
LEMMA RoundStepsGate ==
  ASSUME RoundInv, [RoundNext]_svars
  PROVE  [GateNext]_qvars
<1>1. ASSUME Test
      PROVE  GateNext
  <2>1. PICK passed, measured \in SUBSET Names(pool) : Measure(Names(pool), passed, measured)
    BY <1>1 DEF Test
  <2>2. Names(pool) \subseteq Nodes
    BY NamesInNodes DEF RoundInv, GoodPool
  <2> QED
    BY <2>1, <2>2 DEF GateNext
<1>2. CASE UNCHANGED svars
  BY <1>2 DEF svars
<1>3. ASSUME NEW m \in Modes, Collect(m)
      PROVE  UNCHANGED qvars
  BY <1>3 DEF Collect
<1>4. ASSUME LeaveUntested \/ WriteSourceTable
      PROVE  UNCHANGED qvars
  BY <1>4 DEF LeaveUntested, WriteSourceTable
<1>5. ASSUME WriteNodeTable \/ WriteRegionTable
      PROVE  WriteNodes \/ WriteRegions \/ UNCHANGED qvars
  BY <1>5 DEF WriteNodeTable, WriteRegionTable
<1>6. ASSUME Finish
      PROVE  SaveHistory \/ UNCHANGED qvars
  BY <1>6 DEF Finish
<1>7. ASSUME WriteRefused \/ KillRound \/ HistoryLost
      PROVE  WriteFails \/ Killed \/ LoseHistory \/ UNCHANGED qvars
  BY <1>7 DEF WriteRefused, KillRound, HistoryLost
<1> QED
  BY <1>1, <1>2, <1>3, <1>4, <1>5, <1>6, <1>7 DEF RoundNext, GoOnRound, GateNext

\* A round that ends early leaves the table of nodes with rows of its own, if with
\* any new ones.
LEMMA HalfWrittenMeasured ==
  ASSUME RoundInv, HalfWritten
  PROVE  nodeTable' \subseteq BOOLEAN /\ DelaysAreMeasured'
<1>1. CASE nodeTable' = nodeTable
  BY <1>1 DEF RoundInv, RoundTypeOK, DelaysAreMeasured
<1>2. CASE /\ keys # <<>> /\ Head(keys) = "nodes"
           /\ nodeTable' = nodeTable \cup {tested}
  <2>1. keys \in Seq(Tables)
    BY DEF RoundInv, RoundTypeOK
  <2>2. 1 \in DOMAIN keys /\ keys[1] = "nodes"
    BY <1>2, <2>1
  <2>3. tested /\ tested \in BOOLEAN
    BY <2>2 DEF RoundInv, RoundTypeOK, KeysAfterTest
  <2> QED
    BY <1>2, <2>3 DEF RoundInv, RoundTypeOK, DelaysAreMeasured
<1> QED
  BY <1>1, <1>2 DEF HalfWritten

LEMMA RoundInvPreserved ==
  ASSUME GateAssumption, RoundAssumption, RoundInv, GateTypeOK', [RoundNext]_svars
  PROVE  RoundInv'
<1> USE DEF RoundInv, RoundTypeOK
\* What a step leaves alone.
<1>1. ASSUME naming' = naming
      PROVE  NamesFit' /\ (pool' = pool => GoodPool(pool)') /\ NamesDiffer' = NamesDiffer
  BY <1>1 DEF NamesFit, NamesDiffer, GoodPool
<1>2. ASSUME NamesDiffer' = NamesDiffer, naming' = naming,
             passes' = passes, proved' = proved
      PROVE  ProvedByName'
  BY <1>2 DEF ProvedByName
<1>3. <<>> \in Seq(PoolNode) /\ <<>> \in Seq(Tables) /\ DOMAIN <<>> = {}
  OBVIOUS
<1>4. ASSUME NEW m \in Modes, Collect(m)
      PROVE  RoundInv'
  <2>1. PICK answer \in Answers :
           /\ pool' = BuildPool(answer)
           /\ \E written \in SUBSET Cacheable(answer) :
                 cache' = [s \in Sources |-> IF s \in written THEN answer[s] ELSE cache[s]]
    BY <1>4 DEF Collect
  <2>2. PICK written \in SUBSET Cacheable(answer) :
           cache' = [s \in Sources |-> IF s \in written THEN answer[s] ELSE cache[s]]
    BY <2>1
  <2>3. /\ Collected(answer) \in Seq(Listed)
        /\ \A s \in Sources : answer[s] # Down => answer[s] \in Seq(Rows)
    BY CollectedRows
  <2>4. cache' \in [Sources -> Seq(Rows)]
    BY <2>2, <2>3 DEF Cacheable
  <2>5. GoodPool(pool')
    BY <2>1, <2>3, BuiltGood
  <2>6. /\ naming' = naming /\ proved' = proved /\ passes' = passes
        /\ keys' = keys /\ tested' = tested /\ nodeTable' = nodeTable
    BY <1>4 DEF Collect, qvars
  <2>7. GoodPool(pool)' /\ pool' \in Seq(PoolNode)
    BY <2>5, <2>6 DEF GoodPool, NamesDiffer
  <2>8. RoundTypeOK'
    BY <1>4, <2>4, <2>6, <2>7 DEF Collect, PoolNode
  <2> QED
    BY <1>1, <1>2, <2>6, <2>7, <2>8 DEF KeysAfterTest, DelaysAreMeasured
\* The keys of a round that was not tested have no table of delays.
<1>5. ASSUME NEW ran \in BOOLEAN, Decided(ran), proved' \in [Endpoints -> 0..Required],
             ProvedByName'
      PROVE  RoundInv'
  <2>1. keys' \in Seq(Tables) /\ (ran \/ \A i \in DOMAIN keys' : keys'[i] # "nodes")
    <3>1. /\ <<>> \in Seq(Tables) /\ DOMAIN <<>> = {}
          /\ <<"sources">> \in Seq(Tables) /\ <<"nodes", "regions">> \in Seq(Tables)
          /\ <<"sources", "nodes", "regions">> \in Seq(Tables)
          /\ \A i \in DOMAIN <<"sources">> : <<"sources">>[i] # "nodes"
      BY DEF Tables
    <3>2. keys' = WriteKeys(ran)
      BY <1>5 DEF Decided
    <3>3. CASE ran
      BY <3>1, <3>2, <3>3 DEF WriteKeys
    <3>4. CASE ~ran
      <4>1. keys' = <<>> \/ keys' = <<"sources">>
        BY <3>2, <3>4 DEF WriteKeys
      <4> QED
        BY <3>1, <4>1
    <3> QED
      BY <3>3, <3>4
  <2>2. RoundTypeOK'
    BY <1>5, <2>1 DEF Decided, Modes
  <2> QED
    BY <1>1, <1>5, <2>1, <2>2 DEF Decided, KeysAfterTest, DelaysAreMeasured
<1>6. ASSUME LeaveUntested
      PROVE  RoundInv'
  <2>1. ProvedByName'
    BY <1>1, <1>2, <1>6 DEF LeaveUntested, Decided, qvars
  <2> QED
    BY <1>5, <1>6, <2>1 DEF LeaveUntested
\* An endpoint of the pool is measured under its name, one that is not there
\* starts over, and so does its name.
<1>7. ASSUME Test
      PROVE  RoundInv'
  <2>1. PICK passed, measured \in SUBSET Names(pool) :
           /\ Measure(Names(pool), passed, measured)
           /\ proved' = IF NamesDiffer THEN CountPasses(passed) ELSE proved
    BY <1>7 DEF Test
  <2>2. CountPasses(passed) \in [Endpoints -> 0..Required]
    BY DEF GateAssumption, CountPasses
  <2>3. naming' = naming
    BY <1>7 DEF Test, Decided
  <2>4. ASSUME NamesDiffer, NEW e \in Endpoints, NEW name \in Called(naming, e)
        PROVE  passes'[name] <= proved'[e]
    <3>1. name \in Nodes
      BY CalledType
    <3>2. passes[name] <= proved[e] /\ passes[name] \in Nat /\ proved[e] \in 0..Required
      BY <2>4, <3>1 DEF ProvedByName, GateTypeOK, Counts
    <3>3. passes'[name] = IF name \notin Names(pool) \cap passed THEN 0
                          ELSE IF passes[name] < Required THEN passes[name] + 1
                          ELSE Required
      BY <2>1, <3>1 DEF Measure, InARow
    <3>4. proved'[e] = IF ~Holds(pool, e) \/ NameOf(pool, e) \notin passed THEN 0
                       ELSE IF proved[e] < Required THEN proved[e] + 1
                       ELSE Required
      BY <2>1, <2>4 DEF CountPasses
    <3>5. CASE name \in Names(pool) \cap passed
      <4>1. PICK i \in DOMAIN pool : pool[i].name = name
        BY <3>5 DEF Names
      <4>2. pool[i] \in PoolNode
        BY DEF GoodPool
      <4>3. pool[i].endpoint = e
        BY <2>4, <4>1, <4>2 DEF GoodPool, PoolNode, NamesDiffer, Apart
      <4> DEFINE k == CHOOSE j \in DOMAIN pool : pool[j].endpoint = e
      <4>4. k \in DOMAIN pool /\ pool[k].endpoint = e
        BY <4>3
      <4>5. NameOf(pool, e) = pool[k].name
        BY DEF NameOf
      <4> HIDE DEF k
      <4>6. k = i
        BY <4>3, <4>4 DEF GoodPool
      <4>7. Holds(pool, e) /\ NameOf(pool, e) \in passed
        BY <3>5, <4>1, <4>3, <4>5, <4>6 DEF Holds
      <4> QED
        BY <3>2, <3>3, <3>4, <3>5, <4>7 DEF GateAssumption
    <3>6. CASE name \notin Names(pool) \cap passed
      BY <2>2, <3>2, <3>3, <3>4, <3>6 DEF GateAssumption
    <3> QED
      BY <3>5, <3>6
  <2>5. ProvedByName'
    BY <1>1, <2>3, <2>4 DEF ProvedByName, Called, NameIn
  <2> QED
    BY <1>5, <1>7, <2>1, <2>2, <2>5 DEF Test
\* Only the keys of a tested round reach the table of nodes.
<1>8. ASSUME NEW table, Writing(table), passes' = passes,
             nodeTable' = nodeTable \/ (table = "nodes" /\ nodeTable' = {tested})
      PROVE  RoundInv'
  <2>1. keys' = Tail(keys) /\ keys \in Seq(Tables) /\ keys # <<>> /\ keys[1] = table
    BY <1>8 DEF Writing
  <2>2. /\ keys' \in Seq(Tables) /\ 1 \in DOMAIN keys
        /\ \A i \in DOMAIN keys' : i + 1 \in DOMAIN keys /\ keys'[i] = keys[i + 1]
    BY <2>1
  <2>3. KeysAfterTest'
    BY <1>8, <2>2 DEF Writing, KeysAfterTest
  <2>4. nodeTable' = nodeTable \/ (tested /\ nodeTable' = {tested})
    BY <1>8, <2>1, <2>2 DEF KeysAfterTest
  <2>5. nodeTable' \subseteq BOOLEAN /\ DelaysAreMeasured'
    BY <2>4 DEF DelaysAreMeasured
  <2>6. RoundTypeOK'
    BY <1>8, <2>2, <2>5 DEF Writing
  <2>7. GoodPool(pool)' /\ NamesFit' /\ ProvedByName'
    BY <1>1, <1>2, <1>8 DEF Writing
  <2> QED
    BY <2>3, <2>5, <2>6, <2>7
<1>9. ASSUME WriteSourceTable
      PROVE  RoundInv'
  BY <1>8, <1>9 DEF WriteSourceTable, qvars
<1>10. ASSUME WriteNodeTable
       PROVE  RoundInv'
  BY <1>8, <1>10 DEF WriteNodeTable, WriteNodes, qvars
<1>11. ASSUME WriteRegionTable
       PROVE  RoundInv'
  BY <1>8, <1>11 DEF WriteRegionTable, WriteRegions, qvars
<1>12. ASSUME EndRound, passes' = passes, nodeTable' \subseteq BOOLEAN, DelaysAreMeasured'
       PROVE  RoundInv'
  <2>1. GoodPool(pool)' /\ KeysAfterTest'
    BY <1>3, <1>12 DEF EndRound, GoodPool, KeysAfterTest
  <2>2. NamesFit' /\ ProvedByName'
    BY <1>1, <1>2, <1>12 DEF EndRound
  <2>3. RoundTypeOK'
    BY <1>3, <1>12 DEF EndRound, Modes, PoolNode
  <2> QED
    BY <1>12, <2>1, <2>2, <2>3
<1>13. ASSUME Finish
       PROVE  RoundInv'
  <2>1. passes' = passes
    BY <1>13 DEF Finish, SaveHistory, qvars
  <2> QED
    BY <1>12, <1>13, <2>1 DEF Finish, DelaysAreMeasured
<1>14. ASSUME WriteRefused \/ KillRound
       PROVE  RoundInv'
  <2>1. passes' = passes
    BY <1>14 DEF WriteRefused, KillRound, WriteFails, Killed, qvars
  <2>2. HalfWritten /\ EndRound
    BY <1>14 DEF WriteRefused, KillRound
  <2> QED
    BY <1>12, <2>1, <2>2, HalfWrittenMeasured
<1>15. ASSUME HistoryLost
       PROVE  RoundInv'
  <2>1. passes' = passes /\ UNCHANGED roundVars
    BY <1>15 DEF HistoryLost, LoseHistory
  <2>2. NamesFit' /\ GoodPool(pool)' /\ ProvedByName'
    BY <1>1, <1>2, <2>1 DEF roundVars
  <2> QED
    BY <2>1, <2>2 DEF roundVars, KeysAfterTest, DelaysAreMeasured
<1>16. CASE UNCHANGED svars
  BY <1>16 DEF svars, roundVars, qvars, NamesFit,
              NamesDiffer, GoodPool, KeysAfterTest, DelaysAreMeasured, ProvedByName
<1> QED
  BY <1>4, <1>6, <1>7, <1>9, <1>10, <1>11, <1>13, <1>14, <1>15, <1>16
     DEF RoundNext, GoOnRound

LEMMA RoundInvHolds ==
  ASSUME GateAssumption, RoundAssumption
  PROVE  RoundSpec => [](RoundInv /\ GateInv)
<1>1. RoundInit => RoundInv /\ GateInv
  BY RoundInvAtInit, GateInvAtInit DEF RoundInit
<1>2. RoundInv /\ GateInv /\ [RoundNext]_svars => (RoundInv /\ GateInv)'
  <2> SUFFICES ASSUME RoundInv, GateInv, [RoundNext]_svars
               PROVE  RoundInv' /\ GateInv'
    OBVIOUS
  <2>1. GateInv'
    BY RoundStepsGate, GateInvPreserved
  <2>2. GateTypeOK'
    BY <2>1 DEF GateInv
  <2> QED
    BY <2>1, <2>2, RoundInvPreserved
<1> QED
  BY <1>1, <1>2, PTL DEF RoundSpec

\* The gate of the rounds is the gate on its own: nothing the rounds do with
\* sources, caches, pools and modes goes around it (main, test_and_probe_pool).
THEOREM ImplementsGateThm ==
  ASSUME GateAssumption, RoundAssumption
  PROVE  RoundSpec => ImplementsGate
<1>1. RoundInit => GateInit
  BY DEF RoundInit
<1>2. RoundInv /\ [RoundNext]_svars => [GateNext]_qvars
  BY RoundStepsGate
<1> QED
  BY <1>1, <1>2, RoundInvHolds, PTL DEF RoundSpec, GateSpec, ImplementsGate

\* The caches and pools have their types, and build_pool stays within the names a
\* suffix makes of those in the subscriptions.
THEOREM RoundTypes ==
  ASSUME GateAssumption, RoundAssumption
  PROVE  RoundSpec => []RoundTypeOK
<1>1. RoundInv => RoundTypeOK
  BY DEF RoundInv
<1> QED
  BY <1>1, RoundInvHolds, PTL

\* No row of the table of nodes has a delay that was not measured: neither
\* select_write_keys nor a write that is cut lets an untested round touch it.
THEOREM DelaysAreMeasuredThm ==
  ASSUME GateAssumption, RoundAssumption
  PROVE  RoundSpec => []DelaysAreMeasured
<1>1. RoundInv => DelaysAreMeasured
  BY DEF RoundInv
<1> QED
  BY <1>1, RoundInvHolds, PTL

\* The rounds declare a node usable only after its passes in a row, as the gate
\* does, and an endpoint only when that endpoint passed in the required number of
\* measured rounds in a row, provided no two endpoints are called alike: whichever
\* sources failed and fell back on their caches, and whatever config.yaml renamed,
\* build_pool gives no name to another endpoint.
THEOREM UsableEndpointPassedThm ==
  ASSUME GateAssumption, RoundAssumption
  PROVE  RoundSpec => [](UsableAfterPassesInARow /\ UsableEndpointPassed)
<1>1. ASSUME RoundInv, UsableAfterPassesInARow
      PROVE  UsableEndpointPassed
  <2>1. SUFFICES ASSUME NEW row \in rows, NEW i \in DOMAIN pool, row.usable,
                        row.node = pool[i].name, row.node \notin forgotten, NamesDiffer
                 PROVE  proved[pool[i].endpoint] >= Required
    BY DEF UsableEndpointPassed
  <2>2. pool[i] \in PoolNode
    BY <1>1 DEF RoundInv, GoodPool
  <2>3. pool[i].endpoint \in Endpoints
    BY <2>2 DEF PoolNode
  <2>4. pool[i].name \in Called(naming, pool[i].endpoint)
    BY <1>1, <2>1 DEF RoundInv, GoodPool
  <2>5. passes[row.node] <= proved[pool[i].endpoint]
    BY <1>1, <2>1, <2>3, <2>4 DEF RoundInv, ProvedByName
  <2>6. /\ passes[row.node] \in Nat /\ proved[pool[i].endpoint] \in Nat
        /\ Required \in Nat
    BY <1>1, <2>1, <2>2, <2>3 DEF RoundInv, RoundTypeOK, GateTypeOK, Counts, PoolNode,
       GateAssumption
  <2>7. passes[row.node] >= Required
    BY <1>1, <2>1 DEF UsableAfterPassesInARow
  <2> QED
    BY <2>5, <2>6, <2>7
<1>2. GateInv => UsableAfterPassesInARow
  BY UsableWhenBacked
<1> QED
  BY <1>1, <1>2, RoundInvHolds, PTL
=============================================================================
