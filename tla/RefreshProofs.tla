---------------------------- MODULE RefreshProofs ----------------------------
(***************************************************************************)
(* One refresh at a time keeps or restores the provider that served,       *)
(* whatever step fails, and the selection with it; the candidates are told *)
(* apart and fresh.  These assume a single run: two that overlap break the *)
(* promises.  That the pipeline is the refresh of RefreshProduction and    *)
(* keeps its types holds for any number of runs.                           *)
(***************************************************************************)
EXTENDS RefreshPipeline, DataLemmas

-----------------------------------------------------------------------------
(* RefreshProduction *)

LEMMA RefreshTypesPreserved ==
  ASSUME RefreshAssumption, RefreshTypeOK, [RefreshNext]_rvars
  PROVE  RefreshTypeOK'
<1> USE DEF RefreshAssumption, RefreshTypeOK, RefreshSteps, File, Goto
<1>1. ASSUME NEW r \in Runs, TakeLock(r) \/ Kill(r)
      PROVE  RefreshTypeOK'
  BY <1>1 DEF TakeLock, Kill
<1>2. ASSUME NEW r \in Runs, Prepare(r) \/ Backup(r) \/ Publish(r)
      PROVE  RefreshTypeOK'
  BY <1>2 DEF Prepare, Backup, Publish
<1>3. ASSUME NEW r \in Runs, Load(r)
      PROVE  RefreshTypeOK'
  BY <1>3 DEF Load
<1>4. ASSUME NEW r \in Runs, TryOut(r) \/ Restore(r) \/ Reload(r)
      PROVE  RefreshTypeOK'
  BY <1>4 DEF TryOut, Restore, Reload
<1>5. ASSUME NEW r \in Runs, RemoveNext(r) \/ RemoveLock(r)
      PROVE  RefreshTypeOK'
  BY <1>5 DEF RemoveNext, RemoveLock
<1>6. CASE UNCHANGED rvars
  BY <1>6 DEF rvars
<1> QED
  BY <1>1, <1>2, <1>3, <1>4, <1>5, <1>6 DEF RefreshNext, GoOn

\* Any number of refreshes that overlap: the files and the runs keep their
\* types, and a run past its publication leaves a provider published.
THEOREM RefreshTypes ==
  ASSUME RefreshAssumption
  PROVE  RefreshSpec => []RefreshTypeOK
<1>1. RefreshInit => RefreshTypeOK
  BY DEF RefreshAssumption, RefreshInit, RefreshTypeOK, RefreshSteps, File
<1>2. RefreshTypeOK /\ [RefreshNext]_rvars => RefreshTypeOK'
  BY RefreshTypesPreserved
<1> QED
  BY <1>1, <1>2, PTL DEF RefreshSpec

SingleRun == \A p, q \in Runs : p = q

\* What a run of which nothing was cut off still has of the provider that
\* served: it is published, or set aside, and before the try-out is over no other
\* one counts as proven.
Kept ==
    ~cut /\ proven # Missing =>
        /\ (\A r \in Runs : pc[r] \in {"idle", "prepare", "backup", "publish",
                                       "reload", "rm next", "rm lock"})
             => healthy = proven
        /\ (\E r \in Runs : pc[r] \in {"publish", "load", "try", "restore"})
             => previous = proven

\* What is tried out is what was published.
TriedIsPublished == \A r \in Runs : pc[r] = "try" => loaded = healthy

RefreshInv == RefreshTypeOK /\ Kept /\ TriedIsPublished

LEMMA RefreshInvAtInit ==
  ASSUME RefreshAssumption, RefreshInit
  PROVE  RefreshInv
BY DEF RefreshAssumption, RefreshInit, RefreshInv, RefreshTypeOK, RefreshSteps, File,
       Kept, TriedIsPublished

LEMMA RefreshInvPreserved ==
  ASSUME RefreshAssumption, SingleRun, RefreshInv, [RefreshNext]_rvars
  PROVE  RefreshInv'
<1> USE DEF RefreshAssumption, SingleRun, RefreshInv, RefreshTypeOK, RefreshSteps,
            File, Kept, TriedIsPublished, Goto
<1>1. ASSUME NEW r \in Runs, TakeLock(r)
      PROVE  RefreshInv'
  BY <1>1 DEF TakeLock
<1>2. ASSUME NEW r \in Runs, Prepare(r)
      PROVE  RefreshInv'
  BY <1>2 DEF Prepare
<1>3. ASSUME NEW r \in Runs, Backup(r)
      PROVE  RefreshInv'
  BY <1>3 DEF Backup
<1>4. ASSUME NEW r \in Runs, Publish(r)
      PROVE  RefreshInv'
  BY <1>4 DEF Publish
<1>5. ASSUME NEW r \in Runs, Load(r)
      PROVE  RefreshInv'
  BY <1>5 DEF Load
<1>6. ASSUME NEW r \in Runs, TryOut(r)
      PROVE  RefreshInv'
  BY <1>6 DEF TryOut
<1>7. ASSUME NEW r \in Runs, Restore(r)
      PROVE  RefreshInv'
  BY <1>7 DEF Restore
<1>8. ASSUME NEW r \in Runs, Reload(r)
      PROVE  RefreshInv'
  BY <1>8 DEF Reload
<1>9. ASSUME NEW r \in Runs, RemoveNext(r) \/ RemoveLock(r)
      PROVE  RefreshInv'
  BY <1>9 DEF RemoveNext, RemoveLock
<1>10. ASSUME NEW r \in Runs, Kill(r)
       PROVE  RefreshInv'
  BY <1>10 DEF Kill
<1>11. CASE UNCHANGED rvars
  BY <1>11 DEF rvars
<1> QED
  BY <1>1, <1>2, <1>3, <1>4, <1>5, <1>6, <1>7, <1>8, <1>9, <1>10, <1>11
     DEF RefreshNext, GoOn

LEMMA RefreshInvHolds ==
  ASSUME RefreshAssumption, SingleRun
  PROVE  RefreshSpec => []RefreshInv
<1>1. RefreshInit => RefreshInv
  BY RefreshInvAtInit
<1>2. RefreshInv /\ [RefreshNext]_rvars => RefreshInv'
  BY RefreshInvPreserved
<1> QED
  BY <1>1, <1>2, PTL DEF RefreshSpec

\* Once a provider has served, what one refresh at a time leaves published is the
\* last one that did, until a run is killed and again from the next one that
\* serves (refresh-production.ps1).
THEOREM SingleRunPublishesServing ==
  ASSUME RefreshAssumption, SingleRun
  PROVE  RefreshSpec => []PublishedServes
<1>1. RefreshInv => PublishedServes
  BY DEF RefreshInv, Kept, PublishedServes
<1> QED
  BY <1>1, RefreshInvHolds, PTL
-----------------------------------------------------------------------------
(* MergeProxies *)

LEMMA OwnNameFresh ==
  ASSUME NEW name \in Seq(Nat), name # Unnamed,
         NEW used, IsFiniteSet(used), NEW reserved, IsFiniteSet(reserved)
  PROVE  /\ OwnName(name, used, reserved) \in Seq(Nat) \ {Unnamed}
         /\ OwnName(name, used, reserved) \notin used
         /\ OwnName(name, used, reserved) # name
              => name \in used /\ OwnName(name, used, reserved) \notin reserved
<1> DEFINE taken == used \cup reserved
           First(k) == Append(name, k) \notin taken /\ \A j \in 2..k - 1 : Append(name, j) \in taken
           suffix == CHOOSE k \in 2..Cardinality(taken) + 2 : First(k)
<1>1. IsFiniteSet(taken)
  BY FS_Union
<1>2. OwnName(name, used, reserved) = IF name \in used THEN Append(name, suffix) ELSE name
  BY DEF OwnName
<1>3. CASE name \notin used
  BY <1>2, <1>3
<1>4. CASE name \in used
  <2>1. Cardinality(taken) \in Nat
    BY <1>1, FS_CardinalityType
  <2>2. PICK k \in 2..Cardinality(taken) + 1 : First(k)
    BY <1>1, <1>4, FirstFreeSuffix
  <2>3. k \in 2..Cardinality(taken) + 2
    BY <2>1
  <2>4. suffix \in 2..Cardinality(taken) + 2 /\ First(suffix)
    <3> HIDE DEF First, taken
    <3> QED
      BY <2>2, <2>3
  <2> HIDE DEF suffix
  <2>5. suffix \in Nat /\ Append(name, suffix) \notin taken
    BY <2>1, <2>4
  <2>6. Append(name, suffix) \in Seq(Nat) /\ Append(name, suffix) # << >>
    BY <2>5
  <2> QED
    BY <1>2, <1>4, <2>5, <2>6 DEF Unnamed
<1> QED
  BY <1>3, <1>4

FiniteNodes == {nodes \in SUBSET Node : IsFiniteSet(nodes)}

LEMMA OwnNameOfNode ==
  ASSUME NEW list \in Seq(Node), NEW n \in 1..Len(list), NEW nodes \in FiniteNodes
  PROVE  LET name == Given(list[n], n)
             own == OwnName(name, NodeNames(nodes), Reserved(list))
         IN  /\ own \in Seq(Nat) \ {Unnamed} /\ own \notin NodeNames(nodes)
             /\ own # name => name \in NodeNames(nodes) /\ own \notin Reserved(list)
<1> DEFINE node == list[n]
           name == Given(node, n)
<1>1. node \in Node /\ node \in Range(list) /\ node.key \in Keys /\ node.name \in Seq(Nat)
  <2>1. node \in Node /\ n \in DOMAIN list
    OBVIOUS
  <2>2. node \in Range(list)
    BY <2>1 DEF Range
  <2> HIDE DEF node
  <2> QED
    BY <2>1, <2>2 DEF Node
<1>2. name \in Seq(Nat) /\ name # Unnamed
  BY <1>1 DEF Given, Unnamed
<1>3. IsFiniteSet(NodeNames(nodes)) /\ IsFiniteSet(Reserved(list))
  <2> DEFINE f == [x \in nodes |-> x.name]
             g == [i \in DOMAIN list |-> list[i].name]
             all == {g[i] : i \in DOMAIN list}
  <2>1. IsFiniteSet(NodeNames(nodes))
    <3>1. {f[x] : x \in nodes} = NodeNames(nodes)
      BY DEF NodeNames
    <3>2. IsFiniteSet(nodes) /\ DOMAIN f = nodes
      BY DEF FiniteNodes
    <3> HIDE DEF f
    <3> QED
      BY <3>1, <3>2, ImageFinite
  <2>2. IsFiniteSet(DOMAIN list)
    BY FS_Interval
  <2>3. IsFiniteSet(all)
    BY <2>2, ImageFinite
  <2>4. Reserved(list) \in SUBSET all
    BY DEF Reserved
  <2> HIDE DEF all
  <2> QED
    BY <2>1, <2>3, <2>4, FS_Subset
<1> HIDE DEF name
<1> QED
  BY <1>2, <1>3, OwnNameFresh DEF name

LEMMA JoinedFinite ==
  ASSUME NEW list \in Seq(Node), NEW n \in 1..Len(list), NEW nodes \in FiniteNodes
  PROVE  Joined(nodes, list[n], n, Reserved(list)) \in FiniteNodes
<1> DEFINE own == OwnName(Given(list[n], n), NodeNames(nodes), Reserved(list))
           new == [key |-> list[n].key, name |-> own]
<1>1. own \in Seq(Nat)
  BY OwnNameOfNode
<1> HIDE DEF own
<1>2. new \in Node
  <2>1. list[n] \in Node
    OBVIOUS
  <2> QED
    BY <1>1, <2>1 DEF Node
<1> HIDE DEF new
<1>3. nodes \cup {new} \in FiniteNodes
  BY <1>2, FS_AddElement DEF FiniteNodes
<1> QED
  BY <1>3 DEF Joined, new, own

\* What is merged of the first n nodes of a list.
NamedApart(nodes) ==
    \A x, y \in nodes : x.name # Unnamed /\ (x.name = y.name <=> x.key = y.key)

ToldApart(nodes) == \A x, y \in nodes : x # y => x.key # y.key /\ x.name # y.name

\* A name that was brought along is only had by a node it was brought along by,
\* or by one that had none.
NamesStay(nodes, brought) ==
    \A x \in nodes :
        x.name \in NodeNames(brought)
          => \E y \in brought : y.key = x.key /\ y.name \in {x.name, Unnamed}

MergedFrom(nodes, list, n) ==
    /\ nodes \subseteq Node /\ IsFiniteSet(nodes)
    /\ Unnamed \notin NodeNames(nodes)
    /\ NodeKeys(nodes) = {list[i].key : i \in 1..n}
    /\ ToldApart(nodes)
    /\ NamesStay(nodes, Range(list))
    /\ NamedApart(Range(list)) => nodes \subseteq Range(list)

LEMMA JoinedMerged ==
  ASSUME NEW list \in Seq(Node), NEW n \in 1..Len(list),
         NEW nodes, MergedFrom(nodes, list, n - 1)
  PROVE  MergedFrom(Joined(nodes, list[n], n, Reserved(list)), list, n)
<1> DEFINE node == list[n]
           name == Given(node, n)
           own == OwnName(name, NodeNames(nodes), Reserved(list))
           new == [key |-> node.key, name |-> own]
<1>1. node \in Node /\ node \in Range(list) /\ node.key \in Keys /\ node.name \in Seq(Nat)
  <2>1. node \in Node /\ n \in DOMAIN list
    OBVIOUS
  <2>2. node \in Range(list)
    BY <2>1 DEF Range
  <2> HIDE DEF node
  <2> QED
    BY <2>1, <2>2 DEF Node
<1>2. /\ own \in Seq(Nat) \ {Unnamed} /\ own \notin NodeNames(nodes)
      /\ own # name => name \in NodeNames(nodes) /\ own \notin Reserved(list)
  <2>1. nodes \in FiniteNodes
    BY DEF MergedFrom, FiniteNodes
  <2> QED
    BY <2>1, OwnNameOfNode
<1> HIDE DEF own, node, name
<1>3. {list[i].key : i \in 1..n} = {list[i].key : i \in 1..n - 1} \cup {node.key}
  BY DEF node
<1>4. CASE node.key \in NodeKeys(nodes)
  BY <1>3, <1>4 DEF Joined, MergedFrom, node
<1>5. CASE node.key \notin NodeKeys(nodes)
  <2> DEFINE more == nodes \cup {new}
  <2>1. Joined(nodes, list[n], n, Reserved(list)) = more
    BY <1>5 DEF Joined, name, own, node
  <2>2. new \in Node /\ new.key = node.key /\ new.name = own
    BY <1>1, <1>2 DEF Node
  <2> HIDE DEF new
  <2>3. more \subseteq Node /\ IsFiniteSet(more)
    BY <2>2, FS_AddElement DEF MergedFrom
  <2>4. Unnamed \notin NodeNames(more)
    BY <1>2, <2>2 DEF MergedFrom, NodeNames
  <2>5. NodeKeys(more) = {list[i].key : i \in 1..n}
    BY <1>3, <2>2 DEF MergedFrom, NodeKeys
  <2>6. ToldApart(more)
    BY <1>2, <1>5, <2>2 DEF MergedFrom, ToldApart, NodeKeys, NodeNames
  <2>7. NamesStay(more, Range(list))
    <3>1. ASSUME own \in NodeNames(Range(list))
          PROVE  node.name \in {own, Unnamed}
      <4>1. own \in Reserved(list)
        BY <1>2, <3>1 DEF NodeNames, Reserved, Range
      <4>2. own = name
        BY <1>2, <4>1
      <4> QED
        BY <4>2 DEF name, Given, node
    <3>2. own \in NodeNames(Range(list))
            => \E y \in Range(list) : y.key = node.key /\ y.name \in {own, Unnamed}
      BY <1>1, <3>1
    <3> QED
      BY <2>2, <3>2 DEF MergedFrom, NamesStay
  <2>8. ASSUME NamedApart(Range(list))
        PROVE  more \subseteq Range(list)
    <3>1. nodes \subseteq Range(list)
      BY <2>8 DEF MergedFrom
    <3>2. name = node.name
      BY <1>1, <2>8 DEF NamedApart, name, Given, node
    <3>3. name \notin NodeNames(nodes)
      BY <1>1, <1>5, <2>8, <3>1, <3>2 DEF NamedApart, NodeNames, NodeKeys
    <3>4. own = node.name
      BY <1>2, <3>2, <3>3
    <3>5. new = node
      BY <1>1, <3>4 DEF Node, new
    <3> QED
      BY <1>1, <3>1, <3>5
  <2> QED
    BY <2>1, <2>3, <2>4, <2>5, <2>6, <2>7, <2>8 DEF MergedFrom
<1> QED
  BY <1>4, <1>5

Merges(merge, list) ==
    merge = [n \in 0..Len(list) |->
                IF n = 0 THEN {} ELSE Joined(merge[n - 1], list[n], n, Reserved(list))]

LEMMA MergeExists ==
  ASSUME NEW list \in Seq(Node)
  PROVE  \E merge : Merges(merge, list)
<1> DEFINE len == Len(list)
           Add(nodes, n) == Joined(nodes, list[n], n, Reserved(list))
           start == {}
           adding == [n \in Nat |-> [nodes \in FiniteNodes |->
                         IF n \in 1..len THEN Add(nodes, n) ELSE nodes]]
<1>1. len \in Nat /\ \A n \in 1..len, nodes \in FiniteNodes : Add(nodes, n) \in FiniteNodes
  BY JoinedFinite
<1>2. start \in FiniteNodes
  BY FS_EmptySet DEF FiniteNodes
<1> HIDE DEF Add, len
<1>3. adding \in [Nat -> [FiniteNodes -> FiniteNodes]]
  BY <1>1
<1> HIDE DEF adding, start
<1>4. PICK f \in [Nat -> FiniteNodes] : Follows(f, start, adding)
  BY <1>2, <1>3, RecursionExists
<1> DEFINE merge == [n \in 0..len |-> f[n]]
<1>5. ASSUME NEW n \in 0..len
      PROVE  merge[n] = IF n = 0 THEN {} ELSE Add(merge[n - 1], n)
  <2>1. CASE n = 0
    BY <1>1, <1>4, <2>1 DEF Follows, start
  <2>2. CASE n # 0
    <3>1. n \in 1..len /\ n - 1 \in 0..len /\ n - 1 \in Nat /\ n - 1 + 1 = n
      BY <1>1, <2>2
    <3>2. f[n] = adding[n][f[n - 1]] /\ f[n - 1] \in FiniteNodes
      BY <1>4, <3>1 DEF Follows
    <3>3. f[n] = Add(f[n - 1], n)
      BY <3>1, <3>2 DEF adding
    <3> QED
      BY <2>2, <3>1, <3>3
  <2> QED
    BY <2>1, <2>2
<1>6. merge = [n \in 0..len |-> merge[n]]
  OBVIOUS
<1> HIDE DEF merge
<1>7. merge = [n \in 0..len |-> IF n = 0 THEN {} ELSE Add(merge[n - 1], n)]
  BY <1>5, <1>6
<1>8. Merges(merge, list)
  BY <1>7 DEF Merges, Add, len
<1> QED
  BY <1>8

\* merge_proxies: whatever the list, its nodes are there, once, told apart, and
\* no name is moved to another node.
LEMMA MergedIsMerged ==
  ASSUME NEW list \in Seq(Node)
  PROVE  MergedFrom(Merged(list), list, Len(list))
<1> DEFINE len == Len(list)
           merge == CHOOSE f : Merges(f, list)
           P == {n \in Nat : n <= len => MergedFrom(merge[n], list, n)}
<1>1. Merged(list) = merge[len]
  BY DEF Merged, Merges
<1>2. Merges(merge, list)
  BY MergeExists
<1> HIDE DEF merge
<1>3. len \in Nat
  OBVIOUS
<1>4. \A n \in 0..len :
         merge[n] = IF n = 0 THEN {} ELSE Joined(merge[n - 1], list[n], n, Reserved(list))
  BY <1>2 DEF Merges
<1>5. 0 \in P
  <2>1. merge[0] = {}
    BY <1>3, <1>4
  <2>2. MergedFrom({}, list, 0)
    BY FS_EmptySet DEF MergedFrom, NodeNames, NodeKeys, ToldApart, NamesStay
  <2> QED
    BY <2>1, <2>2
<1>6. ASSUME NEW n \in Nat, n \in P
      PROVE  n + 1 \in P
  <2> SUFFICES ASSUME NEW i \in 1..len, i = n + 1
               PROVE  MergedFrom(merge[i], list, i)
    BY <1>3
  <2>1. i \in 0..len /\ i # 0 /\ i - 1 = n /\ n <= len
    BY <1>3
  <2>2. merge[i] = Joined(merge[i - 1], list[i], i, Reserved(list))
    BY <1>4, <2>1
  <2>3. MergedFrom(merge[i - 1], list, i - 1)
    BY <1>6, <2>1
  <2>4. MergedFrom(Joined(merge[i - 1], list[i], i, Reserved(list)), list, i)
    BY <2>3, JoinedMerged
  <2> QED
    BY <2>2, <2>4
<1> HIDE DEF P
<1>7. Nat \subseteq P
  BY <1>5, <1>6, NatInd
<1>8. MergedFrom(merge[len], list, len)
  BY <1>3, <1>7 DEF P
<1> QED
  BY <1>1, <1>8

-----------------------------------------------------------------------------
(* RefreshPipeline *)

\* What the sources that answer deliver, and what is merged of it.
LEMMA DeliveredNodes ==
  ASSUME PipelineAssumption, offer \in Setups, NEW up \in SUBSET DOMAIN offer
  PROVE  /\ Delivered(offer, up) \in Seq(Node)
         /\ Range(Delivered(offer, up)) \subseteq Node \cap Offered
<1> DEFINE S == Node \cap Offered
           seqs == [s \in DOMAIN offer |-> IF s \in up THEN offer[s] ELSE <<>>]
<1>1. offer \in Seq(Seq(Node))
  BY DEF PipelineAssumption
<1>2. ASSUME NEW s \in DOMAIN offer
      PROVE  offer[s] \in Seq(S)
  <2>1. offer[s] \in Seq(Node)
    BY <1>1
  <2>2. \A i \in DOMAIN offer[s] : offer[s][i] \in Offered
    BY <1>2 DEF Offered, Range
  <2>3. \A i \in 1..Len(offer[s]) : offer[s][i] \in S
    BY <2>1, <2>2
  <2> HIDE DEF S
  <2> QED
    BY <2>1, <2>3
<1>3. << >> \in Seq(S)
  OBVIOUS
<1> HIDE DEF S
<1>4. seqs \in Seq(Seq(S))
  <2> DEFINE T == Seq(S)
             len == Len(offer)
  <2>1. len \in Nat /\ DOMAIN offer = 1..len
    BY <1>1
  <2> HIDE DEF T, len
  <2>2. seqs \in [1..len -> T]
    BY <1>2, <1>3, <2>1 DEF T
  <2> HIDE DEF seqs
  <2>3. seqs \in Seq(T)
    BY <2>1, <2>2
  <2> QED
    BY <2>3 DEF T
<1> HIDE DEF seqs
<1>5. FlattenSeq(seqs) \in Seq(S)
  BY <1>4, FlattenSeqType
<1>6. Delivered(offer, up) \in Seq(S)
  BY <1>5 DEF Delivered, seqs
<1> QED
  BY <1>6 DEF S, Range

LEMMA DeliveredMerged ==
  ASSUME PipelineAssumption, offer \in Setups, NEW up \in SUBSET DOMAIN offer
  PROVE  LET answered == Delivered(offer, up)
             merged == Merged(answered)
         IN  /\ Range(answered) \subseteq Node
             /\ merged \in Providers \cup {{}}
             /\ NodeKeys(merged) \subseteq NodeKeys(Range(answered))
             /\ ToldApart(merged) /\ NamesStay(merged, Range(answered))
             /\ NamesDiffer => merged \subseteq Offered
<1> DEFINE answered == Delivered(offer, up)
           merged == Merged(answered)
<1>1. answered \in Seq(Node) /\ Range(answered) \subseteq Node \cap Offered
  BY DeliveredNodes
<1>2. merged \in Providers \cup {{}}
  BY DEF PipelineAssumption
<1> HIDE DEF answered
<1>3. MergedFrom(merged, answered, Len(answered))
  BY <1>1, MergedIsMerged
<1> HIDE DEF merged
<1>4. NodeKeys(merged) \subseteq NodeKeys(Range(answered))
  <2>1. \A i \in 1..Len(answered) : answered[i] \in Range(answered)
    BY <1>1 DEF Range
  <2>2. NodeKeys(merged) = {answered[i].key : i \in 1..Len(answered)}
    BY <1>3 DEF MergedFrom
  <2> HIDE DEF merged
  <2> QED
    BY <2>1, <2>2 DEF NodeKeys
<1>5. ASSUME NamesDiffer
      PROVE  merged \subseteq Offered
  <2>1. NamedApart(Range(answered))
    BY <1>1, <1>5 DEF NamedApart, NamesDiffer
  <2> QED
    BY <1>1, <1>3, <2>1 DEF MergedFrom
<1> QED
  BY <1>1, <1>2, <1>3, <1>4, <1>5 DEF MergedFrom, merged, answered

LEMMA MergedIsProvider ==
  ASSUME PipelineAssumption, NEW merged \in Providers \cup {{}}, ~(Cardinality(merged) < MinNodes)
  PROVE  merged \in Providers
<1>1. Cardinality({}) = 0 /\ MinNodes \in Nat \ {0}
  BY FS_EmptySet DEF PipelineAssumption
<1>2. Cardinality({}) < MinNodes
  BY <1>1
<1>3. merged # {}
  BY <1>2
<1> QED
  BY <1>3

LEMMA SurvivorsAreProvider ==
  ASSUME PipelineAssumption, candidate \in Providers,
         NEW passed, NodeNames(Survivors(passed)) \cap Wanted # {}
  PROVE  Survivors(passed) \in Providers /\ Survivors(passed) \subseteq candidate
<1>1. Survivors(passed) \subseteq candidate
  BY DEF Survivors
<1>2. Survivors(passed) # {}
  BY DEF NodeNames
<1> QED
  BY <1>1, <1>2 DEF PipelineAssumption

\* Each step is one of the refresh, or takes none of its steps.
LEMMA PipelineSteps ==
  ASSUME PipelineAssumption, PipelineTypeOK, [PipelineNext]_pvars
  PROVE  [RefreshNext]_rvars
<1>1. ASSUME NEW r \in Runs, BeginOrDie(r)
      PROVE  RefreshNext
  BY <1>1 DEF BeginOrDie, RefreshNext
<1>2. ASSUME NEW r \in Runs, Convert(r)
      PROVE  [RefreshNext]_rvars
  <2>1. Prepare(r) \/ UNCHANGED rvars
    BY <1>2 DEF Convert, Prepare, rvars
  <2> QED
    BY <2>1 DEF RefreshNext, GoOn
<1>3. ASSUME NEW r \in Runs, HealthCheck(r)
      PROVE  RefreshNext
  <2>1. ASSUME candidate # Missing,
               NEW passed, NodeNames(Survivors(passed)) \cap Wanted # {}, next' = Survivors(passed)
        PROVE  next' \in Providers
    BY <2>1, SurvivorsAreProvider DEF PipelineTypeOK, File
  <2>2. Prepare(r)
    BY <1>3, <2>1 DEF HealthCheck, Prepare
  <2> QED
    BY <2>2 DEF RefreshNext, GoOn
<1>4. ASSUME NEW r \in Runs,
             BackupSelected(r) \/ LoadSelected(r) \/ RestoreSelected(r) \/ ReloadSelected(r)
      PROVE  RefreshNext
  BY <1>4 DEF BackupSelected, LoadSelected, RestoreSelected, ReloadSelected, RefreshNext, GoOn
<1>5. ASSUME NEW r \in Runs, Plain(r)
      PROVE  RefreshNext
  BY <1>5 DEF Plain, RefreshNext, GoOn
<1>6. CASE Select \/ UNCHANGED pvars
  BY <1>6 DEF Select, pvars
<1> QED
  BY <1>1, <1>2, <1>3, <1>4, <1>5, <1>6 DEF PipelineNext, GoOnPipeline

LEMMA PutBackSelects ==
  ASSUME NEW r \in Runs, PutBack(r), loaded' \in Providers, RefreshAssumption
  PROVE  now' \in Selected /\ now' \in loaded'
BY DEF PutBack, Forgotten, Selected, RefreshAssumption

LEMMA ForgottenSelects ==
  ASSUME Forgotten, loaded' \in File
  PROVE  now' \in Selected /\ IF loaded' = Missing THEN now' = Missing ELSE now' \in loaded'
BY DEF Forgotten, Selected, File

LEMMA PipelineTypesPreserved ==
  ASSUME RefreshAssumption, PipelineAssumption, PipelineTypeOK, [PipelineNext]_pvars
  PROVE  PipelineTypeOK'
<1> DEFINE NowOK == now \in Selected /\ IF loaded = Missing THEN now = Missing ELSE now \in loaded
           OwnOK == /\ offer \in Setups /\ candidate \in File
                    /\ converted \in [Runs -> BOOLEAN] /\ saved \in [Runs -> Selected]
                    /\ delivered \in [Runs -> SUBSET Node] /\ kept \in [Runs -> BOOLEAN]
<1>1. RefreshTypeOK'
  BY PipelineSteps, RefreshTypesPreserved DEF PipelineTypeOK
<1>2. NowOK /\ OwnOK /\ RefreshTypeOK
  BY DEF PipelineTypeOK
<1>3. loaded' \in File /\ healthy' \in File
  BY <1>1 DEF RefreshTypeOK
<1> SUFFICES NowOK' /\ OwnOK'
  BY <1>1 DEF PipelineTypeOK
<1>4. ASSUME NEW r \in Runs, Convert(r)
      PROVE  NowOK' /\ OwnOK'
  <2>1. PICK up \in SUBSET DOMAIN offer :
           LET answered == Delivered(offer, up)
               merged == Merged(answered)
           IN  /\ delivered' = [delivered EXCEPT ![r] = Range(answered)]
               /\ IF Cardinality(merged) < MinNodes
                  THEN UNCHANGED <<candidate, converted>>
                  ELSE candidate' = merged /\ converted' = [converted EXCEPT ![r] = TRUE]
    BY <1>4 DEF Convert
  <2>2. Range(Delivered(offer, up)) \in SUBSET Node
    BY <1>2, DeliveredMerged
  <2>3. delivered' \in [Runs -> SUBSET Node]
    BY <1>2, <2>1, <2>2
  <2>4. candidate' \in File
    <3> DEFINE merged == Merged(Delivered(offer, up))
    <3>1. merged \in Providers \cup {{}}
      BY <1>2, DeliveredMerged
    <3>2. candidate' = candidate \/ (~(Cardinality(merged) < MinNodes) /\ candidate' = merged)
      BY <2>1
    <3> HIDE DEF merged
    <3> QED
      BY <1>2, <3>1, <3>2, MergedIsProvider DEF File
  <2>5. converted' \in [Runs -> BOOLEAN]
    BY <1>2, <2>1
  <2> QED
    BY <1>2, <1>4, <2>3, <2>4, <2>5 DEF Convert
<1>5. ASSUME NEW r \in Runs, HealthCheck(r)
      PROVE  NowOK' /\ OwnOK'
  <2>1. /\ UNCHANGED <<loaded, offer, candidate, now, saved, delivered, kept>>
        /\ converted' = [converted EXCEPT ![r] = FALSE]
    BY <1>5 DEF HealthCheck
  <2> QED
    BY <1>2, <2>1
<1>6. ASSUME NEW r \in Runs, BackupSelected(r)
      PROVE  NowOK' /\ OwnOK'
  <2>1. /\ UNCHANGED <<loaded, offer, candidate, converted, now, delivered>>
        /\ \/ UNCHANGED <<saved, kept>>
           \/ saved' = [saved EXCEPT ![r] = now] /\ kept' = [kept EXCEPT ![r] = TRUE]
    BY <1>6 DEF BackupSelected, Backup
  <2>2. saved' \in [Runs -> Selected]
    BY <1>2, <2>1
  <2>3. kept' \in [Runs -> BOOLEAN]
    BY <1>2, <2>1
  <2> QED
    BY <1>2, <2>1, <2>2, <2>3
<1>7. ASSUME NEW r \in Runs, LoadSelected(r)
      PROVE  NowOK' /\ OwnOK'
  <2>1. UNCHANGED <<offer, candidate, converted, saved, delivered, kept>> /\ Load(r)
    BY <1>7 DEF LoadSelected
  <2>2. healthy \in Providers
    BY <1>2, <2>1 DEF Load, RefreshTypeOK, File
  <2>3. pc' = [pc EXCEPT ![r] = "try"] \/ pc' = [pc EXCEPT ![r] = "restore"]
    BY <2>1 DEF Load, Goto
  <2>4. pc'[r] = "try" \/ pc'[r] = "restore"
    BY <1>2, <2>3 DEF RefreshTypeOK
  <2>5. CASE pc'[r] = "try"
    <3>1. PutBack(r) /\ loaded' = healthy
      BY <1>2, <1>7, <2>1, <2>5 DEF LoadSelected, Load, Goto, RefreshTypeOK
    <3> QED
      BY <1>2, <2>1, <2>2, <3>1, PutBackSelects DEF RefreshAssumption
  <2>6. CASE pc'[r] = "restore" /\ loaded' = loaded
    <3>1. UNCHANGED now \/ Forgotten
      BY <1>7, <2>6 DEF LoadSelected
    <3> QED
      BY <1>2, <1>3, <2>1, <2>6, <3>1, ForgottenSelects
  <2>7. CASE pc'[r] = "restore" /\ loaded' # loaded
    <3>1. Forgotten
      BY <1>7, <2>7 DEF LoadSelected
    <3> QED
      BY <1>2, <1>3, <2>1, <3>1, ForgottenSelects
  <2> QED
    BY <2>4, <2>5, <2>6, <2>7
<1>8. ASSUME NEW r \in Runs, RestoreSelected(r)
      PROVE  NowOK' /\ OwnOK'
  BY <1>2, <1>8 DEF RestoreSelected, Restore, Forget
<1>9. ASSUME NEW r \in Runs, ReloadSelected(r)
      PROVE  NowOK' /\ OwnOK'
  <2>1. UNCHANGED <<offer, candidate, converted, saved, delivered>> /\ Reload(r)
        /\ kept' \in [Runs -> BOOLEAN]
    BY <1>2, <1>9 DEF ReloadSelected, Forget
  <2>2. healthy \in Providers
    BY <1>2, <2>1 DEF Reload, RefreshTypeOK, File
  <2>3. CASE loaded' = healthy /\ PutBack(r)
    BY <1>2, <2>1, <2>2, <2>3, PutBackSelects DEF RefreshAssumption
  <2>4. CASE UNCHANGED <<now, loaded>>
    BY <1>2, <2>1, <2>4
  <2>5. CASE Forgotten
    BY <1>2, <1>3, <2>1, <2>5, ForgottenSelects
  <2> QED
    BY <1>9, <2>3, <2>4, <2>5 DEF ReloadSelected
<1>10. CASE Select
  BY <1>2, <1>10 DEF Select, Selected, RefreshTypeOK, File, rvars
<1>11. ASSUME NEW r \in Runs, BeginOrDie(r)
       PROVE  NowOK' /\ OwnOK'
  BY <1>2, <1>11 DEF BeginOrDie, TakeLock, Kill, Forget, Selected
<1>12. ASSUME NEW r \in Runs, Plain(r)
       PROVE  NowOK' /\ OwnOK'
  BY <1>2, <1>12 DEF Plain, Publish, TryOut, RemoveNext, RemoveLock, pipeVars
<1>13. CASE UNCHANGED pvars
  BY <1>2, <1>13 DEF pvars, pipeVars, rvars
<1> QED
  BY <1>4, <1>5, <1>6, <1>7, <1>8, <1>9, <1>10, <1>11, <1>12, <1>13
     DEF PipelineNext, GoOnPipeline

LEMMA PipelineTypesAtInit ==
  ASSUME RefreshAssumption, PipelineInit
  PROVE  PipelineTypeOK
<1>1. RefreshTypeOK
  BY DEF PipelineInit, RefreshAssumption, RefreshInit, RefreshTypeOK, RefreshSteps, File
<1>2. now \in Selected /\ Missing \in Selected
  BY <1>1 DEF PipelineInit, Selected, RefreshTypeOK, File
<1> QED
  BY <1>1, <1>2 DEF PipelineInit, PipelineTypeOK, RefreshTypeOK

\* Any number of refreshes that overlap or are killed, any sources and targets:
\* the files are providers, mihomo has a node of the loaded provider selected,
\* and the runs keep their types.
THEOREM PipelineTypes ==
  ASSUME RefreshAssumption, PipelineAssumption
  PROVE  PipelineSpec => []PipelineTypeOK
<1>1. PipelineInit => PipelineTypeOK
  BY PipelineTypesAtInit
<1>2. PipelineTypeOK /\ [PipelineNext]_pvars => PipelineTypeOK'
  BY PipelineTypesPreserved
<1> QED
  BY <1>1, <1>2, PTL DEF PipelineSpec

\* With its candidates, its health check and the selections that come and go, the
\* refresh is still that of RefreshProduction, for any number of runs: what holds
\* of that one holds of it (refresh-production.ps1).
THEOREM ImplementsRefreshThm ==
  ASSUME RefreshAssumption, PipelineAssumption
  PROVE  PipelineSpec => ImplementsRefresh
<1>1. PipelineInit => RefreshInit
  BY DEF PipelineInit
<1>2. PipelineTypeOK /\ [PipelineNext]_pvars => [RefreshNext]_rvars
  BY PipelineSteps
<1> QED
  BY <1>1, <1>2, PipelineTypes, PTL DEF PipelineSpec, ImplementsRefresh, RefreshSpec

\* Of the candidate and what is made of it, one run at a time.
CandidateInv ==
    \A r \in Runs :
        /\ converted[r] =>
              /\ candidate # Missing
              /\ NodeKeys(candidate) \subseteq NodeKeys(delivered[r])
              /\ ToldApart(candidate) /\ NamesStay(candidate, delivered[r])
        /\ pc[r] \in {"backup", "publish"} /\ next # Missing
              => NodeKeys(next) \subseteq NodeKeys(delivered[r])

LEMMA CandidateInvPreserved ==
  ASSUME RefreshAssumption, PipelineAssumption, SingleRun, PipelineTypeOK, CandidateInv,
         [PipelineNext]_pvars
  PROVE  CandidateInv'
<1>1. \A q, r \in Runs : q = r
  BY DEF SingleRun
<1>2. /\ pc \in [Runs -> RefreshSteps] /\ converted \in [Runs -> BOOLEAN]
      /\ delivered \in [Runs -> SUBSET Node] /\ candidate \in File /\ offer \in Setups
  BY DEF PipelineTypeOK, RefreshTypeOK
<1>3. ASSUME NEW r \in Runs, Convert(r)
      PROVE  CandidateInv'
  <2>1. PICK up \in SUBSET DOMAIN offer :
           LET answered == Delivered(offer, up)
               merged == Merged(answered)
           IN  /\ delivered' = [delivered EXCEPT ![r] = Range(answered)]
               /\ IF Cardinality(merged) < MinNodes
                  THEN Goto(r, "rm next") /\ UNCHANGED <<candidate, converted>>
                  ELSE /\ candidate' = merged
                       /\ converted' = [converted EXCEPT ![r] = TRUE]
                       /\ UNCHANGED pc
    BY <1>3 DEF Convert
  <2> DEFINE answered == Delivered(offer, up)
             merged == Merged(answered)
  <2>2. /\ merged \in Providers \cup {{}} /\ NodeKeys(merged) \subseteq NodeKeys(Range(answered))
        /\ ToldApart(merged) /\ NamesStay(merged, Range(answered))
    BY <1>2, DeliveredMerged
  <2>3. \/ pc' = [pc EXCEPT ![r] = "rm next"] /\ UNCHANGED <<candidate, converted>>
        \/ /\ candidate' = merged /\ merged \in Providers
           /\ converted' = [converted EXCEPT ![r] = TRUE] /\ UNCHANGED pc
    <3> HIDE DEF merged
    <3> QED
      BY <2>1, <2>2, MergedIsProvider DEF Goto, merged
  <2>4. delivered'[r] = Range(answered)
    BY <1>2, <2>1
  <2> HIDE DEF merged, answered
  <2>5. pc[r] = "prepare" /\ ~converted[r]
    BY <1>3 DEF Convert
  <2>6. CASE pc' = [pc EXCEPT ![r] = "rm next"] /\ UNCHANGED <<candidate, converted>>
    BY <1>1, <1>2, <2>5, <2>6 DEF CandidateInv
  <2>7. CASE /\ candidate' = merged /\ merged \in Providers
             /\ converted' = [converted EXCEPT ![r] = TRUE] /\ UNCHANGED pc
    BY <1>1, <1>2, <2>2, <2>4, <2>5, <2>7 DEF CandidateInv, RefreshAssumption
  <2> QED
    BY <2>3, <2>6, <2>7
<1>4. ASSUME NEW r \in Runs, HealthCheck(r)
      PROVE  CandidateInv'
  <2>1. NodeKeys(candidate) \subseteq NodeKeys(delivered[r])
    BY <1>4 DEF HealthCheck, CandidateInv
  <2>2. ASSUME NEW passed, next' = Survivors(passed)
        PROVE  NodeKeys(next') \subseteq NodeKeys(delivered[r])
    BY <2>1, <2>2 DEF Survivors, NodeKeys
  <2>3. UNCHANGED delivered /\ converted' = [converted EXCEPT ![r] = FALSE]
    BY <1>4 DEF HealthCheck
  <2>4. \/ pc' = [pc EXCEPT ![r] = "rm next"]
        \/ NodeKeys(next') \subseteq NodeKeys(delivered[r])
    BY <1>4, <2>2 DEF HealthCheck, Goto
  <2> QED
    BY <1>1, <1>2, <2>3, <2>4 DEF CandidateInv
<1>5. ASSUME NEW r \in Runs, BackupSelected(r) \/ LoadSelected(r) \/ RestoreSelected(r)
                             \/ ReloadSelected(r)
      PROVE  CandidateInv'
  <2>1. UNCHANGED <<candidate, converted, delivered, next>>
    BY <1>5 DEF BackupSelected, LoadSelected, RestoreSelected, ReloadSelected,
       Backup, Load, Restore, Reload
  <2>2. pc'[r] \in {"backup", "publish"} => pc[r] = "backup"
    BY <1>2, <1>5 DEF BackupSelected, LoadSelected, RestoreSelected, ReloadSelected,
       Backup, Load, Restore, Reload, Goto
  <2> QED
    BY <1>1, <2>1, <2>2 DEF CandidateInv
<1>6. ASSUME NEW r \in Runs, BeginOrDie(r)
      PROVE  CandidateInv'
  <2>1. converted'[r] = FALSE /\ pc'[r] \notin {"backup", "publish"}
    BY <1>2, <1>6 DEF BeginOrDie, TakeLock, Kill, Goto
  <2> QED
    BY <1>1, <2>1 DEF CandidateInv
<1>7. ASSUME NEW r \in Runs, Plain(r)
      PROVE  CandidateInv'
  <2>1. UNCHANGED <<candidate, converted, delivered>>
    BY <1>7 DEF Plain, pipeVars
  <2>2. pc'[r] \notin {"backup", "publish"}
    BY <1>2, <1>7 DEF Plain, Publish, TryOut, RemoveNext, RemoveLock, Goto
  <2> QED
    BY <1>1, <2>1, <2>2 DEF CandidateInv
<1>8. CASE Select \/ UNCHANGED pvars
  <2>1. UNCHANGED <<candidate, converted, delivered, pc, next>>
    BY <1>8 DEF Select, pvars, pipeVars, rvars
  <2> QED
    BY <2>1 DEF CandidateInv
<1> QED
  BY <1>3, <1>4, <1>5, <1>6, <1>7, <1>8 DEF PipelineNext, GoOnPipeline

LEMMA CandidateInvHolds ==
  ASSUME RefreshAssumption, PipelineAssumption, SingleRun
  PROVE  PipelineSpec => []CandidateInv
<1>1. PipelineInit => CandidateInv
  BY DEF PipelineInit, RefreshInit, CandidateInv
<1>2. PipelineTypeOK /\ CandidateInv /\ [PipelineNext]_pvars => CandidateInv'
  BY CandidateInvPreserved
<1> QED
  BY <1>1, <1>2, PipelineTypes, PTL DEF PipelineSpec

\* One refresh at a time, whatever the sources deliver under whatever names and
\* whichever of them answer: the candidates are told apart by name, each key is
\* there once, and no suffix makes a name that was brought along another node's
\* (merge_proxies).
THEOREM CandidatesToldApartThm ==
  ASSUME RefreshAssumption, PipelineAssumption, SingleRun
  PROVE  PipelineSpec => []CandidatesToldApart
<1>1. CandidateInv => CandidatesToldApart
  BY DEF CandidateInv, CandidatesToldApart, ToldApart, NamesStay
<1> QED
  BY <1>1, CandidateInvHolds, PTL

\* One refresh at a time, killed or not: what a run publishes was delivered by the
\* sources while it ran, never a candidate left by an earlier run
\* (refresh-production.ps1, convert_sub.py's exit codes).
THEOREM PublishesFreshNodesThm ==
  ASSUME RefreshAssumption, PipelineAssumption, SingleRun
  PROVE  PipelineSpec => []PublishesFreshNodes
<1>1. CandidateInv => PublishesFreshNodes
  BY DEF CandidateInv, PublishesFreshNodes
<1> QED
  BY <1>1, CandidateInvHolds, PTL

\* When the sources name their nodes apart no file has another node than theirs.
FromOffers(file) == file # Missing => file \subseteq Offered

OfferedInv ==
    NamesDiffer =>
        /\ FromOffers(candidate) /\ FromOffers(next) /\ FromOffers(healthy)
        /\ FromOffers(previous) /\ FromOffers(loaded)
        /\ \A r \in Runs : saved[r] # Missing => saved[r] \in Offered

LEMMA OfferedInvPreserved ==
  ASSUME RefreshAssumption, PipelineAssumption, PipelineTypeOK, OfferedInv, [PipelineNext]_pvars
  PROVE  OfferedInv'
<1>1. offer' = offer
  BY DEF PipelineNext, GoOnPipeline, BeginOrDie, Plain, Select, Convert, HealthCheck,
     BackupSelected, LoadSelected, RestoreSelected, ReloadSelected, pvars, pipeVars
<1>2. Offered' = Offered /\ (NamesDiffer' <=> NamesDiffer)
  BY <1>1 DEF Offered, NamesDiffer
<1> SUFFICES ASSUME NamesDiffer
             PROVE  /\ FromOffers(candidate)' /\ FromOffers(next)' /\ FromOffers(healthy)'
                    /\ FromOffers(previous)' /\ FromOffers(loaded)'
                    /\ \A r \in Runs : saved'[r] # Missing => saved'[r] \in Offered
  BY <1>2 DEF OfferedInv
<1>3. /\ FromOffers(candidate) /\ FromOffers(next) /\ FromOffers(healthy)
      /\ FromOffers(previous) /\ FromOffers(loaded)
      /\ \A r \in Runs : saved[r] # Missing => saved[r] \in Offered
  BY DEF OfferedInv
<1>4. now # Missing => now \in Offered
  BY <1>3 DEF PipelineTypeOK, FromOffers
<1>5. offer \in Setups /\ saved \in [Runs -> Selected]
  BY DEF PipelineTypeOK
<1> USE <1>2, <1>3 DEF FromOffers
<1>6. ASSUME NEW r \in Runs, Convert(r)
      PROVE  FromOffers(candidate)'
  <2>1. PICK up \in SUBSET DOMAIN offer :
           candidate' \in {candidate, Merged(Delivered(offer, up))}
    BY <1>6 DEF Convert
  <2>2. Merged(Delivered(offer, up)) \subseteq Offered
    BY <1>5, DeliveredMerged
  <2> QED
    BY <2>1, <2>2
<1>7. ASSUME NEW r \in Runs, HealthCheck(r)
      PROVE  FromOffers(next)'
  BY <1>7 DEF HealthCheck, Survivors
<1>8. CASE \E r \in Runs : Convert(r)
  BY <1>6, <1>8 DEF Convert
<1>9. CASE \E r \in Runs : HealthCheck(r)
  BY <1>7, <1>9 DEF HealthCheck
<1>10. CASE \E r \in Runs : BackupSelected(r)
  BY <1>4, <1>5, <1>10 DEF BackupSelected, Backup
<1>11. CASE \E r \in Runs : LoadSelected(r) \/ RestoreSelected(r) \/ ReloadSelected(r)
  BY <1>11 DEF LoadSelected, RestoreSelected, ReloadSelected, Load, Restore, Reload
<1>12. CASE \E r \in Runs : BeginOrDie(r)
  BY <1>5, <1>12 DEF BeginOrDie, TakeLock, Kill
<1>13. CASE \E r \in Runs : Plain(r)
  BY <1>13 DEF Plain, Publish, TryOut, RemoveNext, RemoveLock, pipeVars
<1>14. CASE Select \/ UNCHANGED pvars
  BY <1>14 DEF Select, pvars, pipeVars, rvars
<1> QED
  BY <1>8, <1>9, <1>10, <1>11, <1>12, <1>13, <1>14 DEF PipelineNext, GoOnPipeline

LEMMA OfferedInvAtInit ==
  ASSUME RefreshAssumption, PipelineAssumption, PipelineInit
  PROVE  OfferedInv
<1>1. healthy # Missing => healthy = Merged(Delivered(offer, DOMAIN offer))
  BY DEF PipelineInit
<1>2. NamesDiffer => Merged(Delivered(offer, DOMAIN offer)) \subseteq Offered
  BY DeliveredMerged DEF PipelineInit
<1> QED
  BY <1>1, <1>2 DEF PipelineInit, RefreshInit, OfferedInv, FromOffers

\* What was selected when the provider was about to be replaced.
SelectionInv ==
    /\ \A r \in Runs : /\ pc[r] \in {"prepare", "backup"} => ~kept[r]
                       /\ pc[r] = "publish" /\ kept[r] => now = saved[r]
    /\ SelectionSurvives

\* Where the selection of a run was put back, it is what SelectionSurvives asks.
PutBackAt(r) ==
    saved[r] # Missing =>
        /\ saved[r].name \in NodeNames(loaded) => now.name = saved[r].name
        /\ NamesDiffer /\ saved[r].key \in NodeKeys(loaded) => now.key = saved[r].key

LEMMA PutBackRestores ==
  ASSUME NEW r \in Runs, PutBack(r), loaded' # Missing, UNCHANGED <<offer, saved>>, OfferedInv, OfferedInv'
  PROVE  PutBackAt(r)'
<1> SUFFICES ASSUME saved[r] # Missing
             PROVE  /\ saved[r].name \in NodeNames(loaded') => now'.name = saved[r].name
                    /\ NamesDiffer /\ saved[r].key \in NodeKeys(loaded') => now'.key = saved[r].key
  BY DEF PutBackAt, NamesDiffer, Offered
<1>1. saved[r].name \in NodeNames(loaded') => now' \in loaded' /\ now'.name = saved[r].name
  BY DEF PutBack
<1>2. ASSUME NamesDiffer, saved[r].key \in NodeKeys(loaded')
      PROVE  now'.key = saved[r].key
  <2>1. saved[r] \in Offered /\ loaded' \subseteq Offered
    BY <1>2 DEF OfferedInv, FromOffers, NamesDiffer, Offered
  <2>2. PICK z \in loaded' : z.key = saved[r].key
    BY <1>2 DEF NodeKeys
  <2>3. z.name = saved[r].name
    BY <1>2, <2>1, <2>2 DEF NamesDiffer
  <2>4. now' \in loaded' /\ now'.name = saved[r].name
    BY <1>1, <2>2, <2>3 DEF NodeNames
  <2> QED
    BY <1>2, <2>1, <2>4 DEF NamesDiffer
<1> QED
  BY <1>1, <1>2

LEMMA SelectionInvPreserved ==
  ASSUME RefreshAssumption, PipelineAssumption, SingleRun, PipelineTypeOK,
         OfferedInv, OfferedInv', SelectionInv, [PipelineNext]_pvars
  PROVE  SelectionInv'
<1>1. \A q, r \in Runs : q = r
  BY DEF SingleRun
<1>2. /\ pc \in [Runs -> RefreshSteps] /\ kept \in [Runs -> BOOLEAN]
      /\ saved \in [Runs -> Selected] /\ healthy \in File /\ RefreshTypeOK
  BY DEF PipelineTypeOK, RefreshTypeOK
<1> DEFINE Inv(r) == /\ pc[r] \in {"prepare", "backup"} => ~kept[r]
                     /\ pc[r] = "publish" /\ kept[r] => now = saved[r]
                     /\ pc[r] \in {"try", "rm next"} /\ kept[r] => PutBackAt(r)
<1>3. SelectionInv <=> \A r \in Runs : Inv(r)
  BY DEF SelectionInv, SelectionSurvives, PutBackAt
<1>4. SelectionInv' <=> \A r \in Runs : Inv(r)'
  BY DEF SelectionInv, SelectionSurvives, PutBackAt
<1>5. ASSUME NEW r \in Runs, Inv(r)'
      PROVE  SelectionInv'
  BY <1>1, <1>4, <1>5
<1>6. ASSUME NEW r \in Runs
      PROVE  Inv(r)
  BY <1>3
<1>7. ASSUME UNCHANGED <<offer, loaded, now, saved>>, NEW r \in Runs
      PROVE  PutBackAt(r)' <=> PutBackAt(r)
  BY <1>7 DEF PutBackAt, NamesDiffer, Offered
<1>8. ASSUME NEW r \in Runs, Convert(r) \/ HealthCheck(r)
      PROVE  Inv(r)'
  <2>1. pc[r] = "prepare" /\ pc'[r] \in {"prepare", "backup", "rm next"} /\ UNCHANGED kept
    BY <1>2, <1>8 DEF Convert, HealthCheck, Goto
  <2> QED
    BY <1>6, <2>1
<1>9. ASSUME NEW r \in Runs, BackupSelected(r)
      PROVE  Inv(r)'
  <2>1. /\ pc[r] = "backup" /\ UNCHANGED now
        /\ \/ pc'[r] = "publish" /\ saved'[r] = now
           \/ pc'[r] = "rm next" /\ UNCHANGED kept
    BY <1>2, <1>9 DEF BackupSelected, Backup, Goto
  <2> QED
    BY <1>6, <2>1
<1>10. ASSUME NEW r \in Runs, LoadSelected(r)
       PROVE  Inv(r)'
  <2>1. /\ UNCHANGED <<offer, saved, kept>> /\ Load(r)
        /\ pc'[r] = "try" => PutBack(r)
    BY <1>10 DEF LoadSelected
  <2>2. pc'[r] \in {"try", "restore"} /\ (pc'[r] = "try" => loaded' = healthy) /\ healthy # Missing
    BY <1>2, <2>1 DEF Load, Goto, RefreshTypeOK
  <2> QED
    BY <2>1, <2>2, PutBackRestores
<1>11. ASSUME NEW r \in Runs, RestoreSelected(r)
       PROVE  Inv(r)'
  <2>1. pc'[r] = "reload" \/ (pc'[r] = "rm next" /\ ~kept'[r])
    BY <1>2, <1>11 DEF RestoreSelected, Restore, Forget, Goto
  <2> QED
    BY <2>1
<1>12. ASSUME NEW r \in Runs, ReloadSelected(r)
       PROVE  Inv(r)'
  <2>1. UNCHANGED <<offer, saved>> /\ pc'[r] = "rm next" /\ healthy # Missing
    BY <1>2, <1>12 DEF ReloadSelected, Reload, Goto, RefreshTypeOK
  <2>2. (loaded' = healthy /\ PutBack(r)) \/ ~kept'[r]
    BY <1>2, <1>12 DEF ReloadSelected, Forget
  <2> QED
    BY <2>1, <2>2, PutBackRestores
<1>13. ASSUME NEW r \in Runs, BeginOrDie(r)
       PROVE  Inv(r)'
  <2>1. ~kept'[r]
    BY <1>2, <1>13 DEF BeginOrDie, Forget
  <2> QED
    BY <2>1
<1>14. ASSUME NEW r \in Runs, Plain(r)
       PROVE  Inv(r)'
  <2>1. UNCHANGED <<offer, loaded, now, saved, kept>>
    BY <1>14 DEF Plain, pipeVars, Publish, TryOut, RemoveNext, RemoveLock
  <2>2. \/ pc[r] \in {"publish", "try"} /\ pc'[r] \in {"load", "rm next", "restore"}
        \/ pc'[r] \in {"rm lock", "idle"}
    BY <1>2, <1>14 DEF Plain, Publish, TryOut, RemoveNext, RemoveLock, Goto
  <2>3. pc[r] = "publish" /\ kept[r] => PutBackAt(r)
    BY <1>6 DEF PutBackAt
  <2> QED
    BY <1>6, <1>7, <2>1, <2>2, <2>3
<1>15. CASE Select
  <2>1. \A r \in Runs : ~kept'[r]
    BY <1>15 DEF Select
  <2> QED
    BY <1>4, <2>1
<1>16. CASE UNCHANGED pvars
  <2>1. UNCHANGED <<offer, loaded, now, saved, kept, pc>>
    BY <1>16 DEF pvars, pipeVars, rvars
  <2> QED
    BY <1>4, <1>6, <1>7, <2>1
<1> QED
  BY <1>5, <1>8, <1>9, <1>10, <1>11, <1>12, <1>13, <1>14, <1>15, <1>16 DEF PipelineNext, GoOnPipeline

\* One refresh at a time, whatever step fails, whoever selects and whichever
\* sources answer: the name selected when the provider was about to be replaced is
\* selected after the refresh or its rollback, and the node too where the sources
\* name theirs apart (Reload-And-Restore and the catch block).
THEOREM SelectionSurvivesThm ==
  ASSUME RefreshAssumption, PipelineAssumption, SingleRun
  PROVE  PipelineSpec => []SelectionSurvives
<1>1. PipelineInit => OfferedInv /\ SelectionInv
  BY OfferedInvAtInit DEF PipelineInit, SelectionInv, SelectionSurvives
<1>2. PipelineTypeOK /\ OfferedInv /\ [PipelineNext]_pvars => OfferedInv'
  BY OfferedInvPreserved
<1>3. PipelineTypeOK /\ OfferedInv /\ OfferedInv' /\ SelectionInv /\ [PipelineNext]_pvars => SelectionInv'
  BY SelectionInvPreserved
<1>4. SelectionInv => SelectionSurvives
  BY DEF SelectionInv
<1> QED
  BY <1>1, <1>2, <1>3, <1>4, PipelineTypes, PTL DEF PipelineSpec
=============================================================================
