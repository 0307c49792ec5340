-------------------------- MODULE GroupSwitchProofs --------------------------
(***************************************************************************)
(* For any nodes, delays, memberships, thresholds and failures, a round of *)
(* scripts/proxy-auto-switch.py moves its group to a living node of the    *)
(* best tier there is only, and for speed alone only after the dwell.      *)
(***************************************************************************)
EXTENDS GroupSwitch, DataLemmas

(* Delays *)

LEMMA SamplesAre ==
  ASSUME NEW samples \in Seq(Sample)
  PROVE  /\ Len(samples) \in Nat /\ DOMAIN samples = 1..Len(samples)
         /\ \A i \in 1..Len(samples) : samples[i].ms \in Nat
<1>1. \A i \in 1..Len(samples) : samples[i] \in Sample
  OBVIOUS
<1>2. \A s \in Sample : s.ms \in Nat
  BY DEF Sample
<1> QED
  BY <1>1, <1>2

LEMMA SomeSamples ==
  ASSUME NEW samples \in Seq(Sample), NEW ids \in SUBSET DOMAIN samples
  PROVE  IsFiniteSet(ids) /\ Cardinality(ids) \in Nat /\ (ids # {} => Cardinality(ids) # 0)
<1>1. Len(samples) \in Nat /\ DOMAIN samples = 1..Len(samples)
  BY SamplesAre
<1>2. 0 \in Int /\ 1 \in Int /\ Len(samples) \in Int
  BY <1>1
<1>3. IsFiniteSet(DOMAIN samples)
  BY <1>1, <1>2, FS_Interval
<1>4. IsFiniteSet(ids)
  BY <1>3, FS_Subset
<1> QED
  BY <1>4, FS_CardinalityType, FS_EmptySet

LEMMA DelaysBounded ==
  ASSUME NEW samples \in Seq(Sample)
  PROVE  \E b \in Nat : \A i \in DOMAIN samples : samples[i].ms <= b
<1> DEFINE len == Len(samples)
           Bound(n, b) == \A i \in 1..n : samples[i].ms <= b
           Bounded(n) == n <= len => \E b \in Nat : Bound(n, b)
           P == {n \in Nat : Bounded(n)}
<1>1. len \in Nat /\ DOMAIN samples = 1..len /\ \A i \in 1..len : samples[i].ms \in Nat
  BY SamplesAre
<1> HIDE DEF len
<1>2. 0 \in P
  <2>1. Bound(0, 0)
    OBVIOUS
  <2> QED
    BY <2>1
<1>3. ASSUME NEW n \in Nat, n \in P
      PROVE  n + 1 \in P
  <2>0. SUFFICES ASSUME n + 1 <= len PROVE \E b \in Nat : Bound(n + 1, b)
    <3> HIDE DEF Bound
    <3> QED
      BY <1>3
  <2>1. PICK b \in Nat : Bound(n, b)
    <3>1. n <= len
      BY <1>1, <2>0
    <3> HIDE DEF Bound
    <3> QED
      BY <1>3, <3>1
  <2>2. samples[n + 1].ms \in Nat
    BY <1>1, <2>0
  <2>3. Bound(n + 1, b + samples[n + 1].ms)
    <3>1. ASSUME NEW i \in 1..n + 1
          PROVE  samples[i].ms <= b + samples[n + 1].ms
      <4>1. CASE i = n + 1
        BY <2>2, <4>1
      <4>2. CASE i # n + 1
        <5>1. i \in 1..n /\ i \in 1..len
          BY <1>1, <2>0, <4>2
        <5>2. samples[i].ms <= b /\ samples[i].ms \in Nat
          BY <1>1, <2>1, <5>1
        <5> QED
          BY <2>2, <5>2
      <4> QED
        BY <4>1, <4>2
    <3> QED
      BY <3>1
  <2>4. b + samples[n + 1].ms \in Nat
    BY <2>2
  <2> HIDE DEF Bound
  <2> QED
    BY <2>3, <2>4
<1>4. Nat \subseteq P
  <2> HIDE DEF P
  <2> QED
    BY <1>2, <1>3, NatInd
<1>5. \E b \in Nat : Bound(len, b)
  <2> HIDE DEF Bound
  <2> QED
    BY <1>1, <1>4
<1> QED
  BY <1>1, <1>5

\* There is a k-th smallest delay.
LEMMA RankedIsDelay ==
  ASSUME NEW samples \in Seq(Sample), NEW ids \in SUBSET DOMAIN samples,
         NEW k \in 1..Cardinality(ids)
  PROVE  Ranked(samples, ids, k) \in Nat
<1> DEFINE Ms == {samples[i].ms : i \in ids}
           Below(v) == {i \in ids : samples[i].ms < v}
           UpTo(v) == {i \in ids : samples[i].ms <= v}
           T == {v \in Nat : Cardinality(UpTo(v)) >= k}
<1>1. \A i \in ids : samples[i].ms \in Nat
  BY SamplesAre
<1>2. IsFiniteSet(ids) /\ Cardinality(ids) \in Nat
  BY SomeSamples
<1>3. Cardinality(ids) \in Nat /\ k \in Nat /\ 1 <= k /\ k <= Cardinality(ids)
  BY <1>2
<1>4. \A v : IsFiniteSet(UpTo(v)) /\ IsFiniteSet(Below(v))
  BY <1>2, FS_Subset
<1>5. \A v : Cardinality(UpTo(v)) \in Nat /\ Cardinality(Below(v)) \in Nat
  BY <1>4, FS_CardinalityType
<1>6. T # {}
  <2>1. PICK b \in Nat : \A i \in DOMAIN samples : samples[i].ms <= b
    BY DelaysBounded
  <2>2. UpTo(b) = ids
    BY <2>1
  <2>3. b \in T
    BY <1>3, <2>2
  <2> QED
    BY <2>3
<1>7. PICK v \in T : \A w \in T : v <= w
  <2>1. T \subseteq Nat
    OBVIOUS
  <2> HIDE DEF T
  <2> QED
    BY <1>6, <2>1, LeastNat
<1>8. v \in Nat /\ Cardinality(UpTo(v)) >= k
  OBVIOUS
<1>9. Cardinality(Below(v)) < k
  <2>1. CASE v = 0
    <3>1. Below(v) = {}
      BY <1>1, <2>1
    <3>2. Cardinality(Below(v)) = 0
      BY <3>1, FS_EmptySet
    <3> HIDE DEF Below
    <3> QED
      BY <1>3, <3>2
  <2>2. CASE v # 0
    <3>1. v - 1 \in Nat /\ v - 1 \notin T
      BY <1>7, <1>8, <2>2
    <3>2. Cardinality(UpTo(v - 1)) < k
      <4>1. ~(Cardinality(UpTo(v - 1)) >= k) /\ Cardinality(UpTo(v - 1)) \in Nat
        BY <1>5, <3>1
      <4> HIDE DEF UpTo
      <4> QED
        BY <1>3, <4>1
    <3>3. Below(v) = UpTo(v - 1)
      BY <1>1, <1>8
    <3> QED
      BY <3>2, <3>3
  <2> QED
    BY <2>1, <2>2
<1>10. v \in Ms
  <2> SUFFICES ASSUME v \notin Ms PROVE FALSE
    OBVIOUS
  <2>1. Below(v) = UpTo(v)
    BY <1>1, <1>8
  <2>2. Cardinality(Below(v)) = Cardinality(UpTo(v))
    BY <2>1
  <2>3. Cardinality(Below(v)) \in Nat /\ Cardinality(UpTo(v)) \in Nat
    BY <1>5
  <2> HIDE DEF Below, UpTo
  <2> QED
    BY <1>3, <1>8, <1>9, <2>2, <2>3
<1>11. Ranked(samples, ids, k) \in Ms
  <2>1. Ranked(samples, ids, k) =
          CHOOSE ms \in Ms : Cardinality(Below(ms)) < k /\ Cardinality(UpTo(ms)) >= k
    BY DEF Ranked
  <2> HIDE DEF Ms, Below, UpTo
  <2> QED
    BY <1>8, <1>9, <1>10, <2>1
<1> QED
  BY <1>1, <1>11

\* smoothed_of: a delay, whatever the samples.
LEMMA SmoothedIsDelay ==
  ASSUME NEW samples \in Seq(Sample), NEW delayed \in Nat
  PROVE  Smoothed(samples, delayed) \in Nat
<1> DEFINE ids == ValidSamples(samples)
           k == Cardinality(ids)
<1>1. CASE ids = {}
  BY <1>1 DEF Smoothed
<1>2. CASE ids # {}
  <2>1. ids \in SUBSET DOMAIN samples
    BY DEF ValidSamples
  <2>2. k \in Nat /\ k # 0
    <3> HIDE DEF ids
    <3> QED
      BY <1>2, <2>1, SomeSamples
  <2>3. Smoothed(samples, delayed) = Median(samples, ids)
    BY <1>2 DEF Smoothed
  <2> HIDE DEF ids
  <2>4. \A j \in 1..k : Ranked(samples, ids, j) \in Nat
    BY <2>1, RankedIsDelay
  <2>5. Median(samples, ids) =
          IF k % 2 = 1 THEN Ranked(samples, ids, (k + 1) \div 2)
          ELSE (Ranked(samples, ids, k \div 2) + Ranked(samples, ids, k \div 2 + 1)) \div 2
    BY DEF Median
  <2> HIDE DEF k
  <2>6. CASE k % 2 = 1
    <3>1. (k + 1) \div 2 \in 1..k
      BY <2>2
    <3> QED
      BY <2>3, <2>4, <2>5, <2>6, <3>1
  <2>7. CASE k % 2 # 1
    <3>1. k \div 2 \in 1..k /\ k \div 2 + 1 \in 1..k
      BY <2>2, <2>7
    <3>2. \A a, b \in Nat : (a + b) \div 2 \in Nat
      OBVIOUS
    <3> QED
      BY <2>3, <2>4, <2>5, <2>7, <3>1, <3>2
  <2> QED
    BY <2>6, <2>7
<1> QED
  BY <1>1, <1>2

Stat == [samples : Seq(Sample), delay : Nat, smoothed : Nat]

-----------------------------------------------------------------------------
(* Choices *)

\* Those that come first, by a rank and then by the name.
Firsts(S, rank, order) ==
    {n \in S : \A m \in S \ {n} :
        rank[n] < rank[m] \/ (rank[n] = rank[m] /\ order[n] < order[m])}

\* There is one.
LEMMA FirstOfAll ==
  ASSUME NEW S, S # {}, NEW rank \in [S -> Nat], NEW order \in [S -> Nat],
         \A m, n \in S : order[m] = order[n] => m = n
  PROVE  Firsts(S, rank, order) # {}
<1> DEFINE Ranks == {rank[n] : n \in S}
<1>1. PICK r \in Ranks : \A q \in Ranks : r <= q
  <2>1. Ranks \subseteq Nat /\ Ranks # {}
    OBVIOUS
  <2> HIDE DEF Ranks
  <2> QED
    BY <2>1, LeastNat
<1> DEFINE Orders == {order[n] : n \in {m \in S : rank[m] = r}}
<1>2. PICK o \in Orders : \A q \in Orders : o <= q
  <2>1. Orders \subseteq Nat /\ Orders # {}
    OBVIOUS
  <2> HIDE DEF Orders
  <2> QED
    BY <2>1, LeastNat
<1>3. PICK n \in S : rank[n] = r /\ order[n] = o
  OBVIOUS
<1>4. ASSUME NEW m \in S \ {n}
      PROVE  rank[n] < rank[m] \/ (rank[n] = rank[m] /\ order[n] < order[m])
  <2>1. r <= rank[m] /\ (rank[m] = r => o <= order[m]) /\ order[m] # order[n]
    BY <1>1, <1>2, <1>3
  <2>2. rank[m] \in Nat /\ rank[n] \in Nat /\ order[m] \in Nat /\ order[n] \in Nat
    OBVIOUS
  <2> QED
    BY <1>3, <2>1, <2>2
<1> QED
  BY <1>3, <1>4 DEF Firsts

\* pick_best: a node of the list, whenever there are any.
LEMMA BestIsThere ==
  ASSUME DecisionAssumption, NEW st \in [Nodes -> Stat],
         NEW names \in SUBSET Nodes, names # {}
  PROVE  PickBest(st, names) \in names
<1> DEFINE living == {n \in names : Alive(st[n].smoothed)}
           pool == IF living = {} THEN names ELSE living
           rank == [n \in pool |-> st[n].smoothed]
           order == [n \in pool |-> Order[n]]
           First(n) == \A m \in names \ {n} : Before(st, n, m)
<1>1. \A n \in names : st[n].smoothed \in Nat /\ Order[n] \in Nat
  <2>1. \A n \in names : st[n] \in Stat
    OBVIOUS
  <2> QED
    BY <2>1 DEF DecisionAssumption, Stat
<1>2. pool # {} /\ pool \subseteq names
  OBVIOUS
<1> HIDE DEF pool
<1>3. /\ rank \in [pool -> Nat] /\ order \in [pool -> Nat]
      /\ \A m, n \in pool : order[m] = order[n] => m = n
  BY <1>1, <1>2 DEF DecisionAssumption
<1> HIDE DEF rank, order
<1>4. PICK n \in pool : \A m \in pool \ {n} :
         rank[n] < rank[m] \/ (rank[n] = rank[m] /\ order[n] < order[m])
  <2> HIDE DEF living, First
  <2>1. Firsts(pool, rank, order) # {}
    BY <1>2, <1>3, FirstOfAll
  <2> QED
    BY <2>1 DEF Firsts
<1>5. ASSUME NEW m \in names \ {n}
      PROVE  Before(st, n, m)
  <2>1. /\ st[n].smoothed \in Nat /\ st[m].smoothed \in Nat
        /\ Order[n] \in Nat /\ Order[m] \in Nat
    BY <1>1, <1>2
  <2>2. CASE m \in pool
    <3>1. \/ st[n].smoothed < st[m].smoothed
          \/ st[n].smoothed = st[m].smoothed /\ Order[n] < Order[m]
      BY <1>4, <2>2 DEF rank, order
    <3>2. Alive(st[n].smoothed) \/ (~Alive(st[n].smoothed) /\ ~Alive(st[m].smoothed))
      BY <2>2 DEF pool
    <3> QED
      BY <2>1, <3>1, <3>2 DEF Before, Alive
  <2>3. CASE m \notin pool
    <3>1. Alive(st[n].smoothed) /\ ~Alive(st[m].smoothed)
      BY <2>3 DEF pool
    <3> QED
      BY <2>1, <3>1 DEF Before, Alive
  <2> QED
    BY <2>2, <2>3
<1>6. n \in names /\ First(n)
  BY <1>2, <1>5
<1>7. PickBest(st, names) = CHOOSE a \in names : First(a)
  BY DEF PickBest
<1> HIDE DEF First
<1> QED
  BY <1>6, <1>7

LEMMA TopTierIsTop ==
  ASSUME DecisionAssumption, NEW names \in SUBSET Nodes
  PROVE  /\ TopTier(names) \subseteq names
         /\ \A n \in TopTier(names), m \in names : Tier[m] <= Tier[n]
         /\ names # {} => TopTier(names) # {}
<1>1. ASSUME names # {}
      PROVE  TopTier(names) # {}
  <2> DEFINE below == {3 - Tier[n] : n \in names}
  <2>1. \A n \in names : Tier[n] \in 1..3
    BY DEF DecisionAssumption
  <2>2. below \subseteq Nat /\ below # {}
    BY <1>1, <2>1
  <2> HIDE DEF below
  <2>3. PICK b \in below : \A c \in below : b <= c
    BY <2>2, LeastNat
  <2>4. PICK n \in names : b = 3 - Tier[n]
    BY DEF below
  <2>5. \A m \in names : 3 - Tier[n] <= 3 - Tier[m]
    BY <2>3, <2>4 DEF below
  <2>6. \A m \in names : Tier[m] <= Tier[n]
    BY <2>1, <2>5
  <2> QED
    BY <2>6 DEF TopTier
<1> QED
  BY <1>1 DEF TopTier

-----------------------------------------------------------------------------
(* Decisions *)

\* A node the group may be moved to: a living member, no other is of a better tier.
Fit(n, living) == n \in living /\ \A m \in living : Tier[m] <= Tier[n]

GoodDecision(d, muse, cur, mine, st, gs) ==
    /\ d.target \in Nodes \cup {NoNode} /\ d.cand \in Nodes \cup {NoNode}
    /\ d.reason \in Holds \cup Moves
    /\ d.target # NoNode => /\ Fit(d.target, AliveMembers(st, mine))
                            /\ muse /\ cur \in mine => Tier[d.target] = US
    /\ d.reason = "switch_margin" => gs.since >= MinDwell

LEMMA HoldIsGood ==
  ASSUME NEW muse \in BOOLEAN, NEW cur, NEW mine, NEW st, NEW gs, NEW reason \in Holds
  PROVE  GoodDecision(Hold(reason), muse, cur, mine, st, gs)
<1>1. /\ Hold(reason).target = NoNode /\ Hold(reason).cand = NoNode
      /\ Hold(reason).reason = reason
  BY DEF Hold, Outcome
<1>2. reason \in Holds \cup Moves /\ reason # "switch_margin"
  BY DEF Holds
<1> QED
  BY <1>1, <1>2 DEF GoodDecision

LEMMA SwitchIsGood ==
  ASSUME DecisionAssumption, NEW muse \in BOOLEAN, NEW cur, NEW mine \in SUBSET Nodes,
         NEW st, NEW gs, NEW target, Fit(target, AliveMembers(st, mine)),
         muse /\ cur \in mine => Tier[target] = US,
         NEW reason \in Moves \ {"switch_margin"}
  PROVE  GoodDecision(Switch(target, reason), muse, cur, mine, st, gs)
<1>1. /\ Switch(target, reason).target = target /\ Switch(target, reason).cand = NoNode
      /\ Switch(target, reason).reason = reason
  BY DEF Switch, Outcome
<1>2. target \in Nodes
  BY DEF Fit, AliveMembers
<1> QED
  BY <1>1, <1>2 DEF GoodDecision

LEMMA BestOfTierFits ==
  ASSUME DecisionAssumption, NEW st \in [Nodes -> Stat], NEW pool \in SUBSET Nodes, pool # {}
  PROVE  Fit(PickBest(st, TopTier(pool)), pool)
<1>1. /\ TopTier(pool) \subseteq pool /\ TopTier(pool) # {}
      /\ \A n \in TopTier(pool), m \in pool : Tier[m] <= Tier[n]
  BY TopTierIsTop
<1>2. PickBest(st, TopTier(pool)) \in TopTier(pool)
  BY <1>1, BestIsThere
<1> QED
  BY <1>1, <1>2 DEF Fit

\* Who is US leads every tier.
LEMMA USLeads ==
  ASSUME DecisionAssumption, NEW n \in Nodes
  PROVE  Tier[n] \in 1..3 /\ Tier[n] <= US
BY DEF DecisionAssumption, US

LEMMA RecoverIsGood ==
  ASSUME DecisionAssumption, NEW muse \in BOOLEAN, NEW cur, NEW mine \in SUBSET Nodes,
         NEW st \in [Nodes -> Stat], NEW gs
  PROVE  GoodDecision(Recover(muse, cur, mine, st), muse, cur, mine, st, gs)
<1> DEFINE living == AliveMembers(st, mine)
           pool == RecoverPool(muse, cur, mine, st)
           target == PickBest(st, TopTier(pool))
<1>1. pool \subseteq living /\ living \subseteq Nodes
      /\ (muse /\ cur \in mine => \A n \in pool : Tier[n] = US)
      /\ (~(muse /\ cur \in mine) => pool = living)
  BY DEF RecoverPool, AliveMembers
<1>2. CASE pool = {}
  <2>1. Recover(muse, cur, mine, st) =
          Hold(IF muse /\ cur \in mine THEN "hold_muse_frozen" ELSE "hold_no_alive_member")
    BY <1>2 DEF Recover
  <2> QED
    BY <2>1, HoldIsGood DEF Holds
<1>3. CASE pool # {}
  <2>1. PICK reason \in Moves \ {"switch_margin"} :
          Recover(muse, cur, mine, st) = Switch(target, reason)
    <3>1. Recover(muse, cur, mine, st) =
            Switch(target, IF cur \notin mine THEN "switch_missing"
                           ELSE IF Tier[target] < Tier[cur] THEN "switch_downgrade"
                           ELSE IF Tier[target] > Tier[cur] THEN "switch_upgrade"
                           ELSE "switch_dead")
      BY <1>3 DEF Recover
    <3> HIDE DEF target
    <3> QED
      BY <3>1 DEF Moves
  <2>2. Fit(target, pool)
    <3>1. pool \in SUBSET Nodes
      BY <1>1
    <3> HIDE DEF pool
    <3> QED
      BY <1>3, <3>1, BestOfTierFits
  <2> HIDE DEF target, pool
  <2>3. target \in living /\ (muse /\ cur \in mine => Tier[target] = US)
    BY <1>1, <2>2 DEF Fit
  <2>4. Fit(target, living)
    <3>1. \A m \in living : Tier[m] \in 1..3 /\ Tier[m] <= US
      BY <1>1, USLeads
    <3> HIDE DEF living
    <3> QED
      BY <1>1, <2>2, <2>3, <3>1 DEF Fit
  <2> QED
    BY <2>1, <2>3, <2>4, SwitchIsGood
<1> QED
  BY <1>2, <1>3

LEMMA UpgradeIsGood ==
  ASSUME DecisionAssumption, NEW muse \in BOOLEAN, NEW cur \in Nodes, NEW mine \in SUBSET Nodes,
         NEW st \in [Nodes -> Stat], NEW gs, Higher(muse, cur, mine, st) # {}
  PROVE  GoodDecision(Upgrade(muse, cur, mine, st), muse, cur, mine, st, gs)
<1> DEFINE living == AliveMembers(st, mine)
           pool == Higher(muse, cur, mine, st)
           target == PickBest(st, TopTier(pool))
<1>1. living \subseteq Nodes /\ pool \subseteq living
  BY DEF Higher, AliveMembers
<1>2. /\ \A n \in pool : Tier[n] > Tier[cur] /\ (muse => Tier[n] = US)
      /\ ~muse => \A m \in living \ pool : ~(Tier[m] > Tier[cur])
  BY DEF Higher
<1>3. Fit(target, pool)
  <2>1. pool \in SUBSET Nodes
    BY <1>1
  <2> HIDE DEF pool
  <2> QED
    BY <2>1, BestOfTierFits DEF pool
<1>4. Upgrade(muse, cur, mine, st) = IF ConsecutiveAlive(st[target])
                                        THEN Switch(target, "switch_upgrade")
                                        ELSE Hold("hold_cand_unstable")
  BY DEF Upgrade
<1> HIDE DEF target, pool
<1>5. target \in living /\ (muse => Tier[target] = US) /\ Tier[target] > Tier[cur]
  BY <1>1, <1>2, <1>3 DEF Fit
<1>6. Fit(target, living)
  <2>1. \A m \in living : Tier[m] \in 1..3 /\ Tier[m] <= US
    BY <1>1, USLeads
  <2>2. Tier[cur] \in 1..3
    BY USLeads
  <2> HIDE DEF living
  <2> QED
    BY <1>1, <1>2, <1>3, <1>5, <2>1, <2>2 DEF Fit
<1>7. "switch_upgrade" \in Moves \ {"switch_margin"} /\ "hold_cand_unstable" \in Holds
  BY DEF Holds, Moves
<1>8. GoodDecision(Switch(target, "switch_upgrade"), muse, cur, mine, st, gs)
  BY <1>5, <1>6, <1>7, SwitchIsGood
<1>9. GoodDecision(Hold("hold_cand_unstable"), muse, cur, mine, st, gs)
  BY <1>7, HoldIsGood
<1> QED
  BY <1>4, <1>8, <1>9

LEMMA CompeteIsGood ==
  ASSUME DecisionAssumption, NEW muse \in BOOLEAN, NEW cur \in Nodes, NEW mine \in SUBSET Nodes,
         NEW st \in [Nodes -> Stat], NEW gs \in GroupState,
         cur \in AliveMembers(st, mine), Higher(muse, cur, mine, st) = {}
  PROVE  GoodDecision(Compete(muse, cur, mine, st, gs), muse, cur, mine, st, gs)
<1> DEFINE living == AliveMembers(st, mine)
           peers == {n \in living : Tier[n] = Tier[cur]}
           best == PickBest(st, peers)
           streak == NextStreak(gs, best)
<1>1. living \subseteq Nodes /\ cur \in peers
  BY DEF AliveMembers
<1>2. best \in peers
  <2>1. peers \in SUBSET Nodes /\ peers # {}
    BY <1>1
  <2> HIDE DEF peers
  <2> QED
    BY <2>1, BestIsThere
<1>3. best \in living /\ best \in Nodes /\ Tier[best] = Tier[cur]
  BY <1>1, <1>2
<1>4. \A m \in living : Tier[m] > Tier[cur] => muse /\ Tier[m] # US
  BY DEF Higher
<1>5. Compete(muse, cur, mine, st, gs) =
        IF best = cur THEN Hold("hold_ok")
        ELSE IF muse /\ Tier[cur] # US THEN Hold("hold_muse_frozen")
        ELSE IF ~LeadsByMargin(st, cur, best) THEN Hold("hold_margin")
        ELSE IF ~AliveWithin(st[best]) THEN Outcome(NoNode, "hold_cand_unstable", best, streak)
        ELSE IF streak < SwitchStreak THEN Outcome(NoNode, "hold_streak", best, streak)
        ELSE IF gs.since < MinDwell THEN Outcome(NoNode, "hold_dwell", best, streak)
        ELSE Outcome(best, "switch_margin", best, streak)
  BY DEF Compete
<1> HIDE DEF best, peers, streak
<1>6. ASSUME NEW reason \in Holds
      PROVE  GoodDecision(Outcome(NoNode, reason, best, streak), muse, cur, mine, st, gs)
  <2>1. /\ Outcome(NoNode, reason, best, streak).target = NoNode
        /\ Outcome(NoNode, reason, best, streak).cand = best
        /\ Outcome(NoNode, reason, best, streak).reason = reason
    BY DEF Outcome
  <2>2. reason \in Holds \cup Moves /\ reason # "switch_margin"
    BY <1>6 DEF Holds
  <2> QED
    BY <1>3, <2>1, <2>2 DEF GoodDecision
<1>7. ASSUME ~(muse /\ Tier[cur] # US), ~(gs.since < MinDwell)
      PROVE  GoodDecision(Outcome(best, "switch_margin", best, streak),
                          muse, cur, mine, st, gs)
  <2>1. \A m \in living : Tier[m] \in 1..3 /\ Tier[m] <= US
    BY <1>1, USLeads
  <2>2. Fit(best, living)
    <3>1. Tier[cur] \in 1..3
      BY USLeads
    <3> HIDE DEF living
    <3> QED
      BY <1>3, <1>4, <1>7, <2>1, <3>1 DEF Fit
  <2>3. gs.since >= MinDwell
    BY <1>7 DEF DecisionAssumption, GroupState
  <2>4. /\ Outcome(best, "switch_margin", best, streak).target = best
        /\ Outcome(best, "switch_margin", best, streak).cand = best
        /\ Outcome(best, "switch_margin", best, streak).reason = "switch_margin"
    BY DEF Outcome
  <2>5. "switch_margin" \in Holds \cup Moves
    BY DEF Moves
  <2> QED
    BY <1>3, <1>7, <2>2, <2>3, <2>4, <2>5 DEF GoodDecision
<1> QED
  BY <1>5, <1>6, <1>7, HoldIsGood DEF Holds

\* decide_group: it names no node but a living member, of the best tier that has
\* one, and the US if MUSE runs one of its mine.
LEMMA DecideIsGood ==
  ASSUME DecisionAssumption, NEW muse \in BOOLEAN, NEW cur \in Nodes, NEW mine \in SUBSET Nodes,
         NEW st \in [Nodes -> Stat], NEW gs \in GroupState
  PROVE  GoodDecision(Decide(muse, cur, mine, st, gs), muse, cur, mine, st, gs)
<1>1. CASE NothingAlive(st)
  BY <1>1, HoldIsGood DEF Decide, Holds
<1>2. CASE ~NothingAlive(st) /\ cur \notin AliveMembers(st, mine)
  BY <1>2, RecoverIsGood DEF Decide
<1>3. CASE /\ ~NothingAlive(st) /\ cur \in AliveMembers(st, mine)
           /\ Higher(muse, cur, mine, st) # {}
  BY <1>3, UpgradeIsGood DEF Decide
<1>4. CASE /\ ~NothingAlive(st) /\ cur \in AliveMembers(st, mine)
           /\ Higher(muse, cur, mine, st) = {}
  BY <1>4, CompeteIsGood DEF Decide
<1> QED
  BY <1>1, <1>2, <1>3, <1>4

\* plan_switches, of the probes of at least the mine: the same.
LEMMA PlanIsGood ==
  ASSUME DecisionAssumption, NEW muse \in BOOLEAN, NEW results, NEW mine \in SUBSET Nodes,
         DOMAIN results \subseteq Nodes, mine \subseteq DOMAIN results,
         \A n \in DOMAIN results : results[n] \in Nat
  PROVE  LET living == {n \in mine : Alive(results[n])}
             target == Plan(muse, mine, results)
         IN  target # NoNode => Fit(target, living) /\ (muse => Tier[target] = US)
<1> DEFINE living == {n \in mine : Alive(results[n])}
           mode == Mode(results)
           pool == PlanPool(mode, mine, results)
           target == Plan(muse, mine, results)
<1>1. SUFFICES ASSUME target # NoNode
               PROVE  Fit(target, living) /\ (muse => Tier[target] = US)
  OBVIOUS
<1>2. target = Fastest(results, pool) /\ pool # {} /\ (muse => mode = "A")
  BY <1>1 DEF Plan
<1> HIDE DEF target
<1>3. /\ pool \subseteq living /\ living \subseteq Nodes
      /\ mode = "A" => \A n \in pool : Tier[n] = US
      /\ mode = "B" => \A n \in pool : Tier[n] = 2
  BY DEF PlanPool
<1>4. Fastest(results, pool) \in pool
  <2> DEFINE rank == [n \in pool |-> results[n]]
             order == [n \in pool |-> Order[n]]
             First(n) == \A m \in pool \ {n} :
                            (results[n] < results[m]
                             \/ (results[n] = results[m] /\ Order[n] < Order[m]))
  <2>1. \A n \in pool : n \in DOMAIN results /\ n \in Nodes
    BY <1>3
  <2> HIDE DEF pool
  <2>2. /\ rank \in [pool -> Nat] /\ order \in [pool -> Nat]
        /\ \A m, n \in pool : order[m] = order[n] => m = n
    BY <2>1 DEF DecisionAssumption
  <2> HIDE DEF rank, order
  <2>3. PICK n \in pool : \A m \in pool \ {n} :
           rank[n] < rank[m] \/ (rank[n] = rank[m] /\ order[n] < order[m])
    <3>1. Firsts(pool, rank, order) # {}
      BY <1>2, <2>2, FirstOfAll
    <3> QED
      BY <3>1 DEF Firsts
  <2>4. First(n)
    BY <2>3 DEF rank, order
  <2>5. Fastest(results, pool) = CHOOSE a \in pool : First(a)
    BY DEF Fastest
  <2> HIDE DEF First
  <2> QED
    BY <2>4, <2>5
\* The mode is that of the best tier among all probed nodes.
<1>5. /\ mode # "A" => \A m \in living : Tier[m] # US
      /\ mode \notin {"A", "B"} => \A m \in living : Tier[m] # 2
      /\ mode \in {"A", "B", "C"}
  BY DEF Mode
<1>6. \A n \in living : Tier[n] \in 1..3
  BY <1>3, USLeads
<1> HIDE DEF pool, living, mode
<1>7. target \in pool /\ target \in living
  BY <1>2, <1>3, <1>4
<1>8. \A m \in living : Tier[m] <= Tier[target]
  BY <1>3, <1>5, <1>6, <1>7 DEF US
<1> QED
  BY <1>2, <1>3, <1>7, <1>8 DEF Fit

-----------------------------------------------------------------------------
(* The history *)

Histories == [Nodes -> Seq(Sample)]

LEMMA NewestType ==
  ASSUME NEW s \in Seq(Sample), NEW k \in Nat
  PROVE  Newest(s, k) \in Seq(Sample)
<1>1. Len(s) \in Nat
  OBVIOUS
<1>2. CASE Len(s) > k
  <2>1. Len(s) - k + 1 \in 1..Len(s) + 1
    BY <1>1, <1>2
  <2> QED
    BY <1>1, <1>2, <2>1 DEF Newest
<1>3. CASE ~(Len(s) > k)
  BY <1>1, <1>3 DEF Newest
<1> QED
  BY <1>2, <1>3

LEMMA UpdateNodesType ==
  ASSUME DecisionAssumption, NEW hist \in Histories, NEW results,
         \A n \in DOMAIN results : results[n] \in Nat
  PROVE  UpdateNodes(hist, results) \in Histories
<1> DEFINE appended == [n \in Nodes |->
              IF n \in DOMAIN results
              THEN Newest(Append(hist[n], [age |-> 0, ms |-> results[n]]), SampleKeep)
              ELSE hist[n]]
<1>1. ASSUME NEW n \in Nodes
      PROVE  appended[n] \in Seq(Sample)
  <2>1. hist[n] \in Seq(Sample)
    BY DEF Histories
  <2>2. CASE n \in DOMAIN results
    <3>1. [age |-> 0, ms |-> results[n]] \in Sample
      BY <2>2 DEF Sample
    <3>2. Append(hist[n], [age |-> 0, ms |-> results[n]]) \in Seq(Sample)
      BY <2>1, <3>1
    <3>3. SampleKeep \in Nat
      BY DEF DecisionAssumption
    <3> QED
      BY <2>2, <3>2, <3>3, NewestType
  <2> QED
    BY <2>1, <2>2
<1>2. <<>> \in Seq(Sample)
  OBVIOUS
<1>3. UpdateNodes(hist, results) =
        [n \in Nodes |-> IF appended[n] # <<>> /\ appended[n][Len(appended[n])].age <= PruneAge
                         THEN appended[n] ELSE <<>>]
  BY DEF UpdateNodes
<1> HIDE DEF appended
<1> QED
  BY <1>1, <1>2, <1>3 DEF Histories

LEMMA StatsType ==
  ASSUME NEW hist \in Histories, NEW results,
         \A n \in DOMAIN results : results[n] \in Nat
  PROVE  /\ Stats(hist, results) \in [Nodes -> Stat]
         /\ \A n \in Nodes \cap DOMAIN results : Stats(hist, results)[n].delay = results[n]
<1>1. ASSUME NEW n \in Nodes
      PROVE  /\ Stats(hist, results)[n] \in Stat
             /\ n \in DOMAIN results => Stats(hist, results)[n].delay = results[n]
  <2> DEFINE ms == IF n \in DOMAIN results THEN results[n] ELSE 0
  <2>1. ms \in Nat /\ hist[n] \in Seq(Sample)
    BY DEF Histories
  <2>2. Stats(hist, results)[n] =
          [samples |-> hist[n], delay |-> ms, smoothed |-> Smoothed(hist[n], ms)]
    BY DEF Stats
  <2>3. Smoothed(hist[n], ms) \in Nat
    <3> HIDE DEF ms
    <3> QED
      BY <2>1, SmoothedIsDelay
  <2>4. Stats(hist, results)[n].delay = ms
    BY <2>2
  <2>5. Stats(hist, results)[n] \in Stat
    <3> HIDE DEF ms
    <3> QED
      BY <2>1, <2>2, <2>3 DEF Stat
  <2> QED
    BY <2>4, <2>5
<1>2. Stats(hist, results) = [n \in Nodes |-> Stats(hist, results)[n]]
  BY DEF Stats
<1> QED
  BY <1>1, <1>2

LEMMA AlignType ==
  ASSUME NEW saved \in GroupState, NEW legacy, NEW real \in Nodes
  PROVE  Fresh(real) \in GroupState /\ Align(saved, legacy, real) \in GroupState
BY DEF GroupState, Align, Fresh

LEMMA AdvanceType ==
  ASSUME DecisionAssumption, NEW gs \in GroupState, NEW real \in Nodes,
         NEW c \in Nodes \cup {NoNode}
  PROVE  Advance(gs, real, c) \in GroupState
<1>1. NextStreak(gs, c) \in Nat
  BY DEF GroupState, NextStreak, DecisionAssumption
<1>2. [gs EXCEPT !.cand = c, !.streak = NextStreak(gs, c)] \in GroupState
  BY <1>1 DEF GroupState
<1>3. [gs EXCEPT !.cand = NoNode, !.streak = 0] \in GroupState
  BY DEF GroupState
<1>4. Fresh(real) \in GroupState
  BY DEF Fresh, GroupState
<1> QED
  BY <1>2, <1>3, <1>4 DEF Advance

LEMMA OlderType ==
  ASSUME NEW age \in Nat, NEW d \in Nat, NEW enough \in Nat
  PROVE  Older(age, d, enough) \in Nat /\ Older(age, d, enough) <= enough
BY DEF Older

\* What AgedFile makes of the samples of a node.
AgedSamples(s, d, enough) ==
    [i \in DOMAIN s |-> [age |-> Older(s[i].age, d, enough), ms |-> s[i].ms]]

LEMMA AgedSamplesType ==
  ASSUME NEW s \in Seq(Sample), NEW d \in Nat, NEW enough \in Nat
  PROVE  AgedSamples(s, d, enough) \in Seq(Sample)
<1>1. Len(s) \in Nat /\ DOMAIN s = 1..Len(s)
  OBVIOUS
<1>2. ASSUME NEW i \in 1..Len(s)
      PROVE  [age |-> Older(s[i].age, d, enough), ms |-> s[i].ms] \in Sample
  <2>1. s[i] \in Sample
    BY <1>2
  <2>2. s[i].age \in Nat /\ s[i].ms \in Nat
    BY <2>1 DEF Sample
  <2>3. Older(s[i].age, d, enough) \in Nat
    BY <2>2, OlderType
  <2> QED
    BY <2>2, <2>3 DEF Sample
<1>3. AgedSamples(s, d, enough) \in [1..Len(s) -> Sample]
  BY <1>1, <1>2 DEF AgedSamples
<1>4. \A f \in [1..Len(s) -> Sample] : f \in Seq(Sample)
  BY <1>1
<1> QED
  BY <1>3, <1>4

LEMMA AgedType ==
  ASSUME DecisionAssumption, file \in File, NEW d \in Nat
  PROVE  /\ AgedFile(d) \in File
         /\ AgedFile(d).legacy = file.legacy
         /\ AgedFile(d).gs = [file.gs EXCEPT !.since = Older(file.gs.since, d, MinDwell)]
<1> DEFINE gs == [file.gs EXCEPT !.since = Older(file.gs.since, d, MinDwell)]
           hist == [n \in Nodes |-> [i \in DOMAIN file.hist[n] |->
                      [age |-> Older(file.hist[n][i].age, d, PruneAge + 1),
                       ms |-> file.hist[n][i].ms]]]
<1>1. AgedFile(d) = [file EXCEPT !.gs = gs, !.hist = hist]
  BY DEF AgedFile
<1>2. MinDwell \in Nat /\ PruneAge + 1 \in Nat
  BY DEF DecisionAssumption
<1>3. gs \in GroupState
  <2>1. file.gs \in GroupState
    BY DEF File
  <2>2. file.gs.since \in Nat
    BY <2>1 DEF GroupState
  <2>3. Older(file.gs.since, d, MinDwell) \in Nat
    BY <1>2, <2>2, OlderType
  <2> QED
    BY <2>1, <2>3 DEF GroupState
<1>4. hist \in Histories
  <2>1. ASSUME NEW n \in Nodes
        PROVE  hist[n] \in Seq(Sample)
    <3>1. file.hist[n] \in Seq(Sample)
      BY DEF File
    <3> DEFINE kept == file.hist[n]
               oldest == PruneAge + 1
    <3>2. hist[n] = AgedSamples(kept, d, oldest)
      BY DEF AgedSamples
    <3>3. oldest \in Nat
      BY <1>2
    <3> HIDE DEF kept, oldest, hist
    <3>4. kept \in Seq(Sample)
      BY <3>1 DEF kept
    <3>5. AgedSamples(kept, d, oldest) \in Seq(Sample)
      BY <3>3, <3>4, AgedSamplesType
    <3> QED
      BY <3>2, <3>5
  <2>2. hist = [n \in Nodes |-> hist[n]]
    OBVIOUS
  <2> HIDE DEF hist
  <2> QED
    BY <2>1, <2>2 DEF Histories
<1> HIDE DEF gs, hist
<1>5. AgedFile(d) \in File
  BY <1>1, <1>3, <1>4 DEF File, Histories
<1>6. AgedFile(d).legacy = file.legacy /\ AgedFile(d).gs = gs
  BY <1>1 DEF File
<1> QED
  BY <1>5, <1>6 DEF gs

-----------------------------------------------------------------------------
(* The rounds *)

\* A round that is to move the group moves it to a fit node: what it saw of the
\* probes and the members is still so.
PutFits ==
    pc = "put" => /\ Fit(loc.target, Living)
                  /\ setting.muse /\ loc.cur \in members => Tier[loc.target] = US

\* What the script knows of its own switches: the node the state file has has been
\* run for as long as the file says, at least.
DwellKnown ==
    KnowsItsSwitches =>
        /\ pc = "idle" => /\ file.legacy => file.gs.current = NoNode
                          /\ file.gs.current = now => file.gs.since <= held
        /\ pc # "idle" => /\ loc.mode = "hysteresis"
                          /\ loc.gs.current = now => loc.gs.since <= held
        /\ pc = "put" => /\ loc.gs.current = now
                         /\ loc.reason = "switch_margin" => held = MinDwell

GroupInv == GroupTypeOK /\ PutFits /\ DwellKnown

LEMMA NoFileIsFile == NoHistory \in Histories /\ NoFile \in File /\ NoFile.gs.current = NoNode
<1>1. NoHistory \in Histories
  <2>1. <<>> \in Seq(Sample)
    OBVIOUS
  <2> QED
    BY <2>1 DEF NoHistory, Histories
<1>2. Fresh(NoNode) \in GroupState /\ Fresh(NoNode).current = NoNode
  BY DEF Fresh, GroupState
<1> QED
  BY <1>1, <1>2 DEF NoFile, File, Histories

LEMMA NothingIsLocal ==
  ASSUME NEW n \in Nodes
  PROVE  NoHistory \in Histories /\ Nothing(n) \in Local
<1>1. NoHistory \in Histories
  BY NoFileIsFile
<1>2. Fresh(NoNode) \in GroupState
  BY DEF Fresh, GroupState
<1> QED
  BY <1>1, <1>2 DEF Nothing, Local, Modes, Histories

LEMMA GroupInvAtInit ==
  ASSUME DecisionAssumption, GroupAssumption, GroupInit
  PROVE  GroupInv
<1>1. NoFile \in File
  BY NoFileIsFile
<1>2. now \in Nodes
  BY DEF GroupInit
<1>3. Nothing(now) \in Local
  BY <1>2, NothingIsLocal
<1>4. delay \in [Nodes -> Nat]
  BY DEF GroupInit, GroupAssumption
<1>5. held \in 0..MinDwell
  BY DEF GroupInit, DecisionAssumption
<1>6. GroupTypeOK
  BY <1>1, <1>2, <1>3, <1>4, <1>5 DEF GroupInit, GroupTypeOK
<1>7. PutFits /\ DwellKnown
  BY <1>2 DEF GroupInit, PutFits, DwellKnown, NoFile, Fresh, DecisionAssumption
<1> QED
  BY <1>6, <1>7 DEF GroupInv

LEMMA ResultsAre ==
  ASSUME DecisionAssumption, GroupAssumption, GroupTypeOK, NEW mode
  PROVE  /\ DOMAIN Results(mode) \subseteq Nodes /\ members \subseteq DOMAIN Results(mode)
         /\ \A n \in DOMAIN Results(mode) : Results(mode)[n] = delay[n] /\ delay[n] \in Nat
BY DEF GroupAssumption, GroupTypeOK, Results

\* A round begins: what it decides is fit for what it saw, and what it takes from
\* the state file has been so for as long.
LEMMA StartInv ==
  ASSUME DecisionAssumption, GroupAssumption, GroupInv,
         NEW mode \in setting.modes, NEW d \in Gaps, Start(mode, d)
  PROVE  GroupInv'
<1> DEFINE f == AgedFile(d)
           results == Results(mode)
           hist == UpdateNodes(f.hist, results)
           gs == Align(f.gs, f.legacy, now)
           st == Stats(hist, results)
           decision == Decide(setting.muse, now, members, st, gs)
           plan == Plan(setting.muse, members, results)
           target == IF mode = "hysteresis" THEN decision.target ELSE plan
           reason == IF mode = "legacy" THEN "legacy" ELSE decision.reason
<1>1. /\ file' = f
      /\ loc' = [mode |-> mode, cur |-> now, told |-> now, target |-> target,
                 reason |-> reason, cand |-> decision.cand, gs |-> gs, hist |-> hist]
      /\ pc = "idle" /\ held' = Older(held, d, MinDwell) /\ pc' = NextStep(loc'.target)
      /\ UNCHANGED <<setting, now, members, delay>>
  BY DEF Start
<1> HIDE DEF f, results, hist, gs, st, decision, plan
<1>2. /\ GroupTypeOK /\ now \in Nodes /\ members \subseteq Nodes /\ file \in File
      /\ setting.muse \in BOOLEAN /\ mode \in Modes /\ held \in 0..MinDwell
  BY DEF GroupInv, GroupTypeOK, GroupAssumption, Setting
<1>3. d \in Nat
  BY DEF GroupAssumption
<1>4. /\ f \in File /\ f.legacy = file.legacy
      /\ f.gs = [file.gs EXCEPT !.since = Older(file.gs.since, d, MinDwell)]
  BY <1>2, <1>3, AgedType DEF f
<1>5. /\ DOMAIN results \subseteq Nodes /\ members \subseteq DOMAIN results
      /\ \A n \in DOMAIN results : results[n] = delay[n] /\ results[n] \in Nat
  BY <1>2, ResultsAre DEF results
<1>6. f.hist \in Histories /\ f.gs \in GroupState
  BY <1>4 DEF File, Histories
<1>7. hist \in Histories /\ gs \in GroupState
  BY <1>2, <1>5, <1>6, UpdateNodesType, AlignType DEF hist, gs
<1>8. /\ st \in [Nodes -> Stat]
       /\ \A n \in Nodes \cap DOMAIN results : st[n].delay = results[n]
  BY <1>5, <1>7, StatsType DEF st
<1>9. GoodDecision(decision, setting.muse, now, members, st, gs)
  BY <1>2, <1>7, <1>8, DecideIsGood DEF decision
<1>10. Living = AliveMembers(st, members) /\ Living = {n \in members : Alive(results[n])}
  BY <1>2, <1>5, <1>8 DEF Living, AliveMembers
<1>11. plan # NoNode => Fit(plan, Living) /\ (setting.muse => Tier[plan] = US)
  BY <1>2, <1>5, <1>10, PlanIsGood DEF plan
<1>12. target # NoNode => /\ Fit(target, Living)
                          /\ setting.muse /\ now \in members => Tier[target] = US
  BY <1>9, <1>10, <1>11 DEF GoodDecision
<1>13. target \in Nodes \cup {NoNode}
  BY <1>2, <1>12 DEF Fit, Living
<1>14. reason \in Holds \cup Moves \cup {"legacy", ""}
  BY <1>9 DEF GoodDecision
<1>15. decision.cand \in Nodes \cup {NoNode}
  BY <1>9 DEF GoodDecision
<1> HIDE DEF target, reason
<1>16. loc' \in Local
  BY <1>1, <1>2, <1>7, <1>13, <1>14, <1>15 DEF Local, Histories
<1>17. /\ loc'.target = target /\ loc'.cur = now /\ loc'.gs = gs /\ loc'.mode = mode
       /\ loc'.reason = reason
  BY <1>1
<1>18. pc' \in {"put", "save"} /\ (pc' = "put" => target # NoNode)
  BY <1>1, <1>17 DEF NextStep
<1>19. held' \in 0..MinDwell
  BY <1>1, <1>2, <1>3, OlderType DEF DecisionAssumption
<1>20. GroupTypeOK'
  BY <1>1, <1>2, <1>4, <1>16, <1>18, <1>19 DEF GroupTypeOK
<1>21. PutFits'
  BY <1>1, <1>12, <1>17, <1>18 DEF PutFits, Living, Fit
<1>22. ASSUME KnowsItsSwitches
       PROVE  /\ mode = "hysteresis"
              /\ gs.current = now /\ gs.since <= held'
              /\ reason = "switch_margin" => held' = MinDwell
  <2>1. mode = "hysteresis"
    BY <1>22 DEF KnowsItsSwitches
  <2>2. file.gs.current = now => file.gs.since <= held
    BY <1>1, <1>22 DEF GroupInv, DwellKnown
  <2>3. file.gs.since \in Nat /\ held \in Nat /\ held <= MinDwell /\ MinDwell \in Nat
    BY <1>2 DEF File, GroupState, DecisionAssumption
  <2>4. f.gs.current = now => f.gs.since <= held'
    BY <1>1, <1>3, <1>4, <2>2, <2>3 DEF Older, File, GroupState
  <2>5. f.legacy => f.gs.current = NoNode
    BY <1>1, <1>4, <1>22 DEF GroupInv, DwellKnown, File, GroupState
  <2>6. gs = Fresh(now) \/ (gs = f.gs /\ gs.current = now)
    <3>1. CASE f.gs.current = NoNode \/ (~f.legacy /\ f.gs.current # now)
      BY <3>1 DEF gs, Align
    <3>2. CASE ~(f.gs.current = NoNode \/ (~f.legacy /\ f.gs.current # now))
      <4>1. gs = f.gs
        BY <3>2 DEF gs, Align
      <4> QED
        BY <2>5, <3>2, <4>1
    <3> QED
      BY <3>1, <3>2
  <2>7. gs.current = now /\ gs.since <= held'
    BY <1>19, <2>4, <2>6 DEF Fresh
  <2>8. reason = "switch_margin" => gs.since >= MinDwell
    BY <1>9, <2>1 DEF reason, GoodDecision
  <2>9. gs.since \in Nat
    BY <1>7 DEF GroupState
  <2> QED
    BY <1>19, <2>1, <2>3, <2>7, <2>8, <2>9
<1>23. DwellKnown'
  <2>1. KnowsItsSwitches' = KnowsItsSwitches
    BY <1>1 DEF KnowsItsSwitches
  <2> QED
    BY <1>1, <1>17, <1>18, <1>22, <2>1 DEF DwellKnown
<1> QED
  BY <1>20, <1>21, <1>23 DEF GroupInv

\* A switch was asked for: what is left to do does not depend on a target.
LEMMA PutInv ==
  ASSUME DecisionAssumption, GroupAssumption, GroupInv,
         NEW carried \in BOOLEAN, NEW answered \in BOOLEAN, Put(carried, answered)
  PROVE  GroupInv'
<1>1. /\ pc = "put" /\ pc' = "save"
      /\ now' = IF carried THEN loc.target ELSE now
      /\ held' = IF now' # now THEN 0 ELSE held
      /\ loc' = IF carried /\ answered THEN [loc EXCEPT !.told = loc.target] ELSE loc
      /\ UNCHANGED <<setting, members, delay, file>>
  BY DEF Put
<1>2. GroupTypeOK /\ loc \in Local /\ held \in 0..MinDwell /\ MinDwell \in Nat
  BY DEF GroupInv, GroupTypeOK, DecisionAssumption
<1>3. loc.target \in Nodes
  BY <1>1, <1>2 DEF GroupInv, PutFits, Fit, Living, GroupAssumption, GroupTypeOK
<1>4. now' \in Nodes
  BY <1>1, <1>2, <1>3 DEF GroupTypeOK
<1>5. loc' \in Local /\ loc'.mode = loc.mode /\ loc'.gs = loc.gs
  BY <1>1, <1>2, <1>3 DEF Local
<1>6. held' \in 0..MinDwell
  BY <1>1, <1>2
<1>7. GroupTypeOK'
  BY <1>1, <1>2, <1>4, <1>5, <1>6 DEF GroupTypeOK
<1>8. PutFits'
  BY <1>1 DEF PutFits
<1>9. DwellKnown'
  BY <1>1, <1>5 DEF GroupInv, DwellKnown, KnowsItsSwitches
<1> QED
  BY <1>7, <1>8, <1>9 DEF GroupInv

\* The state file is written: it has the node the controller runs for no longer
\* than the round knew it to run.
LEMMA SaveInv ==
  ASSUME DecisionAssumption, GroupAssumption, GroupInv,
         NEW readback \in BOOLEAN, Save(readback)
  PROVE  GroupInv'
<1> DEFINE real == IF readback THEN now ELSE loc.told
           cand == IF loc.gs.current # real THEN NoNode ELSE loc.cand
           gs == Advance(loc.gs, real, cand)
<1>1. /\ pc = "save" /\ pc' = "idle" /\ loc' = Nothing(loc.cur)
      /\ file' = IF loc.mode = "legacy"
                 THEN [legacy |-> TRUE, gs |-> Fresh(real), hist |-> NoHistory]
                 ELSE [legacy |-> FALSE, hist |-> loc.hist, gs |-> gs]
      /\ UNCHANGED <<setting, now, members, delay, held>>
  BY DEF Save
<1>2. GroupTypeOK /\ loc \in Local /\ now \in Nodes
  BY DEF GroupInv, GroupTypeOK
<1>3. /\ loc.gs \in GroupState /\ loc.told \in Nodes /\ loc.cur \in Nodes
      /\ loc.cand \in Nodes \cup {NoNode} /\ loc.hist \in Histories
  BY <1>2 DEF Local, Histories
<1>4. real \in Nodes /\ cand \in Nodes \cup {NoNode}
  BY <1>2, <1>3
<1>5. NoHistory \in Histories /\ Nothing(loc.cur) \in Local
  BY <1>3, NothingIsLocal
<1>6. Fresh(real) \in GroupState /\ Fresh(real).since = 0
  BY <1>4 DEF Fresh, GroupState
<1> HIDE DEF real, cand
<1>7. gs \in GroupState
  BY <1>3, <1>4, AdvanceType
<1>8. gs.since = 0 \/ (gs.current = loc.gs.current /\ gs.since = loc.gs.since)
  BY <1>3, <1>6 DEF Advance, GroupState
<1> HIDE DEF gs
<1>9. file' \in File /\ (loc.mode # "legacy" => ~file'.legacy /\ file'.gs = gs)
  BY <1>1, <1>3, <1>5, <1>6, <1>7 DEF File, Histories
<1>10. GroupTypeOK'
  BY <1>1, <1>2, <1>5, <1>9 DEF GroupTypeOK
<1>11. PutFits'
  BY <1>1 DEF PutFits
<1>12. ASSUME KnowsItsSwitches
       PROVE  ~file'.legacy /\ (file'.gs.current = now => file'.gs.since <= held)
  <2>1. loc.mode = "hysteresis" /\ (loc.gs.current = now => loc.gs.since <= held)
    BY <1>1, <1>12 DEF GroupInv, DwellKnown
  <2>2. 0 <= held
    BY <1>2 DEF GroupTypeOK
  <2> QED
    BY <1>8, <1>9, <2>1, <2>2
<1>13. DwellKnown'
  BY <1>1, <1>12 DEF DwellKnown, KnowsItsSwitches
<1> QED
  BY <1>10, <1>11, <1>13 DEF GroupInv

LEMMA KilledInv ==
  ASSUME DecisionAssumption, GroupAssumption, GroupInv, Killed
  PROVE  GroupInv'
<1>1. loc.cur \in Nodes
  BY DEF GroupInv, GroupTypeOK, Local
<1>2. Nothing(loc.cur) \in Local
  BY <1>1, NothingIsLocal
<1> QED
  BY <1>2 DEF Killed, GroupInv, GroupTypeOK, PutFits, DwellKnown, KnowsItsSwitches

LEMMA LoseFileInv ==
  ASSUME DecisionAssumption, GroupAssumption, GroupInv, LoseFile
  PROVE  GroupInv'
<1>1. NoFile \in File /\ NoFile.gs.current = NoNode
  BY NoFileIsFile
<1>2. GroupTypeOK'
  BY <1>1 DEF LoseFile, GroupInv, GroupTypeOK
<1>3. PutFits' /\ DwellKnown'
  BY <1>1 DEF LoseFile, GroupInv, GroupTypeOK, PutFits, DwellKnown, KnowsItsSwitches,
       DecisionAssumption
<1> QED
  BY <1>2, <1>3 DEF GroupInv

\* The world leaves a round that runs alone, but for a selection by hand.
LEMMA WorldInv ==
  ASSUME DecisionAssumption, GroupAssumption, GroupInv, World
  PROVE  GroupInv'
<1>1. CASE Network
  <2>1. PICK n \in Nodes, ms \in UNION {Delays[m] : m \in Nodes} :
          ms \in Delays[n] /\ delay' = [delay EXCEPT ![n] = ms]
    BY <1>1 DEF Network
  <2>2. ms \in Nat
    BY <2>1 DEF GroupAssumption
  <2>3. delay' \in [Nodes -> Nat]
    BY <2>1, <2>2 DEF GroupInv, GroupTypeOK
  <2> QED
    BY <1>1, <2>3 DEF Network, GroupInv, GroupTypeOK, PutFits, DwellKnown,
         KnowsItsSwitches
<1>2. CASE Refresh
  BY <1>2 DEF Refresh, GroupInv, GroupTypeOK, PutFits, DwellKnown, KnowsItsSwitches
<1>3. CASE Select
  <2>1. setting.manual /\ now' \in members /\ held' = 0
        /\ UNCHANGED <<setting, members, delay, file, pc, loc>>
    BY <1>3 DEF Select
  <2>2. now' \in Nodes /\ held' \in 0..MinDwell
    BY <2>1 DEF GroupInv, GroupTypeOK, GroupAssumption, DecisionAssumption
  <2>3. GroupTypeOK'
    BY <2>1, <2>2 DEF GroupInv, GroupTypeOK
  <2>4. PutFits'
    BY <2>1 DEF GroupInv, PutFits, Living
  <2>5. DwellKnown'
    BY <2>1 DEF DwellKnown, KnowsItsSwitches
  <2> QED
    BY <2>3, <2>4, <2>5 DEF GroupInv
<1> QED
  BY <1>1, <1>2, <1>3 DEF World

LEMMA GroupInvPreserved ==
  ASSUME DecisionAssumption, GroupAssumption, GroupInv, [GroupNext]_gvars
  PROVE  GroupInv'
<1>1. CASE World
  BY <1>1, WorldInv
<1>2. CASE Round
  <2>1. ASSUME NEW mode \in setting.modes, NEW d \in Gaps, Start(mode, d)
        PROVE  GroupInv'
    BY <2>1, StartInv
  <2>2. ASSUME NEW carried \in BOOLEAN, NEW answered \in BOOLEAN,
               Put(carried, answered)
        PROVE  GroupInv'
    BY <2>2, PutInv
  <2>3. ASSUME NEW readback \in BOOLEAN, Save(readback)
        PROVE  GroupInv'
    BY <2>3, SaveInv
  <2> QED
    BY <1>2, <2>1, <2>2, <2>3 DEF Round
<1>3. CASE Killed
  BY <1>3, KilledInv
<1>4. CASE LoseFile
  BY <1>4, LoseFileInv
<1>5. CASE UNCHANGED gvars
  BY <1>5 DEF gvars, GroupInv, GroupTypeOK, PutFits, Living, DwellKnown,
       KnowsItsSwitches
<1> QED
  BY <1>1, <1>2, <1>3, <1>4, <1>5 DEF GroupNext

\* The inductive invariant of the group and its rounds.
LEMMA GroupInvHolds == GroupSpec => []GroupInv
<1>1. GroupInit => GroupInv
  BY GroupInvAtInit, DecisionAssumption, GroupAssumption
<1>2. GroupInv /\ [GroupNext]_gvars => GroupInv'
  BY GroupInvPreserved, DecisionAssumption, GroupAssumption
<1> QED
  BY <1>1, <1>2, PTL DEF GroupSpec

-----------------------------------------------------------------------------
(* Theorems *)

\* Only a Put asked for by a round moves the group under Switches: the others leave
\* now alone, or pc.
LEMMA SwitchesIsPut ==
  ASSUME [GroupNext]_gvars, Switches
  PROVE  /\ pc = "put" /\ now' = loc.target /\ now' # now
         /\ UNCHANGED <<setting, members, delay>>
<1>1. pc = "put" /\ pc' = "save" /\ now' # now
  BY DEF Switches
<1>2. \E carried, answered \in BOOLEAN : Put(carried, answered)
  BY <1>1 DEF GroupNext, World, Network, Refresh, Select, Round, Start, Save, Killed,
       LoseFile, gvars
<1> QED
  BY <1>1, <1>2 DEF Put

\* The variables of the group and of its rounds have the values the script and the
\* controller give them, whatever the nodes, thresholds and delays are.
THEOREM GroupTypes == GroupSpec => []GroupTypeOK
BY GroupInvHolds, PTL DEF GroupInv

\* A round of plan_group_switch moves a group to a living node only, and MUSE on one
\* of its members to a US node only.
THEOREM MovesToFitNodesThm == GroupSpec => MovesToFitNodes
<1>1. GroupInv /\ [GroupNext]_gvars
        => [Switches => /\ Alive(delay[now'])
                        /\ setting.muse /\ loc.cur \in members => Tier[now'] = US]_gvars
  <2> SUFFICES ASSUME GroupInv, [GroupNext]_gvars, Switches
               PROVE  /\ Alive(delay[now'])
                      /\ setting.muse /\ loc.cur \in members => Tier[now'] = US
    OBVIOUS
  <2> QED
    BY SwitchesIsPut DEF GroupInv, PutFits, Fit, Living
<1> QED
  BY <1>1, GroupInvHolds, PTL DEF GroupSpec, MovesToFitNodes

\* No round leaves a node that answered for one of a lower tier (decide_group's tiers
\* come before its margins; decide_mode's pools before their delays).
THEOREM NoDowngradeOfLiveNodeThm == GroupSpec => NoDowngradeOfLiveNode
<1>1. GroupInv /\ [GroupNext]_gvars
        => [Switches /\ now \in members /\ Tier[now'] < Tier[now]
              => ~Alive(delay[now])]_gvars
  <2> SUFFICES ASSUME GroupInv, [GroupNext]_gvars, Switches, now \in members,
                      Tier[now'] < Tier[now]
               PROVE  ~Alive(delay[now])
    OBVIOUS
  <2>1. pc = "put" /\ now' = loc.target
    BY SwitchesIsPut
  <2>2. Fit(loc.target, Living)
    BY <2>1 DEF GroupInv, PutFits
  <2>3. \A n \in Nodes : Tier[n] \in Int
    BY DecisionAssumption
  <2> QED
    BY <2>1, <2>2, <2>3, GroupAssumption DEF Fit, Living, GroupInv, GroupTypeOK
<1> QED
  BY <1>1, GroupInvHolds, PTL DEF GroupSpec, NoDowngradeOfLiveNode

\* Two switches for speed alone, or one after any other switch, are min_dwell_min
\* apart when the rounds are all that selects nodes, whatever requests fail and
\* whenever the state file is lost.
THEOREM MarginSwitchHadDwellThm == GroupSpec => MarginSwitchHadDwell
<1>1. GroupInv /\ [GroupNext]_gvars
        => [Switches /\ loc.reason = "switch_margin" /\ KnowsItsSwitches
              => held = MinDwell]_gvars
  BY SwitchesIsPut DEF GroupInv, DwellKnown
<1> QED
  BY <1>1, GroupInvHolds, PTL DEF GroupSpec, MarginSwitchHadDwell
=============================================================================
