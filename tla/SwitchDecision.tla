--------------------------- MODULE SwitchDecision ---------------------------
(***************************************************************************)
(* The thresholded decision of scripts/proxy-auto-switch.py for one select *)
(* group, without its state machine: from the nodes' probe history and the *)
(* group's own history to the node to switch to, if any, and the reason.   *)
(*                                                                         *)
(* A delay of 0 stands for a probe that failed.  Timestamps are kept as    *)
(* ages, in half-hour rounds, so that a state does not contain the clock.  *)
(***************************************************************************)
EXTENDS Integers, Sequences, FiniteSets

CONSTANTS
    Nodes,         \* leaf proxies of the switch groups
    NoNode,        \* no node: nothing selected, or no switch
    Tier,          \* Tier[n]: 3 for US, 2 for SG, 1 for any other region
    Order,         \* Order[n]: position of n's name in the alphabet
    MarginMs,      \* switch_margin_ms
    MarginPct,     \* switch_margin_pct
    SwitchStreak,  \* switch_streak
    MinDwell,      \* min_dwell_min, in rounds
    SampleKeep,    \* samples kept of a node
    SmoothMax,     \* samples its smoothed delay is the median of
    SampleMaxAge,  \* age up to which they count, in rounds
    PruneAge       \* age at which a node that was not probed is forgotten

ASSUME DecisionAssumption ==
    /\ NoNode \notin Nodes
    /\ Tier \in [Nodes -> 1..3]
    /\ Order \in [Nodes -> Nat]
    /\ \A m, n \in Nodes : Order[m] = Order[n] => m = n
    /\ SwitchStreak >= 1
    /\ {MarginMs, MarginPct, SwitchStreak, MinDwell, SampleKeep, SmoothMax,
        SampleMaxAge, PruneAge} \subseteq Nat

US == 3
Sample == [age : Nat, ms : Nat]
GroupState == [current : Nodes \cup {NoNode}, since : Nat,
               cand : Nodes \cup {NoNode}, streak : Nat]

Holds == {"hold_probe_suspect", "hold_no_alive_member", "hold_muse_frozen", "hold_ok",
          "hold_margin", "hold_cand_unstable", "hold_streak", "hold_dwell"}
Moves == {"switch_missing", "switch_downgrade", "switch_upgrade", "switch_dead",
          "switch_margin"}

Newest(s, k) == SubSeq(s, IF Len(s) > k THEN Len(s) - k + 1 ELSE 1, Len(s))
Alive(ms) == ms > 0

-----------------------------------------------------------------------------
(* Probe history *)

\* One sample of this round for every probed node; a node not seen for a day is
\* forgotten.  hist: the history, aged to this round; delay: this round's probes.
UpdateNodes(hist, delay) ==
    LET appended == [n \in Nodes |->
            IF n \in DOMAIN delay
            THEN Newest(Append(hist[n], [age |-> 0, ms |-> delay[n]]), SampleKeep)
            ELSE hist[n]]
    IN  [n \in Nodes |->
            IF appended[n] # <<>> /\ appended[n][Len(appended[n])].age <= PruneAge
            THEN appended[n] ELSE <<>>]

\* The k-th smallest of the delays of those samples.
Ranked(samples, ids, k) ==
    CHOOSE ms \in {samples[i].ms : i \in ids} :
        /\ Cardinality({i \in ids : samples[i].ms < ms}) < k
        /\ Cardinality({i \in ids : samples[i].ms <= ms}) >= k

\* statistics.median, truncated.
Median(samples, ids) ==
    LET k == Cardinality(ids)
    IN  IF k % 2 = 1 THEN Ranked(samples, ids, (k + 1) \div 2)
        ELSE (Ranked(samples, ids, k \div 2) + Ranked(samples, ids, k \div 2 + 1)) \div 2

\* The newest of the good samples that are not too old.
ValidSamples(samples) ==
    LET valid == {i \in DOMAIN samples :
                     Alive(samples[i].ms) /\ samples[i].age <= SampleMaxAge}
    IN  {i \in valid : Cardinality({j \in valid : j > i}) < SmoothMax}

\* Their median, else this round's delay; 0 if neither.
Smoothed(samples, delay) ==
    LET valid == ValidSamples(samples)
    IN  IF valid = {} THEN delay ELSE Median(samples, valid)

\* What decide_group knows of a node.
Stats(hist, delay) ==
    [n \in Nodes |->
        LET ms == IF n \in DOMAIN delay THEN delay[n] ELSE 0
        IN  [samples |-> hist[n], delay |-> ms, smoothed |-> Smoothed(hist[n], ms)]]

GoodOfLast(node, k) ==
    {i \in DOMAIN node.samples :
        i > Len(node.samples) - k /\ Alive(node.samples[i].ms)}

\* alive_within(node, 3, 2) and consecutive_alive(node, 2)
AliveWithin(node) == Cardinality(GoodOfLast(node, 3)) >= 2
ConsecutiveAlive(node) == Cardinality(GoodOfLast(node, 2)) = 2

-----------------------------------------------------------------------------
(* Choosing a node *)

\* rank_key: the smaller smoothed delay, then the name; no delay comes last.
Before(st, m, n) ==
    LET a == st[m].smoothed
        b == st[n].smoothed
    IN  IF a = b THEN Order[m] < Order[n]
        ELSE Alive(a) /\ (~Alive(b) \/ a < b)

PickBest(st, names) ==
    CHOOSE n \in names : \A m \in names \ {n} : Before(st, n, m)

TopTier(names) == {n \in names : \A m \in names : Tier[m] <= Tier[n]}

MarginOf(ms) ==
    LET share == (ms * MarginPct) \div 100
    IN  IF share > MarginMs THEN share ELSE MarginMs

\* Rounds in a row with the same candidate; counted to SwitchStreak, past which
\* nothing tells them apart.
NextStreak(gs, cand) ==
    IF gs.cand # cand THEN 1
    ELSE IF gs.streak < SwitchStreak THEN gs.streak + 1
    ELSE SwitchStreak

-----------------------------------------------------------------------------
(* decide_group.  muse: the group is MUSE; cur: the node it runs; members: its
   leaf members; st: Stats; gs: its GroupState. *)

\* Mutant: a node is dead after one failed probe, whatever its retry found.
AliveMembersSteady(st, members) == {n \in members : ConsecutiveAlive(st[n])}

AliveMembers(st, members) == {n \in members : Alive(st[n].delay)}
NothingAlive(st) == \A n \in Nodes : ~Alive(st[n].delay)

Outcome(target, reason, cand, streak) ==
    [target |-> target, reason |-> reason, cand |-> cand, streak |-> streak]
Hold(reason) == Outcome(NoNode, reason, NoNode, 0)
Switch(target, reason) == Outcome(target, reason, NoNode, 0)

\* Mutant: MUSE recovers like any other group.
RecoverPoolOfAny(muse, cur, members, st) == AliveMembers(st, members)

\* Mutant: a dead node is left for a better tier only.
RecoverPoolBetter(muse, cur, members, st) ==
    {n \in AliveMembers(st, members) : cur \in members => Tier[n] > Tier[cur]}

\* A MUSE whose own member is dead accepts a US node only.
RecoverPool(muse, cur, members, st) ==
    {n \in AliveMembers(st, members) : muse /\ cur \in members => Tier[n] = US}

\* The node it runs is dead or is no member: the best node of the best tier.
Recover(muse, cur, members, st) ==
    LET pool == RecoverPool(muse, cur, members, st)
        target == PickBest(st, TopTier(pool))
    IN  IF pool = {}
        THEN Hold(IF muse /\ cur \in members
                  THEN "hold_muse_frozen" ELSE "hold_no_alive_member")
        ELSE Switch(target,
                    IF cur \notin members THEN "switch_missing"
                    ELSE IF Tier[target] < Tier[cur] THEN "switch_downgrade"
                    ELSE IF Tier[target] > Tier[cur] THEN "switch_upgrade"
                    ELSE "switch_dead")

\* Living members of a better tier; for MUSE, of the best one only.
Higher(muse, cur, members, st) ==
    {n \in AliveMembers(st, members) :
        Tier[n] > Tier[cur] /\ (muse => Tier[n] = US)}

\* The best of them is taken once it was alive in two rounds.
Upgrade(muse, cur, members, st) ==
    LET target == PickBest(st, TopTier(Higher(muse, cur, members, st)))
    IN  IF ConsecutiveAlive(st[target])
        THEN Switch(target, "switch_upgrade")
        ELSE Hold("hold_cand_unstable")

LeadsByMargin(st, cur, best) ==
    st[cur].smoothed - st[best].smoothed >= MarginOf(st[cur].smoothed)

\* Mutant: the dwell of the group is not looked at.
CompeteHastily(muse, cur, members, st, gs) ==
    LET best == PickBest(st, {n \in AliveMembers(st, members) : Tier[n] = Tier[cur]})
        streak == NextStreak(gs, best)
    IN  IF best = cur THEN Hold("hold_ok")
        ELSE IF ~LeadsByMargin(st, cur, best) THEN Hold("hold_margin")
        ELSE IF streak < SwitchStreak THEN Outcome(NoNode, "hold_streak", best, streak)
        ELSE Outcome(best, "switch_margin", best, streak)

\* A faster node of the same tier has to lead by the margin, in as many rounds
\* as the streak asks for, over a node that had its dwell.
Compete(muse, cur, members, st, gs) ==
    LET best == PickBest(st, {n \in AliveMembers(st, members) : Tier[n] = Tier[cur]})
        streak == NextStreak(gs, best)
        wait(reason) == Outcome(NoNode, reason, best, streak)
    IN  IF best = cur THEN Hold("hold_ok")
        ELSE IF muse /\ Tier[cur] # US THEN Hold("hold_muse_frozen")
        ELSE IF ~LeadsByMargin(st, cur, best) THEN Hold("hold_margin")
        ELSE IF ~AliveWithin(st[best]) THEN wait("hold_cand_unstable")
        ELSE IF streak < SwitchStreak THEN wait("hold_streak")
        ELSE IF gs.since < MinDwell THEN wait("hold_dwell")
        ELSE Outcome(best, "switch_margin", best, streak)

Decide(muse, cur, members, st, gs) ==
    IF NothingAlive(st) THEN Hold("hold_probe_suspect")
    ELSE IF cur \notin AliveMembers(st, members) THEN Recover(muse, cur, members, st)
    ELSE IF Higher(muse, cur, members, st) # {} THEN Upgrade(muse, cur, members, st)
    ELSE Compete(muse, cur, members, st, gs)

-----------------------------------------------------------------------------
(* The legacy plan: decide_mode over all probed nodes, and plan_switches. *)

Mode(delay) ==
    LET tiers == {Tier[n] : n \in {m \in DOMAIN delay : Alive(delay[m])}}
    IN  IF US \in tiers THEN "A" ELSE IF 2 \in tiers THEN "B" ELSE "C"

Fastest(delay, names) ==
    CHOOSE n \in names : \A m \in names \ {n} :
        delay[n] < delay[m] \/ (delay[n] = delay[m] /\ Order[n] < Order[m])

\* The group's living members of the mode's region, of any region in mode C.
PlanPool(mode, members, delay) ==
    {n \in members \cap DOMAIN delay :
        /\ Alive(delay[n])
        /\ mode = "A" => Tier[n] = US
        /\ mode = "B" => Tier[n] = 2}

\* The fastest of them; MUSE moves in mode A only.
Plan(muse, members, delay) ==
    LET mode == Mode(delay)
        pool == PlanPool(mode, members, delay)
    IN  IF pool = {} \/ (muse /\ mode # "A") THEN NoNode ELSE Fastest(delay, pool)

-----------------------------------------------------------------------------
(* Group history *)

Fresh(real) == [current |-> real, since |-> 0, cand |-> NoNode, streak |-> 0]

\* migrate_state.  A record of the thresholded modes is kept unless the
\* controller runs another node; a legacy state knows what it selected and when.
Align(saved, legacy, real) ==
    IF saved.current = NoNode \/ (~legacy /\ saved.current # real)
    THEN Fresh(real) ELSE saved

\* advance_group_state, once the controller was read back.
Advance(gs, real, cand) ==
    IF gs.current # real THEN Fresh(real)
    ELSE IF cand = NoNode THEN [gs EXCEPT !.cand = NoNode, !.streak = 0]
    ELSE [gs EXCEPT !.cand = cand, !.streak = NextStreak(gs, cand)]
=============================================================================
