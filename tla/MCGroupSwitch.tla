--------------------------- MODULE MCGroupSwitch ---------------------------
(* Instances of GroupSwitch for TLC: two US nodes and one in Singapore. *)
EXTENDS GroupSwitch

CONSTANTS us1, us2, sg1

MCNodes == {us1, us2, sg1}
MCTier == [n \in MCNodes |-> IF n = sg1 THEN 2 ELSE 3]
MCOrder == [n \in MCNodes |-> CASE n = us1 -> 1 [] n = us2 -> 2 [] n = sg1 -> 3]

\* us2 is faster than us1, by the margin or not; sg1 is there or not.
MarginDelays == [n \in MCNodes |-> CASE n = us1 -> {0, 1000}
                                     [] n = us2 -> {0, 400, 900}
                                     [] n = sg1 -> {400}]

All == {MCNodes}
UsAndSg == {{us1, us2, sg1}, {us1, sg1}, {sg1}}
NoneElsewhere == {}
Us2Elsewhere == {us2}

Group(modes, manual, failures) ==
    [muse |-> FALSE, modes |-> modes, manual |-> manual, failures |-> failures]
Muse(modes) == [Group(modes, FALSE, {}) EXCEPT !.muse = TRUE]

\* Thresholded rounds in which requests fail and the file is lost, and runs die;
\* rounds of changing mode beside somebody else who selects nodes; MUSE.
Troubled == {Group({"hysteresis"}, FALSE, {"request", "file"}),
             Group({"hysteresis"}, FALSE, {"run"}),
             Group({"legacy", "hysteresis"}, TRUE, {"request"}),
             Muse({"legacy", "shadow", "hysteresis"})}
Thresholded == {Group({"hysteresis"}, FALSE, {"request"}),
                [Muse({"hysteresis"}) EXCEPT !.failures = {"request"}]}
=============================================================================
