----------------------------- MODULE MCSyncRound -----------------------------
(* Two endpoints and an info row: source 1 delivers a, which the node list of *)
(* source 4 may hold, source 2 delivers b, and source 3 has a cache of b but  *)
(* no URL any more.  The subscriptions name a and b alike, or b as a would be *)
(* called the second time; source 4 has a name of b's for a, which            *)
(* config.yaml sets right.                                                    *)
EXTENDS SyncRound

MCNodes == {<<1>>, <<1, 2>>}
MCKinds == <<"foreign", "own", "own", "list">>
MCOffers == << {<<"info", "a">>}, {<<"b">>}, {<<"b">>}, {<<"a">>} >>

Alike == [a |-> <<1>>, b |-> <<1>>]
Different == [a |-> <<1>>, b |-> <<1, 2>>]
Swapped == [a |-> <<1, 2>>, b |-> <<1>>]
Named(all, fourth, config) ==
    [given |-> [s \in 1..3 |-> all] @@ (4 :> fourth), config |-> config]
Cached(first, list) == <<first, <<>>, <<"b">>, list>>
MCSetups ==
    {[naming |-> Named(Alike, Alike, <<>>), cache |-> Cached(<<>>, <<"a">>)],
     [naming |-> Named(Different, Different, <<>>), cache |-> Cached(<<"a">>, <<>>)],
     [naming |-> Named(Different, Swapped, Different), cache |-> Cached(<<>>, <<>>)]}
=============================================================================
