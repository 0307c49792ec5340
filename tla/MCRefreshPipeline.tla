-------------------------- MODULE MCRefreshPipeline --------------------------
(* Two sources; their nodes have names of their own, the same name or none,    *)
(* one has the name another would get, or both sources have a node under       *)
(* different names.                                                            *)
EXTENDS RefreshPipeline

A == <<1>>
B == <<2>>
Of(key, name) == [key |-> key, name |-> name]

MCSetups == {<< <<Of(1, A)>>, <<Of(2, B)>> >>,
             << <<Of(1, A)>>, <<Of(2, A)>> >>,
             << <<Of(1, Unnamed)>>, <<Of(2, A)>> >>,
             << <<Of(1, A)>>, <<Of(1, B), Of(2, B)>> >>,
             << <<Of(1, Unnamed)>>, <<Of(2, <<0, 1>>), Of(3, A)>> >>,
             << <<Of(1, B), Of(2, B)>>, <<Of(3, <<2, 2>>)>> >>}
MCWanted == {A} \cup {<<1, k>> : k \in 1..3}

Merges == {Merged(Delivered(setup, up)) : setup \in MCSetups, up \in SUBSET {1, 2}}
MCProviders == {{node \in merge : node.key \in keys} :
                    merge \in Merges, keys \in SUBSET Keys} \ {{}}
=============================================================================
