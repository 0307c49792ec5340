---------------------------- MODULE MergeProxies ----------------------------
(***************************************************************************)
(* merge_proxies of scripts/convert_sub.py: the nodes of several sources   *)
(* become one list, in which each node is once and has a name of its own.  *)
(*                                                                         *)
(* A node is a record of its key (all its fields but the name) and its     *)
(* name.  A name is a sequence of numbers: one for the words of the name,  *)
(* to which a suffix "[k]" is appended as k.                               *)
(***************************************************************************)
EXTENDS Naturals, SequencesExt

CONSTANT Keys

Node == [key : Keys, name : Seq(Nat)]
Unnamed == << >>   \* a name that is missing or blank

NodeNames(nodes) == {node.name : node \in nodes}
NodeKeys(nodes) == {node.key : node \in nodes}

\* Mutant: a suffix that makes the name one somebody brought along.
UnreservedName(name, used, reserved) ==
    LET Taken(k) == Append(name, k) \in used
        suffix == CHOOSE k \in 2..Cardinality(used) + 2 :
                      ~Taken(k) /\ \A j \in 2..k - 1 : Taken(j)
    IN  IF name \in used THEN Append(name, suffix) ELSE name

\* The name itself unless it is used, else the first suffix that makes it one
\* nobody uses or brought along.
OwnName(name, used, reserved) ==
    LET Taken(k) == Append(name, k) \in used \cup reserved
        suffix == CHOOSE k \in 2..Cardinality(used \cup reserved) + 2 :
                      ~Taken(k) /\ \A j \in 2..k - 1 : Taken(j)
    IN  IF name \in used THEN Append(name, suffix) ELSE name

\* A node without a name is called after its place: "node#3".
Given(node, index) == IF node.name = Unnamed THEN <<0, index>> ELSE node.name

\* A node joins those before it in the list, unless its key is there.
Joined(nodes, node, index, reserved) ==
    IF node.key \in NodeKeys(nodes) THEN nodes
    ELSE nodes \cup {[key |-> node.key,
                      name |-> OwnName(Given(node, index), NodeNames(nodes), reserved)]}

\* The names brought along.
Reserved(list) == {list[i].name : i \in DOMAIN list} \ {Unnamed}

Merged(list) ==
    LET merge[n \in 0..Len(list)] ==
            IF n = 0 THEN {} ELSE Joined(merge[n - 1], list[n], n, Reserved(list))
    IN  merge[Len(list)]
=============================================================================
