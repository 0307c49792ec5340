------------------------- MODULE TableReplaceProofs -------------------------
(***************************************************************************)
(* The table is never emptied, by however many runs replace it at the same *)
(* time, fail or die, and however many rows they write.                    *)
(*                                                                         *)
(* A run only begins to delete with the request that created its last      *)
(* chunk, so at that moment there is a row nobody has listed.  From then   *)
(* on no run that deletes knows it: the others list it before they delete, *)
(* and then make a newer one first.                                        *)
(***************************************************************************)
EXTENDS TableReplace, TLAPS

\* Chunks that are still to be made are in the table of nobody.
Fresh ==
    \A r \in Runs : pc[r] \in {"new", "list", "create"} =>
        \A i \in Nat : i > made[r] =>
            /\ <<r, i>> \notin rows
            /\ \A q \in Runs : <<r, i>> \notin ids[q]

\* Some row is in the list of no run that deletes.
Unlisted == \E x \in rows : \A r \in Runs : pc[r] = "delete" => x \notin ids[r]

\* What Fresh and Unlisted need of the types.
Typed ==
    /\ pc \in [Runs -> {"new", "list", "create", "delete", "done", "failed"}]
    /\ made \in [Runs -> Nat]
    /\ DOMAIN ids = Runs
    /\ ids = [r \in Runs |-> ids[r]]

ReplaceInv == Typed /\ Fresh /\ Unlisted

LEMMA InvHoldsAtInit ==
  ASSUME ReplaceAssumption, OldRows # {}, ReplaceInit
  PROVE  ReplaceInv
<1>1. Typed
  BY DEF ReplaceInit, Typed
<1>2. Fresh
  <2>1. \A r \in Runs, i \in Nat : <<r, i>> \notin OldRows
    BY DEF ReplaceAssumption
  <2> QED
    BY <2>1 DEF ReplaceInit, Fresh
<1>3. Unlisted
  BY DEF ReplaceInit, Unlisted
<1> QED
  BY <1>1, <1>2, <1>3 DEF ReplaceInv

LEMMA InvPreserved ==
  ASSUME ReplaceAssumption, ReplaceInv, [ReplaceNext]_tvars
  PROVE  ReplaceInv'
<1> USE DEF ReplaceInv
<1>1. ASSUME NEW r \in Runs, Begin(r)
      PROVE  ReplaceInv'
  <2>1. Typed'
    BY <1>1 DEF Begin, Typed, Goto
  <2>2. Fresh'
    BY <1>1 DEF Begin, Typed, Fresh, Goto
  <2>3. Unlisted'
    BY <1>1 DEF Begin, Typed, Unlisted, Goto
  <2> QED
    BY <2>1, <2>2, <2>3
<1>2. ASSUME NEW r \in Runs, List(r)
      PROVE  ReplaceInv'
  <2>1. Typed'
    BY <1>2 DEF List, Typed, Goto
  <2>2. \A q \in Runs : q # r => ids'[q] = ids[q] /\ pc'[q] = pc[q]
    BY <1>2 DEF List, Typed, Goto
  <2>3. ids'[r] = rows /\ pc'[r] \in {"done", "create"} /\ pc[r] = "list"
    BY <1>2 DEF List, Typed, Goto
  <2>4. rows' = rows /\ made' = made
    BY <1>2 DEF List
  <2>5. Fresh'
    BY <2>2, <2>3, <2>4 DEF Fresh
  <2>6. Unlisted'
    BY <2>2, <2>3, <2>4 DEF Unlisted
  <2> QED
    BY <2>1, <2>5, <2>6
<1>3. ASSUME NEW r \in Runs, Create(r)
      PROVE  ReplaceInv'
  <2> DEFINE y == <<r, made[r] + 1>>
  <2>1. Typed'
    BY <1>3 DEF Create, Typed, Goto
  <2>2. /\ pc[r] = "create" /\ made[r] \in Nat
        /\ rows' = rows \cup {y} /\ ids' = ids
        /\ made'[r] = made[r] + 1
        /\ \A q \in Runs : q # r => made'[q] = made[q] /\ pc'[q] = pc[q]
        /\ pc'[r] \in {"create", "done", "delete"}
    BY <1>3 DEF Create, Typed, Goto
  <2>3. Fresh'
    BY <2>1, <2>2 DEF Fresh, Typed
  <2>4. \A q \in Runs : y \notin ids[q]
    BY <2>2 DEF Fresh
  <2>5. Unlisted'
    BY <2>2, <2>4 DEF Unlisted
  <2> QED
    BY <2>1, <2>3, <2>5
<1>4. ASSUME NEW r \in Runs, Delete(r)
      PROVE  ReplaceInv'
  <2>1. Typed'
    BY <1>4 DEF Delete, Typed, Goto
  <2>2. PICK batch \in SUBSET ids[r] :
           rows' = rows \ batch /\ ids' = [ids EXCEPT ![r] = @ \ batch]
    BY <1>4 DEF Delete
  <2>3. /\ pc[r] = "delete" /\ made' = made
        /\ pc'[r] \in {"delete", "done"}
        /\ \A q \in Runs : q # r => pc'[q] = pc[q]
    BY <1>4 DEF Delete, Typed, Goto
  <2>4. \A q \in Runs : ids'[q] \subseteq ids[q]
    BY <2>2 DEF Typed
  <2>5. Fresh'
    BY <2>2, <2>3, <2>4 DEF Fresh
  <2>6. Unlisted'
    BY <2>2, <2>3, <2>4 DEF Unlisted
  <2> QED
    BY <2>1, <2>5, <2>6
<1>5. ASSUME NEW r \in Runs, Fail(r)
      PROVE  ReplaceInv'
  <2>1. Typed'
    BY <1>5 DEF Fail, Typed, Goto
  <2>2. /\ made' = made /\ ids' = ids /\ pc'[r] = "failed"
        /\ \A q \in Runs : q # r => pc'[q] = pc[q]
    BY <1>5 DEF Fail, Typed, Goto
  <2>3. rows' \subseteq rows \cup {<<r, made[r] + 1>>}
    BY <1>5 DEF Fail
  <2>4. Fresh'
    BY <2>2, <2>3 DEF Fresh
  <2>5. rows \subseteq rows' \/ (pc[r] = "delete" /\ rows \ ids[r] \subseteq rows')
    BY <1>5 DEF Fail
  <2>6. Unlisted'
    BY <2>2, <2>5 DEF Unlisted
  <2> QED
    BY <2>1, <2>4, <2>6
<1>6. CASE UNCHANGED tvars
  BY <1>6 DEF tvars, Typed, Fresh, Unlisted
<1> QED
  BY <1>1, <1>2, <1>3, <1>4, <1>5, <1>6 DEF ReplaceNext

\* "Never leave the table empty" (replace_records), for any number of runs.
THEOREM TableNeverEmptied ==
  ASSUME ReplaceAssumption
  PROVE  ReplaceSpec => []NeverEmptied
<1>1. CASE OldRows = {}
  <2>1. NeverEmptied
    BY <1>1 DEF NeverEmptied
  <2> QED
    BY <2>1, PTL
<1>2. CASE OldRows # {}
  <2>1. ReplaceInit => ReplaceInv
    BY <1>2, InvHoldsAtInit
  <2>2. ReplaceInv /\ [ReplaceNext]_tvars => ReplaceInv'
    BY InvPreserved
  <2>3. ReplaceInv => NeverEmptied
    BY DEF ReplaceInv, Unlisted, NeverEmptied
  <2> QED
    BY <2>1, <2>2, <2>3, PTL DEF ReplaceSpec
<1> QED
  BY <1>1, <1>2

-----------------------------------------------------------------------------
(* Types *)

\* A run that creates has chunks left to create.
ChunksLeft ==
    /\ \A r \in Runs : pc[r] \in {"new", "list"} => made[r] = 0
    /\ \A r \in Runs : pc[r] = "create" => made[r] < Chunks[r]

LEMMA ReplaceTypesAtInit ==
  ASSUME ReplaceAssumption, ReplaceInit
  PROVE  ReplaceTypeOK /\ ChunksLeft
  BY DEF ReplaceAssumption, ReplaceInit, ReplaceTypeOK, ChunksLeft, Rows

LEMMA ReplaceTypesPreserved ==
  ASSUME ReplaceAssumption, ReplaceTypeOK, ChunksLeft, [ReplaceNext]_tvars
  PROVE  ReplaceTypeOK' /\ ChunksLeft'
<1> USE DEF ReplaceAssumption, ReplaceTypeOK, ChunksLeft
<1>1. ASSUME NEW r \in Runs, Begin(r)
      PROVE  ReplaceTypeOK' /\ ChunksLeft'
  BY <1>1 DEF Begin, Goto
<1>2. ASSUME NEW r \in Runs, List(r)
      PROVE  ReplaceTypeOK' /\ ChunksLeft'
  BY <1>2 DEF List, Goto
<1>3. ASSUME NEW r \in Runs, Create(r)
      PROVE  ReplaceTypeOK' /\ ChunksLeft'
  <2>1. <<r, made[r] + 1>> \in Rows
    BY <1>3 DEF Create, Rows, Own
  <2> QED
    BY <1>3, <2>1 DEF Create, Goto
<1>4. ASSUME NEW r \in Runs, Delete(r)
      PROVE  ReplaceTypeOK' /\ ChunksLeft'
  BY <1>4 DEF Delete, Goto
<1>5. ASSUME NEW r \in Runs, Fail(r)
      PROVE  ReplaceTypeOK' /\ ChunksLeft'
  <2>1. pc[r] = "create" => <<r, made[r] + 1>> \in Rows
    BY DEF Rows, Own
  <2>2. rows' \subseteq Rows
    BY <1>5, <2>1 DEF Fail
  <2> QED
    BY <1>5, <2>2 DEF Fail, Goto
<1>6. CASE UNCHANGED tvars
  BY <1>6 DEF tvars
<1> QED
  BY <1>1, <1>2, <1>3, <1>4, <1>5, <1>6 DEF ReplaceNext

\* No run creates more chunks than its rows take, and the table holds no rows but
\* the old ones and those of the runs.
THEOREM ReplaceTypes ==
  ASSUME ReplaceAssumption
  PROVE  ReplaceSpec => []ReplaceTypeOK
<1>1. ReplaceInit => ReplaceTypeOK /\ ChunksLeft
  BY ReplaceTypesAtInit
<1>2. (ReplaceTypeOK /\ ChunksLeft) /\ [ReplaceNext]_tvars
        => (ReplaceTypeOK /\ ChunksLeft)'
  BY ReplaceTypesPreserved
<1> QED
  BY <1>1, <1>2, PTL DEF ReplaceSpec

-----------------------------------------------------------------------------
(* A run alone.  Until another begins, it has the table to itself: what it *)
(* has listed and what it has made is all there is, and the two are apart. *)

Made(r) == {<<r, i>> : i \in 1..made[r]}

HasTable(r) ==
    /\ \A q \in Runs : Running(q) => q = r
    /\ pc[r] \in {"create", "delete"} => ids[r] \cap Own(r) = {}
    /\ pc[r] = "create" => rows = ids[r] \cup Made(r)
    /\ pc[r] = "delete" => rows = ids[r] \cup Own(r)

AloneInv ==
    /\ ReplaceTypeOK /\ ChunksLeft /\ Fresh
    /\ \A r \in apart : pc[r] # "new" /\ (Running(r) => HasTable(r))

\* One more chunk is one more row, and after the last one all are made.
LEMMA MadeGrows ==
  ASSUME NEW r \in Runs, made[r] \in Nat, made'[r] = made[r] + 1
  PROVE  /\ Made(r)' = Made(r) \cup {<<r, made[r] + 1>>}
         /\ Chunks[r] = made'[r] => Made(r)' = Own(r)
<1>1. 1..(made[r] + 1) = 1..made[r] \cup {made[r] + 1}
  OBVIOUS
<1> QED
  BY <1>1 DEF Made, Own

\* Fresh does not need a row that nobody lists.
LEMMA FreshPreserved ==
  ASSUME ReplaceAssumption, ReplaceTypeOK, Fresh, [ReplaceNext]_tvars
  PROVE  Fresh'
<1> USE DEF ReplaceTypeOK
<1>1. ASSUME NEW r \in Runs, Begin(r)
      PROVE  Fresh'
  BY <1>1 DEF Begin, Fresh, Goto
<1>2. ASSUME NEW r \in Runs, List(r)
      PROVE  Fresh'
  <2>1. \A q \in Runs : q # r => ids'[q] = ids[q] /\ pc'[q] = pc[q]
    BY <1>2 DEF List, Goto
  <2>2. ids'[r] = rows /\ pc'[r] \in {"done", "create"} /\ pc[r] = "list"
    BY <1>2 DEF List, Goto
  <2>3. rows' = rows /\ made' = made
    BY <1>2 DEF List
  <2> QED
    BY <2>1, <2>2, <2>3 DEF Fresh
<1>3. ASSUME NEW r \in Runs, Create(r)
      PROVE  Fresh'
  <2>1. /\ pc[r] = "create" /\ made[r] \in Nat
        /\ rows' = rows \cup {<<r, made[r] + 1>>} /\ ids' = ids
        /\ made'[r] = made[r] + 1
        /\ \A q \in Runs : q # r => made'[q] = made[q] /\ pc'[q] = pc[q]
    BY <1>3 DEF Create, Goto
  <2>2. \A q \in Runs : made[q] \in Nat
    OBVIOUS
  <2> QED
    BY <2>1, <2>2 DEF Fresh
<1>4. ASSUME NEW r \in Runs, Delete(r)
      PROVE  Fresh'
  <2>1. PICK batch \in SUBSET ids[r] :
           rows' = rows \ batch /\ ids' = [ids EXCEPT ![r] = @ \ batch]
    BY <1>4 DEF Delete
  <2>2. /\ made' = made /\ pc[r] = "delete" /\ pc'[r] \in {"delete", "done"}
        /\ \A q \in Runs : q # r => pc'[q] = pc[q]
    BY <1>4 DEF Delete, Goto
  <2>3. \A q \in Runs : ids'[q] \subseteq ids[q]
    BY <2>1
  <2> QED
    BY <2>1, <2>2, <2>3 DEF Fresh
<1>5. ASSUME NEW r \in Runs, Fail(r)
      PROVE  Fresh'
  <2>1. /\ made' = made /\ ids' = ids /\ pc'[r] = "failed"
        /\ \A q \in Runs : q # r => pc'[q] = pc[q]
    BY <1>5 DEF Fail, Goto
  <2>2. rows' \subseteq rows \cup {<<r, made[r] + 1>>}
    BY <1>5 DEF Fail
  <2> QED
    BY <2>1, <2>2 DEF Fresh
<1>6. CASE UNCHANGED tvars
  BY <1>6 DEF tvars, Fresh
<1> QED
  BY <1>1, <1>2, <1>3, <1>4, <1>5, <1>6 DEF ReplaceNext

\* What a step of a run does to itself when the table is its own.
LEMMA AlonePreserved ==
  ASSUME ReplaceAssumption, AloneInv, [ReplaceNext]_tvars
  PROVE  AloneInv'
<1>0. ReplaceTypeOK' /\ ChunksLeft' /\ Fresh'
  BY ReplaceTypesPreserved, FreshPreserved DEF AloneInv
<1> SUFFICES ASSUME NEW r \in apart'
             PROVE  pc'[r] # "new" /\ (Running(r)' => HasTable(r)')
  BY <1>0 DEF AloneInv
<1> r \in Runs
  BY <1>0 DEF ReplaceTypeOK
<1> USE DEF AloneInv, ReplaceTypeOK, Running, Goto
<1>1. ASSUME NEW q \in Runs, Begin(q)
      PROVE  pc'[r] # "new" /\ (Running(r)' => HasTable(r)')
  \* Whoever begins beside a run puts an end to its being alone.
  <2>1. CASE \E s \in Runs : Running(s)
    <3>1. r \in apart /\ ~Running(r)
      BY <1>1, <2>1 DEF Begin
    <3>2. r # q
      BY <1>1, <3>1 DEF Begin
    <3> QED
      BY <1>1, <3>1, <3>2 DEF Begin
  <2>2. CASE ~ \E s \in Runs : Running(s)
    BY <1>1, <2>2 DEF Begin, HasTable
  <2> QED
    BY <2>1, <2>2
<1>2. ASSUME NEW q \in Runs, q # r, List(q) \/ Create(q) \/ Delete(q) \/ Fail(q)
      PROVE  pc'[r] # "new" /\ (Running(r)' => HasTable(r)')
  <2>1. r \in apart /\ pc'[r] = pc[r] /\ Running(q)
    BY <1>2 DEF List, Create, Delete, Fail
  <2>2. ~Running(r)
    BY <1>2, <2>1 DEF HasTable
  <2> QED
    BY <2>1, <2>2
<1>3. CASE List(r)
  <2>1. r \in apart /\ pc[r] = "list" /\ made[r] = 0
    BY <1>3 DEF List, ChunksLeft
  <2>2. \A s \in Runs : Running(s)' => s = r
    BY <1>3, <2>1 DEF List, HasTable
  <2>3. ids'[r] = rows /\ rows' = rows /\ made' = made /\ pc'[r] \in {"done", "create"}
    BY <1>3 DEF List
  <2>4. rows \cap Own(r) = {} /\ Made(r)' = {}
    BY <2>1, <2>3 DEF Fresh, Own, Made
  <2> QED
    BY <2>2, <2>3, <2>4 DEF HasTable, Own
<1>4. CASE Create(r)
  <2>1. /\ r \in apart /\ pc[r] = "create" /\ made[r] < Chunks[r]
        /\ made[r] \in Nat /\ Chunks[r] \in Nat
    BY <1>4 DEF Create, ChunksLeft, ReplaceAssumption
  <2>2. \A s \in Runs : Running(s)' => s = r
    BY <1>4, <2>1 DEF Create, HasTable
  <2>3. /\ made'[r] = made[r] + 1 /\ ids' = ids
        /\ rows' = rows \cup {<<r, made[r] + 1>>}
        /\ pc'[r] \in {"create", "delete", "done"}
        /\ pc'[r] = "delete" => ~(made[r] + 1 < Chunks[r])
    BY <1>4 DEF Create
  <2>4. rows = ids[r] \cup Made(r) /\ ids[r] \cap Own(r) = {}
    BY <2>1 DEF HasTable
  <2>5. rows' = ids'[r] \cup Made(r)'
    BY <2>1, <2>3, <2>4, MadeGrows
  <2>6. pc'[r] = "delete" => Made(r)' = Own(r)
    BY <2>1, <2>3, MadeGrows
  <2> QED
    BY <2>2, <2>3, <2>4, <2>5, <2>6 DEF HasTable, Own
<1>5. CASE Delete(r)
  <2>1. r \in apart /\ pc[r] = "delete"
    BY <1>5 DEF Delete
  <2>2. \A s \in Runs : Running(s)' => s = r
    BY <1>5, <2>1 DEF Delete, HasTable
  <2>3. PICK batch \in SUBSET ids[r] :
           rows' = rows \ batch /\ ids' = [ids EXCEPT ![r] = @ \ batch]
    BY <1>5 DEF Delete
  <2>4. rows = ids[r] \cup Own(r) /\ ids[r] \cap Own(r) = {}
    BY <2>1 DEF HasTable
  <2>5. ids'[r] = ids[r] \ batch /\ pc'[r] \in {"delete", "done"}
    BY <1>5, <2>3 DEF Delete
  <2> QED
    BY <2>2, <2>3, <2>4, <2>5 DEF HasTable, Own
<1>6. CASE Fail(r)
  BY <1>6 DEF Fail
<1>7. CASE UNCHANGED tvars
  BY <1>7 DEF tvars, HasTable, Made
<1> QED
  BY <1>1, <1>2, <1>3, <1>4, <1>5, <1>6, <1>7 DEF ReplaceNext

\* A run that succeeds with no other beside it leaves exactly its own rows,
\* whatever runs before it had left half-done (replace_records).
THEOREM SuccessLeavesOwnRowsThm ==
  ASSUME ReplaceAssumption
  PROVE  ReplaceSpec => SuccessLeavesOwnRows
<1>1. ReplaceInit => AloneInv
  <2> SUFFICES ASSUME ReplaceInit PROVE AloneInv
    OBVIOUS
  <2>1. \A r \in Runs, i \in Nat : <<r, i>> \notin OldRows
    BY DEF ReplaceAssumption
  <2>2. Fresh
    BY <2>1 DEF ReplaceInit, Fresh
  <2> QED
    BY <2>2, ReplaceTypesAtInit DEF ReplaceInit, AloneInv
<1>2. AloneInv /\ [ReplaceNext]_tvars => AloneInv'
  BY AlonePreserved
<1>3. ASSUME AloneInv, [ReplaceNext]_tvars, NEW r \in Runs,
             pc'[r] = "done", pc[r] # "done", r \in apart, Chunks[r] > 0
      PROVE  rows' = Own(r)
  <2>1. CASE Create(r)
    <3>1. /\ pc[r] = "create" /\ made[r] < Chunks[r]
          /\ made[r] \in Nat /\ Chunks[r] \in Nat
          /\ rows = ids[r] \cup Made(r)
      BY <1>3, <2>1 DEF Create, AloneInv, ReplaceTypeOK, ChunksLeft, ReplaceAssumption,
         HasTable, Running
    <3>2. /\ made'[r] = made[r] + 1 /\ ids[r] = {}
          /\ rows' = rows \cup {<<r, made[r] + 1>>} /\ ~(made[r] + 1 < Chunks[r])
      BY <1>3, <2>1 DEF Create, Goto, AloneInv, ReplaceTypeOK
    <3>3. Chunks[r] = made'[r]
      BY <3>1, <3>2
    <3> QED
      BY <3>1, <3>2, <3>3, MadeGrows
  <2>2. CASE Delete(r)
    <3>1. PICK batch \in SUBSET ids[r] :
             /\ rows' = rows \ batch
             /\ Goto(r, IF batch = ids[r] THEN "done" ELSE "delete")
      BY <2>2 DEF Delete
    <3>2. batch = ids[r]
      BY <1>3, <3>1 DEF Goto, AloneInv, ReplaceTypeOK
    <3>3. rows = ids[r] \cup Own(r) /\ ids[r] \cap Own(r) = {}
      BY <1>3, <2>2 DEF Delete, AloneInv, HasTable, Running
    <3> QED
      BY <3>1, <3>2, <3>3
  <2>3. ASSUME NEW q \in Runs, Begin(q) \/ List(q) \/ Create(q) \/ Delete(q) \/ Fail(q)
        PROVE  Create(r) \/ Delete(r)
    BY <1>3, <2>3 DEF Begin, List, Create, Delete, Fail, Goto, AloneInv, ReplaceTypeOK
  <2> QED
    BY <1>3, <2>1, <2>2, <2>3 DEF ReplaceNext, tvars
<1>4. AloneInv /\ [ReplaceNext]_tvars =>
        [\A r \in Runs :
           pc'[r] = "done" /\ pc[r] # "done" /\ r \in apart /\ Chunks[r] > 0
             => rows' = Own(r)]_tvars
  BY <1>3
<1> QED
  BY <1>1, <1>2, <1>4, PTL DEF ReplaceSpec, SuccessLeavesOwnRows
=============================================================================
