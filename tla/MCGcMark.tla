------------------------------ MODULE MCGcMark ------------------------------
EXTENDS GcMarkInvariant, TLC
CONSTANTS a, b, c, d, e, f

(***************************************************************************)
(* Three heaps.  In the first a leads to three objects that no root names  *)
(* (a stack long enough to share), two of them to the same one (a race for *)
(* its mark), and that one back to a.  In the second f and e are reached   *)
(* through a weak table only, e by way of f: a pass that comes to the      *)
(* entry of e first needs another one.  In the third the key of f is dead, *)
(* and the registry's targets may die one after the other, which queues a  *)
(* second job for it.                                                      *)
(***************************************************************************)
MCGraphs == { a :> {c, d, e} @@ b :> {} @@ c :> {f} @@ d :> {} @@ e :> {f} @@ f :> {a},
              a :> {b, c} @@ b :> {} @@ c :> {} @@ d :> {} @@ e :> {} @@ f :> {c},
              a :> {e} @@ b :> {} @@ c :> {} @@ d :> {} @@ e :> {} @@ f :> {} }

\* a is a weak table whose two entries depend on one another.
MCEph == { [table |-> a, key |-> c, value |-> f], [table |-> a, key |-> f, value |-> e] }

\* b is a registry that outlives its targets when a is dropped.
MCCells == { [reg |-> b, target |-> c, held |-> d], [reg |-> b, target |-> e, held |-> d] }
=============================================================================
