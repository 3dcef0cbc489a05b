------------------------------ MODULE MCWeave ------------------------------
(***************************************************************************)
(* Small instances of Weave: two cores, two domains, and the systems that  *)
(* differ in where the cache and the controller live and in how many       *)
(* threads simulate the domains.                                           *)
(***************************************************************************)
EXTENDS Weave, TLC
CONSTANTS c1, c2

System(one, mem, shapes, gap, ops) ==
  [oneThread |-> one, llc |-> 0, mem |-> mem, shapes |-> shapes, gaps |-> {gap}, ops |-> ops]

Ops(n, m) == (c1 :> n) @@ (c2 :> m)

MCSystems ==
  {System(FALSE, 1, {"miss"}, 1, Ops(3, 2)),
   System(TRUE, 1, {"miss", "stitch"}, 1, Ops(3, 2)),
   System(FALSE, 1, {"miss"}, 11, Ops(2, 1)),
   System(FALSE, 0, {"hit", "missWb"}, 1, Ops(2, 2)),
   System(FALSE, 1, {"missInv", "missWb", "missInvWb"}, 1, Ops(2, 1)),
   System(TRUE, 1, {"missInv", "missWb", "missInvWb"}, 1, Ops(2, 2))}

TwoCores   == {c1, c2}
TwoDomains == (c1 :> 0) @@ (c2 :> 1)

OneCore    == {c1}
OneDomain  == (c1 :> 0)
MissOnly   == {System(FALSE, 1, {"miss"}, 1, c1 :> 4)}
=============================================================================
