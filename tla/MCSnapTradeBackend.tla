------------------------- MODULE MCSnapTradeBackend -------------------------
(***************************************************************************)
(* SnapTradeBackend on two windows of three days and pages of two: a       *)
(* window that must be bisected twice, a single day that overflows, an     *)
(* activity on the day that two windows share, an order reported twice.    *)
(***************************************************************************)
EXTENDS SnapTradeBackend

Act(id, a, d, s) == [id |-> id, acct |-> a, day |-> d, sec |-> s]
MCActivities ==
    {Act("b1", "ira", 3, "VTI"), Act("b2", "ira", 2, "BND"), Act("d2", "roth", 2, None),
     Act("b3", "ira", 4, "VTI"), Act("b4", "ira", 6, "VTI")}

Order(id, x, s) == [id |-> id, acct |-> "ira", executed |-> x, sec |-> s]
MCOrders ==
    {Order("o1", TRUE, "VTI"), Order("o2", FALSE, "BND"), Order("o4", TRUE, None),
     Order("o3", FALSE, "BND"), Order("o3", TRUE, "BND")}
=============================================================================
