------------------------------ MODULE MCBudget ------------------------------
(***************************************************************************)
(* Small instances of Budget: two surfaces, unit and double costs, caps    *)
(* that two operations reach, and four mixtures of the bounded events.     *)
(***************************************************************************)
EXTENDS Budget, TLC

MCSurfaces == {"dollars", "tokens"}
Vector(d, t) == [s \in MCSurfaces |-> IF s = "dollars" THEN d ELSE t]

MCCosts == {Vector(1, 1), Vector(2, 1)}
MCHypCaps == {[surf |-> Vector(3, 2), iterations |-> 1]}
MCDayCap == Vector(4, 4)

NoEvents == [kind \in Limited |-> 0]

\* Crashes and failed writes over two days; an operator who halts and clears
\* twice; halts of the tracker and of an operator that a clear, a crash and a
\* failed write meet; and threads that run past a cap an operator raised and a
\* crash took back.
MCFuels ==
    {[NoEvents EXCEPT !["records"] = 2, !["crashes"] = 1, !["errors"] = 1,
                      !["days"] = 1],
     [NoEvents EXCEPT !["records"] = 1, !["setcaps"] = 2, !["halts"] = 1],
     [NoEvents EXCEPT !["records"] = 1, !["crashes"] = 1, !["errors"] = 1,
                      !["setcaps"] = 1, !["halts"] = 1],
     [NoEvents EXCEPT !["records"] = 3, !["crashes"] = 1, !["setcaps"] = 1]}

\* Two threads that only check and record.
MCQuietFuels == {[NoEvents EXCEPT !["records"] = 2]}

BudgetSymmetry == Permutations(Clients) \cup Permutations(Hyps)
=============================================================================
