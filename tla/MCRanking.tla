----------------------------- MODULE MCRanking -----------------------------
(***************************************************************************)
(* Three simulators in four catalogs: a direct one that is dear, a general *)
(* one that is cheap, and a very dear one that is another's partner, with  *)
(* manifests that miss a runtime, a smoke test that took none, a licence   *)
(* that is denied, ages in and between the bounds of freshness.            *)
(***************************************************************************)
EXTENDS Ranking

MCSimulators == 1 .. 3

Simulator(reach, declares, domain, runtime, rate, days) ==
    [reach |-> reach, declares |-> declares, domain |-> domain, licensed |-> TRUE,
     runtime |-> runtime, smoke |-> 1, rate |-> rate, days |-> days,
     unmaintained |-> FALSE]

MCRegistries ==
    {<<Simulator("general", {}, {"cfd"}, 2, 1, 900),
       Simulator("direct", {3}, {"mhd", "ideal"}, 3, 1, 30),
       Simulator("direct", {}, {"mhd"}, 20, 5, 455)>>,
     <<Simulator("direct", {2}, {"mhd"}, 4, 1, 180),
       [Simulator("none", {}, {"mhd", "ideal"}, 0, 1, 731) EXCEPT !.unmaintained = TRUE],
       [Simulator("direct", {}, {"cfd"}, Unknown, 2, 10) EXCEPT !.licensed = FALSE]>>,
     <<Simulator("direct", {}, {"mhd"}, 4, 1, 100),
       Simulator("direct", {}, {"mhd"}, 4, 1, 100),
       [Simulator("general", {}, {"cfd"}, Unknown, 1, 400) EXCEPT !.smoke = 0]>>,
     <<Simulator("none", {}, {"mhd"}, 1, 1, 0),
       [Simulator("direct", {}, {}, 1, 1, 0) EXCEPT !.licensed = FALSE],
       Simulator("general", {1}, {"cfd", "lattice"}, 2, 3, 600)>>}

MCTelemetries ==
    {<<<<>>, <<>>, <<>>>>, <<<<9>>, <<1, 5, 2>>, <<3, 6, 1, 1>>>>,
     <<<<9>>, <<5, 1, 2>>, <<1, 6, 3, 1>>>>}

WeightsFile ==
    [capability_match |-> 40, license_compliance |-> 10, cost |-> 20,
     cross_simulator_availability |-> 20, maintenance_freshness |-> 10,
     ambiguity_epsilon |-> 3, cost_estimate_missing_penalty |-> 15,
     over_budget_penalty |-> 30]
MCWeightTables ==
    {WeightsFile, [WeightsFile EXCEPT !.cost = 30],
     [WeightsFile EXCEPT !.cost = 50, !.capability_match = 10, !.over_budget_penalty = 90]}

MCCaps == {Unknown, 2}

NoScope == [domains |-> {}, simulators |-> {}]
MCScopes == {NoScope}
NoMove == [addDomains |-> {}, removeDomains |-> {}, addSimulators |-> {}, removeSimulators |-> {}]
MCMoves == {[NoMove EXCEPT !.addDomains = {{"cfd"}, {"mhd"}}, !.removeSimulators = {3}],
            [NoMove EXCEPT !.removeDomains = {{"cfd"}}, !.addSimulators = {2, 3}]}
=============================================================================
