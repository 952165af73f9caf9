------------------------ MODULE MCReleaseGovernance ------------------------
(* Small instance of the release governance: a canary, a second canary that  *)
(* wants the same account, and production after the first, with one good and *)
(* one bad observation of each kind.                                         *)
EXTENDS ReleaseGovernance, TLC

ControllersAlike == Permutations(Controllers)

CONSTANTS x, y, a1, a2, a3, c1, c2, p1

MCBuilds == {x, y}
MCApprovals == {a1, a2, a3}
MCDeployments == {c1, c2, p1}

Canary(a, d, b, back) == [approval |-> a, deployment |-> d, build |-> b, stage |-> "canary",
                          priorApproval |-> NoDeployment, rollback |-> back]
Production(a, d, b, pa, pd) == [approval |-> a, deployment |-> d, build |-> b,
                                stage |-> "production", priorApproval |-> pa,
                                rollback |-> pd]
MCSpecs == {Canary(a1, c1, x, NoDeployment), Canary(a2, c2, y, c1), Production(a3, p1, x, a1, c1)}

MCPolicy == [frozen |-> 0, duration |-> 2, orders |-> 2, fills |-> 1, makerFills |-> 1,
             scenarios |-> {"node", "sentinel"}, cancelAlls |-> 1, deadman |-> 1,
             rejectedPercent |-> 50, positivePnl |-> TRUE, drawdown |-> 5, markout |-> 2,
             capital |-> [b \in MCBuilds |-> 10], drills |-> {"kill"}]

Rehearsal == [started |-> 0, ended |-> 2, orders |-> 2, fills |-> 1,
              scenarios |-> {"node", "sentinel"}, failed |-> {}, unknown |-> 1,
              resolved |-> 1, reconciliationFailures |-> 0, duplicates |-> 0,
              breaches |-> 0, cancelAlls |-> 1, deadman |-> 1, position |-> 0,
              openOrders |-> 0, mainnetCredentials |-> FALSE]
MCTestnetObservations == {Rehearsal, [Rehearsal EXCEPT !.resolved = 0]}

CanaryRun == [started |-> 0, ended |-> 2, orders |-> 2, fills |-> 1, makerFills |-> 1,
              rejected |-> 1, unknowns |-> 0, reconciliationFailures |-> 0,
              feeEvents |-> 1, fundingEvents |-> 1, pnl |-> 1, drawdown |-> 5,
              markout |-> 0, equity |-> 10, drills |-> {"kill"}]
MCCanaryObservations == {CanaryRun, [CanaryRun EXCEPT !.equity = 11]}
=============================================================================
