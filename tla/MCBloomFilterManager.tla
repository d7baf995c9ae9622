------------------------ MODULE MCBloomFilterManager ------------------------
(* Budgets and symmetry for the TLC runs of BloomFilterManager.            *)
EXTENDS BloomFilterManager, TLC

MCBudget(rotations, crashes, resets) ==
    [rotation |-> rotations, crash |-> crashes, reset |-> resets]

MCBudgetCrash   == MCBudget(2, 1, 0)
MCBudgetReset   == MCBudget(2, 0, 1)
MCBudgetRestart == MCBudget(0, 1, 0)
MCBudgetStale   == MCBudget(0, 0, 1)
MCBudgetDemand  == MCBudget(2, 0, 0)

Symmetric == Permutations(Items)
=============================================================================
