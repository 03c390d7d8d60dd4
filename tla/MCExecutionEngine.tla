------------------------- MODULE MCExecutionEngine -------------------------
(* TLC's instances of ExecutionEngine: the orders the tasks ask for and    *)
(* the symmetry of the tasks, which nothing tells apart.                   *)
EXTENDS ExecutionEngine, TLC

CONSTANT s1            \* the symbol

(* One kind of order, for the runs with many steps between requests.       *)
OneRequest == {[symbol |-> s1, quantity |-> 1, price |-> 2]}

(* An order, a larger one, and one of a negative quantity, which no check  *)
(* refuses.                                                                *)
SomeSizes ==
    {[symbol |-> s1, quantity |-> q, price |-> 2] : q \in {-1, 1, 2}}

OneSymbol == {s1}

TaskSymmetry == Permutations(Tasks)
=============================================================================
