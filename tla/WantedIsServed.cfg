\* Connect while the previous loop winds down: the promise of Connect fails
SPECIFICATION Spec
CONSTANT MaxLoops = 2
INVARIANT WantedIsServed
CHECK_DEADLOCK FALSE
