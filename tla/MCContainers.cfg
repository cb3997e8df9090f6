\* Two lists share four nodes.  Six coroutines in the heap: the least for which
\* a removal has to sift up.  Three deadlines, so that there are equal ones.
\* The array grows twice.
SPECIFICATION ContainersSpec
CONSTANTS
  Item = {n1, n2, n3, n4}
  List = {q1, q2}
  Routine = {r1, r2, r3, r4, r5, r6}
  NoRoutine = NoRoutine
  WakeupTimes = {0, 1, 2}
  InitialCapacity = 2
  MaxCapacity = 8
SYMMETRY Symmetry
PROPERTIES ImplementsSequences ImplementsSet
