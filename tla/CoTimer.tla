------------------------------- MODULE CoTimer -------------------------------
(***************************************************************************)
(* The timer heap of co_timer.c: a binary min-heap of coroutine pointers   *)
(* in an array, ordered by the wakeup_time of the coroutines.              *)
(*                                                                         *)
(* A coroutine sets its wakeup_time before it is pushed and is pushed only *)
(* when it is not in the heap (CoScheduler's OneTimerEach and              *)
(* TimerKeyStable).  Entries of the array from `count` on are never read;  *)
(* the model clears them.                                                  *)
(***************************************************************************)
EXTENDS Naturals, FiniteSets

CONSTANTS Routine, NoRoutine,
          WakeupTimes,      \* the deadlines that occur
          InitialCapacity,  \* argument of co_timer_heap_init
          MaxCapacity       \* bound: realloc fails beyond

ASSUME CapacityAssumption ==
  /\ WakeupTimes \subseteq Nat
  /\ InitialCapacity \in Nat \ {0} /\ MaxCapacity \in Nat

VARIABLES heap,      \* heap->heap
          count,     \* heap->count
          capacity,  \* heap->capacity
          wakeup     \* routine->wakeup_time

timerVars == <<heap, count, capacity, wakeup>>

TimerInit ==
  /\ heap = [i \in 0..(InitialCapacity - 1) |-> NoRoutine]
  /\ count = 0
  /\ capacity = InitialCapacity
  /\ wakeup = [r \in Routine |-> 0]

Parent(i) == (i - 1) \div 2

(* heap_sift_up: the item moves from the hole at i towards the root.       *)
RECURSIVE SiftUp(_, _, _, _)
SiftUp(h, key, item, i) ==
  IF i > 0 /\ key[item] < key[h[Parent(i)]]
  THEN SiftUp([h EXCEPT ![i] = h[Parent(i)]], key, item, Parent(i))
  ELSE [h EXCEPT ![i] = item]

(* The smaller child of i, the left one of two equals.                     *)
Child(h, key, n, i) ==
  LET left == 2 * i + 1
      right == left + 1
  IN  IF right < n /\ key[h[right]] < key[h[left]] THEN right ELSE left

(* heap_sift_down, in a heap of n entries.                                 *)
RECURSIVE SiftDown(_, _, _, _, _)
SiftDown(h, key, n, item, i) ==
  LET child == Child(h, key, n, i) IN
  IF i < n \div 2 /\ key[h[child]] < key[item]
  THEN SiftDown([h EXCEPT ![i] = h[child]], key, n, item, child)
  ELSE [h EXCEPT ![i] = item]

------------------------------------------------------------------------------
Entries == {heap[i] : i \in 0..(count - 1)}

(* The array is doubled when it is full; a push that cannot get the memory *)
(* leaves the heap alone.                                                  *)
Grown == IF count < capacity THEN capacity ELSE 2 * capacity

Push(r, t) ==
  /\ r \notin Entries
  /\ Grown <= MaxCapacity
  /\ capacity' = Grown
  /\ wakeup' = [wakeup EXCEPT ![r] = t]
  /\ LET room == [i \in 0..(Grown - 1) |-> IF i < count THEN heap[i] ELSE NoRoutine]
     IN  heap' = SiftUp(room, wakeup', r, count)
  /\ count' = count + 1

(* The heap without its last entry, which has not been placed yet.         *)
Shortened == [heap EXCEPT ![count - 1] = NoRoutine]

Pop ==
  /\ count > 0
  /\ count' = count - 1
  /\ heap' = IF count' > 0
             THEN SiftDown(Shortened, wakeup, count', heap[count'], 0)
             ELSE Shortened
  /\ UNCHANGED <<capacity, wakeup>>

(* Mutant: the last entry is only ever moved down.                         *)
RemoveOnlyDown(r) ==
  /\ r \in Entries
  /\ count' = count - 1
  /\ LET i == CHOOSE j \in 0..(count - 1) : heap[j] = r IN
       heap' = IF i = count' THEN Shortened
               ELSE SiftDown(Shortened, wakeup, count', heap[count'], i)
  /\ UNCHANGED <<capacity, wakeup>>

(* co_timer_heap_remove of an entry; a routine that is not in the heap is  *)
(* not found and nothing changes.  The last entry takes the place and may  *)
(* have to move either way.                                                *)
Remove(r) ==
  /\ r \in Entries
  /\ count' = count - 1
  /\ LET i == CHOOSE j \in 0..(count - 1) : heap[j] = r
         moved == heap[count'] IN
       heap' = IF i = count' THEN Shortened
               ELSE IF i > 0 /\ wakeup[moved] < wakeup[heap[Parent(i)]]
               THEN SiftUp(Shortened, wakeup, moved, i)
               ELSE SiftDown(Shortened, wakeup, count', moved, i)
  /\ UNCHANGED <<capacity, wakeup>>

TimerNext ==
  \/ Pop
  \/ \E r \in Routine : Remove(r) \/ \E t \in WakeupTimes : Push(r, t)

TimerSpec == TimerInit /\ [][TimerNext]_timerVars

------------------------------------------------------------------------------
(* Properties.                                                             *)

(* To its users the heap is a set of coroutines: a push adds one, a pop    *)
(* takes one of the earliest, which is the one co_timer_heap_peek shows,   *)
(* and a removal takes exactly the one that is named.  This is how         *)
(* CoScheduler models it.                                                  *)
ImplementsSet ==
  [][/\ Cardinality(Entries') = count'
     /\ Pop => /\ \A r \in Entries : wakeup[heap[0]] <= wakeup[r]
               /\ Entries' = Entries \ {heap[0]}
     /\ \A r \in Routine :
          /\ Remove(r) => Entries' = Entries \ {r}
          /\ r \notin Entries /\ r \in Entries' => Entries' = Entries \cup {r}]_timerVars
==============================================================================
