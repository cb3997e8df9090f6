------------------------------- MODULE CoQueue -------------------------------
(***************************************************************************)
(* The intrusive circular lists of co_queue.h, pointer by pointer.  A node *)
(* is the queue_node embedded in a coroutine or the sentinel `head` of a   *)
(* list; a list is named by its sentinel.                                  *)
(*                                                                         *)
(* The other modules see these lists as sequences.  What they may rely on  *)
(* is that as long as a node is pushed only while it is in no list, and    *)
(* removed only through the list it is in (what CoScheduler's              *)
(* NodeLinkedOnce and TimerInv say of the callers), the pointers and the   *)
(* sizes behave as sequences do: ImplementsSequences.                      *)
(***************************************************************************)
EXTENDS Naturals, Sequences, Functions

CONSTANTS Item,    \* the nodes in coroutines
          List     \* the sentinels

ASSUME NodeAssumption == Item \cap List = {}

VARIABLES next,    \* node->next
          prev,    \* node->prev
          size     \* queue->size

listVars == <<next, prev, size>>

Node == Item \cup List

(* co_queue_init of every list, co_queue_node_init of every node.          *)
QueueInit ==
  /\ next = [n \in Node |-> n]
  /\ prev = [n \in Node |-> n]
  /\ size = [q \in List |-> 0]

IsLinked(n) == next[n] # n

(* Mutant: the sentinel's prev is not updated.                             *)
PushBackHalf(q, n) ==
  /\ ~IsLinked(n)
  /\ next' = [[next EXCEPT ![n] = q] EXCEPT ![prev[q]] = n]
  /\ prev' = [prev EXCEPT ![n] = prev[q]]
  /\ size' = [size EXCEPT ![q] = @ + 1]

(* The assignments of co_queue_push_back, in their order.                  *)
PushBack(q, n) ==
  /\ ~IsLinked(n)
  /\ LET last == prev[q] IN
       /\ next' = [[next EXCEPT ![n] = q] EXCEPT ![last] = n]
       /\ prev' = [[prev EXCEPT ![n] = last] EXCEPT ![q] = n]
  /\ size' = [size EXCEPT ![q] = @ + 1]

PushFront(q, n) ==
  /\ ~IsLinked(n)
  /\ LET first == next[q] IN
       /\ next' = [[next EXCEPT ![n] = first] EXCEPT ![q] = n]
       /\ prev' = [[prev EXCEPT ![n] = q] EXCEPT ![first] = n]
  /\ size' = [size EXCEPT ![q] = @ + 1]

(* co_queue_remove of a linked node; of another one it does nothing.       *)
Unlink(q, n) ==
  /\ IsLinked(n)
  /\ next' = [[next EXCEPT ![prev[n]] = next[n]] EXCEPT ![n] = n]
  /\ prev' = [[prev EXCEPT ![next[n]] = prev[n]] EXCEPT ![n] = n]
  /\ size' = [size EXCEPT ![q] = @ - 1]

PopFront(q) == size[q] # 0 /\ Unlink(q, next[q])

(* The nodes met from the sentinel on, as co_queue_foreach visits them.    *)
Walk(q) ==
  LET at[i \in 0..size[q]] == IF i = 0 THEN q ELSE next[at[i - 1]]
  IN  [i \in 1..size[q] |-> at[i]]

(* A caller removes a node from the list it is in.                         *)
RemoveNode(q, n) == n \in Range(Walk(q)) /\ Unlink(q, n)

QueueNext ==
  \E q \in List :
    \/ PopFront(q)
    \/ \E n \in Item : PushBack(q, n) \/ PushFront(q, n) \/ RemoveNode(q, n)

QueueSpec == QueueInit /\ [][QueueNext]_listVars

------------------------------------------------------------------------------
(* Properties.                                                             *)

(* Each operation does to the list it is given what its name says of a     *)
(* sequence, and nothing to the other lists: the view of the lists that    *)
(* the scheduler and the synchronisation objects are modelled with.        *)
OnSequence(q, s) ==
  /\ Walk(q)' = s
  /\ \A p \in List \ {q} : Walk(p)' = Walk(p)

ImplementsSequences ==
  [][\A q \in List :
       /\ PopFront(q) => OnSequence(q, Tail(Walk(q)))
       /\ \A n \in Item :
            /\ PushBack(q, n) => OnSequence(q, Append(Walk(q), n))
            /\ PushFront(q, n) => OnSequence(q, <<n>> \o Walk(q))
            /\ RemoveNode(q, n) => OnSequence(q, SelectSeq(Walk(q), LAMBDA m : m # n))]_listVars
==============================================================================
