-------------------------- MODULE CoSchedulerProofs --------------------------
(***************************************************************************)
(* Every step of the scheduler loop, of the main program and of co_spawn,  *)
(* co_yield_now, co_sleep and co_routine_finish preserves SchedInv, for    *)
(* any set of routines and wait queues.  The lemmas do not assume that     *)
(* nothing else is in the wait queues, so the modules on top of the        *)
(* scheduler use them for their own specifications.                        *)
(***************************************************************************)
EXTENDS CoScheduler, TLAPS

(* The leaves that name no other prover are for Zenon.                     *)
USE ZenonT(30)

(***************************************************************************)
(* What is used of the operators on sequences.                             *)
(***************************************************************************)

LEMMA SeqDomain ==
  ASSUME NEW S, NEW s \in Seq(S)
  PROVE  /\ Len(s) \in Nat
         /\ DOMAIN s = 1..Len(s)
         /\ \A i \in 1..Len(s) : s[i] \in S
         /\ s = <<>> <=> Len(s) = 0
  BY SMT

LEMMA SeqEmpty ==
  ASSUME NEW S
  PROVE  <<>> \in Seq(S)
  BY SMT

LEMMA SeqAppend ==
  ASSUME NEW S, NEW s \in Seq(S), NEW e \in S
  PROVE  /\ Append(s, e) \in Seq(S)
         /\ Append(s, e) # <<>>
         /\ Len(Append(s, e)) = Len(s) + 1
         /\ \A i \in 1..Len(s) : Append(s, e)[i] = s[i]
         /\ Append(s, e)[Len(s) + 1] = e
  BY SMT

LEMMA SeqTail ==
  ASSUME NEW S, NEW s \in Seq(S), s # <<>>
  PROVE  /\ Head(s) \in S
         /\ Tail(s) \in Seq(S)
         /\ Len(Tail(s)) = Len(s) - 1
         /\ \A i \in 1..Len(Tail(s)) : Tail(s)[i] = s[i + 1]
  BY SMT

LEMMA SeqSlice ==
  ASSUME NEW S, NEW s, NEW m \in Int, NEW n \in Int, \A i \in m..n : s[i] \in S
  PROVE  /\ SubSeq(s, m, n) \in Seq(S)
         /\ Len(SubSeq(s, m, n)) = IF m <= n THEN n - m + 1 ELSE 0
         /\ \A i \in 1..(n - m + 1) : SubSeq(s, m, n)[i] = s[m + i - 1]
  BY SMT

LEMMA SeqConcat ==
  ASSUME NEW S, NEW s \in Seq(S), NEW t \in Seq(S)
  PROVE  /\ s \o t \in Seq(S)
         /\ Len(s \o t) = Len(s) + Len(t)
         /\ \A i \in 1..(Len(s) + Len(t)) :
              (s \o t)[i] = IF i <= Len(s) THEN s[i] ELSE t[i - Len(s)]
  BY SMT

LEMMA SeqSame ==
  ASSUME NEW S, NEW s \in Seq(S), NEW t \in Seq(S),
         Len(s) = Len(t), \A i \in 1..Len(s) : s[i] = t[i]
  PROVE  s = t
  BY SMT

(***************************************************************************)
(* What the operations on an intrusive list do to the set of routines      *)
(* linked in it.                                                           *)
(***************************************************************************)

(* A sequence is a function on 1..Len.                                     *)
LEMMA ListDomain ==
  ASSUME NEW S, NEW s \in Seq(S)
  PROVE  /\ DOMAIN s = 1..Len(s)
         /\ Len(s) \in Nat
         /\ \A i \in 1..Len(s) : s[i] \in S
         /\ Range(s) \subseteq S
         /\ s = <<>> <=> Len(s) = 0
         /\ s = <<>> <=> Range(s) = {}
<1>1. /\ DOMAIN s = 1..Len(s)
      /\ Len(s) \in Nat
      /\ \A i \in 1..Len(s) : s[i] \in S
  BY SeqDomain
<1>2. Range(s) \subseteq S
  BY <1>1 DEF Range
<1>3. s = <<>> <=> Len(s) = 0
  BY SeqDomain
<1>4. ASSUME Len(s) # 0 PROVE Range(s) # {}
  <2>1. 1 \in 1..Len(s)
    BY SMT, <1>1, <1>4
  <2> QED BY <2>1, <1>1 DEF Range
<1>5. ASSUME Len(s) = 0 PROVE Range(s) = {}
  BY SMT, <1>5, <1>1 DEF Range
<1> QED BY <1>1, <1>2, <1>3, <1>4, <1>5

(* co_queue_push_back of a node that is not linked.                        *)
LEMMA ListPushBack ==
  ASSUME NEW S, NEW s \in Seq(S), NEW e \in S
  PROVE  /\ Append(s, e) \in Seq(S)
         /\ Append(s, e) # <<>>
         /\ Range(Append(s, e)) = Range(s) \cup {e}
         /\ IsInjective(s) /\ e \notin Range(s) => IsInjective(Append(s, e))
<1>1. /\ Append(s, e) \in Seq(S)
      /\ Append(s, e) # <<>>
      /\ Len(Append(s, e)) = Len(s) + 1
      /\ \A i \in 1..Len(s) : Append(s, e)[i] = s[i]
      /\ Append(s, e)[Len(s) + 1] = e
  BY SeqAppend
<1>2. /\ DOMAIN s = 1..Len(s) /\ DOMAIN Append(s, e) = 1..(Len(s) + 1)
      /\ Len(s) \in Nat
  BY <1>1, SeqDomain
<1>3. Range(Append(s, e)) = Range(s) \cup {e}
  BY SMT, <1>1, <1>2 DEF Range
<1>4. IsInjective(s) /\ e \notin Range(s) => IsInjective(Append(s, e))
  BY SMT, <1>1, <1>2 DEF Range, IsInjective
<1> QED BY <1>1, <1>3, <1>4

(* co_queue_pop_front of a list that is not empty.                         *)
LEMMA ListPopFront ==
  ASSUME NEW S, NEW s \in Seq(S), s # <<>>, IsInjective(s)
  PROVE  /\ Tail(s) \in Seq(S)
         /\ Head(s) \in S
         /\ Head(s) \in Range(s)
         /\ Range(Tail(s)) = Range(s) \ {Head(s)}
         /\ IsInjective(Tail(s))
<1>1. /\ Tail(s) \in Seq(S)
      /\ Head(s) \in S
      /\ Len(Tail(s)) = Len(s) - 1
      /\ \A i \in 1..Len(Tail(s)) : Tail(s)[i] = s[i + 1]
  BY SeqTail
<1>2. /\ DOMAIN s = 1..Len(s) /\ Len(s) \in Nat /\ Len(s) # 0
      /\ DOMAIN Tail(s) = 1..(Len(s) - 1)
  BY SMT, <1>1
<1>3. Head(s) = s[1]
  BY SMT
<1>4. Head(s) \in Range(s)
  BY SMT, <1>2, <1>3 DEF Range
<1>5. Range(Tail(s)) \subseteq Range(s) \ {Head(s)}
  BY SMT, <1>1, <1>2, <1>3 DEF Range, IsInjective
<1>6. ASSUME NEW e \in Range(s) \ {Head(s)}
      PROVE  e \in Range(Tail(s))
  <2>1. PICK i \in 1..Len(s) : s[i] = e
    BY <1>6, <1>2 DEF Range
  <2>2. i - 1 \in 1..(Len(s) - 1)
    BY SMT, <2>1, <1>2, <1>3, <1>6
  <2>3. Tail(s)[i - 1] = e
    BY SMT, <2>1, <2>2, <1>1, <1>2
  <2> QED BY <2>2, <2>3, <1>2 DEF Range
<1>7. IsInjective(Tail(s))
  BY SMT, <1>1, <1>2 DEF IsInjective
<1> QED BY <1>1, <1>4, <1>5, <1>6, <1>7

(* co_queue_remove: the node, wherever it is in the list, is unlinked.     *)
LEMMA ListUnlink ==
  ASSUME NEW S, NEW s \in Seq(S), IsInjective(s), NEW e \in S
  PROVE  /\ Unlink(s, e) \in Seq(S)
         /\ Range(Unlink(s, e)) = Range(s) \ {e}
         /\ IsInjective(Unlink(s, e))
<1>0. CASE e \notin Range(s)
  BY <1>0 DEF Unlink
<1>1. CASE e \in Range(s)
  <2> DEFINE k == CHOOSE i \in DOMAIN s : s[i] = e
             a == SubSeq(s, 1, k - 1)
             b == SubSeq(s, k + 1, Len(s))
             t == a \o b
  <2>1. /\ DOMAIN s = 1..Len(s) /\ Len(s) \in Nat
        /\ \A i \in 1..Len(s) : s[i] \in S
    BY SeqDomain
  <2>2. k \in 1..Len(s) /\ s[k] = e
    BY <1>1, <2>1 DEF Range
  <2>3. Unlink(s, e) = t
    BY <1>1 DEF Unlink
  <2> HIDE DEF k
  <2>4. /\ a \in Seq(S) /\ Len(a) = k - 1
        /\ \A i \in 1..(k - 1) : a[i] = s[i]
    <3>1. k - 1 \in Int /\ 1 \in Int /\ \A i \in 1..(k - 1) : s[i] \in S
      BY SMT, <2>1, <2>2
    <3>2. /\ a \in Seq(S)
          /\ Len(a) = IF 1 <= k - 1 THEN (k - 1) - 1 + 1 ELSE 0
          /\ \A i \in 1..((k - 1) - 1 + 1) : a[i] = s[1 + i - 1]
      BY SMT, <3>1, SeqSlice
    <3> QED BY SMT, <3>2, <2>2, <2>1
  <2>5. /\ b \in Seq(S) /\ Len(b) = Len(s) - k
        /\ \A i \in 1..(Len(s) - k) : b[i] = s[k + i]
    <3>1. k + 1 \in Int /\ Len(s) \in Int /\ \A i \in (k + 1)..Len(s) : s[i] \in S
      BY SMT, <2>1, <2>2
    <3>2. /\ b \in Seq(S)
          /\ Len(b) = IF k + 1 <= Len(s) THEN Len(s) - (k + 1) + 1 ELSE 0
          /\ \A i \in 1..(Len(s) - (k + 1) + 1) : b[i] = s[(k + 1) + i - 1]
      BY SMT, <3>1, SeqSlice
    <3> QED BY SMTT(30), <3>2, <2>2, <2>1
  <2> HIDE DEF a, b
  <2>6. /\ t \in Seq(S) /\ Len(t) = Len(s) - 1
        /\ \A i \in 1..(Len(s) - 1) : t[i] = IF i <= k - 1 THEN s[i] ELSE s[i + 1]
    <3>1. /\ t \in Seq(S) /\ Len(t) = Len(a) + Len(b)
          /\ \A i \in 1..(Len(a) + Len(b)) :
               t[i] = IF i <= Len(a) THEN a[i] ELSE b[i - Len(a)]
      BY <2>4, <2>5, SeqConcat
    <3>2. ASSUME NEW i \in 1..(Len(s) - 1)
          PROVE  t[i] = IF i <= k - 1 THEN s[i] ELSE s[i + 1]
      <4>1. CASE i <= k - 1
        BY SMTT(30), <4>1, <3>1, <2>4, <2>5, <2>1, <2>2
      <4>2. CASE ~(i <= k - 1)
        <5>1. i - (k - 1) \in 1..(Len(s) - k)
          BY SMT, <4>2, <2>1, <2>2
        <5>2. b[i - (k - 1)] = s[k + (i - (k - 1))]
          BY <5>1, <2>5
        <5>3. k + (i - (k - 1)) = i + 1
          BY SMT, <2>1, <2>2
        <5>4. t[i] = b[i - (k - 1)]
          BY SMT, <4>2, <3>1, <2>4, <2>5, <2>1, <2>2
        <5> QED BY <5>2, <5>3, <5>4, <4>2
      <4> QED BY <4>1, <4>2
    <3> QED BY SMTT(30), <3>1, <3>2, <2>4, <2>5, <2>1, <2>2
  <2> HIDE DEF t
  <2>7. DOMAIN t = 1..(Len(s) - 1)
    BY <2>6, SeqDomain
  <2>8. Range(t) \subseteq Range(s) \ {e}
    BY SMTT(30), <2>1, <2>2, <2>6, <2>7 DEF Range, IsInjective
  <2>9. ASSUME NEW x \in Range(s) \ {e}
        PROVE  x \in Range(t)
    <3>1. PICK i \in 1..Len(s) : s[i] = x
      BY <2>9, <2>1 DEF Range
    <3>2. CASE i < k
      <4>1. i \in 1..(Len(s) - 1) /\ t[i] = x
        BY SMT, <3>1, <3>2, <2>1, <2>2, <2>6
      <4> QED BY <4>1, <2>7 DEF Range
    <3>3. CASE i > k
      <4>1. i - 1 \in 1..(Len(s) - 1) /\ t[i - 1] = x
        BY SMT, <3>1, <3>3, <2>1, <2>2, <2>6
      <4> QED BY <4>1, <2>7 DEF Range
    <3> QED BY SMT, <3>1, <3>2, <3>3, <2>2, <2>9
  <2>10. IsInjective(t)
    <3> SUFFICES ASSUME NEW i \in 1..(Len(s) - 1), NEW j \in 1..(Len(s) - 1), t[i] = t[j]
                 PROVE  i = j
      BY <2>7 DEF IsInjective
    <3> DEFINE Old(n) == IF n <= k - 1 THEN n ELSE n + 1
    <3>1. /\ Old(i) \in 1..Len(s) /\ t[i] = s[Old(i)]
          /\ Old(j) \in 1..Len(s) /\ t[j] = s[Old(j)]
      BY SMT, <2>1, <2>2, <2>6
    <3>2. Old(i) = Old(j)
      BY <3>1, <2>1 DEF IsInjective
    <3> QED BY SMT, <3>2, <2>1, <2>2
  <2> QED BY <2>3, <2>6, <2>8, <2>9, <2>10
<1> QED BY <1>0, <1>1

(* Moving a whole list behind another one, as a broadcast does.            *)
LEMMA ListSplice ==
  ASSUME NEW S, NEW s \in Seq(S), NEW t \in Seq(S)
  PROVE  /\ s \o t \in Seq(S)
         /\ Range(s \o t) = Range(s) \cup Range(t)
         /\ IsInjective(s) /\ IsInjective(t) /\ Range(s) \cap Range(t) = {}
              => IsInjective(s \o t)
<1>1. /\ s \o t \in Seq(S)
      /\ Len(s \o t) = Len(s) + Len(t)
      /\ \A i \in 1..(Len(s) + Len(t)) :
           (s \o t)[i] = IF i <= Len(s) THEN s[i] ELSE t[i - Len(s)]
  BY SeqConcat
<1>2. /\ DOMAIN s = 1..Len(s) /\ Len(s) \in Nat
      /\ DOMAIN t = 1..Len(t) /\ Len(t) \in Nat
      /\ DOMAIN (s \o t) = 1..(Len(s) + Len(t))
  BY <1>1, SeqDomain
<1>3. Range(s \o t) = Range(s) \cup Range(t)
  <2>1. \A i \in 1..Len(t) : Len(s) + i \in 1..(Len(s) + Len(t)) /\ (s \o t)[Len(s) + i] = t[i]
    BY SMT, <1>1, <1>2
  <2>2. \A i \in 1..Len(s) : i \in 1..(Len(s) + Len(t)) /\ (s \o t)[i] = s[i]
    BY SMT, <1>1, <1>2
  <2>3. \A i \in 1..(Len(s) + Len(t)) : i \in 1..Len(s) \/ i - Len(s) \in 1..Len(t)
    BY SMT, <1>2
  <2>4. \A i \in 1..(Len(s) + Len(t)) : i \in 1..Len(s) \/ (s \o t)[i] = t[i - Len(s)]
    BY SMT, <1>1, <1>2
  <2>5. Range(s \o t) \subseteq Range(s) \cup Range(t)
    BY <2>2, <2>3, <2>4, <1>2 DEF Range
  <2>6. Range(s) \cup Range(t) \subseteq Range(s \o t)
    BY <2>1, <2>2, <1>2 DEF Range
  <2> QED BY <2>5, <2>6
<1>4. ASSUME IsInjective(s), IsInjective(t), Range(s) \cap Range(t) = {}
      PROVE  IsInjective(s \o t)
  <2> SUFFICES ASSUME NEW i \in 1..(Len(s) + Len(t)), NEW j \in 1..(Len(s) + Len(t)),
                      (s \o t)[i] = (s \o t)[j]
               PROVE  i = j
    BY <1>2 DEF IsInjective
  <2>1. CASE i <= Len(s) /\ j <= Len(s)
    BY SMT, <2>1, <1>1, <1>2, <1>4 DEF IsInjective
  <2>2. CASE i > Len(s) /\ j > Len(s)
    <3>1. t[i - Len(s)] = t[j - Len(s)] /\ i - Len(s) \in 1..Len(t) /\ j - Len(s) \in 1..Len(t)
      BY SMT, <2>2, <1>1, <1>2
    <3>2. i - Len(s) = j - Len(s)
      BY <3>1, <1>2, <1>4 DEF IsInjective
    <3> QED BY SMT, <3>2, <1>2
  <2>3. CASE i <= Len(s) /\ j > Len(s)
    <3>1. s[i] = t[j - Len(s)] /\ i \in 1..Len(s) /\ j - Len(s) \in 1..Len(t)
      BY SMT, <2>3, <1>1, <1>2
    <3> QED BY <3>1, <1>2, <1>4 DEF Range
  <2>4. CASE i > Len(s) /\ j <= Len(s)
    <3>1. s[j] = t[i - Len(s)] /\ j \in 1..Len(s) /\ i - Len(s) \in 1..Len(t)
      BY SMT, <2>4, <1>1, <1>2
    <3> QED BY <3>1, <1>2, <1>4 DEF Range
  <2> QED BY SMT, <2>1, <2>2, <2>3, <2>4, <1>2
<1> QED BY <1>1, <1>3, <1>4

(***************************************************************************)
(* The lists of the scheduler: no operation links a routine twice.         *)
(***************************************************************************)

(* NodeLinkedOnce, of any value of the lists.                              *)
LinkedOnce(L) ==
  /\ \A q \in Queue : IsInjective(L[q])
  /\ \A p, q \in Queue, r \in Routine : r \in Range(L[p]) /\ r \in Range(L[q]) => p = q

Unlinked(L, r) == \A q \in Queue : r \notin Range(L[q])

Lists == {L \in [Queue -> Seq(Routine)] : LinkedOnce(L)}

Pushed(L, q, r) == [L EXCEPT ![q] = Append(@, r)]
Popped(L, q) == [L EXCEPT ![q] = Tail(@)]
Removed(L, q, r) == [L EXCEPT ![q] = Unlink(@, r)]
FirstToReady(L, q) == Enqueue(Popped(L, q), Head(L[q]))
FirstMoved(L, M, q) ==
  \E h \in Routine : /\ h = Head(L[q]) /\ h \in Range(L[q])
                     /\ M \in Lists
                     /\ M[Ready] # <<>>
                     /\ Range(M[q]) = Range(L[q]) \ {h}
                     /\ Range(M[Ready]) = Range(L[Ready]) \cup {h}
                     /\ \A p \in WaitQueue : p # q => M[p] = L[p]

(* The function f with one routine's value replaced.                       *)
With(f, r, v) == [f EXCEPT ![r] = v]

(* Linking a routine that is linked nowhere.                               *)
LEMMA PushBack ==
  ASSUME NEW L \in Lists, NEW q \in Queue, NEW r \in Routine, Unlinked(L, r)
  PROVE  /\ Pushed(L, q, r) \in Lists
         /\ Pushed(L, q, r)[q] # <<>>
         /\ Range(Pushed(L, q, r)[q]) = Range(L[q]) \cup {r}
         /\ \A p \in Queue : p # q => Pushed(L, q, r)[p] = L[p]
<1> DEFINE M == Pushed(L, q, r)
<1>1. /\ L \in [Queue -> Seq(Routine)] /\ LinkedOnce(L)
      /\ L[q] \in Seq(Routine) /\ IsInjective(L[q]) /\ r \notin Range(L[q])
  BY DEF Lists, LinkedOnce, Unlinked
<1>2. /\ Append(L[q], r) \in Seq(Routine)
      /\ Append(L[q], r) # <<>>
      /\ Range(Append(L[q], r)) = Range(L[q]) \cup {r}
      /\ IsInjective(Append(L[q], r))
  BY SMT, <1>1, ListPushBack
<1>3. /\ M \in [Queue -> Seq(Routine)]
      /\ M[q] = Append(L[q], r)
      /\ \A p \in Queue : p # q => M[p] = L[p]
  BY <1>1, <1>2 DEF Pushed
<1> HIDE DEF M
<1>4. LinkedOnce(M)
  BY <1>1, <1>2, <1>3 DEF LinkedOnce, Unlinked
<1>5. M \in Lists
  BY <1>3, <1>4 DEF Lists
<1> QED BY <1>2, <1>3, <1>5 DEF M

(* Unlinking the first routine of a list.                                  *)
LEMMA PopFront ==
  ASSUME NEW L \in Lists, NEW q \in Queue, L[q] # <<>>
  PROVE  /\ Popped(L, q) \in Lists
         /\ Head(L[q]) \in Routine
         /\ Head(L[q]) \in Range(L[q])
         /\ Unlinked(Popped(L, q), Head(L[q]))
         /\ Range(Popped(L, q)[q]) = Range(L[q]) \ {Head(L[q])}
         /\ \A p \in Queue : p # q => Popped(L, q)[p] = L[p]
<1> DEFINE M == Popped(L, q)
<1>1. /\ L \in [Queue -> Seq(Routine)] /\ LinkedOnce(L)
      /\ L[q] \in Seq(Routine) /\ IsInjective(L[q])
  BY DEF Lists, LinkedOnce
<1>2. /\ Tail(L[q]) \in Seq(Routine)
      /\ Head(L[q]) \in Routine
      /\ Head(L[q]) \in Range(L[q])
      /\ Range(Tail(L[q])) = Range(L[q]) \ {Head(L[q])}
      /\ IsInjective(Tail(L[q]))
  BY <1>1, ListPopFront
<1>3. /\ M \in [Queue -> Seq(Routine)]
      /\ M[q] = Tail(L[q])
      /\ \A p \in Queue : p # q => M[p] = L[p]
  BY <1>1, <1>2 DEF Popped
<1> HIDE DEF M
<1>4. LinkedOnce(M)
  BY <1>1, <1>2, <1>3 DEF LinkedOnce
<1>5. Unlinked(M, Head(L[q]))
  BY <1>1, <1>2, <1>3 DEF LinkedOnce, Unlinked
<1>6. M \in Lists
  BY <1>3, <1>4 DEF Lists
<1> QED BY <1>2, <1>3, <1>5, <1>6 DEF M

(* Unlinking a routine from the list it is in.                             *)
LEMMA RemoveFrom ==
  ASSUME NEW L \in Lists, NEW q \in Queue, NEW r \in Routine, r \in Range(L[q])
  PROVE  /\ Removed(L, q, r) \in Lists
         /\ Unlinked(Removed(L, q, r), r)
         /\ Range(Removed(L, q, r)[q]) = Range(L[q]) \ {r}
         /\ \A p \in Queue : p # q => Removed(L, q, r)[p] = L[p]
<1> DEFINE M == Removed(L, q, r)
<1>1. /\ L \in [Queue -> Seq(Routine)] /\ LinkedOnce(L)
      /\ L[q] \in Seq(Routine) /\ IsInjective(L[q])
  BY DEF Lists, LinkedOnce
<1>2. /\ Unlink(L[q], r) \in Seq(Routine)
      /\ Range(Unlink(L[q], r)) = Range(L[q]) \ {r}
      /\ IsInjective(Unlink(L[q], r))
  BY <1>1, ListUnlink
<1>3. /\ M \in [Queue -> Seq(Routine)]
      /\ M[q] = Unlink(L[q], r)
      /\ \A p \in Queue : p # q => M[p] = L[p]
  BY <1>1, <1>2 DEF Removed
<1> HIDE DEF M
<1>4. LinkedOnce(M)
  BY <1>1, <1>2, <1>3 DEF LinkedOnce
<1>5. Unlinked(M, r)
  BY <1>1, <1>2, <1>3 DEF LinkedOnce, Unlinked
<1>6. M \in Lists
  BY <1>3, <1>4 DEF Lists
<1> QED BY <1>2, <1>3, <1>5, <1>6 DEF M

(* What SchedInv says of the lists.                                        *)
LEMMA InvLists ==
  ASSUME SchedInv
  PROVE  /\ queue \in Lists
         /\ Ready \in Queue
         /\ WaitQueue = Queue \ {Ready}
         /\ NoQueue \notin WaitQueue
         /\ NoRoutine \notin Routine
<1>1. queue \in Lists
  <2>1. queue \in [Queue -> Seq(Routine)]
    BY DEF SchedInv, SchedTypeOK
  <2>2. LinkedOnce(queue)
    BY DEF SchedInv, NodeLinkedOnce, LinkedOnce
  <2> QED BY <2>1, <2>2 DEF Lists
<1>2. Ready \in Queue /\ WaitQueue = Queue \ {Ready}
  BY QueueAssumption DEF Queue
<1> QED BY <1>1, <1>2, QueueAssumption

------------------------------------------------------------------------------
(* Steps that move no routine.                                             *)
LEMMA QuietStep ==
  ASSUME SchedInv,
         UNCHANGED <<state, queue, heap, condQ, timedOut, ioWaiting, waitingIo,
                     active, current>>,
         wakeup' \in [Routine -> Nat], now' \in Nat, clock' \in Nat,
         pc' \in Location \ {"coroutine", "back"},
         pc \notin {"coroutine", "back"},
         pc # "destroyed",
         pc' = "schedule" => queue[Ready] # <<>>
  PROVE  SchedInv'
<1>1. SchedTypeOK'
  BY DEF SchedInv, SchedTypeOK
<1>2. NodeLinkedOnce'
  BY DEF SchedInv, NodeLinkedOnce
<1>3. StateMatchesLists'
  BY DEF SchedInv, StateMatchesLists
<1>4. NoDanglingPointer' /\ OneTimerEach'
  BY DEF SchedInv, NoDanglingPointer, OneTimerEach
<1>5. ControlInv'
  BY DEF SchedInv, ControlInv
<1>6. TimerInv'
  BY DEF SchedInv, TimerInv
<1> QED BY <1>1, <1>2, <1>3, <1>4, <1>5, <1>6 DEF SchedInv

LEMMA LoopSteps ==
  ASSUME SchedInv,
         RunStart \/ SampleNow \/ TimersDone \/ PollTimeout \/ PollInterrupted \/ Recheck
  PROVE  SchedInv'
<1> USE DEF fieldVars, Location
<1>0. /\ wakeup \in [Routine -> Nat] /\ now \in Nat /\ clock \in Nat
  BY DEF SchedInv, SchedTypeOK
<1>1. CASE RunStart
  BY <1>1, <1>0, QuietStep DEF RunStart
<1>2. CASE SampleNow
  BY <1>2, <1>0, QuietStep DEF SampleNow
<1>3. CASE TimersDone
  <2>1. /\ pc' \in {"schedule", "poll", "recheck"}
        /\ pc' = "schedule" => queue[Ready] # <<>>
    BY <1>3 DEF TimersDone
  <2> QED BY <2>1, <1>3, <1>0, QuietStep DEF TimersDone
<1>4. CASE PollTimeout
  BY <1>4, <1>0, QuietStep DEF PollTimeout
<1>5. CASE PollInterrupted
  BY <1>5, <1>0, QuietStep DEF PollInterrupted
<1>6. CASE Recheck
  <2>1. pc' \in {"idle", "loop"}
    BY <1>6 DEF Recheck
  <2> QED BY <2>1, <1>6, <1>0, QuietStep DEF Recheck
<1> QED BY <1>1, <1>2, <1>3, <1>4, <1>5, <1>6

LEMMA TickStep ==
  ASSUME SchedInv, Tick
  PROVE  SchedInv'
<1>1. /\ UNCHANGED <<state, queue, heap, wakeup, condQ, timedOut, ioWaiting,
                     waitingIo, active, current, pc, now>>
      /\ clock' \in Nat
  BY SMT DEF Tick, fieldVars, SchedInv, SchedTypeOK
<1>2. SchedTypeOK'
  BY <1>1 DEF SchedInv, SchedTypeOK
<1>3. NodeLinkedOnce' /\ StateMatchesLists'
  BY <1>1 DEF SchedInv, NodeLinkedOnce, StateMatchesLists
<1>4. NoDanglingPointer' /\ OneTimerEach' /\ ControlInv' /\ TimerInv'
  BY <1>1 DEF SchedInv, NoDanglingPointer, OneTimerEach, ControlInv, TimerInv
<1> QED BY <1>2, <1>3, <1>4 DEF SchedInv

------------------------------------------------------------------------------
(* Steps that move a routine.                                              *)

(* The new value of the lists carries NodeLinkedOnce over.                 *)
LEMMA NewLists ==
  ASSUME queue' \in Lists
  PROVE  queue' \in [Queue -> Seq(Routine)] /\ NodeLinkedOnce'
  BY DEF Lists, LinkedOnce, NodeLinkedOnce

(* Moving the first routine of a wait queue to the ready queue.            *)
LEMMA PopToReady ==
  ASSUME NEW L \in Lists, NEW q \in WaitQueue, L[q] # <<>>,
         NEW M, M = FirstToReady(L, q)
  PROVE  FirstMoved(L, M, q)
<1> DEFINE N == Popped(L, q)
           h == Head(L[q])
<1>1. q \in Queue /\ Ready \in Queue /\ q # Ready /\ \A p \in WaitQueue : p \in Queue /\ p # Ready
  BY QueueAssumption DEF Queue
<1>2. /\ N \in Lists /\ h \in Routine /\ h \in Range(L[q]) /\ Unlinked(N, h)
      /\ Range(N[q]) = Range(L[q]) \ {h}
      /\ \A p \in Queue : p # q => N[p] = L[p]
  BY <1>1, PopFront
<1>3. M = Pushed(N, Ready, h)
  BY DEF FirstToReady, Enqueue, Pushed, Popped
<1> HIDE DEF N, h
<1>4. /\ M \in Lists
      /\ M[Ready] # <<>>
      /\ Range(M[Ready]) = Range(N[Ready]) \cup {h}
      /\ \A p \in Queue : p # Ready => M[p] = N[p]
  <2>1. N \in Lists /\ Ready \in Queue /\ h \in Routine /\ Unlinked(N, h)
    BY <1>1, <1>2
  <2>2. /\ Pushed(N, Ready, h) \in Lists
        /\ Pushed(N, Ready, h)[Ready] # <<>>
        /\ Range(Pushed(N, Ready, h)[Ready]) = Range(N[Ready]) \cup {h}
        /\ \A p \in Queue : p # Ready => Pushed(N, Ready, h)[p] = N[p]
    BY ONLY <2>1, PushBack
  <2> QED BY ONLY Zenon, <1>3, <2>2
<1>5. N[Ready] = L[Ready] /\ M[q] = N[q] /\ \A p \in WaitQueue : p # q => M[p] = L[p]
  BY <1>1, <1>2, <1>4
<1>6. h = Head(L[q])
  BY DEF h
<1> QED BY <1>2, <1>4, <1>5, <1>6 DEF FirstMoved

(* A waiting routine r is unlinked and made ready, its queue pointer       *)
(* cleared; this is every kind of wakeup.                                  *)
LEMMA WakeStep ==
  ASSUME SchedInv, NEW r \in Routine, state[r] = "WAITING",
         queue' \in Lists, queue'[Ready] # <<>>,
         Range(queue'[Ready]) = Range(queue[Ready]) \cup {r},
         \A q \in WaitQueue : Range(queue'[q]) = Range(queue[q]) \ {r},
         state' = With(state, r, "READY"), condQ' = With(condQ, r, NoQueue),
         heap' \in [Routine -> Nat], \A s \in Routine : heap'[s] <= heap[s],
         timedOut' \in [Routine -> BOOLEAN], ioWaiting' \in [Routine -> BOOLEAN],
         waitingIo' \in Int,
         pc # "destroyed",
         UNCHANGED <<wakeup, active, current, pc, now, clock>>
  PROVE  SchedInv'
<1>0. /\ Ready \in Queue /\ \A p \in Queue : p = Ready \/ p \in WaitQueue
      /\ \A p \in WaitQueue : p \in Queue
      /\ NoQueue \notin WaitQueue
  BY QueueAssumption DEF Queue
<1>1. queue' \in [Queue -> Seq(Routine)] /\ NodeLinkedOnce'
  BY NewLists
<1>2. SchedTypeOK'
  BY <1>1 DEF SchedInv, SchedTypeOK, State, With
<1>3. r # current \/ pc # "coroutine"
  BY DEF SchedInv, ControlInv
<1>4. StateMatchesLists'
  <2> SUFFICES ASSUME NEW s \in Routine
               PROVE  /\ s \in Range(queue'[Ready]) => state'[s] = "READY"
                      /\ \A q \in WaitQueue : s \in Range(queue'[q]) => state'[s] = "WAITING"
                      /\ state'[s] = "READY" => \/ s \in Range(queue'[Ready])
                                                \/ pc = "coroutine" /\ s = current
                      /\ pc = "coroutine" /\ s = current => \A q \in Queue : s \notin Range(queue'[q])
    BY DEF StateMatchesLists
  <2>1. state'[s] = IF s = r THEN "READY" ELSE state[s]
    BY DEF SchedInv, SchedTypeOK, With
  <2> QED BY <1>0, <1>3, <2>1 DEF SchedInv, StateMatchesLists
<1>5. NoDanglingPointer'
  <2> SUFFICES ASSUME NEW s \in Routine, state'[s] \in {"FREE", "DEAD"}
               PROVE  /\ heap'[s] = 0
                      /\ \A q \in Queue : s \notin Range(queue'[q])
                      /\ s = current => state'[s] = "DEAD" /\ pc = "back"
    BY DEF NoDanglingPointer
  <2>1. s # r /\ state[s] \in {"FREE", "DEAD"} /\ state'[s] = state[s]
    BY DEF SchedInv, SchedTypeOK, With
  <2>2. /\ heap[s] = 0
        /\ \A q \in Queue : s \notin Range(queue[q])
        /\ s = current => state[s] = "DEAD" /\ pc = "back"
    BY <2>1 DEF SchedInv, NoDanglingPointer
  <2>3. heap'[s] \in Nat /\ heap'[s] <= heap[s]
    BY SMT
  <2>4. heap'[s] = 0
    BY SMT, <2>2, <2>3
  <2>5. \A q \in Queue : s \notin Range(queue'[q])
    BY <1>0, <2>1, <2>2
  <2> QED BY <2>1, <2>2, <2>4, <2>5
<1>6. OneTimerEach'
  <2> SUFFICES ASSUME NEW s \in Routine PROVE heap'[s] <= 1
    BY DEF OneTimerEach
  <2>1. heap[s] \in Nat /\ heap[s] <= 1
    BY DEF SchedInv, SchedTypeOK, OneTimerEach
  <2>2. heap'[s] \in Nat /\ heap'[s] <= heap[s]
    BY SMT
  <2> QED BY SMT, <2>1, <2>2
<1>7. ControlInv'
  BY <1>2, <1>3 DEF SchedInv, SchedTypeOK, ControlInv, With
<1>8. TimerInv'
  <2> SUFFICES ASSUME NEW s \in Routine
               PROVE  /\ condQ'[s] # NoQueue => s \in Range(queue'[condQ'[s]])
                      /\ heap'[s] > 0 /\ state'[s] = "WAITING" /\ condQ'[s] = NoQueue
                           => \A q \in Queue : s \notin Range(queue'[q])
    BY DEF TimerInv
  <2>1. CASE s = r
    <3>1. condQ'[s] = NoQueue /\ state'[s] = "READY"
      BY <2>1 DEF SchedInv, SchedTypeOK, With
    <3> QED BY <3>1
  <2>2. CASE s # r
    <3>1. condQ'[s] = condQ[s] /\ state'[s] = state[s] /\ condQ[s] \in WaitQueue \cup {NoQueue}
      BY <2>2 DEF SchedInv, SchedTypeOK, With
    <3>2. /\ condQ[s] # NoQueue => s \in Range(queue[condQ[s]])
          /\ heap[s] > 0 /\ state[s] = "WAITING" /\ condQ[s] = NoQueue
               => \A q \in Queue : s \notin Range(queue[q])
      BY DEF SchedInv, TimerInv
    <3>3. heap[s] \in Nat /\ heap'[s] \in Nat /\ heap'[s] <= heap[s]
      BY DEF SchedInv, SchedTypeOK
    <3>4. heap'[s] > 0 => heap[s] > 0
      BY SMT, <3>3
    <3> QED BY <1>0, <2>2, <3>1, <3>2, <3>4
  <2> QED BY <2>1, <2>2
<1> QED BY <1>1, <1>2, <1>4, <1>5, <1>6, <1>7, <1>8 DEF SchedInv

(* SchedInv before co_scheduler_destroy, one routine at a time.            *)
RoutineOK(s) ==
  /\ s \in Range(queue[Ready]) => state[s] = "READY"
  /\ \A q \in WaitQueue : s \in Range(queue[q]) => state[s] = "WAITING"
  /\ state[s] = "READY" => s \in Range(queue[Ready]) \/ (pc = "coroutine" /\ s = current)
  /\ pc = "coroutine" /\ s = current => Unlinked(queue, s)
  /\ state[s] \in {"FREE", "DEAD"} =>
       /\ heap[s] = 0
       /\ Unlinked(queue, s)
       /\ s = current => state[s] = "DEAD" /\ pc = "back"
  /\ heap[s] <= 1
  /\ condQ[s] # NoQueue => s \in Range(queue[condQ[s]])
  /\ heap[s] > 0 /\ state[s] = "WAITING" /\ condQ[s] = NoQueue => Unlinked(queue, s)

LEMMA SplitInv ==
  ASSUME SchedInv, pc # "destroyed"
  PROVE  /\ SchedTypeOK /\ ControlInv
         /\ queue \in Lists
         /\ \A s \in Routine : RoutineOK(s)
<1>1. queue \in Lists
  BY InvLists
<1>2. SchedTypeOK /\ ControlInv
  BY DEF SchedInv
<1>3. ASSUME NEW s \in Routine PROVE RoutineOK(s)
  BY
     DEF SchedInv, StateMatchesLists, NoDanglingPointer, OneTimerEach, TimerInv, RoutineOK, Unlinked
<1> QED BY <1>1, <1>2, <1>3

LEMMA JoinInv ==
  ASSUME SchedTypeOK', ControlInv', queue' \in Lists,
         \A s \in Routine : RoutineOK(s)'
  PROVE  SchedInv'
<1>1. NodeLinkedOnce'
  BY NewLists
<1>2. StateMatchesLists'
  BY DEF StateMatchesLists, RoutineOK, Unlinked
<1>3. NoDanglingPointer'
  BY DEF NoDanglingPointer, RoutineOK, Unlinked
<1>4. OneTimerEach'
  BY DEF OneTimerEach, RoutineOK
<1>5. TimerInv'
  BY DEF TimerInv, RoutineOK, Unlinked
<1> QED BY <1>1, <1>2, <1>3, <1>4, <1>5 DEF SchedInv

(* A routine that a step does not touch.                                   *)
LEMMA SchedStays ==
  ASSUME SchedInv, UNCHANGED schedVars
  PROVE  SchedInv'
<1>1. UNCHANGED <<queue, state, heap, active, current, pc, now, clock>> /\ UNCHANGED fieldVars
  BY DEF schedVars
<1>2. SchedTypeOK' /\ ControlInv' /\ NodeLinkedOnce' /\ StateMatchesLists'
  BY <1>1
  DEF SchedInv, SchedTypeOK, ControlInv, NodeLinkedOnce, StateMatchesLists, fieldVars
<1>3. NoDanglingPointer' /\ OneTimerEach' /\ TimerInv'
  BY <1>1 DEF SchedInv, NoDanglingPointer, OneTimerEach, TimerInv, fieldVars
<1> QED BY <1>2, <1>3 DEF SchedInv

LEMMA Untouched ==
  ASSUME NEW s \in Routine, RoutineOK(s), SchedTypeOK,
         state'[s] = state[s], condQ'[s] = condQ[s], heap'[s] = heap[s],
         \A q \in Queue : s \in Range(queue'[q]) <=> s \in Range(queue[q]),
         pc = "coroutine" /\ s = current => state[s] # "READY",
         s = current' => s = current /\ pc' = pc
  PROVE  RoutineOK(s)'
<1>1. Ready \in Queue /\ \A p \in WaitQueue : p \in Queue
  BY DEF Queue
<1>2. condQ[s] \in WaitQueue \cup {NoQueue}
  BY DEF SchedTypeOK
<1>3. Unlinked(queue, s) => Unlinked(queue', s)
  BY DEF Unlinked
<1> QED BY <1>1, <1>2, <1>3 DEF RoutineOK

------------------------------------------------------------------------------
(* The timer loop of co_scheduler_run.                                     *)

LEMMA TimerStaleStep ==
  ASSUME SchedInv, NEW r \in Routine, TimerStale(r)
  PROVE  SchedInv'
<1>1. /\ SchedTypeOK /\ ControlInv /\ queue \in Lists /\ pc = "timers"
      /\ \A s \in Routine : RoutineOK(s)
  BY SplitInv DEF TimerStale, Expired
<1>2. /\ heap' = [heap EXCEPT ![r] = heap[r] - 1] /\ heap[r] > 0 /\ heap[r] \in Nat
      /\ state[r] # "WAITING"
      /\ UNCHANGED <<state, queue, fieldVars, active, current, pc, now, clock>>
  BY <1>1 DEF TimerStale, Expired, HeapPop, SchedTypeOK
<1>3. SchedTypeOK' /\ ControlInv'
  BY SMT, <1>1, <1>2 DEF SchedTypeOK, ControlInv, fieldVars
<1>4. ASSUME NEW s \in Routine PROVE RoutineOK(s)'
  <2>1. RoutineOK(s)
    BY <1>1
  <2>2. CASE s = r
    <3>1. heap'[s] = heap[s] - 1 /\ heap[s] \in Nat
      BY <1>1, <1>2, <2>2 DEF SchedTypeOK
    <3>2. state[s] \notin {"FREE", "DEAD"}
      BY SMT, <1>2, <2>1, <2>2 DEF RoutineOK
    <3>3. heap'[s] <= 1
      BY SMT, <2>1, <3>1 DEF RoutineOK
    <3> QED BY <1>2, <2>1, <2>2, <3>2, <3>3 DEF RoutineOK, fieldVars
  <2>3. CASE s # r
    <3>1. heap'[s] = heap[s]
      BY <1>1, <1>2, <2>3 DEF SchedTypeOK
    <3> QED BY <1>2, <2>1, <3>1 DEF RoutineOK, fieldVars
  <2> QED BY <2>2, <2>3
<1> QED BY <1>1, <1>2, <1>3, <1>4, JoinInv

(* The part that the three wakeups of the timer loop share.                *)
LEMMA HeapPopFacts ==
  ASSUME SchedInv, NEW r \in Routine, Expired(r), HeapPop(r)
  PROVE  heap' \in [Routine -> Nat] /\ \A s \in Routine : heap'[s] <= heap[s]
<1>1. heap \in [Routine -> Nat] /\ heap[r] > 0 /\ heap' = [heap EXCEPT ![r] = heap[r] - 1]
  BY DEF SchedInv, SchedTypeOK, Expired, HeapPop
<1>2. heap[r] \in Nat /\ heap[r] - 1 \in Nat
  BY SMT, <1>1
<1>3. heap' \in [Routine -> Nat]
  BY <1>1, <1>2
<1>4. ASSUME NEW s \in Routine PROVE heap'[s] <= heap[s]
  <2>1. CASE s = r BY SMT, <1>1, <1>2, <2>1
  <2>2. CASE s # r BY SMT, <1>1, <2>2
  <2> QED BY <2>1, <2>2
<1> QED BY <1>3, <1>4

LEMMA TimerCondStep ==
  ASSUME SchedInv, NEW r \in Routine, TimerCond(r)
  PROVE  SchedInv'
<1> DEFINE N == Removed(queue, condQ[r], r)
<1>1. /\ SchedTypeOK /\ queue \in Lists /\ pc = "timers"
      /\ RoutineOK(r)
  BY SplitInv DEF TimerCond, Expired
<1>2. condQ[r] \in WaitQueue /\ r \in Range(queue[condQ[r]])
  BY <1>1 DEF TimerCond, SchedTypeOK, RoutineOK
<1>3. Ready \in Queue /\ condQ[r] \in Queue /\ \A p \in WaitQueue : p \in Queue /\ p # Ready
  BY <1>2, QueueAssumption DEF Queue
<1>4. /\ N \in Lists /\ Unlinked(N, r)
      /\ Range(N[condQ[r]]) = Range(queue[condQ[r]]) \ {r}
      /\ \A p \in Queue : p # condQ[r] => N[p] = queue[p]
  <2>1. queue \in Lists /\ condQ[r] \in Queue /\ r \in Routine /\ r \in Range(queue[condQ[r]])
    BY <1>1, <1>2, <1>3
  <2> QED BY ONLY <2>1, RemoveFrom
<1>5. queue' = Pushed(N, Ready, r)
  BY DEF TimerCond, Enqueue, Pushed, Removed
<1> HIDE DEF N
<1>6. /\ queue' \in Lists
      /\ queue'[Ready] # <<>>
      /\ Range(queue'[Ready]) = Range(N[Ready]) \cup {r}
      /\ \A p \in Queue : p # Ready => queue'[p] = N[p]
  BY SMT, <1>3, <1>4, <1>5, PushBack
<1>7. Range(queue'[Ready]) = Range(queue[Ready]) \cup {r}
  BY <1>2, <1>3, <1>4, <1>6
<1>8. \A q \in WaitQueue : Range(queue'[q]) = Range(queue[q]) \ {r}
  <2> SUFFICES ASSUME NEW q \in WaitQueue PROVE Range(queue'[q]) = Range(queue[q]) \ {r}
    BY SMT
  <2>1. CASE q = condQ[r]
    BY <1>3, <1>4, <1>6, <2>1
  <2>2. CASE q # condQ[r]
    <3>1. queue'[q] = queue[q]
      BY <1>3, <1>4, <1>6, <2>2
    <3>2. r \notin Range(queue[q])
      BY <1>1, <1>2, <1>3, <2>2 DEF Lists, LinkedOnce
    <3> QED BY <3>1, <3>2
  <2> QED BY <2>1, <2>2
<1>9. timedOut' \in [Routine -> BOOLEAN] /\ ioWaiting' \in [Routine -> BOOLEAN] /\ waitingIo' \in Int
  BY <1>1 DEF TimerCond, SchedTypeOK
<1>10. heap' \in [Routine -> Nat] /\ \A s \in Routine : heap'[s] <= heap[s]
  BY HeapPopFacts DEF TimerCond
<1>11. /\ state[r] = "WAITING" /\ pc # "destroyed"
       /\ state' = With(state, r, "READY") /\ condQ' = With(condQ, r, NoQueue)
       /\ UNCHANGED <<wakeup, active, current, pc, now, clock>>
  BY <1>1 DEF TimerCond, With
<1> QED BY <1>6, <1>7, <1>8, <1>9, <1>10, <1>11, WakeStep

(* The timeout of a sleep or of a socket operation: r is in no list.       *)
LEMMA TimerReady ==
  ASSUME SchedInv, NEW r \in Routine, Expired(r), HeapPop(r),
         state[r] = "WAITING", condQ[r] = NoQueue,
         queue' = Enqueue(queue, r),
         state' = With(state, r, "READY"),
         timedOut' \in [Routine -> BOOLEAN], ioWaiting' \in [Routine -> BOOLEAN],
         waitingIo' \in Int,
         UNCHANGED <<wakeup, condQ, active, current, pc, now, clock>>
  PROVE  SchedInv'
<1>1. /\ SchedTypeOK /\ queue \in Lists /\ pc = "timers"
      /\ RoutineOK(r)
  BY SplitInv DEF Expired
<1>2. Ready \in Queue /\ \A p \in WaitQueue : p \in Queue /\ p # Ready
  BY QueueAssumption DEF Queue
<1>3. Unlinked(queue, r)
  BY <1>1 DEF RoutineOK, Expired
<1>4. queue' = Pushed(queue, Ready, r)
  BY DEF Enqueue, Pushed
<1>5. /\ queue' \in Lists
      /\ queue'[Ready] # <<>>
      /\ Range(queue'[Ready]) = Range(queue[Ready]) \cup {r}
      /\ \A p \in Queue : p # Ready => queue'[p] = queue[p]
  BY ONLY <1>1, <1>2, <1>3, <1>4, PushBack
<1>6. \A q \in WaitQueue : Range(queue'[q]) = Range(queue[q]) \ {r}
  BY <1>2, <1>3, <1>5 DEF Unlinked
<1>7. condQ' = With(condQ, r, NoQueue)
  BY <1>1 DEF SchedTypeOK, With
<1>8. heap' \in [Routine -> Nat] /\ \A s \in Routine : heap'[s] <= heap[s]
  BY HeapPopFacts
<1>9. pc # "destroyed" /\ UNCHANGED <<wakeup, active, current, pc, now, clock>>
  BY <1>1
<1> QED BY <1>5, <1>6, <1>7, <1>8, <1>9, WakeStep

LEMMA TimerIoStep ==
  ASSUME SchedInv, NEW r \in Routine, TimerIo(r)
  PROVE  SchedInv'
<1>1. timedOut' \in [Routine -> BOOLEAN] /\ ioWaiting' \in [Routine -> BOOLEAN] /\ waitingIo' \in Int
  BY SMT DEF SchedInv, SchedTypeOK, TimerIo
<1>2. /\ Expired(r) /\ HeapPop(r) /\ state[r] = "WAITING" /\ condQ[r] = NoQueue
      /\ queue' = Enqueue(queue, r) /\ state' = With(state, r, "READY")
      /\ UNCHANGED <<wakeup, condQ, active, current, pc, now, clock>>
  BY DEF TimerIo, With
<1> QED BY <1>1, <1>2, TimerReady

LEMMA TimerSleepStep ==
  ASSUME SchedInv, NEW r \in Routine, TimerSleep(r)
  PROVE  SchedInv'
<1>1. timedOut' \in [Routine -> BOOLEAN] /\ ioWaiting' \in [Routine -> BOOLEAN] /\ waitingIo' \in Int
  BY DEF SchedInv, SchedTypeOK, TimerSleep, fieldVars
<1>2. /\ Expired(r) /\ HeapPop(r) /\ state[r] = "WAITING" /\ condQ[r] = NoQueue
      /\ queue' = Enqueue(queue, r) /\ state' = With(state, r, "READY")
      /\ UNCHANGED <<wakeup, condQ, active, current, pc, now, clock>>
  BY DEF TimerSleep, fieldVars, With
<1> QED BY <1>1, <1>2, TimerReady

------------------------------------------------------------------------------
(* co_scheduler_schedule and co_scheduler_destroy.                         *)

LEMMA ScheduleStep ==
  ASSUME SchedInv, Schedule \/ ScheduleError
  PROVE  SchedInv'
<1> DEFINE h == Head(queue[Ready])
<1>1. /\ SchedTypeOK /\ ControlInv /\ queue \in Lists /\ pc = "schedule"
      /\ \A s \in Routine : RoutineOK(s)
  BY SplitInv DEF Schedule, ScheduleError
<1>2. /\ queue' = Popped(queue, Ready)
      /\ state' = With(state, h, "RUNNING")
      /\ UNCHANGED <<heap, fieldVars, active, now, clock>>
      /\ \/ current' = h /\ pc' = "coroutine"
         \/ current' = NoRoutine /\ pc' = "idle"
  BY DEF Schedule, ScheduleError, Popped, With
<1>3. Ready \in Queue /\ queue[Ready] # <<>> /\ \A p \in WaitQueue : p \in Queue /\ p # Ready
  BY <1>1, QueueAssumption DEF Queue, ControlInv
<1>4. /\ queue' \in Lists /\ h \in Routine /\ h \in Range(queue[Ready]) /\ Unlinked(queue', h)
      /\ Range(queue'[Ready]) = Range(queue[Ready]) \ {h}
      /\ \A p \in Queue : p # Ready => queue'[p] = queue[p]
  <2>1. queue \in Lists /\ Ready \in Queue /\ queue[Ready] # <<>>
    BY <1>1, <1>3
  <2>2. /\ Popped(queue, Ready) \in Lists /\ h \in Routine /\ h \in Range(queue[Ready])
        /\ Unlinked(Popped(queue, Ready), h)
        /\ Range(Popped(queue, Ready)[Ready]) = Range(queue[Ready]) \ {h}
        /\ \A p \in Queue : p # Ready => Popped(queue, Ready)[p] = queue[p]
    BY ONLY Zenon, <2>1, PopFront
  <2> QED BY ONLY Zenon, <1>2, <2>2
<1> HIDE DEF h
<1>5. \A s \in Routine : state'[s] = IF s = h THEN "RUNNING" ELSE state[s]
  BY <1>1, <1>2 DEF With, SchedTypeOK
<1>6. queue' \in [Queue -> Seq(Routine)]
  BY <1>4 DEF Lists
<1>7. state' \in [Routine -> State]
  BY <1>1, <1>2 DEF With, SchedTypeOK, State
<1>8. SchedTypeOK'
  BY <1>1, <1>2, <1>4, <1>6, <1>7 DEF SchedTypeOK, fieldVars, Location
<1>9. ControlInv'
  BY <1>1, <1>2, <1>4, <1>5, QueueAssumption DEF ControlInv
<1>10. ASSUME NEW s \in Routine PROVE RoutineOK(s)'
  <2>1. RoutineOK(s) /\ heap'[s] = heap[s] /\ condQ'[s] = condQ[s]
        /\ condQ[s] \in WaitQueue \cup {NoQueue}
    BY <1>1, <1>2 DEF fieldVars, SchedTypeOK
  <2>2. CASE s = h
    <3>1. state[s] = "READY" /\ state'[s] = "RUNNING" /\ Unlinked(queue', s)
      BY <1>4, <1>5, <2>1, <2>2 DEF RoutineOK
    <3>2. condQ[s] = NoQueue
      BY <2>1, <3>1 DEF RoutineOK
    <3> QED BY <1>3, <2>1, <3>1, <3>2 DEF RoutineOK, Unlinked
  <2>3. CASE s # h
    <3>1. state'[s] = state[s]
      BY <1>5, <2>3
    <3>2. \A q \in Queue : s \in Range(queue'[q]) <=> s \in Range(queue[q])
      BY <1>3, <1>4, <2>3
    <3>3. s # current' /\ pc # "coroutine"
      BY <1>1, <1>2, <2>3, QueueAssumption
    <3> QED BY <1>1, <2>1, <3>1, <3>2, <3>3, Untouched
  <2> QED BY <2>2, <2>3
<1> QED BY <1>4, <1>8, <1>9, <1>10, JoinInv

LEMMA SwitchBackStep ==
  ASSUME SchedInv, SwitchBack
  PROVE  SchedInv'
<1>1. /\ SchedTypeOK /\ ControlInv /\ queue \in Lists /\ pc = "back"
      /\ \A s \in Routine : RoutineOK(s)
  BY SplitInv DEF SwitchBack
<1>2. /\ current \in Routine /\ current' = NoRoutine /\ pc' = "loop"
      /\ UNCHANGED <<queue, heap, fieldVars, active, now, clock>>
  BY <1>1 DEF SwitchBack, ControlInv, SchedTypeOK
<1>3. \A s \in Routine :
        state'[s] = IF s = current /\ state[s] = "DEAD" THEN "FREE" ELSE state[s]
  BY <1>1 DEF SwitchBack, SchedTypeOK
<1>4. state' \in [Routine -> State]
  BY <1>1 DEF SwitchBack, SchedTypeOK, State
<1>5. SchedTypeOK'
  BY <1>1, <1>2, <1>4 DEF SchedTypeOK, fieldVars, Location
<1>6. ControlInv'
  BY <1>1, <1>2, <1>3 DEF ControlInv
<1>7. ASSUME NEW s \in Routine PROVE RoutineOK(s)'
  <2>1. RoutineOK(s) /\ heap'[s] = heap[s] /\ condQ'[s] = condQ[s] /\ queue' = queue
    BY <1>1, <1>2 DEF fieldVars
  <2>2. s # current'
    BY <1>2, QueueAssumption
  <2>3. CASE s = current /\ state[s] = "DEAD"
    <3>1. state'[s] = "FREE"
      BY <1>3, <2>3
    <3> QED BY <1>1, <1>2, <2>1, <2>2, <2>3, <3>1 DEF RoutineOK, Unlinked, Queue
  <2>4. CASE ~(s = current /\ state[s] = "DEAD")
    <3>1. state'[s] = state[s]
      BY <1>3, <2>4
    <3> QED BY <1>1, <1>2, <2>1, <2>2, <3>1 DEF RoutineOK
  <2> QED BY <2>3, <2>4
<1> QED BY <1>1, <1>2, <1>5, <1>6, <1>7, JoinInv

LEMMA DestroyStep ==
  ASSUME SchedInv, Destroy
  PROVE  SchedInv'
<1>1. /\ SchedTypeOK /\ ControlInv /\ NodeLinkedOnce /\ pc = "idle" /\ pc' = "destroyed"
      /\ UNCHANGED <<fieldVars, active, current, now, clock>>
  BY DEF SchedInv, Destroy
<1>2. /\ state' \in [Routine -> State] /\ \A s \in Routine : state'[s] \in {"FREE", state[s]}
      /\ heap' \in [Routine -> Nat] /\ \A s \in Routine : heap'[s] = 0
  BY <1>1 DEF Destroy, SchedTypeOK, State
<1>3. /\ queue' \in [Queue -> Seq(Routine)]
      /\ queue'[Ready] = <<>>
      /\ \A p \in Queue : p # Ready => queue'[p] = queue[p]
  BY SMT, <1>1 DEF Destroy, SchedTypeOK, Queue
<1>4. SchedTypeOK'
  BY <1>1, <1>2, <1>3 DEF SchedTypeOK, fieldVars, Location
<1>5. ControlInv'
  BY <1>1, <1>2 DEF ControlInv
<1>6. Range(<<>>) = {} /\ IsInjective(<<>>)
  BY SMT DEF Range, IsInjective
<1>7. NodeLinkedOnce'
  BY <1>1, <1>3, <1>6 DEF NodeLinkedOnce
<1>8. OneTimerEach'
  BY SMT, <1>2 DEF OneTimerEach
<1> QED
  BY <1>1, <1>4, <1>5, <1>7, <1>8
  DEF SchedInv, StateMatchesLists, NoDanglingPointer, TimerInv

------------------------------------------------------------------------------
(* co_spawn and the calls of a coroutine.                                  *)

LEMMA SpawnStep ==
  ASSUME SchedInv, NEW r \in Routine, Spawn(r)
  PROVE  SchedInv'
<1>1. /\ SchedTypeOK /\ ControlInv /\ queue \in Lists /\ pc \in {"idle", "coroutine"}
      /\ \A s \in Routine : RoutineOK(s)
  BY SplitInv DEF Spawn
<1>2. /\ state[r] = "FREE" /\ r # current
      /\ queue' = Pushed(queue, Ready, r)
      /\ state' = With(state, r, "READY") /\ condQ' = With(condQ, r, NoQueue)
      /\ UNCHANGED <<heap, waitingIo, current, pc, now, clock>>
  BY <1>1 DEF Spawn, Enqueue, Pushed, With, RoutineOK
<1>3. Ready \in Queue /\ Unlinked(queue, r) /\ \A p \in WaitQueue : p \in Queue /\ p # Ready
  BY <1>1, <1>2, QueueAssumption DEF Queue, RoutineOK
<1>4. /\ queue' \in Lists
      /\ Range(queue'[Ready]) = Range(queue[Ready]) \cup {r}
      /\ \A p \in Queue : p # Ready => queue'[p] = queue[p]
  <2>1. queue \in Lists /\ Ready \in Queue /\ r \in Routine /\ Unlinked(queue, r)
    BY <1>1, <1>3
  <2>2. /\ Pushed(queue, Ready, r) \in Lists
        /\ Range(Pushed(queue, Ready, r)[Ready]) = Range(queue[Ready]) \cup {r}
        /\ \A p \in Queue : p # Ready => Pushed(queue, Ready, r)[p] = queue[p]
    BY ONLY <2>1, PushBack
  <2> QED BY ONLY Zenon, <1>2, <2>2
<1>5. \A s \in Routine : /\ state'[s] = IF s = r THEN "READY" ELSE state[s]
                         /\ condQ'[s] = IF s = r THEN NoQueue ELSE condQ[s]
  BY <1>1, <1>2 DEF With, SchedTypeOK
<1>6. queue' \in [Queue -> Seq(Routine)]
  BY <1>4 DEF Lists
<1>7. SchedTypeOK'
  BY SMT, <1>1, <1>6 DEF SchedTypeOK, Spawn, State
<1>8. ControlInv'
  BY <1>1, <1>2, <1>5 DEF ControlInv, SchedTypeOK
<1>9. ASSUME NEW s \in Routine PROVE RoutineOK(s)'
  <2>1. RoutineOK(s) /\ heap'[s] = heap[s]
    BY <1>1, <1>2
  <2>2. CASE s = r
    <3>1. /\ state'[s] = "READY" /\ condQ'[s] = NoQueue /\ s \in Range(queue'[Ready])
          /\ \A q \in WaitQueue : s \notin Range(queue'[q])
      BY <1>3, <1>4, <1>5, <2>2 DEF Unlinked
    <3> QED BY <1>2, <2>1, <2>2, <3>1 DEF RoutineOK
  <2>3. CASE s # r
    <3>1. state'[s] = state[s] /\ condQ'[s] = condQ[s] /\ condQ[s] \in WaitQueue \cup {NoQueue}
      BY <1>1, <1>5, <2>3 DEF SchedTypeOK
    <3>2. \A q \in Queue : s \in Range(queue'[q]) <=> s \in Range(queue[q])
      BY <1>3, <1>4, <2>3
    <3>3. Unlinked(queue, s) => Unlinked(queue', s)
      BY <3>2 DEF Unlinked
    <3> QED BY <1>2, <1>3, <2>1, <3>1, <3>2, <3>3 DEF RoutineOK
  <2> QED BY <2>2, <2>3
<1> QED BY <1>4, <1>7, <1>8, <1>9, JoinInv

LEMMA YieldStep ==
  ASSUME SchedInv, Yield
  PROVE  SchedInv'
<1>1. /\ SchedTypeOK /\ ControlInv /\ queue \in Lists /\ pc = "coroutine"
      /\ \A s \in Routine : RoutineOK(s)
  BY SplitInv DEF Yield
<1>2. /\ queue' = Pushed(queue, Ready, current) /\ current \in Routine
      /\ state' = With(state, current, "READY") /\ pc' = "back"
      /\ UNCHANGED <<heap, fieldVars, active, current, now, clock>>
  BY <1>1 DEF Yield, Enqueue, Pushed, With, SwapToMain, ControlInv, SchedTypeOK
<1>3. Ready \in Queue /\ Unlinked(queue, current) /\ \A p \in WaitQueue : p \in Queue /\ p # Ready
  BY <1>1, <1>2, QueueAssumption DEF Queue, RoutineOK
<1>4. /\ queue' \in Lists
      /\ Range(queue'[Ready]) = Range(queue[Ready]) \cup {current}
      /\ \A p \in Queue : p # Ready => queue'[p] = queue[p]
  <2>1. queue \in Lists /\ Ready \in Queue /\ current \in Routine /\ Unlinked(queue, current)
    BY <1>1, <1>2, <1>3
  <2>2. /\ Pushed(queue, Ready, current) \in Lists
        /\ Range(Pushed(queue, Ready, current)[Ready]) = Range(queue[Ready]) \cup {current}
        /\ \A p \in Queue : p # Ready => Pushed(queue, Ready, current)[p] = queue[p]
    BY ONLY <2>1, PushBack
  <2> QED BY ONLY Zenon, <1>2, <2>2
<1>5. \A s \in Routine : state'[s] = IF s = current THEN "READY" ELSE state[s]
  BY <1>1, <1>2 DEF With, SchedTypeOK
<1>6. queue' \in [Queue -> Seq(Routine)]
  BY <1>4 DEF Lists
<1>7. SchedTypeOK'
  BY <1>1, <1>2, <1>6 DEF SchedTypeOK, With, fieldVars, State, Location
<1>8. ControlInv'
  BY <1>1, <1>2, <1>5 DEF ControlInv
<1>9. ASSUME NEW s \in Routine PROVE RoutineOK(s)'
  <2>1. RoutineOK(s) /\ heap'[s] = heap[s] /\ condQ'[s] = condQ[s]
        /\ condQ[s] \in WaitQueue \cup {NoQueue}
    BY <1>1, <1>2 DEF fieldVars, SchedTypeOK
  <2>2. CASE s = current
    <3>1. /\ state'[s] = "READY" /\ s \in Range(queue'[Ready])
          /\ \A q \in WaitQueue : s \notin Range(queue'[q])
      BY <1>3, <1>4, <1>5, <2>2 DEF Unlinked
    <3>2. condQ[s] = NoQueue
      BY <1>3, <2>1, <2>2 DEF RoutineOK, Unlinked
    <3> QED BY <1>2, <2>1, <3>1, <3>2 DEF RoutineOK
  <2>3. CASE s # current
    <3>1. state'[s] = state[s] /\ s # current'
      BY <1>2, <1>5, <2>3
    <3>2. \A q \in Queue : s \in Range(queue'[q]) <=> s \in Range(queue[q])
      BY <1>3, <1>4, <2>3
    <3> QED BY <1>1, <2>1, <2>3, <3>1, <3>2, Untouched
  <2> QED BY <2>2, <2>3
<1> QED BY <1>4, <1>7, <1>8, <1>9, JoinInv

(* The current coroutine's state changes and nothing is linked: co_sleep,  *)
(* co_routine_finish and the socket calls.                                 *)
LEMMA LeaveStep ==
  ASSUME SchedInv, pc = "coroutine", pc' = "back",
         NEW st \in State \ {"READY", "FREE"}, NEW k \in {0, 1},
         st = "DEAD" => k = 0,
         state' = With(state, current, st), heap' = With(heap, current, k),
         wakeup' \in [Routine -> Nat], active' \in Int,
         timedOut' \in [Routine -> BOOLEAN], ioWaiting' \in [Routine -> BOOLEAN], waitingIo' \in Int,
         UNCHANGED <<queue, condQ, current, now, clock>>
  PROVE  SchedInv'
<1>1. /\ SchedTypeOK /\ ControlInv /\ queue \in Lists
      /\ \A s \in Routine : RoutineOK(s)
  BY SplitInv
<1>2. current \in Routine /\ Unlinked(queue, current)
  BY <1>1 DEF RoutineOK, ControlInv, SchedTypeOK
<1>3. \A s \in Routine : /\ state'[s] = IF s = current THEN st ELSE state[s]
                         /\ heap'[s] = IF s = current THEN k ELSE heap[s]
  BY <1>1 DEF With, SchedTypeOK
<1>4. state' \in [Routine -> State] /\ heap' \in [Routine -> Nat]
  <2>1. st \in State /\ k \in Nat
    BY SMT
  <2>2. state' \in [Routine -> State]
    BY ONLY Zenon, <1>1, <2>1, state' = With(state, current, st) DEF SchedTypeOK, With
  <2>3. heap' \in [Routine -> Nat]
    BY ONLY Zenon, <1>1, <2>1, heap' = With(heap, current, k) DEF SchedTypeOK, With
  <2> QED BY <2>2, <2>3
<1>5. SchedTypeOK'
  BY <1>1, <1>4 DEF SchedTypeOK, Location
<1>6. ControlInv'
  BY <1>1, <1>2, <1>3 DEF ControlInv
<1>7. ASSUME NEW s \in Routine PROVE RoutineOK(s)'
  <2>1. RoutineOK(s) /\ condQ[s] \in WaitQueue \cup {NoQueue}
    BY <1>1 DEF SchedTypeOK
  <2>2. CASE s = current
    <3>1. state'[s] = st /\ heap'[s] = k /\ k <= 1 /\ Unlinked(queue, s)
      BY SMT, <1>2, <1>3, <2>2
    <3>2. condQ[s] = NoQueue
      BY <2>1, <3>1 DEF RoutineOK, Unlinked, Queue
    <3> QED BY <3>1, <3>2, <2>1 DEF RoutineOK, Unlinked, Queue
  <2>3. CASE s # current
    <3>1. state'[s] = state[s] /\ heap'[s] = heap[s]
      BY <1>3, <2>3
    <3> QED BY <2>1, <2>3, <3>1 DEF RoutineOK
  <2> QED BY <2>2, <2>3
<1> QED BY <1>1, <1>5, <1>6, <1>7, JoinInv

LEMMA SleepStep ==
  ASSUME SchedInv, NEW d \in SleepTimes, Sleep(d), heap[current] = 0
  PROVE  SchedInv'
<1>1. SchedTypeOK /\ current \in Routine /\ d \in Nat
  BY TimeAssumption DEF SchedInv, ControlInv, SchedTypeOK, Sleep
<1>2. wakeup' \in [Routine -> Nat]
  BY SMT, <1>1 DEF Sleep, SchedTypeOK
<1>3. /\ state' = With(state, current, "WAITING") /\ heap' = With(heap, current, 1)
      /\ pc = "coroutine" /\ pc' = "back"
      /\ UNCHANGED <<queue, condQ, timedOut, ioWaiting, waitingIo, current, now, clock>>
      /\ active' \in Int
  BY SMT, <1>1 DEF Sleep, With, SwapToMain, SchedTypeOK
<1>4. "WAITING" \in State \ {"READY", "FREE"} /\ 1 \in {0, 1} /\ "WAITING" # "DEAD"
  BY DEF State
<1>5. timedOut' \in [Routine -> BOOLEAN] /\ ioWaiting' \in [Routine -> BOOLEAN] /\ waitingIo' \in Int
  BY <1>1, <1>3 DEF SchedTypeOK
<1> QED BY <1>2, <1>3, <1>4, <1>5, LeaveStep

LEMMA FinishStep ==
  ASSUME SchedInv, Finish, heap[current] = 0
  PROVE  SchedInv'
<1>1. SchedTypeOK /\ current \in Routine
  BY DEF SchedInv, ControlInv, SchedTypeOK, Finish
<1>2. wakeup' \in [Routine -> Nat] /\ active' \in Int
  BY SMT, <1>1 DEF Finish, SchedTypeOK, fieldVars
<1>3. /\ state' = With(state, current, "DEAD") /\ heap' = With(heap, current, 0)
      /\ pc = "coroutine" /\ pc' = "back"
      /\ UNCHANGED <<queue, condQ, timedOut, ioWaiting, waitingIo, current, now, clock>>
  BY <1>1 DEF Finish, With, SwapToMain, SchedTypeOK, fieldVars
<1>4. "DEAD" \in State \ {"READY", "FREE"} /\ 0 \in {0, 1}
  BY DEF State
<1>5. timedOut' \in [Routine -> BOOLEAN] /\ ioWaiting' \in [Routine -> BOOLEAN] /\ waitingIo' \in Int
  BY <1>1, <1>3 DEF SchedTypeOK
<1> QED BY <1>2, <1>3, <1>4, <1>5, LeaveStep

(* A timed call that could not grow the heap: the caller keeps running,    *)
(* marked READY.                                                           *)
LEMMA NoMemStep ==
  ASSUME SchedInv, pc = "coroutine",
         state' = With(state, current, "READY"), wakeup' \in [Routine -> Nat],
         timedOut' \in [Routine -> BOOLEAN],
         UNCHANGED <<queue, heap, condQ, ioWaiting, waitingIo, active, current, pc, now, clock>>
  PROVE  SchedInv'
<1>1. /\ SchedTypeOK /\ ControlInv /\ queue \in Lists
      /\ \A s \in Routine : RoutineOK(s)
  BY SplitInv
<1>2. current \in Routine
  BY <1>1 DEF ControlInv, SchedTypeOK
<1>3. \A s \in Routine : state'[s] = IF s = current THEN "READY" ELSE state[s]
  BY <1>1 DEF With, SchedTypeOK
<1>4. state' \in [Routine -> State]
  BY <1>1 DEF SchedTypeOK, With, State
<1>5. SchedTypeOK'
  BY <1>1, <1>4 DEF SchedTypeOK, Location
<1>6. ControlInv'
  BY <1>1, <1>2, <1>3 DEF ControlInv
<1>7. ASSUME NEW s \in Routine PROVE RoutineOK(s)'
  <2>1. RoutineOK(s)
    BY <1>1
  <2>2. CASE s = current
    BY <1>3, <2>1, <2>2 DEF RoutineOK, Unlinked, Queue
  <2>3. CASE s # current
    BY <1>3, <2>1, <2>3 DEF RoutineOK
  <2> QED BY <2>2, <2>3
<1> QED BY <1>1, <1>5, <1>6, <1>7, JoinInv

LEMMA SleepNoMemStep ==
  ASSUME SchedInv, NEW d \in SleepTimes, SleepNoMem(d)
  PROVE  SchedInv'
<1>1. SchedTypeOK /\ current \in Routine /\ d \in Nat
  BY TimeAssumption DEF SchedInv, ControlInv, SchedTypeOK, SleepNoMem
<1>2. wakeup' \in [Routine -> Nat] /\ timedOut' \in [Routine -> BOOLEAN]
  BY SMT, <1>1 DEF SleepNoMem, SchedTypeOK
<1>3. /\ state' = With(state, current, "READY") /\ pc = "coroutine"
      /\ UNCHANGED <<queue, heap, condQ, ioWaiting, waitingIo, active, current, pc, now, clock>>
  BY <1>1 DEF SleepNoMem, With
<1> QED BY <1>2, <1>3, NoMemStep

------------------------------------------------------------------------------
(* What the synchronisation objects do to the scheduler's state.           *)

(* The routines of W, all of them waiting, are made ready by client code.  *)
LEMMA WakeAllStep ==
  ASSUME SchedInv, SchedTypeOK', pc \in {"idle", "coroutine"}, queue' \in Lists,
         NEW W \in SUBSET Routine, \A s \in W : state[s] = "WAITING",
         \A s \in Routine : s \in Range(queue'[Ready]) <=> s \in Range(queue[Ready]) \/ s \in W,
         \A s \in Routine, q \in WaitQueue :
           s \in Range(queue'[q]) <=> s \in Range(queue[q]) /\ s \notin W,
         \A s \in Routine : /\ state'[s] = IF s \in W THEN "READY" ELSE state[s]
                            /\ condQ'[s] = IF s \in W THEN NoQueue ELSE condQ[s]
                            /\ heap'[s] = heap[s],
         UNCHANGED <<current, pc>>
  PROVE  SchedInv'
<1>1. /\ SchedTypeOK /\ ControlInv /\ queue \in Lists
      /\ \A s \in Routine : RoutineOK(s)
  BY SplitInv
<1>2. /\ Ready \in Queue /\ \A p \in WaitQueue : p \in Queue
      /\ \A p \in Queue : p = Ready \/ p \in WaitQueue
  BY DEF Queue
<1>3. ControlInv'
  BY <1>1 DEF ControlInv, SchedTypeOK
<1>4. ASSUME NEW s \in Routine PROVE RoutineOK(s)'
  <2>1. RoutineOK(s) /\ condQ[s] \in WaitQueue \cup {NoQueue}
    BY <1>1 DEF SchedTypeOK
  <2>2. ~(pc = "coroutine" /\ s = current) \/ s \notin W
    BY <1>1 DEF ControlInv
  <2>3. CASE s \in W
    <3>1. /\ state'[s] = "READY" /\ condQ'[s] = NoQueue /\ heap'[s] = heap[s]
          /\ s \in Range(queue'[Ready])
          /\ \A q \in WaitQueue : s \notin Range(queue'[q])
      BY <2>3
    <3> QED BY <2>1, <2>2, <2>3, <3>1 DEF RoutineOK
  <2>4. CASE s \notin W
    <3>1. /\ state'[s] = state[s] /\ condQ'[s] = condQ[s] /\ heap'[s] = heap[s]
          /\ s \in Range(queue'[Ready]) <=> s \in Range(queue[Ready])
          /\ \A q \in WaitQueue : s \in Range(queue'[q]) <=> s \in Range(queue[q])
      BY <2>4
    <3>2. Unlinked(queue, s) => Unlinked(queue', s)
      BY <1>2, <3>1 DEF Unlinked
    <3> QED BY <2>1, <3>1, <3>2 DEF RoutineOK
  <2> QED BY <2>3, <2>4
<1> QED BY <1>3, <1>4, JoinInv

(* The current coroutine goes to sleep in the wait queue c, and on the way *)
(* wakes the routines of W (the waiter to which it hands its mutex).       *)
LEMMA WaitStep ==
  ASSUME SchedInv, SchedTypeOK', pc = "coroutine", pc' = "back", UNCHANGED current,
         queue' \in Lists, NEW c \in WaitQueue,
         NEW W \in SUBSET Routine, \A s \in W : state[s] = "WAITING",
         \A s \in Routine : s \in Range(queue'[Ready]) <=> s \in Range(queue[Ready]) \/ s \in W,
         \A s \in Routine, q \in WaitQueue :
           s \in Range(queue'[q]) <=> \/ s \in Range(queue[q]) /\ s \notin W
                                      \/ s = current /\ q = c,
         \A s \in Routine : s # current =>
           /\ state'[s] = IF s \in W THEN "READY" ELSE state[s]
           /\ condQ'[s] = IF s \in W THEN NoQueue ELSE condQ[s]
           /\ heap'[s] = heap[s],
         state'[current] = "WAITING",
         \/ condQ'[current] = NoQueue /\ heap'[current] = 0
         \/ condQ'[current] = c /\ heap'[current] = 1
  PROVE  SchedInv'
<1>1. /\ SchedTypeOK /\ ControlInv /\ queue \in Lists
      /\ \A s \in Routine : RoutineOK(s)
  BY SplitInv
<1>2. /\ Ready \in Queue /\ \A p \in WaitQueue : p \in Queue
      /\ \A p \in Queue : p = Ready \/ p \in WaitQueue
  BY DEF Queue
<1>3. current \in Routine /\ current \notin W /\ Unlinked(queue, current)
  BY <1>1 DEF ControlInv, SchedTypeOK, RoutineOK
<1>4. ControlInv'
  BY SMT, <1>1, <1>3 DEF ControlInv, SchedTypeOK
<1>5. ASSUME NEW s \in Routine PROVE RoutineOK(s)'
  <2>1. RoutineOK(s) /\ condQ[s] \in WaitQueue \cup {NoQueue}
    BY <1>1 DEF SchedTypeOK
  <2>2. CASE s = current
    <3>1. s \notin Range(queue'[Ready]) /\ \A q \in WaitQueue : s \in Range(queue'[q]) <=> q = c
      BY <1>2, <1>3, <2>2 DEF Unlinked
    <3>2. state'[s] = "WAITING" /\ pc' # "coroutine"
      BY <2>2
    <3>3. CASE condQ'[s] = NoQueue /\ heap'[s] = 0
      BY SMT, <3>1, <3>2, <3>3 DEF RoutineOK
    <3>4. CASE condQ'[s] = c /\ heap'[s] = 1
      BY SMT, <3>1, <3>2, <3>4, QueueAssumption DEF RoutineOK
    <3> QED BY <2>2, <3>3, <3>4
  <2>3. CASE s \in W
    <3>1. /\ s # current /\ state'[s] = "READY" /\ condQ'[s] = NoQueue /\ heap'[s] = heap[s]
          /\ s \in Range(queue'[Ready])
          /\ \A q \in WaitQueue : s \notin Range(queue'[q])
      BY <1>3, <2>3
    <3> QED BY <2>1, <3>1 DEF RoutineOK
  <2>4. CASE s \notin W /\ s # current
    <3>1. /\ state'[s] = state[s] /\ condQ'[s] = condQ[s] /\ heap'[s] = heap[s]
          /\ s \in Range(queue'[Ready]) <=> s \in Range(queue[Ready])
          /\ \A q \in WaitQueue : s \in Range(queue'[q]) <=> s \in Range(queue[q])
      BY <2>4
    <3>2. Unlinked(queue, s) => Unlinked(queue', s)
      BY <1>2, <3>1 DEF Unlinked
    <3> QED BY <2>1, <2>4, <3>1, <3>2 DEF RoutineOK
  <2> QED BY <2>2, <2>3, <2>4
<1> QED BY <1>4, <1>5, JoinInv

(* A new scheduler.                                                        *)
LEMMA SchedStart ==
  ASSUME SchedInit
  PROVE  SchedInv
<1> USE DEF SchedInit
<1>1. Range(<<>>) = {} /\ IsInjective(<<>>) /\ <<>> \in Seq(Routine)
  BY SMT DEF Range, IsInjective
<1>2. \A q \in Queue : queue[q] = <<>>
  OBVIOUS
<1>3. queue \in [Queue -> Seq(Routine)]
  BY <1>1
<1>4. SchedTypeOK
  BY SMT, <1>3 DEF SchedTypeOK, State, Location
<1>5. \A q \in Queue : IsInjective(queue[q]) /\ \A r : r \notin Range(queue[q])
  BY <1>1, <1>2
<1>6. NodeLinkedOnce
  BY <1>5 DEF NodeLinkedOnce
<1>7. StateMatchesLists
  BY <1>5, QueueAssumption DEF StateMatchesLists, Queue
<1>8. NoDanglingPointer /\ TimerInv
  BY <1>5, QueueAssumption DEF NoDanglingPointer, TimerInv
<1>9. OneTimerEach /\ ControlInv
  BY SMT DEF OneTimerEach, ControlInv
<1> QED BY <1>4, <1>6, <1>7, <1>8, <1>9 DEF SchedInv

(***************************************************************************)
(* What the multiplexers do to the scheduler's state.                      *)
(***************************************************************************)

(* An order of the members of a set is a list of them.                     *)
LEMMA BijectionIsList ==
  ASSUME NEW n \in Nat, NEW W, NEW o \in Bijection(1..n, W)
  PROVE  o \in Seq(W) /\ Range(o) = W /\ IsInjective(o)
<1>1. o \in [1..n -> W] /\ IsInjective(o) /\ \A t \in W : \E i \in 1..n : o[i] = t
  BY DEF Bijection, Injection, Surjection
<1>2. DOMAIN o = 1..n /\ \A i \in 1..n : o[i] \in W
  BY <1>1
<1>3. o \in Seq(W)
  BY ONLY <1>1, n \in Nat
<1>4. Range(o) = W
  BY <1>1, <1>2 DEF Range
<1> QED BY <1>1, <1>3, <1>4

(* co_iomux_poll makes the routines of W, which are in no list, ready in   *)
(* the order o.                                                            *)
LEMMA PollWakes ==
  ASSUME SchedInv, pc = "poll", pc' = "recheck",
         NEW W \in SUBSET Routine,
         \A s \in W : state[s] = "WAITING" /\ condQ[s] = NoQueue /\ Unlinked(queue, s),
         NEW o \in Seq(W), Range(o) = W, IsInjective(o),
         queue' = [queue EXCEPT ![Ready] = @ \o o],
         state' = [r \in Routine |-> IF r \in W THEN "READY" ELSE state[r]],
         ioWaiting' \in [Routine -> BOOLEAN], waitingIo' \in Int,
         UNCHANGED <<heap, wakeup, condQ, timedOut, active, current, now, clock>>
  PROVE  SchedInv' /\ \A q \in WaitQueue : queue'[q] = queue[q]
<1>1. /\ SchedTypeOK /\ ControlInv /\ queue \in Lists
      /\ \A s \in Routine : RoutineOK(s)
  BY SplitInv
<1>2. /\ Ready \in Queue /\ \A p \in WaitQueue : p \in Queue /\ p # Ready
      /\ \A p \in Queue : p = Ready \/ p \in WaitQueue
  BY QueueAssumption DEF Queue
<1>3. o \in Seq(W) /\ Range(o) = W /\ IsInjective(o)
  OBVIOUS
<1>4. o \in Seq(Routine)
  BY ONLY <1>3, W \in SUBSET Routine
<1>5. /\ queue[Ready] \in Seq(Routine) /\ IsInjective(queue[Ready])
      /\ Range(queue[Ready]) \cap Range(o) = {}
  BY <1>1, <1>2, <1>3 DEF Lists, LinkedOnce, Unlinked
<1> DEFINE m == queue[Ready] \o o
<1>6. m \in Seq(Routine) /\ Range(m) = Range(queue[Ready]) \cup W /\ IsInjective(m)
  BY ONLY <1>3, <1>4, <1>5, ListSplice
<1> HIDE DEF m
<1>7. /\ queue' \in [Queue -> Seq(Routine)] /\ queue'[Ready] = m
      /\ \A q \in Queue : q # Ready => queue'[q] = queue[q]
  BY <1>1, <1>2, <1>6 DEF SchedTypeOK, m
<1>8. \A q \in WaitQueue : queue'[q] = queue[q] /\ \A s \in W : s \notin Range(queue[q])
  BY <1>2, <1>7 DEF Unlinked
<1>9. LinkedOnce(queue')
  <2>1. \A q \in Queue : IsInjective(queue'[q])
    BY <1>1, <1>6, <1>7 DEF Lists, LinkedOnce
  <2>2. ASSUME NEW p \in Queue, NEW q \in Queue, NEW r \in Routine,
               r \in Range(queue'[p]), r \in Range(queue'[q])
        PROVE  p = q
    <3>1. CASE r \in W
      BY <1>2, <1>8, <2>2, <3>1
    <3>2. CASE r \notin W
      <4>1. r \in Range(queue[p]) /\ r \in Range(queue[q])
        BY <1>6, <1>7, <2>2, <3>2
      <4> QED BY <1>1, <4>1 DEF Lists, LinkedOnce
    <3> QED BY <3>1, <3>2
  <2> QED BY <2>1, <2>2 DEF LinkedOnce
<1>10. queue' \in Lists
  BY <1>7, <1>9 DEF Lists
<1>11. state' \in [Routine -> State] /\ \A s \in Routine : state'[s] = IF s \in W THEN "READY" ELSE state[s]
  BY <1>1 DEF SchedTypeOK, State
<1>12. SchedTypeOK'
  BY <1>1, <1>7, <1>11 DEF SchedTypeOK, Location
<1>13. ControlInv'
  BY <1>1, <1>11 DEF ControlInv
<1>14. ASSUME NEW s \in Routine PROVE RoutineOK(s)'
  <2>1. RoutineOK(s) /\ condQ[s] \in WaitQueue \cup {NoQueue}
    BY <1>1 DEF SchedTypeOK
  <2>2. current = NoRoutine /\ s # current
    BY <1>1, QueueAssumption DEF ControlInv
  <2>3. CASE s \in W
    <3>1. /\ state'[s] = "READY" /\ condQ'[s] = NoQueue /\ heap'[s] = heap[s]
          /\ s \in Range(queue'[Ready])
          /\ \A q \in WaitQueue : s \notin Range(queue'[q])
      BY <1>6, <1>7, <1>8, <1>11, <2>3
    <3> QED BY <2>1, <2>2, <3>1 DEF RoutineOK
  <2>4. CASE s \notin W
    <3>1. /\ state'[s] = state[s] /\ condQ'[s] = condQ[s] /\ heap'[s] = heap[s]
          /\ s \in Range(queue'[Ready]) <=> s \in Range(queue[Ready])
      BY <1>6, <1>7, <1>11, <2>4
    <3>2. Unlinked(queue, s) => Unlinked(queue', s)
      BY <1>2, <1>8, <3>1 DEF Unlinked
    <3> QED BY <1>8, <2>1, <2>2, <3>1, <3>2 DEF RoutineOK
  <2> QED BY <2>3, <2>4
<1> QED BY <1>8, <1>10, <1>12, <1>13, <1>14, JoinInv

(***************************************************************************)
(* ControlOK needs nothing of the timers: it is preserved by every step of *)
(* the scheduler also when a timer has outlived its call.                  *)
(***************************************************************************)

LEMMA ControlQuiet ==
  ASSUME ControlOK, UNCHANGED <<state, queue, heap, fieldVars, active, current>>,
         now' \in Nat, clock' \in Nat, pc' \in Location,
         pc' = "coroutine" => pc = "coroutine",
         pc' = "schedule" => queue[Ready] # <<>>
  PROVE  ControlOK'
  BY DEF ControlOK, SchedTypeOK, fieldVars

LEMMA ControlTimer ==
  ASSUME ControlOK, NEW r \in Routine, Expired(r), HeapPop(r),
         UNCHANGED <<wakeup, condQ, active, current, pc, now, clock>>,
         queue' \in [Queue -> Seq(Routine)], state' \in [Routine -> State],
         timedOut' \in [Routine -> BOOLEAN], ioWaiting' \in [Routine -> BOOLEAN],
         waitingIo' \in Int
  PROVE  ControlOK'
<1>1. heap \in [Routine -> Nat] /\ heap[r] > 0 /\ heap' = [heap EXCEPT ![r] = heap[r] - 1]
      /\ pc = "timers"
  BY DEF ControlOK, SchedTypeOK, Expired, HeapPop
<1>2. heap[r] - 1 \in Nat
  BY ONLY <1>1, r \in Routine
<1>3. heap' \in [Routine -> Nat]
  BY <1>1, <1>2
<1> QED BY <1>1, <1>3 DEF ControlOK, SchedTypeOK

LEMMA ControlEnqueue ==
  ASSUME ControlOK, NEW r \in Routine
  PROVE  Enqueue(queue, r) \in [Queue -> Seq(Routine)]
<1>1. queue \in [Queue -> Seq(Routine)] /\ Ready \in Queue
  BY DEF ControlOK, SchedTypeOK, Queue
<1>2. Append(queue[Ready], r) \in Seq(Routine)
  BY <1>1, SeqAppend
<1> QED BY <1>1, <1>2 DEF Enqueue

LEMMA ControlLoop ==
  ASSUME ControlOK, SchedulerStep \/ Fault
  PROVE  ControlOK'
<1> USE DEF fieldVars, Location
<1>0. /\ SchedTypeOK /\ now \in Nat /\ clock \in Nat /\ pc \in Location
      /\ state \in [Routine -> State] /\ queue \in [Queue -> Seq(Routine)]
      /\ timedOut \in [Routine -> BOOLEAN] /\ ioWaiting \in [Routine -> BOOLEAN]
      /\ waitingIo \in Int /\ waitingIo - 1 \in Int /\ Ready \in Queue
  BY SMT DEF ControlOK, SchedTypeOK, Queue
<1>1. CASE SampleNow
  BY <1>0, <1>1, ControlQuiet DEF SampleNow
<1>2. CASE TimersDone
  <2>1. /\ pc' \in {"schedule", "poll", "recheck"}
        /\ pc' = "schedule" => queue[Ready] # <<>>
    BY <1>2 DEF TimersDone
  <2> QED BY <1>0, <1>2, <2>1, ControlQuiet DEF TimersDone
<1>3. CASE PollTimeout
  BY <1>0, <1>3, ControlQuiet DEF PollTimeout
<1>4. CASE PollInterrupted
  BY <1>0, <1>4, ControlQuiet DEF PollInterrupted
<1>5. CASE Recheck
  <2>1. pc' \in {"idle", "loop"}
    BY <1>5 DEF Recheck
  <2> QED BY <1>0, <1>5, <2>1, ControlQuiet DEF Recheck
<1>6. ASSUME NEW r \in Routine, TimerStale(r) PROVE ControlOK'
  BY <1>0, <1>6, ControlTimer DEF TimerStale
<1>7. ASSUME NEW r \in Routine, TimerCond(r) PROVE ControlOK'
  BY <1>7 DEF TimerCond, ControlOK
<1>8. ASSUME NEW r \in Routine, TimerIo(r) PROVE ControlOK'
  <2>1. /\ Expired(r) /\ HeapPop(r) /\ queue' = Enqueue(queue, r)
        /\ UNCHANGED <<wakeup, condQ, active, current, pc, now, clock>>
        /\ waitingIo' \in Int
    BY <1>0, <1>8 DEF TimerIo
  <2>2. /\ state' \in [Routine -> State] /\ timedOut' \in [Routine -> BOOLEAN]
        /\ ioWaiting' \in [Routine -> BOOLEAN]
    BY <1>0, <1>8 DEF TimerIo, State
  <2>3. queue' \in [Queue -> Seq(Routine)]
    BY <2>1, ControlEnqueue
  <2> QED BY <2>1, <2>2, <2>3, ControlTimer
<1>9. ASSUME NEW r \in Routine, TimerSleep(r) PROVE ControlOK'
  <2>1. /\ Expired(r) /\ HeapPop(r) /\ queue' = Enqueue(queue, r)
        /\ UNCHANGED <<wakeup, condQ, active, current, pc, now, clock>>
        /\ UNCHANGED <<timedOut, ioWaiting, waitingIo>>
    BY <1>9 DEF TimerSleep
  <2>2. state' \in [Routine -> State]
    BY <1>0, <1>9 DEF TimerSleep, State
  <2>3. queue' \in [Queue -> Seq(Routine)]
    BY <2>1, ControlEnqueue
  <2> QED BY <1>0, <2>1, <2>2, <2>3, ControlTimer
<1>10. CASE Schedule \/ ScheduleError
  <2>1. queue[Ready] \in Seq(Routine) /\ queue[Ready] # <<>>
    BY <1>0, <1>10 DEF ControlOK, Schedule, ScheduleError
  <2>2. Head(queue[Ready]) \in Routine /\ Tail(queue[Ready]) \in Seq(Routine)
    BY <2>1, SeqTail
  <2>3. /\ queue' = [queue EXCEPT ![Ready] = Tail(queue[Ready])]
        /\ state' = [state EXCEPT ![Head(queue[Ready])] = "RUNNING"]
        /\ \/ current' = Head(queue[Ready]) /\ pc' = "coroutine"
           \/ current' = NoRoutine /\ pc' = "idle"
        /\ UNCHANGED <<heap, fieldVars, active, now, clock>>
    BY <1>10 DEF Schedule, ScheduleError
  <2>4. queue' \in [Queue -> Seq(Routine)] /\ state' \in [Routine -> State]
    BY <1>0, <2>2, <2>3 DEF State
  <2>5. pc' \in Location /\ current' \in Routine \cup {NoRoutine} /\ (pc' = "coroutine" => current' \in Routine)
        /\ pc' # "schedule"
    BY <2>2, <2>3
  <2> QED BY <1>0, <2>3, <2>4, <2>5 DEF ControlOK, SchedTypeOK
<1>11. CASE SwitchBack
  <2>1. state' \in [Routine -> State]
    <3>1. CASE state[current] = "DEAD"
      BY <1>0, <1>11, <3>1 DEF SwitchBack, State
    <3>2. CASE state[current] # "DEAD"
      BY <1>0, <1>11, <3>2 DEF SwitchBack
    <3> QED BY <3>1, <3>2
  <2>2. /\ current' = NoRoutine /\ pc' = "loop"
        /\ UNCHANGED <<queue, heap, fieldVars, active, now, clock>>
    BY <1>11 DEF SwitchBack
  <2> QED BY <1>0, <2>1, <2>2 DEF ControlOK, SchedTypeOK
<1> QED
  BY <1>1, <1>2, <1>3, <1>4, <1>5, <1>6, <1>7, <1>8, <1>9, <1>10, <1>11
  DEF SchedulerStep, Fault

LEMMA ControlCalls ==
  ASSUME ControlOK,
         RunStart \/ Destroy \/ Tick \/ (\E r \in Routine : Spawn(r)) \/ Suspend \/ Gone
  PROVE  ControlOK'
<1> USE DEF fieldVars, Location
<1>0. /\ SchedTypeOK /\ now \in Nat /\ clock \in Nat /\ clock + 1 \in Nat /\ pc \in Location
      /\ state \in [Routine -> State] /\ queue \in [Queue -> Seq(Routine)]
      /\ active \in Int /\ active + 1 \in Int /\ active - 1 \in Int
      /\ pc = "coroutine" => current \in Routine
  BY SMT DEF ControlOK, SchedTypeOK
<1>1. CASE RunStart
  BY <1>0, <1>1, ControlQuiet DEF RunStart
<1>2. CASE Destroy
  <2>1. state' \in [Routine -> State] /\ heap' \in [Routine -> Nat]
    <3>1. \A r \in Routine : state[r] \in State /\ "FREE" \in State
      BY <1>0 DEF State
    <3> QED BY SMT, <1>2, <3>1 DEF Destroy
  <2>2. queue' \in [Queue -> Seq(Routine)]
    <3>1. <<>> \in Seq(Routine)
      BY SMT
    <3> QED BY <1>0, <1>2, <3>1 DEF Destroy
  <2>3. pc' = "destroyed" /\ UNCHANGED <<fieldVars, active, current, now, clock>>
    BY <1>2 DEF Destroy
  <2> QED BY <1>0, <2>1, <2>2, <2>3 DEF ControlOK, SchedTypeOK
<1>3. CASE Tick
  <2>1. clock' = clock + 1 /\ UNCHANGED <<state, queue, heap, fieldVars, active, current, pc, now>>
    BY <1>3 DEF Tick
  <2> QED BY <1>0, <2>1 DEF ControlOK, SchedTypeOK
<1>4. ASSUME NEW r \in Routine, Spawn(r) PROVE ControlOK'
  <2>1. queue' \in [Queue -> Seq(Routine)]
    BY <1>4, ControlEnqueue DEF Spawn
  <2>2. state' \in [Routine -> State]
    BY <1>0, <1>4 DEF Spawn, State
  <2>3. /\ wakeup' = [wakeup EXCEPT ![r] = 0] /\ condQ' = [condQ EXCEPT ![r] = NoQueue]
        /\ timedOut' = [timedOut EXCEPT ![r] = FALSE] /\ ioWaiting' = [ioWaiting EXCEPT ![r] = FALSE]
        /\ active' = active + 1
        /\ UNCHANGED <<heap, waitingIo, current, pc, now, clock>> /\ pc \in {"idle", "coroutine"}
    BY <1>4 DEF Spawn
  <2>4. /\ wakeup' \in [Routine -> Nat] /\ condQ' \in [Routine -> WaitQueue \cup {NoQueue}]
        /\ timedOut' \in [Routine -> BOOLEAN] /\ ioWaiting' \in [Routine -> BOOLEAN]
    <3>1. 0 \in Nat
      BY SMT
    <3> QED BY <1>0, <2>3, <3>1 DEF SchedTypeOK
  <2>5. \A s \in Routine : condQ'[s] = NoQueue
    BY <1>0, <2>3 DEF ControlOK, SchedTypeOK
  <2> QED BY <1>0, <2>1, <2>2, <2>3, <2>4, <2>5 DEF ControlOK, SchedTypeOK
<1>5. CASE Yield
  <2>1. queue' \in [Queue -> Seq(Routine)]
    BY <1>0, <1>5, ControlEnqueue DEF Yield
  <2>2. state' \in [Routine -> State]
    BY <1>0, <1>5 DEF Yield, State
  <2>3. pc' = "back" /\ UNCHANGED <<heap, fieldVars, active, current, now, clock>>
    BY <1>5 DEF Yield, SwapToMain
  <2> QED BY <1>0, <2>1, <2>2, <2>3 DEF ControlOK, SchedTypeOK
<1>6. ASSUME NEW d \in SleepTimes, Sleep(d) PROVE ControlOK'
  <2>1. d \in Nat /\ clock + d \in Nat
    BY SMT, <1>0, TimeAssumption
  <2>2. /\ heap \in [Routine -> Nat] /\ current \in Routine
        /\ heap' = [heap EXCEPT ![current] = heap[current] + 1]
        /\ wakeup' = [wakeup EXCEPT ![current] = clock + d]
        /\ state' = [state EXCEPT ![current] = "WAITING"]
    BY <1>0, <1>6 DEF Sleep, SchedTypeOK
  <2>3. heap[current] + 1 \in Nat
    BY ONLY <2>2
  <2>4. heap' \in [Routine -> Nat] /\ wakeup' \in [Routine -> Nat] /\ state' \in [Routine -> State]
    BY <1>0, <2>1, <2>2, <2>3 DEF SchedTypeOK, State
  <2>5. pc' = "back" /\ UNCHANGED <<queue, condQ, timedOut, ioWaiting, waitingIo, active, current, now, clock>>
    BY <1>6 DEF Sleep, SwapToMain
  <2> QED BY <1>0, <2>4, <2>5 DEF ControlOK, SchedTypeOK
<1>7. CASE Finish
  <2>1. state' \in [Routine -> State]
    BY <1>0, <1>7 DEF Finish, State
  <2>2. /\ pc' = "back" /\ active' = active - 1
        /\ UNCHANGED <<queue, heap, fieldVars, current, now, clock>>
    BY <1>7 DEF Finish, SwapToMain
  <2> QED BY <1>0, <2>1, <2>2 DEF ControlOK, SchedTypeOK
<1>8. CASE Gone
  BY <1>0, <1>8, ControlQuiet DEF Gone, schedVars
<1> QED BY <1>1, <1>2, <1>3, <1>4, <1>5, <1>6, <1>7, <1>8 DEF Suspend

(* Only a coroutine that suspends itself begins to wait.                   *)
LEMMA NoNewWaiter ==
  ASSUME ControlOK, NEW r \in Routine, state'[r] = "WAITING",
         SchedulerStep \/ Fault \/ RunStart \/ Destroy \/ Tick
           \/ (\E s \in Routine : Spawn(s)) \/ Suspend \/ Gone
  PROVE  state[r] = "WAITING" \/ (Suspend /\ r = current)
<1>0. state \in [Routine -> State]
  BY DEF ControlOK, SchedTypeOK
<1>1. CASE SampleNow \/ TimersDone \/ PollTimeout \/ PollInterrupted \/ Recheck \/ RunStart \/ Tick \/ Gone
  BY <1>1
  DEF SampleNow, TimersDone, PollTimeout, PollInterrupted, Recheck, RunStart, Tick, Gone, schedVars
<1>2. ASSUME NEW s \in Routine, TimerStale(s) \/ TimerCond(s) \/ TimerIo(s) \/ TimerSleep(s)
      PROVE  state[r] = "WAITING"
  <2>1. state' = state \/ state' = [state EXCEPT ![s] = "READY"]
    BY <1>2 DEF TimerStale, TimerCond, TimerIo, TimerSleep
  <2> QED BY <1>0, <2>1
<1>3. CASE Schedule \/ ScheduleError
  <2>1. state' = [state EXCEPT ![Head(queue[Ready])] = "RUNNING"]
    BY <1>3 DEF Schedule, ScheduleError
  <2> QED BY <1>0, <2>1
<1>4. CASE SwitchBack
  <2>1. state' = state \/ state' = [state EXCEPT ![current] = "FREE"]
    BY <1>4 DEF SwitchBack
  <2> QED BY <1>0, <2>1
<1>5. CASE Destroy
  BY <1>0, <1>5 DEF Destroy
<1>6. ASSUME NEW s \in Routine, Spawn(s) PROVE state[r] = "WAITING"
  BY <1>0, <1>6 DEF Spawn
<1>7. CASE Suspend
  <2>1. \E v : state' = [state EXCEPT ![current] = v]
    BY <1>7 DEF Suspend, Yield, Sleep, Finish
  <2> QED BY <1>0, <1>7, <2>1
<1> QED
  BY <1>1, <1>2, <1>3, <1>4, <1>5, <1>6, <1>7 DEF SchedulerStep, Fault

(***************************************************************************)
(* What a step of the scheduler or a client does to one routine, when no   *)
(* routine waits in a condition's queue.                                   *)
(***************************************************************************)

Kept(r) == state'[r] = state[r] /\ timedOut'[r] = timedOut[r] /\ ioWaiting'[r] = ioWaiting[r]

TimesOut(r) ==
  /\ pc = "timers" /\ state[r] = "WAITING" /\ heap[r] > 0 /\ ioWaiting[r]
  /\ state'[r] = "READY" /\ timedOut'[r] = TRUE /\ ioWaiting'[r] = FALSE /\ heap'[r] = 0

WakesUp(r) ==
  /\ pc = "timers" /\ state[r] = "WAITING" /\ heap[r] > 0 /\ ~ioWaiting[r]
  /\ state'[r] = "READY" /\ timedOut'[r] = timedOut[r] /\ ioWaiting'[r] = ioWaiting[r] /\ heap'[r] = 0

Starts(r) ==
  /\ pc = "schedule" /\ state[r] = "READY" /\ state'[r] = "RUNNING"
  /\ timedOut'[r] = timedOut[r] /\ ioWaiting'[r] = ioWaiting[r] /\ heap'[r] = heap[r]

IsFreed(r) ==
  /\ pc = "back" /\ state[r] = "DEAD" /\ state'[r] = "FREE"
  /\ timedOut'[r] = timedOut[r] /\ ioWaiting'[r] = ioWaiting[r] /\ heap'[r] = heap[r]

IsSpawned(r) ==
  /\ pc' = pc /\ pc \in {"idle", "coroutine"} /\ current' = current
  /\ state[r] = "FREE" /\ state'[r] = "READY"
  /\ timedOut'[r] = FALSE /\ ioWaiting'[r] = FALSE /\ heap'[r] = heap[r]

Suspends(r) ==
  /\ pc = "coroutine" /\ pc' = "back" /\ r = current /\ Suspend
  /\ state'[r] \in {"READY", "WAITING", "DEAD"}
  /\ timedOut'[r] = timedOut[r] /\ ioWaiting'[r] = ioWaiting[r]
  /\ heap'[r] = heap[r] \/ state'[r] = "WAITING"

Passes(r) ==
  /\ Kept(r) /\ (heap'[r] = heap[r] \/ heap'[r] = 0)
  /\ pc' = "coroutine" /\ r = current' => pc = "coroutine" /\ r = current

StepOf(r) ==
  \/ Passes(r) \/ TimesOut(r) \/ WakesUp(r) \/ Starts(r) \/ IsFreed(r) \/ IsSpawned(r) \/ Suspends(r)

CountKept == waitingIo' = waitingIo /\ \A r \in Routine : ~TimesOut(r)
CountDown ==
  waitingIo' = waitingIo - 1
  /\ \E r \in Routine : TimesOut(r) /\ \A s \in Routine : s # r => Passes(s)

Effect ==
  /\ \A r \in Routine : StepOf(r)
  /\ CountKept \/ CountDown
  /\ \A q \in WaitQueue : queue'[q] = queue[q]
  /\ pc' = "poll" => (pc = "poll" /\ queue' = queue) \/ queue'[Ready] = <<>>
  /\ pc # "destroyed" /\ pc' # "destroyed"

LEMMA ReadyIsNoWaitQueue ==
  Ready \in Queue /\ \A q \in WaitQueue : q \in Queue /\ q # Ready
  BY QueueAssumption DEF Queue

LEMMA EffectQuiet ==
  ASSUME ControlOK, RunStart \/ SampleNow \/ TimersDone \/ PollTimeout \/ PollInterrupted \/ Recheck \/ Tick
  PROVE  Effect
<1>1. /\ UNCHANGED <<state, queue, heap, fieldVars, active, current>>
      /\ pc # "destroyed" /\ pc' # "destroyed" /\ (pc' = "coroutine" => pc = "coroutine")
      /\ pc' = "poll" => pc = "poll" \/ queue[Ready] = <<>>
  BY DEF RunStart, SampleNow, TimersDone, PollTimeout, PollInterrupted, Recheck, Tick
<1>2. \A r \in Routine : Passes(r) /\ ~TimesOut(r)
  BY <1>1 DEF Passes, Kept, TimesOut, fieldVars
<1> QED BY <1>1, <1>2 DEF Effect, StepOf, CountKept, fieldVars

(* The entry for r leaves the heap.                                        *)
LEMMA HeapPopOne ==
  ASSUME SchedInv, NEW r \in Routine, Expired(r), HeapPop(r)
  PROVE  heap'[r] = 0 /\ heap[r] > 0 /\ pc = "timers" /\ \A s \in Routine : s # r => heap'[s] = heap[s]
<1>1. /\ heap \in [Routine -> Nat] /\ heap[r] > 0 /\ heap[r] <= 1 /\ pc = "timers"
      /\ heap' = [heap EXCEPT ![r] = heap[r] - 1]
  BY DEF SchedInv, SchedTypeOK, OneTimerEach, Expired, HeapPop
<1>2. heap[r] - 1 = 0
  BY ONLY <1>1, r \in Routine
<1> QED BY <1>1, <1>2

LEMMA EnqueueKeeps ==
  ASSUME ControlOK, NEW r \in Routine, queue' = Enqueue(queue, r)
  PROVE  \A q \in WaitQueue : queue'[q] = queue[q]
  BY ReadyIsNoWaitQueue DEF Enqueue, ControlOK, SchedTypeOK

LEMMA EffectTimer ==
  ASSUME SchedInv, ControlOK, NEW r \in Routine,
         TimerStale(r) \/ TimerCond(r) \/ TimerIo(r) \/ TimerSleep(r)
  PROVE  Effect
<1>0. /\ state \in [Routine -> State] /\ timedOut \in [Routine -> BOOLEAN]
      /\ ioWaiting \in [Routine -> BOOLEAN]
  BY DEF ControlOK, SchedTypeOK
<1>1. /\ Expired(r) /\ HeapPop(r) /\ UNCHANGED <<current, pc>>
  BY DEF TimerStale, TimerCond, TimerIo, TimerSleep
<1>2. heap'[r] = 0 /\ heap[r] > 0 /\ pc = "timers" /\ \A s \in Routine : s # r => heap'[s] = heap[s]
  BY <1>1, HeapPopOne
<1>3. CASE TimerStale(r)
  <2>1. UNCHANGED <<state, queue, fieldVars>>
    BY <1>3 DEF TimerStale
  <2>2. \A s \in Routine : Passes(s) /\ ~TimesOut(s)
    BY <1>1, <1>2, <2>1 DEF Passes, Kept, TimesOut, fieldVars
  <2> QED BY <1>1, <1>2, <2>1, <2>2 DEF Effect, StepOf, CountKept, fieldVars
<1>4. CASE TimerCond(r)
  BY <1>4 DEF TimerCond, ControlOK
<1>5. CASE TimerIo(r)
  <2>1. /\ state[r] = "WAITING" /\ ioWaiting[r]
        /\ queue' = Enqueue(queue, r)
        /\ state' = [state EXCEPT ![r] = "READY"]
        /\ timedOut' = [timedOut EXCEPT ![r] = TRUE]
        /\ ioWaiting' = [ioWaiting EXCEPT ![r] = FALSE]
        /\ waitingIo' = waitingIo - 1
    BY <1>5 DEF TimerIo
  <2>2. TimesOut(r)
    BY <1>0, <1>2, <2>1 DEF TimesOut
  <2>3. \A s \in Routine : s # r => Passes(s)
    BY <1>0, <1>1, <1>2, <2>1 DEF Passes, Kept
  <2>4. \A q \in WaitQueue : queue'[q] = queue[q]
    BY <2>1, EnqueueKeeps
  <2> QED BY <1>1, <1>2, <2>1, <2>2, <2>3, <2>4 DEF Effect, StepOf, CountDown
<1>6. CASE TimerSleep(r)
  <2>1. /\ state[r] = "WAITING" /\ ~ioWaiting[r]
        /\ queue' = Enqueue(queue, r)
        /\ state' = [state EXCEPT ![r] = "READY"]
        /\ UNCHANGED <<timedOut, ioWaiting, waitingIo>>
    BY <1>6 DEF TimerSleep, fieldVars
  <2>2. WakesUp(r) /\ ~TimesOut(r)
    BY <1>0, <1>2, <2>1 DEF WakesUp, TimesOut
  <2>3. \A s \in Routine : s # r => Passes(s) /\ ~TimesOut(s)
    BY <1>0, <1>1, <1>2, <2>1 DEF Passes, Kept, TimesOut
  <2>4. \A q \in WaitQueue : queue'[q] = queue[q]
    BY <2>1, EnqueueKeeps
  <2> QED BY <1>1, <1>2, <2>1, <2>2, <2>3, <2>4 DEF Effect, StepOf, CountKept
<1> QED BY <1>3, <1>4, <1>5, <1>6

LEMMA EffectSchedule ==
  ASSUME SchedInv, ControlOK, Schedule \/ ScheduleError \/ SwitchBack
  PROVE  Effect
<1>0. /\ state \in [Routine -> State] /\ queue \in [Queue -> Seq(Routine)]
      /\ current \in Routine \cup {NoRoutine}
  BY DEF ControlOK, SchedTypeOK
<1>1. CASE Schedule \/ ScheduleError
  <2>1. pc = "schedule" /\ queue[Ready] \in Seq(Routine) /\ queue[Ready] # <<>>
    BY <1>0, <1>1, ReadyIsNoWaitQueue DEF ControlOK, Schedule, ScheduleError
  <2> DEFINE h == Head(queue[Ready])
  <2>2. h \in Routine /\ h \in Range(queue[Ready])
    <3>1. h \in Routine /\ Len(queue[Ready]) >= 1 /\ h = queue[Ready][1]
      BY ONLY <2>1
    <3>2. 1 \in DOMAIN queue[Ready]
      BY ONLY <2>1, <3>1
    <3> HIDE DEF h
    <3> QED BY <3>1, <3>2 DEF Range
  <2>3. state[h] = "READY"
    BY <2>1, <2>2 DEF SchedInv, StateMatchesLists
  <2>4. /\ queue' = [queue EXCEPT ![Ready] = Tail(queue[Ready])]
        /\ state' = [state EXCEPT ![h] = "RUNNING"]
        /\ \/ current' = h /\ pc' = "coroutine"
           \/ current' = NoRoutine /\ pc' = "idle"
        /\ UNCHANGED <<heap, timedOut, ioWaiting, waitingIo>>
    BY <1>1 DEF Schedule, ScheduleError, fieldVars
  <2> HIDE DEF h
  <2>5. Starts(h) /\ ~TimesOut(h)
    BY <1>0, <2>1, <2>2, <2>3, <2>4 DEF Starts, TimesOut
  <2>6. \A s \in Routine : s # h => Passes(s) /\ ~TimesOut(s)
    BY <1>0, <2>1, <2>2, <2>4, QueueAssumption DEF Passes, Kept, TimesOut
  <2>7. \A q \in WaitQueue : queue'[q] = queue[q]
    BY <1>0, <2>4, ReadyIsNoWaitQueue
  <2>8. pc' # "poll" /\ pc' # "destroyed" /\ pc # "destroyed"
    BY <2>1, <2>4
  <2> QED BY <2>4, <2>5, <2>6, <2>7, <2>8 DEF Effect, StepOf, CountKept
<1>2. CASE SwitchBack
  <2>1. /\ pc = "back" /\ pc' = "loop"
        /\ state' = IF state[current] = "DEAD" THEN [state EXCEPT ![current] = "FREE"] ELSE state
        /\ UNCHANGED <<queue, heap, timedOut, ioWaiting, waitingIo>>
    BY <1>2 DEF SwitchBack, fieldVars
  <2>2. ASSUME NEW s \in Routine PROVE (Passes(s) \/ IsFreed(s)) /\ ~TimesOut(s)
    <3>1. CASE state[current] = "DEAD" /\ s = current
      BY <1>0, <2>1, <3>1 DEF IsFreed, TimesOut
    <3>2. CASE ~(state[current] = "DEAD" /\ s = current)
      BY <1>0, <2>1, <3>2 DEF Passes, Kept, TimesOut
    <3> QED BY <3>1, <3>2
  <2> QED BY <2>1, <2>2 DEF Effect, StepOf, CountKept
<1> QED BY <1>1, <1>2

LEMMA EffectSpawn ==
  ASSUME ControlOK, NEW r \in Routine, Spawn(r)
  PROVE  Effect
<1>0. /\ state \in [Routine -> State] /\ timedOut \in [Routine -> BOOLEAN]
      /\ ioWaiting \in [Routine -> BOOLEAN]
  BY DEF ControlOK, SchedTypeOK
<1>1. /\ pc \in {"idle", "coroutine"} /\ state[r] = "FREE"
      /\ state' = [state EXCEPT ![r] = "READY"] /\ queue' = Enqueue(queue, r)
      /\ timedOut' = [timedOut EXCEPT ![r] = FALSE]
      /\ ioWaiting' = [ioWaiting EXCEPT ![r] = FALSE]
      /\ UNCHANGED <<heap, waitingIo, current, pc>>
  BY DEF Spawn
<1>2. IsSpawned(r) /\ ~TimesOut(r)
  BY <1>0, <1>1 DEF IsSpawned, TimesOut
<1>3. \A s \in Routine : s # r => Passes(s) /\ ~TimesOut(s)
  BY <1>0, <1>1 DEF Passes, Kept, TimesOut
<1>4. \A q \in WaitQueue : queue'[q] = queue[q]
  BY <1>1, EnqueueKeeps
<1> QED BY <1>1, <1>2, <1>3, <1>4 DEF Effect, StepOf, CountKept

LEMMA EffectSuspend ==
  ASSUME ControlOK, Suspend
  PROVE  Effect
<1>0. /\ state \in [Routine -> State] /\ heap \in [Routine -> Nat] /\ current \in Routine
      /\ pc = "coroutine"
  BY DEF ControlOK, SchedTypeOK, Suspend, Yield, Sleep, Finish
<1>1. /\ pc' = "back" /\ UNCHANGED <<timedOut, ioWaiting, waitingIo, current>>
  BY DEF Suspend, Yield, Sleep, Finish, SwapToMain, fieldVars
<1>2. /\ \E v \in {"READY", "WAITING", "DEAD"} :
           /\ state' = [state EXCEPT ![current] = v]
           /\ heap' = heap \/ v = "WAITING"
      /\ \A s \in Routine : s # current => heap'[s] = heap[s]
  BY <1>0 DEF Suspend, Yield, Sleep, Finish
<1>3. queue' = queue \/ queue' = Enqueue(queue, current)
  BY DEF Suspend, Yield, Sleep, Finish
<1>4. \A q \in WaitQueue : queue'[q] = queue[q]
  BY <1>0, <1>3, EnqueueKeeps
<1>5. Suspends(current) /\ ~TimesOut(current)
  BY <1>0, <1>1, <1>2 DEF Suspends, TimesOut
<1>6. \A s \in Routine : s # current => Passes(s) /\ ~TimesOut(s)
  BY <1>0, <1>1, <1>2 DEF Passes, Kept, TimesOut
<1> QED BY <1>0, <1>1, <1>4, <1>5, <1>6 DEF Effect, StepOf, CountKept

(* All of them, and SchedInv is preserved, if a coroutine that suspends    *)
(* itself has no timer.                                                    *)
LEMMA SchedEffect ==
  ASSUME SchedInv, ControlOK,
         SchedulerStep \/ Fault \/ RunStart \/ Tick \/ (\E r \in Routine : Spawn(r)) \/ Suspend,
         Suspend => heap[current] = 0
  PROVE  Effect /\ SchedInv'
<1>1. CASE RunStart \/ SampleNow \/ TimersDone \/ PollTimeout \/ PollInterrupted \/ Recheck
  BY <1>1, EffectQuiet, LoopSteps
<1>2. CASE Tick
  BY <1>2, EffectQuiet, TickStep
<1>3. ASSUME NEW r \in Routine, TimerStale(r) \/ TimerCond(r) \/ TimerIo(r) \/ TimerSleep(r)
      PROVE  Effect /\ SchedInv'
  BY <1>3, EffectTimer, TimerStaleStep, TimerCondStep, TimerIoStep, TimerSleepStep
<1>4. CASE Schedule \/ ScheduleError
  BY <1>4, EffectSchedule, ScheduleStep
<1>5. CASE SwitchBack
  BY <1>5, EffectSchedule, SwitchBackStep
<1>6. ASSUME NEW r \in Routine, Spawn(r) PROVE Effect /\ SchedInv'
  BY <1>6, EffectSpawn, SpawnStep
<1>7. CASE Suspend
  <2>1. Effect
    BY <1>7, EffectSuspend
  <2>2. SchedInv'
    BY <1>7, YieldStep, SleepStep, FinishStep DEF Suspend
  <2> QED BY <2>1, <2>2
<1> QED
  BY <1>1, <1>2, <1>3, <1>4, <1>5, <1>6, <1>7 DEF SchedulerStep, Fault

(* A coroutine goes on with its own code.                                  *)
LEMMA CurrentStep ==
  ASSUME SchedInv, SchedTypeOK', pc = "coroutine",
         UNCHANGED <<state, queue, condQ, current, pc>>,
         \A s \in Routine : heap'[s] = heap[s] \/ heap'[s] = 0
  PROVE  SchedInv'
<1>1. pc # "destroyed" /\ pc' # "destroyed"
  OBVIOUS
<1>2. NodeLinkedOnce' /\ StateMatchesLists' /\ ControlInv'
  BY <1>1 DEF SchedInv, NodeLinkedOnce, StateMatchesLists, ControlInv
<1>3. ASSUME NEW s \in Routine PROVE heap'[s] <= 1 /\ (heap'[s] > 0 => heap[s] > 0)
  <2>1. heap[s] \in Nat /\ heap[s] <= 1 /\ (heap'[s] = heap[s] \/ heap'[s] = 0)
    BY DEF SchedInv, SchedTypeOK, OneTimerEach
  <2> QED BY ONLY <2>1
<1>4. OneTimerEach'
  BY <1>3 DEF OneTimerEach
<1>5. NoDanglingPointer'
  BY <1>1 DEF SchedInv, NoDanglingPointer
<1>6. TimerInv'
  BY <1>1, <1>3 DEF SchedInv, TimerInv
<1> QED BY <1>2, <1>4, <1>5, <1>6 DEF SchedInv
==============================================================================
