--------------------------- MODULE CoChannelProofs ---------------------------
(***************************************************************************)
(* ChanInv is an invariant of a channel of any capacity, for any number of *)
(* coroutines and messages; nobody waits in vain, a call that returns      *)
(* CO_OK has done what it says, and the channel implements ChannelFifo.    *)
(***************************************************************************)
EXTENDS CoChannel, CoSchedulerProofs

(* The leaves that name no other prover are for Zenon.                     *)
USE ZenonT(30)

(***************************************************************************)
(* The ring buffer: what advancing tail, advancing head and overwriting a  *)
(* slot do to the sequence of messages it holds.                           *)
(***************************************************************************)

(* n messages from slot h on, in a ring s of c slots.                      *)
Ring(c, s, h, n) == [i \in 1..n |-> s[(h + i - 1) % c]]

(* An index that is at most one round too high.                            *)
Wrap(c, x) == IF x < c THEN x ELSE x - c

LEMMA ModRing ==
  ASSUME NEW c \in Nat \ {0}, NEW x \in 0..(2 * c - 1)
  PROVE  x % c = Wrap(c, x)
<1> USE DEF Wrap
<1>1. CASE x < c
  BY SMT, <1>1
<1>2. CASE ~(x < c)
  <2>1. x \in c..(2 * c - 1)
    BY SMT, <1>2
  <2> QED BY SMT, <2>1
<1> QED BY <1>1, <1>2

LEMMA ModNat ==
  ASSUME NEW c \in Nat, c > 0, NEW a \in Nat
  PROVE  (a + 1) % c \in Nat
  BY SMT

LEMMA FunctionIsSeq ==
  ASSUME NEW S, NEW n \in Nat, NEW f \in [1..n -> S]
  PROVE  f \in Seq(S) /\ Len(f) = n
  BY SMT

IsRing(c, s, h, n) ==
  /\ Ring(c, s, h, n) \in Seq(Nat)
  /\ Len(Ring(c, s, h, n)) = n
  /\ \A i \in 1..n : Ring(c, s, h, n)[i] = s[(h + i - 1) % c]

LEMMA RingSeq ==
  ASSUME NEW c \in Nat, NEW n \in 0..c, NEW h \in Nat, c > 0 => h < c,
         NEW s \in [0..(c - 1) -> Nat]
  PROVE  IsRing(c, s, h, n)
<1>1. ASSUME NEW i \in 1..n PROVE s[(h + i - 1) % c] \in Nat
  <2>1. c \in Nat \ {0} /\ h + i - 1 \in Nat
    BY SMT, <1>1
  <2>2. (h + i - 1) % c \in 0..(c - 1)
    BY ONLY <2>1
  <2> QED BY SMT, <2>2
<1>2. n \in Nat
  BY SMT
<1>3. Ring(c, s, h, n) \in [1..n -> Nat]
  BY <1>1 DEF Ring
<1>4. Ring(c, s, h, n) \in Seq(Nat) /\ Len(Ring(c, s, h, n)) = n
  BY <1>2, <1>3, FunctionIsSeq
<1>5. \A i \in 1..n : Ring(c, s, h, n)[i] = s[(h + i - 1) % c]
  BY DEF Ring
<1> QED BY <1>4, <1>5 DEF IsRing

(* A message is put behind the last one.                                   *)
PutLast(c, s, h, n, t, v, u) ==
  /\ u \in [0..(c - 1) -> Nat]
  /\ (t + 1) % c = (h + (n + 1)) % c
  /\ Ring(c, u, h, n + 1) = Append(Ring(c, s, h, n), v)

LEMMA RingPut ==
  ASSUME NEW c \in Nat, NEW n \in 0..(c - 1), NEW h \in 0..(c - 1),
         NEW s \in [0..(c - 1) -> Nat], NEW v \in Nat,
         NEW t, t = (h + n) % c, NEW u, u = With(s, t, v)
  PROVE  PutLast(c, s, h, n, t, v, u)
<1>1. c \in Nat \ {0} /\ h < c /\ n \in Nat /\ n < c /\ h \in Nat
  BY SMT
<1>2. t = Wrap(c, h + n)
  <2>1. h + n \in 0..(2 * c - 1)
    BY ONLY <1>1
  <2> QED BY <1>1, <2>1, ModRing
<1>3. t \in 0..(c - 1)
  BY ONLY <1>1, <1>2 DEF Wrap
<1>4. u \in [0..(c - 1) -> Nat] /\ \A j \in 0..(c - 1) : u[j] = IF j = t THEN v ELSE s[j]
  BY <1>3 DEF With
<1>5. (t + 1) % c = (h + (n + 1)) % c
  <2>1. (t + 1) % c = Wrap(c, t + 1)
    <3>1. t + 1 \in 0..(2 * c - 1)
      BY ONLY <1>1, <1>3
    <3> QED BY <1>1, <3>1, ModRing
  <2>2. (h + (n + 1)) % c = Wrap(c, h + (n + 1))
    <3>1. h + (n + 1) \in 0..(2 * c - 1)
      BY ONLY <1>1
    <3> QED BY <1>1, <3>1, ModRing
  <2> QED BY ONLY <1>1, <1>2, <2>1, <2>2 DEF Wrap
<1> DEFINE old == Ring(c, s, h, n)
           new == Ring(c, u, h, n + 1)
<1>6. old \in Seq(Nat) /\ Len(old) = n /\ \A i \in 1..n : old[i] = s[(h + i - 1) % c]
  <2>1. n \in 0..c /\ (c > 0 => h < c)
    BY SMT, <1>1
  <2>2. IsRing(c, s, h, n)
    BY ONLY Zenon, <1>1, <2>1, s \in [0..(c - 1) -> Nat], RingSeq
  <2> QED BY <2>2 DEF IsRing
<1>7. /\ new \in Seq(Nat) /\ Len(new) = n + 1
      /\ \A i \in 1..(n + 1) : new[i] = u[(h + i - 1) % c]
  <2>1. n + 1 \in 0..c /\ (c > 0 => h < c)
    BY SMT, <1>1
  <2>2. IsRing(c, u, h, n + 1)
    BY ONLY Zenon, <1>1, <1>4, <2>1, s \in [0..(c - 1) -> Nat], RingSeq
  <2> QED BY <2>2 DEF IsRing
<1> HIDE DEF old, new
<1>8. /\ Append(old, v) \in Seq(Nat) /\ Len(Append(old, v)) = n + 1
      /\ \A i \in 1..n : Append(old, v)[i] = old[i]
      /\ Append(old, v)[n + 1] = v
  <2>1. /\ Append(old, v) \in Seq(Nat) /\ Len(Append(old, v)) = Len(old) + 1
        /\ \A i \in 1..Len(old) : Append(old, v)[i] = old[i]
        /\ Append(old, v)[Len(old) + 1] = v
    BY ONLY <1>6, v \in Nat, SeqAppend
  <2> QED BY <1>6, <2>1
<1>9. ASSUME NEW i \in 1..(n + 1) PROVE new[i] = Append(old, v)[i]
  <2>1. h + i - 1 \in 0..(2 * c - 1)
    BY SMT, <1>1
  <2>2. (h + i - 1) % c = Wrap(c, h + i - 1)
    BY <1>1, <2>1, ModRing
  <2>3. CASE i = n + 1
    <3>1. (h + i - 1) % c = t
      BY ONLY <1>1, <1>2, <2>2, <2>3 DEF Wrap
    <3> QED BY <1>3, <1>4, <1>7, <1>8, <2>3, <3>1
  <2>4. CASE i # n + 1
    <3>1. i \in 1..n /\ (h + i - 1) % c # t /\ (h + i - 1) % c \in 0..(c - 1)
      BY ONLY SMTT(30), <1>1, <1>2, <1>9, <2>2, <2>4 DEF Wrap
    <3> QED BY <1>4, <1>6, <1>7, <1>8, <3>1
  <2> QED BY <2>3, <2>4
<1>10. new = Append(old, v)
  BY ONLY Zenon, <1>7, <1>8, <1>9, SeqSame
<1> QED BY <1>4, <1>5, <1>10 DEF old, new, PutLast

(* The first message is taken.                                             *)
TakeFirst(c, s, h, n, g) ==
  /\ g \in 0..(c - 1)
  /\ (g + (n - 1)) % c = (h + n) % c
  /\ Ring(c, s, h, n) # <<>>
  /\ Head(Ring(c, s, h, n)) = s[h]
  /\ Ring(c, s, g, n - 1) = Tail(Ring(c, s, h, n))

LEMMA RingTake ==
  ASSUME NEW c \in Nat, NEW n \in 1..c, NEW h \in 0..(c - 1), NEW s \in [0..(c - 1) -> Nat],
         NEW g, g = (h + 1) % c
  PROVE  TakeFirst(c, s, h, n, g)
<1>1. c \in Nat \ {0} /\ h < c /\ n \in Nat /\ n <= c /\ h \in Nat /\ n > 0
  BY SMT
<1>2. g = Wrap(c, h + 1)
  <2>1. h + 1 \in 0..(2 * c - 1)
    BY ONLY <1>1
  <2> QED BY <1>1, <2>1, ModRing
<1>3. g \in 0..(c - 1)
  BY ONLY <1>1, <1>2 DEF Wrap
<1>4. (g + (n - 1)) % c = (h + n) % c
  <2>1. g + (n - 1) \in 0..(2 * c - 1) /\ h + n \in 0..(2 * c - 1)
    BY ONLY <1>1, <1>3
  <2>2. (g + (n - 1)) % c = Wrap(c, g + (n - 1))
    BY <1>1, <2>1, ModRing
  <2>3. (h + n) % c = Wrap(c, h + n)
    BY <1>1, <2>1, ModRing
  <2> QED BY ONLY <1>1, <1>2, <2>2, <2>3 DEF Wrap
<1> DEFINE old == Ring(c, s, h, n)
           new == Ring(c, s, g, n - 1)
<1>5. old \in Seq(Nat) /\ Len(old) = n /\ \A i \in 1..n : old[i] = s[(h + i - 1) % c]
  <2>1. n \in 0..c /\ (c > 0 => h < c)
    BY SMT, <1>1
  <2>2. IsRing(c, s, h, n)
    BY ONLY Zenon, <1>1, <2>1, s \in [0..(c - 1) -> Nat], RingSeq
  <2> QED BY <2>2 DEF IsRing
<1>6. /\ new \in Seq(Nat) /\ Len(new) = n - 1
      /\ \A i \in 1..(n - 1) : new[i] = s[(g + i - 1) % c]
  <2>1. n - 1 \in 0..c /\ (c > 0 => g < c) /\ g \in Nat
    BY ONLY <1>1, <1>3
  <2>2. IsRing(c, s, g, n - 1)
    BY ONLY Zenon, <1>1, <2>1, s \in [0..(c - 1) -> Nat], RingSeq
  <2> QED BY <2>2 DEF IsRing
<1> HIDE DEF old, new
<1>7. old # <<>>
  BY SMT, <1>1, <1>5
<1>8. /\ Tail(old) \in Seq(Nat) /\ Len(Tail(old)) = n - 1
      /\ \A i \in 1..(n - 1) : Tail(old)[i] = old[i + 1]
  <2>1. /\ Tail(old) \in Seq(Nat) /\ Len(Tail(old)) = Len(old) - 1
        /\ \A i \in 1..Len(Tail(old)) : Tail(old)[i] = old[i + 1]
    BY <1>5, <1>7, SeqTail
  <2> QED BY <2>1, <1>5
<1>9. Head(old) = s[h]
  <2>1. 1 \in 1..n /\ (h + 1 - 1) % c = h
    BY SMT, <1>1
  <2>2. Head(old) = old[1]
    BY SMT, <1>5, <1>7
  <2> QED BY <1>5, <2>1, <2>2
<1>10. ASSUME NEW i \in 1..(n - 1) PROVE new[i] = Tail(old)[i]
  <2>1. i + 1 \in 1..n /\ g + i - 1 \in 0..(2 * c - 1) /\ h + (i + 1) - 1 \in 0..(2 * c - 1)
    BY ONLY <1>1, <1>3, <1>10
  <2>2. (g + i - 1) % c = Wrap(c, g + i - 1)
    BY <1>1, <2>1, ModRing
  <2>3. (h + (i + 1) - 1) % c = Wrap(c, h + (i + 1) - 1)
    BY <1>1, <2>1, ModRing
  <2>4. (g + i - 1) % c = (h + (i + 1) - 1) % c
    BY ONLY <1>1, <1>2, <2>2, <2>3 DEF Wrap
  <2> QED BY <1>5, <1>6, <1>8, <2>1, <2>4
<1>11. new = Tail(old)
  BY ONLY <1>6, <1>8, <1>10, SeqSame
<1> QED BY <1>3, <1>4, <1>7, <1>9, <1>11 DEF old, new, TakeFirst

(***************************************************************************)
(* The messages that the waiting senders offer.                            *)
(***************************************************************************)

(* The cells c of the routines of s.                                       *)
Cells(c, s) == [i \in 1..Len(s) |-> c[s[i]]]

LEMMA CellsSeq ==
  ASSUME NEW c \in [Routine -> Nat], NEW s \in Seq(Routine)
  PROVE  /\ Cells(c, s) \in Seq(Nat)
         /\ Len(Cells(c, s)) = Len(s)
         /\ \A i \in 1..Len(s) : Cells(c, s)[i] = c[s[i]]
<1>1. Len(s) \in Nat /\ \A i \in 1..Len(s) : s[i] \in Routine
  BY ListDomain
<1>2. Cells(c, s) \in [1..Len(s) -> Nat]
  BY <1>1 DEF Cells
<1>3. Cells(c, s) \in Seq(Nat) /\ Len(Cells(c, s)) = Len(s)
  BY <1>1, <1>2, FunctionIsSeq
<1> QED BY <1>3 DEF Cells

(* Only the cells of the routines in the queue matter.                     *)
LEMMA CellsSame ==
  ASSUME NEW c \in [Routine -> Nat], NEW d \in [Routine -> Nat], NEW s \in Seq(Routine),
         \A r \in Range(s) : d[r] = c[r]
  PROVE  Cells(d, s) = Cells(c, s)
<1>1. DOMAIN s = 1..Len(s)
  BY ListDomain
<1>2. \A i \in 1..Len(s) : d[s[i]] = c[s[i]]
  BY <1>1 DEF Range
<1> QED BY <1>2 DEF Cells

OfferLast(c, s, r, v, d) == Cells(d, Append(s, r)) = Append(Cells(c, s), v)

LEMMA CellsPush ==
  ASSUME NEW c \in [Routine -> Nat], NEW s \in Seq(Routine), NEW r \in Routine, NEW v \in Nat,
         r \notin Range(s), NEW d, d = With(c, r, v)
  PROVE  OfferLast(c, s, r, v, d)
<1> DEFINE t == Append(s, r)
           o == Cells(c, s)
           p == Append(o, v)
<1>1. d \in [Routine -> Nat] /\ \A q \in Routine : d[q] = IF q = r THEN v ELSE c[q]
  BY DEF With
<1>2. /\ t \in Seq(Routine) /\ Len(t) = Len(s) + 1 /\ t[Len(s) + 1] = r
      /\ \A i \in 1..Len(s) : t[i] = s[i]
  BY ONLY s \in Seq(Routine), r \in Routine, SeqAppend
<1>3. o \in Seq(Nat) /\ Len(o) = Len(s) /\ \A i \in 1..Len(s) : o[i] = c[s[i]]
  BY CellsSeq
<1> HIDE DEF t, o
<1>4. /\ Cells(d, t) \in Seq(Nat) /\ Len(Cells(d, t)) = Len(t)
      /\ \A i \in 1..Len(t) : Cells(d, t)[i] = d[t[i]]
  BY <1>1, <1>2, CellsSeq
<1>5. /\ p \in Seq(Nat) /\ Len(p) = Len(o) + 1 /\ p[Len(o) + 1] = v
      /\ \A i \in 1..Len(o) : p[i] = o[i]
  BY ONLY <1>3, v \in Nat, SeqAppend
<1>6. Len(s) \in Nat /\ DOMAIN s = 1..Len(s) /\ \A i \in 1..Len(s) : s[i] \in Routine
  BY ListDomain
<1>7. ASSUME NEW i \in 1..(Len(s) + 1) PROVE Cells(d, t)[i] = p[i]
  <2>1. CASE i = Len(s) + 1
    BY <1>1, <1>2, <1>3, <1>4, <1>5, <1>7, <2>1
  <2>2. CASE i # Len(s) + 1
    <3>1. i \in 1..Len(s)
      BY ONLY <1>6, <1>7, <2>2
    <3>2. s[i] \in Routine /\ s[i] # r
      BY <1>6, <3>1 DEF Range
    <3>3. Cells(d, t)[i] = d[s[i]] /\ p[i] = c[s[i]]
      BY <1>2, <1>3, <1>4, <1>5, <1>7, <3>1
    <3> QED BY <1>1, <3>2, <3>3
  <2> QED BY <2>1, <2>2
<1>8. Len(Cells(d, t)) = Len(s) + 1 /\ Len(p) = Len(s) + 1
  BY <1>2, <1>3, <1>4, <1>5
<1>9. Cells(d, t) = p
  BY ONLY SMTT(30), <1>4, <1>5, <1>7, <1>8, SeqSame
<1> QED BY <1>9 DEF t, o, OfferLast

OfferFirst(c, s) ==
  /\ Cells(c, s) # <<>>
  /\ Head(Cells(c, s)) = c[Head(s)]
  /\ Cells(c, Tail(s)) = Tail(Cells(c, s))

LEMMA CellsPop ==
  ASSUME NEW c \in [Routine -> Nat], NEW s \in Seq(Routine), s # <<>>
  PROVE  OfferFirst(c, s)
<1> DEFINE o == Cells(c, s)
           t == Tail(s)
<1>1. o \in Seq(Nat) /\ Len(o) = Len(s) /\ \A i \in 1..Len(s) : o[i] = c[s[i]]
  BY CellsSeq
<1>2. Len(s) \in Nat /\ Len(s) # 0
  BY ONLY s \in Seq(Routine), s # <<>>
<1>3. /\ t \in Seq(Routine) /\ Len(t) = Len(s) - 1
      /\ \A i \in 1..Len(t) : t[i] = s[i + 1]
  BY SeqTail
<1> HIDE DEF o, t
<1>4. Len(o) = 0 <=> o = <<>>
  BY ONLY <1>1
<1>5. o # <<>> /\ 1 \in 1..Len(s)
  BY SMT, <1>1, <1>2, <1>4
<1>6. Head(o) = o[1] /\ Head(s) = s[1]
  BY ONLY <1>1, <1>5, s \in Seq(Routine), s # <<>>
<1>7. Head(o) = c[Head(s)]
  BY <1>1, <1>5, <1>6
<1>8. /\ Cells(c, t) \in Seq(Nat) /\ Len(Cells(c, t)) = Len(t)
      /\ \A i \in 1..Len(t) : Cells(c, t)[i] = c[t[i]]
  BY <1>3, CellsSeq
<1>9. /\ Tail(o) \in Seq(Nat) /\ Len(Tail(o)) = Len(o) - 1
      /\ \A i \in 1..Len(Tail(o)) : Tail(o)[i] = o[i + 1]
  BY <1>1, <1>5, SeqTail
<1>10. Len(Tail(o)) = Len(t) /\ Len(t) \in Nat /\ Len(s) = Len(t) + 1
  BY ONLY <1>1, <1>2, <1>3, <1>9
<1>11. ASSUME NEW i \in 1..Len(t) PROVE Cells(c, t)[i] = Tail(o)[i]
  <2>1. i + 1 \in 1..Len(s)
    BY ONLY <1>10, <1>11
  <2> QED BY <1>1, <1>3, <1>8, <1>9, <1>10, <1>11, <2>1
<1>12. Cells(c, t) = Tail(o)
  BY ONLY Zenon, <1>8, <1>9, <1>10, <1>11, SeqSame
<1> QED BY <1>5, <1>7, <1>12 DEF o, t, OfferFirst

(***************************************************************************)
(* Sequences: the buffer b and the offers o behind it.                     *)
(***************************************************************************)

LEMMA RangeHeadTail ==
  ASSUME NEW S, NEW s \in Seq(S), s # <<>>
  PROVE  Range(s) = {Head(s)} \cup Range(Tail(s))
<1>1. /\ Tail(s) \in Seq(S) /\ Len(Tail(s)) = Len(s) - 1
      /\ \A i \in 1..Len(Tail(s)) : Tail(s)[i] = s[i + 1]
  BY SeqTail
<1>2. /\ DOMAIN s = 1..Len(s) /\ Len(s) \in Nat /\ Len(s) # 0
      /\ DOMAIN Tail(s) = 1..Len(Tail(s))
  BY SMT, <1>1, SeqDomain
<1>3. Head(s) = s[1] /\ 1 \in 1..Len(s)
  <2>1. 1 \in 1..Len(s)
    BY ONLY <1>2
  <2>2. Head(s) = s[1]
    BY SMT
  <2> QED BY <2>1, <2>2
<1>4. ASSUME NEW i \in 1..Len(s) PROVE s[i] \in {Head(s)} \cup Range(Tail(s))
  <2>1. CASE i = 1
    BY <1>3, <2>1
  <2>2. CASE i # 1
    <3>1. i - 1 \in 1..Len(Tail(s)) /\ (i - 1) + 1 = i
      BY ONLY <1>1, <1>2, <1>4, <2>2
    <3>2. Tail(s)[i - 1] = s[i]
      BY <1>1, <3>1
    <3> QED BY <1>2, <3>1, <3>2 DEF Range
  <2> QED BY <2>1, <2>2
<1>5. ASSUME NEW i \in 1..Len(Tail(s)) PROVE Tail(s)[i] \in Range(s)
  <2>1. i + 1 \in 1..Len(s)
    BY ONLY <1>1, <1>2, <1>5
  <2> QED BY <1>1, <1>2, <2>1 DEF Range
<1>6. Range(s) \subseteq {Head(s)} \cup Range(Tail(s))
  BY <1>2, <1>4 DEF Range
<1>7. {Head(s)} \cup Range(Tail(s)) \subseteq Range(s)
  BY <1>2, <1>3, <1>5 DEF Range
<1> QED BY <1>6, <1>7

(* A message is offered behind the others.                                 *)
LEMMA OfferBehind ==
  ASSUME NEW b \in Seq(Nat), NEW o \in Seq(Nat), NEW v \in Nat
  PROVE  b \o Append(o, v) = Append(b \o o, v)
  BY SMT

(* The first message is taken and the first offer moves into the buffer.   *)
LEMMA TakeAndRefill ==
  ASSUME NEW b \in Seq(Nat), NEW o \in Seq(Nat), b # <<>>, o # <<>>
  PROVE  /\ b \o o # <<>>
         /\ Head(b \o o) = Head(b)
         /\ Tail(b \o o) = Append(Tail(b), Head(o)) \o Tail(o)
<1> DEFINE x == b \o o
           f == Append(Tail(b), Head(o))
           y == f \o Tail(o)
<1>1. /\ x \in Seq(Nat) /\ Len(x) = Len(b) + Len(o)
      /\ \A i \in 1..(Len(b) + Len(o)) : x[i] = IF i <= Len(b) THEN b[i] ELSE o[i - Len(b)]
  BY ONLY b \in Seq(Nat), o \in Seq(Nat), SeqConcat
<1>2. Len(b) \in Nat \ {0} /\ Len(o) \in Nat \ {0}
  BY SeqDomain
<1>3. /\ Head(o) \in Nat /\ Head(o) = o[1] /\ Tail(o) \in Seq(Nat) /\ Len(Tail(o)) = Len(o) - 1
      /\ \A i \in 1..Len(Tail(o)) : Tail(o)[i] = o[i + 1]
  BY ONLY o \in Seq(Nat), o # <<>>, SeqTail
<1>4. /\ Tail(b) \in Seq(Nat) /\ Len(Tail(b)) = Len(b) - 1 /\ Head(b) = b[1]
      /\ \A i \in 1..Len(Tail(b)) : Tail(b)[i] = b[i + 1]
  BY ONLY b \in Seq(Nat), b # <<>>, SeqTail
<1>5. /\ f \in Seq(Nat) /\ Len(f) = Len(Tail(b)) + 1 /\ f[Len(Tail(b)) + 1] = Head(o)
      /\ \A i \in 1..Len(Tail(b)) : f[i] = Tail(b)[i]
  BY ONLY <1>3, <1>4, SeqAppend
<1> HIDE DEF x, f
<1>6. /\ y \in Seq(Nat) /\ Len(y) = Len(f) + Len(Tail(o))
      /\ \A i \in 1..(Len(f) + Len(Tail(o))) : y[i] = IF i <= Len(f) THEN f[i] ELSE Tail(o)[i - Len(f)]
  BY ONLY Zenon, <1>3, <1>5, SeqConcat
<1>7. x # <<>> /\ Head(x) = x[1]
  BY ONLY <1>1, <1>2
<1>8. /\ Tail(x) \in Seq(Nat) /\ Len(Tail(x)) = Len(x) - 1
      /\ \A i \in 1..Len(Tail(x)) : Tail(x)[i] = x[i + 1]
  BY ONLY <1>1, <1>7, SeqTail
<1> HIDE DEF y
<1>9. Head(x) = Head(b)
  BY ONLY SMTT(30), <1>1, <1>2, <1>4, <1>7
<1>10. Len(f) = Len(b) /\ Len(y) = Len(b) + Len(o) - 1 /\ Len(Tail(x)) = Len(y)
  BY ONLY SMTT(30), <1>1, <1>2, <1>3, <1>4, <1>5, <1>6, <1>8
<1>11. ASSUME NEW i \in 1..Len(y) PROVE Tail(x)[i] = y[i]
  <2>1. /\ Tail(x)[i] = x[i + 1]
        /\ x[i + 1] = IF i + 1 <= Len(b) THEN b[i + 1] ELSE o[(i + 1) - Len(b)]
        /\ y[i] = IF i <= Len(f) THEN f[i] ELSE Tail(o)[i - Len(f)]
    <3>1. i + 1 \in 1..(Len(b) + Len(o)) /\ i \in 1..Len(Tail(x)) /\ i \in 1..(Len(f) + Len(Tail(o)))
      BY ONLY SMTT(30), <1>2, <1>3, <1>6, <1>10, <1>11
    <3>2. Tail(x)[i] = x[i + 1]
      BY <1>8, <3>1
    <3>3. x[i + 1] = IF i + 1 <= Len(b) THEN b[i + 1] ELSE o[(i + 1) - Len(b)]
      BY <1>1, <3>1
    <3>4. y[i] = IF i <= Len(f) THEN f[i] ELSE Tail(o)[i - Len(f)]
      BY <1>6, <3>1
    <3> QED BY <3>2, <3>3, <3>4
  <2>2. CASE i < Len(b)
    <3>1. i + 1 <= Len(b) /\ i <= Len(f) /\ i \in 1..Len(Tail(b))
      BY ONLY SMTT(30), <1>2, <1>4, <1>10, <1>11, <2>2
    <3>2. f[i] = Tail(b)[i] /\ Tail(b)[i] = b[i + 1]
      BY <1>4, <1>5, <3>1
    <3> QED BY <2>1, <3>1, <3>2
  <2>3. CASE i = Len(b)
    <3>1. ~(i + 1 <= Len(b)) /\ i <= Len(f) /\ i = Len(Tail(b)) + 1 /\ (i + 1) - Len(b) = 1
      BY ONLY SMTT(30), <1>2, <1>4, <1>10, <1>11, <2>3
    <3>2. f[i] = o[1]
      BY <1>3, <1>5, <3>1
    <3> QED BY <2>1, <3>1, <3>2
  <2>4. CASE i > Len(b)
    <3>1. /\ ~(i + 1 <= Len(b)) /\ ~(i <= Len(f)) /\ i - Len(f) \in 1..Len(Tail(o))
          /\ (i - Len(f)) + 1 = (i + 1) - Len(b)
      BY ONLY SMTT(30), <1>2, <1>3, <1>10, <1>11, <2>4
    <3>2. Tail(o)[i - Len(f)] = o[(i - Len(f)) + 1]
      BY <1>3, <3>1
    <3> QED BY <2>1, <3>1, <3>2
  <2>5. i \in Int /\ Len(b) \in Int
    BY ONLY SMTT(30), <1>2, <1>10, <1>11
  <2>6. i < Len(b) \/ i = Len(b) \/ i > Len(b)
    BY ONLY <2>5
  <2> QED BY <2>2, <2>3, <2>4, <2>6
<1>12. Tail(x) = y
  BY ONLY Zenon, <1>6, <1>8, <1>10, <1>11, SeqSame
<1> QED BY ONLY Zenon, <1>7, <1>9, <1>12 DEF x, y, f

(* Closing cuts the offers off.                                            *)
LEMMA CutOffers ==
  ASSUME NEW b \in Seq(Nat), NEW o \in Seq(Nat)
  PROVE  /\ Len(b \o o) = Len(b) + Len(o)
         /\ SubSeq(b \o o, 1, Len(b)) = b
<1> DEFINE x == b \o o
           y == SubSeq(x, 1, Len(b))
<1>1. /\ x \in Seq(Nat) /\ Len(x) = Len(b) + Len(o)
      /\ \A i \in 1..(Len(b) + Len(o)) : x[i] = IF i <= Len(b) THEN b[i] ELSE o[i - Len(b)]
  BY ONLY b \in Seq(Nat), o \in Seq(Nat), SeqConcat
<1>2. Len(b) \in Nat /\ Len(o) \in Nat /\ \A i \in 1..Len(b) : b[i] \in Nat
  BY SMT
<1> HIDE DEF x
<1>3. ASSUME NEW i \in 1..Len(b) PROVE x[i] = b[i] /\ x[i] \in Nat
  <2>1. i <= Len(b) /\ i \in 1..(Len(b) + Len(o))
    BY ONLY <1>2, <1>3
  <2> QED BY <1>1, <1>2, <2>1
<1>4. /\ y \in Seq(Nat)
      /\ Len(y) = IF 1 <= Len(b) THEN Len(b) - 1 + 1 ELSE 0
      /\ \A i \in 1..(Len(b) - 1 + 1) : y[i] = x[1 + i - 1]
  BY ONLY <1>2, <1>3, SeqSlice
<1> HIDE DEF y
<1>5. Len(y) = Len(b) /\ \A i \in 1..Len(b) : y[i] = b[i]
  BY ONLY <1>2, <1>3, <1>4
<1>6. y = b
  BY ONLY SMTT(30), <1>4, <1>5, b \in Seq(Nat), SeqSame
<1> QED BY ONLY Zenon, <1>1, <1>6 DEF x, y

(***************************************************************************)
(* What the steps of a channel do to the scheduler's state.                *)
(***************************************************************************)

LEMMA ChanQueues ==
  /\ SendQ \in WaitQueue /\ RecvQ \in WaitQueue /\ SendQ # RecvQ
  /\ \A q \in WaitQueue : q \in Queue /\ q # Ready
  /\ Ready \in Queue /\ \A q \in Queue : q = Ready \/ q \in WaitQueue
  BY ChannelAssumption, QueueAssumption DEF Queue

LEMMA ChanFacts ==
  ASSUME ChanInv
  PROVE  /\ SchedInv /\ SchedTypeOK /\ NoTimers /\ ChanTypeOK /\ RingInv /\ NobodyWaitsInVain
         /\ queue \in Lists
         /\ queue[SendQ] \in Seq(Routine) /\ queue[RecvQ] \in Seq(Routine)
         /\ \A r \in Routine : CallInv(r)
<1>1. SchedInv /\ NoTimers /\ ChanTypeOK /\ RingInv /\ NobodyWaitsInVain /\ \A r \in Routine : CallInv(r)
  BY DEF ChanInv
<1>2. SchedTypeOK /\ queue \in Lists
  BY <1>1, InvLists DEF SchedInv
<1>3. queue[SendQ] \in Seq(Routine) /\ queue[RecvQ] \in Seq(Routine)
  BY <1>2, ChanQueues DEF SchedTypeOK
<1> QED BY <1>1, <1>2, <1>3

(* The coroutine that runs is in no list.                                  *)
LEMMA ChanRunning ==
  ASSUME SchedInv, pc = "coroutine"
  PROVE  current \in Routine /\ Unlinked(queue, current)
<1>1. SchedTypeOK /\ ControlInv /\ \A s \in Routine : RoutineOK(s)
  BY SplitInv
<1>2. current \in Routine
  BY <1>1 DEF SchedTypeOK, ControlInv
<1> QED BY <1>1, <1>2 DEF RoutineOK

(* The first routine of a queue of the channel is woken.                   *)
LEMMA ChanWake ==
  ASSUME ChanInv, pc \in {"idle", "coroutine"}, NEW q \in WaitQueue, queue[q] # <<>>,
         queue' = WakeFirst(q), state' = [state EXCEPT ![Head(queue[q])] = "READY"],
         UNCHANGED <<heap, fieldVars, active, current, pc, now, clock>>
  PROVE  /\ SchedInv' /\ NoTimers'
         /\ Head(queue[q]) \in Routine /\ Head(queue[q]) \in Range(queue[q])
         /\ queue'[q] = Tail(queue[q])
         /\ Range(queue'[q]) = Range(queue[q]) \ {Head(queue[q])}
         /\ \A p \in WaitQueue : p # q => queue'[p] = queue[p]
<1> DEFINE h == Head(queue[q])
<1>1. /\ SchedInv /\ SchedTypeOK /\ NoTimers /\ queue \in Lists
      /\ \A s \in Routine : RoutineOK(s)
  BY ChanFacts, SplitInv
<1>2. queue' = FirstToReady(queue, q)
  BY DEF WakeFirst, FirstToReady, Popped
<1>3. /\ queue' \in Lists
      /\ h \in Routine /\ h \in Range(queue[q])
      /\ Range(queue'[q]) = Range(queue[q]) \ {h}
      /\ Range(queue'[Ready]) = Range(queue[Ready]) \cup {h}
      /\ \A p \in WaitQueue : p # q => queue'[p] = queue[p]
  <2>1. FirstMoved(queue, queue', q)
    BY ONLY Zenon, <1>1, <1>2, q \in WaitQueue, queue[q] # <<>>, PopToReady
  <2> QED BY <2>1 DEF FirstMoved
<1>4. queue'[q] = Tail(queue[q])
  <2>1. q \in Queue /\ q # Ready /\ queue \in [Queue -> Seq(Routine)]
    BY <1>1, ChanQueues DEF SchedTypeOK
  <2>2. [queue EXCEPT ![q] = Tail(@)][q] = Tail(queue[q])
    BY <2>1
  <2> QED BY <2>1, <2>2 DEF WakeFirst, Enqueue
<1> HIDE DEF h
<1>5. \A p \in WaitQueue : p # q => h \notin Range(queue[p])
  BY <1>1, <1>3, ChanQueues DEF Lists, LinkedOnce
<1>6. \A s \in Routine, p \in WaitQueue :
        s \in Range(queue'[p]) <=> s \in Range(queue[p]) /\ s \notin {h}
  BY <1>3, <1>5
<1>7. state' = [state EXCEPT ![h] = "READY"]
  BY DEF h
<1>8. \A s \in Routine : /\ state'[s] = IF s \in {h} THEN "READY" ELSE state[s]
                         /\ condQ'[s] = IF s \in {h} THEN NoQueue ELSE condQ[s]
                         /\ heap'[s] = heap[s]
  <2>1. \A s \in Routine : state'[s] = IF s \in {h} THEN "READY" ELSE state[s]
    BY <1>1, <1>7 DEF SchedTypeOK
  <2>2. \A s \in Routine : condQ[s] = NoQueue /\ condQ' = condQ /\ heap' = heap
    BY <1>1 DEF NoTimers, fieldVars
  <2> QED BY <2>1, <2>2
<1>9. state[h] = "WAITING"
  BY <1>1, <1>3 DEF RoutineOK
<1>10. SchedTypeOK'
  <2>1. state' \in [Routine -> State]
    BY <1>1, <1>7 DEF SchedTypeOK, State
  <2>2. queue' \in [Queue -> Seq(Routine)]
    BY <1>3 DEF Lists
  <2> QED BY <1>1, <2>1, <2>2 DEF SchedTypeOK, fieldVars
<1>11. {h} \in SUBSET Routine /\ \A s \in {h} : state[s] = "WAITING"
  BY <1>3, <1>9
<1>12. \A s \in Routine : s \in Range(queue'[Ready]) <=> s \in Range(queue[Ready]) \/ s \in {h}
  BY <1>3
<1>13. current' = current /\ pc' = pc
  BY SMT
<1>14. SchedInv'
  BY ONLY Zenon, <1>1, <1>3, <1>6, <1>8, <1>10, <1>11, <1>12, <1>13, pc \in {"idle", "coroutine"},
          WakeAllStep
<1>15. NoTimers'
  BY <1>1 DEF NoTimers, fieldVars
<1> QED BY <1>3, <1>4, <1>14, <1>15 DEF h

(* The current coroutine suspends itself in a queue of the channel.        *)
LEMMA ChanBlock ==
  ASSUME ChanInv, pc = "coroutine", NEW q \in WaitQueue, SwapToMain,
         queue' = [queue EXCEPT ![q] = Append(@, current)],
         state' = [state EXCEPT ![current] = "WAITING"],
         UNCHANGED <<heap, fieldVars, active, now, clock>>
  PROVE  /\ SchedInv' /\ NoTimers'
         /\ current \in Routine /\ Unlinked(queue, current)
         /\ queue'[q] = Append(queue[q], current)
         /\ Range(queue'[q]) = Range(queue[q]) \cup {current}
         /\ \A p \in WaitQueue : p # q => queue'[p] = queue[p]
<1>1. SchedInv /\ SchedTypeOK /\ NoTimers /\ queue \in Lists
  BY ChanFacts
<1>2. current \in Routine /\ Unlinked(queue, current)
  BY <1>1, ChanRunning
<1>3. q \in Queue /\ q # Ready /\ queue' = Pushed(queue, q, current)
  BY ChanQueues DEF Pushed
<1>4. /\ Pushed(queue, q, current) \in Lists
      /\ Range(Pushed(queue, q, current)[q]) = Range(queue[q]) \cup {current}
      /\ \A p \in Queue : p # q => Pushed(queue, q, current)[p] = queue[p]
  BY ONLY SMTT(30), <1>1, <1>2, <1>3, PushBack
<1>5. /\ queue' \in Lists
      /\ Range(queue'[q]) = Range(queue[q]) \cup {current}
      /\ \A p \in Queue : p # q => queue'[p] = queue[p]
  BY ONLY Zenon, <1>3, <1>4
<1>6. queue'[q] = Append(queue[q], current)
  BY <1>1, <1>3 DEF SchedTypeOK
<1>7. \A p \in WaitQueue : p # q => queue'[p] = queue[p]
  BY <1>5, ChanQueues
<1>8. SchedTypeOK'
  <2>1. state' \in [Routine -> State]
    BY <1>1, <1>2 DEF SchedTypeOK, State
  <2>2. queue' \in [Queue -> Seq(Routine)]
    BY <1>5 DEF Lists
  <2> QED BY <1>1, <2>1, <2>2 DEF SchedTypeOK, fieldVars, SwapToMain, Location
<1>9. \A s \in Routine :
        s \in Range(queue'[Ready]) <=> s \in Range(queue[Ready]) \/ s \in {}
  BY <1>3, <1>5, ChanQueues
<1>10. \A s \in Routine, p \in WaitQueue :
         s \in Range(queue'[p]) <=> \/ s \in Range(queue[p]) /\ s \notin {}
                                    \/ s = current /\ p = q
  BY <1>5, <1>7
<1>11. \A s \in Routine : s # current =>
         /\ state'[s] = IF s \in {} THEN "READY" ELSE state[s]
         /\ condQ'[s] = IF s \in {} THEN NoQueue ELSE condQ[s]
         /\ heap'[s] = heap[s]
  <2>1. \A s \in Routine : s # current => state'[s] = state[s]
    BY <1>1 DEF SchedTypeOK
  <2> QED BY <2>1 DEF fieldVars
<1>12. state'[current] = "WAITING" /\ condQ'[current] = NoQueue /\ heap'[current] = 0
  BY <1>1, <1>2 DEF SchedTypeOK, NoTimers, fieldVars
<1>13. /\ pc = "coroutine" /\ pc' = "back" /\ UNCHANGED current
       /\ {} \in SUBSET Routine /\ \A s \in {} : state[s] = "WAITING"
  BY DEF SwapToMain
<1>14. SchedInv'
  BY ONLY Zenon, <1>1, <1>5, <1>8, <1>9, <1>10, <1>11, <1>12, <1>13, q \in WaitQueue, WaitStep
<1>15. NoTimers'
  BY <1>1 DEF NoTimers, fieldVars
<1> QED BY <1>2, <1>5, <1>6, <1>7, <1>14, <1>15

(* co_channel_close wakes everybody in both queues.                        *)
LEMMA ChanWakeAll ==
  ASSUME ChanInv, Close
  PROVE  /\ SchedInv' /\ NoTimers'
         /\ queue'[SendQ] = <<>> /\ queue'[RecvQ] = <<>>
<1> DEFINE a == queue[Ready]
           b == queue[RecvQ]
           c == queue[SendQ]
           W == Range(b) \cup Range(c)
<1>1. /\ SchedInv /\ SchedTypeOK /\ NoTimers /\ queue \in Lists /\ pc \in {"idle", "coroutine"}
  BY ChanFacts DEF Close, InClientCode
<1>2. \A s \in Routine : RoutineOK(s)
  BY <1>1, SplitInv
<1>3. /\ queue \in [Queue -> Seq(Routine)]
      /\ a \in Seq(Routine) /\ b \in Seq(Routine) /\ c \in Seq(Routine)
      /\ IsInjective(a) /\ IsInjective(b) /\ IsInjective(c)
      /\ \A r \in Routine : ~(r \in Range(a) /\ r \in Range(b))
      /\ \A r \in Routine : ~(r \in Range(a) /\ r \in Range(c))
      /\ \A r \in Routine : ~(r \in Range(b) /\ r \in Range(c))
  BY <1>1, ChanQueues DEF Lists, LinkedOnce
<1>4. /\ queue' = [queue EXCEPT ![Ready] = (a \o b) \o c, ![RecvQ] = <<>>, ![SendQ] = <<>>]
      /\ state' = [r \in Routine |-> IF r \in W THEN "READY" ELSE state[r]]
      /\ UNCHANGED <<heap, fieldVars, active, current, pc, now, clock>>
  BY DEF Close
<1>5. /\ queue' = [q \in Queue |-> IF q = Ready THEN (a \o b) \o c
                                   ELSE IF q \in {SendQ, RecvQ} THEN <<>> ELSE queue[q]]
  BY <1>3, <1>4, ChanQueues
<1> HIDE DEF a, b, c, W
<1>6. Range(a) \subseteq Routine /\ Range(b) \subseteq Routine /\ Range(c) \subseteq Routine
  BY <1>3, ListDomain
<1>7. Range(a) \cap Range(b) = {} /\ (Range(a) \cup Range(b)) \cap Range(c) = {}
  BY <1>3, <1>6
<1>8. a \o b \in Seq(Routine) /\ Range(a \o b) = Range(a) \cup Range(b) /\ IsInjective(a \o b)
  BY ONLY <1>3, <1>7, ListSplice
<1>9. /\ (a \o b) \o c \in Seq(Routine)
      /\ Range((a \o b) \o c) = (Range(a) \cup Range(b)) \cup Range(c)
      /\ IsInjective((a \o b) \o c)
  <2> DEFINE ab == a \o b
  <2>1. /\ ab \in Seq(Routine) /\ c \in Seq(Routine) /\ IsInjective(ab) /\ IsInjective(c)
        /\ Range(ab) \cap Range(c) = {} /\ Range(ab) = Range(a) \cup Range(b)
    BY ONLY Zenon, <1>3, <1>7, <1>8
  <2> HIDE DEF ab
  <2>2. ab \o c \in Seq(Routine) /\ Range(ab \o c) = Range(ab) \cup Range(c) /\ IsInjective(ab \o c)
    BY ONLY <2>1, ListSplice
  <2> QED BY ONLY Zenon, <2>1, <2>2 DEF ab
<1>10. /\ queue'[Ready] = (a \o b) \o c
       /\ queue'[SendQ] = <<>> /\ queue'[RecvQ] = <<>>
       /\ \A q \in WaitQueue : q \notin {SendQ, RecvQ} => queue'[q] = queue[q]
  BY <1>5, ChanQueues
<1>11. <<>> \in Seq(Routine) /\ Range(<<>>) = {} /\ IsInjective(<<>>)
  BY SMT DEF Range, IsInjective
<1>12. queue' \in [Queue -> Seq(Routine)]
  BY <1>3, <1>5, <1>9, <1>11
<1>13. \A s \in Routine : s \in Range(queue'[Ready]) <=> s \in Range(queue[Ready]) \/ s \in W
  BY <1>9, <1>10 DEF W, a
<1>14. \A s \in Routine, q \in WaitQueue :
         s \in Range(queue'[q]) <=> s \in Range(queue[q]) /\ s \notin W
  <2>1. ASSUME NEW s \in Routine, NEW q \in WaitQueue, q \notin {SendQ, RecvQ}, s \in Range(queue[q])
        PROVE  s \notin W
    BY <1>1, <2>1, ChanQueues DEF Lists, LinkedOnce, W, b, c
  <2>2. ASSUME NEW q \in WaitQueue, q \in {SendQ, RecvQ}
        PROVE  queue'[q] = <<>> /\ Range(queue[q]) \subseteq W
    BY <1>10, <2>2 DEF W, b, c
  <2> QED BY <1>10, <1>11, <2>1, <2>2
<1>15. LinkedOnce(queue')
  <2>1. ASSUME NEW q \in Queue PROVE IsInjective(queue'[q])
    BY <1>1, <1>5, <1>9, <1>11, <2>1 DEF Lists, LinkedOnce
  <2>2. ASSUME NEW p \in Queue, NEW q \in Queue, NEW r \in Routine,
               r \in Range(queue'[p]), r \in Range(queue'[q])
        PROVE  p = q
    <3>1. p = Ready <=> r \in Range(queue'[Ready])
      <4>1. CASE p = Ready
        BY <2>2, <4>1
      <4>2. CASE p # Ready
        <5>1. r \in Range(queue[p]) /\ r \notin W /\ p \in WaitQueue
          BY <1>14, <2>2, <4>2, ChanQueues
        <5>2. r \notin Range(queue[Ready])
          BY <1>1, <2>2, <4>2, <5>1, ChanQueues DEF Lists, LinkedOnce
        <5> QED BY <1>13, <4>2, <5>1, <5>2
      <4> QED BY <4>1, <4>2
    <3>2. q = Ready <=> r \in Range(queue'[Ready])
      <4>1. CASE q = Ready
        BY <2>2, <4>1
      <4>2. CASE q # Ready
        <5>1. r \in Range(queue[q]) /\ r \notin W /\ q \in WaitQueue
          BY <1>14, <2>2, <4>2, ChanQueues
        <5>2. r \notin Range(queue[Ready])
          BY <1>1, <2>2, <4>2, <5>1, ChanQueues DEF Lists, LinkedOnce
        <5> QED BY <1>13, <4>2, <5>1, <5>2
      <4> QED BY <4>1, <4>2
    <3>3. CASE p # Ready /\ q # Ready
      <4>1. r \in Range(queue[p]) /\ r \in Range(queue[q])
        BY <1>14, <2>2, <3>3, ChanQueues
      <4> QED BY <1>1, <2>2, <4>1 DEF Lists, LinkedOnce
    <3> QED BY <3>1, <3>2, <3>3
  <2> QED BY <2>1, <2>2 DEF LinkedOnce
<1>16. queue' \in Lists
  BY <1>12, <1>15 DEF Lists
<1>17. W \in SUBSET Routine /\ \A s \in W : state[s] = "WAITING"
  <2>1. W \in SUBSET Routine
    BY <1>6 DEF W
  <2> QED BY <1>2, <2>1, ChanQueues DEF W, b, c, RoutineOK
<1>18. \A s \in Routine : /\ state'[s] = IF s \in W THEN "READY" ELSE state[s]
                          /\ condQ'[s] = IF s \in W THEN NoQueue ELSE condQ[s]
                          /\ heap'[s] = heap[s]
  BY <1>1, <1>4 DEF NoTimers, fieldVars
<1>19. SchedTypeOK'
  <2>1. state' \in [Routine -> State]
    BY <1>1, <1>4 DEF SchedTypeOK, State
  <2> QED BY <1>1, <1>4, <1>12, <2>1 DEF SchedTypeOK, fieldVars
<1>20. SchedInv'
  BY ONLY Zenon, <1>1, <1>4, <1>13, <1>14, <1>16, <1>17, <1>18, <1>19, WakeAllStep
<1>21. NoTimers'
  BY <1>1, <1>4 DEF NoTimers, fieldVars
<1> QED BY <1>10, <1>20, <1>21

(* The scheduler, co_spawn and what a coroutine does beside channel calls  *)
(* leave the queues of the channel alone.                                  *)
LEMMA ChanSched ==
  ASSUME ChanInv, SchedStep
  PROVE  SchedInv' /\ NoTimers' /\ \A q \in WaitQueue : queue'[q] = queue[q]
<1>1. SchedInv /\ SchedTypeOK /\ NoTimers /\ queue \in [Queue -> Seq(Routine)]
  BY ChanFacts DEF SchedTypeOK
<1>2. ~(0 > 0)
  BY SMT
<1>3. \A q \in WaitQueue : q \in Queue /\ q # Ready
  BY ChanQueues
<1>4. CASE RunStart \/ SampleNow \/ TimersDone \/ PollTimeout \/ PollInterrupted \/ Recheck
  <2>1. SchedInv'
    BY <1>1, <1>4, LoopSteps
  <2>2. UNCHANGED <<queue, heap, condQ>>
    BY <1>4
    DEF RunStart, SampleNow, TimersDone, PollTimeout, PollInterrupted, Recheck, fieldVars
  <2> QED BY <1>1, <2>1, <2>2 DEF NoTimers
<1>5. ASSUME NEW r \in Routine PROVE ~(TimerStale(r) \/ TimerCond(r) \/ TimerIo(r) \/ TimerSleep(r))
  BY <1>1, <1>2 DEF NoTimers, TimerStale, TimerCond, TimerIo, TimerSleep, Expired
<1>6. CASE Schedule
  <2>1. SchedInv'
    BY <1>1, <1>6, ScheduleStep
  <2>2. queue' = [queue EXCEPT ![Ready] = Tail(queue[Ready])] /\ UNCHANGED <<heap, condQ>>
    BY <1>6 DEF Schedule, fieldVars
  <2> QED BY <1>1, <1>3, <2>1, <2>2 DEF NoTimers
<1>7. CASE SwitchBack
  <2>1. SchedInv'
    BY <1>1, <1>7, SwitchBackStep
  <2>2. UNCHANGED <<queue, heap, condQ>>
    BY <1>7 DEF SwitchBack, fieldVars
  <2> QED BY <1>1, <2>1, <2>2 DEF NoTimers
<1>8. CASE Destroy
  <2>1. SchedInv'
    BY <1>1, <1>8, DestroyStep
  <2>2. /\ queue' = [queue EXCEPT ![Ready] = <<>>] /\ UNCHANGED condQ
        /\ heap' = [r \in Routine |-> 0]
    BY <1>8 DEF Destroy, fieldVars
  <2> QED BY <1>1, <1>3, <2>1, <2>2 DEF NoTimers
<1>9. CASE \E r \in Routine : ClientSpawn(r)
  <2>1. PICK r \in Routine : Spawn(r)
    BY <1>9 DEF ClientSpawn
  <2>2. SchedInv'
    BY <1>1, <2>1, SpawnStep
  <2>3. /\ queue' = [queue EXCEPT ![Ready] = Append(queue[Ready], r)] /\ UNCHANGED heap
        /\ condQ' = [condQ EXCEPT ![r] = NoQueue]
    BY <2>1 DEF Spawn, Enqueue
  <2>4. \A s \in Routine : condQ'[s] = NoQueue
    BY <1>1, <2>3 DEF NoTimers, SchedTypeOK
  <2> QED BY <1>1, <1>3, <2>2, <2>3, <2>4 DEF NoTimers
<1>10. CASE ClientSuspend
  <2>1. CASE Yield
    <3>1. SchedInv'
      BY <1>1, <2>1, YieldStep
    <3>2. queue' = [queue EXCEPT ![Ready] = Append(queue[Ready], current)] /\ UNCHANGED <<heap, condQ>>
      BY <2>1 DEF Yield, Enqueue, fieldVars
    <3> QED BY <1>1, <1>3, <3>1, <3>2 DEF NoTimers
  <2>2. CASE Finish
    <3>1. heap[current] = 0
      BY <1>1, <2>2, ChanRunning DEF Finish, NoTimers
    <3>2. SchedInv'
      BY <1>1, <2>2, <3>1, FinishStep
    <3>3. UNCHANGED <<queue, heap, condQ>>
      BY <2>2 DEF Finish, fieldVars
    <3> QED BY <1>1, <3>2, <3>3 DEF NoTimers
  <2> QED BY <1>10, <2>1, <2>2 DEF ClientSuspend
<1>11. CASE Gone
  <2>1. UNCHANGED schedVars
    BY <1>11 DEF Gone
  <2>2. SchedInv'
    BY <1>1, <2>1, SchedStays
  <2> QED BY <1>1, <2>1, <2>2 DEF schedVars, fieldVars, NoTimers
<1>12. CASE SchedulerStep
  BY <1>4, <1>5, <1>6, <1>7, <1>12 DEF SchedulerStep
<1> QED BY <1>4, <1>8, <1>9, <1>10, <1>11, <1>12 DEF SchedStep

(***************************************************************************)
(* Every action preserves ChanInv and is a step of the FIFO.               *)
(***************************************************************************)

Items == Buffered \o Offered

LEMMA BufferedIsRing ==
  /\ Buffered = Ring(capacity, slot, head, count)
  /\ Buffered' = Ring(capacity', slot', head', count')
  /\ Offered = Cells(cell, queue[SendQ])
  /\ Offered' = Cells(cell', queue'[SendQ])
  /\ Items = Buffered \o Offered /\ Items' = Buffered' \o Offered'
  BY DEF Buffered, Offered, Ring, Cells, Items

LEMMA NothingHeld ==
  /\ \A c, s, h : Ring(c, s, h, 0) = <<>>
  /\ \A c : Cells(c, <<>>) = <<>>
  /\ \A s \in Seq(Nat) : s \o <<>> = s /\ <<>> \o s = s
<1>1. \A c, s, h : Ring(c, s, h, 0) = <<>>
  BY SMT DEF Ring
<1>2. \A c : Cells(c, <<>>) = <<>>
  BY SMT DEF Cells
<1>3. \A s \in Seq(Nat) : s \o <<>> = s /\ <<>> \o s = s
  BY SMT
<1> QED BY <1>1, <1>2, <1>3

(* The two parts of the items of the FIFO.                                 *)
LEMMA ItemFacts ==
  ASSUME ChanInv
  PROVE  /\ Buffered \in Seq(Nat) /\ Len(Buffered) = count
         /\ Offered \in Seq(Nat) /\ Len(Offered) = Len(queue[SendQ])
         /\ count = 0 => Buffered = <<>>
         /\ queue[SendQ] = <<>> => Offered = <<>> /\ Items = Buffered
<1>1. RingInv /\ ChanTypeOK /\ queue[SendQ] \in Seq(Routine)
  BY ChanFacts
<1>2. Buffered \in Seq(Nat) /\ Len(Buffered) = count
  <2>1. /\ capacity \in Nat /\ count \in 0..capacity /\ head \in Nat /\ (capacity > 0 => head < capacity)
        /\ slot \in [0..(capacity - 1) -> Nat]
    BY <1>1 DEF RingInv
  <2>2. IsRing(capacity, slot, head, count)
    BY ONLY Zenon, <2>1, RingSeq
  <2> QED BY ONLY Zenon, <2>2, BufferedIsRing DEF IsRing
<1>3. Offered \in Seq(Nat) /\ Len(Offered) = Len(queue[SendQ])
  <2>1. cell \in [Routine -> Nat]
    BY <1>1 DEF ChanTypeOK
  <2> QED BY ONLY Zenon, <1>1, <2>1, CellsSeq, BufferedIsRing
<1>4. count = 0 => Buffered = <<>>
  BY BufferedIsRing, NothingHeld
<1>5. queue[SendQ] = <<>> => Offered = <<>> /\ Items = Buffered
  BY <1>2, BufferedIsRing, NothingHeld
<1> QED BY <1>2, <1>3, <1>4, <1>5

(* A routine that a step does not touch.                                   *)
LEMMA CallStays ==
  ASSUME NEW r \in Routine, CallInv(r), call'[r] = call[r], cell'[r] = cell[r], closed => closed',
         r \in Range(queue'[RecvQ]) <=> r \in Range(queue[RecvQ]),
         r \in Range(queue'[SendQ]) <=> r \in Range(queue[SendQ]),
         Accepted \subseteq Accepted'
  PROVE  CallInv(r)'
  BY DEF CallInv

LEMMA DeliveredGrows ==
  ASSUME ChanInv, NEW v \in Nat, delivered' = Append(delivered, v)
  PROVE  /\ delivered' \in Seq(Nat)
         /\ Range(delivered') = Range(delivered) \cup {v}
<1>1. delivered \in Seq(Nat)
  BY ChanFacts DEF ChanTypeOK
<1> QED BY ONLY <1>1, v \in Nat, delivered' = Append(delivered, v), ListPushBack

(* co_channel_send finds a receiver.                                       *)
LEMMA HandStep ==
  ASSUME ChanInv, TrySend, HandToReceiver(sends + 1)
  PROVE  ChanInv' /\ Fifo!Pass(sends + 1)
<1> DEFINE h == Head(queue[RecvQ])
           v == sends + 1
<1>1. /\ queue[RecvQ] # <<>> /\ pc \in {"idle", "coroutine"} /\ ~closed
      /\ cell' = [cell EXCEPT ![h] = v] /\ delivered' = Append(delivered, v) /\ sends' = v
      /\ queue' = WakeFirst(RecvQ) /\ state' = [state EXCEPT ![h] = "READY"]
      /\ UNCHANGED <<heap, fieldVars, active, current, pc, now, clock, capacity, ringVars, closed, call>>
  BY DEF TrySend, HandToReceiver, InClientCode
<1>2. /\ ChanTypeOK /\ RingInv /\ NobodyWaitsInVain /\ \A r \in Routine : CallInv(r)
      /\ RecvQ \in WaitQueue /\ SendQ \in WaitQueue /\ SendQ # RecvQ
  BY ChanFacts, ChanQueues
<1>3. count = 0 /\ queue[SendQ] = <<>>
  BY <1>1, <1>2 DEF NobodyWaitsInVain
<1>4. /\ SchedInv' /\ NoTimers' /\ h \in Routine /\ h \in Range(queue[RecvQ])
      /\ Range(queue'[RecvQ]) = Range(queue[RecvQ]) \ {h}
      /\ queue'[SendQ] = queue[SendQ]
  BY <1>1, <1>2, ChanWake
<1>5. v \in Nat /\ v # 0
  BY ONLY <1>2 DEF ChanTypeOK
<1> HIDE DEF h, v
<1>6. delivered' \in Seq(Nat) /\ Range(delivered') = Range(delivered) \cup {v}
  BY <1>1, <1>5, DeliveredGrows
<1>7. ChanTypeOK'
  BY <1>1, <1>2, <1>4, <1>5, <1>6 DEF ChanTypeOK
<1>8. RingInv'
  BY <1>1, <1>2 DEF RingInv, ringVars
<1>9. NobodyWaitsInVain'
  BY <1>1, <1>3, <1>4 DEF NobodyWaitsInVain, ringVars
<1>10. /\ Buffered' = Buffered /\ Offered = <<>> /\ Offered' = <<>>
       /\ Items = <<>> /\ Items' = <<>>
  <2>1. Buffered' = Buffered
    BY <1>1, BufferedIsRing DEF ringVars
  <2>2. Buffered = <<>> /\ Offered = <<>> /\ Items = Buffered
    BY <1>3, ItemFacts
  <2>3. Offered' = <<>>
    BY <1>3, <1>4, BufferedIsRing, NothingHeld
  <2>4. Items = <<>> \o <<>> /\ Items' = <<>> \o <<>>
    BY <2>1, <2>2, <2>3, BufferedIsRing
  <2> QED BY <2>1, <2>2, <2>3, <2>4
<1>11. Accepted \subseteq Accepted'
  BY <1>6, <1>10 DEF Accepted
<1>12. ASSUME NEW r \in Routine PROVE CallInv(r)'
  <2>1. CASE r = h
    <3>1. call'[r] = "recv" /\ r \notin Range(queue'[RecvQ]) /\ cell'[r] = v
      BY <1>1, <1>2, <1>4, <2>1 DEF CallInv, ChanTypeOK
    <3>2. r \notin Range(queue'[SendQ])
      BY <1>2, <1>4, <2>1 DEF CallInv
    <3> QED BY <1>5, <3>1, <3>2 DEF CallInv, NoMessage
  <2>2. CASE r # h
    <3>1. call'[r] = call[r] /\ cell'[r] = cell[r]
      BY <1>1, <1>2, <2>2 DEF ChanTypeOK
    <3> QED BY <1>1, <1>2, <1>4, <1>11, <2>2, <3>1, CallStays
  <2> QED BY <2>1, <2>2
<1>13. ChanInv'
  BY <1>4, <1>7, <1>8, <1>9, <1>12 DEF ChanInv
<1>14. Fifo!Pass(v)
  BY <1>1, <1>10 DEF Fifo!Pass, Items
<1> QED BY <1>13, <1>14 DEF v

LEMMA ChanStays ==
  ASSUME SchedInv, NoTimers, UNCHANGED schedVars
  PROVE  SchedInv' /\ NoTimers'
  BY SchedStays DEF NoTimers, schedVars, fieldVars

(* co_channel_send finds room in the buffer.                               *)
LEMMA PutStep ==
  ASSUME ChanInv, TrySend, PutInBuffer(sends + 1)
  PROVE  ChanInv' /\ Fifo!Put(sends + 1)
<1> DEFINE v == sends + 1
<1>1. /\ queue[RecvQ] = <<>> /\ count < capacity /\ ~closed
      /\ slot' = [slot EXCEPT ![tail] = v] /\ tail' = (tail + 1) % capacity /\ count' = count + 1
      /\ sends' = v
      /\ UNCHANGED <<state, queue, cell, delivered, head>>
      /\ UNCHANGED <<heap, fieldVars, active, current, pc, now, clock, capacity, closed, call>>
  BY DEF TrySend, PutInBuffer
<1>2. /\ SchedInv /\ NoTimers
      /\ ChanTypeOK /\ RingInv /\ NobodyWaitsInVain /\ \A r \in Routine : CallInv(r)
  BY ChanFacts DEF ChanInv
<1>3. SchedInv' /\ NoTimers'
  BY <1>1, <1>2, ChanStays DEF schedVars
<1>4. count # capacity /\ capacity > 0 /\ count \in 0..(capacity - 1) /\ head \in 0..(capacity - 1)
      /\ tail = (head + count) % capacity /\ capacity \in Nat /\ slot \in [0..(capacity - 1) -> Nat]
      /\ capacity # 0 /\ v \in Nat /\ capacity \in Nat \ {0}
  BY ONLY <1>1, <1>2 DEF RingInv, ChanTypeOK
<1>5. queue[SendQ] = <<>>
  BY <1>2, <1>4 DEF NobodyWaitsInVain
<1> HIDE DEF v
<1>6. /\ slot' \in [0..(capacity - 1) -> Nat]
      /\ (tail + 1) % capacity = (head + (count + 1)) % capacity
      /\ Ring(capacity, slot', head, count + 1) = Append(Ring(capacity, slot, head, count), v)
  <2>1. slot' = With(slot, tail, v)
    BY <1>1 DEF With
  <2>2. PutLast(capacity, slot, head, count, tail, v, slot')
    BY ONLY Zenon, <1>4, <2>1, RingPut
  <2> QED BY <2>2 DEF PutLast
<1>7. RingInv'
  <2>1. count + 1 \in 0..capacity /\ head \in Nat /\ head < capacity /\ tail \in Nat
    BY ONLY <1>4
  <2>2. (tail + 1) % capacity \in Nat
    BY <1>4, <2>1, ModNat
  <2> QED BY <1>1, <1>4, <1>6, <2>1, <2>2 DEF RingInv
<1>8. ChanTypeOK'
  BY <1>1, <1>2, <1>4 DEF ChanTypeOK
<1>9. NobodyWaitsInVain'
  BY <1>1, <1>2, <1>5 DEF NobodyWaitsInVain
<1>10. /\ Buffered' = Append(Buffered, v) /\ Items = Buffered
       /\ Buffered \in Seq(Nat)
  BY <1>1, <1>5, <1>6, ItemFacts, BufferedIsRing
<1>11. Buffered' \in Seq(Nat) /\ Range(Buffered') = Range(Buffered) \cup {v}
  BY ONLY SMTT(30), <1>4, <1>10, ListPushBack
<1>12. Items' = Append(Items, v)
  <2>1. Offered' = <<>> /\ Items' = Buffered' \o Offered'
    BY <1>1, <1>5, BufferedIsRing, NothingHeld
  <2> QED BY <2>1, <1>10, <1>11, NothingHeld
<1>13. Accepted \subseteq Accepted'
  BY <1>1, <1>11 DEF Accepted
<1>14. ASSUME NEW r \in Routine PROVE CallInv(r)'
  BY <1>1, <1>2, <1>13, CallStays
<1>15. ChanInv'
  BY <1>3, <1>7, <1>8, <1>9, <1>14 DEF ChanInv
<1>16. Fifo!Put(v)
  BY <1>1, <1>12 DEF Fifo!Put, Items
<1> QED BY <1>15, <1>16 DEF v

(* co_channel_send waits.                                                  *)
LEMMA SendBlocksStep ==
  ASSUME ChanInv, SendBlocks
  PROVE  ChanInv' /\ Fifo!Put(sends + 1)
<1> DEFINE v == sends + 1
<1>1. /\ queue[RecvQ] = <<>> /\ count >= capacity /\ ~closed /\ pc = "coroutine"
      /\ cell' = [cell EXCEPT ![current] = v] /\ sends' = v
      /\ state' = [state EXCEPT ![current] = "WAITING"]
      /\ queue' = [queue EXCEPT ![SendQ] = Append(queue[SendQ], current)]
      /\ call' = [call EXCEPT ![current] = "send"]
      /\ SwapToMain
      /\ UNCHANGED <<heap, fieldVars, active, now, clock, capacity, ringVars, closed, delivered>>
  BY DEF SendBlocks
<1>2. /\ ChanTypeOK /\ RingInv /\ NobodyWaitsInVain /\ \A r \in Routine : CallInv(r)
      /\ RecvQ \in WaitQueue /\ SendQ \in WaitQueue /\ SendQ # RecvQ
      /\ queue[SendQ] \in Seq(Routine)
  BY ChanFacts, ChanQueues
<1>3. /\ SchedInv' /\ NoTimers' /\ current \in Routine
      /\ Unlinked(queue, current)
      /\ queue'[SendQ] = Append(queue[SendQ], current)
      /\ Range(queue'[SendQ]) = Range(queue[SendQ]) \cup {current}
      /\ queue'[RecvQ] = queue[RecvQ]
  BY <1>1, <1>2, ChanBlock
<1>4. count = capacity /\ v \in Nat
  BY ONLY <1>1, <1>2 DEF RingInv, ChanTypeOK
<1> HIDE DEF v
<1>5. current \notin Range(queue[SendQ]) /\ current \notin Range(queue[RecvQ])
  BY <1>2, <1>3 DEF Unlinked, Queue
<1>6. RingInv'
  BY <1>1, <1>2 DEF RingInv, ringVars
<1>7. ChanTypeOK'
  BY <1>1, <1>2, <1>3, <1>4 DEF ChanTypeOK
<1>8. NobodyWaitsInVain'
  BY <1>1, <1>3, <1>4 DEF NobodyWaitsInVain, ringVars
<1>9. Buffered' = Buffered
  BY <1>1, BufferedIsRing DEF ringVars
<1>10. Offered' = Append(Offered, v)
  <2>1. cell \in [Routine -> Nat] /\ cell' = With(cell, current, v)
    BY <1>1, <1>2 DEF ChanTypeOK, With
  <2>2. OfferLast(cell, queue[SendQ], current, v, cell')
    BY ONLY Zenon, <1>2, <1>3, <1>4, <1>5, <2>1, CellsPush
  <2> QED BY <1>3, <2>2, BufferedIsRing DEF OfferLast
<1>11. Items' = Append(Items, v)
  <2>1. Buffered \in Seq(Nat) /\ Offered \in Seq(Nat)
    BY ItemFacts
  <2>2. Buffered \o Append(Offered, v) = Append(Buffered \o Offered, v)
    BY ONLY <2>1, <1>4, OfferBehind
  <2> QED BY <1>9, <1>10, <2>2, BufferedIsRing
<1>12. Accepted' = Accepted
  BY <1>1, <1>9 DEF Accepted
<1>13. ASSUME NEW r \in Routine PROVE CallInv(r)'
  <2>1. CASE r = current
    <3>1. call'[r] = "send" /\ r \in Range(queue'[SendQ]) /\ r \notin Range(queue'[RecvQ])
      BY <1>1, <1>2, <1>3, <1>5, <2>1 DEF ChanTypeOK
    <3> QED BY <3>1 DEF CallInv
  <2>2. CASE r # current
    <3>1. call'[r] = call[r] /\ cell'[r] = cell[r]
      BY <1>1, <1>2, <2>2 DEF ChanTypeOK
    <3> QED BY <1>1, <1>2, <1>3, <1>12, <2>2, <3>1, CallStays
  <2> QED BY <2>1, <2>2
<1>14. ChanInv'
  BY <1>3, <1>6, <1>7, <1>8, <1>13 DEF ChanInv
<1>15. Fifo!Put(v)
  BY <1>1, <1>11 DEF Fifo!Put, Items
<1> QED BY <1>14, <1>15 DEF v

(* A message leaves the buffer, and a waiting sender's takes its place.    *)
LEMMA TakeFromBufferStep ==
  ASSUME ChanInv, TryRecv, TakeFromBuffer
  PROVE  ChanInv' /\ Fifo!Take
<1> DEFINE v == slot[head]
           b == Ring(capacity, slot, head, count)
<1>1. /\ count > 0 /\ delivered' = Append(delivered, v) /\ head' = (head + 1) % capacity
      /\ pc \in {"idle", "coroutine"}
      /\ UNCHANGED <<heap, fieldVars, active, current, pc, now, clock, capacity, closed, cell, call, sends>>
  BY DEF TryRecv, TakeFromBuffer, InClientCode
<1>2. /\ SchedInv /\ NoTimers
      /\ ChanTypeOK /\ RingInv /\ NobodyWaitsInVain /\ \A r \in Routine : CallInv(r)
      /\ RecvQ \in WaitQueue /\ SendQ \in WaitQueue /\ SendQ # RecvQ
      /\ queue[SendQ] \in Seq(Routine)
  BY ChanFacts, ChanQueues
<1>3. /\ count # 0 /\ capacity > 0 /\ count \in 1..capacity /\ head \in 0..(capacity - 1)
      /\ tail = (head + count) % capacity /\ capacity \in Nat /\ slot \in [0..(capacity - 1) -> Nat]
      /\ v \in Nat /\ tail \in Nat
  BY ONLY <1>1, <1>2 DEF RingInv
<1>4. queue[RecvQ] = <<>>
  BY <1>2, <1>3 DEF NobodyWaitsInVain
<1>5. TakeFirst(capacity, slot, head, count, head')
  BY ONLY Zenon, <1>1, <1>3, RingTake
<1>6. /\ head' \in 0..(capacity - 1) /\ (head' + (count - 1)) % capacity = tail
      /\ b # <<>> /\ Head(b) = v /\ Ring(capacity, slot, head', count - 1) = Tail(b)
  BY <1>3, <1>5 DEF TakeFirst
<1>7. b = Buffered /\ b \in Seq(Nat) /\ Tail(b) \in Seq(Nat) /\ Range(b) = {v} \cup Range(Tail(b))
  <2>1. b = Buffered /\ b \in Seq(Nat)
    BY ItemFacts, BufferedIsRing
  <2>2. Tail(b) \in Seq(Nat)
    BY <1>6, <2>1, SeqTail
  <2>3. Range(b) = {Head(b)} \cup Range(Tail(b))
    BY <1>6, <2>1, RangeHeadTail
  <2> QED BY <1>6, <2>1, <2>2, <2>3
<1> HIDE DEF v, b
<1>8. delivered' \in Seq(Nat) /\ Range(delivered') = Range(delivered) \cup {v}
  BY <1>1, <1>3, DeliveredGrows
<1>9. ChanTypeOK'
  BY <1>1, <1>2, <1>8 DEF ChanTypeOK
<1>10. CASE queue[SendQ] = <<>>
  <2>1. count' = count - 1 /\ UNCHANGED <<state, queue, slot, tail>>
    BY <1>10 DEF TakeFromBuffer
  <2>2. SchedInv' /\ NoTimers'
    BY <1>1, <1>2, <2>1, ChanStays DEF schedVars
  <2>3. RingInv'
    BY ONLY SMTT(30), <1>1, <1>2, <1>3, <1>6, <2>1 DEF RingInv
  <2>4. NobodyWaitsInVain'
    BY <1>4, <1>10, <2>1 DEF NobodyWaitsInVain
  <2>5. Buffered' = Tail(b)
    BY <1>1, <1>6, <2>1, BufferedIsRing
  <2>6. Items = b /\ Items' = Tail(b)
    <3>1. Items = b
      BY <1>7, <1>10, ItemFacts
    <3>2. Offered' = <<>> /\ Items' = Buffered' \o Offered'
      BY <1>10, <2>1, BufferedIsRing, NothingHeld
    <3> QED BY <1>7, <2>5, <3>1, <3>2, NothingHeld
  <2>7. Accepted \subseteq Accepted'
    BY <1>7, <1>8, <2>5 DEF Accepted
  <2>8. ASSUME NEW r \in Routine PROVE CallInv(r)'
    BY <1>1, <1>2, <2>1, <2>7, CallStays
  <2>9. ChanInv'
    BY <1>9, <2>2, <2>3, <2>4, <2>8 DEF ChanInv
  <2>10. Fifo!Take
    BY <1>1, <1>6, <2>6 DEF Fifo!Take, Items
  <2> QED BY <2>9, <2>10
<1>11. CASE queue[SendQ] # <<>>
  <2> DEFINE h == Head(queue[SendQ])
             w == cell[h]
  <2>1. /\ slot' = With(slot, tail, w) /\ tail' = (tail + 1) % capacity
        /\ state' = [state EXCEPT ![Head(queue[SendQ])] = "READY"]
        /\ queue' = WakeFirst(SendQ) /\ count' = count
    BY <1>11 DEF TakeFromBuffer, With
  <2>2. /\ SchedInv' /\ NoTimers' /\ h \in Routine /\ h \in Range(queue[SendQ])
        /\ queue'[SendQ] = Tail(queue[SendQ])
        /\ Range(queue'[SendQ]) = Range(queue[SendQ]) \ {h}
        /\ queue'[RecvQ] = queue[RecvQ]
    BY <1>1, <1>2, <1>11, <2>1, ChanWake
  <2>3. w \in Nat /\ OfferFirst(cell, queue[SendQ])
    BY <1>2, <1>11, <2>2, CellsPop DEF ChanTypeOK
  <2>4. /\ Offered # <<>> /\ Head(Offered) = w /\ Offered' = Tail(Offered)
        /\ Offered \in Seq(Nat)
    BY <1>1, <2>2, <2>3, ItemFacts, BufferedIsRing DEF OfferFirst
  <2> HIDE DEF h, w
  <2>5. count = capacity
    BY <1>2, <1>11 DEF NobodyWaitsInVain
  <2>6. PutLast(capacity, slot, head', count - 1, tail, w, slot')
    <3>1. count - 1 \in 0..(capacity - 1) /\ tail = (head' + (count - 1)) % capacity
      BY ONLY <1>3, <1>6
    <3> QED BY ONLY Zenon, <1>3, <1>6, <2>1, <2>3, <3>1, RingPut
  <2>7. /\ slot' \in [0..(capacity - 1) -> Nat] /\ tail' = (head' + count) % capacity
        /\ Ring(capacity, slot', head', count) = Append(Tail(b), w)
    <3>1. (count - 1) + 1 = count
      BY ONLY <1>3
    <3> QED BY <1>6, <2>1, <2>6, <3>1 DEF PutLast
  <2>8. RingInv'
    <3>1. /\ capacity' = capacity /\ count' = count /\ tail' = (head' + count) % capacity
          /\ capacity \in Nat /\ capacity > 0 /\ count \in 1..capacity
          /\ head' \in 0..(capacity - 1) /\ slot' \in [0..(capacity - 1) -> Nat]
      BY <1>1, <1>3, <1>6, <2>1, <2>7
    <3>2. tail' \in Nat
      BY <1>3, <2>1, ModNat
    <3>3. count \in 0..capacity /\ head' \in Nat /\ head' < capacity
      BY ONLY <3>1
    <3> QED BY <3>1, <3>2, <3>3 DEF RingInv
  <2>9. NobodyWaitsInVain'
    <3>1. ~closed' /\ queue'[RecvQ] = <<>> /\ count' = capacity'
      BY <1>1, <1>2, <1>4, <1>11, <2>1, <2>2, <2>5 DEF NobodyWaitsInVain
    <3> QED BY <3>1 DEF NobodyWaitsInVain
  <2>10. Buffered' = Append(Tail(b), w)
    BY <1>1, <2>1, <2>7, BufferedIsRing
  <2>11. Range(Buffered') = Range(Tail(b)) \cup {w}
    <3> DEFINE tl == Tail(b)
    <3>1. tl \in Seq(Nat) /\ w \in Nat
      BY <1>7, <2>3
    <3> HIDE DEF tl
    <3>2. Range(Append(tl, w)) = Range(tl) \cup {w}
      BY ONLY <3>1, ListPushBack
    <3> QED BY <2>10, <3>2 DEF tl
  <2>12. Items # <<>> /\ Head(Items) = v /\ Items' = Tail(Items)
    <3>1. /\ b \o Offered # <<>> /\ Head(b \o Offered) = Head(b)
          /\ Tail(b \o Offered) = Append(Tail(b), Head(Offered)) \o Tail(Offered)
      BY ONLY Zenon, <1>6, <1>7, <2>4, TakeAndRefill
    <3> QED BY <1>6, <1>7, <2>4, <2>10, <3>1, BufferedIsRing
  <2>13. Accepted \subseteq Accepted' /\ w \in Accepted'
    BY <1>7, <1>8, <2>11 DEF Accepted
  <2>14. ASSUME NEW r \in Routine PROVE CallInv(r)'
    <3>1. CASE r = h
      <4>1. call'[r] = "send" /\ r \notin Range(queue'[SendQ]) /\ cell'[r] = w
        BY <1>1, <1>2, <2>2, <3>1 DEF CallInv, w
      <4>2. r \notin Range(queue'[RecvQ])
        BY <1>2, <2>2, <3>1 DEF CallInv
      <4> QED BY <2>13, <4>1, <4>2 DEF CallInv
    <3>2. CASE r # h
      BY <1>1, <1>2, <2>2, <2>13, <3>2, CallStays
    <3> QED BY <3>1, <3>2
  <2>15. ChanInv'
    BY <1>9, <2>2, <2>8, <2>9, <2>14 DEF ChanInv
  <2>16. Fifo!Take
    BY <1>1, <2>12 DEF Fifo!Take, Items
  <2> QED BY <2>15, <2>16
<1> QED BY <1>10, <1>11

(* The buffer is empty, a waiting sender's message is taken.               *)
LEMMA TakeFromSenderStep ==
  ASSUME ChanInv, TryRecv, TakeFromSender
  PROVE  ChanInv' /\ Fifo!Take
<1> DEFINE h == Head(queue[SendQ])
           v == cell[h]
<1>1. /\ count = 0 /\ queue[SendQ] # <<>> /\ pc \in {"idle", "coroutine"}
      /\ delivered' = Append(delivered, v)
      /\ state' = [state EXCEPT ![Head(queue[SendQ])] = "READY"] /\ queue' = WakeFirst(SendQ)
      /\ UNCHANGED ringVars
      /\ UNCHANGED <<heap, fieldVars, active, current, pc, now, clock, capacity, closed, cell, call, sends>>
  BY DEF TryRecv, TakeFromSender, InClientCode
<1>2. /\ ChanTypeOK /\ RingInv /\ NobodyWaitsInVain /\ \A r \in Routine : CallInv(r)
      /\ RecvQ \in WaitQueue /\ SendQ \in WaitQueue /\ SendQ # RecvQ
      /\ queue[SendQ] \in Seq(Routine)
  BY ChanFacts, ChanQueues
<1>3. /\ SchedInv' /\ NoTimers' /\ h \in Routine /\ h \in Range(queue[SendQ])
      /\ queue'[SendQ] = Tail(queue[SendQ])
      /\ Range(queue'[SendQ]) = Range(queue[SendQ]) \ {h}
      /\ queue'[RecvQ] = queue[RecvQ]
  BY <1>1, <1>2, ChanWake
<1>4. v \in Nat /\ OfferFirst(cell, queue[SendQ])
  BY <1>1, <1>2, <1>3, CellsPop DEF ChanTypeOK
<1>5. /\ Offered # <<>> /\ Head(Offered) = v /\ Offered' = Tail(Offered)
      /\ Offered \in Seq(Nat) /\ Buffered = <<>> /\ Buffered' = <<>>
  BY <1>1, <1>3, <1>4, ItemFacts, BufferedIsRing, NothingHeld DEF OfferFirst, ringVars
<1> HIDE DEF h, v
<1>6. delivered' \in Seq(Nat) /\ Range(delivered') = Range(delivered) \cup {v}
  BY <1>1, <1>4, DeliveredGrows
<1>7. ChanTypeOK' /\ RingInv'
  BY <1>1, <1>2, <1>6 DEF ChanTypeOK, RingInv, ringVars
<1>8. NobodyWaitsInVain'
  <2>1. ~closed /\ queue[RecvQ] = <<>> /\ count = capacity
    BY <1>1, <1>2 DEF NobodyWaitsInVain
  <2>2. ~closed' /\ queue'[RecvQ] = <<>> /\ count' = capacity'
    BY <1>1, <1>3, <2>1 DEF ringVars
  <2> QED BY <2>2 DEF NobodyWaitsInVain
<1>9. Items = Offered /\ Items' = Tail(Offered)
  <2>1. Tail(Offered) \in Seq(Nat)
    BY <1>5, SeqTail
  <2> QED BY <1>5, <2>1, BufferedIsRing, NothingHeld
<1>10. Accepted \subseteq Accepted' /\ v \in Accepted'
  BY <1>5, <1>6 DEF Accepted
<1>11. ASSUME NEW r \in Routine PROVE CallInv(r)'
  <2>1. CASE r = h
    <3>1. call'[r] = "send" /\ r \notin Range(queue'[SendQ]) /\ cell'[r] = v
      BY <1>1, <1>2, <1>3, <2>1 DEF CallInv, v
    <3>2. r \notin Range(queue'[RecvQ])
      BY <1>2, <1>3, <2>1 DEF CallInv
    <3> QED BY <1>10, <3>1, <3>2 DEF CallInv
  <2>2. CASE r # h
    BY <1>1, <1>2, <1>3, <1>10, <2>2, CallStays
  <2> QED BY <2>1, <2>2
<1>12. ChanInv'
  BY <1>3, <1>7, <1>8, <1>11 DEF ChanInv
<1>13. Fifo!Take
  BY <1>1, <1>5, <1>9 DEF Fifo!Take, Items
<1> QED BY <1>12, <1>13

(* What the FIFO does not see.                                             *)
LEMMA SameItems ==
  ASSUME ChanInv, UNCHANGED <<capacity, ringVars, closed, delivered>>,
         queue'[SendQ] = queue[SendQ], cell' \in [Routine -> Nat],
         \A r \in Routine : r \in Range(queue[SendQ]) => cell'[r] = cell[r]
  PROVE  /\ Items' = Items /\ Accepted' = Accepted
         /\ UNCHANGED Fifo!fifoVars
<1>1. Buffered' = Buffered
  BY BufferedIsRing DEF ringVars
<1>2. Offered' = Offered
  <2>1. /\ cell \in [Routine -> Nat] /\ queue[SendQ] \in Seq(Routine)
        /\ Range(queue[SendQ]) \subseteq Routine
    BY ChanFacts, ListDomain DEF ChanTypeOK
  <2>2. Cells(cell', queue[SendQ]) = Cells(cell, queue[SendQ])
    BY <2>1, CellsSame
  <2> QED BY <2>2, BufferedIsRing
<1> QED BY <1>1, <1>2 DEF Items, Accepted, Fifo!fifoVars

(* co_channel_recv waits.                                                  *)
LEMMA RecvBlocksStep ==
  ASSUME ChanInv, RecvBlocks
  PROVE  ChanInv' /\ UNCHANGED Fifo!fifoVars
<1>1. /\ count = 0 /\ queue[SendQ] = <<>> /\ ~closed /\ pc = "coroutine"
      /\ cell' = [cell EXCEPT ![current] = NoMessage]
      /\ state' = [state EXCEPT ![current] = "WAITING"]
      /\ queue' = [queue EXCEPT ![RecvQ] = Append(queue[RecvQ], current)]
      /\ call' = [call EXCEPT ![current] = "recv"]
      /\ SwapToMain
      /\ UNCHANGED <<heap, fieldVars, active, now, clock, capacity, ringVars, closed, sends, delivered>>
  BY DEF RecvBlocks
<1>2. /\ ChanTypeOK /\ RingInv /\ NobodyWaitsInVain /\ \A r \in Routine : CallInv(r)
      /\ RecvQ \in WaitQueue /\ SendQ \in WaitQueue /\ SendQ # RecvQ
  BY ChanFacts, ChanQueues
<1>3. /\ SchedInv' /\ NoTimers' /\ current \in Routine
      /\ Unlinked(queue, current)
      /\ Range(queue'[RecvQ]) = Range(queue[RecvQ]) \cup {current}
      /\ queue'[SendQ] = queue[SendQ]
  BY <1>1, <1>2, ChanBlock
<1>4. current \notin Range(queue[SendQ]) /\ current \notin Range(queue[RecvQ])
  BY <1>2, <1>3 DEF Unlinked, Queue
<1>5. NoMessage \in Nat
  BY SMT DEF NoMessage
<1>6. ChanTypeOK' /\ RingInv'
  BY <1>1, <1>2, <1>3, <1>5 DEF ChanTypeOK, RingInv, ringVars
<1>7. NobodyWaitsInVain'
  <2>1. ~closed' /\ queue'[SendQ] = <<>> /\ count' = 0
    BY <1>1, <1>3 DEF ringVars
  <2> QED BY <2>1 DEF NobodyWaitsInVain
<1>8. \A r \in Routine : r # current => call'[r] = call[r] /\ cell'[r] = cell[r]
  BY <1>1, <1>2 DEF ChanTypeOK
<1>9. \A r \in Routine : r \in Range(queue[SendQ]) => cell'[r] = cell[r]
  BY <1>4, <1>8
<1>10. Accepted' = Accepted /\ UNCHANGED Fifo!fifoVars
  BY <1>1, <1>3, <1>6, <1>9, SameItems DEF ChanTypeOK
<1>11. ASSUME NEW r \in Routine PROVE CallInv(r)'
  <2>1. CASE r = current
    <3>1. call'[r] = "recv" /\ r \in Range(queue'[RecvQ]) /\ r \notin Range(queue'[SendQ])
      BY <1>1, <1>2, <1>3, <1>4, <2>1 DEF ChanTypeOK
    <3> QED BY <3>1 DEF CallInv
  <2>2. CASE r # current
    BY <1>1, <1>2, <1>3, <1>8, <1>10, <2>2, CallStays
  <2> QED BY <2>1, <2>2
<1> QED BY <1>3, <1>6, <1>7, <1>10, <1>11 DEF ChanInv

(* A suspended call returns.                                               *)
LEMMA ReturnStep ==
  ASSUME ChanInv, Return
  PROVE  ChanInv' /\ UNCHANGED Fifo!fifoVars
<1>1. /\ pc = "coroutine"
      /\ call' = [call EXCEPT ![current] = "none"] /\ cell' = [cell EXCEPT ![current] = NoMessage]
      /\ UNCHANGED <<capacity, ringVars, closed, sends, delivered, queue>> /\ UNCHANGED schedVars
  BY DEF Return, schedVars
<1>2. /\ SchedInv /\ NoTimers
      /\ ChanTypeOK /\ RingInv /\ NobodyWaitsInVain /\ \A r \in Routine : CallInv(r)
      /\ RecvQ \in WaitQueue /\ SendQ \in WaitQueue
  BY ChanFacts, ChanQueues
<1>3. SchedInv' /\ NoTimers'
  BY <1>1, <1>2, ChanStays
<1>4. current \in Routine /\ current \notin Range(queue[SendQ]) /\ current \notin Range(queue[RecvQ])
  BY <1>1, <1>2, ChanRunning DEF Unlinked, Queue
<1>5. NoMessage \in Nat
  BY SMT DEF NoMessage
<1>6. ChanTypeOK' /\ RingInv' /\ NobodyWaitsInVain'
  BY <1>1, <1>2, <1>5 DEF ChanTypeOK, RingInv, NobodyWaitsInVain, ringVars
<1>7. \A r \in Routine : r # current => call'[r] = call[r] /\ cell'[r] = cell[r]
  BY <1>1, <1>2 DEF ChanTypeOK
<1>8. \A r \in Routine : r \in Range(queue[SendQ]) => cell'[r] = cell[r]
  BY <1>4, <1>7
<1>9. Accepted' = Accepted /\ UNCHANGED Fifo!fifoVars
  BY <1>1, <1>6, <1>8, SameItems DEF ChanTypeOK
<1>10. ASSUME NEW r \in Routine PROVE CallInv(r)'
  <2>1. CASE r = current
    <3>1. call'[r] = "none" /\ r \notin Range(queue'[RecvQ]) /\ r \notin Range(queue'[SendQ])
      BY <1>1, <1>2, <1>4, <2>1 DEF ChanTypeOK
    <3> QED BY <3>1 DEF CallInv
  <2>2. CASE r # current
    BY <1>1, <1>2, <1>7, <1>9, <2>2, CallStays
  <2> QED BY <2>1, <2>2
<1> QED BY <1>3, <1>6, <1>9, <1>10 DEF ChanInv

(* co_channel_close wakes everybody; only what is in the buffer remains.   *)
LEMMA CloseStep ==
  ASSUME ChanInv, Close
  PROVE  ChanInv' /\ Fifo!CloseFifo
<1>1. /\ ~closed /\ closed' = TRUE
      /\ UNCHANGED <<capacity, ringVars, cell, call, sends, delivered>>
  BY DEF Close
<1>2. ChanTypeOK /\ RingInv /\ NobodyWaitsInVain /\ \A r \in Routine : CallInv(r)
  BY ChanFacts
<1>3. SchedInv' /\ NoTimers' /\ queue'[SendQ] = <<>> /\ queue'[RecvQ] = <<>>
  BY ChanWakeAll
<1>4. ChanTypeOK' /\ RingInv' /\ NobodyWaitsInVain'
  BY <1>1, <1>2, <1>3 DEF ChanTypeOK, RingInv, NobodyWaitsInVain, ringVars
<1>5. ASSUME NEW r \in Routine PROVE CallInv(r)'
  <2>1. r \notin Range(queue'[RecvQ]) /\ r \notin Range(queue'[SendQ])
    <3>1. r \notin Range(<<>>)
      BY SMT DEF Range
    <3> QED BY <1>3, <3>1
  <2> QED BY <1>1, <2>1 DEF CallInv
<1>6. /\ Buffered \in Seq(Nat) /\ Offered \in Seq(Nat) /\ Len(Buffered) = count
      /\ Len(Offered) = Len(queue[SendQ]) /\ Items = Buffered \o Offered
      /\ queue[SendQ] = <<>> => Items = Buffered
      /\ queue[SendQ] # <<>> => count = capacity
      /\ count \in Nat /\ capacity \in Nat /\ count <= capacity /\ queue[SendQ] \in Seq(Routine)
  <2>1. count \in Nat /\ capacity \in Nat /\ count <= capacity
    BY ONLY <1>2 DEF RingInv
  <2> QED BY <1>2, <2>1, ItemFacts, BufferedIsRing, ChanFacts DEF NobodyWaitsInVain
<1>7. Items' = Buffered
  <2>1. Buffered' = Buffered /\ Offered' = <<>>
    BY <1>1, <1>3, BufferedIsRing, NothingHeld DEF ringVars
  <2> QED BY <1>6, <2>1, BufferedIsRing, NothingHeld
<1>8. Items' = IF Len(Items) <= capacity THEN Items ELSE SubSeq(Items, 1, capacity)
  <2>1. CASE queue[SendQ] = <<>>
    BY <1>6, <1>7, <2>1
  <2>2. CASE queue[SendQ] # <<>>
    <3>1. Len(Items) = Len(Buffered) + Len(Offered) /\ SubSeq(Items, 1, Len(Buffered)) = Buffered
      BY <1>6, CutOffers
    <3>2. Len(queue[SendQ]) \in Nat /\ Len(queue[SendQ]) # 0
      BY <1>6, <2>2, SeqDomain
    <3>3. ~(Len(Items) <= capacity)
      <4>1. Len(Items) = capacity + Len(queue[SendQ])
        BY <1>6, <2>2, <3>1
      <4> QED BY ONLY SMTT(30), <1>6, <3>2, <4>1
    <3>4. SubSeq(Items, 1, capacity) = Buffered
      BY <1>6, <2>2, <3>1
    <3> QED BY <1>7, <3>3, <3>4
  <2> QED BY <2>1, <2>2
<1>9. ChanInv'
  BY <1>3, <1>4, <1>5 DEF ChanInv
<1>10. Fifo!CloseFifo
  BY <1>1, <1>8 DEF Fifo!CloseFifo, Items
<1> QED BY <1>9, <1>10

(* A step of the scheduler, or of a coroutine outside the channel.         *)
LEMMA ChanQuiet ==
  ASSUME ChanInv, UNCHANGED chanVars, SchedInv', NoTimers',
         \A q \in WaitQueue : queue'[q] = queue[q]
  PROVE  ChanInv' /\ UNCHANGED Fifo!fifoVars
<1>1. UNCHANGED <<capacity, ringVars, closed, cell, call, sends, delivered>>
  BY DEF chanVars
<1>2. /\ ChanTypeOK /\ RingInv /\ NobodyWaitsInVain /\ \A r \in Routine : CallInv(r)
      /\ queue'[RecvQ] = queue[RecvQ] /\ queue'[SendQ] = queue[SendQ]
  BY ChanFacts, ChanQueues
<1>3. ChanTypeOK' /\ RingInv' /\ NobodyWaitsInVain'
  BY <1>1, <1>2 DEF ChanTypeOK, RingInv, NobodyWaitsInVain, ringVars
<1>4. Accepted' = Accepted /\ UNCHANGED Fifo!fifoVars
  BY <1>1, <1>2, <1>3, SameItems DEF ChanTypeOK
<1>5. ASSUME NEW r \in Routine PROVE CallInv(r)'
  BY <1>1, <1>2, <1>4, CallStays
<1> QED BY <1>3, <1>4, <1>5 DEF ChanInv

LEMMA ChanStart ==
  ASSUME ChannelInit
  PROVE  ChanInv /\ Fifo!FifoInit
<1>1. /\ SchedInit /\ capacity \in Capacities /\ slot = [i \in 0..(capacity - 1) |-> NoMessage]
      /\ head = 0 /\ tail = 0 /\ count = 0 /\ closed = FALSE
      /\ cell = [r \in Routine |-> NoMessage] /\ call = [r \in Routine |-> "none"]
      /\ sends = 0 /\ delivered = <<>>
  BY DEF ChannelInit
<1>2. capacity \in Nat
  BY <1>1, ChannelAssumption
<1>3. SchedInv
  BY <1>1, SchedStart
<1>4. NoTimers
  BY <1>1 DEF SchedInit, NoTimers
<1>5. ChanTypeOK
  <2>1. delivered \in Seq(Nat) /\ sends \in Nat /\ NoMessage \in Nat
    BY SMT, <1>1 DEF NoMessage
  <2> QED BY <1>1, <2>1 DEF ChanTypeOK
<1>6. RingInv
  BY SMTT(30), <1>1, <1>2 DEF RingInv, NoMessage
<1>7. queue[SendQ] = <<>> /\ queue[RecvQ] = <<>>
  BY <1>1, ChanQueues DEF SchedInit
<1>8. NobodyWaitsInVain
  BY <1>1, <1>7 DEF NobodyWaitsInVain
<1>9. ASSUME NEW r \in Routine PROVE CallInv(r)
  <2>1. r \notin Range(<<>>)
    BY SMT DEF Range
  <2> QED BY <1>1, <1>7, <2>1 DEF CallInv
<1>10. ChanInv
  BY <1>3, <1>4, <1>5, <1>6, <1>8, <1>9 DEF ChanInv
<1>11. Items = <<>>
  BY <1>1, <1>7, <1>10, ItemFacts
<1> QED BY <1>1, <1>2, <1>10, <1>11 DEF Fifo!FifoInit, Items

LEMMA ChanNext ==
  ASSUME ChanInv, [Next]_vars
  PROVE  ChanInv' /\ [Fifo!FifoNext]_(Fifo!fifoVars)
<1>1. CASE TrySend
  <2>1. sends + 1 \in Message
    <3>1. sends \in Nat /\ sends < MaxMessages /\ MaxMessages \in Nat
      BY <1>1, ChanFacts, ChannelAssumption DEF ChanTypeOK, TrySend
    <3> QED BY ONLY <3>1 DEF Message
  <2>2. CASE HandToReceiver(sends + 1)
    BY <1>1, <2>1, <2>2, HandStep DEF Fifo!FifoNext
  <2>3. CASE PutInBuffer(sends + 1)
    BY <1>1, <2>1, <2>3, PutStep DEF Fifo!FifoNext
  <2> QED BY <1>1, <2>2, <2>3 DEF TrySend
<1>2. CASE SendBlocks
  <2>1. sends + 1 \in Message
    <3>1. sends \in Nat /\ sends < MaxMessages /\ MaxMessages \in Nat
      BY <1>2, ChanFacts, ChannelAssumption DEF ChanTypeOK, SendBlocks
    <3> QED BY ONLY <3>1 DEF Message
  <2> QED BY <1>2, <2>1, SendBlocksStep DEF Fifo!FifoNext
<1>3. CASE TryRecv
  <2>1. CASE TakeFromBuffer
    BY <1>3, <2>1, TakeFromBufferStep DEF Fifo!FifoNext
  <2>2. CASE TakeFromSender
    BY <1>3, <2>2, TakeFromSenderStep DEF Fifo!FifoNext
  <2> QED BY <1>3, <2>1, <2>2 DEF TryRecv
<1>4. CASE RecvBlocks \/ Return
  BY <1>4, RecvBlocksStep, ReturnStep
<1>5. CASE Close
  BY <1>5, CloseStep DEF Fifo!FifoNext
<1>6. CASE SchedStep
  <2>1. UNCHANGED chanVars
    BY <1>6 DEF SchedStep
  <2>2. SchedInv' /\ NoTimers' /\ \A q \in WaitQueue : queue'[q] = queue[q]
    BY <1>6, ChanSched
  <2> QED BY <2>1, <2>2, ChanQuiet
<1>7. CASE UNCHANGED vars
  <2>1. UNCHANGED chanVars /\ UNCHANGED schedVars
    BY <1>7 DEF vars
  <2>2. SchedInv' /\ NoTimers' /\ \A q \in WaitQueue : queue'[q] = queue[q]
    BY <2>1, ChanFacts, ChanStays DEF schedVars
  <2> QED BY <2>1, <2>2, ChanQuiet
<1> QED BY <1>1, <1>2, <1>3, <1>4, <1>5, <1>6, <1>7 DEF Next, ChannelCall

------------------------------------------------------------------------------

(* The ring buffer, the wait queues and who is in which call agree in      *)
(* every reachable state of a channel of co_channel.c: the invariant       *)
(* behind the results below.                                               *)
THEOREM ChanInvariant == Spec => []ChanInv
<1>1. ChannelInit => ChanInv
  BY ChanStart
<1>2. ChanInv /\ [Next]_vars => ChanInv'
  BY ChanNext
<1> QED BY <1>1, <1>2, PTL DEF Spec

(* co_channel.c keeps nobody waiting for what is there.                    *)
THEOREM NobodyWaitsForNothing == Spec => []NobodyWaitsInVain
<1>1. ChanInv => NobodyWaitsInVain
  BY DEF ChanInv
<1> QED BY <1>1, ChanInvariant, PTL

(* co_channel_send and co_channel_recv, when they return CO_OK after they  *)
(* waited, have done what was asked of them.                               *)
THEOREM OkIsDone == Spec => []OkMeansDone
<1>1. ChanInv => OkMeansDone
  <2> SUFFICES ASSUME ChanInv, pc = "coroutine", ~closed
               PROVE  /\ call[current] = "recv" => cell[current] # NoMessage
                      /\ call[current] = "send" => cell[current] \in Accepted
    BY DEF OkMeansDone
  <2>1. current \in Routine /\ Unlinked(queue, current)
    BY ChanFacts, ChanRunning
  <2>2. current \notin Range(queue[SendQ]) /\ current \notin Range(queue[RecvQ])
    BY <2>1, ChanQueues DEF Unlinked, Queue
  <2> QED BY <2>1, <2>2, ChanFacts DEF CallInv
<1> QED BY <1>1, ChanInvariant, PTL

(* The channel of co_channel.c, ring buffer, wait queues and hand-over     *)
(* together, is a closable FIFO, whatever its capacity and however many    *)
(* coroutines use it.                                                      *)
THEOREM ChannelIsFifo == Spec => ImplementsFifo
<1>1. ChannelInit => Fifo!FifoInit
  BY ChanStart
<1>2. ChanInv /\ [Next]_vars => [Fifo!FifoNext]_(Fifo!fifoVars)
  BY ChanNext
<1> QED BY <1>1, <1>2, ChanInvariant, PTL DEF Spec, ImplementsFifo, Fifo!FifoSpec
==============================================================================
