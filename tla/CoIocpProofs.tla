---------------------------- MODULE CoIocpProofs ----------------------------
(***************************************************************************)
(* The socket calls and the poll preserve IocpInv, for orderly use of any  *)
(* number of coroutines and sockets: the OVERLAPPED of a call outlives its *)
(* operation, its packet finds the call waiting, it is woken once, and the *)
(* run does not end before.                                                *)
(***************************************************************************)
EXTENDS CoIocpSteps

(* The leaves that name no other prover are for Zenon.                     *)
USE ZenonT(30)

(* Where control is in a socket call nobody else is RUNNING.               *)
LEMMA SwitchCall ==
  ASSUME SwitchInv, pc = "coroutine", pc' \in {"coroutine", "back"}, current' = current,
         \A r \in Routine : r # current => state'[r] = state[r],
         pc' = "back" => state'[current] # "RUNNING"
  PROVE  SwitchInv'
  BY DEF SwitchInv

LEMMA IocpSubmit ==
  ASSUME OrderlyUse, IocpInv, pc = "coroutine", call[current] = "none",
         NEW s \in Socket, NEW op \in Operation, NEW c \in Socket \cup {NoSocket}, NEW b \in BOOLEAN,
         Submit(s, op, c, b), s \in handed, b => s \in TimedSocket,
         c = NoSocket \/ FreshHandle(c), op = "accept" => c # NoSocket
  PROVE  IocpInv'
<1>1. /\ SchedInv /\ SocketInv /\ SchedTypeOK /\ IocpTypeOK /\ TableInv /\ current \in Routine
      /\ state[current] \in {"RUNNING", "READY"} /\ ~InWait(current)
  BY IocpFacts
<1> USE <1>1
<1>2. c = NoSocket \/ (c \notin open /\ c \notin table)
  BY DEF FreshHandle, OrderlyUse
<1>3. SocketInv' /\ Submitted(s, op, c, b)
  <2>1. Submitted(s, op, c, b)
    BY SubmitFacts
  <2>2. c = NoSocket \/ c \notin open
    BY <1>2
  <2> QED BY <2>1, <2>2, SocketSubmit
<1> USE <1>3
<1>4. /\ pc' = "back" /\ current' = current /\ Associate(s)
      /\ UNCHANGED <<queue, condQ, active, now, clock, packets, revents, handed>>
      /\ wakeup' \in [Routine -> Nat] /\ timedOut' \in [Routine -> BOOLEAN]
      /\ ioWaiting' \in [Routine -> BOOLEAN] /\ heap' \in [Routine -> Nat]
      /\ state' = [state EXCEPT ![current] = "WAITING"] /\ waitingIo' = waitingIo + 1
      /\ open' = (open \cup {c}) \ {NoSocket}
  BY DEF Submitted
<1> USE <1>4
<1>5. /\ state'[current] = "WAITING" /\ call'[current] = "wait" /\ pending'[current] = s
      /\ ctx'[current].fd = s /\ ctx'[current].timed = b
      /\ timedOut'[current] = FALSE /\ ioWaiting'[current] = b
      /\ heap'[current] = IF b THEN heap[current] + 1 ELSE heap[current]
  BY DEF Submitted
<1> USE <1>5
<1>6. \A r \in Routine : r # current =>
        /\ state'[r] = state[r] /\ call'[r] = call[r] /\ ctx'[r] = ctx[r] /\ pending'[r] = pending[r]
        /\ timedOut'[r] = timedOut[r] /\ ioWaiting'[r] = ioWaiting[r] /\ heap'[r] = heap[r]
  BY DEF Submitted
<1>7. s \in open /\ s # NoSocket
  BY IocpAssumption DEF SocketInv
<1>8. /\ s \in assoc' /\ assoc \subseteq assoc' /\ assoc' \subseteq table'
      /\ table' \cap open \subseteq assoc' /\ table' \subseteq table \cup {s}
  BY <1>7, Associated
<1>9. TableInv'
  BY <1>2, <1>7, <1>8 DEF TableInv
<1>10. heap[current] = 0 /\ revents[current] = "none" /\ ~InFlight(current)
  BY BetweenCalls
<1> USE <1>10
<1>11. SchedInv'
  <2> DEFINE k == IF b THEN 1 ELSE 0
  <2>1. k \in {0, 1} /\ heap'[current] = k
    BY SMT
  <2> HIDE DEF k
  <2>2. heap' = With(heap, current, k)
    BY <1>6, <2>1 DEF With, SchedTypeOK
  <2>3. state' = With(state, current, "WAITING") /\ "WAITING" \in State \ {"READY", "FREE"}
        /\ "WAITING" # "DEAD"
    BY DEF With, State
  <2>4. waitingIo' \in Int /\ active' \in Int
    BY DEF SocketInv, ControlOK, SchedTypeOK
  <2> QED BY <2>1, <2>2, <2>3, <2>4, LeaveStep
<1>12. FlightInv(current)' /\ TimerWaitInv(current)' /\ InWait(current)'
  <2>1. ~InPort(current) /\ \A i \in DOMAIN packets : packets[i].routine # current
    BY InPortIs DEF InFlight
  <2>2. ~InPort(current)' /\ InFlight(current)'
    BY <1>7, <2>1 DEF InPort, InFlight
  <2>3. FlightInv(current)'
    BY <1>8, <2>1, <2>2 DEF FlightInv
  <2>4. heap'[current] > 0 => b
    BY SMT
  <2>5. InWait(current)'
    BY DEF InWait
  <2> QED BY <2>2, <2>3, <2>4, <2>5 DEF TimerWaitInv
<1>13. ASSUME NEW r \in Routine, r # current
       PROVE  FlightInv(r)' /\ TimerWaitInv(r)' /\ (InWait(r)' <=> InWait(r))
  <2>1. revents'[r] = revents[r] /\ handed \subseteq handed' /\ packets' = packets
    OBVIOUS
  <2> QED BY <1>6, <1>8, <1>13, <2>1, IocpOthers
<1>14. WaitingIoIsCount'
  <2>1. \A r \in Routine : InWait(r)' <=> InWait(r) \/ r = current
    BY <1>12, <1>13
  <2> QED BY <2>1, CountMore, IocpFacts
<1>15. \A r \in Routine : FlightInv(r)' /\ TimerWaitInv(r)'
  BY <1>12, <1>13
<1>16. ~SwapMayFail => SwitchInv'
  BY <1>6, SwitchCall DEF IocpInv
<1> QED BY <1>9, <1>11, <1>14, <1>15, <1>16 DEF IocpInv

(* A call that fails at once leaves no timer: its socket has no timeouts.  *)
LEMMA IocpFails ==
  ASSUME OrderlyUse, IocpInv, pc = "coroutine", call[current] = "none",
         NEW s \in Socket, NEW b \in BOOLEAN, NEW flag \in BOOLEAN, FailsAtOnce(s, b, flag), flag => b,
         s \in handed, b => s \in TimedSocket
  PROVE  IocpInv'
<1>1. /\ SchedInv /\ SocketInv /\ SchedTypeOK /\ IocpTypeOK /\ TableInv /\ current \in Routine
      /\ ~InWait(current) /\ s \in open
  BY IocpFacts DEF SocketInv
<1> USE <1>1
<1>2. s \in FailingSocket => b = FALSE
  BY DEF OrderlyUse
<1>3. PICK pushed \in BOOLEAN, f \in BOOLEAN :
        GiveUp(b, pushed, f) /\ ~(b /\ pushed) /\ f = FALSE
  <2>1. CASE GiveUp(b, FALSE, FALSE)
    BY <2>1
  <2>2. CASE AssociateFails(s) /\ GiveUp(b, TRUE, FALSE)
    <3>1. s \in FailingSocket
      BY <2>2 DEF AssociateFails, TableInv
    <3> QED BY <1>2, <2>2, <3>1
  <2>3. CASE s \in FailingSocket /\ GiveUp(b, TRUE, flag)
    BY <1>2, <2>3
  <2> QED BY <2>1, <2>2, <2>3 DEF FailsAtOnce
<1>4. UNCHANGED <<table, assoc>> \/ Associate(s)
  BY DEF FailsAtOnce
<1>5. assoc \subseteq assoc' /\ assoc' \subseteq table' /\ table' \cap open \subseteq assoc'
  BY <1>4, Associated DEF TableInv
<1>6. SocketInv' /\ table' \subseteq Socket /\ assoc' \subseteq Socket
  <2>1. SocketInv'
    BY SocketFails
  <2> QED BY <2>1 DEF SocketInv, IocpTypeOK
<1>7. /\ UNCHANGED <<state, queue, condQ, waitingIo, current, pc, open, pending, packets, call, ctx,
                     revents, handed>>
      /\ ioWaiting'[current] = FALSE
      /\ heap'[current] = heap[current]
      /\ \A r \in Routine : r # current =>
           timedOut'[r] = timedOut[r] /\ ioWaiting'[r] = ioWaiting[r] /\ heap'[r] = heap[r]
  BY <1>3, <1>6, GiveUpFacts
<1> USE <1>7
<1>8. heap[current] = 0 /\ revents[current] = "none" /\ ~InFlight(current)
  BY BetweenCalls
<1>9. SchedInv'
  <2>1. SchedTypeOK' /\ \A r \in Routine : heap'[r] = heap[r] \/ heap'[r] = 0
    BY <1>6 DEF SocketInv, ControlOK
  <2> QED BY <2>1, CurrentStep
<1>10. FlightInv(current)' /\ TimerWaitInv(current)' /\ ~InWait(current)'
  <2>1. ~(heap'[current] > 0)
    BY SMTT(30), <1>8
  <2>2. call'[current] = "none" /\ revents'[current] = "none"
    BY <1>8
  <2>3. TimerWaitInv(current)' /\ ~InWait(current)'
    BY <2>1, <2>2, WaitIdle DEF InWait, TimerWaitInv
  <2>4. FlightInv(current)
    BY IocpFacts
  <2>5. FlightInv(current)'
    BY <1>5, <2>4, FlightStays DEF FlightInv
  <2> QED BY <2>3, <2>5
<1>11. ASSUME NEW r \in Routine, r # current
       PROVE  FlightInv(r)' /\ TimerWaitInv(r)' /\ (InWait(r)' <=> InWait(r))
  BY <1>5, <1>11, IocpOthers
<1>12. \A r \in Routine : FlightInv(r)' /\ TimerWaitInv(r)' /\ (InWait(r)' <=> InWait(r))
  BY <1>10, <1>11
<1>13. WaitingIoIsCount' /\ TableInv'
  BY <1>5, <1>12, CountSame, IocpFacts DEF TableInv
<1>14. ~SwapMayFail => SwitchInv'
  BY SwitchCall DEF IocpInv
<1>15. /\ \A q \in WaitQueue : queue'[q] = <<>>
       /\ pc' # "poll" /\ revents' \in [Routine -> {"none", "ready", "error"}]
  BY DEF IocpInv
<1> QED BY <1>6, <1>9, <1>12, <1>13, <1>14, <1>15 DEF IocpInv

(* The second wait: the call has no timer any more, and its operation is   *)
(* still in flight.                                                        *)
LEMMA IocpDrain ==
  ASSUME IocpInv, pc = "coroutine", call[current] = "wait", timedOut[current], Drain
  PROVE  IocpInv'
<1>1. /\ SchedInv /\ SocketInv /\ SchedTypeOK /\ IocpTypeOK /\ TableInv /\ current \in Routine
      /\ ~InWait(current) /\ FlightInv(current) /\ TimerWaitInv(current)
      /\ heap[current] \in Nat /\ ioWaiting[current] = FALSE
  BY IocpFacts
<1> USE <1>1
<1>2. call[current] # "none"
  OBVIOUS
<1>3. /\ pc' = "back"
      /\ UNCHANGED <<queue, heap, wakeup, condQ, timedOut, ioWaiting, active, current, now, clock,
                     open, assoc, pending, packets, table, ctx, revents, handed>>
      /\ state' = [state EXCEPT ![current] = "WAITING"]
      /\ state'[current] = "WAITING" /\ call'[current] = "drain" /\ waitingIo' = waitingIo + 1
      /\ \A r \in Routine : r # current => state'[r] = state[r] /\ call'[r] = call[r]
      /\ SocketInv'
  BY <1>2, DrainFacts, SocketDrain
<1> USE <1>3
<1>4. revents[current] = "none" /\ InFlight(current) /\ ~(heap[current] > 0)
  BY DEF TimerWaitInv
<1>5. heap[current] = 0
  BY SMTT(30), <1>4
<1>6. SchedInv'
  <2>1. heap' = With(heap, current, 0) /\ 0 \in {0, 1}
    BY <1>5 DEF With, SchedTypeOK
  <2>2. state' = With(state, current, "WAITING") /\ "WAITING" \in State \ {"READY", "FREE"}
        /\ "WAITING" # "DEAD"
    BY DEF With, State
  <2>3. /\ waitingIo' \in Int /\ active' \in Int /\ wakeup' \in [Routine -> Nat]
        /\ timedOut' \in [Routine -> BOOLEAN] /\ ioWaiting' \in [Routine -> BOOLEAN]
    BY DEF SocketInv, ControlOK, SchedTypeOK
  <2> QED BY <2>1, <2>2, <2>3, LeaveStep
<1>7. FlightInv(current)' /\ TimerWaitInv(current)' /\ InWait(current)'
  <2>1. InFlight(current)' /\ InPort(current)' = InPort(current)
    BY <1>4 DEF InFlight, InPort
  <2>2. FlightInv(current)'
    BY <1>2, <2>1 DEF FlightInv
  <2>3. InWait(current)' /\ timedOut'[current] = TRUE
    BY IocpFacts DEF InWait
  <2> QED BY <1>4, <2>1, <2>2, <2>3 DEF TimerWaitInv
<1>8. ASSUME NEW r \in Routine, r # current
      PROVE  FlightInv(r)' /\ TimerWaitInv(r)' /\ (InWait(r)' <=> InWait(r))
  BY <1>8, IocpOthers
<1>9. WaitingIoIsCount'
  <2>1. \A r \in Routine : InWait(r)' <=> InWait(r) \/ r = current
    BY <1>7, <1>8
  <2> QED BY <2>1, CountMore, IocpFacts
<1>10. \A r \in Routine : FlightInv(r)' /\ TimerWaitInv(r)'
  BY <1>7, <1>8
<1>11. TableInv' /\ (~SwapMayFail => SwitchInv')
  BY SwitchCall DEF IocpInv, TableInv
<1> QED BY <1>6, <1>9, <1>10, <1>11 DEF IocpInv

(* A call returns: its packet has been delivered, and its timer is gone.   *)
LEMMA ReturnsClean ==
  ASSUME OrderlyUse, IocpInv, pc = "coroutine", call[current] \in {"wait", "drain"}, NEW given,
         ReturnsAfter(given)
  PROVE  /\ ~InFlight(current) /\ heap'[current] = 0 /\ ioWaiting'[current] = FALSE
         /\ heap' \in [Routine -> Nat] /\ ioWaiting' \in [Routine -> BOOLEAN]
         /\ \A r \in Routine : r # current => heap'[r] = heap[r] /\ ioWaiting'[r] = ioWaiting[r]
<1>1. /\ SchedTypeOK /\ current \in Routine /\ FlightInv(current) /\ TimerWaitInv(current)
      /\ heap[current] \in Nat /\ heap[current] <= 1 /\ ioWaiting[current] = FALSE
      /\ call[current] # "none"
  BY IocpFacts
<1> USE <1>1
<1>2. call[current] = "drain" \/ ~timedOut[current]
  BY DEF ReturnsAfter
<1>3. ~InFlight(current)
  BY <1>2 DEF TimerWaitInv
<1>4. /\ heap[current] > 0 => call[current] = "wait" /\ ctx[current].timed
      /\ revents[current] = "error" /\ call[current] = "wait" => ~ctx[current].timed
  BY DEF TimerWaitInv, FlightInv, OrderlyUse
<1>5. ~(heap[current] > 0) => heap[current] = 0
  BY SMTT(30)
<1>6. CASE (call[current] = "drain" \/ revents[current] = "error") /\ UNCHANGED <<heap, ioWaiting>>
  BY <1>3, <1>4, <1>5, <1>6 DEF SchedTypeOK
<1>7. CASE CancelTimer
  <2>1. /\ heap' \in [Routine -> Nat] /\ ioWaiting' \in [Routine -> BOOLEAN]
        /\ \A r \in Routine : r # current => heap'[r] = heap[r] /\ ioWaiting'[r] = ioWaiting[r]
        /\ ctx[current].timed => heap'[current] = 0 \/ heap'[current] = heap[current] - 1
        /\ ctx[current].timed /\ heap[current] = 0 => heap'[current] = 0
        /\ ctx[current].timed => ioWaiting'[current] = FALSE
        /\ ~ctx[current].timed => UNCHANGED <<heap, ioWaiting>>
    BY <1>7, CancelFacts
  <2>2. CASE ctx[current].timed
    <3>1. heap[current] = 0 \/ heap[current] - 1 = 0
      BY SMT
    <3> QED BY <1>3, <2>1, <2>2, <3>1
  <2>3. CASE ~ctx[current].timed
    BY <1>3, <1>4, <1>5, <2>1, <2>3
  <2> QED BY <2>2, <2>3
<1> QED BY <1>6, <1>7 DEF ReturnsAfter

LEMMA IocpReturn ==
  ASSUME OrderlyUse, IocpInv, pc = "coroutine", call[current] \in {"wait", "drain"},
         NEW given \in SUBSET Socket, given \subseteq {ctx[current].client}, ReturnsAfter(given)
  PROVE  IocpInv'
<1>1. /\ SchedInv /\ SocketInv /\ SchedTypeOK /\ IocpTypeOK /\ TableInv /\ current \in Routine
      /\ ~InWait(current) /\ revents \in [Routine -> {"none", "ready", "error"}]
  BY IocpFacts DEF IocpInv
<1> USE <1>1
<1>2. /\ ~InFlight(current) /\ heap'[current] = 0 /\ ioWaiting'[current] = FALSE
      /\ heap' \in [Routine -> Nat] /\ ioWaiting' \in [Routine -> BOOLEAN]
      /\ \A r \in Routine : r # current => heap'[r] = heap[r] /\ ioWaiting'[r] = ioWaiting[r]
  BY ReturnsClean
<1> USE <1>2
<1>3. Return(given) /\ revents' = [revents EXCEPT ![current] = "none"]
  BY DEF ReturnsAfter, Return
<1>4. /\ UNCHANGED <<state, queue, condQ, timedOut, waitingIo, current, pc, assoc, pending, packets, table>>
      /\ call'[current] = "none" /\ ctx'[current] = NoCtx
      /\ handed' = handed \cup given /\ open' = open \ ({ctx[current].client} \ given)
      /\ \A r \in Routine : r # current => call'[r] = call[r] /\ ctx'[r] = ctx[r]
  BY <1>3, ReturnFacts
<1> USE <1>4
<1>5. SocketInv'
  BY <1>3, SocketReturn
<1>6. SchedInv'
  <2>1. SchedTypeOK' /\ \A r \in Routine : heap'[r] = heap[r] \/ heap'[r] = 0
    BY <1>5 DEF SocketInv, ControlOK
  <2> QED BY <2>1, CurrentStep
<1>7. /\ revents'[current] = "none" /\ revents' \in [Routine -> {"none", "ready", "error"}]
      /\ \A r \in Routine : r # current => revents'[r] = revents[r]
  BY <1>3
<1> USE <1>7
<1>8. FlightInv(current)' /\ TimerWaitInv(current)' /\ ~InWait(current)'
  <2>1. ~(heap'[current] > 0)
    BY SMTT(30)
  <2>2. TimerWaitInv(current)' /\ ~InWait(current)'
    BY <2>1 DEF TimerWaitInv, InWait
  <2>3. ~InFlight(current)' /\ pending'[current] = NoSocket /\ ~InPort(current)
    BY DEF InFlight, InPort
  <2>4. \A i \in DOMAIN packets' : packets'[i].routine # current
    BY <2>3, InPortIs
  <2> QED BY <2>2, <2>3, <2>4 DEF FlightInv
<1>9. ASSUME NEW r \in Routine, r # current
      PROVE  FlightInv(r)' /\ TimerWaitInv(r)' /\ (InWait(r)' <=> InWait(r))
  BY <1>9, IocpOthers
<1>10. \A r \in Routine : FlightInv(r)' /\ TimerWaitInv(r)' /\ (InWait(r)' <=> InWait(r))
  BY <1>8, <1>9
<1>11. WaitingIoIsCount' /\ TableInv'
  BY <1>10, CountSame, IocpFacts DEF TableInv
<1>12. ~SwapMayFail => SwitchInv'
  BY SwitchCall DEF IocpInv
<1>13. (\A q \in WaitQueue : queue'[q] = <<>>) /\ pc' # "poll"
  BY DEF IocpInv
<1> QED BY <1>5, <1>6, <1>10, <1>11, <1>12, <1>13 DEF IocpInv

LEMMA IocpOpen ==
  ASSUME OrderlyUse, IocpInv, NEW s \in Socket, OpenSocket(s)
  PROVE  IocpInv'
<1>1. /\ s \notin table /\ open' = open \cup {s} /\ handed' = handed \cup {s}
      /\ UNCHANGED <<schedVars, assoc, pending, packets, table, call, ctx, revents>>
  BY DEF OpenSocket, FreshHandle, OrderlyUse
<1>2. TableInv' /\ SocketInv'
  BY <1>1, SocketOpen DEF IocpInv, TableInv
<1>3. ASSUME NEW r \in Routine, FlightInv(r) PROVE FlightInv(r)' /\ (InFlight(r)' <=> InFlight(r))
  BY <1>1, <1>3, FlightStays DEF FlightInv
<1> QED BY <1>1, <1>2, <1>3, IocpKernel

LEMMA IocpClose ==
  ASSUME IocpInv, NEW s \in Socket, CloseSocket(s)
  PROVE  IocpInv'
<1>1. /\ open' = open \ {s} /\ handed' = handed \ {s} /\ assoc' = assoc \ {s}
      /\ UNCHANGED <<schedVars, pending, packets, table, call, ctx, revents>>
      /\ \A r \in Routine : ctx[r].fd # s
  BY DEF CloseSocket
<1> USE <1>1
<1>2. TableInv' /\ SocketInv'
  BY SocketClose DEF IocpInv, TableInv
<1>3. ASSUME NEW r \in Routine, FlightInv(r) PROVE FlightInv(r)' /\ (InFlight(r)' <=> InFlight(r))
  <2>1. /\ call[r] # "none" => ctx[r].fd \in handed'
        /\ pending[r] # NoSocket => pending[r] \in assoc'
    BY <1>3 DEF FlightInv
  <2> QED BY <1>3, <2>1, FlightStays
<1> QED BY <1>2, <1>3, IocpKernel

(* A packet more.                                                          *)
LEMMA PacketAdded ==
  ASSUME NEW q \in Seq(Packet), NEW p \in Packet
  PROVE  /\ \A i \in DOMAIN Append(q, p) : \/ i \in DOMAIN q /\ Append(q, p)[i] = q[i]
                                           \/ i = Len(q) + 1 /\ Append(q, p)[i] = p
         /\ \A i \in DOMAIN q : i \in DOMAIN Append(q, p)
         /\ Len(q) + 1 \in DOMAIN Append(q, p) /\ Append(q, p)[Len(q) + 1] = p
  BY SMT

LEMMA IocpComplete ==
  ASSUME IocpInv, pc # "destroyed", NEW c \in Routine, Complete(c)
  PROVE  IocpInv'
<1>1. /\ pending[c] # NoSocket /\ pending'[c] = NoSocket
      /\ \A s \in Routine : s # c => pending'[s] = pending[s]
      /\ \/ packets' = packets /\ pending[c] \notin assoc
         \/ \E p \in Packet :
              /\ packets' = Append(packets, p) /\ p.routine = c
              /\ p.status = "error" => pending[c] \in FailingSocket \/ call[c] = "drain"
      /\ UNCHANGED <<schedVars, open, assoc, table, call, ctx, revents, handed>>
      /\ SocketInv' /\ TableInv' /\ packets \in Seq(Packet)
  BY CompleteFacts, SocketComplete, IocpFacts DEF TableInv, IocpTypeOK
<1> USE <1>1
<1>2. FlightInv(c)
  BY IocpFacts
<1>3. PICK p \in Packet :
        /\ packets' = Append(packets, p) /\ p.routine = c
        /\ p.status = "error" => pending[c] \in FailingSocket \/ call[c] = "drain"
  BY <1>2 DEF FlightInv
<1> USE <1>3
<1>4. /\ \A i \in DOMAIN packets' : \/ i \in DOMAIN packets /\ packets'[i] = packets[i]
                                    \/ i = Len(packets) + 1 /\ packets'[i] = p
      /\ \A i \in DOMAIN packets : i \in DOMAIN packets'
      /\ Len(packets) + 1 \in DOMAIN packets' /\ packets'[Len(packets) + 1] = p
      /\ Len(packets) + 1 \notin DOMAIN packets
  <2>1. Len(packets) + 1 \notin DOMAIN packets
    BY ONLY SMTT(30), <1>1
  <2> QED BY <2>1, PacketAdded
<1> USE <1>4
<1>5. \A i \in DOMAIN packets : packets'[i] = packets[i]
  OBVIOUS
<1>6. ASSUME NEW r \in Routine, FlightInv(r) PROVE FlightInv(r)' /\ (InFlight(r)' <=> InFlight(r))
  <2>1. ctx'[r].fd = ctx[r].fd /\ ctx'[r].timed = ctx[r].timed /\ call'[r] = call[r] /\ revents'[r] = revents[r]
    OBVIOUS
  <2> USE <2>1
  <2>2. CASE r = c
    <3>1. ~InPort(c) /\ InFlight(c) /\ call[c] # "none" /\ pending[c] = ctx[c].fd
      BY <1>2 DEF FlightInv, InFlight
    <3>2. \A i \in DOMAIN packets : packets[i].routine # c
      BY <3>1, InPortIs
    <3>3. InPort(c)'
      BY InPortIs
    <3>4. \A i \in DOMAIN packets' : packets'[i].routine = c => i = Len(packets) + 1 /\ packets'[i] = p
      BY <3>2
    <3>5. \A i \in DOMAIN packets' :
            packets'[i].routine = c /\ packets'[i].status = "error" /\ call'[c] = "wait"
              => ctx'[c].fd \in FailingSocket
      BY <2>2, <3>1, <3>4
    <3>6. InFlight(c)'
      BY <3>3 DEF InFlight
    <3> QED BY <1>2, <2>2, <3>1, <3>4, <3>5, <3>6 DEF FlightInv
  <2>3. CASE r # c
    <3>1. \A i \in DOMAIN packets' : packets'[i].routine = r => i \in DOMAIN packets /\ packets'[i] = packets[i]
      BY <2>3
    <3>2. InPort(r)' <=> InPort(r)
      BY SMTT(30), <1>5, <3>1, InPortIs
    <3>3. InFlight(r)' <=> InFlight(r)
      BY <2>3, <3>2 DEF InFlight
    <3>4. \A i, j \in DOMAIN packets' : packets'[i].routine = r /\ packets'[j].routine = r => i = j
      BY SMTT(30), <1>6, <3>1 DEF FlightInv
    <3>5. \A i \in DOMAIN packets' :
            packets'[i].routine = r /\ packets'[i].status = "error" /\ call'[r] = "wait"
              => ctx'[r].fd \in FailingSocket
      BY <1>6, <3>1 DEF FlightInv
    <3> QED BY <1>6, <2>3, <3>2, <3>3, <3>4, <3>5 DEF FlightInv
  <2> QED BY <2>2, <2>3
<1> QED BY <1>6, IocpKernel

(* The batch has one packet of a coroutine, which it takes from the port,  *)
(* or none.                                                                *)
LEMMA MaxOfOne ==
  ASSUME NEW i \in Nat
  PROVE  Max({i}) = i
  BY SMT DEF Max

LEMMA PollRoutine ==
  ASSUME IocpInv, NEW n, NEW W, Taken(n, W), Events(SubSeq(packets, 1, n)), NEW r \in Routine
  PROVE  /\ FlightInv(r)' /\ revents'[r] \in {"none", "ready", "error"}
         /\ \/ /\ InFlight(r)' <=> InFlight(r)
               /\ revents'[r] = revents[r] /\ r \notin W
            \/ /\ ~InFlight(r)' /\ InFlight(r) /\ revents'[r] # "none" /\ call[r] # "none"
               /\ state[r] = "WAITING" <=> r \in W
<1>1. /\ n \in Nat /\ n <= Len(packets) /\ packets \in Seq(Packet)
      /\ packets' = SubSeq(packets, n + 1, Len(packets))
      /\ W = {s \in Routine : state[s] = "WAITING" /\ \E i \in 1..n : packets[i].routine = s}
      /\ pc = "poll" /\ UNCHANGED <<assoc, pending, call, ctx, handed>>
  BY IocpFacts DEF Taken, IocpTypeOK
<1> USE <1>1
<1>2. FlightInv(r) /\ revents[r] \in {"none", "ready", "error"}
  BY IocpFacts DEF IocpInv
<1> USE <1>2
<1>3. /\ DOMAIN SubSeq(packets, 1, n) = 1..n
      /\ \A i \in 1..n : SubSeq(packets, 1, n)[i] = packets[i] /\ i \in DOMAIN packets
      /\ \A i \in DOMAIN packets' : /\ packets'[i] = packets[n + i]
                                    /\ n + i \in DOMAIN packets /\ n + i \notin 1..n
      /\ \A i \in DOMAIN packets : i \in 1..n \/ \E k \in DOMAIN packets' : i = n + k
      /\ \A i, j \in DOMAIN packets' : n + i = n + j => i = j
  <2>1. /\ n \in Nat /\ n <= Len(packets) /\ packets \in Seq(Packet)
        /\ packets' = SubSeq(packets, n + 1, Len(packets))
    OBVIOUS
  <2>2. /\ DOMAIN SubSeq(packets, 1, n) = 1..n
        /\ \A i \in 1..n : SubSeq(packets, 1, n)[i] = packets[i] /\ i \in DOMAIN packets
    BY ONLY <2>1
  <2>3. /\ \A i \in DOMAIN packets' : /\ packets'[i] = packets[n + i]
                                      /\ n + i \in DOMAIN packets /\ n + i \notin 1..n
        /\ \A i, j \in DOMAIN packets' : n + i = n + j => i = j
    BY ONLY <2>1
  <2>4. ASSUME NEW i \in DOMAIN packets, i \notin 1..n PROVE \E k \in DOMAIN packets' : i = n + k
    <3>1. i - n \in DOMAIN packets' /\ i = n + (i - n)
      BY ONLY SMTT(30), <2>1, <2>4
    <3> QED BY <3>1
  <2> QED BY <2>2, <2>3, <2>4
<1> USE <1>3
<1>4. PICK b : b = SubSeq(packets, 1, n)
  OBVIOUS
<1>5. revents'[r] = IF {i \in DOMAIN b : b[i].routine = r} = {} THEN revents[r]
                    ELSE b[Max({i \in DOMAIN b : b[i].routine = r})].status
  BY <1>4 DEF Events
<1>6. /\ ctx'[r].fd = ctx[r].fd /\ ctx'[r].timed = ctx[r].timed /\ call'[r] = call[r]
      /\ pending'[r] = pending[r]
  OBVIOUS
<1> USE <1>6
<1>7. /\ call'[r] # "none" => ctx'[r].fd \in handed' /\ (ctx'[r].timed => ctx'[r].fd \in TimedSocket)
      /\ \A i, j \in DOMAIN packets' :
           packets'[i].routine = r /\ packets'[j].routine = r => i = j
      /\ \A i \in DOMAIN packets' :
           packets'[i].routine = r /\ packets'[i].status = "error" /\ call'[r] = "wait"
             => ctx'[r].fd \in FailingSocket
  <2>1. \A i \in DOMAIN packets' : packets'[i] = packets[n + i] /\ n + i \in DOMAIN packets
    OBVIOUS
  <2>2. \A i, j \in DOMAIN packets' : n + i = n + j => i = j
    OBVIOUS
  <2>3. \A i, j \in DOMAIN packets : packets[i].routine = r /\ packets[j].routine = r => i = j
    BY DEF FlightInv
  <2>4. ASSUME NEW i \in DOMAIN packets', NEW j \in DOMAIN packets',
               packets'[i].routine = r, packets'[j].routine = r
        PROVE  i = j
    BY SMTT(30), <2>1, <2>2, <2>3, <2>4
  <2>5. ASSUME NEW i \in DOMAIN packets', packets'[i].routine = r, packets'[i].status = "error",
               call'[r] = "wait"
        PROVE  ctx'[r].fd \in FailingSocket
    BY <2>1, <2>5 DEF FlightInv
  <2>6. call'[r] # "none" => ctx'[r].fd \in handed' /\ (ctx'[r].timed => ctx'[r].fd \in TimedSocket)
    BY DEF FlightInv
  <2> QED BY <2>4, <2>5, <2>6
<1>8. CASE \A i \in 1..n : packets[i].routine # r
  <2>1. revents'[r] = revents[r] /\ r \notin W
    <3>1. DOMAIN b = 1..n /\ \A i \in 1..n : b[i] = packets[i]
      BY <1>4
    <3>2. \A i \in DOMAIN b : b[i].routine # r
      BY <1>8, <3>1
    <3>3. {i \in DOMAIN b : b[i].routine = r} = {}
      BY <3>2
    <3>4. r \notin W
      BY <1>8
    <3> QED BY <1>5, <3>3, <3>4
  <2>2. ASSUME InPort(r)' PROVE InPort(r)
    <3>1. PICK i \in DOMAIN packets' : packets'[i].routine = r
      BY <2>2, InPortIs
    <3>2. n + i \in DOMAIN packets /\ packets[n + i].routine = r
      BY <3>1
    <3> QED BY <3>2, InPortIs
  <2>3. ASSUME InPort(r) PROVE InPort(r)'
    <3>1. PICK i \in DOMAIN packets : packets[i].routine = r
      BY <2>3, InPortIs
    <3>2. PICK k \in DOMAIN packets' : i = n + k
      BY <1>8, <3>1
    <3>3. packets'[k].routine = r
      BY <3>1, <3>2
    <3> QED BY <3>2, <3>3, InPortIs
  <2>4. InFlight(r)' <=> InFlight(r)
    BY <2>2, <2>3 DEF InFlight
  <2>5. /\ call'[r] = "none" => ~InFlight(r)'
        /\ pending'[r] # NoSocket => pending'[r] = ctx'[r].fd /\ pending'[r] \in assoc' /\ ~InPort(r)'
        /\ revents'[r] = "error" /\ call'[r] = "wait" => ctx'[r].fd \in FailingSocket
    BY <2>1, <2>2, <2>4 DEF FlightInv
  <2>6. FlightInv(r)'
    BY <1>7, <2>5 DEF FlightInv
  <2> QED BY <2>1, <2>4, <2>6
<1>9. CASE ~(\A i \in 1..n : packets[i].routine # r)
  <2>1. PICK i \in 1..n : packets[i].routine = r
    BY <1>9
  <2> USE <2>1
  <2>2. /\ i \in DOMAIN packets /\ b[i] = packets[i] /\ i \in DOMAIN b
        /\ \A j \in DOMAIN packets : packets[j].routine = r => j = i
        /\ \A j \in DOMAIN b : b[j].routine = r => j = i
    BY <1>4 DEF FlightInv
  <2> USE <2>2
  <2>3. {j \in DOMAIN b : b[j].routine = r} = {i}
    OBVIOUS
  <2>4. Max({i}) = i
    <3>1. i \in Nat
      BY ONLY <1>1, <2>1
    <3> QED BY <3>1, MaxOfOne
  <2>5. revents'[r] = packets[i].status
    BY <1>5, <2>3, <2>4
  <2>6. packets[i].status \in {"ready", "error"}
    <3>1. packets[i] \in Packet
      BY ONLY SMTT(30), <1>1, <2>2
    <3> QED BY <3>1, PacketFields
  <2>7. InPort(r) /\ pending[r] = NoSocket /\ call[r] # "none" /\ InFlight(r)
    <3>1. InPort(r)
      BY InPortIs
    <3> QED BY <3>1 DEF FlightInv, InFlight
  <2>8. \A j \in DOMAIN packets' : packets'[j].routine # r
    OBVIOUS
  <2>9. ~InPort(r)' /\ ~InFlight(r)'
    BY SMTT(30), <2>7, <2>8, InPortIs DEF InFlight
  <2>10. revents'[r] = "error" /\ call'[r] = "wait" => ctx'[r].fd \in FailingSocket
    BY <2>5 DEF FlightInv
  <2>11. FlightInv(r)'
    BY <1>7, <2>7, <2>9, <2>10 DEF FlightInv
  <2>12. state[r] = "WAITING" <=> r \in W
    OBVIOUS
  <2>13. revents'[r] # "none" /\ revents'[r] \in {"none", "ready", "error"}
    BY <2>5, <2>6
  <2> QED BY <2>7, <2>9, <2>11, <2>12, <2>13
<1> QED BY <1>8, <1>9

LEMMA IocpPoll ==
  ASSUME IocpInv, PollPackets
  PROVE  IocpInv'
<1>1. PICK n, W : Taken(n, W) /\ Events(SubSeq(packets, 1, n))
  BY PollFacts, IocpFacts
<1> USE <1>1
<1>2. /\ n \in Nat /\ n <= Len(packets) /\ n > 0
      /\ W \subseteq Routine /\ IsFiniteSet(W) /\ Cardinality(W) \in Nat
      /\ \A r \in W : state[r] = "WAITING"
      /\ \A r \in Routine : /\ state'[r] = IF r \in W THEN "READY" ELSE state[r]
                            /\ ioWaiting'[r] = IF r \in W THEN FALSE ELSE ioWaiting[r]
      /\ state' = [r \in Routine |-> IF r \in W THEN "READY" ELSE state[r]]
      /\ ioWaiting' \in [Routine -> BOOLEAN]
      /\ waitingIo' = waitingIo - Cardinality(W) /\ waitingIo' \in Int
      /\ pc = "poll" /\ pc' = "recheck"
      /\ UNCHANGED <<heap, wakeup, condQ, timedOut, active, current, now, clock,
                     open, assoc, pending, table, call, ctx, handed>>
  BY DEF Taken
<1> USE <1>2
<1>3. PICK o \in Seq(W) :
        /\ Range(o) = W /\ IsInjective(o)
        /\ queue' = [queue EXCEPT ![Ready] = @ \o o]
  BY DEF Taken
<1>4. /\ SchedInv /\ SocketInv /\ ControlOK /\ TableInv /\ pc # "destroyed"
      /\ \A q \in Queue : queue[q] = <<>>
      /\ \A r \in Routine : TimerWaitInv(r) /\ FlightInv(r) /\ state[r] # "READY"
  <2>1. /\ SchedInv /\ SocketInv /\ ControlOK /\ TableInv /\ pc # "destroyed"
        /\ \A r \in Routine : TimerWaitInv(r) /\ FlightInv(r)
    BY IocpFacts
  <2>2. \A q \in Queue : queue[q] = <<>>
    BY DEF IocpInv, Queue
  <2>3. Range(<<>>) = {} /\ Ready \in Queue
    BY ReadyIsNoWaitQueue, EmptyRange
  <2>4. \A r \in Routine : state[r] # "READY"
    BY <2>1, <2>2, <2>3 DEF SchedInv, StateMatchesLists
  <2> QED BY <2>1, <2>2, <2>4
<1> USE <1>4
<1>5. \A s \in W : state[s] = "WAITING" /\ condQ[s] = NoQueue /\ Unlinked(queue, s)
  BY EmptyRange DEF ControlOK, Unlinked
<1>6. SchedInv' /\ \A q \in WaitQueue : queue'[q] = queue[q]
  <2>1. W \in SUBSET Routine
    OBVIOUS
  <2> QED BY <1>3, <1>5, <2>1, PollWakes
<1>7. ASSUME NEW r \in Routine
      PROVE  /\ FlightInv(r)' /\ revents'[r] \in {"none", "ready", "error"}
             /\ \/ /\ InFlight(r)' <=> InFlight(r)
                   /\ revents'[r] = revents[r] /\ r \notin W
                \/ /\ ~InFlight(r)' /\ InFlight(r) /\ revents'[r] # "none" /\ call[r] # "none"
                   /\ state[r] = "WAITING" <=> r \in W
  BY PollRoutine
<1>8. ASSUME NEW r \in Routine PROVE TimerWaitInv(r)' /\ (InWait(r)' <=> InWait(r) /\ r \notin W)
  <2>0. /\ heap[r] \in Nat /\ timedOut[r] \in BOOLEAN /\ call[r] \in {"none", "wait", "drain"}
        /\ call'[r] = call[r] /\ ctx'[r] = ctx[r] /\ ctx'[r].timed = ctx[r].timed
        /\ timedOut'[r] = timedOut[r] /\ heap'[r] = heap[r] /\ TimerWaitInv(r) /\ state[r] # "READY"
    BY IocpFacts
  <2> USE <2>0
  <2>1. CASE r \in W
    <3>1. call[r] # "none" /\ ~InFlight(r)' /\ revents'[r] # "none"
      BY <1>7, <2>1
    <3>2. InWait(r) /\ timedOut[r] = (call[r] = "drain")
      BY <2>1, <3>1 DEF InWait, TimerWaitInv
    <3>3. state'[r] = "READY" /\ ioWaiting'[r] = FALSE
      BY <2>1
    <3> QED BY <2>1, <3>1, <3>2, <3>3 DEF TimerWaitInv, InWait
  <2>2. CASE r \notin W
    <3>1. state'[r] = state[r] /\ ioWaiting'[r] = ioWaiting[r]
      BY <2>2
    <3>2. CASE (InFlight(r)' <=> InFlight(r)) /\ revents'[r] = revents[r]
      <4>1. Passes(r)
        BY <3>1 DEF Passes, Kept
      <4> QED BY <2>2, <3>2, <4>1, WaitStays
    <3>3. CASE call[r] # "none" /\ state[r] # "WAITING"
      <4>1. ~InWait(r) /\ ~InWait(r)' /\ ioWaiting'[r] => InWait(r)
        BY <3>1, <3>3 DEF InWait, TimerWaitInv
      <4> QED BY <3>1, <3>3, <4>1 DEF TimerWaitInv, InWait
    <3> QED BY <1>7, <2>2, <3>2, <3>3
  <2> QED BY <2>1, <2>2
<1>9. WaitingIoIsCount'
  <2>1. W \in SUBSET Routine /\ \A r \in W : InWait(r)
    BY <1>7 DEF InWait
  <2> QED BY <1>8, <2>1, CountLess, IocpFacts
<1>10. \A q \in WaitQueue : queue'[q] = <<>>
  BY <1>6 DEF IocpInv
<1>11. revents' \in [Routine -> {"none", "ready", "error"}]
  <2>1. revents' = [r \in Routine |-> revents'[r]]
    BY DEF Events
  <2> QED BY <1>7, <2>1
<1>12. TableInv' /\ SocketInv'
  BY SocketPoll DEF TableInv
<1>13. ~SwapMayFail => SwitchInv'
  <2>1. ASSUME ~SwapMayFail PROVE \A r \in Routine : state[r] # "RUNNING" /\ state'[r] # "RUNNING"
    BY <2>1 DEF IocpInv, SwitchInv
  <2>2. ASSUME ~SwapMayFail PROVE queue'[Ready] # <<>>
    <3>1. 1 \in DOMAIN packets /\ 1 \in 1..n /\ packets[1] \in Packet
      <4>1. packets \in Seq(Packet)
        BY IocpFacts DEF IocpTypeOK
      <4> QED BY ONLY SMTT(30), <1>2, <4>1
    <3>2. PICK r \in Routine : packets[1].routine = r
      BY <3>1, PacketFields
    <3>3. InPort(r) /\ call[r] # "none"
      BY <3>1, <3>2, InPortIs DEF FlightInv, InFlight
    <3>4. state[r] \in State
      BY DEF ControlOK, SchedTypeOK
    <3>5. state[r] = "WAITING"
      BY <2>1, <2>2, <3>3, <3>4 DEF TimerWaitInv, State
    <3>6. r \in W
      BY <3>1, <3>2, <3>5 DEF Taken
    <3>7. o # <<>>
      BY <1>3, <3>6, EmptyRange
    <3>8. queue'[Ready] = <<>> \o o
      <4>1. queue \in [Queue -> Seq(Routine)] /\ Ready \in Queue
        BY ReadyIsNoWaitQueue DEF ControlOK, SchedTypeOK
      <4> QED BY <1>3, <4>1
    <3>9. <<>> \o o # <<>>
      BY ONLY SMTT(30), o \in Seq(W), <3>7
    <3> QED BY <3>8, <3>9
  <2> QED BY <2>1, <2>2 DEF SwitchInv
<1> QED BY <1>6, <1>7, <1>8, <1>9, <1>10, <1>11, <1>12, <1>13 DEF IocpInv

------------------------------------------------------------------------------
LEMMA IocpStart ==
  ASSUME IocpInit
  PROVE  IocpInv
<1>1. SchedInv /\ SocketInv /\ SchedInit
  BY SchedStart, SocketStart DEF IocpInit
<1>2. /\ pc = "idle" /\ waitingIo = 0 /\ \A q \in Queue : queue[q] = <<>>
      /\ packets = <<>> /\ assoc = {} /\ table = {}
      /\ \A r \in Routine : /\ state[r] = "FREE" /\ ioWaiting[r] = FALSE /\ heap[r] = 0
                            /\ pending[r] = NoSocket /\ call[r] = "none" /\ revents[r] = "none"
      /\ revents \in [Routine -> {"none", "ready", "error"}]
  BY <1>1 DEF IocpInit, SchedInit
<1> USE <1>2
<1>3. TableInv
  BY DEF TableInv
<1>4. ASSUME NEW r \in Routine PROVE FlightInv(r) /\ TimerWaitInv(r) /\ ~InWait(r)
  <2>1. DOMAIN packets = {} /\ ~(heap[r] > 0)
    BY ONLY <1>2
  <2>2. ~InPort(r)
    BY <2>1, InPortIs
  <2>3. ~InFlight(r)
    BY <2>2 DEF InFlight
  <2> QED BY <2>1, <2>2, <2>3 DEF FlightInv, TimerWaitInv, InWait
<1>5. WaitingIoIsCount
  <2>1. {r \in Routine : InWait(r)} = {}
    BY <1>4
  <2> QED BY <2>1, FS_EmptySet DEF WaitingIoIsCount
<1>6. SwitchInv
  BY DEF SwitchInv
<1>7. \A q \in WaitQueue : queue[q] = <<>>
  BY DEF Queue
<1> QED BY <1>1, <1>3, <1>4, <1>5, <1>6, <1>7 DEF IocpInv

LEMMA IocpNext ==
  ASSUME OrderlyUse, IocpInv, [Next]_vars
  PROVE  IocpInv'
<1>0. SocketInv
  BY IocpFacts
<1> USE <1>0
<1>1. ASSUME NEW s \in Socket, Transfer(s) \/ Accept(s) \/ Connect(s) PROVE IocpInv'
  <2>1. PICK b \in BOOLEAN :
          /\ b => s \in TimedSocket
          /\ \/ \E flag \in BOOLEAN : FailsAtOnce(s, b, flag) /\ (flag => b)
             \/ \E op \in Operation, c \in Socket \cup {NoSocket} :
                  /\ Submit(s, op, c, b) /\ (c = NoSocket \/ FreshHandle(c))
                  /\ op = "accept" => c # NoSocket
    BY <1>1, CallCases
  <2>2. pc = "coroutine" /\ call[current] = "none" /\ s \in handed
    BY <1>1, CallCases
  <2>3. ASSUME NEW flag \in BOOLEAN, FailsAtOnce(s, b, flag), flag => b PROVE IocpInv'
    BY <2>1, <2>2, <2>3, IocpFails
  <2>4. ASSUME NEW op \in Operation, NEW c \in Socket \cup {NoSocket}, Submit(s, op, c, b),
               c = NoSocket \/ FreshHandle(c), op = "accept" => c # NoSocket
        PROVE  IocpInv'
    BY <2>1, <2>2, <2>4, IocpSubmit
  <2> QED BY <2>1, <2>3, <2>4
<1>2. CASE Resume
  <2>1. /\ pc = "coroutine" /\ call[current] \in {"wait", "drain"}
        /\ \/ call[current] = "wait" /\ timedOut[current] /\ Drain
           \/ \E given \in SUBSET Socket : given \subseteq {ctx[current].client} /\ ReturnsAfter(given)
    BY <1>2, ResumeCases
  <2>2. CASE call[current] = "wait" /\ timedOut[current] /\ Drain
    BY <2>1, <2>2, IocpDrain
  <2>3. ASSUME NEW given \in SUBSET Socket, given \subseteq {ctx[current].client}, ReturnsAfter(given)
        PROVE  IocpInv'
    BY <2>1, <2>3, IocpReturn
  <2> QED BY <2>1, <2>2, <2>3
<1>3. CASE UNCHANGED vars
  <2>1. UNCHANGED <<schedVars, open, assoc, pending, packets, table, call, ctx, revents, handed>>
    BY <1>3 DEF vars, iocpVars, kernelVars
  <2>2. SocketInv'
    BY SocketNext
  <2> QED BY <2>1, <2>2, IocpStutters
<1>4. CASE SocketStep
  BY <1>1, <1>2, <1>4, IocpOpen, IocpClose DEF SocketStep
<1> QED BY <1>3, <1>4, IocpPoll, IocpComplete, IocpSched DEF Next

(* Operations in flight, the timers of socket calls, the table of sockets  *)
(* and the counter, if no handle value is given again, the table has room, *)
(* and the sockets whose operations can fail are used without a timeout.   *)
THEOREM IocpInvariant ==
  ASSUME OrderlyUse
  PROVE  Spec => []IocpInv
<1>1. IocpInit => IocpInv
  BY IocpStart
<1>2. IocpInv /\ [Next]_vars => IocpInv'
  BY IocpNext
<1> QED BY <1>1, <1>2, PTL DEF Spec

(* The kernel never has an OVERLAPPED, and the port never a packet, of a   *)
(* call that has returned: the second wait behind CancelIoEx lasts until   *)
(* the packet has been taken.                                              *)
THEOREM OverlappedStaysAlive ==
  ASSUME OrderlyUse
  PROVE  Spec => []OverlappedAlive
<1>1. IocpInv => OverlappedAlive
  BY DEF IocpInv, FlightInv, OverlappedAlive
<1> QED BY <1>1, IocpInvariant, PTL

(* A socket call runs again because its time is over or because its packet *)
(* has been delivered, never for both, and after the second wait always    *)
(* for the packet.                                                         *)
THEOREM OneReasonToResume ==
  ASSUME OrderlyUse
  PROVE  Spec => []ResumedForAReason
<1>1. IocpInv => ResumedForAReason
  <2>1. ASSUME IocpInv, pc = "coroutine", call[current] # "none"
        PROVE  /\ (revents[current] # "none") = ~InFlight(current)
               /\ (revents[current] # "none") = (call[current] = "drain" \/ ~timedOut[current])
    <3>1. current \in Routine /\ TimerWaitInv(current)
      BY <2>1, IocpFacts
    <3> QED BY <2>1, <3>1 DEF TimerWaitInv
  <2> QED BY <2>1 DEF ResumedForAReason
<1> QED BY <1>1, IocpInvariant, PTL

(* waiting_io_count is the number of coroutines in a socket call, through  *)
(* timeouts and second waits.                                              *)
THEOREM IocpCountIsExact ==
  ASSUME OrderlyUse
  PROVE  Spec => []WaitingIoIsCount
<1>1. IocpInv => WaitingIoIsCount
  BY DEF IocpInv
<1> QED BY <1>1, IocpInvariant, PTL

(* If every switch to a coroutine succeeds, each packet that a poll takes  *)
(* from the port finds its coroutine waiting, and whoever waits has an     *)
(* operation that ends in a packet of this port.                           *)
THEOREM NoPacketIsDropped ==
  ASSUME OrderlyUse, ~SwapMayFail
  PROVE  Spec => []EveryPacketWakes
<1>1. ASSUME IocpInv, pc # "destroyed", NEW r \in Routine
      PROVE  /\ pc = "poll" /\ InPort(r) => InWait(r)
             /\ InWait(r) => InPort(r) \/ pending[r] \in assoc
  <2>1. FlightInv(r) /\ TimerWaitInv(r) /\ SwitchInv
    BY <1>1, IocpFacts DEF IocpInv
  <2>2. InWait(r) => InPort(r) \/ pending[r] \in assoc
    BY <2>1 DEF TimerWaitInv, FlightInv, InFlight
  <2>3. ASSUME pc = "poll", InPort(r) PROVE InWait(r)
    <3>1. call[r] # "none" /\ state[r] \notin {"FREE", "DEAD"} /\ state[r] # "RUNNING"
      BY <2>1, <2>3 DEF FlightInv, InFlight, TimerWaitInv, SwitchInv
    <3>2. queue[Ready] = <<>> /\ SchedInv /\ state[r] \in State
      BY <1>1, <2>3, IocpFacts DEF IocpInv, SchedTypeOK
    <3>3. state[r] # "READY"
      BY <1>1, <2>3, <3>2, EmptyRange DEF SchedInv, StateMatchesLists
    <3> QED BY <3>1, <3>2, <3>3 DEF State, InWait
  <2> QED BY <2>2, <2>3
<1>2. IocpInv => EveryPacketWakes
  BY <1>1 DEF EveryPacketWakes
<1> QED BY <1>2, IocpInvariant, PTL

(* co_scheduler_run never ends with an operation in flight that somebody   *)
(* waits for.                                                              *)
THEOREM RunWaitsForOperations ==
  ASSUME OrderlyUse, ~SwapMayFail
  PROVE  Spec => RunKeepsIoWaiters
<1>1. ASSUME IocpInv, [Next]_vars, pc = "recheck", pc' = "idle"
      PROVE  waitingIo = 0 /\ packets = <<>>
  <2>1. Recheck
    <3>1. pc' # pc
      BY <1>1
    <3> USE <3>1
    <3>2. ~UNCHANGED vars /\ ~PollPackets /\ ~SocketStep /\ ~\E r \in Routine : Complete(r)
      <4>1. ~UNCHANGED vars
        BY DEF vars, schedVars
      <4>2. ~PollPackets
        BY <1>1 DEF PollPackets
      <4>3. ~\E r \in Routine : Complete(r)
        BY DEF Complete, schedVars
      <4>4. ASSUME NEW s \in Socket PROVE ~OpenSocket(s) /\ ~CloseSocket(s)
        BY DEF OpenSocket, CloseSocket, schedVars
      <4>5. ASSUME NEW s \in Socket PROVE ~Transfer(s) /\ ~Accept(s) /\ ~Connect(s)
        BY <1>1 DEF Transfer, Accept, Connect, InCoroutineCode
      <4>6. ~Resume
        BY <1>1, ResumeCases, IocpFacts
      <4> QED BY <4>1, <4>2, <4>3, <4>4, <4>5, <4>6 DEF SocketStep
    <3>3. SchedStep
      BY <1>1, <3>2 DEF Next
    <3> QED
      BY <1>1, <3>3
      DEF SchedStep, LoopStep, SchedulerStep, SampleNow, TimerStale, TimerCond, TimerIo, TimerSleep,
          Expired, TimersDone, PollTimeout, Schedule, SwitchBack, ScheduleError, RunStart, Destroy, Tick,
          ClientSpawn, Spawn, ClientSuspend, InCoroutineCode, Gone
  <2>2. waitingIo = 0
    BY <1>1, <2>1 DEF Recheck, IocpInv, SwitchInv
  <2>3. \A r \in Routine : ~InWait(r)
    <3>1. Cardinality({r \in Routine : InWait(r)}) = 0
      BY <1>1, <2>2 DEF IocpInv, WaitingIoIsCount
    <3>2. {r \in Routine : InWait(r)} = {}
      BY <3>1, WaitersFinite, FS_EmptySet
    <3> QED BY <3>2
  <2>4. queue[Ready] = <<>> /\ SchedInv /\ SwitchInv
    BY <1>1, <2>1 DEF Recheck, IocpInv
  <2>5. ASSUME NEW r \in Routine PROVE ~InPort(r)
    <3>1. FlightInv(r) /\ TimerWaitInv(r) /\ state[r] \in State /\ state[r] # "READY" /\ state[r] # "RUNNING"
      BY <1>1, <2>4, IocpFacts, EmptyRange
      DEF SchedInv, StateMatchesLists, SwitchInv, SchedTypeOK
    <3> QED BY <2>3, <3>1 DEF FlightInv, InFlight, TimerWaitInv, State, InWait
  <2>6. \A i \in DOMAIN packets : FALSE
    <3>1. packets \in Seq(Packet)
      BY <1>1, IocpFacts DEF IocpTypeOK
    <3>2. \A i \in DOMAIN packets : packets[i] \in Packet
      BY ONLY <3>1
    <3> QED BY <2>5, <3>2, PacketFields, InPortIs
  <2>7. packets = <<>>
    <3>1. packets \in Seq(Packet)
      BY <1>1, IocpFacts DEF IocpTypeOK
    <3>2. packets # <<>> => 1 \in DOMAIN packets
      BY ONLY <3>1
    <3> QED BY <2>6, <3>2
  <2> QED BY <2>2, <2>7
<1>2. IocpInv /\ [Next]_vars => [pc = "recheck" /\ pc' = "idle" => waitingIo = 0 /\ packets = <<>>]_vars
  BY <1>1
<1> QED BY <1>2, IocpInvariant, PTL DEF Spec, RunKeepsIoWaiters
==============================================================================
