----------------------------- MODULE CoIocpSteps -----------------------------
(***************************************************************************)
(* Socket calls over the completion port, for any number of coroutines and *)
(* sockets.  SocketInv, whatever fails: no socket that co_accept creates   *)
(* is lost.  Then, for orderly use, the parts of IocpInv, when a step      *)
(* preserves them, and that the steps of the kernel and of the scheduler   *)
(* do.                                                                     *)
(***************************************************************************)
EXTENDS CoIocp, CoSchedulerProofs, FiniteSetTheorems

(* The leaves that name no other prover are for Zenon.                     *)
USE ZenonT(30)

LEMMA CtxFields ==
  ASSUME NEW x \in Ctx
  PROVE  /\ x.fd \in Socket /\ x.op \in Operation
         /\ x.client \in Socket \cup {NoSocket} /\ x.timed \in BOOLEAN
  BY SMT DEF Ctx

LEMMA NoCtxFields ==
  /\ NoCtx.fd = NoSocket /\ NoCtx.op = "none" /\ NoCtx.client = NoSocket /\ NoCtx.timed = FALSE
  BY SMT DEF NoCtx

LEMMA NewPacket ==
  ASSUME NEW r \in Routine, NEW st \in {"ready", "error"}, NEW p,
         p = [routine |-> r, status |-> st]
  PROVE  p \in Packet /\ p.routine = r /\ p.status = st
  BY SMT DEF Packet

LEMMA PacketFields ==
  ASSUME NEW p \in Packet
  PROVE  p.routine \in Routine /\ p.status \in {"ready", "error"}
  BY SMT DEF Packet

LEMMA SocketFacts ==
  ASSUME SocketInv
  PROVE  /\ ControlOK /\ SchedTypeOK /\ IocpTypeOK
         /\ \A r \in Routine : ClientInv(r)
         /\ \A r \in Routine : ctx[r].client \in Socket \cup {NoSocket}
         /\ \A r \in Routine : call[r] # "none" =>
              /\ ctx[r] \in Ctx /\ ctx[r].fd \in Socket /\ ctx[r].timed \in BOOLEAN
              /\ ctx[r].op \in Operation
         /\ NoSocket \notin open /\ NoSocket \notin handed /\ NoSocket \notin assoc
         /\ pc = "coroutine" => current \in Routine
<1>1. /\ ControlOK /\ SchedTypeOK /\ IocpTypeOK
      /\ \A r \in Routine : ClientInv(r)
      /\ pc = "coroutine" => current \in Routine
  BY DEF SocketInv, ControlOK
<1> USE <1>1
<1>2. \A r \in Routine : ctx[r] \in Ctx \/ ctx[r] = NoCtx
  BY DEF IocpTypeOK
<1>3. \A r \in Routine : ctx[r].client \in Socket \cup {NoSocket}
  BY <1>2, CtxFields, NoCtxFields
<1>4. \A r \in Routine : call[r] # "none" =>
        /\ ctx[r] \in Ctx /\ ctx[r].fd \in Socket /\ ctx[r].timed \in BOOLEAN
        /\ ctx[r].op \in Operation
  BY CtxFields DEF ClientInv
<1>5. NoSocket \notin open /\ NoSocket \notin handed /\ NoSocket \notin assoc
  BY IocpAssumption DEF IocpTypeOK
<1> QED BY <1>3, <1>4, <1>5

LEMMA ControlStays ==
  ASSUME ControlOK, UNCHANGED schedVars
  PROVE  ControlOK'
  BY DEF ControlOK, SchedTypeOK, schedVars, fieldVars

(* No call and no socket changes hands.                                    *)
LEMMA SocketStays ==
  ASSUME SocketInv, ControlOK', IocpTypeOK', UNCHANGED <<open, handed, ctx>>,
         \A r \in Routine : call'[r] # "none" <=> call[r] # "none"
  PROVE  SocketInv'
<1>1. ASSUME NEW r \in Routine PROVE ClientInv(r)'
  <2>1. ClientInv(r) /\ (call'[r] # "none" <=> call[r] # "none")
    BY DEF SocketInv
  <2> QED BY <2>1 DEF ClientInv
<1> QED BY <1>1 DEF SocketInv

LEMMA SocketSched ==
  ASSUME SocketInv, SchedStep
  PROVE  SocketInv'
<1>1. ControlOK /\ UNCHANGED <<open, assoc, pending, packets, table, call, ctx, handed>>
  BY DEF SocketInv, SchedStep, iocpVars, kernelVars
<1> USE <1>1
<1>2. ControlOK'
  <2>1. CASE LoopStep \/ ScheduleError
    BY <2>1, ControlLoop DEF LoopStep, Fault
  <2>2. CASE RunStart \/ Destroy \/ Tick \/ (\E r \in Routine : ClientSpawn(r)) \/ ClientSuspend \/ Gone
    BY <2>2, ControlCalls DEF ClientSpawn, ClientSuspend, Suspend
  <2> QED BY <2>1, <2>2 DEF SchedStep
<1>3. IocpTypeOK'
  BY DEF SocketInv, IocpTypeOK
<1> QED BY <1>2, <1>3, SocketStays

(* The kernel ends an operation.                                           *)
LEMMA CompleteFacts ==
  ASSUME SocketInv, NEW r \in Routine, Complete(r)
  PROVE  /\ pending[r] # NoSocket /\ pending[r] \in Socket
         /\ pending' \in [Routine -> Socket \cup {NoSocket}] /\ pending'[r] = NoSocket
         /\ \A s \in Routine : s # r => pending'[s] = pending[s]
         /\ packets' \in Seq(Packet)
         /\ \/ packets' = packets /\ pending[r] \notin assoc
            \/ \E p \in Packet :
                 /\ packets' = Append(packets, p) /\ p.routine = r
                 /\ p.status = "error" => pending[r] \in FailingSocket \/ call[r] = "drain"
         /\ UNCHANGED <<schedVars, open, assoc, table, call, ctx, revents, handed>>
<1>1. pending \in [Routine -> Socket \cup {NoSocket}] /\ packets \in Seq(Packet)
  BY SocketFacts DEF IocpTypeOK
<1>2. /\ pending[r] # NoSocket /\ pending' = [pending EXCEPT ![r] = NoSocket]
      /\ UNCHANGED <<schedVars, open, assoc, table, call, ctx, revents, handed>>
  BY DEF Complete
<1>3. PICK st \in {"ready", "error"} :
        /\ st = "error" => pending[r] \in FailingSocket \/ call[r] = "drain"
        /\ packets' = IF pending[r] \in assoc
                      THEN Append(packets, [routine |-> r, status |-> st]) ELSE packets
  BY DEF Complete
<1>4. PICK p : p = [routine |-> r, status |-> st]
  OBVIOUS
<1>5. p \in Packet /\ p.routine = r /\ p.status = st
  BY <1>4, NewPacket
<1>6. packets' = IF pending[r] \in assoc THEN Append(packets, p) ELSE packets
  BY <1>3, <1>4
<1>7. packets' \in Seq(Packet)
  BY <1>1, <1>5, <1>6, SeqAppend
<1> QED BY <1>1, <1>2, <1>3, <1>5, <1>6, <1>7

LEMMA SocketComplete ==
  ASSUME SocketInv, NEW r \in Routine, Complete(r)
  PROVE  SocketInv'
<1>1. /\ pending' \in [Routine -> Socket \cup {NoSocket}] /\ packets' \in Seq(Packet)
      /\ UNCHANGED <<schedVars, open, assoc, table, call, ctx, handed>>
  BY CompleteFacts
<1>2. ControlOK' /\ IocpTypeOK'
  BY <1>1, SocketFacts, ControlStays DEF IocpTypeOK
<1> QED BY <1>1, <1>2, SocketStays

(* The client opens a socket, and closes one it owns.                      *)
LEMMA SocketOpen ==
  ASSUME SocketInv, NEW s \in Socket, OpenSocket(s)
  PROVE  SocketInv'
<1>1. /\ s \notin open /\ open' = open \cup {s} /\ handed' = handed \cup {s}
      /\ UNCHANGED <<schedVars, assoc, pending, packets, table, call, ctx, revents>>
  BY DEF OpenSocket, FreshHandle
<1>2. ControlOK' /\ IocpTypeOK'
  BY <1>1, SocketFacts, ControlStays DEF IocpTypeOK
<1>3. ASSUME NEW r \in Routine PROVE ClientInv(r)'
  <2>1. ClientInv(r)
    BY SocketFacts
  <2> QED BY <1>1, <2>1 DEF ClientInv
<1>4. handed' \subseteq open' /\ \A t \in open' : t \in handed' \/ \E r \in Routine : ctx'[r].client = t
  BY <1>1 DEF SocketInv
<1> QED BY <1>2, <1>3, <1>4 DEF SocketInv

LEMMA SocketClose ==
  ASSUME SocketInv, NEW s \in Socket, CloseSocket(s)
  PROVE  SocketInv'
<1>1. /\ s \in handed /\ open' = open \ {s} /\ handed' = handed \ {s} /\ assoc' = assoc \ {s}
      /\ UNCHANGED <<schedVars, pending, packets, table, call, ctx, revents>>
  BY DEF CloseSocket
<1>2. ControlOK' /\ IocpTypeOK'
  BY <1>1, SocketFacts, ControlStays DEF IocpTypeOK
<1>3. ASSUME NEW r \in Routine PROVE ClientInv(r)'
  <2>1. ClientInv(r)
    BY SocketFacts
  <2> QED BY <1>1, <2>1 DEF ClientInv
<1>4. handed' \subseteq open' /\ \A t \in open' : t \in handed' \/ \E r \in Routine : ctx'[r].client = t
  BY <1>1 DEF SocketInv
<1> QED BY <1>2, <1>3, <1>4 DEF SocketInv

------------------------------------------------------------------------------
(* What the parts of a call do.                                            *)

LEMMA StartTimerTypes ==
  ASSUME SchedTypeOK, current \in Routine, NEW timed \in BOOLEAN, NEW b \in BOOLEAN, StartTimer(timed, b)
  PROVE  /\ timedOut' \in [Routine -> BOOLEAN] /\ wakeup' \in [Routine -> Nat] /\ heap' \in [Routine -> Nat]
         /\ timedOut'[current] = FALSE
         /\ heap'[current] = IF timed /\ b THEN heap[current] + 1 ELSE heap[current]
         /\ \A r \in Routine : r # current => timedOut'[r] = timedOut[r] /\ heap'[r] = heap[r]
<1>1. /\ timedOut \in [Routine -> BOOLEAN] /\ wakeup \in [Routine -> Nat] /\ heap \in [Routine -> Nat]
      /\ timedOut' = [timedOut EXCEPT ![current] = FALSE] /\ clock \in Nat
  BY DEF StartTimer, SchedTypeOK
<1> USE <1>1
<1>2. timedOut' \in [Routine -> BOOLEAN] /\ timedOut'[current] = FALSE
      /\ \A r \in Routine : r # current => timedOut'[r] = timedOut[r]
  OBVIOUS
<1>3. CASE ~timed /\ UNCHANGED <<wakeup, heap>>
  BY <1>2, <1>3
<1>4. CASE timed
  <2>1. PICK t \in IoTimeouts : wakeup' = [wakeup EXCEPT ![current] = clock + t]
    BY <1>4 DEF StartTimer
  <2>2. t \in Nat
    BY IocpAssumption
  <2>3. clock + t \in Nat /\ heap[current] + 1 \in Nat
    BY ONLY <1>1, <2>2, current \in Routine
  <2>4. wakeup' \in [Routine -> Nat]
    BY <2>1, <2>3
  <2>5. heap' = IF b THEN [heap EXCEPT ![current] = heap[current] + 1] ELSE heap
    BY <1>4 DEF StartTimer
  <2>6. CASE b
    BY <1>2, <1>4, <2>3, <2>4, <2>5, <2>6
  <2>7. CASE ~b
    BY <1>2, <1>4, <2>4, <2>5, <2>7
  <2> QED BY <2>6, <2>7
<1> QED BY <1>3, <1>4 DEF StartTimer

LEMMA AssociateTypes ==
  ASSUME SocketInv, NEW s \in Socket, Associate(s)
  PROVE  table' \subseteq Socket /\ assoc' \subseteq Socket
<1>1. table \subseteq Socket /\ assoc \subseteq Socket
  BY SocketFacts DEF IocpTypeOK
<1> QED BY <1>1 DEF Associate

(* The call has begun: its operation is the kernel's and it waits.         *)
Submitted(s, op, c, b) ==
  /\ pc' = "back" /\ current' = current /\ Associate(s)
  /\ UNCHANGED <<queue, condQ, active, now, clock, packets, revents, handed>>
  /\ ControlOK' /\ IocpTypeOK'
  /\ wakeup' \in [Routine -> Nat] /\ timedOut' \in [Routine -> BOOLEAN]
  /\ ioWaiting' \in [Routine -> BOOLEAN] /\ heap' \in [Routine -> Nat]
  /\ state' = [state EXCEPT ![current] = "WAITING"] /\ state'[current] = "WAITING"
  /\ call'[current] = "wait" /\ pending'[current] = s
  /\ ctx'[current] \in Ctx /\ ctx'[current].fd = s /\ ctx'[current].op = op
  /\ ctx'[current].client = c /\ ctx'[current].timed = b
  /\ timedOut'[current] = FALSE /\ ioWaiting'[current] = b
  /\ heap'[current] = IF b THEN heap[current] + 1 ELSE heap[current]
  /\ waitingIo' = waitingIo + 1
  /\ open' = (open \cup {c}) \ {NoSocket}
  /\ \A r \in Routine : r # current =>
       /\ state'[r] = state[r] /\ call'[r] = call[r] /\ ctx'[r] = ctx[r] /\ pending'[r] = pending[r]
       /\ timedOut'[r] = timedOut[r] /\ ioWaiting'[r] = ioWaiting[r] /\ heap'[r] = heap[r]

LEMMA SubmitFacts ==
  ASSUME SocketInv, pc = "coroutine", NEW s \in Socket, NEW op \in Operation,
         NEW c \in Socket \cup {NoSocket}, NEW b \in BOOLEAN, Submit(s, op, c, b)
  PROVE  Submitted(s, op, c, b)
<1>1. /\ ControlOK /\ SchedTypeOK /\ IocpTypeOK /\ current \in Routine
  BY SocketFacts
<1> USE <1>1
<1>2. PICK x : x = [fd |-> s, op |-> op, client |-> c, timed |-> b]
  OBVIOUS
<1>3. x \in Ctx /\ x.fd = s /\ x.op = op /\ x.client = c /\ x.timed = b
  BY ONLY SMTT(30), <1>2, s \in Socket, op \in Operation, c \in Socket \cup {NoSocket}, b \in BOOLEAN DEF Ctx
<1>4. /\ StartTimer(b, TRUE) /\ Associate(s)
      /\ ioWaiting' = [ioWaiting EXCEPT ![current] = b]
      /\ open' = (open \cup {c}) \ {NoSocket}
      /\ pending' = [pending EXCEPT ![current] = s]
      /\ call' = [call EXCEPT ![current] = "wait"]
      /\ ctx' = [ctx EXCEPT ![current] = x]
      /\ state' = [state EXCEPT ![current] = "WAITING"]
      /\ waitingIo' = waitingIo + 1 /\ pc' = "back" /\ current' = current
      /\ UNCHANGED <<queue, condQ, active, now, clock, packets, revents, handed>>
  BY <1>2 DEF Submit, SwapToMain
<1> USE <1>4
<1>5. /\ timedOut' \in [Routine -> BOOLEAN] /\ wakeup' \in [Routine -> Nat] /\ heap' \in [Routine -> Nat]
      /\ timedOut'[current] = FALSE
      /\ heap'[current] = IF b THEN heap[current] + 1 ELSE heap[current]
      /\ \A r \in Routine : r # current => timedOut'[r] = timedOut[r] /\ heap'[r] = heap[r]
  <2>1. TRUE \in BOOLEAN
    OBVIOUS
  <2> QED BY <2>1, StartTimerTypes
<1>6. /\ ioWaiting' \in [Routine -> BOOLEAN] /\ ioWaiting'[current] = b
      /\ state' \in [Routine -> State] /\ state'[current] = "WAITING"
      /\ \A r \in Routine : r # current => ioWaiting'[r] = ioWaiting[r] /\ state'[r] = state[r]
  BY DEF SchedTypeOK, State
<1>7. waitingIo' \in Int
  <2>1. waitingIo \in Int /\ waitingIo' = waitingIo + 1
    BY DEF SchedTypeOK
  <2> QED BY ONLY <2>1
<1>8. ControlOK'
  BY <1>5, <1>6, <1>7 DEF ControlOK, SchedTypeOK, Location
<1>9. /\ pending' \in [Routine -> Socket \cup {NoSocket}] /\ pending'[current] = s
      /\ call' \in [Routine -> {"none", "wait", "drain"}] /\ call'[current] = "wait"
      /\ ctx' \in [Routine -> Ctx \cup {NoCtx}] /\ ctx'[current] = x
      /\ \A r \in Routine : r # current => call'[r] = call[r] /\ ctx'[r] = ctx[r] /\ pending'[r] = pending[r]
  BY <1>3 DEF IocpTypeOK
<1>10. table' \subseteq Socket /\ assoc' \subseteq Socket /\ open' \subseteq Socket
  BY AssociateTypes DEF IocpTypeOK
<1>11. IocpTypeOK'
  BY <1>9, <1>10 DEF IocpTypeOK
<1> QED BY <1>3, <1>5, <1>6, <1>8, <1>9, <1>11 DEF Submitted

LEMMA SocketSubmit ==
  ASSUME SocketInv, pc = "coroutine", NEW s \in Socket, NEW op \in Operation,
         NEW c \in Socket \cup {NoSocket}, NEW b \in BOOLEAN, Submit(s, op, c, b),
         call[current] = "none", c = NoSocket \/ c \notin open, op = "accept" => c # NoSocket
  PROVE  SocketInv'
<1>0. Submitted(s, op, c, b)
  BY SubmitFacts
<1>1. /\ ControlOK' /\ IocpTypeOK' /\ handed' = handed /\ open' = (open \cup {c}) \ {NoSocket}
      /\ call'[current] = "wait" /\ ctx'[current] \in Ctx
      /\ ctx'[current].op = op /\ ctx'[current].client = c
      /\ \A r \in Routine : r # current => call'[r] = call[r] /\ ctx'[r] = ctx[r]
  BY <1>0 DEF Submitted
<1> USE <1>1
<1>2. /\ current \in Routine /\ NoSocket \notin open /\ handed \subseteq open
      /\ \A r \in Routine : ClientInv(r)
      /\ \A t \in open : t \in handed \/ \E r \in Routine : ctx[r].client = t
  BY SocketFacts DEF SocketInv
<1> USE <1>2
<1>3. ctx[current].client = NoSocket
  BY NoCtxFields DEF ClientInv
<1>4. handed' \subseteq open' /\ (\A t \in open : t \in open') /\ \A t \in open' : t \in open \/ (t = c /\ c # NoSocket)
  OBVIOUS
<1>5. ASSUME NEW r \in Routine, r # current
      PROVE  ctx'[r].client = ctx[r].client /\ ctx'[r].op = ctx[r].op
  BY <1>5
<1>6. ASSUME NEW r \in Routine PROVE ClientInv(r)'
  <2>1. CASE r = current
    <3>1. ASSUME NEW q \in Routine, ctx'[q].client = c, c # NoSocket PROVE q = current
      <4>1. ASSUME q # current PROVE FALSE
        <5>1. ctx[q].client = c
          BY <1>5, <3>1, <4>1
        <5>2. c \in open
          BY <3>1, <5>1 DEF ClientInv
        <5> QED BY <3>1, <5>2
      <4> QED BY <4>1
    <3>2. c # NoSocket => c \in open' \ handed'
      OBVIOUS
    <3> QED BY <2>1, <3>1, <3>2 DEF ClientInv
  <2>2. CASE r # current
    <3>1. ClientInv(r) /\ call'[r] = call[r] /\ ctx'[r] = ctx[r]
          /\ ctx'[r].client = ctx[r].client /\ ctx'[r].op = ctx[r].op
      BY <1>5, <2>2
    <3> USE <3>1
    <3>2. ASSUME NEW q \in Routine, ctx[r].client # NoSocket, ctx'[q].client = ctx[r].client PROVE q = r
      <4>1. q # current
        BY <3>2 DEF ClientInv
      <4> QED BY <1>5, <3>2, <4>1 DEF ClientInv
    <3>3. ctx[r].client # NoSocket => ctx[r].client \in open' \ handed'
      BY <1>4 DEF ClientInv
    <3> QED BY <3>2, <3>3 DEF ClientInv
  <2> QED BY <2>1, <2>2
<1>7. ASSUME NEW t \in open' PROVE t \in handed' \/ \E r \in Routine : ctx'[r].client = t
  <2>1. CASE t = c
    BY <2>1
  <2>2. CASE t \in open /\ t \notin handed
    <3>1. PICK r \in Routine : ctx[r].client = t
      BY <2>2
    <3>2. r # current
      BY <1>3, <2>2, <3>1
    <3> QED BY <1>5, <3>1, <3>2
  <2> QED BY <1>4, <2>1, <2>2
<1> QED BY <1>4, <1>6, <1>7 DEF SocketInv

(* The call gives up before it suspends.                                   *)
LEMMA GiveUpFacts ==
  ASSUME SocketInv, pc = "coroutine", NEW b \in BOOLEAN, NEW pushed \in BOOLEAN, NEW flag \in BOOLEAN,
         GiveUp(b, pushed, flag), table' \subseteq Socket, assoc' \subseteq Socket
  PROVE  /\ ControlOK' /\ IocpTypeOK'
         /\ UNCHANGED <<state, queue, condQ, waitingIo, current, pc, open, pending, packets, call, ctx,
                        revents, handed>>
         /\ timedOut'[current] = FALSE /\ ioWaiting'[current] = flag
         /\ heap'[current] = IF b /\ pushed THEN heap[current] + 1 ELSE heap[current]
         /\ \A r \in Routine : r # current =>
              timedOut'[r] = timedOut[r] /\ ioWaiting'[r] = ioWaiting[r] /\ heap'[r] = heap[r]
<1>1. /\ ControlOK /\ SchedTypeOK /\ IocpTypeOK /\ current \in Routine
  BY SocketFacts
<1> USE <1>1
<1>2. /\ StartTimer(b, pushed) /\ ioWaiting' = [ioWaiting EXCEPT ![current] = flag]
      /\ UNCHANGED <<state, queue, condQ, waitingIo, active, current, pc, now, clock, open, pending,
                     packets, call, ctx, revents, handed>>
  BY DEF GiveUp
<1> USE <1>2
<1>3. /\ timedOut' \in [Routine -> BOOLEAN] /\ wakeup' \in [Routine -> Nat] /\ heap' \in [Routine -> Nat]
      /\ timedOut'[current] = FALSE
      /\ heap'[current] = IF b /\ pushed THEN heap[current] + 1 ELSE heap[current]
      /\ \A r \in Routine : r # current => timedOut'[r] = timedOut[r] /\ heap'[r] = heap[r]
  BY StartTimerTypes
<1>4. /\ ioWaiting' \in [Routine -> BOOLEAN] /\ ioWaiting'[current] = flag
      /\ \A r \in Routine : r # current => ioWaiting'[r] = ioWaiting[r]
  BY DEF SchedTypeOK
<1>5. ControlOK'
  BY <1>3, <1>4 DEF ControlOK, SchedTypeOK
<1>6. IocpTypeOK'
  BY DEF IocpTypeOK
<1> QED BY <1>3, <1>4, <1>5, <1>6

LEMMA SocketFails ==
  ASSUME SocketInv, pc = "coroutine", NEW s \in Socket, NEW b \in BOOLEAN, NEW flag \in BOOLEAN,
         FailsAtOnce(s, b, flag)
  PROVE  SocketInv'
<1>1. PICK pushed \in BOOLEAN, f \in BOOLEAN : GiveUp(b, pushed, f)
  BY DEF FailsAtOnce
<1>2. table' \subseteq Socket /\ assoc' \subseteq Socket
  <2>1. UNCHANGED <<table, assoc>> \/ Associate(s)
    BY DEF FailsAtOnce
  <2> QED BY <2>1, AssociateTypes, SocketFacts DEF IocpTypeOK
<1>3. ControlOK' /\ IocpTypeOK' /\ UNCHANGED <<open, handed, call, ctx>>
  BY <1>1, <1>2, GiveUpFacts
<1>4. \A r \in Routine : call'[r] # "none" <=> call[r] # "none"
  BY <1>3
<1> QED BY <1>3, <1>4, SocketStays

(* The call that timed out waits again.                                    *)
LEMMA DrainFacts ==
  ASSUME SocketInv, pc = "coroutine", Drain
  PROVE  /\ ControlOK' /\ IocpTypeOK' /\ pc' = "back"
         /\ UNCHANGED <<queue, heap, wakeup, condQ, timedOut, ioWaiting, active, current, now, clock,
                        open, assoc, pending, packets, table, ctx, revents, handed>>
         /\ state' = [state EXCEPT ![current] = "WAITING"]
         /\ state'[current] = "WAITING" /\ call'[current] = "drain" /\ waitingIo' = waitingIo + 1
         /\ \A r \in Routine : r # current => state'[r] = state[r] /\ call'[r] = call[r]
<1>1. /\ ControlOK /\ SchedTypeOK /\ IocpTypeOK /\ current \in Routine
  BY SocketFacts
<1> USE <1>1
<1>2. /\ state' = [state EXCEPT ![current] = "WAITING"] /\ waitingIo' = waitingIo + 1
      /\ call' = [call EXCEPT ![current] = "drain"] /\ pc' = "back"
      /\ UNCHANGED <<queue, heap, wakeup, condQ, timedOut, ioWaiting, active, current, now, clock,
                     open, assoc, pending, packets, table, ctx, revents, handed>>
  BY DEF Drain, SwapToMain, kernelVars
<1> USE <1>2
<1>3. waitingIo' \in Int
  <2>1. waitingIo \in Int /\ waitingIo' = waitingIo + 1
    BY DEF SchedTypeOK
  <2> QED BY ONLY <2>1
<1>4. /\ state' \in [Routine -> State] /\ state'[current] = "WAITING"
      /\ \A r \in Routine : r # current => state'[r] = state[r]
  BY DEF SchedTypeOK, State
<1>5. /\ call' \in [Routine -> {"none", "wait", "drain"}] /\ call'[current] = "drain"
      /\ \A r \in Routine : r # current => call'[r] = call[r]
  BY DEF IocpTypeOK
<1>6. ControlOK'
  BY <1>3, <1>4 DEF ControlOK, SchedTypeOK, Location
<1>7. IocpTypeOK'
  BY <1>5 DEF IocpTypeOK
<1> QED BY <1>4, <1>5, <1>6, <1>7

LEMMA SocketDrain ==
  ASSUME SocketInv, pc = "coroutine", call[current] # "none", Drain
  PROVE  SocketInv'
<1>1. /\ ControlOK' /\ IocpTypeOK' /\ UNCHANGED <<open, handed, ctx>> /\ call'[current] = "drain"
      /\ \A r \in Routine : r # current => call'[r] = call[r]
  BY DrainFacts
<1>2. \A r \in Routine : call'[r] # "none" <=> call[r] # "none"
  BY <1>1
<1> QED BY <1>1, <1>2, SocketStays

(* The call returns.                                                       *)
LEMMA ReturnFacts ==
  ASSUME SocketInv, pc = "coroutine", NEW given \in SUBSET Socket, Return(given),
         heap' \in [Routine -> Nat], ioWaiting' \in [Routine -> BOOLEAN]
  PROVE  /\ ControlOK' /\ IocpTypeOK'
         /\ UNCHANGED <<state, queue, condQ, timedOut, waitingIo, current, pc, assoc, pending, packets, table>>
         /\ call'[current] = "none" /\ ctx'[current] = NoCtx
         /\ handed' = handed \cup given /\ open' = open \ ({ctx[current].client} \ given)
         /\ \A r \in Routine : r # current => call'[r] = call[r] /\ ctx'[r] = ctx[r]
<1>1. /\ ControlOK /\ SchedTypeOK /\ IocpTypeOK /\ current \in Routine
  BY SocketFacts
<1>2. /\ call' = [call EXCEPT ![current] = "none"] /\ ctx' = [ctx EXCEPT ![current] = NoCtx]
      /\ handed' = handed \cup given /\ open' = open \ ({ctx[current].client} \ given)
      /\ UNCHANGED <<state, queue, wakeup, condQ, timedOut, waitingIo, active, current, pc, now, clock,
                     assoc, pending, packets, table>>
  BY DEF Return
<1> USE <1>2
<1>3. /\ call' \in [Routine -> {"none", "wait", "drain"}] /\ call'[current] = "none"
      /\ ctx' \in [Routine -> Ctx \cup {NoCtx}] /\ ctx'[current] = NoCtx
      /\ \A r \in Routine : r # current => call'[r] = call[r] /\ ctx'[r] = ctx[r]
  BY <1>1 DEF IocpTypeOK
<1>4. ControlOK'
  BY <1>1 DEF ControlOK, SchedTypeOK
<1>5. IocpTypeOK'
  BY <1>1, <1>3 DEF IocpTypeOK
<1> QED BY <1>3, <1>4, <1>5

LEMMA SocketReturn ==
  ASSUME SocketInv, pc = "coroutine", NEW given \in SUBSET Socket, Return(given),
         given \subseteq {ctx[current].client},
         heap' \in [Routine -> Nat], ioWaiting' \in [Routine -> BOOLEAN]
  PROVE  SocketInv'
<1>1. /\ ControlOK' /\ IocpTypeOK'
      /\ call'[current] = "none" /\ ctx'[current] = NoCtx
      /\ handed' = handed \cup given /\ open' = open \ ({ctx[current].client} \ given)
      /\ \A r \in Routine : r # current => call'[r] = call[r] /\ ctx'[r] = ctx[r]
  BY ReturnFacts
<1> USE <1>1
<1>2. /\ current \in Routine /\ NoSocket \notin open /\ NoSocket \notin handed /\ handed \subseteq open
      /\ \A r \in Routine : ClientInv(r)
      /\ \A t \in open : t \in handed \/ \E r \in Routine : ctx[r].client = t
  BY SocketFacts DEF SocketInv
<1> USE <1>2
<1> DEFINE c == ctx[current].client
<1>3. (c # NoSocket => c \in open \ handed) /\ NoSocket \notin given
  BY IocpAssumption DEF ClientInv
<1>4. ctx'[current].client = NoSocket /\ ctx'[current].op = "none"
  BY NoCtxFields
<1>5. ASSUME NEW r \in Routine, r # current
      PROVE  ctx'[r].client = ctx[r].client /\ ctx'[r].op = ctx[r].op
             /\ (ctx[r].client # NoSocket => ctx[r].client # c)
  BY <1>5 DEF ClientInv
<1>6. given = {} \/ given = {c}
  OBVIOUS
<1>7. handed' \subseteq open'
  BY <1>3, <1>6
<1>8. ASSUME NEW r \in Routine PROVE ClientInv(r)'
  <2>1. CASE r = current
    BY <1>4, <2>1 DEF ClientInv
  <2>2. CASE r # current
    <3>1. ClientInv(r) /\ call'[r] = call[r] /\ ctx'[r] = ctx[r]
          /\ ctx'[r].client = ctx[r].client /\ ctx'[r].op = ctx[r].op
          /\ (ctx[r].client # NoSocket => ctx[r].client # c)
      BY <1>5, <2>2
    <3>2. ASSUME NEW q \in Routine, ctx[r].client # NoSocket, ctx'[q].client = ctx[r].client PROVE q = r
      <4>1. q # current
        BY <1>4, <3>2
      <4> QED BY <1>5, <3>1, <3>2, <4>1 DEF ClientInv
    <3>3. ctx[r].client # NoSocket => ctx[r].client \in open' \ handed'
      BY <1>6, <3>1 DEF ClientInv
    <3> QED BY <3>1, <3>2, <3>3 DEF ClientInv
  <2> QED BY <2>1, <2>2
<1>9. ASSUME NEW t \in open' PROVE t \in handed' \/ \E r \in Routine : ctx'[r].client = t
  <2>1. CASE t = c
    BY <1>6, <1>9, <2>1
  <2>2. CASE t # c /\ t \notin handed
    <3>1. PICK r \in Routine : ctx[r].client = t
      BY <1>9, <2>2
    <3>2. r # current
      BY <2>2, <3>1
    <3> QED BY <1>5, <3>1, <3>2
  <2> QED BY <2>1, <2>2
<1> QED BY <1>7, <1>8, <1>9 DEF SocketInv

LEMMA CancelFacts ==
  ASSUME SchedTypeOK, current \in Routine, CancelTimer
  PROVE  /\ heap' \in [Routine -> Nat] /\ ioWaiting' \in [Routine -> BOOLEAN]
         /\ \A r \in Routine : r # current => heap'[r] = heap[r] /\ ioWaiting'[r] = ioWaiting[r]
         /\ ctx[current].timed => heap'[current] = 0 \/ heap'[current] = heap[current] - 1
         /\ ctx[current].timed /\ heap[current] = 0 => heap'[current] = 0
         /\ ctx[current].timed => ioWaiting'[current] = FALSE
         /\ ~ctx[current].timed => UNCHANGED <<heap, ioWaiting>>
<1>1. heap \in [Routine -> Nat] /\ ioWaiting \in [Routine -> BOOLEAN]
  BY DEF SchedTypeOK
<1>2. CASE ~ctx[current].timed
  BY <1>1, <1>2 DEF CancelTimer
<1>3. CASE ctx[current].timed /\ heap[current] = 0
  BY <1>1, <1>3 DEF CancelTimer
<1>4. CASE ctx[current].timed /\ heap[current] # 0
  <2>1. /\ ioWaiting' = [ioWaiting EXCEPT ![current] = FALSE]
        /\ heap' = [heap EXCEPT ![current] = heap[current] - 1]
    BY <1>4 DEF CancelTimer
  <2>2. heap[current] - 1 \in Nat
    BY ONLY SMTT(30), <1>1, <1>4, current \in Routine
  <2> QED BY <1>1, <1>4, <2>1, <2>2
<1> QED BY <1>2, <1>3, <1>4

(* A call that runs again: it waits a second time, or returns.             *)
ReturnsAfter(given) ==
  /\ Return(given)
  /\ \/ /\ call[current] = "drain" \/ (~timedOut[current] /\ revents[current] = "error")
        /\ UNCHANGED <<heap, ioWaiting>>
     \/ call[current] = "wait" /\ ~timedOut[current] /\ revents[current] # "error" /\ CancelTimer

LEMMA ResumeCases ==
  ASSUME SocketInv, Resume
  PROVE  /\ pc = "coroutine" /\ call[current] \in {"wait", "drain"}
         /\ \/ call[current] = "wait" /\ timedOut[current] /\ Drain
            \/ \E given \in SUBSET Socket : given \subseteq {ctx[current].client} /\ ReturnsAfter(given)
<1>1. /\ pc = "coroutine" /\ call[current] \in {"wait", "drain"}
      /\ \/ call[current] = "wait" /\ timedOut[current] /\ Drain
         \/ ReturnsAfter({})
         \/ ctx[current].op = "accept" /\ ReturnsAfter({ctx[current].client})
  BY DEF Resume, TransferResume, AcceptResume, ConnectResume, TimedOut, Failed, Succeeded, Drained,
     Resumed, ReturnsAfter
<1> USE <1>1
<1>2. CASE ctx[current].op = "accept" /\ ReturnsAfter({ctx[current].client})
  <2>1. ctx[current].client \in Socket
    BY <1>2, SocketFacts DEF ClientInv
  <2>2. {ctx[current].client} \in SUBSET Socket
    BY <2>1
  <2> QED BY <1>2, <2>2
<1>3. CASE ReturnsAfter({})
  BY <1>3
<1> QED BY <1>2, <1>3

LEMMA SocketResume ==
  ASSUME SocketInv, Resume
  PROVE  SocketInv'
<1>1. pc = "coroutine" /\ call[current] # "none" /\ SchedTypeOK /\ current \in Routine
  BY ResumeCases, SocketFacts
<1>2. CASE Drain
  BY <1>1, <1>2, SocketDrain
<1>3. ASSUME NEW given \in SUBSET Socket, given \subseteq {ctx[current].client}, ReturnsAfter(given)
      PROVE  SocketInv'
  <2>1. heap' \in [Routine -> Nat] /\ ioWaiting' \in [Routine -> BOOLEAN]
    <3>1. UNCHANGED <<heap, ioWaiting>> \/ CancelTimer
      BY <1>3 DEF ReturnsAfter
    <3> QED BY <1>1, <3>1, CancelFacts DEF SchedTypeOK
  <2> QED BY <1>1, <1>3, <2>1, SocketReturn DEF ReturnsAfter
<1> QED BY <1>2, <1>3, ResumeCases

------------------------------------------------------------------------------
(* The first n packets of the port, and the others.                        *)
LEMMA Batch ==
  ASSUME NEW T, NEW p \in Seq(T), NEW n \in Nat, n <= Len(p)
  PROVE  /\ SubSeq(p, 1, n) \in Seq(T) /\ DOMAIN SubSeq(p, 1, n) = 1..n
         /\ \A i \in 1..n : SubSeq(p, 1, n)[i] = p[i] /\ i \in DOMAIN p
         /\ SubSeq(p, n + 1, Len(p)) \in Seq(T)
         /\ \A i \in DOMAIN SubSeq(p, n + 1, Len(p)) :
              /\ SubSeq(p, n + 1, Len(p))[i] = p[n + i]
              /\ n + i \in DOMAIN p /\ n + i \notin 1..n
         /\ \A i \in DOMAIN p : i \in 1..n \/ (i - n \in DOMAIN SubSeq(p, n + 1, Len(p)) /\ n + (i - n) = i)
         /\ \A i, j \in DOMAIN SubSeq(p, n + 1, Len(p)) : n + i = n + j => i = j
  BY SMTT(30)

(* co_iomux_poll takes n packets and wakes the coroutines of W.            *)
Taken(n, W) ==
  /\ n \in Nat /\ n <= Len(packets) /\ n > 0
  /\ W = {r \in Routine : state[r] = "WAITING" /\ \E i \in 1..n : packets[i].routine = r}
  /\ IsFiniteSet(W) /\ Cardinality(W) \in Nat
  /\ packets' = SubSeq(packets, n + 1, Len(packets))
  /\ \A r \in Routine :
       /\ state'[r] = IF r \in W THEN "READY" ELSE state[r]
       /\ ioWaiting'[r] = IF r \in W THEN FALSE ELSE ioWaiting[r]
  /\ state' = [r \in Routine |-> IF r \in W THEN "READY" ELSE state[r]]
  /\ ioWaiting' \in [Routine -> BOOLEAN]
  /\ waitingIo' = waitingIo - Cardinality(W) /\ waitingIo' \in Int
  /\ \E o \in Seq(W) :
       /\ Range(o) = W /\ IsInjective(o)
       /\ queue' = [queue EXCEPT ![Ready] = @ \o o]
  /\ pc = "poll" /\ pc' = "recheck"
  /\ UNCHANGED <<heap, wakeup, condQ, timedOut, active, current, now, clock,
                 open, assoc, pending, table, call, ctx, handed>>

(* The event of r is that of its last packet in the batch b.               *)
Events(b) ==
  revents' = [r \in Routine |->
                IF {i \in DOMAIN b : b[i].routine = r} = {} THEN revents[r]
                ELSE b[Max({i \in DOMAIN b : b[i].routine = r})].status]

LEMMA PollFacts ==
  ASSUME SocketInv, PollPackets
  PROVE  \E n, W : Taken(n, W) /\ Events(SubSeq(packets, 1, n))
<1>1. /\ SchedTypeOK /\ packets \in Seq(Packet) /\ pc = "poll" /\ pc' = "recheck"
      /\ UNCHANGED <<heap, wakeup, condQ, timedOut, active, current, now, clock,
                     open, assoc, pending, table, call, ctx, handed>>
  BY SocketFacts DEF IocpTypeOK, PollPackets
<1> USE <1>1
<1>2. PICK n \in BatchSizes : /\ Deliver(SubSeq(packets, 1, n))
                              /\ packets' = SubSeq(packets, n + 1, Len(packets))
  BY DEF PollPackets
<1>3. n \in Nat /\ n <= Len(packets) /\ n > 0
  BY SMTT(30), <1>2 DEF BatchSizes
<1>4. PICK b : b = SubSeq(packets, 1, n)
  OBVIOUS
<1>5. DOMAIN b = 1..n /\ \A i \in 1..n : b[i] = packets[i]
  <2>1. packets \in Seq(Packet) /\ n \in Nat /\ n <= Len(packets)
    BY <1>3
  <2>2. DOMAIN SubSeq(packets, 1, n) = 1..n /\ \A i \in 1..n : SubSeq(packets, 1, n)[i] = packets[i]
    BY ONLY <2>1
  <2> QED BY <1>4, <2>2
<1>6. PICK W : W = {r \in Routine : {i \in DOMAIN b : b[i].routine = r} # {} /\ state[r] = "WAITING"}
  OBVIOUS
<1>7. /\ revents' = [r \in Routine |->
                       IF {i \in DOMAIN b : b[i].routine = r} = {} THEN revents[r]
                       ELSE b[Max({i \in DOMAIN b : b[i].routine = r})].status]
      /\ state' = [r \in Routine |-> IF r \in W THEN "READY" ELSE state[r]]
      /\ ioWaiting' = [r \in Routine |-> IF r \in W THEN FALSE ELSE ioWaiting[r]]
      /\ waitingIo' = waitingIo - Cardinality(W)
      /\ \E o \in Bijection(1..Cardinality(W), W) : queue' = [queue EXCEPT ![Ready] = @ \o o]
  BY <1>2, <1>4, <1>6 DEF Deliver
<1> USE <1>7
<1>8. W \subseteq Routine
  BY <1>6
<1>9. IsFiniteSet(W)
  BY <1>8, RoutineAssumption, FS_Subset
<1>10. Cardinality(W) \in Nat
  BY <1>9, FS_CardinalityType
<1>11. waitingIo' \in Int
  <2>1. waitingIo \in Int /\ waitingIo' = waitingIo - Cardinality(W)
    BY DEF SchedTypeOK
  <2> QED BY ONLY SMTT(30), <1>10, <2>1
<1>12. \E o \in Seq(W) :
         /\ Range(o) = W /\ IsInjective(o)
         /\ queue' = [queue EXCEPT ![Ready] = @ \o o]
  <2>1. PICK o \in Bijection(1..Cardinality(W), W) : queue' = [queue EXCEPT ![Ready] = @ \o o]
    OBVIOUS
  <2>2. o \in Seq(W) /\ Range(o) = W /\ IsInjective(o)
    BY ONLY Zenon, o \in Bijection(1..Cardinality(W), W), <1>10, BijectionIsList
  <2> QED BY <2>1, <2>2
<1>13. /\ ioWaiting' \in [Routine -> BOOLEAN]
       /\ \A r \in Routine :
            /\ state'[r] = IF r \in W THEN "READY" ELSE state[r]
            /\ ioWaiting'[r] = IF r \in W THEN FALSE ELSE ioWaiting[r]
  BY DEF SchedTypeOK
<1>14. W = {r \in Routine : state[r] = "WAITING" /\ \E i \in 1..n : packets[i].routine = r}
  BY SMTT(30), <1>5, <1>6
<1>15. Taken(n, W)
  BY <1>2, <1>3, <1>9, <1>10, <1>11, <1>12, <1>13, <1>14 DEF Taken
<1>16. Events(SubSeq(packets, 1, n))
  BY <1>4 DEF Events
<1> QED BY <1>15, <1>16

LEMMA SocketPoll ==
  ASSUME SocketInv, PollPackets
  PROVE  SocketInv'
<1>1. PICK n, W : Taken(n, W)
  BY PollFacts
<1>2. /\ n \in Nat /\ n <= Len(packets) /\ packets' = SubSeq(packets, n + 1, Len(packets))
      /\ W \subseteq Routine /\ IsFiniteSet(W)
      /\ \A r \in Routine : state'[r] = IF r \in W THEN "READY" ELSE state[r]
      /\ state' = [r \in Routine |-> IF r \in W THEN "READY" ELSE state[r]]
      /\ ioWaiting' \in [Routine -> BOOLEAN] /\ waitingIo' \in Int
      /\ pc = "poll" /\ pc' = "recheck"
      /\ UNCHANGED <<heap, wakeup, condQ, timedOut, active, current, now, clock,
                     open, assoc, pending, table, call, ctx, handed>>
  BY <1>1 DEF Taken
<1> USE <1>2
<1>3. PICK o \in Seq(W) :
        /\ Range(o) = W /\ IsInjective(o)
        /\ queue' = [queue EXCEPT ![Ready] = @ \o o]
  BY <1>1 DEF Taken
<1>4. ControlOK /\ SchedTypeOK /\ IocpTypeOK /\ packets \in Seq(Packet)
  BY SocketFacts DEF IocpTypeOK
<1> USE <1>4
<1>5. queue' \in [Queue -> Seq(Routine)]
  <2>1. queue \in [Queue -> Seq(Routine)] /\ Ready \in Queue
    BY DEF SchedTypeOK, Queue
  <2>2. o \in Seq(W)
    BY <1>3
  <2>3. o \in Seq(Routine) /\ queue[Ready] \in Seq(Routine)
    BY ONLY <1>2, <2>1, <2>2
  <2>4. queue[Ready] \o o \in Seq(Routine)
    BY ONLY <2>3
  <2> QED BY <1>3, <2>1, <2>4
<1>6. state' \in [Routine -> State]
  BY DEF SchedTypeOK, State
<1>7. ControlOK'
  BY <1>5, <1>6 DEF ControlOK, SchedTypeOK, Location
<1>8. packets' \in Seq(Packet)
  BY Batch
<1>9. IocpTypeOK'
  BY <1>8 DEF IocpTypeOK
<1> QED BY <1>7, <1>9, SocketStays

------------------------------------------------------------------------------
LEMMA SocketStart ==
  ASSUME IocpInit
  PROVE  SocketInv
<1>1. SchedInv
  BY SchedStart DEF IocpInit
<1>2. ControlOK
  BY <1>1 DEF IocpInit, SchedInit, SchedInv, ControlOK
<1>3. <<>> \in Seq(Packet)
  BY SMT
<1>4. IocpTypeOK
  BY <1>3 DEF IocpInit, IocpTypeOK
<1>5. \A r \in Routine : ClientInv(r)
  <2>1. ASSUME NEW r \in Routine PROVE ClientInv(r)
    <3>1. ctx[r] = NoCtx /\ call[r] = "none"
      BY DEF IocpInit
    <3>2. ctx[r].client = NoSocket /\ ctx[r].op = "none"
      BY <3>1, NoCtxFields
    <3> QED BY <3>1, <3>2 DEF ClientInv
  <2> QED BY <2>1
<1> QED BY <1>2, <1>4, <1>5 DEF SocketInv, IocpInit

(* The calls begin with a Submit or fail at once.                          *)
LEMMA CallCases ==
  ASSUME SocketInv, NEW s \in Socket, Transfer(s) \/ Accept(s) \/ Connect(s)
  PROVE  /\ pc = "coroutine" /\ call[current] = "none" /\ s \in handed
         /\ \E b \in BOOLEAN :
              /\ b => s \in TimedSocket
              /\ \/ \E flag \in BOOLEAN : FailsAtOnce(s, b, flag) /\ (flag => b)
                 \/ \E op \in Operation, c \in Socket \cup {NoSocket} :
                      /\ Submit(s, op, c, b) /\ (c = NoSocket \/ FreshHandle(c))
                      /\ op = "accept" => c # NoSocket
<1>1. "transfer" \in Operation /\ "accept" \in Operation /\ "connect" \in Operation
  BY DEF Operation
<1>2. /\ pc = "coroutine" /\ call[current] = "none" /\ s \in handed
  BY DEF Transfer, Accept, Connect, InCoroutineCode
<1> USE <1>2
<1>3. CASE Transfer(s)
  BY <1>1, <1>3 DEF Transfer
<1>4. CASE Connect(s)
  BY <1>1, <1>4 DEF Connect
<1>5. CASE Accept(s)
  <2>1. PICK b \in BOOLEAN, c \in Socket :
          /\ b => s \in TimedSocket
          /\ FreshHandle(c)
          /\ Submit(s, "accept", c, b) \/ FailsAtOnce(s, b, FALSE)
    BY <1>5 DEF Accept
  <2>2. c # NoSocket
    BY IocpAssumption
  <2>3. CASE FailsAtOnce(s, b, FALSE)
    BY <2>1, <2>3
  <2>4. CASE Submit(s, "accept", c, b)
    <3>1. c \in Socket \cup {NoSocket}
      OBVIOUS
    <3> QED BY <1>1, <2>1, <2>2, <2>4, <3>1
  <2> QED BY <2>1, <2>3, <2>4
<1> QED BY <1>3, <1>4, <1>5

LEMMA SocketNext ==
  ASSUME SocketInv, [Next]_vars
  PROVE  SocketInv'
<1>1. ASSUME NEW s \in Socket, Transfer(s) \/ Accept(s) \/ Connect(s) PROVE SocketInv'
  <2>1. PICK b \in BOOLEAN :
          \/ \E flag \in BOOLEAN : FailsAtOnce(s, b, flag)
          \/ \E op \in Operation, c \in Socket \cup {NoSocket} :
               /\ Submit(s, op, c, b) /\ (c = NoSocket \/ FreshHandle(c))
               /\ op = "accept" => c # NoSocket
    BY <1>1, CallCases
  <2>2. pc = "coroutine" /\ call[current] = "none"
    BY <1>1, CallCases
  <2>3. ASSUME NEW flag \in BOOLEAN, FailsAtOnce(s, b, flag) PROVE SocketInv'
    BY <2>2, <2>3, SocketFails
  <2>4. ASSUME NEW op \in Operation, NEW c \in Socket \cup {NoSocket}, Submit(s, op, c, b),
               c = NoSocket \/ FreshHandle(c), op = "accept" => c # NoSocket
        PROVE  SocketInv'
    <3>1. c = NoSocket \/ c \notin open
      BY <2>4 DEF FreshHandle
    <3> QED BY <2>2, <2>4, <3>1, SocketSubmit
  <2> QED BY <2>1, <2>3, <2>4
<1>2. CASE UNCHANGED vars
  <2>1. UNCHANGED <<schedVars, open, assoc, pending, packets, table, call, ctx, handed>>
    BY <1>2 DEF vars, iocpVars, kernelVars
  <2>2. ControlOK' /\ IocpTypeOK'
    BY <2>1, SocketFacts, ControlStays DEF IocpTypeOK
  <2> QED BY <2>1, <2>2, SocketStays
<1> QED
  BY <1>1, <1>2, SocketOpen, SocketClose, SocketResume, SocketPoll, SocketComplete, SocketSched
  DEF Next, SocketStep

(* Each open socket belongs to the client or to one co_accept.             *)
THEOREM SocketInvariant == Spec => []SocketInv
<1>1. IocpInit => SocketInv
  BY SocketStart
<1>2. SocketInv /\ [Next]_vars => SocketInv'
  BY SocketNext
<1> QED BY <1>1, <1>2, PTL DEF Spec

(* co_accept closes the socket it has created or gives it to its caller,   *)
(* once, on each of its ways out, whatever fails, times out or is          *)
(* cancelled and however the calls of several coroutines interleave.       *)
THEOREM NoSocketIsLost == Spec => []SocketsAccounted
<1>1. ASSUME SocketInv PROVE SocketsAccounted
  <2> DEFINE created == {ctx[q].client : q \in Routine} \ {NoSocket}
  <2>1. /\ handed \subseteq open /\ NoSocket \notin open
        /\ \A s \in open : s \in handed \/ \E r \in Routine : ctx[r].client = s
        /\ \A r \in Routine : ctx[r].client # NoSocket => ctx[r].client \in open \ handed
    BY <1>1, SocketFacts DEF SocketInv, ClientInv
  <2>2. ASSUME NEW s \in created PROVE s \in open \ handed
    <3>1. PICK r \in Routine : s = ctx[r].client
      BY <2>2
    <3>2. s # NoSocket
      BY <2>2
    <3> QED BY <2>1, <3>1, <3>2
  <2>3. ASSUME NEW s \in open, s \notin handed PROVE s \in created
    BY <2>1, <2>3
  <2>4. open = handed \cup created
    BY <2>1, <2>2, <2>3
  <2>5. handed \cap created = {}
    BY <2>2
  <2> QED BY <2>4, <2>5 DEF SocketsAccounted
<1> QED BY <1>1, SocketInvariant, PTL

------------------------------------------------------------------------------
(* Orderly use.  What is in flight, ...                                    *)

LEMMA InPortIs ==
  ASSUME NEW r
  PROVE  /\ InPort(r) <=> \E i \in DOMAIN packets : packets[i].routine = r
         /\ InPort(r)' <=> \E i \in DOMAIN packets' : packets'[i].routine = r
<1>1. ASSUME InPort(r) PROVE \E i \in DOMAIN packets : packets[i].routine = r
  <2>1. PICK p \in Range(packets) : p.routine = r
    BY <1>1 DEF InPort
  <2>2. PICK i \in DOMAIN packets : packets[i] = p
    BY DEF Range
  <2> QED BY <2>1, <2>2
<1>2. ASSUME InPort(r)' PROVE \E i \in DOMAIN packets' : packets'[i].routine = r
  <2>1. PICK p \in Range(packets') : p.routine = r
    BY <1>2 DEF InPort
  <2>2. PICK i \in DOMAIN packets' : packets'[i] = p
    BY DEF Range
  <2> QED BY <2>1, <2>2
<1>3. ASSUME NEW i \in DOMAIN packets, packets[i].routine = r PROVE InPort(r)
  BY <1>3 DEF InPort, Range
<1>4. ASSUME NEW i \in DOMAIN packets', packets'[i].routine = r PROVE InPort(r)'
  BY <1>4 DEF InPort, Range
<1> QED BY <1>1, <1>2, <1>3, <1>4

LEMMA FlightStays ==
  ASSUME NEW r \in Routine, FlightInv(r), packets' = packets,
         call'[r] = call[r], ctx'[r] = ctx[r], pending'[r] = pending[r], revents'[r] = revents[r],
         call[r] # "none" => ctx[r].fd \in handed',
         pending[r] # NoSocket => pending[r] \in assoc'
  PROVE  FlightInv(r)' /\ (InFlight(r)' <=> InFlight(r))
<1>1. ctx'[r].fd = ctx[r].fd /\ ctx'[r].timed = ctx[r].timed
  OBVIOUS
<1>2. InPort(r)' <=> InPort(r)
  BY DEF InPort
<1>3. InFlight(r)' <=> InFlight(r)
  BY <1>2 DEF InFlight
<1>4. call'[r] = "none" => ~InFlight(r)'
  BY <1>3 DEF FlightInv
<1>5. /\ call'[r] # "none" => ctx'[r].fd \in handed' /\ (ctx'[r].timed => ctx'[r].fd \in TimedSocket)
      /\ pending'[r] # NoSocket => pending'[r] = ctx'[r].fd /\ pending'[r] \in assoc' /\ ~InPort(r)'
  BY <1>1, <1>2 DEF FlightInv
<1>6. /\ \A i, j \in DOMAIN packets' :
           packets'[i].routine = r /\ packets'[j].routine = r => i = j
      /\ \A i \in DOMAIN packets' :
           packets'[i].routine = r /\ packets'[i].status = "error" /\ call'[r] = "wait"
             => ctx'[r].fd \in FailingSocket
      /\ revents'[r] = "error" /\ call'[r] = "wait" => ctx'[r].fd \in FailingSocket
  BY <1>1 DEF FlightInv
<1> QED BY <1>3, <1>4, <1>5, <1>6 DEF FlightInv

(* ... which sockets are associated, ...                                   *)
LEMMA RoomInTable ==
  ASSUME OrderlyUse, table \subseteq Socket, NEW s \in Socket, s \notin table
  PROVE  Cardinality(table) < TableSize
<1>1. /\ IsFiniteSet(Socket) /\ Cardinality(Socket) <= TableSize
      /\ IsFiniteSet(table) /\ Cardinality(table) <= Cardinality(Socket)
      /\ Cardinality(table) # Cardinality(Socket)
  <2>1. IsFiniteSet(Socket) /\ Cardinality(Socket) <= TableSize
    BY DEF OrderlyUse
  <2>2. table # Socket
    OBVIOUS
  <2> QED BY <2>1, <2>2, FS_Subset
<1>2. Cardinality(table) \in Nat /\ Cardinality(Socket) \in Nat /\ TableSize \in Nat
  BY <1>1, FS_CardinalityType, IocpAssumption
<1> QED BY ONLY SMTT(30), <1>1, <1>2

LEMMA Associated ==
  ASSUME OrderlyUse, SocketInv, TableInv, NEW s \in open, Associate(s)
  PROVE  /\ s \in assoc' /\ assoc \subseteq assoc' /\ assoc' \subseteq table'
         /\ table' \cap open \subseteq assoc' /\ table' \subseteq table \cup {s}
<1>1. table \subseteq Socket /\ s \in Socket
  BY SocketFacts DEF IocpTypeOK
<1>2. CASE s \in table /\ UNCHANGED <<table, assoc>>
  BY <1>2 DEF TableInv
<1>3. CASE s \notin table
  <2>1. Cardinality(table) < TableSize
    BY <1>1, <1>3, RoomInTable
  <2>2. assoc' = assoc \cup {s} /\ table' = table \cup {s}
    BY <1>3, <2>1 DEF Associate
  <2> QED BY <2>2 DEF TableInv
<1> QED BY <1>2, <1>3 DEF Associate

(* ... and the timers.                                                     *)
LEMMA PositiveHeap ==
  ASSUME NEW m \in Nat, NEW n, n = m \/ n = 0
  PROVE  n > 0 => m > 0
  BY SMT

LEMMA WaitStays ==
  ASSUME NEW r \in Routine, TimerWaitInv(r), heap[r] \in Nat, Passes(r),
         call'[r] = call[r], ctx'[r] = ctx[r], revents'[r] = revents[r], InFlight(r)' <=> InFlight(r)
  PROVE  TimerWaitInv(r)' /\ (InWait(r)' <=> InWait(r))
<1>1. /\ state'[r] = state[r] /\ timedOut'[r] = timedOut[r] /\ ioWaiting'[r] = ioWaiting[r]
      /\ heap'[r] = heap[r] \/ heap'[r] = 0
      /\ pc' = "coroutine" /\ r = current' => pc = "coroutine" /\ r = current
  BY DEF Passes, Kept
<1> USE <1>1
<1>2. heap'[r] > 0 => heap[r] > 0
  BY PositiveHeap
<1>3. InWait(r)' <=> InWait(r)
  BY DEF InWait
<1>4. ctx'[r].timed = ctx[r].timed
  OBVIOUS
<1>5. /\ call'[r] # "none" => state'[r] \notin {"FREE", "DEAD"}
      /\ call'[r] = "none" => revents'[r] = "none"
      /\ InWait(r)' => /\ revents'[r] = "none" /\ InFlight(r)'
                       /\ timedOut'[r] = (call'[r] = "drain")
                       /\ ioWaiting'[r] = (call'[r] = "wait" /\ ctx'[r].timed)
      /\ ioWaiting'[r] => InWait(r)'
      /\ heap'[r] > 0 => \/ call'[r] = "none" /\ state'[r] = "WAITING"
                         \/ call'[r] = "wait" /\ ctx'[r].timed /\ ~timedOut'[r]
  BY <1>2, <1>3, <1>4 DEF TimerWaitInv
<1>6. call'[r] # "none" /\ (state'[r] = "READY" \/ (pc' = "coroutine" /\ r = current')) =>
        /\ (revents'[r] # "none") = ~InFlight(r)'
        /\ (revents'[r] # "none") = (call'[r] = "drain" \/ ~timedOut'[r])
  BY DEF TimerWaitInv
<1> QED BY <1>3, <1>5, <1>6 DEF TimerWaitInv

(* A coroutine in no socket call.                                          *)
LEMMA WaitIdle ==
  ASSUME NEW r \in Routine, call'[r] = "none", revents'[r] = "none", ioWaiting'[r] = FALSE,
         heap'[r] > 0 => state'[r] = "WAITING"
  PROVE  TimerWaitInv(r)' /\ ~InWait(r)'
  BY DEF TimerWaitInv, InWait

LEMMA IdleFacts ==
  ASSUME NEW r \in Routine, TimerWaitInv(r), ioWaiting[r] \in BOOLEAN, call[r] = "none"
  PROVE  /\ revents[r] = "none" /\ ioWaiting[r] = FALSE /\ ~InWait(r)
         /\ heap[r] > 0 => state[r] = "WAITING"
  BY DEF TimerWaitInv, InWait

LEMMA WaitSched ==
  ASSUME NEW r \in Routine, TimerWaitInv(r), StepOf(r),
         heap[r] \in Nat, ioWaiting[r] \in BOOLEAN, timedOut[r] \in BOOLEAN,
         call[r] \in {"none", "wait", "drain"}, InFlight(r)' <=> InFlight(r),
         call'[r] = call[r], ctx'[r] = ctx[r], revents'[r] = revents[r],
         pc = "coroutine" /\ r = current => state[r] # "WAITING",
         Suspends(r) => call[r] = "none"
  PROVE  TimerWaitInv(r)' /\ (InWait(r)' <=> InWait(r) /\ ~TimesOut(r))
<1>0. ctx'[r].timed = ctx[r].timed
  OBVIOUS
<1>1. CASE Passes(r)
  <2>1. TimerWaitInv(r)' /\ (InWait(r)' <=> InWait(r))
    BY <1>1, WaitStays
  <2>2. state'[r] = state[r]
    BY <1>1 DEF Passes, Kept
  <2> QED BY <2>1, <2>2 DEF InWait, TimesOut
<1>2. CASE TimesOut(r)
  <2>1. /\ ioWaiting[r] /\ state'[r] = "READY" /\ timedOut'[r] = TRUE /\ ioWaiting'[r] = FALSE
        /\ heap'[r] = 0
    BY <1>2 DEF TimesOut
  <2>2. InWait(r) /\ call[r] = "wait" /\ revents[r] = "none" /\ InFlight(r)
    BY <2>1 DEF TimerWaitInv
  <2>3. ~(heap'[r] > 0)
    BY ONLY <2>1
  <2> QED BY <1>0, <1>2, <2>1, <2>2, <2>3 DEF TimerWaitInv, InWait
<1>3. CASE WakesUp(r)
  <2>1. /\ pc = "timers" /\ state[r] = "WAITING" /\ heap[r] > 0 /\ ioWaiting[r] = FALSE
        /\ state'[r] = "READY" /\ ioWaiting'[r] = FALSE /\ heap'[r] = 0
    BY <1>3 DEF WakesUp
  <2>2. call[r] = "none"
    <3>1. ASSUME call[r] = "wait" /\ ctx[r].timed PROVE FALSE
      BY <2>1, <3>1 DEF TimerWaitInv, InWait
    <3> QED BY <2>1, <3>1 DEF TimerWaitInv
  <2>3. ~(heap'[r] > 0)
    BY ONLY <2>1
  <2>4. revents[r] = "none" /\ ~InWait(r)
    BY <2>2, IdleFacts
  <2> QED BY <2>1, <2>2, <2>3, <2>4, WaitIdle
<1>4. CASE Starts(r)
  <2>1. /\ state[r] = "READY" /\ state'[r] = "RUNNING" /\ timedOut'[r] = timedOut[r]
        /\ ioWaiting'[r] = ioWaiting[r] /\ heap'[r] = heap[r]
    BY <1>4 DEF Starts
  <2> QED BY <1>0, <2>1 DEF TimerWaitInv, InWait
<1>5. CASE IsFreed(r) \/ IsSpawned(r)
  <2>1. /\ state[r] \in {"DEAD", "FREE"} /\ heap'[r] = heap[r]
        /\ ioWaiting'[r] = ioWaiting[r] \/ ioWaiting'[r] = FALSE
    BY <1>5 DEF IsFreed, IsSpawned
  <2>2. call[r] = "none"
    BY <2>1 DEF TimerWaitInv
  <2> QED BY <2>1, <2>2, IdleFacts, WaitIdle
<1>6. CASE Suspends(r)
  <2>1. /\ pc = "coroutine" /\ r = current /\ ioWaiting'[r] = ioWaiting[r]
        /\ heap'[r] = heap[r] \/ state'[r] = "WAITING"
    BY <1>6 DEF Suspends
  <2>2. call[r] = "none"
    BY <1>6
  <2> QED BY <2>1, <2>2, IdleFacts, WaitIdle
<1> QED BY <1>1, <1>2, <1>3, <1>4, <1>5, <1>6 DEF StepOf

(* waiting_io_count stays, goes down by the routines of W, or goes up.     *)
LEMMA WaitersFinite ==
  IsFiniteSet({r \in Routine : InWait(r)}) /\ Cardinality({r \in Routine : InWait(r)}) \in Nat
<1>1. IsFiniteSet({r \in Routine : InWait(r)})
  <2>1. {r \in Routine : InWait(r)} \subseteq Routine
    OBVIOUS
  <2> QED BY <2>1, RoutineAssumption, FS_Subset
<1> QED BY <1>1, FS_CardinalityType

LEMMA CountSame ==
  ASSUME WaitingIoIsCount, pc # "destroyed", waitingIo' = waitingIo,
         \A r \in Routine : InWait(r)' <=> InWait(r)
  PROVE  WaitingIoIsCount'
<1>1. {r \in Routine : InWait(r)}' = {r \in Routine : InWait(r)}
  OBVIOUS
<1> QED BY <1>1 DEF WaitingIoIsCount

LEMMA CountLess ==
  ASSUME WaitingIoIsCount, pc # "destroyed", NEW W \in SUBSET Routine,
         waitingIo' = waitingIo - Cardinality(W),
         \A r \in W : InWait(r),
         \A r \in Routine : InWait(r)' <=> InWait(r) /\ r \notin W
  PROVE  WaitingIoIsCount'
<1> DEFINE S == {r \in Routine : InWait(r)}
           T == {r \in Routine : InWait(r)}'
<1>1. T = S \ W /\ S \cap W = W
  OBVIOUS
<1>2. IsFiniteSet(S) /\ waitingIo = Cardinality(S)
  BY WaitersFinite DEF WaitingIoIsCount
<1>3. WaitingIoIsCount' <=> (pc' # "destroyed" => waitingIo' = Cardinality(T))
  BY DEF WaitingIoIsCount
<1> HIDE DEF S, T
<1>4. Cardinality(S \ W) = Cardinality(S) - Cardinality(S \cap W)
  BY <1>2, FS_Difference
<1>5. waitingIo' = Cardinality(T)
  BY <1>1, <1>2, <1>4
<1> QED BY <1>3, <1>5

LEMMA CountMore ==
  ASSUME WaitingIoIsCount, pc # "destroyed", NEW c \in Routine, ~InWait(c),
         waitingIo' = waitingIo + 1,
         \A r \in Routine : InWait(r)' <=> InWait(r) \/ r = c
  PROVE  WaitingIoIsCount'
<1> DEFINE S == {r \in Routine : InWait(r)}
           T == {r \in Routine : InWait(r)}'
<1>1. T = S \cup {c} /\ c \notin S
  OBVIOUS
<1>2. IsFiniteSet(S) /\ waitingIo = Cardinality(S)
  BY WaitersFinite DEF WaitingIoIsCount
<1>3. WaitingIoIsCount' <=> (pc' # "destroyed" => waitingIo' = Cardinality(T))
  BY DEF WaitingIoIsCount
<1> HIDE DEF S, T
<1>4. Cardinality(S \cup {c}) = Cardinality(S) + 1
  BY <1>1, <1>2, FS_AddElement
<1>5. waitingIo' = Cardinality(T)
  BY <1>1, <1>2, <1>4
<1> QED BY <1>3, <1>5

------------------------------------------------------------------------------
(* IocpInv.                                                                *)

LEMMA EmptyRange ==
  Range(<<>>) = {}
  BY SMT DEF Range

LEMMA IocpFacts ==
  ASSUME IocpInv
  PROVE  /\ SchedInv /\ SocketInv /\ ControlOK /\ SchedTypeOK /\ IocpTypeOK /\ TableInv
         /\ WaitingIoIsCount
         /\ \A r \in Routine : heap[r] \in Nat /\ heap[r] <= 1 /\ ioWaiting[r] \in BOOLEAN
                               /\ timedOut[r] \in BOOLEAN /\ call[r] \in {"none", "wait", "drain"}
         /\ pc # "destroyed" => \A r \in Routine : FlightInv(r) /\ TimerWaitInv(r)
         /\ pc = "coroutine" => /\ current \in Routine
                                /\ state[current] \in {"RUNNING", "READY"}
                                /\ ~InWait(current) /\ ioWaiting[current] = FALSE
<1>1. /\ SchedInv /\ SocketInv /\ ControlOK /\ SchedTypeOK /\ IocpTypeOK /\ TableInv
      /\ WaitingIoIsCount
      /\ pc # "destroyed" => \A r \in Routine : FlightInv(r) /\ TimerWaitInv(r)
  BY SocketFacts DEF IocpInv
<1>2. \A r \in Routine : heap[r] \in Nat /\ heap[r] <= 1 /\ ioWaiting[r] \in BOOLEAN
                         /\ timedOut[r] \in BOOLEAN /\ call[r] \in {"none", "wait", "drain"}
  BY <1>1 DEF SchedInv, OneTimerEach, SchedTypeOK, IocpTypeOK
<1>3. ASSUME pc = "coroutine"
      PROVE  current \in Routine /\ state[current] \in {"RUNNING", "READY"} /\ ~InWait(current)
             /\ TimerWaitInv(current)
  BY <1>1, <1>3 DEF SchedInv, ControlInv, ControlOK, InWait
<1>4. pc = "coroutine" => ioWaiting[current] = FALSE
  BY <1>2, <1>3 DEF TimerWaitInv
<1> QED BY <1>1, <1>2, <1>3, <1>4

(* Between two calls a coroutine has no timer and nothing in flight.       *)
LEMMA BetweenCalls ==
  ASSUME IocpInv, pc = "coroutine", call[current] = "none"
  PROVE  heap[current] = 0 /\ revents[current] = "none" /\ ~InFlight(current)
<1>1. /\ heap[current] \in Nat /\ TimerWaitInv(current) /\ FlightInv(current)
      /\ state[current] # "WAITING"
  BY IocpFacts
<1>2. ~(heap[current] > 0) /\ revents[current] = "none" /\ ~InFlight(current)
  BY <1>1 DEF TimerWaitInv, FlightInv
<1> QED BY SMTT(30), <1>1, <1>2

(* What the invariant says of a coroutine that the step does not concern.  *)
LEMMA IocpOthers ==
  ASSUME IocpInv, pc = "coroutine", pc' \in {"coroutine", "back"}, current' = current,
         NEW r \in Routine, r # current, packets' = packets,
         state'[r] = state[r], timedOut'[r] = timedOut[r], ioWaiting'[r] = ioWaiting[r],
         heap'[r] = heap[r], pending'[r] = pending[r],
         call'[r] = call[r], ctx'[r] = ctx[r], revents'[r] = revents[r],
         handed \subseteq handed', assoc \subseteq assoc'
  PROVE  FlightInv(r)' /\ TimerWaitInv(r)' /\ (InWait(r)' <=> InWait(r))
<1>1. FlightInv(r) /\ TimerWaitInv(r) /\ heap[r] \in Nat
  BY IocpFacts
<1>2. /\ call[r] # "none" => ctx[r].fd \in handed'
      /\ pending[r] # NoSocket => pending[r] \in assoc'
  BY <1>1 DEF FlightInv
<1>3. FlightInv(r)' /\ (InFlight(r)' <=> InFlight(r))
  BY <1>1, <1>2, FlightStays
<1>4. Passes(r)
  BY DEF Passes, Kept
<1> QED BY <1>1, <1>3, <1>4, WaitStays

(* Steps of the scheduler and of coroutines outside socket calls.          *)
LEMMA SwitchSched ==
  ASSUME SchedTypeOK, SwitchInv, ~SwapMayFail, SchedStep
  PROVE  SwitchInv'
<1>0. /\ \A r \in Routine : state[r] = "RUNNING" => pc = "coroutine" /\ r = current
      /\ pc = "recheck" /\ queue[Ready] = <<>> /\ HeapEmpty => waitingIo = 0
      /\ state \in [Routine -> State]
  BY DEF SwitchInv, SchedTypeOK
<1> USE <1>0
<1>1. CASE RunStart \/ SampleNow \/ Recheck
  BY <1>1 DEF RunStart, SampleNow, Recheck, SwitchInv
<1>2. CASE TimersDone
  BY <1>2 DEF TimersDone, SwitchInv, fieldVars
<1>3. CASE PollTimeout
  <2>1. PICK s \in Routine : heap[s] > 0
    BY <1>3 DEF PollTimeout
  <2>2. heap[s] # 0
    BY SMTT(30), <2>1
  <2> QED BY <1>3, <2>2 DEF PollTimeout, SwitchInv, HeapEmpty
<1>4. CASE Tick \/ Gone
  <2>1. UNCHANGED <<state, queue, heap, waitingIo, pc, current>>
    BY <1>4 DEF Tick, Gone, schedVars, fieldVars
  <2> QED BY <2>1 DEF SwitchInv, HeapEmpty
<1>5. ASSUME NEW s \in Routine, TimerStale(s) \/ TimerCond(s) \/ TimerIo(s) \/ TimerSleep(s)
      PROVE  SwitchInv'
  <2>1. /\ pc = "timers" /\ pc' = pc
        /\ state' = state \/ state' = [state EXCEPT ![s] = "READY"]
    BY <1>5 DEF TimerStale, TimerCond, TimerIo, TimerSleep, Expired
  <2> QED BY <2>1 DEF SwitchInv
<1>6. CASE Schedule
  <2>1. /\ pc = "schedule" /\ pc' = "coroutine" /\ current' = Head(queue[Ready])
        /\ state' = [state EXCEPT ![Head(queue[Ready])] = "RUNNING"]
    BY <1>6 DEF Schedule
  <2> QED BY <2>1 DEF SwitchInv
<1>7. CASE SwitchBack
  <2>1. /\ pc = "back" /\ pc' = "loop"
        /\ state' = state \/ state' = [state EXCEPT ![current] = "FREE"]
    BY <1>7 DEF SwitchBack
  <2> QED BY <2>1 DEF SwitchInv
<1>8. CASE Destroy
  BY <1>8 DEF Destroy, SwitchInv
<1>9. ASSUME NEW s \in Routine, Spawn(s) PROVE SwitchInv'
  <2>1. /\ pc \in {"idle", "coroutine"} /\ pc' = pc /\ current' = current
        /\ state' = [state EXCEPT ![s] = "READY"]
    BY <1>9 DEF Spawn
  <2> QED BY <2>1 DEF SwitchInv
<1>10. CASE Suspend
  <2>1. /\ pc = "coroutine" /\ pc' = "back"
        /\ \E v \in {"READY", "WAITING", "DEAD"} : state' = [state EXCEPT ![current] = v]
    BY <1>10 DEF Suspend, Yield, Sleep, Finish, SwapToMain
  <2> QED BY <2>1 DEF SwitchInv
<1> QED
  BY <1>1, <1>2, <1>3, <1>4, <1>5, <1>6, <1>7, <1>8, <1>9, <1>10
  DEF SchedStep, LoopStep, SchedulerStep, ScheduleError, ClientSpawn, ClientSuspend, Suspend

(* The kernel's part changes, and no call is concerned.                    *)
LEMMA IocpKernel ==
  ASSUME IocpInv, SocketInv', TableInv', UNCHANGED <<schedVars, call, ctx, revents>>,
         \A r \in Routine : FlightInv(r) => FlightInv(r)' /\ (InFlight(r)' <=> InFlight(r))
  PROVE  IocpInv'
<1>1. UNCHANGED <<state, queue, heap, timedOut, ioWaiting, waitingIo, current, pc>>
  BY DEF schedVars, fieldVars
<1> USE <1>1
<1>2. SchedInv'
  BY SchedStays DEF IocpInv
<1>3. ASSUME NEW r \in Routine, pc' # "destroyed" PROVE FlightInv(r)' /\ TimerWaitInv(r)'
  <2>1. FlightInv(r) /\ TimerWaitInv(r) /\ heap[r] \in Nat
    BY <1>3, IocpFacts
  <2>2. Passes(r)
    BY DEF Passes, Kept
  <2> QED BY <2>1, <2>2, WaitStays
<1>4. WaitingIoIsCount'
  <2>1. CASE pc = "destroyed"
    BY <2>1 DEF WaitingIoIsCount
  <2>2. CASE pc # "destroyed"
    <3>1. \A r \in Routine : InWait(r)' <=> InWait(r)
      BY DEF InWait
    <3> QED BY <2>2, <3>1, CountSame, IocpFacts
  <2> QED BY <2>1, <2>2
<1>5. ~SwapMayFail => SwitchInv'
  BY DEF IocpInv, SwitchInv, HeapEmpty
<1> QED BY <1>2, <1>3, <1>4, <1>5 DEF IocpInv

LEMMA IocpStutters ==
  ASSUME IocpInv, SocketInv', UNCHANGED <<schedVars, open, assoc, pending, packets, table, call, ctx,
                                          revents, handed>>
  PROVE  IocpInv'
<1>1. \A r \in Routine : FlightInv(r) => FlightInv(r)' /\ (InFlight(r)' <=> InFlight(r))
  BY FlightStays DEF FlightInv
<1>2. TableInv'
  BY DEF IocpInv, TableInv
<1> QED BY <1>1, <1>2, IocpKernel

LEMMA IocpSched ==
  ASSUME IocpInv, SchedStep
  PROVE  IocpInv'
<1>1. /\ SchedInv /\ SocketInv /\ ControlOK /\ SocketInv' /\ TableInv'
      /\ UNCHANGED <<open, assoc, pending, packets, table, call, ctx, revents, handed>>
      /\ (~SwapMayFail => SwitchInv')
  <2>1. /\ SchedInv /\ SocketInv /\ ControlOK /\ TableInv
        /\ UNCHANGED <<open, assoc, pending, packets, table, call, ctx, revents, handed>>
    BY IocpFacts DEF SchedStep, iocpVars, kernelVars
  <2>2. TableInv'
    BY <2>1 DEF TableInv
  <2>3. ~SwapMayFail => SwitchInv'
    BY <2>1, SwitchSched DEF IocpInv, ControlOK
  <2> QED BY <2>1, <2>2, <2>3, SocketSched
<1> USE <1>1
<1>2. CASE Gone
  BY <1>2, IocpStutters DEF Gone
<1>3. CASE Destroy
  <2>1. SchedInv' /\ pc' = "destroyed"
    BY <1>3, DestroyStep DEF Destroy
  <2>2. queue' = [queue EXCEPT ![Ready] = <<>>] /\ queue \in [Queue -> Seq(Routine)]
    BY <1>3 DEF Destroy, ControlOK, SchedTypeOK
  <2>3. \A q \in WaitQueue : queue'[q] = queue[q]
    BY <2>2, ReadyIsNoWaitQueue
  <2> QED BY <2>1, <2>3 DEF IocpInv, WaitingIoIsCount
<1>4. CASE ~Gone /\ ~Destroy
  <2>1. /\ SchedulerStep \/ Fault \/ RunStart \/ Tick \/ (\E r \in Routine : Spawn(r)) \/ Suspend
        /\ Suspend => call[current] = "none" \/ ~(pc = "coroutine")
    <3>1. CASE ClientSuspend
      BY <3>1 DEF ClientSuspend, InCoroutineCode, Suspend
    <3>2. CASE LoopStep \/ ScheduleError
      <4>1. SchedulerStep \/ Fault
        BY <3>2 DEF LoopStep, Fault
      <4>2. pc # "coroutine"
        BY <4>1 DEF SchedulerStep, Fault, SampleNow, TimerStale, TimerCond, TimerIo, TimerSleep,
           Expired, TimersDone, PollTimeout, Recheck, Schedule, SwitchBack, PollInterrupted, ScheduleError
      <4> QED BY <4>1, <4>2
    <3>3. CASE RunStart \/ Tick \/ \E r \in Routine : ClientSpawn(r)
      <4>1. RunStart \/ Tick \/ \E r \in Routine : Spawn(r)
        BY <3>3 DEF ClientSpawn
      <4>2. pc' = pc \/ pc # "coroutine"
        BY <4>1 DEF RunStart, Tick, Spawn
      <4>3. Suspend => pc = "coroutine" /\ pc' = "back"
        BY DEF Suspend, Yield, Sleep, Finish, SwapToMain
      <4> QED BY <4>1, <4>2, <4>3
    <3> QED BY <1>4, <3>1, <3>2, <3>3 DEF SchedStep
  <2>2. Suspend => pc = "coroutine" /\ call[current] = "none"
    BY <2>1 DEF Suspend, Yield, Sleep, Finish
  <2>3. Suspend => heap[current] = 0
    BY <2>2, BetweenCalls
  <2>4. Effect /\ SchedInv'
    BY <2>1, <2>3, SchedEffect
  <2> USE <2>4
  <2>5. pc # "destroyed" /\ pc' # "destroyed" /\ \A r \in Routine : StepOf(r)
    BY DEF Effect
  <2> USE <2>5
  <2>6. ASSUME NEW r \in Routine
        PROVE  FlightInv(r)' /\ TimerWaitInv(r)' /\ (InWait(r)' <=> InWait(r) /\ ~TimesOut(r))
    <3>1. /\ FlightInv(r) /\ TimerWaitInv(r) /\ StepOf(r) /\ heap[r] \in Nat /\ ioWaiting[r] \in BOOLEAN
          /\ timedOut[r] \in BOOLEAN /\ call[r] \in {"none", "wait", "drain"}
          /\ pc = "coroutine" /\ r = current => state[r] # "WAITING"
      BY IocpFacts
    <3>2. FlightInv(r)' /\ (InFlight(r)' <=> InFlight(r))
      BY <3>1, FlightStays DEF FlightInv
    <3>3. call'[r] = call[r] /\ ctx'[r] = ctx[r] /\ revents'[r] = revents[r]
      OBVIOUS
    <3>4. Suspends(r) => call[r] = "none"
      BY <2>2 DEF Suspends
    <3> QED BY <3>1, <3>2, <3>3, <3>4, WaitSched
  <2>7. WaitingIoIsCount'
    <3>1. CASE CountKept
      <4>1. waitingIo' = waitingIo /\ \A r \in Routine : InWait(r)' <=> InWait(r)
        BY <2>6, <3>1 DEF CountKept
      <4> QED BY <4>1, CountSame, IocpFacts
    <3>2. CASE CountDown
      <4>1. PICK r \in Routine : TimesOut(r) /\ \A s \in Routine : s # r => Passes(s)
        BY <3>2 DEF CountDown
      <4>2. waitingIo' = waitingIo - Cardinality({r})
        BY <3>2, FS_Singleton DEF CountDown
      <4>3. InWait(r)
        BY <4>1, IocpFacts DEF TimesOut, TimerWaitInv
      <4>4. \A s \in Routine : s # r => ~TimesOut(s)
        BY <4>1 DEF Passes, Kept, TimesOut
      <4>5. \A s \in Routine : InWait(s)' <=> InWait(s) /\ s \notin {r}
        BY <2>6, <4>1, <4>4
      <4>6. {r} \in SUBSET Routine /\ \A s \in {r} : InWait(s)
        BY <4>3
      <4> QED BY <4>2, <4>5, <4>6, CountLess, IocpFacts
    <3> QED BY <3>1, <3>2 DEF Effect
  <2>8. \A q \in WaitQueue : queue'[q] = <<>>
    BY DEF Effect, IocpInv
  <2>9. pc' = "poll" => queue'[Ready] = <<>>
    BY DEF Effect, IocpInv
  <2>10. revents' \in [Routine -> {"none", "ready", "error"}]
    BY DEF IocpInv
  <2> QED BY <2>6, <2>7, <2>8, <2>9, <2>10 DEF IocpInv
<1> QED BY <1>2, <1>3, <1>4
==============================================================================
