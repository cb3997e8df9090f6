----------------------------- MODULE CoIoProofs -----------------------------
(***************************************************************************)
(* Socket calls over epoll, for any number of coroutines and sockets.      *)
(*                                                                         *)
(* RegInv, whatever fails and whatever the timers do: a registration       *)
(* points to a wait_ctx that is in scope, and with one waiter for each     *)
(* socket no event is lost.  Then IoInv, if no timed wait fails: a wait    *)
(* ends for one reason, and waiting_io_count is the number of waiters.     *)
(***************************************************************************)
EXTENDS CoIo, CoSchedulerProofs, FiniteSetTheorems

(* The leaves that name no other prover are for Zenon.                     *)
USE ZenonT(30)

LEMMA CtxFields ==
  ASSUME NEW x \in Ctx
  PROVE  x.fd \in Fd /\ x.dir \in Direction /\ x.timed \in BOOLEAN
  BY SMT DEF Ctx

LEMMA NewCtx ==
  ASSUME NEW f \in Fd, NEW d \in Direction, NEW b \in BOOLEAN, NEW x,
         x = [fd |-> f, dir |-> d, timed |-> b]
  PROVE  x \in Ctx /\ x.fd = f /\ x.dir = d /\ x.timed = b
  BY SMT DEF Ctx

(* RegInv in pieces.                                                       *)
LEMMA RegFacts ==
  ASSUME RegInv
  PROVE  /\ ControlOK /\ SchedTypeOK /\ IoTypeOK /\ Registered
         /\ \A r \in Routine : CallInv(r)
         /\ \A r \in Routine : call[r] # "none" =>
              ctx[r] \in Ctx /\ ctx[r].fd \in Fd /\ ctx[r].dir \in Direction /\ ctx[r].timed \in BOOLEAN
         /\ \A f \in Fd : reg[f] \in Routine \cup {NoRoutine}
         /\ \A f \in Fd : reg[f] # NoRoutine => reg[f] \in Routine
         /\ pc = "coroutine" => current \in Routine /\ current # NoRoutine
<1>1. /\ ControlOK /\ SchedTypeOK /\ IoTypeOK /\ Registered
      /\ \A r \in Routine : CallInv(r)
  BY DEF RegInv, ControlOK
<1>2. \A r \in Routine : call[r] # "none" => ctx[r] \in Ctx
  BY <1>1 DEF CallInv
<1>3. \A f \in Fd : reg[f] \in Routine \cup {NoRoutine}
  BY <1>1 DEF IoTypeOK
<1>4. pc = "coroutine" => current \in Routine /\ current # NoRoutine
  BY <1>1, QueueAssumption DEF ControlOK
<1> QED BY <1>1, <1>2, <1>3, <1>4, CtxFields

LEMMA ControlStays ==
  ASSUME ControlOK, UNCHANGED schedVars
  PROVE  ControlOK'
  BY DEF ControlOK, SchedTypeOK, schedVars, fieldVars

(* The scheduler's steps leave the kernel and the calls alone.             *)
LEMMA RegStays ==
  ASSUME RegInv, ControlOK', UNCHANGED ioVars,
         \A r \in Routine : state'[r] = "WAITING" => state[r] = "WAITING" \/ call[r] = "none",
         \/ pc # "coroutine"
         \/ pc' = pc /\ current' = current
         \/ call[current] = "none"
  PROVE  RegInv'
<1>1. UNCHANGED <<ready, broken, reg, pending, call, ctx, revents>>
  BY DEF ioVars, kernelVars
<1>2. IoTypeOK' /\ Registered'
  BY <1>1 DEF RegInv, IoTypeOK, Registered
<1>3. ASSUME NEW r \in Routine PROVE CallInv(r)'
  <2>1. CallInv(r)
    BY DEF RegInv
  <2> QED BY <1>1, <2>1 DEF CallInv
<1>4. ASSUME OneWaiterPerFd, NEW r \in Routine PROVE WaiterInv(r)'
  <2>1. WaiterInv(r)
    BY <1>4 DEF RegInv
  <2>2. InWait(r)' => InWait(r)
    BY <1>1 DEF InWait
  <2> QED BY <1>1, <2>1, <2>2 DEF WaiterInv
<1> QED BY <1>2, <1>3, <1>4 DEF RegInv

LEMMA RegSched ==
  ASSUME RegInv, SchedStep
  PROVE  RegInv'
<1>1. ControlOK /\ UNCHANGED ioVars
  BY DEF RegInv, SchedStep
<1>2. CASE LoopStep \/ LoopFault
  <2>1. SchedulerStep \/ Fault
    BY <1>2 DEF LoopStep, LoopFault
  <2>2. ControlOK'
    BY <1>1, <2>1, ControlLoop
  <2>3. pc # "coroutine"
    BY <2>1 DEF SchedulerStep, Fault, SampleNow, TimerStale, TimerCond, TimerIo, TimerSleep, Expired,
       TimersDone, PollTimeout, Recheck, Schedule, SwitchBack, PollInterrupted, ScheduleError
  <2>4. ~Suspend
    BY <2>3 DEF Suspend, Yield, Sleep, Finish
  <2>5. \A r \in Routine : state'[r] = "WAITING" => state[r] = "WAITING" \/ call[r] = "none"
    BY <1>1, <2>1, <2>4, NoNewWaiter
  <2> QED BY <1>1, <2>2, <2>3, <2>5, RegStays
<1>3. CASE ClientSuspend
  <2>1. Suspend /\ call[current] = "none"
    BY <1>3 DEF ClientSuspend, InCoroutineCode, Suspend
  <2>2. ControlOK'
    BY <1>1, <2>1, ControlCalls
  <2>3. \A r \in Routine : state'[r] = "WAITING" => state[r] = "WAITING" \/ call[r] = "none"
    BY <1>1, <2>1, NoNewWaiter
  <2> QED BY <1>1, <2>1, <2>2, <2>3, RegStays
<1>4. CASE RunStart \/ Destroy \/ Tick \/ (\E r \in Routine : ClientSpawn(r)) \/ Gone
  <2>1. RunStart \/ Destroy \/ Tick \/ (\E r \in Routine : Spawn(r)) \/ Gone
    BY <1>4 DEF ClientSpawn
  <2>2. ControlOK'
    BY <1>1, <2>1, ControlCalls
  <2>3. ~Suspend \/ \A r \in Routine : state'[r] = "WAITING" => state[r] = "WAITING"
    <3>1. CASE RunStart \/ Destroy \/ Tick \/ Gone
      <4>1. CASE Tick \/ Gone
        BY <4>1 DEF Tick, Gone, schedVars
      <4>2. CASE RunStart \/ Destroy
        BY <4>2 DEF RunStart, Destroy, Suspend, Yield, Sleep, Finish
      <4> QED BY <3>1, <4>1, <4>2
    <3>2. ASSUME NEW s \in Routine, Spawn(s) PROVE \A r \in Routine : state'[r] = "WAITING" => state[r] = "WAITING"
      BY <1>1, <3>2 DEF Spawn, ControlOK, SchedTypeOK
    <3> QED BY <2>1, <3>1, <3>2
  <2>4. \A r \in Routine : state'[r] = "WAITING" => state[r] = "WAITING" \/ call[r] = "none"
    BY <1>1, <2>1, <2>3, NoNewWaiter
  <2>5. pc # "coroutine" \/ (pc' = pc /\ current' = current)
    BY <2>1 DEF RunStart, Destroy, Tick, Spawn, Gone, schedVars
  <2> QED BY <1>1, <2>2, <2>4, <2>5, RegStays
<1> QED BY <1>2, <1>3, <1>4 DEF SchedStep

------------------------------------------------------------------------------
(* The kernel.                                                             *)

(* Whatever happens to a descriptor is reported to a waiter it concerns.   *)
LEMMA RegEvent ==
  ASSUME RegInv, UNCHANGED <<schedVars, reg, call, ctx, revents>>,
         ready' \in [Fd -> SUBSET Direction],
         broken \subseteq broken', broken' \subseteq FailingFd,
         pending \subseteq pending', pending' \subseteq Fd,
         \A f \in pending' : reg[f] # NoRoutine,
         \A f \in Fd, r \in Routine :
           reg[f] = r /\ (ctx[r].dir \in ready'[f] \/ f \in broken') =>
             f \in pending' \/ ctx[r].dir \in ready[f] \/ f \in broken
  PROVE  RegInv'
<1>1. /\ ControlOK /\ SchedTypeOK /\ IoTypeOK /\ Registered
      /\ \A r \in Routine : CallInv(r)
      /\ \A r \in Routine : call[r] # "none" => ctx[r].fd \in Fd
  BY RegFacts
<1>2. ControlOK' /\ UNCHANGED <<state, pc, current>>
  BY <1>1, ControlStays DEF schedVars
<1>3. IoTypeOK' /\ Registered'
  BY <1>1 DEF IoTypeOK, Registered
<1>4. ASSUME NEW r \in Routine PROVE CallInv(r)'
  <2>1. CallInv(r)
    BY <1>1
  <2> QED BY <1>2, <2>1 DEF CallInv
<1>5. ASSUME OneWaiterPerFd, NEW r \in Routine PROVE WaiterInv(r)'
  <2>1. WaiterInv(r)
    BY <1>5 DEF RegInv
  <2>2. InWait(r)' <=> InWait(r)
    BY <1>2 DEF InWait
  <2>3. ASSUME InWait(r), ctx[r].dir \in ready'[ctx[r].fd] \/ ctx[r].fd \in broken'
        PROVE  ctx[r].fd \in pending'
    <3>1. ctx[r].fd \in Fd /\ reg[ctx[r].fd] = r
      BY <1>1, <2>1, <2>3 DEF WaiterInv, InWait
    <3>2. ctx[r].fd \in pending' \/ ctx[r].dir \in ready[ctx[r].fd] \/ ctx[r].fd \in broken
      BY <2>3, <3>1
    <3> QED BY <2>1, <2>3, <3>2 DEF WaiterInv
  <2> QED BY <2>1, <2>2, <2>3 DEF WaiterInv
<1> QED BY <1>2, <1>3, <1>4, <1>5 DEF RegInv

LEMMA RegKernel ==
  ASSUME RegInv, Kernel
  PROVE  RegInv'
<1>1. /\ IoTypeOK /\ Registered /\ \A f \in Fd : reg[f] # NoRoutine => reg[f] \in Routine
  BY RegFacts
<1>2. /\ ready \in [Fd -> SUBSET Direction] /\ broken \subseteq FailingFd /\ pending \subseteq Fd
      /\ \A f \in pending : reg[f] # NoRoutine
  BY <1>1 DEF IoTypeOK, Registered
<1>3. \A r \in Routine : r # NoRoutine
  BY QueueAssumption
<1>4. ASSUME NEW f \in Fd, NEW d \in Direction, BecomesReady(f, d) PROVE RegInv'
  <2>1. /\ UNCHANGED <<schedVars, reg, call, ctx, revents>> /\ broken' = broken
        /\ ready' = [ready EXCEPT ![f] = ready[f] \cup {d}]
        /\ pending' = IF reg[f] # NoRoutine /\ ctx[reg[f]].dir = d THEN pending \cup {f} ELSE pending
    BY <1>4 DEF BecomesReady
  <2>2. ready' \in [Fd -> SUBSET Direction] /\ \A g \in Fd : g # f => ready'[g] = ready[g]
    BY <1>2, <2>1
  <2>3. ready'[f] = ready[f] \cup {d}
    BY <1>2, <2>1
  <2>4. /\ pending \subseteq pending' /\ pending' \subseteq Fd
        /\ \A g \in pending' : reg[g] # NoRoutine
    BY <1>2, <2>1
  <2>5. ASSUME NEW g \in Fd, NEW r \in Routine, reg[g] = r, ctx[r].dir \in ready'[g] \/ g \in broken'
        PROVE  g \in pending' \/ ctx[r].dir \in ready[g] \/ g \in broken
    <3>1. CASE g = f /\ ctx[r].dir = d
      BY <1>3, <2>1, <2>5, <3>1
    <3>2. CASE ~(g = f /\ ctx[r].dir = d)
      BY <2>1, <2>2, <2>3, <2>5, <3>2
    <3> QED BY <3>1, <3>2
  <2>6. broken \subseteq broken' /\ broken' \subseteq FailingFd
    BY <1>2, <2>1
  <2> QED BY <2>1, <2>2, <2>4, <2>5, <2>6, RegEvent
<1>5. ASSUME NEW f \in Fd, Breaks(f) PROVE RegInv'
  <2>1. /\ UNCHANGED <<schedVars, ready, reg, call, ctx, revents>>
        /\ f \in FailingFd /\ broken' = broken \cup {f}
        /\ pending' = IF reg[f] # NoRoutine THEN pending \cup {f} ELSE pending
    BY <1>5 DEF Breaks
  <2>2. /\ pending \subseteq pending' /\ pending' \subseteq Fd
        /\ \A g \in pending' : reg[g] # NoRoutine
        /\ broken \subseteq broken' /\ broken' \subseteq FailingFd
        /\ ready' \in [Fd -> SUBSET Direction]
    BY <1>2, <2>1
  <2>3. ASSUME NEW g \in Fd, NEW r \in Routine, reg[g] = r, ctx[r].dir \in ready'[g] \/ g \in broken'
        PROVE  g \in pending' \/ ctx[r].dir \in ready[g] \/ g \in broken
    <3>1. CASE g = f
      BY <1>3, <2>1, <2>3, <3>1
    <3>2. CASE g # f
      BY <2>1, <2>3, <3>2
    <3> QED BY <3>1, <3>2
  <2> QED BY <2>1, <2>2, <2>3, RegEvent
<1> QED BY <1>4, <1>5 DEF Kernel

------------------------------------------------------------------------------
(* The socket calls.                                                       *)

LEMMA RegCallAtOnce ==
  ASSUME RegInv, NEW f \in Fd, NEW d \in Direction, CallAtOnce(f, d)
  PROVE  RegInv'
<1>1. ready \in [Fd -> SUBSET Direction] /\ broken \subseteq FailingFd /\ pending \subseteq Fd
      /\ \A g \in pending : reg[g] # NoRoutine
  BY RegFacts DEF IoTypeOK, Registered
<1>2. /\ ready' = [ready EXCEPT ![f] = ready[f] \ {d}]
      /\ UNCHANGED <<schedVars, broken, reg, pending, call, ctx, revents>>
  BY DEF CallAtOnce
<1>3. ready' \in [Fd -> SUBSET Direction]
  BY <1>1, <1>2
<1>4. ASSUME NEW g \in Fd PROVE ready'[g] \subseteq ready[g]
  <2>1. CASE g = f BY <1>1, <1>2, <2>1
  <2>2. CASE g # f BY <1>1, <1>2, <2>2
  <2> QED BY <2>1, <2>2
<1>5. \A g \in Fd, r \in Routine :
        reg[g] = r /\ (ctx[r].dir \in ready'[g] \/ g \in broken') =>
          g \in pending' \/ ctx[r].dir \in ready[g] \/ g \in broken
  BY <1>2, <1>4
<1>6. /\ broken \subseteq broken' /\ broken' \subseteq FailingFd
      /\ pending \subseteq pending' /\ pending' \subseteq Fd
      /\ \A g \in pending' : reg[g] # NoRoutine
  BY <1>1, <1>2
<1> QED BY <1>2, <1>3, <1>5, <1>6, RegEvent

LEMMA RegWouldBlock ==
  ASSUME RegInv, NEW f \in Fd, NEW d \in Direction, CallWouldBlock(f, d)
  PROVE  RegInv'
<1>1. /\ ControlOK /\ IoTypeOK /\ Registered
      /\ \A r \in Routine : CallInv(r)
      /\ pc = "coroutine" /\ call[current] = "none"
      /\ current \in Routine
  BY RegFacts DEF CallWouldBlock, InCoroutineCode
<1>2. PICK b \in BOOLEAN : (b => f \in TimedFd) /\ ctx' = [ctx EXCEPT ![current] = [fd |-> f, dir |-> d, timed |-> b]]
  BY DEF CallWouldBlock
<1> DEFINE x == [fd |-> f, dir |-> d, timed |-> b]
<1>3. x \in Ctx /\ x.fd = f /\ x.dir = d /\ x.timed = b
  BY ONLY f \in Fd, d \in Direction, b \in BOOLEAN, NewCtx
<1>4. /\ ctx' = [ctx EXCEPT ![current] = x]
      /\ call' = [call EXCEPT ![current] = "try"]
      /\ OneWaiterPerFd => \A r \in Routine : ctx[r].fd # f
      /\ UNCHANGED <<schedVars, ready, broken, reg, pending, revents>>
  BY <1>2 DEF CallWouldBlock, kernelVars
<1> HIDE DEF x
<1>5. ControlOK' /\ UNCHANGED <<state, pc, current>>
  BY <1>1, <1>4, ControlStays DEF schedVars
<1>6. /\ ctx'[current] = x /\ call'[current] = "try"
      /\ \A r \in Routine : r # current => ctx'[r] = ctx[r] /\ call'[r] = call[r]
  BY <1>1, <1>4 DEF IoTypeOK
<1>7. IoTypeOK'
  BY <1>1, <1>3, <1>4 DEF IoTypeOK
<1>8. Registered'
  <2>1. \A g \in Fd : reg[g] # NoRoutine => reg[g] # current /\ reg[g] \in Routine
    BY <1>1, RegFacts DEF Registered
  <2>2. ASSUME NEW g \in Fd, reg'[g] # NoRoutine
        PROVE  call'[reg'[g]] = "wait" /\ ctx'[reg'[g]].fd = g
    <3>1. reg'[g] = reg[g] /\ reg[g] \in Routine /\ reg[g] # current
      BY <1>4, <2>1, <2>2
    <3>2. ctx'[reg[g]] = ctx[reg[g]] /\ call'[reg[g]] = call[reg[g]]
      BY <1>6, <3>1
    <3>3. call[reg[g]] = "wait" /\ ctx[reg[g]].fd = g
      BY <1>1, <2>2, <3>1 DEF Registered
    <3> QED BY <3>1, <3>2, <3>3
  <2>3. \A g \in pending' : reg'[g] # NoRoutine
    BY <1>1, <1>4 DEF Registered
  <2> QED BY <2>2, <2>3 DEF Registered
<1>9. ASSUME NEW r \in Routine PROVE CallInv(r)'
  <2>1. CallInv(r) /\ revents'[r] = revents[r] /\ broken' = broken
    BY <1>1, <1>4
  <2>2. CASE r = current
    BY <1>1, <1>2, <1>3, <1>5, <1>6, <2>1, <2>2 DEF CallInv
  <2>3. CASE r # current
    BY <1>5, <1>6, <2>1, <2>3 DEF CallInv
  <2> QED BY <2>2, <2>3
<1>10. ASSUME OneWaiterPerFd, NEW r \in Routine PROVE WaiterInv(r)'
  <2>1. \A s \in Routine : WaiterInv(s)
    BY <1>10 DEF RegInv
  <2>2. \A s \in Routine : ctx[s].fd # f
    BY <1>4, <1>10
  <2>3. ASSUME NEW s \in Routine, call'[r] # "none", call'[s] # "none", ctx'[s].fd = ctx'[r].fd
        PROVE  s = r
    <3>1. CASE r = current
      BY <1>3, <1>6, <2>2, <2>3, <3>1
    <3>2. CASE s = current
      BY <1>3, <1>6, <2>2, <2>3, <3>2
    <3>3. CASE r # current /\ s # current
      <4>1. ctx[s].fd = ctx[r].fd /\ call[r] # "none" /\ call[s] # "none"
        BY <1>6, <2>3, <3>3
      <4> QED BY <2>1, <4>1 DEF WaiterInv
    <3> QED BY <3>1, <3>2, <3>3
  <2>4. CASE r = current
    BY <1>6, <2>3, <2>4 DEF WaiterInv, InWait
  <2>5. CASE r # current
    <3>1. ctx'[r] = ctx[r] /\ call'[r] = call[r] /\ WaiterInv(r)
      BY <1>6, <2>1, <2>5
    <3>2. /\ ctx'[r].fd = ctx[r].fd /\ ctx'[r].dir = ctx[r].dir /\ InWait(r)' = InWait(r)
          /\ UNCHANGED <<ready, broken, reg, pending>>
      BY <1>4, <1>5, <3>1 DEF InWait
    <3> QED BY <2>3, <3>1, <3>2 DEF WaiterInv
  <2> QED BY <2>4, <2>5
<1> QED BY <1>5, <1>7, <1>8, <1>9, <1>10 DEF RegInv

(* The timer of the running coroutine and no other is set.                 *)
LEMMA TimerTypes ==
  ASSUME SchedTypeOK, current \in Routine, NEW b \in BOOLEAN, SetTimer(b)
  PROVE  /\ timedOut' \in [Routine -> BOOLEAN] /\ wakeup' \in [Routine -> Nat] /\ heap' \in [Routine -> Nat]
         /\ timedOut'[current] = FALSE
         /\ heap'[current] = IF ctx[current].timed /\ b THEN heap[current] + 1 ELSE heap[current]
         /\ \A r \in Routine : r # current => timedOut'[r] = timedOut[r] /\ heap'[r] = heap[r]
<1>1. /\ timedOut \in [Routine -> BOOLEAN] /\ wakeup \in [Routine -> Nat] /\ heap \in [Routine -> Nat]
      /\ timedOut' = [timedOut EXCEPT ![current] = FALSE] /\ clock \in Nat
  BY DEF SetTimer, SchedTypeOK
<1>2. timedOut' \in [Routine -> BOOLEAN] /\ timedOut'[current] = FALSE
      /\ \A r \in Routine : r # current => timedOut'[r] = timedOut[r]
  BY <1>1
<1>3. CASE ~ctx[current].timed /\ UNCHANGED <<wakeup, heap>>
  BY <1>1, <1>2, <1>3
<1>4. CASE ctx[current].timed
  <2>1. PICK t \in IoTimeouts : wakeup' = [wakeup EXCEPT ![current] = clock + t]
    BY <1>4 DEF SetTimer
  <2>2. t \in Nat
    BY IoAssumption
  <2>3. clock + t \in Nat /\ heap[current] + 1 \in Nat
    BY ONLY <1>1, <2>2, current \in Routine
  <2>4. wakeup' \in [Routine -> Nat]
    BY <1>1, <2>1, <2>3
  <2>5. heap' = IF b THEN [heap EXCEPT ![current] = heap[current] + 1] ELSE heap
    BY <1>4 DEF SetTimer
  <2>6. CASE b
    BY <1>1, <1>2, <1>4, <2>3, <2>4, <2>5, <2>6
  <2>7. CASE ~b
    BY <1>1, <1>2, <1>4, <2>4, <2>5, <2>7
  <2> QED BY <2>6, <2>7
<1> QED BY <1>3, <1>4 DEF SetTimer

(* A call returns, having removed its registration if it had one.          *)
LEMMA RegReturn ==
  ASSUME RegInv, ControlOK', pc = "coroutine", call[current] # "none", CallReturns,
         UNCHANGED <<state, pc, current, broken>>,
         ready' \in [Fd -> SUBSET Direction], reg' \in [Fd -> Routine \cup {NoRoutine}],
         pending' \subseteq Fd, \A g \in pending' : reg'[g] # NoRoutine,
         \A g \in Fd : reg'[g] # NoRoutine => reg'[g] = reg[g] /\ reg[g] # current,
         \A g \in Fd : g # ctx[current].fd =>
           ready'[g] = ready[g] /\ reg'[g] = reg[g] /\ (g \in pending => g \in pending')
  PROVE  RegInv'
<1>1. /\ IoTypeOK /\ Registered /\ current \in Routine
      /\ \A r \in Routine : CallInv(r)
      /\ \A r \in Routine : call[r] # "none" => ctx[r].fd \in Fd
      /\ \A f \in Fd : reg[f] # NoRoutine => reg[f] \in Routine
  BY RegFacts
<1>2. /\ call'[current] = "none" /\ revents'[current] = "none"
      /\ \A r \in Routine : r # current =>
           ctx'[r] = ctx[r] /\ call'[r] = call[r] /\ revents'[r] = revents[r]
  BY <1>1 DEF CallReturns, IoTypeOK
<1>3. IoTypeOK'
  BY <1>1 DEF IoTypeOK, CallReturns
<1>4. Registered'
  <2>1. ASSUME NEW g \in Fd, reg'[g] # NoRoutine
        PROVE  call'[reg'[g]] = "wait" /\ ctx'[reg'[g]].fd = g
    <3>1. reg'[g] = reg[g] /\ reg[g] \in Routine /\ reg[g] # current
      BY <1>1, <2>1
    <3>2. ctx'[reg[g]] = ctx[reg[g]] /\ call'[reg[g]] = call[reg[g]]
      BY <1>2, <3>1
    <3>3. call[reg[g]] = "wait" /\ ctx[reg[g]].fd = g
      BY <1>1, <2>1, <3>1 DEF Registered
    <3> QED BY <3>1, <3>2, <3>3
  <2> QED BY <2>1 DEF Registered
<1>5. ASSUME NEW r \in Routine PROVE CallInv(r)'
  <2>1. CASE r = current
    BY <1>2, <2>1 DEF CallInv
  <2>2. CASE r # current
    <3>1. CallInv(r) /\ ctx'[r] = ctx[r] /\ call'[r] = call[r] /\ revents'[r] = revents[r]
      BY <1>1, <1>2, <2>2
    <3> QED BY <3>1 DEF CallInv
  <2> QED BY <2>1, <2>2
<1>6. ASSUME OneWaiterPerFd, NEW r \in Routine PROVE WaiterInv(r)'
  <2>1. \A s \in Routine : WaiterInv(s)
    BY <1>6 DEF RegInv
  <2>2. CASE r = current
    BY <1>2, <2>2 DEF WaiterInv, InWait
  <2>3. CASE r # current
    <3>1. ctx'[r] = ctx[r] /\ call'[r] = call[r] /\ WaiterInv(r)
      BY <1>2, <2>1, <2>3
    <3>2. /\ ctx'[r].fd = ctx[r].fd /\ ctx'[r].dir = ctx[r].dir /\ InWait(r)' = InWait(r)
      BY <3>1 DEF InWait
    <3>3. ASSUME NEW s \in Routine, call'[r] # "none", call'[s] # "none", ctx'[s].fd = ctx'[r].fd
          PROVE  s = r
      <4>1. s # current
        BY <1>2, <3>3
      <4>2. ctx[s].fd = ctx[r].fd /\ call[r] # "none" /\ call[s] # "none"
        BY <1>2, <3>1, <3>3, <4>1
      <4> QED BY <3>1, <4>2 DEF WaiterInv
    <3>4. CASE call[r] = "wait"
      <4>1. ctx[r].fd \in Fd /\ ctx[r].fd # ctx[current].fd
        BY <1>1, <2>1, <2>3, <3>4 DEF WaiterInv
      <4>2. /\ ready'[ctx[r].fd] = ready[ctx[r].fd] /\ reg'[ctx[r].fd] = reg[ctx[r].fd]
            /\ (ctx[r].fd \in pending => ctx[r].fd \in pending')
        BY <4>1
      <4> QED BY <3>1, <3>2, <3>3, <4>2 DEF WaiterInv
    <3>5. CASE call[r] # "wait"
      BY <3>1, <3>2, <3>3, <3>5 DEF WaiterInv, InWait
    <3> QED BY <3>4, <3>5
  <2> QED BY <2>2, <2>3
<1> QED BY <1>3, <1>4, <1>5, <1>6 DEF RegInv

LEMMA RegFails ==
  ASSUME RegInv, WaitIoNoMem \/ WaitIoAddFails
  PROVE  RegInv'
<1>1. /\ ControlOK /\ SchedTypeOK /\ IoTypeOK /\ Registered
      /\ pc = "coroutine" /\ call[current] = "try" /\ current \in Routine
  BY RegFacts DEF WaitIoNoMem, WaitIoAddFails
<1>2. /\ SetTimer(TRUE) \/ SetTimer(FALSE)
      /\ ioWaiting' = [ioWaiting EXCEPT ![current] = FALSE]
      /\ CallReturns
      /\ UNCHANGED <<state, queue, condQ, waitingIo, active, current, pc, now, clock>>
      /\ UNCHANGED <<ready, broken, reg, pending>>
  BY DEF WaitIoNoMem, WaitIoAddFails, kernelVars
<1>3. timedOut' \in [Routine -> BOOLEAN] /\ wakeup' \in [Routine -> Nat] /\ heap' \in [Routine -> Nat]
  BY <1>1, <1>2, TimerTypes
<1>4. ioWaiting' \in [Routine -> BOOLEAN]
  BY <1>1, <1>2 DEF SchedTypeOK
<1>5. ControlOK'
  BY <1>1, <1>2, <1>3, <1>4 DEF ControlOK, SchedTypeOK
<1>6. /\ ready' \in [Fd -> SUBSET Direction] /\ reg' \in [Fd -> Routine \cup {NoRoutine}]
      /\ pending' \subseteq Fd /\ \A g \in pending' : reg'[g] # NoRoutine
      /\ \A g \in Fd : reg'[g] # NoRoutine => reg'[g] = reg[g] /\ reg[g] # current
      /\ \A g \in Fd : g # ctx[current].fd =>
           ready'[g] = ready[g] /\ reg'[g] = reg[g] /\ (g \in pending => g \in pending')
  BY <1>1, <1>2 DEF IoTypeOK, Registered
<1>7. call[current] # "none"
  BY <1>1
<1> QED BY <1>1, <1>2, <1>5, <1>6, <1>7, RegReturn

(* co_iomux_del removes the registration of the call that resumes.  With   *)
(* two waiters it may be another's, which then has none.                   *)
LEMMA RegResume ==
  ASSUME RegInv, IoResume
  PROVE  RegInv'
<1> DEFINE f == ctx[current].fd
<1>1. /\ ControlOK /\ SchedTypeOK /\ IoTypeOK /\ Registered
      /\ pc = "coroutine" /\ call[current] = "wait" /\ current \in Routine
      /\ f \in Fd
  BY RegFacts DEF IoResume
<1>2. /\ reg' = [reg EXCEPT ![f] = NoRoutine] /\ pending' = pending \ {f}
      /\ CallReturns
      /\ UNCHANGED <<state, queue, wakeup, condQ, timedOut, waitingIo, active, current, pc, now,
                     clock, broken>>
  BY DEF IoResume, Deregister
<1>3. heap' \in [Routine -> Nat] /\ ioWaiting' \in [Routine -> BOOLEAN]
  <2>1. heap \in [Routine -> Nat] /\ ioWaiting \in [Routine -> BOOLEAN]
    BY <1>1 DEF SchedTypeOK
  <2>2. CASE UNCHANGED <<heap, ioWaiting>>
    BY <2>1, <2>2
  <2>3. CASE CancelTimer /\ ctx[current].timed
    <3>1. /\ ioWaiting' = [ioWaiting EXCEPT ![current] = FALSE]
          /\ heap' = IF heap[current] = 0 THEN heap ELSE [heap EXCEPT ![current] = heap[current] - 1]
      BY <2>3 DEF CancelTimer
    <3>2. heap[current] = 0 \/ heap[current] - 1 \in Nat
      BY ONLY <1>1, <2>1
    <3>3. heap' \in [Routine -> Nat]
      BY <1>1, <2>1, <3>1, <3>2
    <3> QED BY <2>1, <3>1, <3>3
  <2> QED BY <2>2, <2>3 DEF IoResume, CancelTimer
<1>4. ControlOK'
  BY <1>1, <1>2, <1>3 DEF ControlOK, SchedTypeOK
<1>5. /\ ready' \in [Fd -> SUBSET Direction]
      /\ \A g \in Fd : g # f => ready'[g] = ready[g]
  <2>1. ready \in [Fd -> SUBSET Direction]
    BY <1>1 DEF IoTypeOK
  <2>2. CASE ready' = ready
    BY <2>1, <2>2
  <2>3. ASSUME NEW used, ready' = [ready EXCEPT ![f] = ready[f] \ used]
        PROVE  <1>5!1 /\ <1>5!2
    <3>1. ready[f] \ used \in SUBSET Direction
      BY <1>1, <2>1
    <3> HIDE DEF f
    <3> QED BY <1>1, <2>1, <2>3, <3>1
  <2> QED BY <2>2, <2>3 DEF IoResume
<1> HIDE DEF f
<1>6. /\ reg \in [Fd -> Routine \cup {NoRoutine}]
      /\ reg' \in [Fd -> Routine \cup {NoRoutine}] /\ reg'[f] = NoRoutine
      /\ \A g \in Fd : g # f => reg'[g] = reg[g]
      /\ pending' \subseteq Fd
  BY <1>1, <1>2 DEF IoTypeOK
<1>7. \A g \in pending' : reg'[g] # NoRoutine
  BY <1>1, <1>2, <1>6 DEF Registered, IoTypeOK
<1>8. \A g \in Fd : reg'[g] # NoRoutine => reg'[g] = reg[g] /\ reg[g] # current
  BY <1>1, <1>6 DEF Registered, f
<1>9. \A g \in Fd : g # f =>
        ready'[g] = ready[g] /\ reg'[g] = reg[g] /\ (g \in pending => g \in pending')
  BY <1>2, <1>5, <1>6
<1>10. call[current] # "none"
  BY <1>1
<1> QED BY <1>1, <1>2, <1>4, <1>5, <1>6, <1>7, <1>8, <1>9, <1>10, RegReturn DEF f

(* The registration: what became ready since the system call is reported.  *)
LEMMA RegWaitIo ==
  ASSUME RegInv, WaitIo
  PROVE  RegInv'
<1> DEFINE f == ctx[current].fd
<1>1. /\ ControlOK /\ SchedTypeOK /\ IoTypeOK /\ Registered
      /\ \A r \in Routine : CallInv(r)
      /\ pc = "coroutine" /\ call[current] = "try" /\ current \in Routine /\ current # NoRoutine
      /\ f \in Fd /\ ctx[current].timed \in BOOLEAN
      /\ \A r \in Routine : call[r] # "none" => ctx[r].fd \in Fd
      /\ \A g \in Fd : reg[g] # NoRoutine => reg[g] \in Routine
  BY RegFacts DEF WaitIo
<1>2. /\ SetTimer(TRUE) /\ ioWaiting' = [ioWaiting EXCEPT ![current] = ctx[current].timed]
      /\ state' = [state EXCEPT ![current] = "WAITING"] /\ waitingIo' = waitingIo + 1
      /\ pc' = "back" /\ call' = [call EXCEPT ![current] = "wait"]
      /\ UNCHANGED <<queue, condQ, active, current, now, clock, ready, broken, ctx, revents>>
  BY DEF WaitIo, SwapToMain
<1>3. /\ reg' = [reg EXCEPT ![f] = current]
      /\ pending' = IF ctx[current].dir \in ready[f] \/ f \in broken
                    THEN pending \cup {f} ELSE pending \ {f}
  BY DEF WaitIo, Register
<1> HIDE DEF f
<1>4. timedOut' \in [Routine -> BOOLEAN] /\ wakeup' \in [Routine -> Nat] /\ heap' \in [Routine -> Nat]
  BY <1>1, <1>2, TimerTypes
<1>5. ioWaiting' \in [Routine -> BOOLEAN] /\ state' \in [Routine -> State]
  BY <1>1, <1>2 DEF SchedTypeOK, State
<1>6. waitingIo' \in Int
  BY SMT, <1>1, <1>2 DEF SchedTypeOK
<1>7. ControlOK'
  BY <1>1, <1>2, <1>4, <1>5, <1>6 DEF ControlOK, SchedTypeOK, Location
<1>8. /\ call'[current] = "wait" /\ state'[current] = "WAITING"
      /\ \A r \in Routine : r # current => call'[r] = call[r] /\ state'[r] = state[r]
      /\ reg'[f] = current /\ \A g \in Fd : g # f => reg'[g] = reg[g]
  BY <1>1, <1>2, <1>3 DEF IoTypeOK, SchedTypeOK
<1>9. IoTypeOK'
  BY <1>1, <1>2, <1>3 DEF IoTypeOK
<1>10. Registered'
  <2>1. ASSUME NEW g \in Fd, reg'[g] # NoRoutine
        PROVE  call'[reg'[g]] = "wait" /\ ctx'[reg'[g]].fd = g
    <3>1. CASE g = f
      BY <1>2, <1>8, <3>1 DEF f
    <3>2. CASE g # f
      <4>1. reg'[g] = reg[g] /\ reg[g] \in Routine /\ call[reg[g]] = "wait" /\ ctx[reg[g]].fd = g
        BY <1>1, <1>8, <2>1, <3>2 DEF Registered
      <4>2. reg[g] # current
        BY <1>1, <4>1
      <4>3. call'[reg[g]] = "wait" /\ ctx' = ctx
        BY <1>2, <1>8, <4>1, <4>2
      <4> QED BY <4>1, <4>3
    <3> QED BY <3>1, <3>2
  <2>2. \A g \in pending' : reg'[g] # NoRoutine
    BY <1>1, <1>3, <1>8 DEF Registered, IoTypeOK
  <2> QED BY <2>1, <2>2 DEF Registered
<1>11. ASSUME NEW r \in Routine PROVE CallInv(r)'
  <2>1. CallInv(r)
    BY <1>1
  <2>2. CASE r = current
    BY <1>1, <1>2, <1>8, <2>1, <2>2 DEF CallInv
  <2>3. CASE r # current
    BY <1>1, <1>2, <1>8, <2>1, <2>3 DEF CallInv
  <2> QED BY <2>2, <2>3
<1>12. ASSUME OneWaiterPerFd, NEW r \in Routine PROVE WaiterInv(r)'
  <2>1. \A s \in Routine : WaiterInv(s)
    BY <1>12 DEF RegInv
  <2>2. \A s \in Routine : call'[s] # "none" <=> call[s] # "none"
    BY <1>1, <1>8
  <2>3. \A s \in Routine :
          call'[r] # "none" /\ call'[s] # "none" /\ ctx[s].fd = ctx[r].fd => s = r
    BY <2>1, <2>2 DEF WaiterInv
  <2>4. CASE r = current
    <3>1. (ctx[r].dir \in ready[ctx[r].fd] \/ ctx[r].fd \in broken) => ctx[r].fd \in pending'
      BY <1>3, <2>4 DEF f
    <3>2. reg'[ctx[r].fd] = r
      BY <1>8, <2>4 DEF f
    <3> QED BY <1>2, <2>3, <3>1, <3>2 DEF WaiterInv
  <2>5. CASE r # current
    <3>1. call'[r] = call[r] /\ InWait(r)' = InWait(r)
      BY <1>8, <2>5 DEF InWait
    <3>2. ASSUME call[r] = "wait"
          PROVE  reg'[ctx[r].fd] = reg[ctx[r].fd] /\ (ctx[r].fd \in pending => ctx[r].fd \in pending')
      <4>1. ctx[r].fd \in Fd /\ ctx[r].fd # f
        BY <1>1, <2>1, <2>5, <3>2 DEF WaiterInv, f
      <4> QED BY <1>3, <1>8, <4>1
    <3>3. WaiterInv(r)
      BY <2>1
    <3> QED BY <1>2, <2>3, <3>1, <3>2, <3>3 DEF WaiterInv, InWait
  <2> QED BY <2>4, <2>5
<1> QED BY <1>7, <1>9, <1>10, <1>11, <1>12 DEF RegInv

(* What an event finds, the wait_ctx of a coroutine in co_wait_io, and     *)
(* what delivering to the contexts C, of which those of W wait, does.      *)
Delivered(C, W) ==
  /\ C \subseteq Routine /\ \A r \in C : call[r] = "wait" /\ ctx[r].fd \in pending
  /\ W \subseteq C /\ IsFiniteSet(W) /\ Cardinality(W) \in Nat
  /\ \A r \in W : state[r] = "WAITING"
  /\ \A r \in C : state[r] = "WAITING" => r \in W
  /\ \A r \in Routine :
       /\ revents'[r] = IF r \notin C THEN revents[r]
                        ELSE IF ctx[r].fd \in broken THEN "error" ELSE "ready"
       /\ state'[r] = IF r \in W THEN "READY" ELSE state[r]
       /\ ioWaiting'[r] = IF r \in W THEN FALSE ELSE ioWaiting[r]
  /\ revents' \in [Routine -> {"none", "ready", "error"}]
  /\ state' = [r \in Routine |-> IF r \in W THEN "READY" ELSE state[r]]
  /\ state' \in [Routine -> State]
  /\ ioWaiting' \in [Routine -> BOOLEAN]
  /\ waitingIo' = waitingIo - Cardinality(W) /\ waitingIo' \in Int
  /\ \E o \in Seq(W) :
       /\ Range(o) = W /\ IsInjective(o)
       /\ queue' = [queue EXCEPT ![Ready] = @ \o o]

LEMMA PollFacts ==
  ASSUME RegInv, PollEvents,
         NEW C, C = {reg[f] : f \in pending},
         NEW W, W = {r \in C : state[r] = "WAITING"}
  PROVE  Delivered(C, W)
<1>1. /\ IoTypeOK /\ Registered /\ SchedTypeOK
      /\ \A f \in Fd : reg[f] # NoRoutine => reg[f] \in Routine
  BY RegFacts
<1>2. \A f \in pending : f \in Fd /\ reg[f] \in Routine /\ call[reg[f]] = "wait" /\ ctx[reg[f]].fd = f
  BY <1>1 DEF IoTypeOK, Registered
<1>3. C \subseteq Routine /\ \A r \in C : call[r] = "wait" /\ ctx[r].fd \in pending
  <2>1. ASSUME NEW r \in C PROVE r \in Routine /\ call[r] = "wait" /\ ctx[r].fd \in pending
    <3>1. PICK f \in pending : r = reg[f]
      BY <2>1
    <3> QED BY <1>2, <3>1
  <2> QED BY <2>1
<1>4. W \subseteq C /\ W \subseteq Routine
      /\ (\A r \in W : state[r] = "WAITING") /\ (\A r \in C : state[r] = "WAITING" => r \in W)
  BY <1>3
<1>5. IsFiniteSet(W)
  BY <1>4, RoutineAssumption, FS_Subset
<1>6. Cardinality(W) \in Nat
  BY <1>5, FS_CardinalityType
<1>7. /\ revents' = [r \in Routine |->
                       IF r \notin C THEN revents[r]
                       ELSE IF ctx[r].fd \in broken THEN "error" ELSE "ready"]
      /\ state' = [r \in Routine |-> IF r \in W THEN "READY" ELSE state[r]]
      /\ ioWaiting' = [r \in Routine |-> IF r \in W THEN FALSE ELSE ioWaiting[r]]
      /\ waitingIo' = waitingIo - Cardinality(W)
      /\ \E o \in Bijection(1..Cardinality(W), W) : queue' = [queue EXCEPT ![Ready] = @ \o o]
  BY DEF PollEvents, Deliver
<1>8. /\ revents' \in [Routine -> {"none", "ready", "error"}]
      /\ state' \in [Routine -> State] /\ ioWaiting' \in [Routine -> BOOLEAN]
  BY <1>1, <1>7 DEF IoTypeOK, SchedTypeOK, State
<1>9. waitingIo' \in Int
  <2>1. waitingIo \in Int /\ waitingIo' = waitingIo - Cardinality(W)
    BY <1>1, <1>7 DEF SchedTypeOK
  <2> QED BY ONLY <1>6, <2>1
<1>10. \E o \in Seq(W) :
         /\ Range(o) = W /\ IsInjective(o)
         /\ queue' = [queue EXCEPT ![Ready] = @ \o o]
  <2>1. PICK o \in Bijection(1..Cardinality(W), W) : queue' = [queue EXCEPT ![Ready] = @ \o o]
    BY <1>7
  <2>2. o \in Seq(W) /\ Range(o) = W /\ IsInjective(o)
    BY ONLY Zenon, o \in Bijection(1..Cardinality(W), W), <1>6, BijectionIsList
  <2> QED BY <2>1, <2>2
<1>11. \A r \in Routine :
         /\ revents'[r] = IF r \notin C THEN revents[r]
                          ELSE IF ctx[r].fd \in broken THEN "error" ELSE "ready"
         /\ state'[r] = IF r \in W THEN "READY" ELSE state[r]
         /\ ioWaiting'[r] = IF r \in W THEN FALSE ELSE ioWaiting[r]
  BY <1>7
<1> QED BY <1>3, <1>4, <1>5, <1>6, <1>7, <1>8, <1>9, <1>10, <1>11 DEF Delivered

LEMMA RegPoll ==
  ASSUME RegInv, PollEvents
  PROVE  RegInv'
<1>a. PICK C : C = {reg[f] : f \in pending}
  OBVIOUS
<1>b. PICK W : W = {r \in C : state[r] = "WAITING"}
  OBVIOUS
<1>c. Delivered(C, W)
  BY <1>a, <1>b, PollFacts
<1>1. /\ C \subseteq Routine /\ \A r \in C : call[r] = "wait" /\ ctx[r].fd \in pending
      /\ W \subseteq C /\ IsFiniteSet(W)
      /\ \A r \in C : state[r] = "WAITING" => r \in W
      /\ \A r \in Routine :
           /\ revents'[r] = IF r \notin C THEN revents[r]
                            ELSE IF ctx[r].fd \in broken THEN "error" ELSE "ready"
           /\ state'[r] = IF r \in W THEN "READY" ELSE state[r]
      /\ revents' \in [Routine -> {"none", "ready", "error"}]
      /\ state' \in [Routine -> State] /\ ioWaiting' \in [Routine -> BOOLEAN]
      /\ waitingIo' \in Int
  BY <1>c DEF Delivered
<1>2. PICK o \in Seq(W) :
        /\ Range(o) = W /\ IsInjective(o)
        /\ queue' = [queue EXCEPT ![Ready] = @ \o o]
  BY <1>c DEF Delivered
<1>3. \A r \in Routine, f \in pending : reg[f] = r => r \in C
  BY <1>a
<1>4. /\ pc = "poll" /\ pc' = "recheck" /\ pending' = {}
      /\ UNCHANGED <<heap, wakeup, condQ, timedOut, active, current, now, clock,
                     ready, broken, reg, call, ctx>>
  BY DEF PollEvents
<1>5. /\ ControlOK /\ SchedTypeOK /\ IoTypeOK /\ Registered
      /\ \A r \in Routine : CallInv(r)
  BY RegFacts
<1>6. queue' \in [Queue -> Seq(Routine)]
  <2>1. queue \in [Queue -> Seq(Routine)] /\ Ready \in Queue
    BY <1>5 DEF SchedTypeOK, Queue
  <2>2. o \in Seq(W)
    BY <1>2
  <2>3. o \in Seq(Routine) /\ queue[Ready] \in Seq(Routine)
    BY ONLY <1>1, <2>1, <2>2
  <2>4. queue[Ready] \o o \in Seq(Routine)
    BY ONLY <2>3
  <2> QED BY <1>2, <2>1, <2>4
<1>7. ControlOK'
  BY <1>1, <1>4, <1>5, <1>6 DEF ControlOK, SchedTypeOK, Location
<1>8. IoTypeOK' /\ Registered'
  BY <1>1, <1>4, <1>5 DEF IoTypeOK, Registered
<1>9. ASSUME NEW r \in Routine PROVE CallInv(r)'
  <2>1. CallInv(r) /\ call[r] # "try"
    BY <1>4, <1>5 DEF CallInv
  <2>2. revents'[r] = "error" => call[r] = "wait" /\ ctx[r].fd \in broken
    BY <1>1, <2>1 DEF CallInv
  <2> QED BY <1>4, <2>1, <2>2 DEF CallInv
<1>10. ASSUME OneWaiterPerFd, NEW r \in Routine PROVE WaiterInv(r)'
  <2>1. WaiterInv(r)
    BY <1>10 DEF RegInv
  <2>2. ASSUME InWait(r)', ctx[r].dir \in ready[ctx[r].fd] \/ ctx[r].fd \in broken
        PROVE  FALSE
    <3>1. state'[r] = "WAITING" /\ call[r] = "wait"
      BY <1>4, <2>2 DEF InWait
    <3>2. state[r] = "WAITING" /\ r \notin W
      BY <1>1, <3>1
    <3>3. ctx[r].fd \in pending /\ reg[ctx[r].fd] = r
      BY <2>1, <2>2, <3>1, <3>2 DEF WaiterInv, InWait
    <3> QED BY <1>1, <1>3, <3>2, <3>3
  <2> QED BY <1>4, <2>1, <2>2 DEF WaiterInv
<1> QED BY <1>7, <1>8, <1>9, <1>10 DEF RegInv

------------------------------------------------------------------------------
LEMMA RegStart ==
  ASSUME IoInit
  PROVE  RegInv
<1>1. SchedInv
  BY SchedStart DEF IoInit
<1>2. ControlOK
  BY <1>1 DEF IoInit, SchedInit, SchedInv, ControlOK
<1>3. IoTypeOK
  BY DEF IoInit, IoTypeOK
<1>4. Registered /\ \A r \in Routine : CallInv(r) /\ WaiterInv(r)
  BY DEF IoInit, Registered, CallInv, WaiterInv, InWait
<1> QED BY <1>2, <1>3, <1>4 DEF RegInv

LEMMA RegNext ==
  ASSUME RegInv, [Next]_vars
  PROVE  RegInv'
<1>1. CASE SocketCall
  BY <1>1, RegCallAtOnce, RegWouldBlock, RegWaitIo, RegFails, RegResume DEF SocketCall
<1>2. CASE UNCHANGED vars
  <2>1. UNCHANGED <<schedVars, ioVars>>
    BY <1>2 DEF vars
  <2>2. ControlOK' /\ UNCHANGED <<state, pc, current>>
    BY <2>1, ControlStays DEF RegInv, schedVars
  <2> QED BY <2>1, <2>2, RegStays
<1> QED BY <1>1, <1>2, RegPoll, RegSched, RegKernel DEF Next

(* A registration and a pending event belong to a coroutine that is in     *)
(* co_wait_io for that descriptor, whatever fails.                         *)
THEOREM RegInvariant == Spec => []RegInv
<1>1. IoInit => RegInv
  BY RegStart
<1>2. RegInv /\ [Next]_vars => RegInv'
  BY RegNext
<1> QED BY <1>1, <1>2, PTL DEF Spec

(* The wait_ctx whose address epoll holds in ev.data.ptr is always that of *)
(* a co_wait_io that has not returned: also after a timeout, when epoll_ctl*)
(* fails, and with several waiters for one descriptor.                     *)
THEOREM ContextStaysAlive == Spec => []ContextAlive
<1>1. RegInv => ContextAlive
  BY DEF RegInv, Registered, ContextAlive
<1> QED BY <1>1, RegInvariant, PTL

(* With one waiter for each descriptor an edge-triggered event that comes  *)
(* at any time after the system call that would have blocked is reported.  *)
THEOREM NoEventIsLost ==
  ASSUME OneWaiterPerFd
  PROVE  Spec => []NoLostEvent
<1>1. RegInv => NoLostEvent
  BY DEF RegInv, WaiterInv, NoLostEvent, InWait
<1> QED BY <1>1, RegInvariant, PTL

------------------------------------------------------------------------------
(* The timers and the counter.                                             *)

LEMMA EmptyRange ==
  Range(<<>>) = {}
  BY SMT DEF Range

LEMMA PositiveHeap ==
  ASSUME NEW m \in Nat, NEW n, n = m \/ n = 0
  PROVE  n > 0 => m > 0
  BY SMT

LEMMA WaitStays ==
  ASSUME NEW r \in Routine, TimerWaitInv(r), heap[r] \in Nat, Passes(r),
         call'[r] = call[r], ctx'[r] = ctx[r], revents'[r] = revents[r]
  PROVE  TimerWaitInv(r)'
<1>1. /\ state'[r] = state[r] /\ timedOut'[r] = timedOut[r] /\ ioWaiting'[r] = ioWaiting[r]
      /\ heap'[r] = heap[r] \/ heap'[r] = 0
      /\ pc' = "coroutine" /\ r = current' => pc = "coroutine" /\ r = current
  BY DEF Passes, Kept
<1>2. heap'[r] > 0 => heap[r] > 0
  BY <1>1, PositiveHeap
<1>3. InWait(r)' <=> InWait(r)
  BY <1>1 DEF InWait
<1>4. ctx'[r].timed = ctx[r].timed
  OBVIOUS
<1> QED BY <1>1, <1>2, <1>3, <1>4 DEF TimerWaitInv

(* A coroutine in no socket call.                                          *)
LEMMA WaitIdle ==
  ASSUME NEW r \in Routine, call'[r] = "none", revents'[r] = "none", ioWaiting'[r] = FALSE,
         heap'[r] > 0 => state'[r] = "WAITING"
  PROVE  TimerWaitInv(r)' /\ ~InWait(r)'
  BY DEF TimerWaitInv, InWait

LEMMA IdleFacts ==
  ASSUME NEW r \in Routine, TimerWaitInv(r), ioWaiting[r] \in BOOLEAN, call[r] = "none"
  PROVE  /\ revents[r] = "none" /\ ioWaiting[r] = FALSE /\ ~InWait(r)
         /\ heap[r] > 0 => state[r] = "WAITING"
  BY DEF TimerWaitInv, InWait

LEMMA WaitSched ==
  ASSUME NEW r \in Routine, TimerWaitInv(r), StepOf(r),
         heap[r] \in Nat, ioWaiting[r] \in BOOLEAN, timedOut[r] \in BOOLEAN,
         call[r] \in {"none", "try", "wait"},
         call'[r] = call[r], ctx'[r] = ctx[r], revents'[r] = revents[r],
         call[r] = "try" => pc = "coroutine" /\ r = current,
         pc = "coroutine" /\ r = current => state[r] # "WAITING",
         Suspends(r) => call[r] = "none"
  PROVE  TimerWaitInv(r)' /\ (InWait(r)' <=> InWait(r) /\ ~TimesOut(r))
<1>0. ctx'[r].timed = ctx[r].timed
  OBVIOUS
<1>1. CASE Passes(r)
  <2>1. TimerWaitInv(r)'
    BY <1>1, WaitStays
  <2>2. state'[r] = state[r]
    BY <1>1 DEF Passes, Kept
  <2> QED BY <2>1, <2>2 DEF InWait, TimesOut
<1>2. CASE TimesOut(r)
  <2>1. /\ ioWaiting[r] /\ state'[r] = "READY" /\ timedOut'[r] = TRUE /\ ioWaiting'[r] = FALSE
        /\ heap'[r] = 0
    BY <1>2 DEF TimesOut
  <2>2. InWait(r) /\ call[r] = "wait" /\ revents[r] = "none"
    BY <2>1 DEF TimerWaitInv, InWait
  <2>3. ~(heap'[r] > 0)
    BY ONLY <2>1
  <2> QED BY <1>0, <1>2, <2>1, <2>2, <2>3 DEF TimerWaitInv, InWait
<1>3. CASE WakesUp(r)
  <2>1. /\ pc = "timers" /\ state[r] = "WAITING" /\ heap[r] > 0 /\ ioWaiting[r] = FALSE
        /\ state'[r] = "READY" /\ ioWaiting'[r] = FALSE /\ heap'[r] = 0
    BY <1>3 DEF WakesUp
  <2>2. call[r] = "none"
    BY <2>1 DEF TimerWaitInv, InWait
  <2>3. ~(heap'[r] > 0)
    BY ONLY <2>1
  <2>4. revents[r] = "none" /\ ~InWait(r)
    BY <2>2, IdleFacts
  <2> QED BY <2>1, <2>2, <2>3, <2>4, WaitIdle
<1>4. CASE Starts(r)
  <2>1. /\ state[r] = "READY" /\ state'[r] = "RUNNING" /\ timedOut'[r] = timedOut[r]
        /\ ioWaiting'[r] = ioWaiting[r] /\ heap'[r] = heap[r]
    BY <1>4 DEF Starts
  <2> QED BY <1>0, <2>1 DEF TimerWaitInv, InWait
<1>5. CASE IsFreed(r) \/ IsSpawned(r)
  <2>1. /\ state[r] \in {"DEAD", "FREE"} /\ heap'[r] = heap[r]
        /\ ioWaiting'[r] = ioWaiting[r] \/ ioWaiting'[r] = FALSE
    BY <1>5 DEF IsFreed, IsSpawned
  <2>2. call[r] = "none"
    BY <2>1 DEF TimerWaitInv
  <2> QED BY <2>1, <2>2, IdleFacts, WaitIdle
<1>6. CASE Suspends(r)
  <2>1. /\ pc = "coroutine" /\ r = current /\ ioWaiting'[r] = ioWaiting[r]
        /\ heap'[r] = heap[r] \/ state'[r] = "WAITING"
    BY <1>6 DEF Suspends
  <2>2. call[r] = "none"
    BY <1>6
  <2> QED BY <2>1, <2>2, IdleFacts, WaitIdle
<1> QED BY <1>1, <1>2, <1>3, <1>4, <1>5, <1>6 DEF StepOf

(* waiting_io_count stays, goes down by the routines of W, or goes up.     *)
LEMMA WaitersFinite ==
  IsFiniteSet({r \in Routine : InWait(r)}) /\ Cardinality({r \in Routine : InWait(r)}) \in Nat
<1>1. IsFiniteSet({r \in Routine : InWait(r)})
  <2>1. {r \in Routine : InWait(r)} \subseteq Routine
    OBVIOUS
  <2> QED BY <2>1, RoutineAssumption, FS_Subset
<1> QED BY <1>1, FS_CardinalityType

LEMMA CountSame ==
  ASSUME WaitingIoIsCount, pc # "destroyed", waitingIo' = waitingIo,
         \A r \in Routine : InWait(r)' <=> InWait(r)
  PROVE  WaitingIoIsCount'
<1>1. {r \in Routine : InWait(r)}' = {r \in Routine : InWait(r)}
  OBVIOUS
<1> QED BY <1>1 DEF WaitingIoIsCount

LEMMA CountLess ==
  ASSUME WaitingIoIsCount, pc # "destroyed", NEW W \in SUBSET Routine,
         waitingIo' = waitingIo - Cardinality(W),
         \A r \in W : InWait(r),
         \A r \in Routine : InWait(r)' <=> InWait(r) /\ r \notin W
  PROVE  WaitingIoIsCount'
<1> DEFINE S == {r \in Routine : InWait(r)}
           T == {r \in Routine : InWait(r)}'
<1>1. T = S \ W /\ S \cap W = W
  OBVIOUS
<1>2. IsFiniteSet(S) /\ waitingIo = Cardinality(S)
  BY WaitersFinite DEF WaitingIoIsCount
<1>3. WaitingIoIsCount' <=> (pc' # "destroyed" => waitingIo' = Cardinality(T))
  BY DEF WaitingIoIsCount
<1> HIDE DEF S, T
<1>4. Cardinality(S \ W) = Cardinality(S) - Cardinality(S \cap W)
  BY <1>2, FS_Difference
<1>5. waitingIo' = Cardinality(T)
  BY <1>1, <1>2, <1>4
<1> QED BY <1>3, <1>5

LEMMA CountMore ==
  ASSUME WaitingIoIsCount, pc # "destroyed", NEW c \in Routine, ~InWait(c),
         waitingIo' = waitingIo + 1,
         \A r \in Routine : InWait(r)' <=> InWait(r) \/ r = c
  PROVE  WaitingIoIsCount'
<1> DEFINE S == {r \in Routine : InWait(r)}
           T == {r \in Routine : InWait(r)}'
<1>1. T = S \cup {c} /\ c \notin S
  OBVIOUS
<1>2. IsFiniteSet(S) /\ waitingIo = Cardinality(S)
  BY WaitersFinite DEF WaitingIoIsCount
<1>3. WaitingIoIsCount' <=> (pc' # "destroyed" => waitingIo' = Cardinality(T))
  BY DEF WaitingIoIsCount
<1> HIDE DEF S, T
<1>4. Cardinality(S \cup {c}) = Cardinality(S) + 1
  BY <1>1, <1>2, FS_AddElement
<1>5. waitingIo' = Cardinality(T)
  BY <1>1, <1>2, <1>4
<1> QED BY <1>3, <1>5

------------------------------------------------------------------------------
(* IoInv.                                                                  *)

LEMMA IoFacts ==
  ASSUME IoInv
  PROVE  /\ SchedInv /\ RegInv /\ ControlOK /\ SchedTypeOK /\ IoTypeOK /\ WaitingIoIsCount
         /\ \A r \in Routine : heap[r] \in Nat /\ heap[r] <= 1 /\ ioWaiting[r] \in BOOLEAN
                               /\ timedOut[r] \in BOOLEAN /\ call[r] \in {"none", "try", "wait"}
         /\ pc # "destroyed" => \A r \in Routine : TimerWaitInv(r)
         /\ pc = "coroutine" => /\ current \in Routine
                                /\ state[current] \in {"RUNNING", "READY"}
                                /\ ~InWait(current) /\ ioWaiting[current] = FALSE
<1>1. /\ SchedInv /\ RegInv /\ ControlOK /\ SchedTypeOK /\ IoTypeOK /\ WaitingIoIsCount
      /\ pc # "destroyed" => \A r \in Routine : TimerWaitInv(r)
  BY RegFacts DEF IoInv
<1>2. \A r \in Routine : heap[r] \in Nat /\ heap[r] <= 1 /\ ioWaiting[r] \in BOOLEAN
                         /\ timedOut[r] \in BOOLEAN /\ call[r] \in {"none", "try", "wait"}
  BY <1>1 DEF SchedInv, OneTimerEach, SchedTypeOK, IoTypeOK
<1>3. ASSUME pc = "coroutine"
      PROVE  current \in Routine /\ state[current] \in {"RUNNING", "READY"} /\ ~InWait(current)
             /\ TimerWaitInv(current)
  BY <1>1, <1>3 DEF SchedInv, ControlInv, ControlOK, InWait
<1>4. pc = "coroutine" => ioWaiting[current] = FALSE
  BY <1>2, <1>3 DEF TimerWaitInv
<1> QED BY <1>1, <1>2, <1>3, <1>4

(* Nothing changes but the kernel's side of it.                            *)
LEMMA IoQuiet ==
  ASSUME IoInv, RegInv', UNCHANGED <<schedVars, call, ctx, revents>>
  PROVE  IoInv'
<1>1. UNCHANGED <<state, queue, heap, timedOut, ioWaiting, waitingIo, current, pc>>
  BY DEF schedVars, fieldVars
<1>2. SchedInv'
  BY SchedStays DEF IoInv
<1>3. ASSUME NEW r \in Routine, pc' # "destroyed" PROVE TimerWaitInv(r)'
  <2>1. TimerWaitInv(r) /\ heap[r] \in Nat
    BY <1>1, <1>3, IoFacts
  <2>2. Passes(r)
    BY <1>1 DEF Passes, Kept
  <2> QED BY <2>1, <2>2, WaitStays
<1>4. WaitingIoIsCount'
  <2>1. CASE pc = "destroyed"
    BY <1>1, <2>1 DEF WaitingIoIsCount
  <2>2. CASE pc # "destroyed"
    <3>1. \A r \in Routine : InWait(r)' <=> InWait(r)
      BY <1>1 DEF InWait
    <3> QED BY <1>1, <2>2, <3>1, CountSame, IoFacts
  <2> QED BY <2>1, <2>2
<1> QED BY <1>1, <1>2, <1>3, <1>4 DEF IoInv

LEMMA IoSched ==
  ASSUME IoInv, SchedStep
  PROVE  IoInv'
<1>1. /\ SchedInv /\ RegInv /\ ControlOK /\ RegInv'
      /\ UNCHANGED <<call, ctx, revents>>
  BY IoFacts, RegSched DEF SchedStep, ioVars
<1>2. CASE Gone
  BY <1>1, <1>2, IoQuiet DEF Gone
<1>3. CASE Destroy
  <2>1. SchedInv' /\ pc' = "destroyed"
    BY <1>1, <1>3, DestroyStep DEF Destroy
  <2>2. queue' = [queue EXCEPT ![Ready] = <<>>] /\ queue \in [Queue -> Seq(Routine)]
    BY <1>1, <1>3 DEF Destroy, ControlOK, SchedTypeOK
  <2>3. \A q \in WaitQueue : queue'[q] = queue[q]
    BY <2>2, ReadyIsNoWaitQueue
  <2> QED BY <1>1, <2>1, <2>3 DEF IoInv, WaitingIoIsCount
<1>4. CASE ~Gone /\ ~Destroy
  <2>1. /\ SchedulerStep \/ Fault \/ RunStart \/ Tick \/ (\E r \in Routine : Spawn(r)) \/ Suspend
        /\ Suspend => call[current] = "none" \/ ~(pc = "coroutine")
    <3>1. CASE ClientSuspend
      BY <3>1 DEF ClientSuspend, InCoroutineCode, Suspend
    <3>2. CASE LoopStep \/ LoopFault
      <4>1. SchedulerStep \/ Fault
        BY <3>2 DEF LoopStep, LoopFault
      <4>2. pc # "coroutine"
        BY <4>1 DEF SchedulerStep, Fault, SampleNow, TimerStale, TimerCond, TimerIo, TimerSleep,
           Expired, TimersDone, PollTimeout, Recheck, Schedule, SwitchBack, PollInterrupted, ScheduleError
      <4> QED BY <4>1, <4>2
    <3>3. CASE RunStart \/ Tick \/ \E r \in Routine : ClientSpawn(r)
      <4>1. RunStart \/ Tick \/ \E r \in Routine : Spawn(r)
        BY <3>3 DEF ClientSpawn
      <4>2. pc' = pc \/ pc # "coroutine"
        BY <4>1 DEF RunStart, Tick, Spawn
      <4>3. Suspend => pc = "coroutine" /\ pc' = "back"
        BY DEF Suspend, Yield, Sleep, Finish, SwapToMain
      <4> QED BY <4>1, <4>2, <4>3
    <3> QED BY <1>4, <3>1, <3>2, <3>3 DEF SchedStep
  <2>2. Suspend => pc = "coroutine" /\ pc # "destroyed" /\ call[current] = "none"
    BY <2>1 DEF Suspend, Yield, Sleep, Finish
  <2>3. Suspend => heap[current] = 0
    <3>1. ASSUME Suspend PROVE heap[current] \in Nat /\ ~(heap[current] > 0)
      BY <2>2, <3>1, IoFacts DEF TimerWaitInv
    <3> QED BY SMT, <3>1
  <2>4. Effect /\ SchedInv'
    BY <1>1, <2>1, <2>3, SchedEffect
  <2>5. pc # "destroyed" /\ pc' # "destroyed" /\ \A r \in Routine : StepOf(r)
    BY <2>4 DEF Effect
  <2>6. ASSUME NEW r \in Routine
        PROVE  TimerWaitInv(r)' /\ (InWait(r)' <=> InWait(r) /\ ~TimesOut(r))
    <3>1. /\ TimerWaitInv(r) /\ StepOf(r) /\ heap[r] \in Nat /\ ioWaiting[r] \in BOOLEAN
          /\ timedOut[r] \in BOOLEAN /\ call[r] \in {"none", "try", "wait"}
          /\ pc = "coroutine" /\ r = current => state[r] # "WAITING"
      BY <2>5, IoFacts
    <3>2. /\ call'[r] = call[r] /\ ctx'[r] = ctx[r] /\ revents'[r] = revents[r]
          /\ call[r] = "try" => pc = "coroutine" /\ r = current
      BY <1>1 DEF RegInv, CallInv
    <3>3. Suspends(r) => call[r] = "none"
      BY <2>2 DEF Suspends
    <3> QED BY <3>1, <3>2, <3>3, WaitSched
  <2>7. WaitingIoIsCount'
    <3>1. CASE CountKept
      <4>1. waitingIo' = waitingIo /\ \A r \in Routine : InWait(r)' <=> InWait(r)
        BY <2>6, <3>1 DEF CountKept
      <4> QED BY <2>5, <4>1, CountSame, IoFacts
    <3>2. CASE CountDown
      <4>1. PICK r \in Routine : TimesOut(r) /\ \A s \in Routine : s # r => Passes(s)
        BY <3>2 DEF CountDown
      <4>2. waitingIo' = waitingIo - Cardinality({r})
        BY <3>2, FS_Singleton DEF CountDown
      <4>3. InWait(r)
        BY <2>5, <4>1, IoFacts DEF TimesOut, TimerWaitInv
      <4>4. \A s \in Routine : s # r => ~TimesOut(s)
        BY <4>1 DEF Passes, Kept, TimesOut
      <4>5. \A s \in Routine : InWait(s)' <=> InWait(s) /\ s \notin {r}
        BY <2>6, <4>1, <4>4
      <4>6. {r} \in SUBSET Routine /\ \A s \in {r} : InWait(s)
        BY <4>3
      <4> QED BY <2>5, <4>2, <4>5, <4>6, CountLess, IoFacts
    <3> QED BY <2>4, <3>1, <3>2 DEF Effect
  <2>8. \A q \in WaitQueue : queue'[q] = <<>>
    BY <2>4 DEF Effect, IoInv
  <2>9. pc' = "poll" => queue'[Ready] = <<>>
    BY <2>4 DEF Effect, IoInv
  <2> QED BY <1>1, <2>4, <2>6, <2>7, <2>8, <2>9 DEF IoInv
<1> QED BY <1>2, <1>3, <1>4

LEMMA IoWouldBlock ==
  ASSUME IoInv, NEW f \in Fd, NEW d \in Direction, CallWouldBlock(f, d)
  PROVE  IoInv'
<1>1. /\ RegInv' /\ UNCHANGED <<schedVars, revents>>
      /\ pc = "coroutine" /\ call[current] = "none"
  BY IoFacts, RegWouldBlock DEF CallWouldBlock, InCoroutineCode
<1>2. /\ current \in Routine /\ state[current] \in {"RUNNING", "READY"}
      /\ ~InWait(current) /\ ioWaiting[current] = FALSE /\ IoTypeOK
      /\ \A r \in Routine : TimerWaitInv(r) /\ heap[r] \in Nat
  BY <1>1, IoFacts
<1>3. UNCHANGED <<state, queue, heap, timedOut, ioWaiting, waitingIo, current, pc>>
  BY <1>1 DEF schedVars, fieldVars
<1>4. call'[current] = "try" /\ \A r \in Routine : r # current => call'[r] = call[r] /\ ctx'[r] = ctx[r]
  BY <1>2 DEF CallWouldBlock, IoTypeOK
<1>5. SchedInv'
  BY <1>1, SchedStays DEF IoInv
<1>6. ASSUME NEW r \in Routine PROVE TimerWaitInv(r)' /\ (InWait(r)' <=> InWait(r))
  <2>1. CASE r = current
    <3>1. revents[r] = "none" /\ ~(heap[r] > 0)
      BY <1>1, <1>2, <2>1 DEF TimerWaitInv
    <3> QED BY <1>1, <1>2, <1>3, <1>4, <2>1, <3>1 DEF TimerWaitInv, InWait
  <2>2. CASE r # current
    <3>1. Passes(r)
      BY <1>3 DEF Passes, Kept
    <3>2. call'[r] = call[r] /\ ctx'[r] = ctx[r] /\ revents'[r] = revents[r]
      BY <1>1, <1>4, <2>2
    <3>3. InWait(r)' <=> InWait(r)
      BY <1>3, <3>2 DEF InWait
    <3> QED BY <1>2, <3>1, <3>2, <3>3, WaitStays
  <2> QED BY <2>1, <2>2
<1>7. WaitingIoIsCount'
  BY <1>1, <1>3, <1>6, CountSame, IoFacts
<1> QED BY <1>1, <1>3, <1>5, <1>6, <1>7 DEF IoInv

(* What TimerWaitInv says of the others when the current coroutine is in   *)
(* a socket call.                                                          *)
LEMMA IoOthers ==
  ASSUME IoInv, pc = "coroutine", pc' \in {"coroutine", "back"}, current' = current,
         NEW r \in Routine, r # current,
         state'[r] = state[r], timedOut'[r] = timedOut[r], ioWaiting'[r] = ioWaiting[r],
         heap'[r] = heap[r],
         call'[r] = call[r], ctx'[r] = ctx[r], revents'[r] = revents[r]
  PROVE  TimerWaitInv(r)' /\ (InWait(r)' <=> InWait(r))
<1>1. TimerWaitInv(r) /\ heap[r] \in Nat
  BY IoFacts
<1>2. Passes(r)
  BY DEF Passes, Kept
<1>3. InWait(r)' <=> InWait(r)
  BY DEF InWait
<1> QED BY <1>1, <1>2, <1>3, WaitStays

LEMMA IoWaitIo ==
  ASSUME IoInv, WaitIo
  PROVE  IoInv'
<1>1. /\ RegInv' /\ RegInv /\ SchedInv /\ SchedTypeOK /\ IoTypeOK
      /\ pc = "coroutine" /\ call[current] = "try" /\ current \in Routine
      /\ state[current] \in {"RUNNING", "READY"} /\ ~InWait(current)
      /\ TimerWaitInv(current) /\ heap[current] \in Nat
  BY IoFacts, RegWaitIo DEF WaitIo
<1>2. /\ SetTimer(TRUE) /\ ioWaiting' = [ioWaiting EXCEPT ![current] = ctx[current].timed]
      /\ state' = [state EXCEPT ![current] = "WAITING"] /\ waitingIo' = waitingIo + 1
      /\ pc' = "back" /\ call' = [call EXCEPT ![current] = "wait"]
      /\ UNCHANGED <<queue, condQ, active, current, now, clock, ctx, revents>>
  BY DEF WaitIo, SwapToMain
<1>3. ctx[current].timed \in BOOLEAN
  BY <1>1, RegFacts
<1>4. heap[current] = 0 /\ revents[current] = "none"
  <2>1. ~(heap[current] > 0) /\ revents[current] = "none"
    BY <1>1 DEF TimerWaitInv
  <2> QED BY SMTT(30), <1>1, <2>1
<1> DEFINE k == IF ctx[current].timed THEN 1 ELSE 0
<1>5. /\ timedOut' \in [Routine -> BOOLEAN] /\ wakeup' \in [Routine -> Nat] /\ heap' \in [Routine -> Nat]
      /\ timedOut'[current] = FALSE
      /\ heap'[current] = IF ctx[current].timed THEN heap[current] + 1 ELSE heap[current]
      /\ \A r \in Routine : r # current => timedOut'[r] = timedOut[r] /\ heap'[r] = heap[r]
  BY <1>1, <1>2, TimerTypes
<1>6. k \in {0, 1} /\ heap'[current] = k /\ (k > 0 => ctx[current].timed)
  BY SMTT(30), <1>3, <1>4, <1>5
<1> HIDE DEF k
<1>7. heap' = With(heap, current, k)
  BY <1>1, <1>5, <1>6 DEF With, SchedTypeOK
<1>8. state' = With(state, current, "WAITING") /\ "WAITING" \in State \ {"READY", "FREE"}
      /\ "WAITING" # "DEAD"
  BY <1>2 DEF With, State
<1>9. ioWaiting' \in [Routine -> BOOLEAN] /\ ioWaiting'[current] = ctx[current].timed
      /\ \A r \in Routine : r # current => ioWaiting'[r] = ioWaiting[r]
  BY <1>1, <1>2, <1>3 DEF SchedTypeOK
<1>10. waitingIo' \in Int /\ active' \in Int
  BY SMTT(30), <1>1, <1>2 DEF SchedTypeOK
<1>11. SchedInv'
  BY <1>1, <1>2, <1>5, <1>6, <1>7, <1>8, <1>9, <1>10, LeaveStep
<1>12. /\ call'[current] = "wait" /\ state'[current] = "WAITING"
       /\ \A r \in Routine : r # current => call'[r] = call[r] /\ state'[r] = state[r]
  BY <1>1, <1>2 DEF IoTypeOK, SchedTypeOK
<1>13. TimerWaitInv(current)' /\ InWait(current)'
  BY <1>2, <1>4, <1>5, <1>6, <1>9, <1>12 DEF TimerWaitInv, InWait
<1>14. ASSUME NEW r \in Routine, r # current PROVE TimerWaitInv(r)' /\ (InWait(r)' <=> InWait(r))
  BY <1>1, <1>2, <1>5, <1>9, <1>12, <1>14, IoOthers
<1>15. WaitingIoIsCount'
  <2>1. \A r \in Routine : InWait(r)' <=> InWait(r) \/ r = current
    BY <1>2, <1>13, <1>14
  <2> QED BY <1>1, <1>2, <2>1, CountMore, IoFacts
<1>16. \A r \in Routine : TimerWaitInv(r)'
  BY <1>2, <1>13, <1>14
<1> QED BY <1>1, <1>2, <1>11, <1>15, <1>16 DEF IoInv

(* The call of the current coroutine returns and leaves no timer.          *)
LEMMA IoReturn ==
  ASSUME IoInv, RegInv', pc = "coroutine", CallReturns,
         UNCHANGED <<state, queue, condQ, waitingIo, current, pc>>,
         ioWaiting'[current] = FALSE, heap'[current] = 0,
         \A r \in Routine : r # current =>
           heap'[r] = heap[r] /\ timedOut'[r] = timedOut[r] /\ ioWaiting'[r] = ioWaiting[r]
  PROVE  IoInv'
<1>1. /\ SchedInv /\ IoTypeOK /\ current \in Routine /\ ~InWait(current) /\ SchedTypeOK'
  BY IoFacts DEF RegInv, ControlOK
<1>2. SchedInv'
  BY <1>1, CurrentStep
<1>3. /\ call'[current] = "none" /\ revents'[current] = "none"
      /\ \A r \in Routine : r # current =>
           ctx'[r] = ctx[r] /\ call'[r] = call[r] /\ revents'[r] = revents[r]
  BY <1>1 DEF CallReturns, IoTypeOK
<1>4. ~(heap'[current] > 0)
  BY SMT
<1>5. TimerWaitInv(current)' /\ ~InWait(current)'
  BY <1>1, <1>3, <1>4 DEF TimerWaitInv, InWait
<1>6. ASSUME NEW r \in Routine, r # current PROVE TimerWaitInv(r)' /\ (InWait(r)' <=> InWait(r))
  BY <1>1, <1>3, <1>6, IoOthers
<1>7. \A r \in Routine : TimerWaitInv(r)' /\ (InWait(r)' <=> InWait(r))
  BY <1>1, <1>5, <1>6
<1>8. WaitingIoIsCount'
  BY <1>7, CountSame, IoFacts
<1> QED BY <1>2, <1>7, <1>8 DEF IoInv

(* A call on a socket that fails has no timer, as long as clients use such *)
(* sockets without a timeout.                                              *)
LEMMA IoFails ==
  ASSUME IoInv, TimedFd \cap FailingFd = {}, WaitIoNoMem \/ WaitIoAddFails
  PROVE  IoInv'
<1>1. /\ RegInv' /\ RegInv /\ SchedTypeOK
      /\ pc = "coroutine" /\ call[current] = "try" /\ current \in Routine
      /\ TimerWaitInv(current) /\ heap[current] \in Nat
  BY IoFacts, RegFails DEF WaitIoNoMem, WaitIoAddFails
<1>2. heap[current] = 0
  <2>1. ~(heap[current] > 0)
    BY <1>1 DEF TimerWaitInv
  <2> QED BY SMTT(30), <1>1, <2>1
<1>3. /\ \/ SetTimer(FALSE)
         \/ SetTimer(TRUE) /\ ctx[current].fd \in FailingFd
      /\ ioWaiting' = [ioWaiting EXCEPT ![current] = FALSE]
      /\ CallReturns
      /\ UNCHANGED <<state, queue, condQ, waitingIo, current, pc>>
  BY DEF WaitIoNoMem, WaitIoAddFails
<1>4. ctx[current].fd \in FailingFd => ctx[current].timed = FALSE
  BY <1>1, RegFacts DEF CallInv
<1>5. /\ heap'[current] = 0
      /\ \A r \in Routine : r # current => timedOut'[r] = timedOut[r] /\ heap'[r] = heap[r]
  <2>1. CASE SetTimer(FALSE)
    BY <1>1, <1>2, <2>1, TimerTypes
  <2>2. CASE SetTimer(TRUE) /\ ctx[current].fd \in FailingFd
    BY <1>1, <1>2, <1>4, <2>2, TimerTypes
  <2> QED BY <1>3, <2>1, <2>2
<1>6. ioWaiting'[current] = FALSE /\ \A r \in Routine : r # current => ioWaiting'[r] = ioWaiting[r]
  BY <1>1, <1>3 DEF SchedTypeOK
<1> QED BY <1>1, <1>3, <1>5, <1>6, IoReturn

LEMMA IoResumes ==
  ASSUME IoInv, TimedFd \cap FailingFd = {}, IoResume
  PROVE  IoInv'
<1>1. /\ RegInv' /\ RegInv /\ SchedTypeOK /\ IoTypeOK
      /\ pc = "coroutine" /\ call[current] = "wait" /\ current \in Routine
      /\ TimerWaitInv(current) /\ heap[current] \in Nat /\ heap[current] <= 1
      /\ ioWaiting[current] = FALSE
  BY IoFacts, RegResume DEF IoResume
<1>2. /\ CallReturns
      /\ UNCHANGED <<state, queue, condQ, timedOut, waitingIo, current, pc>>
      /\ \/ (timedOut[current] \/ revents[current] = "error") /\ UNCHANGED <<heap, ioWaiting>>
         \/ CancelTimer
  BY DEF IoResume
<1>3. heap[current] > 0 => ctx[current].timed /\ ~timedOut[current]
  BY <1>1 DEF TimerWaitInv
<1>4. revents[current] = "error" => ctx[current].timed = FALSE
  <2>1. ASSUME revents[current] = "error" PROVE ctx[current].fd \in FailingFd /\ ctx[current].fd \notin TimedFd
    BY <1>1, <2>1, RegFacts DEF CallInv, IoTypeOK
  <2> QED BY <1>1, <2>1, RegFacts DEF CallInv
<1>5. ~(heap[current] > 0) => heap[current] = 0
  BY SMTT(30), <1>1
<1>6. /\ heap'[current] = 0 /\ ioWaiting'[current] = FALSE
      /\ \A r \in Routine : r # current => heap'[r] = heap[r] /\ ioWaiting'[r] = ioWaiting[r]
  <2>1. CASE (timedOut[current] \/ revents[current] = "error") /\ UNCHANGED <<heap, ioWaiting>>
    BY <1>1, <1>3, <1>4, <1>5, <2>1
  <2>2. CASE CancelTimer /\ ctx[current].timed
    <3>1. /\ ioWaiting' = [ioWaiting EXCEPT ![current] = FALSE]
          /\ heap' = IF heap[current] = 0 THEN heap ELSE [heap EXCEPT ![current] = heap[current] - 1]
      BY <2>2 DEF CancelTimer
    <3>2. heap[current] = 0 \/ heap[current] - 1 = 0
      BY SMT, <1>1
    <3> QED BY <1>1, <3>1, <3>2 DEF SchedTypeOK
  <2>3. CASE CancelTimer /\ ~ctx[current].timed
    BY <1>1, <1>3, <1>5, <2>3 DEF CancelTimer
  <2> QED BY <1>2, <2>1, <2>2, <2>3
<1> QED BY <1>1, <1>2, <1>6, IoReturn

(* At the poll nobody is ready: an event finds its coroutine waiting, or   *)
(* left behind by a switch that failed.                                    *)
LEMMA IoPoll ==
  ASSUME IoInv, PollEvents
  PROVE  IoInv'
<1>a. PICK C : C = {reg[f] : f \in pending}
  OBVIOUS
<1>b. PICK W : W = {r \in C : state[r] = "WAITING"}
  OBVIOUS
<1>1. Delivered(C, W) /\ RegInv'
  BY <1>a, <1>b, PollFacts, RegPoll, IoFacts
<1>2. /\ C \subseteq Routine /\ \A r \in C : call[r] = "wait"
      /\ W \subseteq C /\ IsFiniteSet(W)
      /\ \A r \in W : state[r] = "WAITING"
      /\ \A r \in C : state[r] = "WAITING" => r \in W
      /\ \A r \in Routine :
           /\ revents'[r] = IF r \notin C THEN revents[r]
                            ELSE IF ctx[r].fd \in broken THEN "error" ELSE "ready"
           /\ state'[r] = IF r \in W THEN "READY" ELSE state[r]
           /\ ioWaiting'[r] = IF r \in W THEN FALSE ELSE ioWaiting[r]
      /\ state' = [r \in Routine |-> IF r \in W THEN "READY" ELSE state[r]]
      /\ ioWaiting' \in [Routine -> BOOLEAN]
      /\ waitingIo' = waitingIo - Cardinality(W) /\ waitingIo' \in Int
  BY <1>1 DEF Delivered
<1>3. PICK o \in Seq(W) :
        /\ Range(o) = W /\ IsInjective(o)
        /\ queue' = [queue EXCEPT ![Ready] = @ \o o]
  BY <1>1 DEF Delivered
<1>4. /\ pc = "poll" /\ pc' = "recheck"
      /\ UNCHANGED <<heap, wakeup, condQ, timedOut, active, current, now, clock, call, ctx>>
  BY DEF PollEvents
<1>5. /\ SchedInv /\ ControlOK /\ pc # "destroyed"
      /\ \A q \in Queue : queue[q] = <<>>
      /\ \A r \in Routine : TimerWaitInv(r) /\ state[r] # "READY"
  <2>1. SchedInv /\ ControlOK /\ pc # "destroyed" /\ \A r \in Routine : TimerWaitInv(r)
    BY <1>4, IoFacts
  <2>2. \A q \in Queue : queue[q] = <<>>
    BY <1>4 DEF IoInv, Queue
  <2>3. Range(<<>>) = {} /\ Ready \in Queue
    BY ReadyIsNoWaitQueue, EmptyRange
  <2>4. \A r \in Routine : state[r] # "READY"
    BY <1>4, <2>1, <2>2, <2>3 DEF SchedInv, StateMatchesLists
  <2> QED BY <2>1, <2>2, <2>4
<1>6. \A s \in W : state[s] = "WAITING" /\ condQ[s] = NoQueue /\ Unlinked(queue, s)
  BY <1>2, <1>5, EmptyRange DEF ControlOK, Unlinked
<1>7. SchedInv' /\ \A q \in WaitQueue : queue'[q] = queue[q]
  <2>1. W \in SUBSET Routine
    BY <1>2
  <2> QED BY <1>2, <1>3, <1>4, <1>5, <1>6, <2>1, PollWakes
<1>8. ASSUME NEW r \in Routine PROVE TimerWaitInv(r)' /\ (InWait(r)' <=> InWait(r) /\ r \notin W)
  <2>1. CASE r \in W
    <3>1. /\ InWait(r) /\ call[r] = "wait" /\ timedOut[r] \in BOOLEAN /\ timedOut[r] = FALSE
      BY <1>2, <1>5, <2>1, IoFacts DEF InWait, TimerWaitInv
    <3>2. state'[r] = "READY" /\ ioWaiting'[r] = FALSE /\ revents'[r] # "none"
      BY <1>2, <2>1
    <3> QED BY <1>4, <1>5, <2>1, <3>1, <3>2 DEF TimerWaitInv, InWait
  <2>2. CASE r \notin W
    <3>1. state'[r] = state[r] /\ ioWaiting'[r] = ioWaiting[r] /\ state[r] # "READY" /\ TimerWaitInv(r)
      BY <1>2, <1>5, <2>2
    <3>2. revents'[r] = revents[r] \/ (call[r] = "wait" /\ state[r] # "WAITING")
      BY <1>2, <2>2
    <3> QED BY <1>4, <2>2, <3>1, <3>2 DEF TimerWaitInv, InWait
  <2> QED BY <2>1, <2>2
<1>9. WaitingIoIsCount'
  <2>1. W \in SUBSET Routine /\ \A r \in W : InWait(r)
    BY <1>2 DEF InWait
  <2> QED BY <1>2, <1>5, <1>8, <2>1, CountLess, IoFacts
<1>10. \A q \in WaitQueue : queue'[q] = <<>>
  BY <1>7 DEF IoInv
<1> QED BY <1>1, <1>4, <1>7, <1>8, <1>9, <1>10 DEF IoInv

LEMMA IoStart ==
  ASSUME IoInit
  PROVE  IoInv
<1>1. SchedInv /\ RegInv
  BY SchedStart, RegStart DEF IoInit
<1>2. /\ queue = [q \in Queue |-> <<>>] /\ pc = "idle"
      /\ \A r \in Routine : /\ state[r] = "FREE" /\ call[r] = "none" /\ revents[r] = "none"
                            /\ ioWaiting[r] = FALSE /\ heap[r] = 0
      /\ waitingIo = 0
  BY DEF IoInit, SchedInit
<1>3. \A r \in Routine : ~(heap[r] > 0)
  BY SMTT(30), <1>2
<1>4. \A r \in Routine : TimerWaitInv(r) /\ ~InWait(r)
  BY <1>2, <1>3 DEF TimerWaitInv, InWait
<1>5. {r \in Routine : InWait(r)} = {}
  BY <1>4
<1>6. WaitingIoIsCount
  BY <1>2, <1>5, FS_EmptySet DEF WaitingIoIsCount
<1>7. \A q \in WaitQueue : queue[q] = <<>>
  BY <1>2, ReadyIsNoWaitQueue
<1> QED BY <1>1, <1>2, <1>4, <1>6, <1>7 DEF IoInv

LEMMA IoNext ==
  ASSUME IoInv, TimedFd \cap FailingFd = {}, [Next]_vars
  PROVE  IoInv'
<1>1. RegInv'
  BY RegNext, IoFacts
<1>2. CASE Kernel \/ (\E f \in Fd, d \in Direction : CallAtOnce(f, d)) \/ UNCHANGED vars
  <2>1. UNCHANGED <<schedVars, call, ctx, revents>>
    BY <1>2 DEF Kernel, BecomesReady, Breaks, CallAtOnce, vars, ioVars
  <2> QED BY <1>1, <2>1, IoQuiet
<1>3. CASE \E f \in Fd, d \in Direction : CallWouldBlock(f, d)
  BY <1>3, IoWouldBlock
<1>4. CASE WaitIo \/ WaitIoNoMem \/ WaitIoAddFails \/ IoResume
  BY <1>4, IoWaitIo, IoFails, IoResumes
<1> QED BY <1>2, <1>3, <1>4, IoSched, IoPoll DEF Next, SocketCall

(* The scheduler's invariant, the timers of socket calls and the counter,  *)
(* if the sockets whose waits can fail are used without a timeout (a timed *)
(* wait that fails leaves its timer behind).                               *)
THEOREM IoInvariant ==
  ASSUME TimedFd \cap FailingFd = {}
  PROVE  Spec => []IoInv
<1>1. IoInit => IoInv
  BY IoStart
<1>2. IoInv /\ [Next]_vars => IoInv'
  BY IoNext
<1> QED BY <1>1, <1>2, PTL DEF Spec

(* A call returns CO_ERROR_TIMEOUT exactly if no event was delivered to    *)
(* it: its timer and epoll_wait never both wake it.                        *)
THEOREM TimeoutOrEvent ==
  ASSUME TimedFd \cap FailingFd = {}
  PROVE  Spec => []TimeoutXorEvent
<1>1. IoInv => TimeoutXorEvent
  BY DEF IoInv, TimerWaitInv, TimeoutXorEvent, RegInv, ControlOK
<1> QED BY <1>1, IoInvariant, PTL

(* waiting_io_count is the number of coroutines in co_wait_io, whichever   *)
(* of a timer and an event ends each wait.                                 *)
THEOREM IoCountIsExact ==
  ASSUME TimedFd \cap FailingFd = {}
  PROVE  Spec => []WaitingIoIsCount
<1>1. IoInv => WaitingIoIsCount
  BY DEF IoInv
<1> QED BY <1>1, IoInvariant, PTL
==============================================================================
