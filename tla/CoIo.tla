-------------------------------- MODULE CoIo --------------------------------
(***************************************************************************)
(* Socket operations and the epoll multiplexer                             *)
(* (platform/linux/iomux_epoll.c) on top of the scheduler.                 *)
(*                                                                         *)
(* co_read, co_write, co_accept and co_connect have one shape: a system    *)
(* call, co_wait_io when it would block, and the system call (or a check)  *)
(* again.  What such a call needs of a descriptor is that it be ready in a *)
(* direction.                                                              *)
(*                                                                         *)
(* The kernel's side is as the code uses it: a descriptor has at most one  *)
(* registration, which holds the address of the wait_ctx on the stack of a *)
(* coroutine, and, because EPOLLET is set, an event is reported once for   *)
(* each time something happens to the descriptor or it is (re)registered   *)
(* while ready.  epoll_wait reports whatever is pending (up to 1024        *)
(* events); it times out or is interrupted only when nothing is.           *)
(***************************************************************************)
EXTENDS CoScheduler

CONSTANTS Fd,              \* sockets
          Direction,       \* CO_IO_READ, CO_IO_WRITE
          TimedFd,         \* the sockets that clients use with a timeout
          IoTimeouts,      \* the timeouts passed, beside -1
          FailingFd,       \* the sockets for which epoll_ctl may fail or
                           \* whose connection may break (EPOLLERR, EPOLLHUP)
          OneWaiterPerFd   \* do clients keep to one waiting call per socket?

ASSUME IoAssumption ==
  /\ TimedFd \subseteq Fd
  /\ FailingFd \subseteq Fd
  /\ IoTimeouts \subseteq Nat /\ 0 \in IoTimeouts
  /\ OneWaiterPerFd \in BOOLEAN

(* Memory is finite.                                                       *)
ASSUME RoutineAssumption == IsFiniteSet(Routine)

VARIABLES
  ready,       \* kernel: the directions in which each descriptor is ready
  broken,      \* kernel: the descriptors whose connection broke
  reg,         \* kernel: whose wait_ctx is registered for the descriptor
  pending,     \* kernel: the registered descriptors with an unreported event
  call,        \* where in a socket call each coroutine is
  ctx,         \* wait_ctx: descriptor, direction, and whether timed
  revents      \* wait_ctx.revents

kernelVars == <<ready, broken, reg, pending>>
ioVars == <<kernelVars, call, ctx, revents>>
vars == <<schedVars, ioVars>>

Ctx == [fd : Fd, dir : Direction, timed : BOOLEAN]
NoCtx == [fd |-> "none", dir |-> "none", timed |-> FALSE]

InCoroutineCode == pc = "coroutine" /\ call[current] = "none"
InClientCode == pc = "idle" \/ InCoroutineCode

IoInit ==
  /\ SchedInit
  /\ ready = [f \in Fd |-> {}]
  /\ broken = {}
  /\ reg = [f \in Fd |-> NoRoutine]
  /\ pending = {}
  /\ call = [r \in Routine |-> "none"]
  /\ ctx = [r \in Routine |-> NoCtx]
  /\ revents = [r \in Routine |-> "none"]

------------------------------------------------------------------------------
(* The kernel.                                                             *)

(* Something arrives on f, or room is made in its send buffer.             *)
BecomesReady(f, d) ==
  /\ ready' = [ready EXCEPT ![f] = @ \cup {d}]
  /\ pending' = IF reg[f] # NoRoutine /\ ctx[reg[f]].dir = d THEN pending \cup {f} ELSE pending
  /\ UNCHANGED <<schedVars, broken, reg, call, ctx, revents>>

(* The connection breaks, which is reported whatever was asked for.        *)
Breaks(f) ==
  /\ f \in FailingFd \ broken
  /\ broken' = broken \cup {f}
  /\ pending' = IF reg[f] # NoRoutine THEN pending \cup {f} ELSE pending
  /\ UNCHANGED <<schedVars, ready, reg, call, ctx, revents>>

------------------------------------------------------------------------------
(* The socket calls.                                                       *)

(* The first system call succeeds and may use up what was ready.           *)
CallAtOnce(f, d) ==
  /\ InClientCode
  /\ d \in ready[f]
  /\ ready' = [ready EXCEPT ![f] = @ \ {d}]
  /\ UNCHANGED <<schedVars, broken, reg, pending, call, ctx, revents>>

(* It would block (EAGAIN, EINPROGRESS): co_wait_io comes next.            *)
CallWouldBlock(f, d) ==
  /\ InCoroutineCode
  /\ d \notin ready[f]
  /\ f \notin broken
  /\ OneWaiterPerFd => \A r \in Routine : ctx[r].fd # f
  /\ call' = [call EXCEPT ![current] = "try"]
  /\ \E timed \in BOOLEAN :
       /\ timed => f \in TimedFd
       /\ ctx' = [ctx EXCEPT ![current] = [fd |-> f, dir |-> d, timed |-> timed]]
  /\ UNCHANGED <<schedVars, kernelVars, revents>>

(* The call returns, and its wait_ctx is gone.                             *)
CallReturns ==
  /\ call' = [call EXCEPT ![current] = "none"]
  /\ ctx' = [ctx EXCEPT ![current] = NoCtx]
  /\ revents' = [revents EXCEPT ![current] = "none"]

(* Mutants: timed_out of an earlier call is not reset; a timeout of 0 sets *)
(* no timer.                                                               *)
SetTimerKeepsFlag(pushed) ==
  /\ UNCHANGED timedOut
  /\ \/ /\ ~ctx[current].timed
        /\ UNCHANGED <<wakeup, heap>>
     \/ /\ ctx[current].timed
        /\ \E t \in IoTimeouts :
             /\ clock + t <= MaxTime
             /\ wakeup' = [wakeup EXCEPT ![current] = clock + t]
        /\ heap' = IF pushed THEN [heap EXCEPT ![current] = @ + 1] ELSE heap
SetTimerSkipsZero(pushed) ==
  /\ timedOut' = [timedOut EXCEPT ![current] = FALSE]
  /\ \/ UNCHANGED <<wakeup, heap>>
     \/ /\ ctx[current].timed
        /\ \E t \in IoTimeouts \ {0} :
             /\ clock + t <= MaxTime
             /\ wakeup' = [wakeup EXCEPT ![current] = clock + t]
        /\ heap' = IF pushed THEN [heap EXCEPT ![current] = @ + 1] ELSE heap

(* co_wait_io of a timed call computes the deadline; `pushed` tells if the *)
(* timer could be pushed.                                                  *)
SetTimer(pushed) ==
  /\ timedOut' = [timedOut EXCEPT ![current] = FALSE]
  /\ \/ /\ ~ctx[current].timed
        /\ UNCHANGED <<wakeup, heap>>
     \/ /\ ctx[current].timed
        /\ \E t \in IoTimeouts :
             /\ clock + t <= MaxTime
             /\ wakeup' = [wakeup EXCEPT ![current] = clock + t]
        /\ heap' = IF pushed THEN [heap EXCEPT ![current] = @ + 1] ELSE heap

(* The registration (EPOLL_CTL_ADD, or EPOLL_CTL_MOD if there is one).     *)
Register(f) ==
  /\ reg' = [reg EXCEPT ![f] = current]
  /\ pending' = IF ctx[current].dir \in ready[f] \/ f \in broken
                THEN pending \cup {f} ELSE pending \ {f}

WaitIo ==
  /\ pc = "coroutine" /\ call[current] = "try"
  /\ SetTimer(TRUE)
  /\ ioWaiting' = [ioWaiting EXCEPT ![current] = ctx[current].timed]
  /\ Register(ctx[current].fd)
  /\ state' = [state EXCEPT ![current] = "WAITING"]
  /\ waitingIo' = waitingIo + 1
  /\ call' = [call EXCEPT ![current] = "wait"]
  /\ SwapToMain
  /\ UNCHANGED <<queue, condQ, active, now, clock, ready, broken, ctx, revents>>

(* The timer heap cannot grow: the call fails.                             *)
WaitIoNoMem ==
  /\ PushMayFail
  /\ pc = "coroutine" /\ call[current] = "try"
  /\ ctx[current].timed
  /\ SetTimer(FALSE)
  /\ ioWaiting' = [ioWaiting EXCEPT ![current] = FALSE]
  /\ CallReturns
  /\ UNCHANGED <<state, queue, condQ, waitingIo, active, current, pc, now, clock, kernelVars>>

(* epoll_ctl fails: so does the call, with its timer in the heap.          *)
WaitIoAddFails ==
  /\ pc = "coroutine" /\ call[current] = "try"
  /\ ctx[current].fd \in FailingFd
  /\ SetTimer(TRUE)
  /\ ioWaiting' = [ioWaiting EXCEPT ![current] = FALSE]
  /\ CallReturns
  /\ UNCHANGED <<state, queue, condQ, waitingIo, active, current, pc, now, clock, kernelVars>>

(* Mutant: the registration stays.                                         *)
DeregisterLater(f) == UNCHANGED <<reg, pending>>

(* co_iomux_del, and at the normal end of a timed wait its timer.          *)
Deregister(f) ==
  /\ reg' = [reg EXCEPT ![f] = NoRoutine]
  /\ pending' = pending \ {f}

CancelTimer ==
  IF ctx[current].timed
  THEN /\ ioWaiting' = [ioWaiting EXCEPT ![current] = FALSE]
       /\ heap' = IF heap[current] = 0 THEN heap ELSE [heap EXCEPT ![current] = @ - 1]
  ELSE UNCHANGED <<ioWaiting, heap>>

(* co_wait_io resumed: the registration is removed; a call that neither    *)
(* timed out nor failed removes its timer and repeats the system call.     *)
IoResume ==
  /\ pc = "coroutine" /\ call[current] = "wait"
  /\ Deregister(ctx[current].fd)
  /\ \/ /\ timedOut[current] \/ revents[current] = "error"
        /\ UNCHANGED <<heap, ioWaiting, ready>>
     \/ /\ ~timedOut[current] /\ revents[current] # "error"
        /\ CancelTimer
        /\ \E used \in SUBSET {ctx[current].dir} :
             ready' = [ready EXCEPT ![ctx[current].fd] = @ \ used]
  /\ CallReturns
  /\ UNCHANGED <<state, queue, wakeup, condQ, timedOut, waitingIo, active, current, pc, now,
                 clock, broken>>

------------------------------------------------------------------------------
(* The events of the descriptors in fds are delivered: each, translated,   *)
(* to the registered wait_ctx, whose coroutine is woken if still WAITING.  *)
Deliver(fds) ==
  LET contexts == {reg[f] : f \in fds}
      woken == {r \in contexts : state[r] = "WAITING"} IN
    /\ revents' = [r \in Routine |->
                     IF r \notin contexts THEN revents[r]
                     ELSE IF ctx[r].fd \in broken THEN "error" ELSE "ready"]
    /\ state' = [r \in Routine |-> IF r \in woken THEN "READY" ELSE state[r]]
    /\ ioWaiting' = [r \in Routine |-> IF r \in woken THEN FALSE ELSE ioWaiting[r]]
    /\ waitingIo' = waitingIo - Cardinality(woken)
    /\ \E order \in Bijection(1..Cardinality(woken), woken) :
         queue' = [queue EXCEPT ![Ready] = @ \o order]

(* Mutant: the loop over the events stops one short.                       *)
PollEventsOneShort ==
  /\ pc = "poll"
  /\ pending # {}
  /\ \E last \in pending : Deliver(pending \ {last})
  /\ pending' = {}
  /\ pc' = "recheck"
  /\ UNCHANGED <<heap, wakeup, condQ, timedOut, active, current, now, clock,
                 ready, broken, reg, call, ctx>>

(* co_iomux_poll with events.                                              *)
PollEvents ==
  /\ pc = "poll"
  /\ pending # {}
  /\ Deliver(pending)
  /\ pending' = {}
  /\ pc' = "recheck"
  /\ UNCHANGED <<heap, wakeup, condQ, timedOut, active, current, now, clock,
                 ready, broken, reg, call, ctx>>

(* The steps of co_scheduler_run; a poll ends without events only if none  *)
(* is pending.                                                             *)
NoEventAtPoll == pc = "poll" => pending = {}
LoopStep == SchedulerStep /\ NoEventAtPoll
LoopFault == Fault /\ NoEventAtPoll

------------------------------------------------------------------------------
ClientSpawn(r) == InClientCode /\ Spawn(r)
ClientSuspend == InCoroutineCode /\ (Yield \/ (\E d \in SleepTimes : Sleep(d)) \/ Finish)

SocketCall ==
  \/ \E f \in Fd, d \in Direction : CallAtOnce(f, d) \/ CallWouldBlock(f, d)
  \/ WaitIo
  \/ WaitIoNoMem
  \/ WaitIoAddFails
  \/ IoResume

Kernel ==
  \/ \E f \in Fd, d \in Direction : BecomesReady(f, d)
  \/ \E f \in Fd : Breaks(f)

SchedStep ==
  /\ \/ LoopStep
     \/ LoopFault
     \/ RunStart
     \/ Destroy
     \/ Tick
     \/ \E r \in Routine : ClientSpawn(r)
     \/ ClientSuspend
     \/ Gone
  /\ UNCHANGED ioVars

Next == SocketCall \/ PollEvents \/ SchedStep \/ (pc # "destroyed" /\ Kernel)
Spec == IoInit /\ [][Next]_vars

(* The loop goes on, time passes, a socket call that runs comes to its     *)
(* end, and coroutines suspend.  Nothing is assumed about the kernel but   *)
(* that it reports pending events.                                         *)
Fairness ==
  /\ WF_vars(LoopStep /\ UNCHANGED ioVars)
  /\ WF_vars(PollEvents)
  /\ WF_vars(Tick /\ UNCHANGED ioVars)
  /\ WF_vars(WaitIo \/ IoResume)
  /\ SF_vars(ClientSuspend /\ UNCHANGED ioVars)

FairSpec == Spec /\ Fairness

------------------------------------------------------------------------------
(* Properties.                                                             *)

InWait(r) == state[r] = "WAITING" /\ call[r] = "wait"

(* waiting_io_count, which decides if the scheduler polls at all, is the   *)
(* number of coroutines that wait in co_wait_io: an event and a timeout    *)
(* never both count a waiter down.                                         *)
WaitingIoIsCount ==
  pc # "destroyed" => waitingIo = Cardinality({r \in Routine : InWait(r)})

(* "epoll can therefore safely keep &wait_ctx in ev.data.ptr until the     *)
(* coroutine resumes and calls co_iomux_del()": a registration points to a *)
(* wait_ctx that is in scope, and to the one for its descriptor.           *)
ContextAlive ==
  pc # "destroyed" =>
    \A f \in Fd : reg[f] # NoRoutine => call[reg[f]] = "wait" /\ ctx[reg[f]].fd = f

(* No lost wakeup with edge-triggered events: a waiting coroutine is       *)
(* registered, and if its descriptor is ready already an event is pending, *)
(* also when it became ready between the system call and the registration. *)
NoLostEvent ==
  pc # "destroyed" =>
    \A r \in Routine : InWait(r) =>
      /\ reg[ctx[r].fd] = r
      /\ ctx[r].dir \in ready[ctx[r].fd] \/ ctx[r].fd \in broken => ctx[r].fd \in pending

(* A call reports a timeout exactly if no event was delivered to it.       *)
TimeoutXorEvent ==
  pc = "coroutine" /\ call[current] = "wait" =>
    timedOut[current] = (revents[current] = "none")

(* What they rest on.  Whatever the timers do: a registration, and so an   *)
(* event, belongs to a coroutine in co_wait_io, and nothing runs between a *)
(* system call that would block and the registration but the kernel.       *)
IoTypeOK ==
  /\ ready \in [Fd -> SUBSET Direction]
  /\ broken \subseteq FailingFd
  /\ reg \in [Fd -> Routine \cup {NoRoutine}]
  /\ pending \subseteq Fd
  /\ call \in [Routine -> {"none", "try", "wait"}]
  /\ ctx \in [Routine -> Ctx \cup {NoCtx}]
  /\ revents \in [Routine -> {"none", "ready", "error"}]

Registered ==
  /\ \A f \in Fd : reg[f] # NoRoutine => call[reg[f]] = "wait" /\ ctx[reg[f]].fd = f
  /\ \A f \in pending : reg[f] # NoRoutine

CallInv(r) ==
  /\ call[r] # "none" => ctx[r] \in Ctx /\ (ctx[r].timed => ctx[r].fd \in TimedFd)
  /\ call[r] = "try" => pc = "coroutine" /\ r = current
  /\ revents[r] = "error" => call[r] = "wait" /\ ctx[r].fd \in broken

(* With one waiter for each socket it keeps the registration.              *)
WaiterInv(r) ==
  /\ call[r] = "wait" => reg[ctx[r].fd] = r
  /\ \A s \in Routine :
       call[r] # "none" /\ call[s] # "none" /\ ctx[s].fd = ctx[r].fd => s = r
  /\ InWait(r) /\ (ctx[r].dir \in ready[ctx[r].fd] \/ ctx[r].fd \in broken) => ctx[r].fd \in pending

RegInv ==
  /\ ControlOK /\ IoTypeOK /\ Registered
  /\ \A r \in Routine : CallInv(r)
  /\ OneWaiterPerFd => \A r \in Routine : WaiterInv(r)

(* As long as no timed wait fails, an entry in the timer heap belongs to a *)
(* coroutine in co_sleep or in a timed co_wait_io that has not timed out,  *)
(* and a wait that has been woken was woken once.                          *)
TimerWaitInv(r) ==
  /\ call[r] # "none" => state[r] \notin {"FREE", "DEAD"}
  /\ call[r] # "wait" => revents[r] = "none"
  /\ InWait(r) => ~timedOut[r] /\ revents[r] = "none" /\ ioWaiting[r] = ctx[r].timed
  /\ ioWaiting[r] => InWait(r)
  /\ heap[r] > 0 => \/ call[r] = "none" /\ state[r] = "WAITING"
                    \/ call[r] = "wait" /\ ctx[r].timed /\ ~timedOut[r]
  /\ call[r] = "wait" /\ (state[r] = "READY" \/ (pc = "coroutine" /\ r = current))
       => timedOut[r] = (revents[r] = "none")

IoInv ==
  /\ SchedInv /\ RegInv
  /\ \A q \in WaitQueue : queue[q] = <<>>
  /\ pc = "poll" => queue[Ready] = <<>>
  /\ pc # "destroyed" => \A r \in Routine : TimerWaitInv(r)
  /\ WaitingIoIsCount

(* A socket call with a timeout ends.                                      *)
TimedCallReturns ==
  \A r \in Routine : (call[r] = "wait" /\ ctx[r].timed) ~> (call[r] = "none")

(* An event wakes the call that waits for it, if the scheduler comes to    *)
(* polling again and again.                                                *)
Served == \A r \in Routine : (InWait(r) /\ ctx[r].fd \in pending) ~> (call[r] = "none")
ServedIfPolled == []<>(pc = "poll") => Served

==============================================================================
