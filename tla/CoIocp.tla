------------------------------- MODULE CoIocp -------------------------------
(***************************************************************************)
(* Socket operations and the completion port multiplexer                   *)
(* (platform/windows/iomux_iocp.c) on top of the scheduler.                *)
(*                                                                         *)
(* A call hands the kernel an operation whose OVERLAPPED is a part of the  *)
(* wait_ctx of the call (on the coroutine's stack, or allocated by         *)
(* co_accept and co_connect) and suspends.  Until the completion packet    *)
(* has been taken from the port the kernel may write to it, so a call that *)
(* timed out cancels its operation and suspends a second time, for the     *)
(* packet.                                                                 *)
(*                                                                         *)
(* From the first line of a call to its first switch nothing else runs but *)
(* the kernel, which knows nothing of the call before the operation is     *)
(* submitted: this part is one step.  co_read and co_write take the same   *)
(* path and are both Transfer.  Nothing calls co_iomux_del here, and       *)
(* co_iomux_mod does nothing.                                              *)
(*                                                                         *)
(* The kernel's side is as the code uses it: an operation on a socket that *)
(* is associated with the port ends in one packet, also when it completed  *)
(* at once; a socket can be associated only once; closing it ends the      *)
(* association, and its handle value may be given to a new socket.         *)
(***************************************************************************)
EXTENDS CoScheduler, FiniteSetsExt

CONSTANTS Socket,          \* values of socket handles
          NoSocket,        \* INVALID_SOCKET
          TimedSocket,     \* the sockets that clients use with a timeout
          IoTimeouts,      \* the timeouts passed, beside -1
          FailingSocket,   \* the sockets whose operations may fail
          TableSize,       \* length of associated_sockets
          MaxEvents,       \* the most packets one poll takes
          ReuseHandles     \* may a new socket get the handle of a closed one?

ASSUME IocpAssumption ==
  /\ NoSocket \notin Socket
  /\ TimedSocket \subseteq Socket
  /\ FailingSocket \subseteq Socket
  /\ IoTimeouts \subseteq Nat /\ 0 \in IoTimeouts
  /\ TableSize \in Nat /\ MaxEvents \in Nat \ {0}
  /\ ReuseHandles \in BOOLEAN

(* Memory is finite.                                                       *)
ASSUME RoutineAssumption == IsFiniteSet(Routine)

VARIABLES
  open,        \* kernel: the open sockets
  assoc,       \* kernel: those associated with the port
  pending,     \* kernel: on which socket each wait_ctx has an operation
  packets,     \* kernel: the packets in the port
  table,       \* iomux->associated_sockets
  call,        \* where in a socket call each coroutine is
  ctx,         \* wait_ctx: socket, operation, accept_socket, and whether timed
  revents,     \* wait_ctx.revents
  handed       \* history: the sockets that belong to client code

kernelVars == <<open, assoc, pending, packets>>
iocpVars == <<kernelVars, table, call, ctx, revents, handed>>
vars == <<schedVars, iocpVars>>

NoCtx == [fd |-> NoSocket, op |-> "none", client |-> NoSocket, timed |-> FALSE]

InCoroutineCode == pc = "coroutine" /\ call[current] = "none"
InClientCode == pc = "idle" \/ InCoroutineCode

IocpInit ==
  /\ SchedInit
  /\ open = {}
  /\ assoc = {}
  /\ pending = [r \in Routine |-> NoSocket]
  /\ packets = <<>>
  /\ table = {}
  /\ call = [r \in Routine |-> "none"]
  /\ ctx = [r \in Routine |-> NoCtx]
  /\ revents = [r \in Routine |-> "none"]
  /\ handed = {}

------------------------------------------------------------------------------
(* The kernel, and the client's use of it.                                 *)

(* The operation of r ends, well or with a status that is not zero: it was *)
(* cancelled, or the connection broke.                                     *)
Complete(r) ==
  /\ pending[r] # NoSocket
  /\ pending' = [pending EXCEPT ![r] = NoSocket]
  /\ \E status \in {"ready", "error"} :
       /\ status = "error" => pending[r] \in FailingSocket \/ call[r] = "drain"
       /\ packets' = IF pending[r] \in assoc
                     THEN Append(packets, [routine |-> r, status |-> status])
                     ELSE packets
  /\ UNCHANGED <<schedVars, open, assoc, table, call, ctx, revents, handed>>

FreshHandle(s) == s \in Socket \ open /\ (ReuseHandles \/ s \notin table)

OpenSocket(s) ==
  /\ InClientCode
  /\ FreshHandle(s)
  /\ open' = open \cup {s}
  /\ handed' = handed \cup {s}
  /\ UNCHANGED <<schedVars, assoc, pending, packets, table, call, ctx, revents>>

(* Clients close a socket that no call uses.                               *)
CloseSocket(s) ==
  /\ InClientCode
  /\ s \in handed
  /\ \A r \in Routine : ctx[r].fd # s
  /\ open' = open \ {s}
  /\ assoc' = assoc \ {s}
  /\ handed' = handed \ {s}
  /\ UNCHANGED <<schedVars, pending, packets, table, call, ctx, revents>>

------------------------------------------------------------------------------
(* What the calls have in common.                                          *)

(* co_iomux_add: a socket in the table is taken to be associated; one that *)
(* was associated when the table was full cannot be associated again.      *)
Associate(s) ==
  \/ s \in table /\ UNCHANGED <<table, assoc>>
  \/ /\ s \notin table \cup assoc
     /\ assoc' = assoc \cup {s}
     /\ table' = IF Cardinality(table) < TableSize THEN table \cup {s} ELSE table

AssociateFails(s) == s \notin table /\ s \in assoc \cup FailingSocket

(* Mutants: timed_out of an earlier call is not reset; a timeout of zero   *)
(* starts no timer.                                                        *)
StartTimerKeepsFlag(timed, pushed) ==
  /\ UNCHANGED timedOut
  /\ IF timed
     THEN /\ \E t \in IoTimeouts : /\ clock + t <= MaxTime
                                   /\ wakeup' = [wakeup EXCEPT ![current] = clock + t]
          /\ heap' = IF pushed THEN [heap EXCEPT ![current] = @ + 1] ELSE heap
     ELSE UNCHANGED <<wakeup, heap>>

StartTimerSkipsZero(timed, pushed) ==
  /\ timedOut' = [timedOut EXCEPT ![current] = FALSE]
  /\ IF timed
     THEN \E t \in IoTimeouts :
            /\ clock + t <= MaxTime
            /\ wakeup' = [wakeup EXCEPT ![current] = clock + t]
            /\ heap' = IF pushed /\ t > 0 THEN [heap EXCEPT ![current] = @ + 1] ELSE heap
     ELSE UNCHANGED <<wakeup, heap>>

(* A timed call sets its deadline; `pushed` tells if the timer could be    *)
(* pushed.                                                                 *)
StartTimer(timed, pushed) ==
  /\ timedOut' = [timedOut EXCEPT ![current] = FALSE]
  /\ IF timed
     THEN /\ \E t \in IoTimeouts : /\ clock + t <= MaxTime
                                   /\ wakeup' = [wakeup EXCEPT ![current] = clock + t]
          /\ heap' = IF pushed THEN [heap EXCEPT ![current] = @ + 1] ELSE heap
     ELSE UNCHANGED <<wakeup, heap>>

(* The operation is submitted and the coroutine waits; `client` is the     *)
(* socket created for AcceptEx.                                            *)
Submit(s, op, client, timed) ==
  /\ StartTimer(timed, TRUE)
  /\ ioWaiting' = [ioWaiting EXCEPT ![current] = timed]
  /\ Associate(s)
  /\ open' = (open \cup {client}) \ {NoSocket}
  /\ pending' = [pending EXCEPT ![current] = s]
  /\ call' = [call EXCEPT ![current] = "wait"]
  /\ ctx' = [ctx EXCEPT ![current] = [fd |-> s, op |-> op, client |-> client, timed |-> timed]]
  /\ state' = [state EXCEPT ![current] = "WAITING"]
  /\ waitingIo' = waitingIo + 1
  /\ SwapToMain
  /\ UNCHANGED <<queue, condQ, active, now, clock, packets, revents, handed>>

(* The call returns before it has suspended, having released what it had   *)
(* allocated, with the timer in the heap if one was pushed; `flag` is what *)
(* io_waiting is left at.                                                  *)
GiveUp(timed, pushed, flag) ==
  /\ StartTimer(timed, pushed)
  /\ ioWaiting' = [ioWaiting EXCEPT ![current] = flag]
  /\ UNCHANGED <<state, queue, condQ, waitingIo, active, current, pc, now, clock, open, pending,
                 packets, call, ctx, revents, handed>>

(* No memory for the timer; the socket cannot be associated; the operation *)
(* is refused at once (io_waiting is then left at `flag`).                 *)
FailsAtOnce(s, timed, flag) ==
  \/ /\ PushMayFail /\ timed
     /\ GiveUp(timed, FALSE, FALSE)
     /\ UNCHANGED <<table, assoc>>
  \/ /\ AssociateFails(s)
     /\ GiveUp(timed, TRUE, FALSE)
     /\ UNCHANGED <<table, assoc>>
  \/ /\ s \in FailingSocket
     /\ Associate(s)
     /\ GiveUp(timed, TRUE, flag)

(* The call returns; `given` goes to the client, a socket that was created *)
(* and is not given is closed.                                             *)
Return(given) ==
  /\ call' = [call EXCEPT ![current] = "none"]
  /\ ctx' = [ctx EXCEPT ![current] = NoCtx]
  /\ revents' = [revents EXCEPT ![current] = "none"]
  /\ handed' = handed \cup given
  /\ open' = open \ ({ctx[current].client} \ given)
  /\ UNCHANGED <<state, queue, wakeup, condQ, timedOut, waitingIo, active, current, pc, now, clock,
                 assoc, pending, packets, table>>

(* Mutants of Drain: the call returns at once; the second wait is not      *)
(* counted.                                                                *)
DrainNot == Return({}) /\ UNCHANGED <<heap, ioWaiting>>
DrainUncounted ==
  /\ state' = [state EXCEPT ![current] = "WAITING"]
  /\ call' = [call EXCEPT ![current] = "drain"]
  /\ SwapToMain
  /\ UNCHANGED <<queue, heap, fieldVars, active, now, clock, kernelVars, table, ctx, revents,
                 handed>>

(* The call timed out: CancelIoEx, and the second wait.                    *)
Drain ==
  /\ state' = [state EXCEPT ![current] = "WAITING"]
  /\ waitingIo' = waitingIo + 1
  /\ call' = [call EXCEPT ![current] = "drain"]
  /\ SwapToMain
  /\ UNCHANGED <<queue, heap, wakeup, condQ, timedOut, ioWaiting, active, now, clock, kernelVars,
                 table, ctx, revents, handed>>

CancelTimer ==
  IF ctx[current].timed
  THEN /\ ioWaiting' = [ioWaiting EXCEPT ![current] = FALSE]
       /\ heap' = IF heap[current] = 0 THEN heap ELSE [heap EXCEPT ![current] = @ - 1]
  ELSE UNCHANGED <<ioWaiting, heap>>

(* Where a suspended call of kind op continues.                            *)
Resumed(op, phase) == pc = "coroutine" /\ call[current] = phase /\ ctx[current].op = op
TimedOut(op) == Resumed(op, "wait") /\ timedOut[current]
Failed(op) == Resumed(op, "wait") /\ ~timedOut[current] /\ revents[current] = "error"
Succeeded(op) == Resumed(op, "wait") /\ ~timedOut[current] /\ revents[current] # "error"
Drained(op) == Resumed(op, "drain")

------------------------------------------------------------------------------
(* co_read and co_write (co_wait_io_async).  When WSARecv or WSASend fails *)
(* at once io_waiting is left set.                                         *)
Transfer(s) ==
  /\ InCoroutineCode /\ s \in handed
  /\ \E timed \in BOOLEAN :
       /\ timed => s \in TimedSocket
       /\ Submit(s, "transfer", NoSocket, timed) \/ FailsAtOnce(s, timed, timed)

TransferResume ==
  \/ TimedOut("transfer") /\ Drain
  \/ (Drained("transfer") \/ Failed("transfer")) /\ Return({}) /\ UNCHANGED <<heap, ioWaiting>>
  \/ Succeeded("transfer") /\ CancelTimer /\ Return({})

(* co_accept, which creates the socket of the connection beforehand.  If   *)
(* it cannot, or has no memory for wait_ctx, nothing happens.              *)
Accept(s) ==
  /\ InCoroutineCode /\ s \in handed
  /\ \E timed \in BOOLEAN, client \in Socket :
       /\ timed => s \in TimedSocket
       /\ FreshHandle(client)
       /\ Submit(s, "accept", client, timed) \/ FailsAtOnce(s, timed, FALSE)

(* Mutant: a call that timed out keeps the socket it had created.          *)
AcceptResumeKeepsSocket ==
  \/ TimedOut("accept") /\ Drain
  \/ /\ Drained("accept")
     /\ call' = [call EXCEPT ![current] = "none"]
     /\ ctx' = [ctx EXCEPT ![current] = NoCtx]
     /\ revents' = [revents EXCEPT ![current] = "none"]
     /\ UNCHANGED <<schedVars, open, assoc, pending, packets, table, handed>>
  \/ Failed("accept") /\ Return({}) /\ UNCHANGED <<heap, ioWaiting>>
  \/ /\ Succeeded("accept") /\ CancelTimer
     /\ Return({ctx[current].client}) \/ Return({})

(* The connection is given to the client, unless setsockopt fails.         *)
AcceptResume ==
  \/ TimedOut("accept") /\ Drain
  \/ (Drained("accept") \/ Failed("accept")) /\ Return({}) /\ UNCHANGED <<heap, ioWaiting>>
  \/ /\ Succeeded("accept") /\ CancelTimer
     /\ Return({ctx[current].client}) \/ Return({})

(* co_connect; without memory, or if bind fails, nothing happens.          *)
Connect(s) ==
  /\ InCoroutineCode /\ s \in handed
  /\ \E timed \in BOOLEAN :
       /\ timed => s \in TimedSocket
       /\ Submit(s, "connect", NoSocket, timed) \/ FailsAtOnce(s, timed, FALSE)

ConnectResume ==
  \/ TimedOut("connect") /\ Drain
  \/ (Drained("connect") \/ Failed("connect")) /\ Return({}) /\ UNCHANGED <<heap, ioWaiting>>
  \/ Succeeded("connect") /\ CancelTimer /\ Return({})

------------------------------------------------------------------------------
(* The packets of a batch are handled in their order: each sets revents of *)
(* its wait_ctx and wakes the coroutine if it is still WAITING.  At(r) are *)
(* the places of those for r.                                              *)
Deliver(batch) ==
  LET At(r) == {i \in DOMAIN batch : batch[i].routine = r}
      woken == {r \in Routine : At(r) # {} /\ state[r] = "WAITING"} IN
    /\ revents' = [r \in Routine |->
                     IF At(r) = {} THEN revents[r] ELSE batch[Max(At(r))].status]
    /\ state' = [r \in Routine |-> IF r \in woken THEN "READY" ELSE state[r]]
    /\ ioWaiting' = [r \in Routine |-> IF r \in woken THEN FALSE ELSE ioWaiting[r]]
    /\ waitingIo' = waitingIo - Cardinality(woken)
    /\ \E order \in Bijection(1..Cardinality(woken), woken) :
         /\ \A i, j \in DOMAIN order : i < j => Min(At(order[i])) < Min(At(order[j]))
         /\ queue' = [queue EXCEPT ![Ready] = @ \o order]

(* The kernel gives packets if it has some, at most MaxEvents.             *)
BatchSizes == {n \in 1..MaxEvents : n <= Len(packets)}

(* Mutant: the last packet of the batch is taken and not looked at.        *)
PollPacketsOneShort ==
  /\ pc = "poll"
  /\ \E n \in BatchSizes : /\ Deliver(SubSeq(packets, 1, n - 1))
                           /\ packets' = SubSeq(packets, n + 1, Len(packets))
  /\ pc' = "recheck"
  /\ UNCHANGED <<heap, wakeup, condQ, timedOut, active, current, now, clock,
                 open, assoc, pending, table, call, ctx, handed>>

(* co_iomux_poll with packets in the port.                                 *)
PollPackets ==
  /\ pc = "poll"
  /\ \E n \in BatchSizes : /\ Deliver(SubSeq(packets, 1, n))
                           /\ packets' = SubSeq(packets, n + 1, Len(packets))
  /\ pc' = "recheck"
  /\ UNCHANGED <<heap, wakeup, condQ, timedOut, active, current, now, clock,
                 open, assoc, pending, table, call, ctx, handed>>

(* The other steps of co_scheduler_run.  GetQueuedCompletionStatusEx is    *)
(* not interrupted, and times out only if the port is empty.               *)
LoopStep == SchedulerStep /\ (pc = "poll" => packets = <<>>)

------------------------------------------------------------------------------
ClientSpawn(r) == InClientCode /\ Spawn(r)
ClientSuspend == InCoroutineCode /\ (Yield \/ (\E d \in SleepTimes : Sleep(d)) \/ Finish)

Resume == TransferResume \/ AcceptResume \/ ConnectResume

SocketStep ==
  \/ \E s \in Socket : OpenSocket(s) \/ CloseSocket(s) \/ Transfer(s) \/ Accept(s) \/ Connect(s)
  \/ Resume

SchedStep ==
  /\ \/ LoopStep
     \/ ScheduleError
     \/ RunStart
     \/ Destroy
     \/ Tick
     \/ \E r \in Routine : ClientSpawn(r)
     \/ ClientSuspend
     \/ Gone
  /\ UNCHANGED iocpVars

Next ==
  \/ SocketStep
  \/ PollPackets
  \/ pc # "destroyed" /\ \E r \in Routine : Complete(r)
  \/ SchedStep
Spec == IocpInit /\ [][Next]_vars

(* The loop goes on, time passes, coroutines suspend, and the kernel ends  *)
(* an operation that has been cancelled.  Of other operations nothing is   *)
(* assumed.                                                                *)
Fairness ==
  /\ WF_vars(LoopStep /\ UNCHANGED iocpVars)
  /\ WF_vars(PollPackets)
  /\ WF_vars(Tick /\ UNCHANGED iocpVars)
  /\ WF_vars(Resume)
  /\ WF_vars(ClientSuspend /\ UNCHANGED iocpVars)
  /\ \A r \in Routine : WF_vars(call[r] = "drain" /\ Complete(r))

FairSpec == Spec /\ Fairness

------------------------------------------------------------------------------
(* Properties.                                                             *)

InPort(r) == \E p \in Range(packets) : p.routine = r
InFlight(r) == pending[r] # NoSocket \/ InPort(r)
InWait(r) == state[r] = "WAITING" /\ call[r] # "none"

(* "guaranteeing that the stack-local wait_ctx (which contains the         *)
(* embedded OVERLAPPED) is not destroyed before IOCP is done with it": the *)
(* kernel has no operation, and the port no packet, of a call that has     *)
(* returned.                                                               *)
OverlappedAlive ==
  pc # "destroyed" => \A r \in Routine : InFlight(r) => call[r] # "none"

(* "its completion packet is still in the IOCP queue, not yet consumed by  *)
(* iomux_poll (the single-threaded model guarantees this)": whenever       *)
(* packets are taken from the port each finds its coroutine waiting, so    *)
(* that none is dropped; and a suspended call that has not been woken has  *)
(* an operation in flight, on a socket whose packets come to this port.    *)
EveryPacketWakes ==
  pc # "destroyed" =>
    \A r \in Routine :
      /\ pc = "poll" /\ InPort(r) => InWait(r)
      /\ InWait(r) => InPort(r) \/ pending[r] \in assoc

(* When a call runs again there is one reason for it: its time is over and *)
(* no packet has been delivered, or its packet has been, which then is the *)
(* only one.  After the second wait it is always the packet.               *)
ResumedForAReason ==
  pc = "coroutine" /\ call[current] # "none" =>
    LET delivered == revents[current] # "none" IN
      /\ delivered = ~InFlight(current)
      /\ delivered = (call[current] = "drain" \/ ~timedOut[current])

(* waiting_io_count, which decides if the scheduler polls at all, is the   *)
(* number of coroutines that wait in a socket call, also while calls that  *)
(* timed out wait a second time.                                           *)
WaitingIoIsCount ==
  pc # "destroyed" => waitingIo = Cardinality({r \in Routine : InWait(r)})

(* Every socket co_accept creates is closed by it or given to its caller,  *)
(* once, on each of its ways out.                                          *)
SocketsAccounted ==
  pc # "destroyed" =>
    LET created == {ctx[r].client : r \in Routine} \ {NoSocket} IN
      /\ open = handed \cup created
      /\ handed \cap created = {}

(* co_scheduler.c where the loop ends: "No coroutine is running or waiting *)
(* anymore".  Every operation in flight is waited for.                     *)
RunKeepsIoWaiters ==
  [][pc = "recheck" /\ pc' = "idle" => waitingIo = 0 /\ packets = <<>>]_vars

(* What they rest on.  Whatever fails, each socket that co_accept has      *)
(* created belongs to one call.                                            *)
Operation == {"transfer", "accept", "connect"}
Ctx == [fd : Socket, op : Operation, client : Socket \cup {NoSocket}, timed : BOOLEAN]
Packet == [routine : Routine, status : {"ready", "error"}]

IocpTypeOK ==
  /\ open \subseteq Socket /\ assoc \subseteq Socket
  /\ table \subseteq Socket /\ handed \subseteq Socket
  /\ pending \in [Routine -> Socket \cup {NoSocket}]
  /\ packets \in Seq(Packet)
  /\ call \in [Routine -> {"none", "wait", "drain"}]
  /\ ctx \in [Routine -> Ctx \cup {NoCtx}]

(* What r's call has to do with sockets.                                   *)
ClientInv(r) ==
  /\ call[r] = "none" => ctx[r] = NoCtx
  /\ call[r] # "none" => ctx[r] \in Ctx
  /\ ctx[r].op = "accept" => ctx[r].client # NoSocket
  /\ ctx[r].client # NoSocket =>
       /\ ctx[r].client \in open \ handed
       /\ \A s \in Routine : ctx[s].client = ctx[r].client => s = r

SocketInv ==
  /\ ControlOK /\ IocpTypeOK
  /\ handed \subseteq open
  /\ \A s \in open : s \in handed \/ \E r \in Routine : ctx[r].client = s
  /\ \A r \in Routine : ClientInv(r)

(* What the multiplexer relies on: a socket with a timeout has no failing  *)
(* operations (a call that fails leaves its timer behind), no handle value *)
(* is given again, and associated_sockets has room for all of them.        *)
OrderlyUse ==
  /\ TimedSocket \cap FailingSocket = {}
  /\ ~ReuseHandles
  /\ IsFiniteSet(Socket) /\ Cardinality(Socket) <= TableSize

(* Then the table knows which sockets are associated, ...                  *)
TableInv ==
  /\ assoc \subseteq table
  /\ table \cap open \subseteq assoc

(* ... a call has one operation in flight until its packet is delivered,   *)
(* ...                                                                     *)
FlightInv(r) ==
  /\ call[r] = "none" => ~InFlight(r)
  /\ call[r] # "none" => ctx[r].fd \in handed /\ (ctx[r].timed => ctx[r].fd \in TimedSocket)
  /\ pending[r] # NoSocket => pending[r] = ctx[r].fd /\ pending[r] \in assoc /\ ~InPort(r)
  /\ \A i, j \in DOMAIN packets :
       packets[i].routine = r /\ packets[j].routine = r => i = j
  /\ \A i \in DOMAIN packets :
       packets[i].routine = r /\ packets[i].status = "error" /\ call[r] = "wait"
         => ctx[r].fd \in FailingSocket
  /\ revents[r] = "error" /\ call[r] = "wait" => ctx[r].fd \in FailingSocket

(* ... and a timer until its time is over or it returns.                   *)
TimerWaitInv(r) ==
  /\ call[r] # "none" => state[r] \notin {"FREE", "DEAD"}
  /\ call[r] = "none" => revents[r] = "none"
  /\ InWait(r) => /\ revents[r] = "none" /\ InFlight(r)
                  /\ timedOut[r] = (call[r] = "drain")
                  /\ ioWaiting[r] = (call[r] = "wait" /\ ctx[r].timed)
  /\ ioWaiting[r] => InWait(r)
  /\ heap[r] > 0 => \/ call[r] = "none" /\ state[r] = "WAITING"
                    \/ call[r] = "wait" /\ ctx[r].timed /\ ~timedOut[r]
  /\ call[r] # "none" /\ (state[r] = "READY" \/ (pc = "coroutine" /\ r = current)) =>
       /\ (revents[r] # "none") = ~InFlight(r)
       /\ (revents[r] # "none") = (call[r] = "drain" \/ ~timedOut[r])

(* If every switch succeeds, no coroutine is stuck in state RUNNING, and   *)
(* behind a poll that has woken nobody nobody waits.                       *)
SwitchInv ==
  /\ \A r \in Routine : state[r] = "RUNNING" => pc = "coroutine" /\ r = current
  /\ pc = "recheck" /\ queue[Ready] = <<>> /\ HeapEmpty => waitingIo = 0

IocpInv ==
  /\ SchedInv /\ SocketInv
  /\ \A q \in WaitQueue : queue[q] = <<>>
  /\ pc = "poll" => queue[Ready] = <<>>
  /\ revents \in [Routine -> {"none", "ready", "error"}]
  /\ TableInv
  /\ pc # "destroyed" => \A r \in Routine : FlightInv(r) /\ TimerWaitInv(r)
  /\ WaitingIoIsCount
  /\ ~SwapMayFail => SwitchInv

(* A call with a timeout returns if the scheduler comes to polling again   *)
(* and again: unlike with epoll its second wait needs a poll.              *)
TimedReturn == \A r \in Routine : (call[r] # "none" /\ ctx[r].timed) ~> (call[r] = "none")
TimedCallReturns == []<>(pc = "poll") => TimedReturn
==============================================================================
