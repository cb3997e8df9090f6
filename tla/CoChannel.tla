------------------------------ MODULE CoChannel ------------------------------
(***************************************************************************)
(* A channel (sync/co_channel.c) on top of the scheduler: a ring buffer of *)
(* `capacity` slots, none for a rendezvous channel, and two wait queues.   *)
(*                                                                         *)
(* A message is a number, new for every send call.  chan_data of a         *)
(* suspended coroutine points to the variable its caller passed: `cell` is *)
(* the contents of that variable, the message of a sender and NoMessage or *)
(* what has been copied there for a receiver.                              *)
(*                                                                         *)
(* Client code is the main program, outside co_scheduler_run, and any      *)
(* number of coroutines; all of them may call everything.  Timers and      *)
(* failed context switches, which no channel call depends on, are left to  *)
(* CoSync.                                                                 *)
(***************************************************************************)
EXTENDS CoScheduler

CONSTANTS SendQ,        \* &ch->send_queue
          RecvQ,        \* &ch->recv_queue
          Capacities,   \* the capacities passed to co_channel_create
          MaxMessages   \* bound on the number of send calls

ASSUME ChannelAssumption ==
  /\ SendQ \in WaitQueue /\ RecvQ \in WaitQueue /\ SendQ # RecvQ
  /\ Capacities \subseteq Nat /\ MaxMessages \in Nat

VARIABLES
  capacity,    \* ch->capacity
  slot,        \* ch->buffer
  head,        \* ch->head
  tail,        \* ch->tail
  count,       \* ch->count
  closed,      \* ch->closed
  cell,        \* *routine->chan_data
  call,        \* the call each coroutine is suspended in
  sends,       \* how many messages have been made
  delivered    \* history: the messages copied to receivers, in order

ringVars == <<slot, head, tail, count>>
chanVars == <<capacity, ringVars, closed, cell, call, sends, delivered>>
vars == <<schedVars, chanVars>>

NoMessage == 0
Message == 1..MaxMessages

InClientCode ==
  \/ pc = "idle"
  \/ pc = "coroutine" /\ call[current] = "none"

ChannelInit ==
  /\ SchedInit
  /\ capacity \in Capacities
  /\ slot = [i \in 0..(capacity - 1) |-> NoMessage]
  /\ head = 0 /\ tail = 0 /\ count = 0
  /\ closed = FALSE
  /\ cell = [r \in Routine |-> NoMessage]
  /\ call = [r \in Routine |-> "none"]
  /\ sends = 0
  /\ delivered = <<>>

(* Pop the first routine of the wait queue q and wake it: the lists.       *)
WakeFirst(q) == Enqueue([queue EXCEPT ![q] = Tail(@)], Head(queue[q]))

------------------------------------------------------------------------------
(* co_channel_send and co_channel_trysend: the message v ...               *)

(* ... goes straight to a waiting receiver, ...                            *)
HandToReceiver(v) ==
  /\ queue[RecvQ] # <<>>
  /\ cell' = [cell EXCEPT ![Head(queue[RecvQ])] = v]
  /\ state' = [state EXCEPT ![Head(queue[RecvQ])] = "READY"]
  /\ queue' = WakeFirst(RecvQ)
  /\ delivered' = Append(delivered, v)
  /\ UNCHANGED ringVars

(* Mutant: receivers that wait are overlooked.                             *)
PutInBufferFirst(v) ==
  /\ count < capacity
  /\ slot' = [slot EXCEPT ![tail] = v]
  /\ tail' = (tail + 1) % capacity
  /\ count' = count + 1
  /\ UNCHANGED <<state, queue, cell, delivered, head>>

(* ... or into the buffer.                                                 *)
PutInBuffer(v) ==
  /\ queue[RecvQ] = <<>>
  /\ count < capacity
  /\ slot' = [slot EXCEPT ![tail] = v]
  /\ tail' = (tail + 1) % capacity
  /\ count' = count + 1
  /\ UNCHANGED <<state, queue, cell, delivered, head>>

TrySend ==
  /\ InClientCode
  /\ sends < MaxMessages
  /\ ~closed
  /\ HandToReceiver(sends + 1) \/ PutInBuffer(sends + 1)
  /\ sends' = sends + 1
  /\ UNCHANGED <<heap, fieldVars, active, current, pc, now, clock, capacity, closed, call>>

(* Otherwise co_channel_send, in a coroutine, waits in the send queue.     *)
SendBlocks ==
  /\ pc = "coroutine" /\ call[current] = "none"
  /\ sends < MaxMessages
  /\ ~closed
  /\ queue[RecvQ] = <<>>
  /\ count >= capacity
  /\ cell' = [cell EXCEPT ![current] = sends + 1]
  /\ state' = [state EXCEPT ![current] = "WAITING"]
  /\ queue' = [queue EXCEPT ![SendQ] = Append(@, current)]
  /\ call' = [call EXCEPT ![current] = "send"]
  /\ sends' = sends + 1
  /\ SwapToMain
  /\ UNCHANGED <<heap, fieldVars, active, now, clock, capacity, ringVars, closed, delivered>>

------------------------------------------------------------------------------
(* co_channel_recv and co_channel_tryrecv.                                 *)

(* Mutant: a waiting sender is woken and its message is not copied to the  *)
(* buffer.                                                                 *)
TakeFromBufferDropsSender ==
  /\ count > 0
  /\ delivered' = Append(delivered, slot[head])
  /\ head' = (head + 1) % capacity
  /\ count' = count - 1
  /\ \/ queue[SendQ] = <<>> /\ UNCHANGED <<state, queue>>
     \/ /\ queue[SendQ] # <<>>
        /\ state' = [state EXCEPT ![Head(queue[SendQ])] = "READY"]
        /\ queue' = WakeFirst(SendQ)
  /\ UNCHANGED <<slot, tail>>

(* A message from the buffer; the place it leaves is filled with the       *)
(* message of the first waiting sender.                                    *)
TakeFromBuffer ==
  /\ count > 0
  /\ delivered' = Append(delivered, slot[head])
  /\ head' = (head + 1) % capacity
  /\ \/ /\ queue[SendQ] = <<>>
        /\ count' = count - 1
        /\ UNCHANGED <<state, queue, slot, tail>>
     \/ /\ queue[SendQ] # <<>>
        /\ slot' = [slot EXCEPT ![tail] = cell[Head(queue[SendQ])]]
        /\ tail' = (tail + 1) % capacity
        /\ state' = [state EXCEPT ![Head(queue[SendQ])] = "READY"]
        /\ queue' = WakeFirst(SendQ)
        /\ UNCHANGED count

(* Mutant: a waiting sender is served before the buffer.                   *)
TakeFromSenderFirst ==
  /\ queue[SendQ] # <<>>
  /\ delivered' = Append(delivered, cell[Head(queue[SendQ])])
  /\ state' = [state EXCEPT ![Head(queue[SendQ])] = "READY"]
  /\ queue' = WakeFirst(SendQ)
  /\ UNCHANGED ringVars

(* The buffer is empty (or there is none): the message of a waiting        *)
(* sender.                                                                 *)
TakeFromSender ==
  /\ count = 0
  /\ queue[SendQ] # <<>>
  /\ delivered' = Append(delivered, cell[Head(queue[SendQ])])
  /\ state' = [state EXCEPT ![Head(queue[SendQ])] = "READY"]
  /\ queue' = WakeFirst(SendQ)
  /\ UNCHANGED ringVars

TryRecv ==
  /\ InClientCode
  /\ TakeFromBuffer \/ TakeFromSender
  /\ UNCHANGED <<heap, fieldVars, active, current, pc, now, clock, capacity, closed, cell, call,
                 sends>>

(* Otherwise co_channel_recv, in a coroutine and before the channel is     *)
(* closed, waits in the receive queue.                                     *)
RecvBlocks ==
  /\ pc = "coroutine" /\ call[current] = "none"
  /\ count = 0
  /\ queue[SendQ] = <<>>
  /\ ~closed
  /\ cell' = [cell EXCEPT ![current] = NoMessage]
  /\ state' = [state EXCEPT ![current] = "WAITING"]
  /\ queue' = [queue EXCEPT ![RecvQ] = Append(@, current)]
  /\ call' = [call EXCEPT ![current] = "recv"]
  /\ SwapToMain
  /\ UNCHANGED <<heap, fieldVars, active, now, clock, capacity, ringVars, closed, sends,
                 delivered>>

------------------------------------------------------------------------------
(* Either call is resumed and returns: CO_ERROR_CLOSED if the channel is   *)
(* closed by then, CO_OK if not.                                           *)
Return ==
  /\ pc = "coroutine" /\ call[current] # "none"
  /\ call' = [call EXCEPT ![current] = "none"]
  /\ cell' = [cell EXCEPT ![current] = NoMessage]
  /\ UNCHANGED <<schedVars, capacity, ringVars, closed, sends, delivered>>

(* Mutant: senders are not woken.                                          *)
CloseForgetsSenders ==
  /\ InClientCode
  /\ ~closed
  /\ closed' = TRUE
  /\ state' = [r \in Routine |-> IF r \in Range(queue[RecvQ]) THEN "READY" ELSE state[r]]
  /\ queue' = [queue EXCEPT ![Ready] = @ \o queue[RecvQ], ![RecvQ] = <<>>]
  /\ UNCHANGED <<heap, fieldVars, active, current, pc, now, clock,
                 capacity, ringVars, cell, call, sends, delivered>>

(* co_channel_close wakes the receivers, then the senders.                 *)
Close ==
  /\ InClientCode
  /\ ~closed
  /\ closed' = TRUE
  /\ state' = [r \in Routine |->
                 IF r \in Range(queue[RecvQ]) \cup Range(queue[SendQ]) THEN "READY" ELSE state[r]]
  /\ queue' = [queue EXCEPT ![Ready] = @ \o queue[RecvQ] \o queue[SendQ],
                            ![RecvQ] = <<>>,
                            ![SendQ] = <<>>]
  /\ UNCHANGED <<heap, fieldVars, active, current, pc, now, clock,
                 capacity, ringVars, cell, call, sends, delivered>>

------------------------------------------------------------------------------
ClientSpawn(r) == InClientCode /\ Spawn(r)
ClientSuspend == InClientCode /\ (Yield \/ Finish)

ChannelCall == TrySend \/ SendBlocks \/ TryRecv \/ RecvBlocks \/ Close

SchedStep ==
  /\ \/ SchedulerStep
     \/ RunStart
     \/ Destroy
     \/ \E r \in Routine : ClientSpawn(r)
     \/ ClientSuspend
     \/ Gone
  /\ UNCHANGED chanVars

Next == ChannelCall \/ Return \/ SchedStep
Spec == ChannelInit /\ [][Next]_vars

(* The scheduler's fairness; a coroutine that runs comes to a call that    *)
(* suspends it, or its call returns.                                       *)
Fairness ==
  /\ WF_vars(SchedulerStep /\ UNCHANGED chanVars)
  /\ WF_vars(Return)
  /\ WF_vars((ClientSuspend /\ UNCHANGED chanVars) \/ SendBlocks \/ RecvBlocks)

FairSpec == Spec /\ Fairness

------------------------------------------------------------------------------
(* Properties.                                                             *)

(* What the ring buffer holds, and behind it what the waiting senders have.*)
Buffered == [i \in 1..count |-> slot[(head + i - 1) % capacity]]
Offered == [i \in 1..Len(queue[SendQ]) |-> cell[queue[SendQ][i]]]

(* The channel is a FIFO: messages are delivered once, in the order of the *)
(* send calls whether they went through the buffer, a waiting sender or    *)
(* straight to a receiver, and closing drops only what waiting senders     *)
(* still offer.                                                            *)
Fifo == INSTANCE ChannelFifo WITH items <- Buffered \o Offered
ImplementsFifo == Fifo!FifoSpec

(* Nobody waits in vain: a receiver waits only while there is nothing to   *)
(* receive, a sender only while the buffer is full, and neither on a       *)
(* closed channel.                                                         *)
NobodyWaitsInVain ==
  /\ queue[RecvQ] # <<>> => count = 0 /\ queue[SendQ] = <<>>
  /\ queue[SendQ] # <<>> => count = capacity
  /\ closed => queue[RecvQ] = <<>> /\ queue[SendQ] = <<>>

(* A suspended call that returns CO_OK did what it says: the receiver has  *)
(* a message, the message of the sender is in the buffer or delivered.     *)
Accepted == Range(delivered) \cup Range(Buffered)
OkMeansDone ==
  pc = "coroutine" /\ ~closed =>
    /\ call[current] = "recv" => cell[current] # NoMessage
    /\ call[current] = "send" => cell[current] \in Accepted

(* What both rest on, with SchedInv the inductive invariant of a channel:  *)
(* the ring buffer is one, ...                                             *)
RingInv ==
  /\ capacity \in Nat /\ count \in 0..capacity
  /\ slot \in [0..(capacity - 1) -> Nat]
  /\ head \in Nat /\ tail \in Nat
  /\ capacity > 0 => head < capacity /\ tail = (head + count) % capacity

(* ... a routine in a queue of the channel is in the call that put it      *)
(* there, and one that has left its queue has been served, or the channel  *)
(* is closed.                                                              *)
CallInv(r) ==
  /\ r \in Range(queue[RecvQ]) => call[r] = "recv"
  /\ r \in Range(queue[SendQ]) => call[r] = "send"
  /\ ~closed /\ call[r] = "recv" /\ r \notin Range(queue[RecvQ]) => cell[r] # NoMessage
  /\ ~closed /\ call[r] = "send" /\ r \notin Range(queue[SendQ]) => cell[r] \in Accepted

NoTimers == \A r \in Routine : heap[r] = 0 /\ condQ[r] = NoQueue

ChanTypeOK ==
  /\ closed \in BOOLEAN
  /\ cell \in [Routine -> Nat]
  /\ call \in [Routine -> {"none", "send", "recv"}]
  /\ sends \in Nat
  /\ delivered \in Seq(Nat)

ChanInv ==
  /\ SchedInv
  /\ NoTimers
  /\ ChanTypeOK
  /\ RingInv
  /\ NobodyWaitsInVain
  /\ \A r \in Routine : CallInv(r)

(* A call suspended in a channel that is closed returns, while the         *)
(* scheduler runs.                                                         *)
CloseReleases ==
  \A r \in Routine :
    (pc \notin {"idle", "destroyed"} /\ closed /\ call[r] # "none") ~> (call[r] = "none")

(* co_sync.h: co_channel_recv returns "CO_ERROR_CLOSED if the channel is   *)
(* closed and no data remains": not with a message in the caller's buffer. *)
ClosedRecvHasNoData ==
  pc = "coroutine" /\ call[current] = "recv" /\ closed => cell[current] = NoMessage
==============================================================================
