----------------------------- MODULE ChannelFifo -----------------------------
(***************************************************************************)
(* What a channel promises: a closable FIFO.  `items` are the messages     *)
(* that senders have handed in and no receiver has got, `delivered` those  *)
(* that have been copied to a receiver, in order.                          *)
(***************************************************************************)
EXTENDS Naturals, Sequences

CONSTANT Message       \* what is sent

VARIABLES items, delivered, closed,
          capacity      \* how many items survive the closing of the channel

fifoVars == <<items, delivered, closed, capacity>>

FifoInit == items = <<>> /\ delivered = <<>> /\ closed = FALSE /\ capacity \in Nat

Put(v) ==
  /\ ~closed
  /\ items' = Append(items, v)
  /\ UNCHANGED <<delivered, closed, capacity>>

Take ==
  /\ items # <<>>
  /\ delivered' = Append(delivered, Head(items))
  /\ items' = Tail(items)
  /\ UNCHANGED <<closed, capacity>>

(* From a sender straight to a receiver, overtaking nobody.                *)
Pass(v) ==
  /\ ~closed
  /\ items = <<>>
  /\ delivered' = Append(delivered, v)
  /\ UNCHANGED <<items, closed, capacity>>

(* Messages of senders that still wait are withdrawn; those in the buffer  *)
(* remain to be received.                                                  *)
CloseFifo ==
  /\ ~closed
  /\ closed' = TRUE
  /\ items' = IF Len(items) <= capacity THEN items ELSE SubSeq(items, 1, capacity)
  /\ UNCHANGED <<delivered, capacity>>

FifoNext == Take \/ CloseFifo \/ \E v \in Message : Put(v) \/ Pass(v)

FifoSpec == FifoInit /\ [][FifoNext]_fifoVars
==============================================================================
