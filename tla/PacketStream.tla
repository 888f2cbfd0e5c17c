---------------------------- MODULE PacketStream ----------------------------
(***************************************************************************)
(* The sending half of the agent: the bounded mpsc channel that carries    *)
(* scored packets, the task run_packet_stream (src/grpc_client.rs) that    *)
(* turns them into numbered batches, the bounded batch channel behind the  *)
(* IngestPackets request stream, and the transport that drains it.         *)
(*                                                                         *)
(* The task is single-threaded and suspends only at its awaits, so one     *)
(* action is what it does between two awaits:                              *)
(*   "open"  awaits the response to ingest_packets                         *)
(*   "loop"  awaits in select! (cancellation, a packet, the flush timer)   *)
(*   "send"  awaits batch_tx.send inside flush, outside select!            *)
(*   "done"  has returned: capture_rx and batch_tx are dropped             *)
(* A packet is the number the source gave it; whether its frame had a      *)
(* transport header is all that parse_packet asks of it.                   *)
(***************************************************************************)
EXTENDS Integers, Sequences

CONSTANTS ChanCap,      \* capacity of the packet channel (channel_capacity)
          BatchSize,    \* cfg.batch_size
          BatchCap,     \* capacity of the batch channel (64 in the code)
          NoTransport   \* packets whose RawPacket.transport is None

ASSUME StreamAssumption ==
    /\ ChanCap \in Nat \ {0}    \* mpsc::channel panics on 0
    /\ BatchCap \in Nat \ {0}
    /\ BatchSize \in Nat        \* 0 is accepted: every packet is a batch
    /\ NoTransport \subseteq Nat

VARIABLES chan,         \* packets in the mpsc channel
          cancelled,    \* the CancellationToken
          stream,       \* where run_packet_stream is suspended
          pending,      \* its local `pending`
          sending,      \* the batch flush is waiting to send, if any
          exiting,      \* the flush in progress is followed by `break`
          seq,          \* its local `seq`
          captured,     \* AgentCounters.captured
          batchChan,    \* batches in the batch channel
          net,          \* the request stream: "idle", "up" or "down"
          delivered,    \* history: batches the transport has taken, in order
          lostRx,       \* history: packets discarded with the packet channel
          unparsed,     \* history: packets parse_packet returned None for
          lostNet       \* history: events in batches that were never taken

streamVars == <<chan, stream, pending, sending, exiting, seq, captured,
                batchChan, net, delivered, lostRx, unparsed, lostNet>>

Batch == [seq : Nat, events : Seq(Nat)]
NoBatch == [seq |-> -1, events |-> <<>>]

StreamInit ==
    /\ chan = <<>>
    /\ cancelled = FALSE
    /\ stream = "open"
    /\ pending = <<>>
    /\ sending = NoBatch
    /\ exiting = FALSE
    /\ seq = 0
    /\ captured = 0
    /\ batchChan = <<>>
    /\ net = "idle"
    /\ delivered = <<>>
    /\ lostRx = 0
    /\ unparsed = 0
    /\ lostNet = 0

\* How many events a sequence of batches holds.
CountEvents(batches) ==
    LET upto[n \in 0 .. Len(batches)] ==
            IF n = 0 THEN 0 ELSE upto[n - 1] + Len(batches[n].events)
    IN  upto[Len(batches)]

\* All of them, one batch after the other.
AllEvents(batches) ==
    LET upto[n \in 0 .. Len(batches)] ==
            IF n = 0 THEN <<>> ELSE upto[n - 1] \o batches[n].events
    IN  upto[Len(batches)]

-----------------------------------------------------------------------------
\* The packet channel, as its senders use it.
ChanClosed == stream = "done"

\* Mutant of ChanHasRoom: an off-by-one.
ChanHasRoomForOneMore == Len(chan) <= ChanCap

ChanHasRoom == Len(chan) < ChanCap

ChanSend(p) ==
    /\ ~ChanClosed
    /\ ChanHasRoom
    /\ chan' = Append(chan, p)
    /\ UNCHANGED <<cancelled, stream, pending, sending, exiting, seq, captured,
                   batchChan, net, delivered, lostRx, unparsed, lostNet>>

-----------------------------------------------------------------------------
\* client.ingest_packets(..).await: the response, or an error, upon which the
\* task returns and the receiver, with all it holds, is dropped.
OpenOk ==
    /\ stream = "open"
    /\ stream' = "loop"
    /\ net' = "up"
    /\ UNCHANGED <<chan, cancelled, pending, sending, exiting, seq, captured,
                   batchChan, delivered, lostRx, unparsed, lostNet>>

OpenErr ==
    /\ stream = "open"
    /\ stream' = "done"
    /\ net' = "down"
    /\ chan' = <<>>
    /\ lostRx' = lostRx + Len(chan)
    /\ UNCHANGED <<cancelled, pending, sending, exiting, seq, captured,
                   batchChan, delivered, unparsed, lostNet>>

\* The task returns; what is left in the packet channel is dropped with it.
\* queue is the content of the channel when the task returns.
Return(queue) ==
    /\ stream' = "done"
    /\ chan' = <<>>
    /\ lostRx' = lostRx + Len(queue)

\* Mutant of BatchOf: numbered after the increment.
BatchOfNextSeq(events) == [seq |-> seq + 1, events |-> events]

\* The PacketBatch that flush builds.
BatchOf(events) == [seq |-> seq, events |-> events]

\* Mutant of BeginFlush: the events are copied, not taken, out of `pending`.
BeginFlushByCopy(events, last) ==
    /\ sending' = BatchOf(events)
    /\ pending' = events
    /\ exiting' = last
    /\ stream' = "send"

\* flush on a non-empty `pending`: takes the events and awaits the send.
BeginFlush(events, last) ==
    /\ sending' = BatchOf(events)
    /\ pending' = <<>>
    /\ exiting' = last
    /\ stream' = "send"

\* select!, first arm: cancellation.  Flush what is pending, then break.
StreamCancelled ==
    /\ stream = "loop"
    /\ cancelled
    /\ IF pending = <<>>
       THEN /\ Return(chan)
            /\ UNCHANGED <<pending, sending, exiting>>
       ELSE /\ BeginFlush(pending, TRUE)
            /\ UNCHANGED <<chan, lostRx>>
    /\ UNCHANGED <<cancelled, seq, captured, batchChan, net, delivered,
                   unparsed, lostNet>>

\* select!, second arm, None: every sender is gone and the channel is empty.
RecvClosed(senders) ==
    /\ stream = "loop"
    /\ chan = <<>>
    /\ senders = {}
    /\ IF pending = <<>>
       THEN /\ Return(chan)
            /\ UNCHANGED <<pending, sending, exiting>>
       ELSE /\ BeginFlush(pending, TRUE)
            /\ UNCHANGED <<chan, lostRx>>
    /\ UNCHANGED <<cancelled, seq, captured, batchChan, net, delivered,
                   unparsed, lostNet>>

\* parse_packet gives an event for every packet with a transport header.
parse_packet(p) == p \notin NoTransport

\* Mutant of BatchFull: the trigger is one event late.
BatchFullLate(events) == Len(events) > BatchSize

\* The size trigger of the flush.
BatchFull(events) == Len(events) >= BatchSize

\* As many events as a batch can have: the trigger is looked at after the push.
LargestBatch == IF BatchSize = 0 THEN 1 ELSE BatchSize

\* select!, second arm, Some(raw): parse_packet, count, push, flush when the
\* batch is full.
Recv ==
    /\ stream = "loop"
    /\ chan # <<>>
    /\ chan' = Tail(chan)
    /\ LET events == Append(pending, Head(chan))
       IN  IF parse_packet(Head(chan))
           THEN /\ captured' = captured + 1
                /\ UNCHANGED unparsed
                /\ IF BatchFull(events)
                   THEN BeginFlush(events, FALSE)
                   ELSE /\ pending' = events
                        /\ UNCHANGED <<sending, exiting, stream>>
           ELSE /\ unparsed' = unparsed + 1
                /\ UNCHANGED <<captured, pending, sending, exiting, stream>>
    /\ UNCHANGED <<cancelled, seq, batchChan, net, delivered, lostRx, lostNet>>

\* Mutant of Tick: a batch that is not full is left to wait.
TickWhenFull ==
    /\ stream = "loop"
    /\ pending # <<>>
    /\ BatchFull(pending)
    /\ BeginFlush(pending, FALSE)
    /\ UNCHANGED <<chan, cancelled, seq, captured, batchChan, net, delivered,
                   lostRx, unparsed, lostNet>>

\* select!, third arm: the flush timer.  With nothing pending it does nothing.
Tick ==
    /\ stream = "loop"
    /\ pending # <<>>
    /\ BeginFlush(pending, FALSE)
    /\ UNCHANGED <<chan, cancelled, seq, captured, batchChan, net, delivered,
                   lostRx, unparsed, lostNet>>

\* After the send: `seq` moves on in every case, then break or loop.
EndFlush ==
    /\ seq' = seq + 1
    /\ sending' = NoBatch
    /\ exiting' = FALSE
    /\ IF exiting
       THEN Return(chan)
       ELSE /\ stream' = "loop"
            /\ UNCHANGED <<chan, lostRx>>

\* batch_tx.send(batch).await, with room in the batch channel.
SendOk ==
    /\ stream = "send"
    /\ net = "up"
    /\ Len(batchChan) < BatchCap
    /\ batchChan' = Append(batchChan, sending)
    /\ EndFlush
    /\ UNCHANGED <<cancelled, pending, captured, net, delivered, unparsed, lostNet>>

\* Mutant of SendErr: tries again on a closed channel.
SendErrRetries ==
    /\ stream = "send"
    /\ net = "down"
    /\ UNCHANGED <<streamVars, cancelled>>

\* The same, once the transport has dropped the receiver: only a warning.
SendErr ==
    /\ stream = "send"
    /\ net = "down"
    /\ EndFlush
    /\ lostNet' = lostNet + Len(sending.events)
    /\ UNCHANGED <<cancelled, pending, captured, batchChan, net, delivered, unparsed>>

-----------------------------------------------------------------------------
\* The transport (tonic, HTTP/2) takes the batches in order, whether or not
\* the task that sent them still runs ...
NetPull ==
    /\ net = "up"
    /\ batchChan # <<>>
    /\ delivered' = Append(delivered, Head(batchChan))
    /\ batchChan' = Tail(batchChan)
    /\ UNCHANGED <<chan, cancelled, stream, pending, sending, exiting, seq,
                   captured, net, lostRx, unparsed, lostNet>>

\* ... until the stream ends on the server's side or the connection breaks.
\* The receiver is dropped with the batches in it; nothing reopens it.
NetBreak ==
    /\ net = "up"
    /\ net' = "down"
    /\ batchChan' = <<>>
    /\ lostNet' = lostNet + CountEvents(batchChan)
    /\ UNCHANGED <<chan, cancelled, stream, pending, sending, exiting, seq,
                   captured, delivered, lostRx, unparsed>>

-----------------------------------------------------------------------------
\* Types, and the two channels within their capacity.
StreamTypeOK ==
    /\ chan \in Seq(Nat) /\ Len(chan) <= ChanCap
    /\ cancelled \in BOOLEAN
    /\ stream \in {"open", "loop", "send", "done"}
    /\ pending \in Seq(Nat)
    /\ sending \in [seq : Nat \cup {-1}, events : Seq(Nat)]
    /\ exiting \in BOOLEAN
    /\ seq \in Nat
    /\ captured \in Nat
    /\ batchChan \in Seq(Batch)
    /\ Len(batchChan) <= BatchCap
    /\ net \in {"idle", "up", "down"}
    /\ delivered \in Seq(Batch)
    /\ lostRx \in Nat /\ unparsed \in Nat /\ lostNet \in Nat

\* The backend sees the batch numbers 0, 1, 2, ... with no gap and no repeat,
\* although a failed send also consumes a number: nothing is ever sent after
\* a failure, so a gap-free prefix of the numbers is what arrives.
SeqGapFree ==
    \A i \in 1 .. Len(delivered) : delivered[i].seq = i - 1

\* packets_captured in the heartbeat counts the packets that became events:
\* each is delivered, on its way, or was lost with the transport.
CapturedExact ==
    captured = CountEvents(delivered) + CountEvents(batchChan)
               + Len(sending.events) + Len(pending) + lostNet
=============================================================================
