-------------------------------- MODULE Agent --------------------------------
(***************************************************************************)
(* The whole agent: how src/main.rs starts the capture and analyzer        *)
(* threads, the packet stream and heartbeat tasks, and the test sender,    *)
(* and how it takes them down after Ctrl-C.                                *)
(*                                                                         *)
(*   capture --(ring buffer)--> analyzer --(mpsc)--> packet stream --> net *)
(*                              test sender --^                            *)
(*                                                                         *)
(* The ring buffer is module RingBuffer with the analyzer as its one       *)
(* consumer; the mpsc channel and everything behind it is PacketStream.    *)
(* With TestSend the test sender replaces capture, ring buffer and         *)
(* analyzer (--test-send).                                                 *)
(*                                                                         *)
(* CloseRing = FALSE is the program.  TRUE adds the call of close() that   *)
(* the comment in the capture thread announces ("Signal analyzer to exit   *)
(* by closing the ring buffer") and the code does not make, in order to    *)
(* check that the rest of the shutdown protocol is sound.                  *)
(***************************************************************************)
EXTENDS PacketStream, FiniteSets

CONSTANTS RingCap,      \* capacity of the ring buffer (4096 in main.rs)
          DrainMax,     \* drain_batch argument (64 in analyzer.rs)
          TestSend,     \* config.test_send
          PerTick,      \* test sender: packets_per_tick
          CloseRing,    \* see above
          MaxPackets    \* bound: packets the source makes; for the test
                        \* sender, packets_per_tick * max_ticks

ASSUME AgentAssumption ==
    /\ RingCap \in Nat \ {0}
    /\ DrainMax \in Nat \ {0}
    /\ TestSend \in BOOLEAN
    /\ CloseRing \in BOOLEAN
    /\ PerTick \in Nat \ {0}
    /\ MaxPackets \in Nat
    /\ TestSend => MaxPackets % PerTick = 0

VARIABLES buf, dropped, closed, closing, waiting, notified,    \* the ring buffer
          main,         \* progress of main()
          shutdown,     \* the AtomicBool the capture thread polls
          capture,      \* progress of the capture thread
          produced,     \* PACKET_COUNTER: packets made so far
          analyzer,     \* progress of the analyzer thread
          scored,       \* its scored_batch, not forwarded yet
          tester,       \* progress of the test sender task
          toSend,       \* its `packets` of this tick, not sent yet
          hb,           \* progress of the heartbeat task
          lostFull,     \* history: packets that forward dropped
          unsent        \* history: packets the test sender never sent

Ring == INSTANCE RingBuffer WITH Consumers <- {"analyzer"}, Cap <- RingCap

ringVars == <<buf, dropped, closed, closing, waiting, notified>>
captureVars == <<capture, produced>>
analyzerVars == <<analyzer, scored, lostFull>>
testerVars == <<tester, toSend, unsent>>
mainVars == <<main, shutdown, cancelled>>
vars == <<streamVars, ringVars, captureVars, analyzerVars, testerVars, hb,
          mainVars>>

Init ==
    /\ StreamInit
    /\ Ring!new
    /\ main = "register"
    /\ shutdown = FALSE
    /\ capture = IF TestSend THEN "done" ELSE "open"
    /\ produced = 0
    /\ analyzer = IF TestSend THEN "done" ELSE "drain"
    /\ scored = <<>>
    /\ tester = IF TestSend THEN "generate" ELSE "done"
    /\ toSend = <<>>
    /\ hb = "loop"
    /\ lostFull = 0
    /\ unsent = 0

\* The threads and tasks exist between registration and the end of main.
Ended == main \in {"exited", "failed", "killed"}
Up == main # "register" /\ ~Ended

-----------------------------------------------------------------------------
(* The capture thread: run_capture, then the rest of the closure in main. *)

OnlyCapture ==
    UNCHANGED <<streamVars, analyzerVars, testerVars, hb, mainVars>>

\* Device lookup, activation and filter: any of them may fail.
CaptureOpen ==
    /\ capture = "open"
    /\ capture' \in {"check", "return"}
    /\ UNCHANGED <<ringVars, produced>>
    /\ OnlyCapture

\* Mutant of CaptureCheck: the flag is never looked at.
CaptureCheckIgnored ==
    /\ capture = "check"
    /\ capture' = "next"
    /\ UNCHANGED <<ringVars, produced>>
    /\ OnlyCapture

\* Top of the capture loop: the shutdown flag is polled.
CaptureCheck ==
    /\ capture = "check"
    /\ capture' = IF shutdown THEN "return" ELSE "next"
    /\ UNCHANGED <<ringVars, produced>>
    /\ OnlyCapture

\* next_packet returned a packet: it gets a number and is pushed.
CapturePacket ==
    /\ capture = "next"
    /\ produced < MaxPackets
    /\ produced' = produced + 1
    /\ Ring!Push(produced + 1)
    /\ capture' = "check"
    /\ OnlyCapture

\* next_packet timed out, or ended the loop (NoMorePackets, a fatal error).
CaptureNoPacket ==
    /\ capture = "next"
    /\ capture' \in {"check", "return"}
    /\ UNCHANGED <<ringVars, produced>>
    /\ OnlyCapture

\* run_capture has returned, with or without an error.
CaptureReturn ==
    /\ capture = "return"
    /\ IF CloseRing
       THEN Ring!SetClosed /\ capture' = "notify"
       ELSE UNCHANGED ringVars /\ capture' = "join"
    /\ UNCHANGED produced
    /\ OnlyCapture

CaptureNotify ==
    /\ capture = "notify"
    /\ Ring!NotifyAll
    /\ capture' = "join"
    /\ UNCHANGED produced
    /\ OnlyCapture

\* analysis_thread.join()
CaptureJoin ==
    /\ capture = "join"
    /\ analyzer = "done"
    /\ capture' = "done"
    /\ UNCHANGED <<ringVars, produced>>
    /\ OnlyCapture

CaptureStep ==
    /\ Up
    /\ \/ CaptureOpen \/ CaptureCheck \/ CapturePacket \/ CaptureNoPacket
       \/ CaptureReturn \/ CaptureNotify \/ CaptureJoin

-----------------------------------------------------------------------------
(* The analyzer thread: start_analysis. *)

OnlyAnalyzer == UNCHANGED <<captureVars, testerVars, hb, mainVars>>

\* drain_batch; the batch is scored in parallel and collected in its order.
AnalyzerDrain ==
    /\ analyzer = "drain"
    /\ Ring!DrainBatch(DrainMax)
    /\ scored' = SubSeq(buf, 1, Ring!DrainCount(DrainMax))
    /\ analyzer' = IF scored' = <<>> THEN "pop" ELSE "forward"
    /\ UNCHANGED <<streamVars, lostFull>>
    /\ OnlyAnalyzer

\* One turn of pop_blocking; None ends the thread and drops its sender.
AnalyzerPop ==
    /\ analyzer = "pop"
    /\ \/ /\ Ring!PopSome("analyzer")
          /\ scored' = <<Head(buf)>>
          /\ analyzer' = "forward"
       \/ /\ Ring!PopNone("analyzer")
          /\ analyzer' = "done"
          /\ UNCHANGED scored
       \/ /\ Ring!PopWait("analyzer")
          /\ UNCHANGED <<analyzer, scored>>
    /\ UNCHANGED <<streamVars, lostFull>>
    /\ OnlyAnalyzer

\* Mutant of AnalyzerForward: a packet that found no room is tried again
\* after the rest of its batch.
AnalyzerForwardRequeues ==
    /\ analyzer = "forward"
    /\ \/ /\ ChanSend(Head(scored))
          /\ scored' = Tail(scored)
       \/ /\ ChanClosed \/ ~ChanHasRoom
          /\ scored' = Append(Tail(scored), Head(scored))
          /\ UNCHANGED streamVars
    /\ analyzer' = IF scored' = <<>> THEN "drain" ELSE "forward"
    /\ UNCHANGED <<ringVars, lostFull>>
    /\ OnlyAnalyzer

\* Mutant of AnalyzerForward: blocks on a full channel.
AnalyzerForwardBlocks ==
    /\ analyzer = "forward"
    /\ ChanSend(Head(scored))
    /\ scored' = Tail(scored)
    /\ analyzer' = IF scored' = <<>> THEN "drain" ELSE "forward"
    /\ UNCHANGED <<ringVars, lostFull>>
    /\ OnlyAnalyzer

\* forward: try_send; a full or closed channel costs the packet.
AnalyzerForward ==
    /\ analyzer = "forward"
    /\ \/ /\ ChanSend(Head(scored))
          /\ UNCHANGED lostFull
       \/ /\ ChanClosed \/ ~ChanHasRoom
          /\ lostFull' = lostFull + 1
          /\ UNCHANGED streamVars
    /\ scored' = Tail(scored)
    /\ analyzer' = IF scored' = <<>> THEN "drain" ELSE "forward"
    /\ UNCHANGED ringVars
    /\ OnlyAnalyzer

AnalyzerStep == Up /\ (AnalyzerDrain \/ AnalyzerPop \/ AnalyzerForward)

\* The condition variable may wake the analyzer for no reason.
AnalyzerSpurious ==
    /\ Up
    /\ Ring!SpuriousWakeup("analyzer")
    /\ UNCHANGED <<streamVars, analyzerVars>>
    /\ OnlyAnalyzer

-----------------------------------------------------------------------------
(* The test sender: run_test_sender. *)

OnlyTester == UNCHANGED <<ringVars, capture, analyzerVars, hb, mainVars>>

\* Top of the loop: stop after max_ticks, or make the packets of this tick.
TesterGenerate ==
    /\ tester = "generate"
    /\ IF produced >= MaxPackets
       THEN /\ tester' = "done"
            /\ UNCHANGED <<toSend, produced>>
       ELSE /\ tester' = "send"
            /\ toSend' = [i \in 1 .. PerTick |-> produced + i]
            /\ produced' = produced + PerTick
    /\ UNCHANGED <<streamVars, unsent>>
    /\ OnlyTester

\* select! on tx.send: there is room, or the receiver is gone.
TesterSend ==
    /\ tester = "send"
    /\ toSend # <<>>
    /\ \/ /\ ChanSend(Head(toSend))
          /\ toSend' = Tail(toSend)
          /\ UNCHANGED <<tester, unsent>>
       \/ /\ ChanClosed
          /\ tester' = "done"
          /\ toSend' = <<>>
          /\ unsent' = unsent + Len(toSend)
          /\ UNCHANGED streamVars
    /\ UNCHANGED produced
    /\ OnlyTester

\* All packets of the tick are sent.
TesterTickDone ==
    /\ tester = "send"
    /\ toSend = <<>>
    /\ tester' = "sleep"
    /\ UNCHANGED <<streamVars, toSend, unsent, produced>>
    /\ OnlyTester

TesterWake ==
    /\ tester = "sleep"
    /\ tester' = "generate"
    /\ UNCHANGED <<streamVars, toSend, unsent, produced>>
    /\ OnlyTester

\* The cancellation arm of both select!s: the sender returns at once.
TesterCancelled ==
    /\ cancelled
    /\ tester = "sleep" \/ (tester = "send" /\ toSend # <<>>)
    /\ tester' = "done"
    /\ toSend' = <<>>
    /\ unsent' = unsent + Len(toSend)
    /\ UNCHANGED <<streamVars, produced>>
    /\ OnlyTester

TesterStep ==
    /\ Up
    /\ \/ TesterGenerate \/ TesterSend \/ TesterTickDone \/ TesterWake
       \/ TesterCancelled

-----------------------------------------------------------------------------
(* The packet stream task and its transport. *)

OnlyStream ==
    UNCHANGED <<ringVars, captureVars, analyzerVars, testerVars, hb, main,
                shutdown>>

\* Mutant of Senders: main keeps its sender with --test-send as well.
SendersAndMain ==
    {"main"}
    \cup (IF analyzer # "done" THEN {"analyzer"} ELSE {})
    \cup (IF tester # "done" THEN {"test_sender"} ELSE {})

\* Who still holds a sender of the packet channel.  In capture mode main
\* keeps the original until it returns; the analyzer has a clone of it.
Senders ==
    (IF TestSend THEN {} ELSE {"main"})
    \cup (IF analyzer # "done" THEN {"analyzer"} ELSE {})
    \cup (IF tester # "done" THEN {"test_sender"} ELSE {})

StreamOpen == Up /\ (OpenOk \/ OpenErr) /\ OnlyStream
StreamCancel == Up /\ StreamCancelled /\ OnlyStream
StreamRecv == Up /\ (Recv \/ RecvClosed(Senders)) /\ OnlyStream
StreamTick == Up /\ Tick /\ OnlyStream
StreamSend == Up /\ (SendOk \/ SendErr) /\ OnlyStream
Pull == Up /\ NetPull /\ OnlyStream
Break == Up /\ NetBreak /\ OnlyStream

-----------------------------------------------------------------------------
(* The heartbeat task: run_heartbeat_loop. *)

OnlyHb ==
    UNCHANGED <<streamVars, ringVars, captureVars, analyzerVars, testerVars,
                mainVars>>

\* The timer fires: a heartbeat is sent and its RPC awaited in the arm, so that
\* cancellation is not looked at before it is answered.
HbTick ==
    /\ Up
    /\ hb = "loop"
    /\ hb' = "rpc"
    /\ OnlyHb

\* An answer or an error, which is only logged.
HbReply ==
    /\ Up
    /\ hb = "rpc"
    /\ hb' = "loop"
    /\ OnlyHb

HbCancel ==
    /\ Up
    /\ hb = "loop"
    /\ cancelled
    /\ hb' = "done"
    /\ OnlyHb

-----------------------------------------------------------------------------
(* main: registration, the signal, and the orderly shutdown. *)

OnlyMain ==
    UNCHANGED <<streamVars, ringVars, captureVars, analyzerVars, testerVars,
                hb>>

MainGoes(from, to) == main = from /\ main' = to

\* register_agent was answered, failed, or no token was given: in every case
\* the threads and tasks are started.
MainRegister ==
    /\ MainGoes("register", "running")
    /\ UNCHANGED <<shutdown, cancelled>>
    /\ OnlyMain

\* Ctrl-C: the token is cancelled; the capture thread's flag is the next
\* statement.
MainCtrlC ==
    /\ MainGoes("running", "cancelled")
    /\ cancelled' = TRUE
    /\ UNCHANGED shutdown
    /\ OnlyMain

\* The signal handler could not be installed: main returns the error.
MainSignalError ==
    /\ MainGoes("running", "failed")
    /\ UNCHANGED <<shutdown, cancelled>>
    /\ OnlyMain

MainSetShutdown ==
    /\ MainGoes("cancelled", "join_stream")
    /\ shutdown' = TRUE
    /\ UNCHANGED cancelled
    /\ OnlyMain

\* Mutant of MainJoinStream: does not wait for the final flush.
MainJoinStreamDetached ==
    /\ MainGoes("join_stream", "join_heartbeat")
    /\ UNCHANGED <<shutdown, cancelled>>
    /\ OnlyMain

MainJoinStream ==
    /\ stream = "done"
    /\ MainGoes("join_stream", "join_heartbeat")
    /\ UNCHANGED <<shutdown, cancelled>>
    /\ OnlyMain

MainJoinHeartbeat ==
    /\ hb = "done"
    /\ MainGoes("join_heartbeat", IF TestSend THEN "persist" ELSE "join_capture")
    /\ UNCHANGED <<shutdown, cancelled>>
    /\ OnlyMain

MainJoinCapture ==
    /\ capture = "done"
    /\ MainGoes("join_capture", "persist")
    /\ UNCHANGED <<shutdown, cancelled>>
    /\ OnlyMain

\* baseline.persist(), then main returns and the process ends.
MainPersist ==
    /\ MainGoes("persist", "exited")
    /\ UNCHANGED <<shutdown, cancelled>>
    /\ OnlyMain

MainShutdown ==
    \/ MainSetShutdown \/ MainJoinStream \/ MainJoinHeartbeat
    \/ MainJoinCapture \/ MainPersist

\* SIGTERM, SIGKILL, a crash; or Ctrl-C before its handler is installed.
Killed ==
    /\ ~Ended
    /\ main' = "killed"
    /\ UNCHANGED <<shutdown, cancelled>>
    /\ OnlyMain

Terminated == Ended /\ UNCHANGED vars

-----------------------------------------------------------------------------
Next ==
    \/ CaptureStep \/ AnalyzerStep \/ AnalyzerSpurious \/ TesterStep
    \/ StreamOpen \/ StreamCancel \/ StreamRecv \/ StreamTick \/ StreamSend
    \/ Pull \/ Break
    \/ HbTick \/ HbReply \/ HbCancel
    \/ MainRegister \/ MainCtrlC \/ MainSignalError \/ MainShutdown \/ Killed
    \/ Terminated

Spec == Init /\ [][Next]_vars

\* Threads and tasks are scheduled; pcap's read times out, so a turn of the
\* capture loop ends.  select! picks at random among the arms that are ready,
\* so an arm that is ready again and again is taken: strong fairness.  Nothing
\* is assumed of the user, of packets arriving, or of the backend.
AgentFairness ==
    /\ WF_vars(CaptureStep)
    /\ WF_vars(AnalyzerStep)
    /\ WF_vars(TesterStep)
    /\ SF_vars(StreamCancel)
    /\ SF_vars(StreamTick)
    /\ WF_vars(StreamRecv)
    /\ WF_vars(StreamSend)
    /\ SF_vars(HbCancel)
    /\ WF_vars(HbTick)
    /\ WF_vars(MainShutdown)

\* The backend answers calls (or they fail) and reads the stream (or it ends).
BackendFairness ==
    /\ WF_vars(StreamOpen)
    /\ WF_vars(Pull)
    /\ WF_vars(HbReply)

FairSpec == Spec /\ AgentFairness /\ BackendFairness
StalledBackendSpec == Spec /\ AgentFairness

-----------------------------------------------------------------------------
\* Types of the agent's own state, of its channels and of the ring buffer.
TypeOK ==
    /\ StreamTypeOK
    /\ Ring!RingTypeOK(Nat)
    /\ main \in {"register", "running", "cancelled", "join_stream",
                 "join_heartbeat", "join_capture", "persist", "exited",
                 "failed", "killed"}
    /\ shutdown \in BOOLEAN
    /\ capture \in {"open", "check", "next", "return", "notify", "join", "done"}
    /\ produced \in Nat
    /\ analyzer \in {"drain", "pop", "forward", "done"}
    /\ scored \in Seq(Nat)
    /\ tester \in {"generate", "send", "sleep", "done"}
    /\ toSend \in Seq(Nat)
    /\ hb \in {"loop", "rpc", "done"}
    /\ lostFull \in Nat /\ unsent \in Nat

\* Every packet the source made is in exactly one place: delivered, in one of
\* the six stages on the way, or counted at one of the six points where the
\* code gives a packet up (ring overflow, full mpsc channel, no transport
\* header, a dropped receiver, a dead transport, a cancelled test sender); and
\* the count in the heartbeat is exact.
Conservation ==
    /\ CapturedExact
    /\ produced = CountEvents(delivered)
                  + Len(buf) + Len(scored) + Len(toSend) + Len(chan)
                  + Len(pending) + Len(sending.events) + CountEvents(batchChan)
                  + dropped + lostFull + unparsed + lostRx + lostNet + unsent

\* A clean exit leaves nothing half done: main has waited for the final flush
\* and for the analyzer to empty the ring buffer, so that no packet is left in
\* a stage the agent itself runs.  Main does not wait for the transport: of
\* the packets that packets_captured counts, those in the batch channel go
\* with the process, at most one channel full of batches.
ExitAfterFlush ==
    main = "exited" =>
        /\ stream = "done" /\ hb = "done" /\ capture = "done" /\ analyzer = "done"
        /\ buf = <<>> /\ scored = <<>> /\ chan = <<>> /\ pending = <<>>
        /\ sending = NoBatch
        /\ captured <= CountEvents(delivered) + lostNet + BatchCap * LargestBatch

\* Ctrl-C ends the process ("Clean shutdown complete."), even if the backend
\* breaks off the stream or refuses to open it.
ShutdownCompletes == cancelled ~> Ended

\* As far as the program gets in capture mode: after Ctrl-C both tasks end,
\* the capture loop stops, and main waits for the capture thread.
ShutdownReachesJoin ==
    cancelled ~> (Ended \/ (main = "join_capture" /\ capture = "join"))

\* With --test-send, when the test sender has returned no sender of the packet
\* channel is left: the stream task flushes and exits, without a Ctrl-C ("or
\* when the capture channel closes").
StreamEndsWithSource ==
    (TestSend /\ tester = "done") ~> (stream = "done" \/ Ended)

\* While the transport lives and nobody shuts the agent down, a packet that is
\* in the channel becomes part of a delivered batch: the flush timer covers
\* batches that never fill up.
PacketsAreDelivered ==
    \A p \in 1 .. MaxPackets \ NoTransport :
        (\E i \in 1 .. Len(chan) : chan[i] = p)
        ~> \/ \E b \in 1 .. Len(delivered) :
                 \E i \in 1 .. Len(delivered[b].events) : delivered[b].events[i] = p
           \/ net = "down" \/ cancelled \/ Ended

\* "The task exits cleanly on cancellation", whatever the backend does.
StreamExitsOnCancel == cancelled ~> (stream = "done" \/ Ended)

-----------------------------------------------------------------------------
\* The packets the backend received, in the order it received them.
Arrived == AllEvents(delivered)

Feed == INSTANCE OrderedFeed WITH
    MaxBatch <- LargestBatch,
    made <- produced,
    arrived <- Arrived

\* End to end, through two threads, two tasks and three bounded queues, the
\* agent is an ordered, at-most-once, lossy feed.
ImplementsOrderedFeed == Feed!Spec
=============================================================================
