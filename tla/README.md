# TLA+ models of the Ocellus monitor agent

The repository is a network monitoring agent in Rust. It captures packets, scores
them with an intrusion detection engine (IDS), and streams them in batches to an
ingestion service over gRPC. The modules in this directory model its concurrent
core (the buffer between the threads, the pipeline from capture to the network and
its shutdown, the IDS engine with its learned and persisted baseline), the detectors
that keep state about addresses and connections, and the parts that take in what comes
from outside: frames, DNS messages, payloads, block lists, the identity file.

Paths below are relative to the repository (`src/ring_buffer.rs` and so on).

## 1. Inventory

| Component | State | Operations | Interacts with |
|---|---|---|---|
| ring buffer, `src/ring_buffer.rs` | deque, drop count, `closed`; one mutex, one condvar | `push`, `pop_blocking`, `try_pop`, `drain_batch`, `close` | capture pushes, analyzer pops |
| capture thread, `src/capture.rs` | packet counter | `run_capture` loop, polls the `shutdown` flag | pushes to the ring, spawns and joins the analyzer |
| packet parser, `src/capture.rs` | none | `parse_transport` | called by capture |
| analyzer, `src/analyzer.rs` | the batch it holds | drain, score in 4 workers, `forward` | ring -> mpsc channel, calls the IDS |
| packet stream, `src/grpc_client.rs` | `pending`, `seq`, two bounded channels | `run_packet_stream`: receive, batch, flush by size, timer, cancellation, end | mpsc -> IngestPackets stream |
| heartbeat, `src/grpc_client.rs` | the shared counters | `run_heartbeat_loop` | backend |
| registration, `src/grpc_client.rs` | none | one RPC before start-up | backend |
| main, `src/main.rs` | token, flag, join handles | start-up, Ctrl-C, orderly shutdown | everything |
| test sender, `src/tests/test_sender.rs` | tick | `run_test_sender` | replaces capture, ring and analyzer |
| IDS engine, `src/ids/mod.rs` | handles of the detectors | `analyze`, `start_sweeper` | called by 4 workers at once |
| baseline, `src/ids/baseline.rs` | phase, known traits, `learned_at`, JSON file; two RwLocks | `observe_*`, `is_known_*`, `finish_learning`, `tick_phase`, `persist`, load | workers, sweeper, main |
| scoring, `src/ids/score.rs` | none | `from_signals`, `is_clean` | `analyze` |
| rate limiter, SYN flood, port scan, `src/ids/` | per-address windows, swept every 30 s | `inspect`, `sweep` | `analyze`, sweeper |
| blacklist, DNS, payload, geo, `src/ids/` | lists loaded once | `check_*`, `inspect_*`, `scan_all`, `country_code` | `analyze` |
| agent identity, `src/agent_identity.rs` | the identity file | `resolve` | main |

What is hard here:

* the condvar protocol of the ring buffer, whose `close` notifies after unlocking;
* a pipeline of three bounded queues with a different loss policy at each (drop the
  oldest; drop the newest; wait), which must keep order and account for every packet;
* a shutdown that crosses two threads and three tasks, where a task looks at
  cancellation only in `select!` and not inside a flush or an RPC;
* an analysis that reads and updates shared state under many short locks while
  the sweeper changes the phase and saves to a file, and may be cut off by a crash;
* detectors that several workers and the sweeper use at once, one map entry at a
  time, on clocks they read at different moments;
* header fields and label lengths from the wire that become offsets into a slice, where
  a wrong guard is a panic in the only capture thread.

`PROJECT.json` lists these hazards line by line with the properties that cover them.

## 2. Modules

| Module | What it is |
|---|---|
| `RingBuffer` | the buffer object: one action per critical section |
| `RingBufferSystem` | the buffer with one producer and any number of consumers |
| `DropOldestQueue` | abstract: what the buffer promises |
| `RingBufferProofs` | the theorems about `RingBufferSystem` |
| `PacketStream` | the mpsc channel, `run_packet_stream`, the batch channel, the transport |
| `Agent` | composes `RingBuffer` (INSTANCE) and `PacketStream` (EXTENDS) with capture, analyzer, test sender, heartbeat and main |
| `OrderedFeed` | abstract: what the agent promises the backend |
| `Score` | the scoring arithmetic |
| `Baseline` | phase, known traits, locks, persistence |
| `IdsEngine` | `analyze` in several workers, the sweeper, the last save, crash and restart |
| `Clock` | the monotonic clock and the maps of the three detectors below |
| `RateLimiter` | token bucket, byte and connection windows, sweep |
| `PortScan` | sliding sets per source and per port, sweep |
| `SynFlood` | SYN and ACK counters, half-open table, RST check, sweep |
| `Detectors` | the three of them side by side on one clock |
| `PacketParser` | the layout of a frame as `parse_transport` sees it |
| `PacketParserProofs` | the theorems about `PacketParser` |
| `DnsName` | the walk over the labels of a DNS question |
| `PayloadScan` | the signatures found in a payload |
| `Blacklist` | loading and checking, lock by lock |
| `AgentIdentity` | the identity file across failures, crashes and starts |
| `AgentIdentityProofs` | the theorems about `AgentIdentity` |
| `AgentProofs` | the theorems about `Agent` and `PacketStream`, with the refinement of `OrderedFeed` |
| `IdsEngineProofs` | the theorems about `IdsEngine`, `Baseline` and `Score` |
| `DetectorProofs` | the theorems about `RateLimiter`, `PortScan`, `SynFlood` and `Detectors` |
| `InputProofs` | the theorems about `DnsName`, `PayloadScan` and `Blacklist` |
| `Induction` | induction over the natural numbers; functions defined by recursion exist |
| `MCRingBuffer`, `MCAgent`, `MCIdsEngine`, `MCDetectors`, `MCInputs` | instances for TLC |

### RingBuffer

What a method does under the mutex is one action. A consumer in `cvar.wait` is in
`waiting`; once woken and without the mutex it is in `notified`. `pop_blocking` is
three alternatives of one loop turn (`PopSome`, `PopNone`, `PopWait`), taken by a
consumer that calls it or that was woken; spurious wake-ups are an action. `close` is
two actions, since the code releases the mutex before `notify_all`. Items are the
numbers 1, 2, ... in push order. `RingBufferSystem` adds the history `taken`.

### PacketStream and Agent

A task suspends only at its awaits, so an action is what it does between two of them;
`stream` says at which await it is. The `select!` arms are `StreamCancelled`, `Recv`
or `RecvClosed`, and `Tick`. A flush is `BeginFlush`, which takes `pending` and awaits
the send, and `SendOk` or `SendErr`, which both advance `seq`. The transport (tonic) is
external: `NetPull` takes a batch, `NetBreak` drops the receiver with all it holds.
When the task returns, the receiver and the packets in it are dropped.

`Agent` has a program counter per thread or task. The history variables `lostRx`,
`lostNet`, `lostFull`, `unparsed` and `unsent` count packets at the points where the
code gives one up; the code itself counts only the ring buffer's drops.

`CloseRing = FALSE` is the program. The comment in `src/main.rs` line 186 announces a
call of `close()` that is not there; `CloseRing = TRUE` adds it, to check that the rest
of the shutdown is sound. Only the run `agent_closed_ring` uses it, which also checks
delivery before any shutdown, where the two do not differ.

### Baseline and IdsEngine

The steps of `analyze` are its look-ups and updates of the baseline, each under its own
lock; anything may happen in between. The verdicts of the other detectors are part of
the packet (`early`, `payload`, `name`, `tunnel`, `late`), in the order in which the
code asks them. Signals are accumulated as sum, count and first claimed flag, which is
all `from_signals` uses. `observe_dst_ip` and `observe_protocol` write state that is
never read, and are left out. A packet without transport metadata returns at once.

`persist` is: lock and serialize, truncate, write; with an error possible at each I/O
step. Without `IDS_BASELINE_PATH` it does nothing, which is the error case of the
first step. The model's file is valid or unreadable (absent, empty, cut off: the code
treats them alike). `Restart` ends the process at any point and loads the file.

The history `saved` is all that was written to the file, by this process and by those
before it; `failed` says that the last write did not go through. A restart keeps `saved`
when the file parses. When it does not, the code begins to learn from nothing without a
word (`src/ids/baseline.rs` lines 75-78), what was saved is lost, and `saved` begins anew.
`FileIsNewest` says when that can happen: only if the process ends between the truncation
and the write of a save, or after a write that failed.

### RateLimiter, PortScan, SynFlood

Time is a counter, and a duration a number of ticks. The code reads the clock under the
lock of the entry it works on, so an entry never sees time go back; the exception is the
sweeper of the port scan detector, which reads it once and then goes through two maps,
and is modelled that way.

An action is what happens under the lock of one map entry. `RateLimiter::inspect`
holds its entry throughout and is one action. The port scan's is two, one per map. The
SYN flood's is up to six: the counters, the insertion or the two removals, the size of
the table, the two look-ups for an RST; packets of one connection may be inspected in any
order. The passes of a sweep over a map are one step each: `retain` treats entries one by one
and they do not depend on each other. Tokens are whole where the code has fractions
(f64), so the edge of a bucket with less than one token is that of an empty one; the
SYN/ACK ratio is compared by multiplication. In `SynFlood` a host is an address and a port
at once, hence one connection for each pair and direction; the size of the half-open table
is read in one step, where the map sums it up shard by shard.

What the packets really were is kept in history variables that no action reads:
counts since every moment (`granted`, `quietBytes`, `quietSyns`, `synsSince`,
`acksSince`) and the times of contacts (`portTimes`, `srcTimes`). The properties compare
the verdicts with these.

### PacketParser, DnsName, PayloadScan, Blacklist, AgentIdentity

`PacketParser` has a frame as its length and the fields that decide where the parser
looks next, all of them chosen freely, and collects the indices it reads. `DnsName` walks
over a message byte by byte as the code does; the 12 bytes of the header are one flag, and
a label is kept as its bytes, of which the code replaces those that are not UTF-8.
`PayloadScan` goes from match to match; which match comes next is the automaton's
business and modelled after its default match order (external). `Blacklist` has
addresses of a few bits, and a line of a list as what it parses as; the loader runs while
a worker checks, since the methods are written for that (`src/ids/blacklist.rs` line 112).
This is more than the program does: main loads the lists before it starts the workers. `AgentIdentity` has one action
per file operation of `resolve`, each with its failure, and a process that may die
before any of them and in the middle of the write.

## 3. Runs

Passing:

| Run | Shows | Bounds |
|---|---|---|
| `ring_buffer` | no lost wake-up, exact drop count, order, nothing left behind or stranded, close ends everybody, refinement of `DropOldestQueue` | 3 consumers, capacity 3, 6 pushes, drains of 2 |
| `agent_capture` | every packet in one place; batch numbers without gaps; ordered feed (refinement of `OrderedFeed`); Ctrl-C takes the agent down as far as the join of the capture thread | 3 packets; ring 2, channels 1, batches of 2 |
| `agent_closed_ring` | with `close()` added the shutdown completes and nothing is left in a queue of the agent; before the shutdown, where it plays no part, a packet in the channel is delivered while the transport lives | 2 packets, ring 2 |
| `agent_test_send` | `--test-send`: shutdown, the stream ends with its source, the exit cuts off at most what the batch channel holds (3 events against a channel of 2) | 2 ticks of 2 packets, one without transport |
| `ids_safety` | no new country or well-known port is learned from a packet taken up after the switch of phase; across a restart, a file that parses holds all that was saved before it, and one that does not parse is in the middle of a save or after a failed write (a process that ends there loses the baseline, any other does not) | 2 workers, 2 kinds of packets, 1 restart |
| `ids_liveness` | no lock blocks analysis for ever; learning ends | 1 worker, 1 restart |
| `detectors` | verdicts agree with the packets of the window: exact packet rate, at most twice the byte and connection limits unnoticed, no scan signalled without its contacts, no packet of any kind signalled as a flood without the SYNs for it in its window, no entry lost or left over in the half-open table | rate: 5 packets, 6 ticks, window 3; scan: 2 workers, 2 sources, 2 ports, 4 ticks, window 2; SYN: 2 workers, 2 hosts, 3 packets, 2 ticks |
| `inputs` | reads stay inside the frame; names exactly where there are names; only an overlapped signature is missed; the blacklist signals what its lines stand for; the identity is kept | 13 frame lengths at the edges of each header; DNS messages of up to 5 bytes; payloads of up to 6 letters; 3-bit addresses, lists of up to 3 lines; 4 starts |

Violated, each by what the code does against what a comment or document says
(quoted in `PROJECT.json`, "findings"):

| Run | The statement | What happens |
|---|---|---|
| `agent_no_close` | "Signal analyzer to exit by closing the ring buffer" | nobody closes it; after Ctrl-C in capture mode main waits for ever and the last save is never made |
| `agent_stalled_backend` | "The task exits cleanly on cancellation" | not while a flush waits for a backend that does not read |
| `ids_dirty_update` | "updated only from clean traffic" | the phase is read before the updates |
| `syn_rst` | "RST without a matching half-open entry is suspicious" | the entry is removed before it is looked for, so an RST of a tracked connection is signalled too |

More differences were seen while reading; they show in a single call or need no search,
and have no run:

* `docker-compose.yml` lines 2-3 say "retrying in the background"; a packet stream that
  could not be opened, or broke, is never opened again (`src/grpc_client.rs` lines
  165-168). Only heartbeats are tried again.
* "In Learning phase returns a clean result" (`src/ids/mod.rs` line 72): only the geo and
  the port check look at the phase; the other signals are returned in it as well.
* "skip if domain is in baseline" (`src/ids/mod.rs` line 214): `inspect_payload` runs
  `inspect_name` again on the domain that was just skipped.
* "highest-scoring signal wins" (`src/ids/score.rs` line 77): the flag is that of the
  first detector that claims one (theorem `FirstClaimIsTheFlag`).
* `AgentCounters.dropped` and `flagged` are sent in every heartbeat and never written.
* A port seen again keeps the time of its first contact (`src/ids/port_scan.rs` line 29),
  so that a scan that comes back to ports may have the threshold in its window and not be
  signalled (lines 65-66). `ScanVerdict` therefore promises a signal only for ports
  that were left alone for a window before.
* "Three independent limits" (`src/ids/rate_limit.rs` line 3): the byte and connection
  limits are looked at only for packets within the packet rate, and over the boundary of
  two windows twice the limit passes (`BurstIsBounded` shows that no more does).
* "domain suffixes" (`src/ids/blacklist.rs` line 39): domains match exactly, as the test
  `blacklist_domain_no_partial_match` wants.
* "e.g. Spamhaus DROP" (`src/ids/blacklist.rs` line 132): the lines of that list have
  a remark behind the range, do not parse, and are skipped without a word.
* A prefix above 32 in a list wraps to a far wider mask in a release build, and panics in
  a debug build (`src/ids/blacklist.rs` line 26). `MaskShift` has the wrap; the run stays
  with prefixes up to the width, and so does the theorem `CheckIsTheList`. A wrapped mask
  lists too much and never too little: `NothingListedIsMissed` needs no such bound.
* "reuse the persisted UUID if one exists" (`src/agent_identity.rs` line 12): a read
  error counts as a missing file, and the new UUID overwrites the old. `IdentityIsKept`
  excepts it.
* "return ALL matching signals" (`src/ids/payload.rs` line 59): matches do not overlap.

Why the bounds are enough. The ring buffer tells apart empty, partly full and full,
and more or fewer items than sleepers: three consumers and a capacity of three with
twice as many pushes reach all of these, with evictions after evictions; the theorems
then hold for all sizes. In the agent every queue fills with one or two packets, so
each loss point is reached, and three packets are enough for a loss between two
deliveries and for a full, a partial and a last batch. In the IDS two workers are
enough for one to be inside an analysis while the other, or the sweeper, changes what
it has looked up. Of its packets one is clean and becomes suspicious by its country
alone, one is clean and teaches an unlisted port and a domain in either phase, and one
(in `ids_liveness` and the violated run) sets off every detector.

The detectors share nothing but the clock, and the parts in `MCInputs` share nothing. A
behaviour of several of them at once is, for each, one of its own behaviours with
stuttering; for the detectors, whose clock is moved by any of them, this is the theorem
`EachAsIfAlone`. `MCDetectors` and `MCInputs` therefore choose one in the initial state (`focus`)
and let it run alone; every property but the types speaks of one of them. The clock of each
runs past its window (and, except for the SYN flood's, past two), so counters are reset, entries expire in the middle
of an inspection and the sweeper drops what comes back later. Frame lengths are the last
that is too short and the first that is enough for each header; the bytes of a DNS
message are an end, two label lengths, one that does not fit and a pointer. Of the addresses
one is in the filter by the bits of two others.

The workers of the IDS are symmetric, and so are workers, hosts and ports in `MCDetectors`;
symmetry is used only in `ids_safety` and in the runs of `MCDetectors`, which have no liveness
property (their PROPERTIES are about single steps). Deadlock is checked in all runs but
`inputs`; the final states of the ring and agent models have an explicit stuttering step. The
main loop of the IDS and the sweepers never end. In `inputs` a frame, a message or a
payload is done when it is parsed.

### Fairness

* Threads and tasks that can run do run: weak fairness of their steps. `next_packet`
  has a timeout of one second, so each turn of the capture loop ends; nothing says
  that packets arrive.
* `select!` polls its arms in random order, so an arm that is ready again and again
  is taken: strong fairness of cancellation and of the timers.
* The backend is a separate assumption (`BackendFairness`): calls are answered or
  fail, the stream is read or breaks. `StalledBackendSpec` goes without it.
* In the IDS, `Analyze` is strongly fair: an `observe_*` call waits for readers of the
  state lock, and the standard library's RwLock lets a waiting writer go first.
* Nothing is assumed of the user, of crashes, or of the producer of the ring buffer.

## 4. Proofs

`RingBufferProofs` proves, for every capacity above 0, every finite set of consumers,
every drain size above 0 and every number of pushes, that `RingBufferSystem`

* keeps its types and capacity (`TypeCorrect`),
* loses no wake-up (`WakeupsAreNotLost`) and leaves nobody asleep after `close`
  (`CloseWakesEveryone`),
* accounts for every item (`NothingUnaccounted`), keeps the order over all consumers
  (`OrderIsKept`) and tells nobody to stop while an item is left (`NothingLeftBehind`),
* implements `DropOldestQueue` (`Refinement`), with the buffer as the window of item
  numbers `pushed - Len(buf) + 1 .. pushed`.

All follow from one inductive invariant, `IInv`, the conjunction of the invariants of
`ring_buffer` and of `BufferIsNewest` (the buffer holds the newest items, in push order). None of the interesting ones is inductive alone:
`NoLostWakeup` compares the length of the buffer with the number of woken consumers, and
a push that wakes one must not count a consumer that was already woken, so it needs
the typing fact that `waiting` and `notified` are disjoint and finite; a consumer that
leaves takes an item with it, so both sides go down together. `TakenInOrder` needs
`BufferIsNewest`, which gives the head of the buffer its number, and so does the
refinement. `DrainedBeforeEnd` rests on the producer not pushing after `close`.

Assumptions: `CapAssumption`, `ConsumersAssumption`, `DrainAssumption`. `main.rs` passes
4096 and `analyzer.rs` passes 64. With capacity 0 the code would count a drop that did
not happen and never evict again.

`PacketParserProofs` proves `ReadsAreInside` and `PayloadIsBehindHeaders` for frames of every
length and with any header fields. One lemma bounds where the headers begin and end in a
frame whose IP header is accepted; each group of accesses (link, IP, transport) then
stays inside by it. The only assumption, `FrameAssumption`, says that lengths are
natural numbers and that the two length fields have four bits.

`AgentIdentityProofs` proves `RunningHasIdentity` and `IdentityIsKept` for any number of starts,
crashes and failures. The invariant adds that while an identity is saved no start is on
its way to a write (`KeptIsInFile`), and that what the file holds comes from an earlier
start until this one has written its own (`FileIsFromAStart`).

`AgentProofs` takes the agent for every capacity, batch size, drain size and number of packets,
in capture mode and with `--test-send`, with and without the missing `close()`
(`AgentAssumption`, `StreamAssumption`; a batch size of 0 is included). Its layers are invariants, each of
which uses the ones before:

* `TypeInv`, the types together with the capacities and the shape of a task's locals at each
  of its awaits, gives `AgentTypeCorrect`;
* `Handover` says who has ended when: a closed ring has no producer, an analyzer that is
  done leaves a closed and empty ring, main is past a join only when the joined one is done;
* `WakeInv` is the condvar protocol within the agent: a sleeping analyzer has an empty ring
  before it, which is open or about to be notified (`AnalyzerIsWoken`). Without `close()` there
  is no other way out of `pop_blocking`, so in capture mode the analyzer never ends and
  main never gets past its join: `CaptureModeNeverExits` says of every behaviour and every size
  what `agent_no_close` shows in one;
* `SeqInv` gives `NumbersHaveNoGap`: the batches delivered have the numbers 0, 1, 2, ...,
  those in the batch channel go on from there, and so does `seq` until the transport is down;
* `Account` splits the packets at the mpsc channel, those it accepted and those upstream of
  it. This gives `EveryPacketAccounted`: every packet is in one place or counted at the
  point that gave it up. At the end of the process `Handover` leaves only the batch channel
  with anything in it, `BatchInv` (below) bounds it, and `ExitIsClean` follows: what the exit cuts off is at
  most `BatchCap` batches of at most `LargestBatch` packets. The code promises no more: nobody waits
  for the transport or for an acknowledgement;
* `OrderInv` has the packets in order through all stages at once. Six numbers separate what
  neighbouring stages hold (`Laid`), so that a packet that moves on moves one of them.
  With `BatchInv`, which bounds the size of a batch at every stage, it gives
  `AgentImplementsFeed`, the refinement of `OrderedFeed`.

`IdsEngineProofs` takes any workers and any packets whose signals have the scores of
`score.rs` (`PacketsAssumption`), and the two threads that save (`SweeperAndMainPersist`).

* `PersistInv`: a thread between serializing and writing holds the current state, since
  it keeps the state lock and a writer cannot come in between; and the state covers
  everything saved since the file was last lost, after a restart too. `TornInv`: once
  something was saved the file parses, unless a thread is between truncating and writing it or
  the last write failed; it uses `PersistInv` for what a write leaves behind. Together they give
  `SavesNeverGoBack`.
* `FrozenInv`: a packet with a new country or well-known port that was taken up in Refinement is
  held back (`HeldBack`). Until its look-up nothing is decided; from then on its sum is at
  least 30, and since no signal lowers a sum the worker never gets to the updates. A worker
  that took its packet up in Learning is not bound by this, which is what the
  run `ids_dirty_update` shows. This gives `RefinementFreezesBaseline`: what is known in
  Refinement came with packets taken up in Learning, also if they were still under way at the switch.
* `PhaseInv`: the phase lock is held exactly while the sweeper is between the switch and the
  return of `finish_learning`; in there, before the stamp, the phase is ahead of `learned_at`,
  and never else; the file is never ahead of either. It uses `PersistInv` for what a save
  writes. It gives `PhaseMatchesState` (who can read the phase finds it in agreement with
  `learned_at`), `RestartNeverSkipsLearning` (a step property), and `NobodyWaitsInACircle`, the part
  of `AnalysisCompletes` that needs no fairness: worker waits for sweeper or main, sweeper for
  main, and main's file I/O for no lock. `SweeperGoes` and `WorkerGoes` spell out the guards of their
  next steps, since ENABLED is out of reach.
* The score: `FirstClaimIsTheFlag` and `SignalsNeverLowerTheScore` for any number of signals, by
  induction on it.

`DetectorProofs` compares what each detector keeps with the history of what it was shown, for
any sources, hosts, ports, limits and lengths of the run. Resets, expiry, the sweeper and, for
two of them, other workers in the middle of an inspection lose nothing that a verdict depends on.

* Rate limiter: the tokens of a bucket are the minimum, over all intervals that end now, of what
  an interval has left (`Taken`); some interval is just used up. A source without a bucket has
  no interval that needs the capacity (`Free`), because an idle bucket would be full before
  it is swept: `RateAssumption` has `Capacity <= PktRate * RateIdle` (1000 tokens, 500 a second,
  120 seconds). This gives `PacketRateIsExact`, and the same for the windows gives
  `QuietBurstIsBounded`.
* SYN flood: `CountInv` (the counters are what came since their window began; no entry is swept
  in its window, since `SynAssumption` has `2 * SynWindow <= CountersTtl`) and `TableInv`
  (a worker past its removals finds its connection in the half-open table only if a SYN
  opened it again meanwhile) give
  `SynCountersAreExact`, `CompletedLeavesTable`, `FloodsAreRecent` and `LeavesTableForAReason`.
* Port scan: `SetsInv` says what an entry of a sliding set stands for: the first of the contacts it
  covers. A contact that has no entry was covered by one that is out of the window now. The live
  set thus lies between the ports left alone before and the recent ports, and
  `ScanVerdictsAreRight` compares their sizes with the threshold.
* Together (`Detectors`): a step of one is, for another, a tick of the clock or nothing
  (`OnlyTicksMoveTheClock`), which gives `EachAsIfAlone`, and with it `DetectorsTypeCorrect`.

`InputProofs`:

* `NoSignatureIsLost`, for every text and every set of non-empty signatures: each place before the point
  where the search goes on overlaps a match (`TextInv`).
* `NothingListedIsMissed` and `CheckIsTheList`, for addresses of any width, any lists and any
  filter. `ListInv` is about the locks: an address whose two insertions are half done, a check
  that overtakes the loader (`HalfAdded`, `SetsAreLoaded`, `CheckSound`). The arithmetic is apart
  from it: `MaskKeepsPrefix` says that two addresses agree under a mask exactly when their first
  `prefix` bits agree, by induction from the highest bit down.
* `NameIsRead`, for messages of every length and any bytes: what was walked so far is the labels
  in wire form (`DnsInv`), so the name returned is on the wire.

`Induction` is what the proofs about data rest on. The library's induction theorems have an
operator as parameter, which the installed provers cannot instantiate; stated of a set
(`SetInduction`) induction follows from the library's theorem that `<` is well-founded on
the natural numbers. `RecursionExists` gives a recursive function its values. They are used
for `AllEvents` and `CountEvents` (batches), `AddSignals` (scores), `Pow2` (addresses) and
`Wire` (labels).

Every invariant and every step property of the passing runs is stated by a theorem.
`MCDetectors` and `MCInputs` let one part run at a time, and the theorems are about the
specification of each part alone; `EachAsIfAlone` carries those about the detectors over to
`Detectors`.

Only model-checked: the liveness properties, `EveryItemLeaves`, `CloseEndsConsumers`,
`ShutdownReachesJoin`, `ShutdownCompletes`, `PacketsAreDelivered`, `StreamEndsWithSource`,
`AnalysisCompletes` and `LearningEnds`. Liveness under fairness and ENABLED are outside the
prover's reach.

## 5. Not modelled

* The contents of frames, events, heartbeats and logs; the severity bands.
* The ack task of the packet stream, which only logs.
* Panics: poisoned locks, a period of zero for tokio's `interval`, a zero capacity
  for the mpsc channel. The models assume positive values.
* `observe_rates`, `current_hour_avg_pkt_rate` and `stats`, which nothing calls.
* The thresholds of the DNS detector (lengths, entropy, size of an answer) and its list of
  top-level domains: stateless comparisons whose verdicts are inputs of `IdsEngine`.
* The geo look-up, which is a library with fixed data.
* Fractions of tokens in the rate limiter, and the f32 rounding of scores and ratios.
* Command-line parsing, error types and generated message types.

## 6. Plan

In this order:

1. Done: `RingBuffer`, its abstract queue and proofs; `PacketStream`, `Agent`,
   `OrderedFeed`; `Score`, `Baseline`, `IdsEngine`.
2. Done: `RateLimiter`, `PortScan`, `SynFlood` on a discrete clock; `PacketParser`,
   `DnsName`, `PayloadScan`, `Blacklist`, `AgentIdentity`.
   Proved: `PacketParser` and `AgentIdentity`.
3. Done: the proofs of the detectors, the blacklist, the payload scan and the DNS walk.
4. Done: the proofs of `Agent` and its refinement of `OrderedFeed`, and of `IdsEngine`.
5. Done: the detectors together; what an exit may cut off; the sleep of the analyzer and the
   shutdown that never ends; the switch of phase, its locks and restarts; the score.
6. Open: step properties of the agent (a batch once given to the transport is not sent again;
   the drop count never goes down), and a `DnsDetector` with its thresholds.
