------------------------------ MODULE SynFlood ------------------------------
(***************************************************************************)
(* The SYN flood detector (src/ids/syn_flood.rs): SYN and ACK counts per   *)
(* source in windows of fixed length, and the table of half-open           *)
(* connections.  inspect takes one lock after the other: the counters of   *)
(* the source, then each insertion, removal and look-up in the table.  The *)
(* workers score a batch in parallel, so packets of one connection may be  *)
(* inspected at the same time and in any order.                            *)
(*                                                                         *)
(* A connection is the ordered pair of its end points.                     *)
(***************************************************************************)
EXTENDS Clock, FiniteSets

CONSTANTS
    SynWorkers, Hosts,
    SynMin,             \* SYNs below which no ratio is looked at
    RatioThreshold,     \* syn_ack_ratio_threshold
    SynWindow,          \* PerIpCounters::window
    CountersTtl,        \* age at which the sweeper drops the counters
    HalfOpenThreshold, HalfOpenTtl,
    MaxSegments,        \* bound: packets looked at
    Idle                \* a worker outside inspect

ASSUME SynAssumption ==
    /\ {SynMin, RatioThreshold, HalfOpenThreshold, MaxSegments} \subseteq Nat
    /\ {SynWindow, CountersTtl, HalfOpenTtl} \subseteq Nat \ {0}
    /\ 2 * SynWindow <= CountersTtl   \* ten windows

VARIABLES
    counters,     \* map: source -> its SYN and ACK counts
    half_open,    \* map: connection -> time of its SYN
    inspecting,   \* inspecting[w]: the packet of w and the next step
    reopened,     \* reopened[w]: connections with a SYN since w took its packet
    raised,       \* the signals of the last step, of any worker
    synsSince,    \* synsSince[src][s]: SYNs of src since s
    acksSince,    \* acksSince[src][s]: ACKs of src since s
    segments

history == <<synsSince, acksSince, segments>>
synState == <<counters, half_open, inspecting, reopened, raised, history>>
synVars == <<now, synState>>

Flows == {f \in Hosts \X Hosts : f[1] # f[2]}
Reverse(f) == <<f[2], f[1]>>

\* The flag bytes that inspect tells apart; a SYN-ACK is treated as an ACK.
Flags == {{"SYN"}, {"SYN", "RST"}, {"ACK"}, {"ACK", "RST"}, {"RST"}, {"FIN", "PSH", "URG"}}
IsSyn(flags) == "SYN" \in flags /\ "ACK" \notin flags
IsRst(flags) == "RST" \in flags
\* is_syn_ack || is_ack
HasAck(flags) == "ACK" \in flags
Completes(flags) == ~IsSyn(flags) /\ (HasAck(flags) \/ IsRst(flags))
IsXmas(flags) == flags = {"FIN", "PSH", "URG"}

Steps == {"track", "forget", "count", "rst_flow", "rst_rev"}
Signals == {"syn_flood", "half_open_high", "rst_injection", "xmas_scan"}
Inspection == [flow: Flows, flags: Flags, pc: Steps,
               tracked: BOOLEAN]

SynTypeOK ==
    /\ now \in Times
    /\ DOMAIN counters \subseteq Hosts
    /\ \A src \in DOMAIN counters :
          counters[src] \in [syns: Nat, acks: Nat, last_reset: Times]
    /\ DOMAIN half_open \subseteq Flows
    /\ \A f \in DOMAIN half_open : half_open[f] \in Times
    /\ inspecting \in [SynWorkers -> Inspection \cup {Idle}]
    /\ reopened \in [SynWorkers -> SUBSET Flows]
    /\ raised \subseteq Signals
    /\ synsSince \in [Hosts -> [Times -> Nat]]
    /\ acksSince \in [Hosts -> [Times -> Nat]]
    /\ segments \in Nat

SynInit ==
    /\ now = 0
    /\ counters = NoKeys
    /\ half_open = NoKeys
    /\ inspecting = [w \in SynWorkers |-> Idle]
    /\ reopened = [w \in SynWorkers |-> {}]
    /\ raised = {}
    /\ synsSince = [src \in Hosts |-> [s \in Times |-> 0]]
    /\ acksSince = synsSince
    /\ segments = 0
-----------------------------------------------------------------------------
NewCounters == [syns |-> 0, acks |-> 0, last_reset |-> now]

\* Mutant: only the SYNs start anew.
ResetSynsOnly(c) ==
    IF now - c.last_reset >= SynWindow THEN [c EXCEPT !.syns = 0, !.last_reset = now] ELSE c
MaybeReset(c) == IF now - c.last_reset >= SynWindow THEN NewCounters ELSE c

CountersOf(src) == IF src \in DOMAIN counters THEN counters[src] ELSE NewCounters

IsFlood(c) ==
    /\ c.syns >= SynMin
    /\ c.syns >= RatioThreshold * (IF c.acks = 0 THEN 1 ELSE c.acks)

\* Adds n to what a history says of every interval that ends now.
AddSince(count, src, n) ==
    [count EXCEPT ![src] = [s \in Times |-> @[s] + (IF s <= now THEN n ELSE 0)]]

One(b) == IF b THEN 1 ELSE 0

\* Mutant: only a SYN ends the window.
CountedResettingOnSyn(src, flags) ==
    LET c == CountersOf(src)
        reset == IF IsSyn(flags) THEN MaybeReset(c) ELSE c
    IN  [reset EXCEPT !.syns = @ + One(IsSyn(flags)), !.acks = @ + One(HasAck(flags))]

\* The counters of src with a packet of these flags counted: any packet may
\* end the window, a SYN or an ACK counts.
CountPacket(src, flags) ==
    LET reset == MaybeReset(CountersOf(src))
    IN  [reset EXCEPT !.syns = @ + One(IsSyn(flags)), !.acks = @ + One(HasAck(flags))]

\* A worker enters inspect and counts its packet.  Any packet of a source whose
\* counters say so raises the flood.
SynCounters(w, f, flags) ==
    LET src == f[1]
        c == CountPacket(src, flags)
    IN  /\ inspecting[w] = Idle
        /\ segments < MaxSegments
        /\ segments' = segments + 1
        /\ counters' = Put(counters, src, c)
        /\ raised' = IF IsFlood(c) THEN {"syn_flood"} ELSE {}
        /\ inspecting' = [inspecting EXCEPT ![w] =
               [flow |-> f, flags |-> flags, pc |-> "track",
                tracked |-> {f, Reverse(f)} \cap DOMAIN half_open # {}]]
        /\ reopened' = [reopened EXCEPT ![w] = {}]
        /\ synsSince' = AddSince(synsSince, src, One(IsSyn(flags)))
        /\ acksSince' = AddSince(acksSince, src, One(HasAck(flags)))
        /\ UNCHANGED <<now, half_open>>

At(w, pc) == inspecting[w] # Idle /\ inspecting[w].pc = pc
Goto(w, pc) == inspecting' = [inspecting EXCEPT ![w].pc = pc]
Leave(w) == inspecting' = [inspecting EXCEPT ![w] = Idle]

\* Opens the connection of a SYN, or removes the reverse of any other.
SynTrack(w) ==
    LET f == inspecting[w].flow
        flags == inspecting[w].flags
    IN  /\ At(w, "track")
        /\ \/ /\ IsSyn(flags)
              /\ half_open' = Put(half_open, f, now)
              /\ reopened' = [v \in SynWorkers |-> reopened[v] \cup {f}]
              /\ Goto(w, "count")
           \/ /\ Completes(flags)
              /\ half_open' = Without(half_open, {Reverse(f)})
              /\ Goto(w, "forget")
              /\ UNCHANGED reopened
           \/ /\ ~IsSyn(flags) /\ ~Completes(flags)
              /\ Goto(w, "count")
              /\ UNCHANGED <<half_open, reopened>>
        /\ raised' = {}
        /\ UNCHANGED <<now, counters, history>>

\* Mutant: only the reverse is removed.
SynForgetNothing(w) ==
    /\ At(w, "forget")
    /\ raised' = {}
    /\ Goto(w, "count")
    /\ UNCHANGED <<now, counters, half_open, reopened, history>>
SynForget(w) ==
    /\ At(w, "forget")
    /\ half_open' = Without(half_open, {inspecting[w].flow})
    /\ raised' = {}
    /\ Goto(w, "count")
    /\ UNCHANGED <<now, counters, reopened, history>>

\* The size of the table; a packet without RST is done.
SynCount(w) ==
    /\ At(w, "count")
    /\ raised' = (IF Cardinality(DOMAIN half_open) >= HalfOpenThreshold
                  THEN {"half_open_high"} ELSE {})
                 \cup (IF IsXmas(inspecting[w].flags) THEN {"xmas_scan"} ELSE {})
    /\ IF IsRst(inspecting[w].flags) THEN Goto(w, "rst_flow") ELSE Leave(w)
    /\ UNCHANGED <<now, counters, half_open, reopened, history>>

\* The two look-ups of the RST check.
SynRstFlow(w) ==
    /\ At(w, "rst_flow")
    /\ raised' = {}
    /\ IF inspecting[w].flow \in DOMAIN half_open THEN Leave(w) ELSE Goto(w, "rst_rev")
    /\ UNCHANGED <<now, counters, half_open, reopened, history>>

SynRstRev(w) ==
    /\ At(w, "rst_rev")
    /\ raised' = IF Reverse(inspecting[w].flow) \in DOMAIN half_open
                 THEN {} ELSE {"rst_injection"}
    /\ Leave(w)
    /\ UNCHANGED <<now, counters, half_open, reopened, history>>

\* Mutant: the table is swept by the window of the counters.
ExpiredByWindow(f) == now - half_open[f] >= SynWindow
Expired(f) == now - half_open[f] >= HalfOpenTtl

CountersStale(c) == now - c.last_reset >= CountersTtl

\* The two passes of the sweeper; each reads the clock at every entry.
SynSweepHalfOpen ==
    /\ half_open' = Without(half_open, {f \in DOMAIN half_open : Expired(f)})
    /\ raised' = {}
    /\ UNCHANGED <<now, counters, inspecting, reopened, history>>

SynSweepCounters ==
    /\ counters' = Without(counters, {src \in DOMAIN counters : CountersStale(counters[src])})
    /\ raised' = {}
    /\ UNCHANGED <<now, half_open, inspecting, reopened, history>>

SynTick == Tick /\ UNCHANGED synState

SynNext ==
    \/ \E w \in SynWorkers :
          \/ \E f \in Flows, flags \in Flags : SynCounters(w, f, flags)
          \/ SynTrack(w) \/ SynForget(w) \/ SynCount(w)
          \/ SynRstFlow(w) \/ SynRstRev(w)
    \/ SynSweepHalfOpen \/ SynSweepCounters
    \/ SynTick

SynSpec == SynInit /\ [][SynNext]_synVars
-----------------------------------------------------------------------------
(***************************************************************************)
(* The counters say exactly how many SYNs and ACKs a source has sent since *)
(* they were last reset, and what the sweeper has dropped is older than a  *)
(* window (syn_flood.rs:36-42, 95-105, 170): a flood is judged by real     *)
(* packets, none counted twice, none forgotten, by any number of workers.  *)
(***************************************************************************)
CountersAreExact ==
    \A src \in Hosts :
        IF src \in DOMAIN counters
        THEN LET c == counters[src]
             IN  /\ c.syns = synsSince[src][c.last_reset]
                 /\ c.acks = acksSince[src][c.last_reset]
        ELSE \A s \in Times : now - s < SynWindow =>
                 synsSince[src][s] = 0 /\ acksSince[src][s] = 0

(***************************************************************************)
(* A packet, be it a SYN, an ACK, an RST or another, is signalled as a     *)
(* flood only if its source has sent, within the last window, enough SYNs, *)
(* and too many for its ACKs of the same time (syn_flood.rs:99-106).       *)
(***************************************************************************)
FloodIsRecent ==
    [][\A w \in SynWorkers, src \in Hosts :
          /\ inspecting[w] = Idle /\ inspecting'[w] # Idle
          /\ inspecting'[w].flow[1] = src
          /\ "syn_flood" \in raised'
          => \E s \in 0..now :
                 /\ now - s < SynWindow
                 /\ synsSince'[src][s] >= SynMin
                 /\ synsSince'[src][s] >= RatioThreshold * acksSince'[src][s]]_synVars

(***************************************************************************)
(* A connection leaves the table only when it is older than the limit, or  *)
(* when an ACK or an RST of its own is being inspected (syn_flood.rs:127,  *)
(* 168).                                                                   *)
(***************************************************************************)
LeavesForAReason ==
    [][\A f \in DOMAIN half_open \ DOMAIN half_open' :
          \/ now - half_open[f] >= HalfOpenTtl
          \/ \E w \in SynWorkers :
                /\ inspecting[w] # Idle
                /\ inspecting[w].flow \in {f, Reverse(f)}
                /\ Completes(inspecting[w].flags)]_synVars

(***************************************************************************)
(* Once a worker has removed a connection, the table has an entry for it   *)
(* only if another worker has inspected a SYN of it since the first took   *)
(* its packet (syn_flood.rs:126-130): no completed connection stays in the *)
(* table unless its packets were inspected out of order.                   *)
(***************************************************************************)
CompletedIsForgotten ==
    \A w \in SynWorkers :
        /\ inspecting[w] # Idle
        /\ inspecting[w].pc \in {"count", "rst_flow", "rst_rev"}
        /\ Completes(inspecting[w].flags)
        => {inspecting[w].flow, Reverse(inspecting[w].flow)} \cap DOMAIN half_open
               \subseteq reopened[w]

(***************************************************************************)
(* What the comment at syn_flood.rs:144 says of an RST: it is suspicious   *)
(* without a matching half-open entry, so that one of a tracked connection *)
(* is not signalled.                                                       *)
(***************************************************************************)
RstOfTrackedIsQuiet ==
    [][\A w \in SynWorkers :
          SynRstRev(w) /\ inspecting[w].tracked => "rst_injection" \notin raised']_synVars
=============================================================================
