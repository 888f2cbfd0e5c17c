------------------------------ MODULE IdsEngine ------------------------------
(***************************************************************************)
(* IdsEngine::analyze (src/ids/mod.rs) run by several worker threads at    *)
(* once, against the shared baseline, the sweeper thread that ends the     *)
(* learning phase and saves the baseline, the last save by main, and       *)
(* crashes with a restart from the file.                                   *)
(*                                                                         *)
(* A step of a worker reads or writes the baseline under one lock, so that *)
(* everything may happen between two of its look-ups.  What the other      *)
(* detectors say about a packet is part of the packet: the signals of      *)
(* blacklist, rate limiter, port scan, SYN flood, ICMP, fragmentation and  *)
(* truncation are `early`, those of the payload scanner `payload`, the     *)
(* VLAN check `late`.  `name` are the signals of DnsDetector::inspect_name *)
(* and `tunnel` those that only inspect_payload adds.                      *)
(* A packet without transport returns at once and is not modelled.         *)
(***************************************************************************)
EXTENDS Baseline, Score

CONSTANTS Workers,          \* the threads that call analyze
          Packets,          \* the packets they may be given
          WellKnownPorts,   \* WELL_KNOWN_PORTS
          None,             \* an absent country, domain or port
          MaxRestarts       \* bound: crashes followed by a restart

\* The detectors report the constants of score.rs, none of them negative.
ASSUME PacketsAssumption ==
    \A p \in Packets :
        /\ p.early \in Seq(Signals) /\ p.payload \in Seq(Signals)
        /\ p.name \in Seq(Signals) /\ p.tunnel \in Seq(Signals)
        /\ p.late \in Seq(Signals)

ASSUME SweeperAndMainPersist == Persisters = {"sweeper", "main"}

VARIABLES job,          \* what each worker is doing
          sweeper,      \* progress of the sweeper thread
          elapsed,      \* the learning duration has elapsed
          stopping,     \* main has joined the workers and saves the baseline
          restarts,     \* how often the agent was restarted
          legit,        \* history: traits of packets taken up while Learning
          saved,        \* history: all that was written to the file, by this
                        \* and earlier processes, since it was last lost
          failed        \* history: the last write to the file has failed

engineVars == <<job, sweeper, elapsed, stopping, restarts, legit, saved, failed>>
vars == <<baselineVars, engineVars>>

NoPacket == [early |-> <<>>, country |-> None, payload |-> <<>>,
             domain |-> None, listed |-> FALSE, name |-> <<>>, tunnel |-> <<>>,
             port |-> None, late |-> <<>>]

Idle == [at |-> "idle", pkt |-> NoPacket, acc |-> NoSignals]

Init ==
    /\ BaselineInit
    /\ job = [w \in Workers |-> Idle]
    /\ sweeper = "sleep"
    /\ elapsed = FALSE
    /\ stopping = FALSE
    /\ restarts = 0
    /\ legit = NothingKnown
    /\ saved = Unreadable
    /\ failed = FALSE

-----------------------------------------------------------------------------
(* analyze, one look-up or update of the baseline at a time. *)

OnlyWorker == UNCHANGED <<sweeper, elapsed, stopping, restarts, saved, failed>>

\* Worker w moves on to step `at` with the accumulated signals acc.
Goto(w, at, acc) == job' = [job EXCEPT ![w].at = at, ![w].acc = acc]

Begin(w, p) ==
    /\ job[w].at = "idle"
    /\ ~stopping
    /\ job' = [job EXCEPT ![w] =
                 [at |-> IF p.country = None THEN "dns" ELSE "geo_phase",
                  pkt |-> p,
                  acc |-> AddSignals(NoSignals,
                              p.early \o (IF p.country = None THEN p.payload ELSE <<>>))]]
    /\ legit' = IF phase = "Learning"
                THEN [legit EXCEPT !.countries = @ \cup {p.country},
                                   !.ports = @ \cup {p.port}]
                ELSE legit
    /\ OnlyWorker
    /\ UNCHANGED baselineVars

\* Geo anomaly: baseline.phase() ...
GeoPhase(w) ==
    /\ job[w].at = "geo_phase"
    /\ PhaseReadable
    /\ IF phase = "Refinement"
       THEN Goto(w, "geo_known", job[w].acc)
       ELSE Goto(w, "dns", AddSignals(job[w].acc, job[w].pkt.payload))
    /\ OnlyWorker
    /\ UNCHANGED <<baselineVars, legit>>

\* ... then is_known_country; the payload scanner follows.
GeoKnown(w) ==
    /\ job[w].at = "geo_known"
    /\ LET geo == IF is_known("countries", job[w].pkt.country)
                  THEN <<>> ELSE <<Signal(4, SCORE_GEO_ANOMALY)>>
       IN  Goto(w, "dns", AddSignals(job[w].acc, geo \o job[w].pkt.payload))
    /\ OnlyWorker
    /\ UNCHANGED <<baselineVars, legit>>

\* DNS: domain blacklist, inspect_name unless the domain is known, then
\* inspect_payload, which runs inspect_name again whatever is known.
Dns(w) ==
    /\ job[w].at = "dns"
    /\ LET p == job[w].pkt
           knows == is_known("domains", p.domain)
           found == (IF p.listed THEN <<Signal(7, SCORE_BLACKLIST_DOMAIN)>> ELSE <<>>)
                    \o (IF knows THEN <<>> ELSE p.name)
                    \o p.name \o p.tunnel
       IN  job' = [job EXCEPT
                     ![w].at = IF p.port = None THEN "decide" ELSE "port_phase",
                     ![w].acc = IF p.domain = None THEN @ ELSE AddSignals(@, found)]
    /\ OnlyWorker
    /\ UNCHANGED <<baselineVars, legit>>

\* Unusual port: baseline.phase() again ...
PortPhase(w) ==
    /\ job[w].at = "port_phase"
    /\ PhaseReadable
    /\ Goto(w, IF phase = "Refinement" THEN "port_known" ELSE "decide", job[w].acc)
    /\ OnlyWorker
    /\ UNCHANGED <<baselineVars, legit>>

\* ... then is_known_port.  The signal claims no flag.
PortKnown(w) ==
    /\ job[w].at = "port_known"
    /\ LET port == job[w].pkt.port
           score == IF port \in WellKnownPorts
                    THEN SCORE_UNUSUAL_PORT_NETWORK ELSE SCORE_UNUSUAL_PORT_GLOBAL
       IN  Goto(w, "decide",
                IF is_known("ports", port) THEN job[w].acc
                                        ELSE AddSignal(job[w].acc, Signal(0, score)))
    /\ OnlyWorker
    /\ UNCHANGED <<baselineVars, legit>>

\* from_signals, and the decision to update: is_learning() is read here, the
\* updates come later.
Decide(w) ==
    /\ job[w].at = "decide"
    /\ PhaseReadable
    /\ LET acc == AddSignals(job[w].acc, job[w].pkt.late)
       IN  Goto(w, IF phase = "Learning" \/ is_clean(acc)
                   THEN "observe_port" ELSE "report", acc)
    /\ OnlyWorker
    /\ UNCHANGED <<baselineVars, legit>>

\* Mutant of ObserveStep: an absent trait is stored as well.
ObserveStepAlways(w, at, kind, value, next) ==
    /\ job[w].at = at
    /\ Observe(kind, value)
    /\ Goto(w, next, job[w].acc)
    /\ OnlyWorker
    /\ UNCHANGED legit

\* One observe_* call; an absent trait is skipped.
ObserveStep(w, at, kind, value, next) ==
    /\ job[w].at = at
    /\ IF value = None THEN UNCHANGED baselineVars ELSE Observe(kind, value)
    /\ Goto(w, next, job[w].acc)
    /\ OnlyWorker
    /\ UNCHANGED legit

ObservePort(w) ==
    ObserveStep(w, "observe_port", "ports", job[w].pkt.port, "observe_country")
ObserveCountry(w) ==
    ObserveStep(w, "observe_country", "countries", job[w].pkt.country, "observe_domain")
ObserveDomain(w) ==
    ObserveStep(w, "observe_domain", "domains", job[w].pkt.domain, "report")

\* The result is returned to score_one.
Report(w) ==
    /\ job[w].at = "report"
    /\ job' = [job EXCEPT ![w] = Idle]
    /\ OnlyWorker
    /\ UNCHANGED <<baselineVars, legit>>

Analyze(w) ==
    \/ GeoPhase(w) \/ GeoKnown(w) \/ Dns(w) \/ PortPhase(w) \/ PortKnown(w)
    \/ Decide(w) \/ ObservePort(w) \/ ObserveCountry(w) \/ ObserveDomain(w)
    \/ Report(w)

-----------------------------------------------------------------------------
(* The sweeper: tick_phase, finish_learning, persist. *)

OnlySweeper == UNCHANGED <<job, elapsed, stopping, restarts, legit>>

\* What was saved, once thread t has written its text, or could not.
SavedAfterIO(t) ==
    /\ saved' = IF persisting[t] = "truncated" /\ file' = json[t]
                THEN [valid |-> TRUE,
                      known |-> [k \in DOMAIN saved.known |->
                                   saved.known[k] \cup json[t].known[k]],
                      learned |-> saved.learned \/ json[t].learned]
                ELSE saved
    /\ failed' = IF persisting[t] = "truncated" /\ persisting'[t] = "idle"
                 THEN file' # json[t] ELSE failed

\* Mutant of SweeperTick: the switch is due only in the Refinement phase.
SweeperTickInverted ==
    /\ sweeper = "sleep"
    /\ PhaseReadable
    /\ sweeper' = IF phase = "Refinement" /\ elapsed THEN "flip" ELSE "save"
    /\ OnlySweeper
    /\ UNCHANGED <<baselineVars, saved, failed>>

\* The sleep is over and the detectors are swept; tick_phase looks at the
\* phase and at the clock.
SweeperTick ==
    /\ sweeper = "sleep"
    /\ PhaseReadable
    /\ sweeper' = IF phase = "Learning" /\ elapsed THEN "flip" ELSE "save"
    /\ OnlySweeper
    /\ UNCHANGED <<baselineVars, saved, failed>>

SweeperFlip ==
    /\ sweeper = "flip"
    /\ FinishLearningFlip
    /\ sweeper' = "stamp"
    /\ OnlySweeper
    /\ UNCHANGED <<saved, failed>>

SweeperStamp ==
    /\ sweeper = "stamp"
    /\ FinishLearningStamp
    /\ sweeper' = "save_flip"
    /\ OnlySweeper
    /\ UNCHANGED <<saved, failed>>

\* persist, called by finish_learning or by the sweeper itself.
SweeperSave ==
    /\ sweeper \in {"save_flip", "save"}
    /\ PersistLock("sweeper")
    /\ sweeper' = IF sweeper = "save_flip" THEN "saving_flip" ELSE "saving"
    /\ OnlySweeper
    /\ UNCHANGED <<saved, failed>>

SweeperIO ==
    /\ sweeper \in {"saving_flip", "saving"}
    /\ PersistIO("sweeper")
    /\ SavedAfterIO("sweeper")
    /\ sweeper' = IF persisting'["sweeper"] # "idle" THEN sweeper
                  ELSE IF sweeper = "saving_flip" THEN "unlock" ELSE "sleep"
    /\ OnlySweeper

SweeperUnlock ==
    /\ sweeper = "unlock"
    /\ FinishLearningUnlock
    /\ sweeper' = "save"
    /\ OnlySweeper
    /\ UNCHANGED <<saved, failed>>

Sweep ==
    \/ SweeperTick \/ SweeperFlip \/ SweeperStamp \/ SweeperSave \/ SweeperIO
    \/ SweeperUnlock

\* Thirty minutes have passed since Baseline::new.
LearningTimeOver ==
    /\ ~elapsed
    /\ elapsed' = TRUE
    /\ UNCHANGED <<baselineVars, job, sweeper, stopping, restarts, legit, saved, failed>>

-----------------------------------------------------------------------------
(* The end of main, and crashes. *)

\* The last thing main does, with no worker left, while the sweeper goes on.
MainSave ==
    /\ ~stopping
    /\ \A w \in Workers : job[w].at = "idle"
    /\ PersistLock("main")
    /\ stopping' = TRUE
    /\ UNCHANGED <<job, sweeper, elapsed, restarts, legit, saved, failed>>

MainIO ==
    /\ PersistIO("main")
    /\ SavedAfterIO("main")
    /\ UNCHANGED <<job, sweeper, elapsed, stopping, restarts, legit>>

\* The process ends, wherever its threads are (a crash, a signal, or main
\* returning while the sweeper is at work), and is started again.  If the file
\* does not parse, all that was saved is lost; the history goes on otherwise.
Restart ==
    /\ restarts < MaxRestarts
    /\ restarts' = restarts + 1
    /\ Load(file)
    /\ job' = [w \in Workers |-> Idle]
    /\ sweeper' = "sleep"
    /\ elapsed' = FALSE
    /\ stopping' = FALSE
    /\ legit' = file.known
    /\ saved' = IF file.valid THEN saved ELSE Unreadable
    /\ failed' = FALSE

-----------------------------------------------------------------------------
Next ==
    \/ \E w \in Workers : (\E p \in Packets : Begin(w, p)) \/ Analyze(w)
    \/ Sweep \/ LearningTimeOver \/ MainSave \/ MainIO \/ Restart

Spec == Init /\ [][Next]_vars

\* Threads run and file I/O ends.  An observe_* call waits for the readers of
\* the state lock, which come again and again; the RwLock lets a waiting
\* writer go first, hence strong fairness.
FairSpec ==
    /\ Spec
    /\ \A w \in Workers : SF_vars(Analyze(w))
    /\ WF_vars(Sweep)
    /\ WF_vars(MainIO)

-----------------------------------------------------------------------------
\* Types of the shared baseline, in which no absent trait is ever stored, and
\* of the threads' progress.
TypeOK ==
    /\ known \in [ports : SUBSET ({p.port : p \in Packets} \ {None}),
                  countries : SUBSET ({p.country : p \in Packets} \ {None}),
                  domains : SUBSET ({p.domain : p \in Packets} \ {None})]
    /\ learned \in BOOLEAN
    /\ phase \in {"Learning", "Refinement"}
    /\ phaseLock \in BOOLEAN
    /\ \A t \in Persisters : persisting[t] \in {"idle", "locked", "truncated"}
    /\ \A w \in Workers : job[w].pkt \in Packets \cup {NoPacket}
    /\ sweeper \in {"sleep", "flip", "stamp", "save_flip", "saving_flip",
                    "unlock", "save", "saving"}
    /\ elapsed \in BOOLEAN /\ stopping \in BOOLEAN /\ failed \in BOOLEAN

\* In Refinement, a new country or a new well-known port is never learned:
\* its own signal keeps its packet from being clean.  The only packets that
\* can still add one are those taken up before the switch, whichever way
\* their look-ups and updates interleave with it.
RefinementIsFrozen ==
    phase = "Refinement" =>
        /\ known.countries \subseteq legit.countries
        /\ (known.ports \cap WellKnownPorts) \subseteq legit.ports

\* The two threads that save never put an older baseline over a newer one
\* (baseline.rs:191-204): a file that parses includes all that was written
\* before it, by this process and by those before it.  A file that does not
\* parse although one was written is in the middle of a save, or its last
\* write has failed.  Only a process that ends there, between the truncation
\* and the write, loses what was saved: the next one begins with nothing
\* (baseline.rs:75-78), and what is written counts from then on.
FileIsNewest ==
    IF file.valid
    THEN /\ \A k \in DOMAIN saved.known : saved.known[k] \subseteq file.known[k]
         /\ saved.learned => file.learned
    ELSE saved.valid => failed \/ \E t \in Persisters : persisting[t] = "truncated"

\* finish_learning holds the phase lock across a save that takes the state
\* lock, and analyze takes both in turn: nobody waits for ever.
AnalysisCompletes ==
    \A w \in Workers : (job[w].at # "idle") ~> (job[w].at = "idle")

\* When the learning time is over the sweeper ends the Learning phase, unless
\* the agent is restarted first, which starts the clock anew.
LearningEnds == elapsed ~> (phase = "Refinement" \/ ~elapsed)

\* "Alerts active; baseline updated only from clean traffic."
OnlyCleanTrafficLearned ==
    \A w \in Workers :
        (phase = "Refinement"
         /\ job[w].at \in {"observe_port", "observe_country", "observe_domain"})
        => is_clean(job[w].acc)
=============================================================================
