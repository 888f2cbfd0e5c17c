------------------------------ MODULE PortScan ------------------------------
(***************************************************************************)
(* The port scan detector (src/ids/port_scan.rs): sliding sets of the      *)
(* ports a source has contacted and of the sources that have contacted a   *)
(* port.  inspect works on one set after the other, each under the lock of *)
(* its entry; other workers, the sweeper and the clock run in between.     *)
(***************************************************************************)
EXTENDS Clock, FiniteSets

CONSTANTS
    ScanWorkers, ScanSources, ScanPorts,
    SrcHash,         \* ip_hash: the 16 bits that stand for a source
    ScanWindow, PortThreshold, SrcThreshold,
    MaxContacts,     \* bound: packets looked at
    NotScanning      \* a worker outside inspect

ASSUME ScanAssumption ==
    /\ ScanWindow \in Nat \ {0}
    /\ {PortThreshold, SrcThreshold, MaxContacts} \subseteq Nat
    /\ DOMAIN SrcHash = ScanSources
    /\ IsFiniteSet(ScanSources) /\ IsFiniteSet(ScanPorts)
    /\ \A w \in ScanWorkers : NotScanning # w

VARIABLES
    ports_per_src,   \* map: source -> sliding set of ports
    srcs_per_port,   \* map: port -> sliding set of hashes
    scanning,        \* scanning[w]: what w carries from one set to the other
    signal,          \* the last verdict, of any worker
    scanSweep,       \* the sweeper's `now` and the map it is at
    contacts,        \* number of packets looked at
    portTimes,       \* portTimes[src][port]: when the first half saw the two
    srcTimes         \* srcTimes[port][src]: when the second half did

scanState == <<ports_per_src, srcs_per_port, scanning, signal, scanSweep,
               contacts, portTimes, srcTimes>>
scanVars == <<now, scanState>>

\* SlidingSet without its window, which is the same for all.
SlidingSet(vals) == SUBSET [val: vals, at: Times]
Hashes == {SrcHash[src] : src \in ScanSources}

ScanTypeOK ==
    /\ now \in Times
    /\ DOMAIN ports_per_src \subseteq ScanSources
    /\ \A src \in DOMAIN ports_per_src : ports_per_src[src] \in SlidingSet(ScanPorts)
    /\ DOMAIN srcs_per_port \subseteq ScanPorts
    /\ \A port \in DOMAIN srcs_per_port : srcs_per_port[port] \in SlidingSet(Hashes)
    /\ scanning \in [ScanWorkers -> [src: ScanSources, port: ScanPorts] \cup {NotScanning}]
    /\ signal \in {"none", "horizontal", "vertical"}
    /\ scanSweep \in [at: Times, pc: {"asleep", "ports_per_src", "srcs_per_port"}]
    /\ contacts \in Nat
    /\ portTimes \in [ScanSources -> [ScanPorts -> SUBSET Times]]
    /\ srcTimes \in [ScanPorts -> [ScanSources -> SUBSET Times]]

ScanInit ==
    /\ now = 0
    /\ ports_per_src = NoKeys
    /\ srcs_per_port = NoKeys
    /\ scanning = [w \in ScanWorkers |-> NotScanning]
    /\ signal = "none"
    /\ scanSweep = [at |-> 0, pc |-> "asleep"]
    /\ contacts = 0
    /\ portTimes = [src \in ScanSources |-> [port \in ScanPorts |-> {}]]
    /\ srcTimes = [port \in ScanPorts |-> [src \in ScanSources |-> {}]]
-----------------------------------------------------------------------------
SetAt(map, k) == IF k \in DOMAIN map THEN map[k] ELSE {}

\* duration_since is zero for a time that is still to come.
Retain(entries, at) == {e \in entries : at - e.at < ScanWindow}

\* Mutant: the set is searched for the value before the expired entries go.
InsertThenRetain(entries, val) ==
    Retain(IF \E e \in entries : e.val = val THEN entries
           ELSE entries \cup {[val |-> val, at |-> now]}, now)
\* A value that is there already keeps its time.
Insert(entries, val) ==
    LET live == Retain(entries, now)
    IN  IF \E e \in live : e.val = val THEN live
        ELSE live \cup {[val |-> val, at |-> now]}

\* The first half of inspect: one source, many ports.
ScanHorizontal(w, src, port) ==
    LET set == Insert(SetAt(ports_per_src, src), port)
        scan == Cardinality(set) >= PortThreshold
    IN  /\ scanning[w] = NotScanning
        /\ contacts < MaxContacts
        /\ contacts' = contacts + 1
        /\ ports_per_src' = Put(ports_per_src, src, set)
        /\ signal' = IF scan THEN "horizontal" ELSE "none"
        /\ scanning' = IF scan THEN scanning
                       ELSE [scanning EXCEPT ![w] = [src |-> src, port |-> port]]
        /\ portTimes' = [portTimes EXCEPT ![src][port] = @ \cup {now}]
        /\ UNCHANGED <<now, srcs_per_port, scanSweep, srcTimes>>

\* The second half, if the first raised nothing: one port, many sources.
ScanVertical(w) ==
    /\ scanning[w] # NotScanning
    /\ LET src == scanning[w].src
           port == scanning[w].port
           set == Insert(SetAt(srcs_per_port, port), SrcHash[src])
       IN  /\ srcs_per_port' = Put(srcs_per_port, port, set)
           /\ signal' = IF Cardinality(set) >= SrcThreshold THEN "vertical" ELSE "none"
           /\ srcTimes' = [srcTimes EXCEPT ![port][src] = @ \cup {now}]
    /\ scanning' = [scanning EXCEPT ![w] = NotScanning]
    /\ UNCHANGED <<now, ports_per_src, scanSweep, contacts, portTimes>>

\* A map after retain, with the sets emptied by it dropped.
Swept(map, at) ==
    [k \in {j \in DOMAIN map : Retain(map[j], at) # {}} |-> Retain(map[k], at)]

\* The sweeper reads the clock once, then goes through the two maps.
ScanSweepBegin ==
    /\ scanSweep.pc = "asleep"
    /\ scanSweep' = [at |-> now, pc |-> "ports_per_src"]
    /\ UNCHANGED <<now, ports_per_src, srcs_per_port, scanning, signal,
                   contacts, portTimes, srcTimes>>

ScanSweepPorts ==
    /\ scanSweep.pc = "ports_per_src"
    /\ ports_per_src' = Swept(ports_per_src, scanSweep.at)
    /\ scanSweep' = [scanSweep EXCEPT !.pc = "srcs_per_port"]
    /\ UNCHANGED <<now, srcs_per_port, scanning, signal, contacts,
                   portTimes, srcTimes>>

ScanSweepSrcs ==
    /\ scanSweep.pc = "srcs_per_port"
    /\ srcs_per_port' = Swept(srcs_per_port, scanSweep.at)
    /\ scanSweep' = [at |-> 0, pc |-> "asleep"]
    /\ UNCHANGED <<now, ports_per_src, scanning, signal, contacts,
                   portTimes, srcTimes>>

ScanTick == Tick /\ UNCHANGED scanState

ScanNext ==
    \/ \E w \in ScanWorkers :
          \/ \E src \in ScanSources, port \in ScanPorts : ScanHorizontal(w, src, port)
          \/ ScanVertical(w)
    \/ ScanSweepBegin \/ ScanSweepPorts \/ ScanSweepSrcs
    \/ ScanTick

ScanSpec == ScanInit /\ [][ScanNext]_scanVars
-----------------------------------------------------------------------------
\* Some of the times are in the window.
Within(times) == \E t \in times : now - t < ScanWindow

\* The ports that src has contacted in the window, those among them that it
\* had left alone for the whole window before, and the sources of a port.
RecentPorts(src) == {port \in ScanPorts : Within(portTimes[src][port])}
FreshPorts(src) ==
    {port \in RecentPorts(src) :
        \A t \in portTimes[src][port] : now - t < ScanWindow \/ now - t >= 2 * ScanWindow}
RecentSrcs(port) == {src \in ScanSources : Within(srcTimes[port][src])}

HorizontalVerdict(w, src, port) ==
    ScanHorizontal(w, src, port) =>
        /\ signal' = "horizontal" => Cardinality(RecentPorts(src)') >= PortThreshold
        /\ Cardinality(FreshPorts(src)') >= PortThreshold => signal' = "horizontal"

VerticalVerdict(w, port) ==
    ScanVertical(w) /\ scanning[w].port = port /\ signal' = "vertical" =>
        Cardinality(RecentSrcs(port)') >= SrcThreshold

(***************************************************************************)
(* Whatever the sweeper and other workers do meanwhile, a horizontal scan  *)
(* is signalled only if the source has contacted that many ports in the    *)
(* window, and always if it has contacted that many after leaving them     *)
(* alone for a window (port_scan.rs:25-33, 69-77).  A vertical scan is     *)
(* signalled only if that many sources have contacted the port in the      *)
(* window: a hash that two sources share can only hide one (91-101, 131).  *)
(***************************************************************************)
ScanVerdict ==
    [][\A w \in ScanWorkers, src \in ScanSources, port \in ScanPorts :
          HorizontalVerdict(w, src, port) /\ VerticalVerdict(w, port)]_scanVars
=============================================================================
