------------------------------ MODULE Baseline ------------------------------
(***************************************************************************)
(* The adaptive baseline of the IDS (src/ids/baseline.rs): what traffic is *)
(* known, the Learning/Refinement phase, and the JSON file they survive    *)
(* in.  Two independent RwLocks protect phase and state.  A method that    *)
(* takes a lock for one statement is one action; the write lock on `phase` *)
(* is held across the whole of finish_learning, and the read lock on       *)
(* `state` across the whole of persist, file I/O included, so these have   *)
(* several actions and the locks are explicit.                             *)
(*                                                                         *)
(* Of the state, the parts that analyze reads back are modelled: ports,    *)
(* countries and DNS domains.  The destination addresses and the protocol  *)
(* distribution are written and saved but never read; observe_rates is     *)
(* never called.                                                           *)
(***************************************************************************)
EXTENDS Integers

CONSTANTS Persisters    \* threads that call persist: the sweeper and main

VARIABLES known,        \* BaselineState: ports, countries, domains
          learned,      \* learned_at > 0
          phase,        \* "Learning" or "Refinement"
          phaseLock,    \* the phase write lock is held (by finish_learning)
          persisting,   \* progress of persist in each thread
          json,         \* the text each thread has serialized
          file          \* what the baseline file holds

baselineVars == <<known, learned, phase, phaseLock, persisting, json, file>>

NothingKnown == [ports |-> {}, countries |-> {}, domains |-> {}]

\* A file that is absent, empty, or cut off does not parse: all the same.
Unreadable == [valid |-> FALSE, known |-> NothingKnown, learned |-> FALSE]
Serialize == [valid |-> TRUE, known |-> known, learned |-> learned]

\* Baseline::new on the file that is there: defaults if it does not parse,
\* Refinement if it says that learning was finished.  Locks start free.
Load(f) ==
    /\ known' = f.known
    /\ learned' = f.learned
    /\ phase' = IF f.learned THEN "Refinement" ELSE "Learning"
    /\ phaseLock' = FALSE
    /\ persisting' = [t \in Persisters |-> "idle"]
    /\ json' = [t \in Persisters |-> Unreadable]
    /\ file' = f

BaselineInit ==
    /\ known = NothingKnown
    /\ learned = FALSE
    /\ phase = "Learning"
    /\ phaseLock = FALSE
    /\ persisting = [t \in Persisters |-> "idle"]
    /\ json = [t \in Persisters |-> Unreadable]
    /\ file = Unreadable

-----------------------------------------------------------------------------
\* phase() and is_learning() wait for a finish_learning in progress.
PhaseReadable == ~phaseLock

\* Mutant of StateWritable: persist serializes, then releases the lock.
StateWritableWhileSaving == TRUE

\* observe_* and the learned_at update take the state write lock, which waits
\* for every persist that holds the read lock.  is_known_* only read.
StateWritable == \A t \in Persisters : persisting[t] = "idle"

\* is_known_port, is_known_country and is_known_dns: a reader waits for no
\* other reader, and writers hold the lock for one statement.
is_known(kind, value) == value \in known[kind]

Observe(kind, value) ==
    /\ StateWritable
    /\ known' = [known EXCEPT ![kind] = @ \cup {value}]
    /\ UNCHANGED <<learned, phase, phaseLock, persisting, json, file>>

-----------------------------------------------------------------------------
\* Mutant of PersistLock: persist() asks for the phase while
\* finish_learning, its caller, holds that lock.
PersistLockAndPhase(t) ==
    /\ PhaseReadable
    /\ persisting[t] = "idle"
    /\ persisting' = [persisting EXCEPT ![t] = "locked"]
    /\ json' = [json EXCEPT ![t] = Serialize]
    /\ UNCHANGED <<known, learned, phase, phaseLock, file>>

\* persist: take the read lock and serialize ...
PersistLock(t) ==
    /\ persisting[t] = "idle"
    /\ persisting' = [persisting EXCEPT ![t] = "locked"]
    /\ json' = [json EXCEPT ![t] = Serialize]
    /\ UNCHANGED <<known, learned, phase, phaseLock, file>>

\* ... open the file, which truncates it ...
PersistTruncate(t) ==
    /\ persisting[t] = "locked"
    /\ persisting' = [persisting EXCEPT ![t] = "truncated"]
    /\ file' = Unreadable
    /\ UNCHANGED <<known, learned, phase, phaseLock, json>>

\* ... and write it.  The lock is released when persist returns.
PersistWrite(t) ==
    /\ persisting[t] = "truncated"
    /\ persisting' = [persisting EXCEPT ![t] = "idle"]
    /\ file' = json[t]
    /\ json' = [json EXCEPT ![t] = Unreadable]
    /\ UNCHANGED <<known, learned, phase, phaseLock>>

\* An I/O error is logged: on open nothing has changed, on write the file is
\* left as it is.
PersistError(t) ==
    /\ persisting[t] \in {"locked", "truncated"}
    /\ persisting' = [persisting EXCEPT ![t] = "idle"]
    /\ json' = [json EXCEPT ![t] = Unreadable]
    /\ UNCHANGED <<known, learned, phase, phaseLock, file>>

PersistIO(t) == PersistTruncate(t) \/ PersistWrite(t) \/ PersistError(t)

\* finish_learning: takes the phase lock and switches, if still Learning.
FinishLearningFlip ==
    /\ PhaseReadable
    /\ phase = "Learning"
    /\ phase' = "Refinement"
    /\ phaseLock' = TRUE
    /\ UNCHANGED <<known, learned, persisting, json, file>>

\* learned_at = now, under the state write lock.  persist follows.
FinishLearningStamp ==
    /\ phaseLock
    /\ StateWritable
    /\ learned' = TRUE
    /\ UNCHANGED <<known, phase, phaseLock, persisting, json, file>>

\* finish_learning returns.
FinishLearningUnlock ==
    /\ phaseLock
    /\ phaseLock' = FALSE
    /\ UNCHANGED <<known, learned, phase, persisting, json, file>>
=============================================================================
