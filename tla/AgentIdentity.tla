---------------------------- MODULE AgentIdentity ----------------------------
(***************************************************************************)
(* The identity of the agent across its starts (src/agent_identity.rs):    *)
(* the override of --agent-id, the file in the home directory, and every   *)
(* file operation of resolve, any of which may fail.  The process may die  *)
(* at any moment, also between the truncation of the file and the end of   *)
(* the write.  The UUID a start generates is the number of the start; a    *)
(* file with a part of it is not `whole`.                                  *)
(***************************************************************************)
EXTENDS Integers

CONSTANT MaxStarts   \* bound: starts of the agent

ASSUME IdentityAssumption == MaxStarts \in Nat

VARIABLES
    idFile,      \* what the file holds: uuid 0 is nothing
    idPc,
    agent_id,    \* of the running process
    starts,
    kept         \* the identity a start has read from the file or put there

identityVars == <<idFile, idPc, agent_id, starts, kept>>

NoId == [uuid |-> 0, whole |-> FALSE]
Ids == [uuid: 0..MaxStarts, whole: BOOLEAN]
FromCli == [uuid |-> -1, whole |-> TRUE]
Generated == [uuid |-> starts, whole |-> TRUE]

IdentityInit ==
    /\ idFile = NoId
    /\ idPc = "down"
    /\ agent_id = NoId
    /\ starts = 0
    /\ kept = NoId
-----------------------------------------------------------------------------
\* main calls resolve.
IdStart ==
    /\ idPc = "down" /\ starts < MaxStarts
    /\ idPc' = "read"
    /\ starts' = starts + 1
    /\ UNCHANGED <<idFile, agent_id, kept>>

Resolved(id) == agent_id' = id /\ idPc' = "running"

\* --agent-id wins, and without a home directory nothing is kept.
IdOverride ==
    /\ idPc = "read"
    /\ Resolved(FromCli) \/ Resolved(Generated)
    /\ UNCHANGED <<idFile, starts, kept>>

\* Mutant: an empty file is taken as well.
IdReadEmpty ==
    /\ idPc = "read"
    /\ Resolved(idFile)
    /\ kept' = idFile
    /\ UNCHANGED <<idFile, starts>>
\* Whatever the file holds is taken, if it is not empty.
IdRead ==
    /\ idPc = "read" /\ idFile # NoId
    /\ Resolved(idFile)
    /\ kept' = idFile
    /\ UNCHANGED <<idFile, starts>>

\* Mutant: a file that is there is not looked at.
IdGenerateAlways ==
    /\ idPc = "read"
    /\ idPc' = "mkdir"
    /\ UNCHANGED <<idFile, agent_id, starts, kept>>
\* There is no file, or it is empty.
IdGenerate ==
    /\ idPc = "read" /\ idFile = NoId
    /\ idPc' = "mkdir"
    /\ UNCHANGED <<idFile, agent_id, starts, kept>>

\* A file that cannot be read is treated like one that is not there.
IdReadError ==
    /\ idPc = "read" /\ idFile # NoId
    /\ idPc' = "mkdir"
    /\ kept' = NoId
    /\ UNCHANGED <<idFile, agent_id, starts>>

\* create_dir_all, and the failure that leaves the identity unsaved.
IdMkdir ==
    /\ idPc = "mkdir"
    /\ \/ idPc' = "write" /\ UNCHANGED agent_id
       \/ Resolved(Generated)
    /\ UNCHANGED <<idFile, starts, kept>>

\* fs::write truncates the file and writes into it; either may fail.
IdTruncate ==
    /\ idPc = "write"
    /\ \/ idFile' = NoId /\ idPc' = "writing" /\ UNCHANGED agent_id
       \/ Resolved(Generated) /\ UNCHANGED idFile
    /\ UNCHANGED <<starts, kept>>

IdWrite ==
    /\ idPc = "writing"
    /\ idFile' = Generated
    /\ kept' = Generated
    /\ Resolved(Generated)
    /\ UNCHANGED starts

IdWriteError ==
    /\ idPc = "writing"
    /\ idFile' \in {NoId, [Generated EXCEPT !.whole = FALSE]}
    /\ Resolved(Generated)
    /\ UNCHANGED <<starts, kept>>

\* The process ends or dies; in the middle of a write, with a part of it.
IdDown ==
    /\ idPc # "down"
    /\ idPc' = "down"
    /\ agent_id' = NoId
    /\ idFile' \in {idFile} \cup
          (IF idPc = "writing" THEN {[Generated EXCEPT !.whole = FALSE]} ELSE {})
    /\ UNCHANGED <<starts, kept>>

IdentityNext ==
    \/ IdStart \/ IdOverride \/ IdRead \/ IdGenerate \/ IdReadError
    \/ IdMkdir \/ IdTruncate \/ IdWrite \/ IdWriteError \/ IdDown

IdentitySpec == IdentityInit /\ [][IdentityNext]_identityVars
-----------------------------------------------------------------------------
IdentityTypeOK ==
    /\ idFile \in Ids
    /\ idPc \in {"down", "read", "mkdir", "write", "writing", "running"}
    /\ agent_id \in Ids \cup {FromCli}
    /\ starts \in 0..MaxStarts
    /\ kept \in Ids

(***************************************************************************)
(* Once a start has read its identity from the file or has put it there,   *)
(* the file holds it and no later start changes it, through any crash and  *)
(* any failure except that of reading, after which resolve writes a new    *)
(* one over it (agent_identity.rs:27-43).                                  *)
(***************************************************************************)
IdentityIsKept ==
    [][kept # NoId /\ ~IdReadError => kept' = kept /\ idFile' = kept]_identityVars

(***************************************************************************)
(* A running agent never has an empty identity, and a part of one only if  *)
(* an earlier start died or failed in the middle of its write; then the    *)
(* file has it, so that the next start has the same                        *)
(* (agent_identity.rs:28-31, 41).                                          *)
(***************************************************************************)
RunningHasIdentity ==
    idPc = "running" =>
        /\ agent_id.uuid # 0
        /\ ~agent_id.whole => idFile = agent_id /\ agent_id.uuid < starts
=============================================================================
