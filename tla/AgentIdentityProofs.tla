------------------------- MODULE AgentIdentityProofs -------------------------
(***************************************************************************)
(* The identity file for every number of starts.                           *)
(*                                                                         *)
(* Neither property is inductive by itself.  That a saved identity is kept *)
(* needs to know that no start is on its way to a write while one is       *)
(* saved: only a start that found no file, or failed to read it, is.       *)
(* That a running agent has an identity needs to know that what the file   *)
(* holds comes from an earlier start for as long as resolve may read it.   *)
(***************************************************************************)
EXTENDS AgentIdentity, TLAPS

Writers == {"mkdir", "write", "writing"}

\* A saved identity is in the file, and nobody is about to write another.
KeptIsInFile == kept # NoId => idFile = kept /\ idPc \notin Writers

\* What the file holds is nothing, or the UUID of a start; of an earlier one
\* until this start has written its own.
FileIsFromAStart ==
    /\ idFile.uuid = 0 => idFile = NoId
    /\ idFile.uuid <= starts
    /\ idPc \in Writers \cup {"read"} => idFile.uuid < starts
    /\ idPc # "down" => starts > 0

IdentityInv == IdentityTypeOK /\ KeptIsInFile /\ FileIsFromAStart /\ RunningHasIdentity

\* Initially there is no file and no process.
LEMMA IdentityInitially == IdentityInit => IdentityInv
  BY IdentityAssumption DEF IdentityInit, IdentityInv, IdentityTypeOK, KeptIsInFile,
       FileIsFromAStart, RunningHasIdentity, Ids, NoId, Writers

\* Every file operation of resolve, every failure and every crash keeps the
\* invariant.
LEMMA IdentityStep == IdentityInv /\ [IdentityNext]_identityVars => IdentityInv'
  <1> SUFFICES ASSUME IdentityInv, [IdentityNext]_identityVars PROVE IdentityInv'
    OBVIOUS
  <1> USE IdentityAssumption
        DEF IdentityInv, IdentityTypeOK, KeptIsInFile, FileIsFromAStart,
            RunningHasIdentity, Ids, NoId, Writers, Generated, FromCli, Resolved
  <1>1. CASE IdStart        BY <1>1 DEF IdStart
  <1>2. CASE IdOverride
    <2>1. CASE Resolved(FromCli)    BY <1>2, <2>1 DEF IdOverride
    <2>2. CASE Resolved(Generated)  BY <1>2, <2>2 DEF IdOverride
    <2> QED BY <1>2, <2>1, <2>2 DEF IdOverride
  <1>3. CASE IdRead         BY <1>3 DEF IdRead
  <1>4. CASE IdGenerate     BY <1>4 DEF IdGenerate
  <1>5. CASE IdReadError    BY <1>5 DEF IdReadError
  <1>6. CASE IdMkdir
    <2>1. CASE idPc' = "write" /\ UNCHANGED agent_id  BY <1>6, <2>1 DEF IdMkdir
    <2>2. CASE Resolved(Generated)                    BY <1>6, <2>2 DEF IdMkdir
    <2> QED BY <1>6, <2>1, <2>2 DEF IdMkdir
  <1>7. CASE IdTruncate
    <2>1. CASE idFile' = NoId /\ idPc' = "writing" /\ UNCHANGED agent_id
      BY <1>7, <2>1 DEF IdTruncate
    <2>2. CASE Resolved(Generated) /\ UNCHANGED idFile
      BY <1>7, <2>2 DEF IdTruncate
    <2> QED BY <1>7, <2>1, <2>2 DEF IdTruncate
  <1>8. CASE IdWrite        BY <1>8 DEF IdWrite
  <1>9. CASE IdWriteError
    <2>1. CASE idFile' = NoId
      BY <1>9, <2>1 DEF IdWriteError
    <2>2. CASE idFile' = [uuid |-> starts, whole |-> FALSE]
      BY <1>9, <2>2 DEF IdWriteError
    <2> QED BY <1>9, <2>1, <2>2 DEF IdWriteError
  <1>10. CASE IdDown
    <2>1. CASE idFile' = idFile
      BY <1>10, <2>1 DEF IdDown
    <2>2. CASE idPc = "writing" /\ idFile' = [uuid |-> starts, whole |-> FALSE]
      BY <1>10, <2>2 DEF IdDown
    <2> QED BY <1>10, <2>1, <2>2 DEF IdDown
  <1>11. CASE UNCHANGED identityVars  BY <1>11 DEF identityVars
  <1> QED
    BY <1>1, <1>2, <1>3, <1>4, <1>5, <1>6, <1>7, <1>8, <1>9, <1>10, <1>11
       DEF IdentityNext

\* The four parts hold throughout every sequence of starts and crashes.
THEOREM IdentityInvariance == IdentitySpec => []IdentityInv
  BY IdentityInitially, IdentityStep, PTL DEF IdentitySpec

\* A running agent has an identity; a part of one only if the file has the
\* same part from an earlier start.
THEOREM RunningAgentsHaveIdentity == IdentitySpec => []RunningHasIdentity
  <1>1. IdentityInv => RunningHasIdentity
    BY DEF IdentityInv
  <1> QED BY <1>1, IdentityInvariance, PTL

\* One step of any start leaves a saved identity alone, unless it fails to
\* read it.
LEMMA KeptByStep ==
    IdentityInv /\ [IdentityNext]_identityVars
        => [kept # NoId /\ ~IdReadError => kept' = kept /\ idFile' = kept]_identityVars
  <1> SUFFICES ASSUME IdentityInv, [IdentityNext]_identityVars,
                      kept # NoId, ~IdReadError
               PROVE  kept' = kept /\ idFile' = kept
    OBVIOUS
  <1>1. idFile = kept /\ idFile # NoId /\ idPc \notin Writers
    BY DEF IdentityInv, KeptIsInFile
  <1> USE <1>1 DEF Writers
  <1>2. CASE IdStart \/ IdOverride \/ IdRead
    BY <1>2 DEF IdStart, IdOverride, IdRead
  <1>3. CASE IdGenerate \/ IdMkdir \/ IdTruncate \/ IdWrite \/ IdWriteError
    BY <1>3 DEF IdGenerate, IdMkdir, IdTruncate, IdWrite, IdWriteError
  <1>4. CASE IdDown
    BY <1>4 DEF IdDown
  <1>5. CASE UNCHANGED identityVars
    BY <1>5 DEF identityVars
  <1> QED
    BY <1>2, <1>3, <1>4, <1>5 DEF IdentityNext

\* A saved identity survives every later start, crash and failure except that
\* of reading it.
THEOREM SavedIdentityIsKept == IdentitySpec => IdentityIsKept
  BY IdentityInvariance, KeptByStep, PTL DEF IdentitySpec, IdentityIsKept
=============================================================================
