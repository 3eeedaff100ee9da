--------------------------- MODULE DaemonLockProofs ---------------------------
(***************************************************************************)
(* The PID file keeps a second copy of the program from running, for any   *)
(* number of starts, crashes and forced restarts, whoever may signal whom, *)
(* if starts do not overlap.                                               *)
(***************************************************************************)
EXTENDS DaemonLock, TLAPS

LEMMA LockTypeInit == Init => TypeOK
  BY LockAssumption DEF Init, TypeOK, Step, Starting, Serving, Ended

LEMMA LockTypeStep == TypeOK /\ [Next]_vars => TypeOK'
<1> SUFFICES ASSUME TypeOK, [Next]_vars PROVE TypeOK'
  OBVIOUS
<1> USE LockAssumption DEF TypeOK, Step, Starting, Serving, Ended, GoTo
<1>0. CASE UNCHANGED vars
  BY <1>0 DEF vars
<1>1. ASSUME NEW p \in Procs, Begin(p) PROVE TypeOK'
  BY <1>1 DEF Begin
<1>2. ASSUME NEW p \in Procs, Create(p) PROVE TypeOK'
  BY <1>2 DEF Create, TakesLock
<1>3. ASSUME NEW p \in Procs, Open(p) PROVE TypeOK'
  BY <1>3 DEF Open
<1>4. ASSUME NEW p \in Procs, Read(p) PROVE TypeOK'
  BY <1>4 DEF Read
<1>5. ASSUME NEW p \in Procs, Probe(p) PROVE TypeOK'
  BY <1>5 DEF Probe, Interrupted
<1>6. ASSUME NEW p \in Procs, Wait(p) PROVE TypeOK'
  BY <1>6 DEF Wait
<1>7. ASSUME NEW p \in Procs, Unlink(p) PROVE TypeOK'
  BY <1>7 DEF Unlink
<1>8. ASSUME NEW p \in Procs, CreateAgain(p) PROVE TypeOK'
  BY <1>8 DEF CreateAgain, TakesLock
<1>9. ASSUME NEW p \in Procs, Abort(p) \/ WritePid(p) \/ SetSignals(p) PROVE TypeOK'
  BY <1>9 DEF Abort, WritePid, SetSignals
<1>10. ASSUME NEW p \in Procs, Stop(p) \/ Finish(p) \/ Crash(p) \/ PidReused(p) PROVE TypeOK'
  BY <1>10 DEF Stop, Finish, Crash, PidReused
<1> QED
  BY <1>0, <1>1, <1>2, <1>3, <1>4, <1>5, <1>6, <1>7, <1>8, <1>9, <1>10 DEF Next

\* Every variable of the start-up protocol keeps its type, and no process looks for the
\* number in a file it has not opened (daemon::go checks the result of open).
THEOREM LockTypeCorrect == Spec => []TypeOK
  BY LockTypeInit, LockTypeStep, PTL DEF Spec

-----------------------------------------------------------------------------
LEMMA LockInvInit == Init => LockInv
  BY LockAssumption DEF Init, LockInv, OneStarts, HoldersOwn, HoldersAreWritten, FindsTheHolder,
     RunnerHoldsLock, Holds, HolderSteps, Starting

LEMMA LockInvStep ==
  ASSUME OneAtATime, TypeOK, LockInv, [Next]_vars
  PROVE  LockInv'
<1> USE LockAssumption DEF TypeOK, Step, Starting, Serving, Ended, GoTo, LockInv, OneStarts,
        HoldersOwn, HoldersAreWritten, FindsTheHolder, RunnerHoldsLock, Holds, HolderSteps
<1>0. CASE UNCHANGED vars
  BY <1>0 DEF vars
<1>1. ASSUME NEW p \in Procs, Begin(p) PROVE LockInv'
  BY <1>1 DEF Begin
<1>2. ASSUME NEW p \in Procs, Create(p) PROVE LockInv'
  BY <1>2 DEF Create, TakesLock
<1>3. ASSUME NEW p \in Procs, Open(p) PROVE LockInv'
  BY <1>3 DEF Open
<1>4. ASSUME NEW p \in Procs, Read(p) PROVE LockInv'
  BY <1>4 DEF Read, Fails
<1>5. ASSUME NEW p \in Procs, Probe(p) PROVE LockInv'
  BY <1>5 DEF Probe, Interrupted, PidTaken, Alive
<1>6. ASSUME NEW p \in Procs, Wait(p) PROVE LockInv'
  BY <1>6 DEF Wait
<1>7. ASSUME NEW p \in Procs, Unlink(p) PROVE LockInv'
  BY <1>7 DEF Unlink
<1>8. ASSUME NEW p \in Procs, CreateAgain(p) PROVE LockInv'
  BY <1>8 DEF CreateAgain, TakesLock
<1>9. ASSUME NEW p \in Procs, Abort(p) \/ WritePid(p) \/ SetSignals(p) PROVE LockInv'
  BY <1>9 DEF Abort, WritePid, SetSignals
<1>10. ASSUME NEW p \in Procs, Stop(p) \/ Finish(p) \/ Crash(p) \/ PidReused(p) PROVE LockInv'
  BY <1>10 DEF Stop, Finish, Crash, PidReused, Alive
<1> QED
  BY <1>0, <1>1, <1>2, <1>3, <1>4, <1>5, <1>6, <1>7, <1>8, <1>9, <1>10 DEF Next

LEMMA LockInvariant ==
  ASSUME OneAtATime
  PROVE  Spec => []LockInv
<1>1. Init => TypeOK /\ LockInv
  BY LockTypeInit, LockInvInit
<1>2. (TypeOK /\ LockInv) /\ [Next]_vars => (TypeOK /\ LockInv)'
  BY LockTypeStep, LockInvStep
<1>3. QED
  BY <1>1, <1>2, PTL DEF Spec

\* While a copy runs, starts or shuts down, the PID file is its own: neither the start nor
\* the end of another process removes or replaces it (daemon::go, daemon::finish).
THEOREM RunnerKeepsLock == OneAtATime => (Spec => []RunnerHoldsLock)
<1> SUFFICES ASSUME OneAtATime PROVE Spec => []RunnerHoldsLock
  OBVIOUS
<1>1. LockInv => RunnerHoldsLock
  BY DEF LockInv
<1>2. QED
  BY <1>1, LockInvariant, PTL

\* Two copies of the program that each took the file never run at a time (daemon::go).
THEOREM LockExcludes == OneAtATime => (Spec => []AtMostOneRuns)
<1> SUFFICES ASSUME OneAtATime PROVE Spec => []AtMostOneRuns
  OBVIOUS
<1>1. LockInv => AtMostOneRuns
  BY DEF LockInv, HoldersOwn, RunnerHoldsLock, Holds, HolderSteps, AtMostOneRuns, Runs, Serving
<1>2. QED
  BY <1>1, LockInvariant, PTL

-----------------------------------------------------------------------------
LEMMA LoneInvInit == Init => LoneInv
  BY DEF Init, LoneInv, LockHasOwner, LoneStartIsAlone, LoneStartSucceeds

LEMMA LoneInvStep ==
  ASSUME OneAtATime, TypeOK, LockInv, LoneInv, [Next]_vars
  PROVE  LoneInv'
<1> USE LockAssumption DEF TypeOK, Step, Starting, Serving, Ended, GoTo, LoneInv, LockHasOwner,
        LoneStartIsAlone, LoneStartSucceeds, Fails
<1>0. CASE UNCHANGED vars
  BY <1>0 DEF vars
<1>1. ASSUME NEW p \in Procs, Begin(p) PROVE LoneInv'
  BY <1>1 DEF Begin, Alive
<1>2. ASSUME NEW p \in Procs, Create(p) PROVE LoneInv'
  BY <1>2 DEF Create, TakesLock
<1>3. ASSUME NEW p \in Procs, Open(p) PROVE LoneInv'
  BY <1>3 DEF Open, LockInv, HoldersOwn
<1>4. ASSUME NEW p \in Procs, Read(p) PROVE LoneInv'
  BY <1>4 DEF Read
<1>5. ASSUME NEW p \in Procs, Probe(p) PROVE LoneInv'
  BY <1>5 DEF Probe, Interrupted, PidTaken, Alive
<1>6. ASSUME NEW p \in Procs, Wait(p) PROVE LoneInv'
  BY <1>6 DEF Wait, PidTaken, Alive
<1>7. ASSUME NEW p \in Procs, Unlink(p) PROVE LoneInv'
  BY <1>7 DEF Unlink
<1>8. ASSUME NEW p \in Procs, CreateAgain(p) PROVE LoneInv'
  BY <1>8 DEF CreateAgain, TakesLock
<1>9. ASSUME NEW p \in Procs, Abort(p) \/ WritePid(p) \/ SetSignals(p) PROVE LoneInv'
  BY <1>9 DEF Abort, WritePid, SetSignals
<1>10. ASSUME NEW p \in Procs, Stop(p) \/ Finish(p) \/ Crash(p) \/ PidReused(p) PROVE LoneInv'
  BY <1>10 DEF Stop, Finish, Crash, PidReused, Alive
<1> QED
  BY <1>0, <1>1, <1>2, <1>3, <1>4, <1>5, <1>6, <1>7, <1>8, <1>9, <1>10 DEF Next

\* A start that meets no living process, and whose calls on the file are not refused, takes it,
\* whatever a crashed copy or a refused start left of it: it fails only if the number in the
\* file has passed to another program (daemon::go).
THEOREM LoneStartAlwaysSucceeds == OneAtATime => (Spec => []LoneStartSucceeds)
<1> SUFFICES ASSUME OneAtATime PROVE Spec => []LoneStartSucceeds
  OBVIOUS
<1>1. Init => TypeOK /\ LockInv /\ LoneInv
  BY LockTypeInit, LockInvInit, LoneInvInit
<1>2. (TypeOK /\ LockInv /\ LoneInv) /\ [Next]_vars => (TypeOK /\ LockInv /\ LoneInv)'
  BY LockTypeStep, LockInvStep, LoneInvStep
<1>3. LoneInv => LoneStartSucceeds
  BY DEF LoneInv
<1>4. QED
  BY <1>1, <1>2, <1>3, PTL DEF Spec

=============================================================================
