-------------------------- MODULE ThreadCellProofs --------------------------
(***************************************************************************)
(* One worker of the pool and its caller do what Handshake promises, and   *)
(* use the mutex and the condition variable as Futex lets them, for any    *)
(* width of the condition's counter.                                       *)
(***************************************************************************)
EXTENDS ThreadCell, TLAPS

\* What the two places and the two flags may be.
PlacesOK == /\ cpc \in {"stopped", "start", "await", "started", "stop", "drain"}
            /\ wpc \in {"top", "test", "wait", "leave", "call", "func"}
            /\ fpc = [q \in {"ctl", "worker"} |-> fpc[q]]
            /\ canrun \in {0, 1} /\ running \in {0, 1} /\ ran \in BOOLEAN

\* canrun is what the last call has asked for; the end of a call means that the
\* worker has answered.
CallerOK == /\ canrun = 1 <=> cpc \in {"await", "started", "stop"}
            /\ cpc \in {"stopped", "start"} => running = 0
            /\ cpc \in {"started", "stop"} => running = 1

\* running is what the worker has last read.  Between reading 1 and reading again it
\* goes through the function, so that a call that waits for a 0 waits for that too.
WorkerOK == /\ running = 1 => wpc # "wait"
            /\ running = 0 => wpc \in {"top", "test", "wait"}
            /\ wpc = "func" \/ (running = 1 /\ wpc \in {"top", "test"}) => ran
            /\ cpc = "drain" /\ running = 0 => ran
            /\ cpc = "stopped" /\ ~Out("ctl") => ran

CellInv == PlacesOK /\ CallerOK /\ WorkerOK

-----------------------------------------------------------------------------
\* What an instruction of the futex does to the place of the caller in it: only the
\* caller's own steps bring it out, and none brings it in.
LEMMA WorkerInside ==
    ASSUME PlacesOK, F!Inside("worker")
    PROVE  Out("ctl")' = Out("ctl") /\ fpc' = [q \in {"ctl", "worker"} |-> fpc'[q]]
<1> USE DEF F!Goto, PlacesOK, Out
<1>1. CASE F!TryLock("worker") \/ F!Xchg("worker") \/ F!FutexWait("worker")
  BY <1>1 DEF F!TryLock, F!Xchg, F!FutexWait
<1>2. CASE F!TestWord("worker") \/ F!CmpXchg("worker") \/ F!ClearLocked("worker")
           \/ F!SpinUnlock("worker") \/ F!ClearContended("worker") \/ F!CondSleep("worker")
  BY <1>2 DEF F!TestWord, F!CmpXchg, F!ClearLocked, F!SpinUnlock, F!ClearContended, F!CondSleep
<1>3. CASE F!WakeLocker("worker") \/ F!WakeWaiter("worker")
  BY <1>3 DEF F!WakeLocker, F!WakeWaiter, F!WakeOne
<1> QED BY <1>1, <1>2, <1>3 DEF F!Inside

LEMMA CallerInside ==
    ASSUME PlacesOK, F!Inside("ctl")
    PROVE  ~Out("ctl") /\ fpc' = [q \in {"ctl", "worker"} |-> fpc'[q]]
<1> USE DEF F!Goto, PlacesOK, Out
<1>1. CASE F!TryLock("ctl") \/ F!Xchg("ctl") \/ F!FutexWait("ctl")
  BY <1>1 DEF F!TryLock, F!Xchg, F!FutexWait
<1>2. CASE F!TestWord("ctl") \/ F!CmpXchg("ctl") \/ F!ClearLocked("ctl")
           \/ F!SpinUnlock("ctl") \/ F!ClearContended("ctl") \/ F!CondSleep("ctl")
  BY <1>2 DEF F!TestWord, F!CmpXchg, F!ClearLocked, F!SpinUnlock, F!ClearContended, F!CondSleep
<1>3. CASE F!WakeLocker("ctl") \/ F!WakeWaiter("ctl")
  BY <1>3 DEF F!WakeLocker, F!WakeWaiter, F!WakeOne
<1> QED BY <1>1, <1>2, <1>3 DEF F!Inside

-----------------------------------------------------------------------------
LEMMA CellBegins == CellInit => CellInv
<1> SUFFICES ASSUME CellInit PROVE CellInv
  OBVIOUS
<1>1. fpc = [q \in {"ctl", "worker"} |-> "out"]
  BY DEF CellInit, F!FInit
<1>2. PlacesOK
  BY <1>1 DEF CellInit, PlacesOK
<1>3. CallerOK /\ WorkerOK
  BY <1>1 DEF CellInit, CallerOK, WorkerOK, Out
<1> QED BY <1>2, <1>3 DEF CellInv

LEMMA CellStep == ASSUME CellInv, [CellNext]_cellvars PROVE CellInv'
<1> USE DEF CellInv, PlacesOK, CallerOK, WorkerOK, WGoto, CGoto, hist, futvars,
            Out, Holds, F!Goto
<1>1. CASE WLock
  BY <1>1 DEF WLock, F!Lock
<1>2. CASE WTest
  <2>1. /\ wpc = "test" /\ wpc' = IF canrun = 0 THEN "wait" ELSE "leave"
        /\ running' = canrun
        /\ fpc' = [fpc EXCEPT !["worker"] = "sg_wake"]
        /\ UNCHANGED <<canrun, cpc, ran>>
    BY <1>2 DEF WTest, F!CondSignal
  <2>2. PlacesOK' /\ Out("ctl")' = Out("ctl")
    BY <2>1
  <2> HIDE DEF Out
  <2> QED BY <2>1, <2>2
<1>3. CASE WWait
  BY <1>3 DEF WWait, F!CondWait
<1>4. CASE WLeave
  BY <1>4 DEF WLeave, F!Unlock
<1>5. CASE WCall
  BY <1>5 DEF WCall
<1>6. CASE WReturn
  BY <1>6 DEF WReturn
<1>7. CASE Within("worker")
  BY <1>7, WorkerInside DEF Within
<1>8. CASE CStart
  BY <1>8 DEF CStart, F!Lock
<1>9. CASE CSetRun
  BY <1>9 DEF CSetRun, F!CondSignal
<1>10. CASE CAwait
  BY <1>10 DEF CAwait, F!CondWait, F!Unlock
<1>11. CASE CStop
  BY <1>11 DEF CStop, F!Lock
<1>12. CASE CClearRun
  BY <1>12 DEF CClearRun
<1>13. CASE CDrain
  BY <1>13 DEF CDrain, F!CondWait, F!Unlock
<1>14. CASE Within("ctl")
  BY <1>14, CallerInside DEF Within
<1>15. CASE UNCHANGED cellvars
  BY <1>15 DEF cellvars
<1> QED BY <1>1, <1>2, <1>3, <1>4, <1>5, <1>6, <1>7, <1>8, <1>9, <1>10, <1>11, <1>12,
           <1>13, <1>14, <1>15 DEF CellNext, Worker, CallerInCall

LEMMA CellInvariant == CellSpec => []CellInv
  BY CellBegins, CellStep, PTL DEF CellSpec

\* While no call is going on, running tells a started worker from a stopped one, to
\* whoever reads it without the lock (tpool.c:152, 239).
THEOREM ReadIsTrue == CellSpec => []UnlockedReadIsTrue
<1>1. CellInv => UnlockedReadIsTrue
  BY DEF CellInv, CallerOK, UnlockedReadIsTrue, CallPhase
<1> QED BY <1>1, CellInvariant, PTL

-----------------------------------------------------------------------------
(* The refinement: every step of the two threads is one of Handshake, or    *)
(* changes nothing in it.                                                    *)

LEMMA CellMapsInit == CellInit => Abstract!HInit
  BY DEF CellInit, F!FInit, Abstract!HInit, CallPhase, Out

LEMMA CellMapsStep ==
    ASSUME CellInv, [CellNext]_cellvars
    PROVE  [Abstract!HNext]_(Abstract!hvars)
<1> USE DEF CellInv, PlacesOK, WGoto, CGoto, hist, futvars, CallPhase, Out, Holds,
            F!Goto, Abstract!hvars
<1>1. CASE WLock \/ WTest \/ WWait \/ WLeave
  BY <1>1 DEF WLock, WTest, WWait, WLeave, F!Lock, F!CondSignal, F!CondWait, F!Unlock
\* The worker only calls what a call has asked for: running is 1, as after no stop.
<1>2. CASE WCall
  <2>1. Abstract!Run
    BY <1>2 DEF WCall, CallerOK, WorkerOK, Abstract!Run
  <2> QED BY <2>1 DEF Abstract!HNext
<1>3. CASE WReturn
  <2>1. Abstract!Return
    BY <1>3 DEF WReturn, Abstract!Return
  <2> QED BY <2>1 DEF Abstract!HNext
<1>4. CASE Within("worker")
  BY <1>4, WorkerInside DEF Within
<1>5. CASE CStart
  <2>1. Abstract!Start
    BY <1>5 DEF CStart, F!Lock, Abstract!Start
  <2> QED BY <2>1 DEF Abstract!HNext
<1>6. CASE CSetRun \/ CAwait \/ CClearRun \/ CDrain
  BY <1>6 DEF CSetRun, CAwait, CClearRun, CDrain, F!CondSignal, F!CondWait, F!Unlock
<1>7. CASE CStop
  <2>1. Abstract!Stop
    BY <1>7 DEF CStop, F!Lock, Abstract!Stop
  <2> QED BY <2>1 DEF Abstract!HNext
\* The last instruction of mutex_unlock is the return of the call.
<1>8. CASE Within("ctl")
  <2>1. ~Out("ctl") /\ UNCHANGED <<wpc, cpc, hist>>
    BY <1>8, CallerInside DEF Within
  <2>2. CASE cpc = "stopped" /\ Out("ctl")'
    <3>1. Abstract!StopReturns
      BY <2>1, <2>2 DEF CallerOK, WorkerOK, Abstract!StopReturns
    <3> QED BY <3>1 DEF Abstract!HNext
  <2>3. CASE cpc = "started" /\ Out("ctl")'
    <3>1. Abstract!StartReturns
      BY <2>1, <2>3 DEF Abstract!StartReturns
    <3> QED BY <3>1 DEF Abstract!HNext
  <2> QED BY <2>1, <2>2, <2>3
<1>9. CASE UNCHANGED cellvars
  BY <1>9 DEF cellvars
<1> QED BY <1>1, <1>2, <1>3, <1>4, <1>5, <1>6, <1>7, <1>8, <1>9
        DEF CellNext, Worker, CallerInCall

\* thread_main, thread_start and thread_stop over the instructions of the futex do
\* what Handshake says (tpool.c:72-127).
THEOREM CellImplements == CellSpec => ImplementsHandshake
<1>1. CellInv /\ [CellNext]_cellvars => [Abstract!HNext]_(Abstract!hvars)
  BY CellMapsStep
<1> QED BY <1>1, CellMapsInit, CellInvariant, PTL
        DEF CellSpec, ImplementsHandshake, Abstract!HSpec

-----------------------------------------------------------------------------
(* The refinement that TPool needs: what an instruction does to the two      *)
(* flags, the place and the phase is a step of Cell, or nothing.             *)

LEMMA CellMapsCoarseInit == CellInit => Coarse!CInit
  BY DEF CellInit, Coarse!CInit, CoarsePlace, CoarsePhase

LEMMA CellMapsCoarse ==
    ASSUME CellInv, [CellNext]_cellvars
    PROVE  [Coarse!CNext]_(Coarse!cvars)
<1> USE DEF CellInv, PlacesOK, CallerOK, WorkerOK, WGoto, CGoto, hist, CoarsePlace, CoarsePhase,
            Coarse!cvars
<1>1. CASE WLock \/ WWait \/ WLeave \/ Within("worker") \/ CStart \/ CStop \/ Within("ctl")
  BY <1>1 DEF WLock, WWait, WLeave, Within, CStart, CStop
\* A worker that waits may test again: it then waits on.
<1>2. CASE WTest
  <2>1. /\ wpc = "test" /\ wpc' = IF canrun = 0 THEN "wait" ELSE "leave"
        /\ running' = canrun /\ UNCHANGED <<canrun, cpc>>
    BY <1>2 DEF WTest
  <2>2. CASE canrun = 0 /\ running = 0
    BY <2>1, <2>2
  <2>3. CASE canrun = 1 \/ running = 1
    <3>1. Coarse!TestRun
      BY <2>1, <2>3 DEF Coarse!TestRun
    <3> QED BY <3>1 DEF Coarse!CNext
  <2> QED BY <2>2, <2>3
<1>3. CASE WCall
  <2>1. Coarse!CallFunc
    BY <1>3 DEF WCall, Coarse!CallFunc
  <2> QED BY <2>1 DEF Coarse!CNext
<1>4. CASE WReturn
  <2>1. Coarse!FuncReturns
    BY <1>4 DEF WReturn, Coarse!FuncReturns
  <2> QED BY <2>1 DEF Coarse!CNext
<1>5. CASE CSetRun
  <2>1. Coarse!thread_start
    BY <1>5 DEF CSetRun, Coarse!thread_start
  <2> QED BY <2>1 DEF Coarse!CNext
<1>6. CASE CAwait
  <2>1. CASE running = 0
    BY <1>6, <2>1 DEF CAwait
  <2>2. CASE running # 0
    <3>1. Coarse!Started
      BY <1>6, <2>2 DEF CAwait, Coarse!Started
    <3> QED BY <3>1 DEF Coarse!CNext
  <2> QED BY <2>1, <2>2
<1>7. CASE CClearRun
  <2>1. Coarse!thread_stop
    BY <1>7 DEF CClearRun, Coarse!thread_stop
  <2> QED BY <2>1 DEF Coarse!CNext
<1>8. CASE CDrain
  <2>1. CASE running # 0
    BY <1>8, <2>1 DEF CDrain
  <2>2. CASE running = 0
    <3>1. Coarse!Stopped
      BY <1>8, <2>2 DEF CDrain, Coarse!Stopped
    <3> QED BY <3>1 DEF Coarse!CNext
  <2> QED BY <2>1, <2>2
<1>9. CASE UNCHANGED cellvars
  BY <1>9 DEF cellvars
<1> QED BY <1>1, <1>2, <1>3, <1>4, <1>5, <1>6, <1>7, <1>8, <1>9
        DEF CellNext, Worker, CallerInCall

\* The steps that TPool takes for one are all that the instructions of thread_main,
\* thread_start and thread_stop amount to (tpool.c:72-127).
THEOREM CellIsCoarse == CellSpec => ImplementsCell
<1>1. CellInv /\ [CellNext]_cellvars => [Coarse!CNext]_(Coarse!cvars)
  BY CellMapsCoarse
<1> QED BY <1>1, CellMapsCoarseInit, CellInvariant, PTL
        DEF CellSpec, ImplementsCell, Coarse!CSpec
-----------------------------------------------------------------------------
(* The futex below. *)

P == INSTANCE FutexProofs WITH Procs <- {"ctl", "worker"}

\* The two threads call the four operations of the futex, each where it may be
\* called, and change its variables in no other way: what holds of every use of
\* the futex holds of this one.
THEOREM CellUsesFutex == CellSpec => F!FSpec
<1>1. ASSUME [CellNext]_cellvars PROVE [F!FNext]_(F!fvars)
  <2>1. CASE WLock \/ WTest \/ WWait \/ WLeave \/ Within("worker")
    BY <2>1 DEF WLock, WTest, WWait, WLeave, Within, F!FNext, F!Call
  <2>2. CASE CStart \/ CSetRun \/ CAwait \/ CStop \/ CDrain \/ Within("ctl")
    BY <2>2 DEF CStart, CSetRun, CAwait, CStop, CDrain, Within, F!FNext, F!Call
  <2>3. CASE WCall \/ WReturn \/ CClearRun \/ UNCHANGED cellvars
    BY <2>3 DEF WCall, WReturn, CClearRun, cellvars, futvars, F!fvars
  <2> QED BY <1>1, <2>1, <2>2, <2>3 DEF CellNext, Worker, CallerInCall
<1>2. CellInit => F!FInit
  BY DEF CellInit
<1> QED BY <1>1, <1>2, PTL DEF CellSpec, F!FSpec

\* The worker and its caller are never both between the end of a mutex_lock and the
\* end of the mutex_unlock that follows, wherever they wait for one another
\* (tpool.c:80-96, 100-127).
THEOREM CellExcludes == CellSpec => []F!MutualExclusion
<1>1. P!FSpec => []P!MutualExclusion
  BY CellAssumption, P!FutexMutualExclusion DEF P!SeqModAssumption
<1>2. F!FInit => P!FInit
  BY DEF F!FInit, P!FInit, F!NoSeq, P!NoSeq
<1>3. [F!FNext]_(F!fvars) => [P!FNext]_(P!fvars)
  BY DEF F!FNext, F!fvars, F!Call, F!Inside, F!Lock, F!TryLock, F!Xchg, F!FutexWait, F!Unlock,
         F!TestWord, F!CmpXchg, F!ClearLocked, F!SpinUnlock, F!ClearContended, F!WakeLocker,
         F!CondWait, F!CondSleep, F!CondSignal, F!WakeWaiter, F!WakeOne, F!Goto, F!OnlyLocked,
         F!AfterUnlock, F!NoSeq,
         P!FNext, P!fvars, P!Call, P!Inside, P!Lock, P!TryLock, P!Xchg, P!FutexWait, P!Unlock,
         P!TestWord, P!CmpXchg, P!ClearLocked, P!SpinUnlock, P!ClearContended, P!WakeLocker,
         P!CondWait, P!CondSleep, P!CondSignal, P!WakeWaiter, P!WakeOne, P!Goto, P!OnlyLocked,
         P!AfterUnlock, P!NoSeq
<1>4. P!MutualExclusion => F!MutualExclusion
  BY DEF P!MutualExclusion, F!MutualExclusion, P!Owning, F!Owning
<1> QED BY <1>1, <1>2, <1>3, <1>4, CellUsesFutex, PTL DEF P!FSpec, F!FSpec
=============================================================================
