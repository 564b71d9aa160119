----------------------------- MODULE ThreadCell -----------------------------
(***************************************************************************)
(* One worker of the thread pool and the thread that starts and stops it:  *)
(* thread_main, thread_start and thread_stop of lib/utils/tpool.c, over    *)
(* the instructions of their mutex and condition variable (Futex).  One    *)
(* condition variable carries the signals of both directions.              *)
(*                                                                         *)
(* wpc and cpc are the places of the worker and of the caller between two  *)
(* operations on the mutex; fpc (of Futex) is the place within one.        *)
(***************************************************************************)
EXTENDS Integers

CONSTANTS SeqMod

ASSUME CellAssumption == SeqMod \in Nat \ {0, 1}

VARIABLES locked, contended, seq, saw, fpc,  \* Futex
          canrun, running, wpc, cpc,
          ran,     \* history: the function was called since the last thread_start
          hurried  \* history: during this call, the worker came back from its job
                   \* before the caller, awake, took the lock

F == INSTANCE Futex WITH Procs <- {"ctl", "worker"}

futvars == <<locked, contended, seq, saw, fpc>>
hist == <<ran, hurried>>
cellvars == <<futvars, canrun, running, wpc, cpc, hist>>

CellInit == /\ F!FInit
            /\ canrun = 0
            /\ running = 0
            /\ wpc = "top"
            /\ cpc = "stopped"
            /\ ran = FALSE /\ hurried = FALSE

Holds(p) == fpc[p] = "in"
Out(p) == fpc[p] = "out"

WGoto(from, to) == wpc = from /\ wpc' = to
CGoto(from, to) == cpc = from /\ cpc' = to

-----------------------------------------------------------------------------
(* thread_main *)

WLock == /\ WGoto("top", "test")
         /\ F!Lock("worker")
         /\ UNCHANGED <<canrun, running, cpc, hist>>

\* Mutant: the signal "we are running" is missing.
WTestQuiet == /\ WGoto("test", IF canrun = 0 THEN "wait" ELSE "leave")
              /\ running' = canrun
              /\ IF canrun = 0 THEN F!CondSignal("worker")
                 ELSE Holds("worker") /\ UNCHANGED futvars
              /\ UNCHANGED <<canrun, cpc, hist>>

\* Mutant: the worker does not say that it runs.
WTestUnset == /\ WGoto("test", IF canrun = 0 THEN "wait" ELSE "leave")
              /\ running' = 0
              /\ F!CondSignal("worker")
              /\ UNCHANGED <<canrun, cpc, hist>>

\* running tells the caller what the worker read in canrun.
WTest == /\ WGoto("test", IF canrun = 0 THEN "wait" ELSE "leave")
         /\ running' = canrun
         /\ F!CondSignal("worker")
         /\ UNCHANGED <<canrun, cpc, hist>>

WWait == /\ WGoto("wait", "test")
         /\ F!CondWait("worker")
         /\ UNCHANGED <<canrun, running, cpc, hist>>

WLeave == /\ WGoto("leave", "call")
          /\ F!Unlock("worker")
          /\ UNCHANGED <<canrun, running, cpc, hist>>

WCall == /\ WGoto("call", "func") /\ Out("worker")
         /\ ran' = TRUE
         /\ UNCHANGED <<futvars, canrun, running, cpc, hurried>>

WReturn == /\ WGoto("func", "top")
           /\ hurried' = (hurried \/ fpc["ctl"] \in {"lk_try", "lk_xchg", "lk_wait"})
           /\ UNCHANGED <<futvars, canrun, running, cpc, ran>>

-----------------------------------------------------------------------------
(* thread_start and thread_stop.  The caller starts a stopped thread and   *)
(* stops a started one, each once the previous call has returned.          *)

CStart == /\ CGoto("stopped", "start")
          /\ F!Lock("ctl")
          /\ ran' = FALSE /\ hurried' = FALSE
          /\ UNCHANGED <<canrun, running, wpc>>

CSetRun == /\ CGoto("start", "await")
           /\ canrun' = 1
           /\ F!CondSignal("ctl")
           /\ UNCHANGED <<running, wpc, hist>>

\* Mutant: thread_start does not wait.
CNoAwait == /\ CGoto("await", "started") /\ F!Unlock("ctl")
            /\ UNCHANGED <<canrun, running, wpc, hist>>

CAwait == /\ \/ running = 0 /\ CGoto("await", "await") /\ F!CondWait("ctl")
             \/ running # 0 /\ CGoto("await", "started") /\ F!Unlock("ctl")
          /\ UNCHANGED <<canrun, running, wpc, hist>>

CStop == /\ CGoto("started", "stop")
         /\ F!Lock("ctl")
         /\ hurried' = FALSE
         /\ UNCHANGED <<canrun, running, wpc, ran>>

CClearRun == /\ CGoto("stop", "drain") /\ Holds("ctl")
             /\ canrun' = 0
             /\ UNCHANGED <<futvars, running, wpc, hist>>

\* Mutant: thread_stop does not wait.
CNoDrain == /\ CGoto("drain", "stopped") /\ F!Unlock("ctl")
            /\ UNCHANGED <<canrun, running, wpc, hist>>

CDrain == /\ \/ running # 0 /\ CGoto("drain", "drain") /\ F!CondWait("ctl")
             \/ running = 0 /\ CGoto("drain", "stopped") /\ F!Unlock("ctl")
          /\ UNCHANGED <<canrun, running, wpc, hist>>

-----------------------------------------------------------------------------
Within(p) == F!Inside(p) /\ UNCHANGED <<canrun, running, wpc, cpc, hist>>

Worker == WLock \/ WTest \/ WWait \/ WLeave \/ WCall \/ WReturn \/ Within("worker")
CallerInCall == CSetRun \/ CAwait \/ CClearRun \/ CDrain \/ Within("ctl")

CellNext == Worker \/ CallerInCall \/ CStart \/ CStop

CellSpec == CellInit /\ [][CellNext]_cellvars

\* Both threads are scheduled, and a job ends.
FairCellSpec == CellSpec /\ WF_cellvars(Worker) /\ WF_cellvars(CallerInCall)

-----------------------------------------------------------------------------
(* The refinement of Handshake. *)

CallPhase == IF cpc \in {"stopped", "started"} /\ Out("ctl") THEN cpc
             ELSE IF cpc \in {"start", "await", "started"} THEN "starting"
             ELSE "stopping"

Abstract == INSTANCE Handshake WITH phase <- CallPhase, exec <- wpc = "func"

\* The worker implements the promise of Handshake, step by step: its function
\* never runs outside a start and the return of the next stop (tpool.c:72-127).
ImplementsHandshake == Abstract!HSpec

\* The worker's place between the steps that TPool takes for one: it waits when the
\* caller has seen it stopped, or may.
CoarsePlace == IF wpc = "func" THEN "func"
               ELSE IF wpc \in {"leave", "call"} THEN "call"
               ELSE IF canrun = 0 /\ running = 0 THEN "wait" ELSE "test"

\* The call goes on between what it writes and what it waits for.
CoarsePhase == IF cpc \in {"stopped", "start"} THEN "stopped"
               ELSE IF cpc = "await" THEN "starting"
               ELSE IF cpc \in {"started", "stop"} THEN "started"
               ELSE "stopping"

Coarse == INSTANCE Cell WITH canrun <- canrun = 1, running <- running = 1,
                             place <- CoarsePlace, phase <- CoarsePhase

\* Whatever instructions of the two threads meet, they are the steps that TPool takes for
\* one: its abstraction of the lock and the waits loses no behaviour (tpool.c:72-127).
ImplementsCell == Coarse!CSpec

\* thread_start and thread_stop return, whatever the interleaving of the two uses
\* of the one condition variable (tpool.c:100-127).  The mutex is not fair: a worker
\* whose job takes no time could take it again and again before an awake caller
\* does.  A job (an attempt of a solver, a round of lws_service) outlasts the few
\* instructions the caller needs: calls during which one did not are left out.
CallsReturn ==
    /\ CallPhase = "starting" ~> CallPhase = "started" \/ hurried
    /\ CallPhase = "stopping" ~> CallPhase = "stopped" \/ hurried

\* tpool.c:152 and :239 read running without the lock: while no call is going
\* on, it tells a started worker from a stopped one.
UnlockedReadIsTrue == /\ CallPhase = "stopped" => running = 0
                      /\ CallPhase = "started" => running = 1
=============================================================================
