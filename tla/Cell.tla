-------------------------------- MODULE Cell --------------------------------
(***************************************************************************)
(* One worker and the calls about it as TPool takes them, a region under   *)
(* the worker's lock as one step: between ThreadCell, which implements it, *)
(* and TPool, each of whose workers it is (lib/utils/tpool.c).             *)
(***************************************************************************)

VARIABLES canrun, running,
          place,  \* of the worker: test, wait, call, func
          phase   \* of the calls: stopped, starting, started, stopping

cvars == <<canrun, running, place, phase>>

\* Nothing tells a worker that has not yet come to its test from one that waits.
CInit == /\ canrun = FALSE /\ running = FALSE
         /\ place \in {"test", "wait"} /\ phase = "stopped"

TestRun == /\ place = "test"
           /\ running' = canrun
           /\ place' = IF canrun THEN "call" ELSE "wait"
           /\ UNCHANGED <<canrun, phase>>

CallFunc == /\ place = "call" /\ place' = "func"
            /\ UNCHANGED <<canrun, running, phase>>

FuncReturns == /\ place = "func" /\ place' = "test"
               /\ UNCHANGED <<canrun, running, phase>>

thread_start == /\ phase = "stopped" /\ phase' = "starting"
                /\ canrun' = TRUE
                /\ place' = IF place = "wait" THEN "test" ELSE place
                /\ UNCHANGED running

Started == /\ phase = "starting" /\ running
           /\ phase' = "started"
           /\ UNCHANGED <<canrun, running, place>>

thread_stop == /\ phase = "started" /\ phase' = "stopping"
               /\ canrun' = FALSE
               /\ UNCHANGED <<running, place>>

Stopped == /\ phase = "stopping" /\ ~running
           /\ phase' = "stopped"
           /\ UNCHANGED <<canrun, running, place>>

CNext == \/ TestRun \/ CallFunc \/ FuncReturns
         \/ thread_start \/ Started \/ thread_stop \/ Stopped

CSpec == CInit /\ [][CNext]_cvars
=============================================================================
