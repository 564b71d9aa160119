----------------------------- MODULE Handshake -----------------------------
(***************************************************************************)
(* What one thread of the pool promises the caller of thread_start and     *)
(* thread_stop (lib/utils/tpool.c): the pool's function runs only between  *)
(* a start and the return of the next stop, and at least once.             *)
(***************************************************************************)

VARIABLES phase,  \* where the caller is: stopped, starting, started, stopping
          exec,   \* the thread is in the pool's function
          ran     \* it has been there since the last start

hvars == <<phase, exec, ran>>

HInit == phase = "stopped" /\ exec = FALSE /\ ran = FALSE

Start == /\ phase = "stopped" /\ phase' = "starting"
         /\ ran' = FALSE
         /\ UNCHANGED exec

StartReturns == /\ phase = "starting" /\ phase' = "started"
                /\ UNCHANGED <<exec, ran>>

Stop == /\ phase = "started" /\ phase' = "stopping"
        /\ UNCHANGED <<exec, ran>>

StopReturns == /\ phase = "stopping" /\ phase' = "stopped"
               /\ ~exec /\ ran
               /\ UNCHANGED <<exec, ran>>

Run == /\ phase # "stopped" /\ ~exec
       /\ exec' = TRUE /\ ran' = TRUE
       /\ UNCHANGED phase

Return == /\ exec /\ exec' = FALSE
          /\ UNCHANGED <<phase, ran>>

HNext == Start \/ StartReturns \/ Stop \/ StopReturns \/ Run \/ Return

HSpec == HInit /\ [][HNext]_hvars
=============================================================================
