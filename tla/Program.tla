------------------------------- MODULE Program -------------------------------
(***************************************************************************)
(* The life of the process: init and deinit of main.c, with what they call *)
(* in lib.c, tpool.c, ws.c and mine.c, every part of which may fail, and   *)
(* the threads that run meanwhile: the one of the WebSocket translator and *)
(* the solvers.  Miner and Register model what mine() and                  *)
(* register_wallet() do.                                                   *)
(***************************************************************************)
EXTENDS Solver

CONSTANT NThreads   \* what init_tpool uses: the processors, at least TP_MINTHREADS

ASSUME ProgramAssumption == NThreads \in Nat /\ NThreads > NSolvers

VARIABLES pc,       \* the call that main() makes next
          proc,     \* up, ended, killed, crashed
          pools, threads, \* the two arrays of tpool.c: nil, live, freed
          npools,   \* the threads that were created
          inuse,    \* the pools that were started
          ctx,      \* of libwebsockets: nil, live, destroyed
          wallet,   \* its keys are loaded
          uq        \* mine.c's queue is open

pvars == <<pc, proc, pools, threads, npools, inuse, ctx, wallet, uq>>
vars == <<slvars, pvars>>

Init == /\ SolverInit
        /\ pc = "init_tpool" /\ proc = "up"
        /\ pools = "nil" /\ threads = "nil" /\ npools = 0 /\ inuse = 0
        /\ ctx = "nil" /\ wallet = FALSE /\ uq = FALSE

Goto(from, to) == proc = "up" /\ pc = from /\ pc' = to /\ UNCHANGED proc

\* A call of init() fails: main() goes on with deinit().
Fail(from) == Goto(from, "exit_mining")

-----------------------------------------------------------------------------
(* init *)

\* One of the arrays or of the threads is refused; what there was is kept, except
\* for the first array, which is freed.
init_tpoolFails ==
    /\ Fail("init_tpool")
    /\ \/ UNCHANGED <<pools, threads, npools>>
       \/ pools' = "freed" /\ UNCHANGED <<threads, npools>>
       \/ /\ pools' = "live" /\ threads' = "live"
          /\ npools' \in 0 .. NThreads - 1
    /\ UNCHANGED <<slvars, inuse, ctx, wallet, uq>>

init_tpool == /\ Goto("init_tpool", "init_threads")
              /\ pools' = "live" /\ threads' = "live" /\ npools' = NThreads
              /\ UNCHANGED <<slvars, inuse, ctx, wallet, uq>>

\* ws_dispatch starts; libwebsockets does nothing without a context.
init_threads == /\ Goto("init_threads", "init_ws")
                /\ inuse < npools /\ inuse' = inuse + 1
                /\ UNCHANGED <<slvars, pools, threads, npools, ctx, wallet, uq>>

\* Mutant: what __init_ctx returns is not looked at.
init_wsFailsLate == /\ Goto("init_ws", "init_wallet")
                    /\ UNCHANGED <<slvars, pools, threads, npools, inuse, ctx, wallet, uq>>

\* No context, or a URI that is too long or does not parse.
init_wsFails == /\ Fail("init_ws")
                /\ ctx' \in {"nil", "live"}
                /\ UNCHANGED <<slvars, pools, threads, npools, inuse, wallet, uq>>

init_ws == /\ Goto("init_ws", "init_wallet")
           /\ ctx' = "live"
           /\ UNCHANGED <<slvars, pools, threads, npools, inuse, wallet, uq>>

\* The key is not loaded, or the CA does not register it: Register.
init_walletFails == /\ Fail("init_wallet")
                    /\ wallet' \in BOOLEAN
                    /\ UNCHANGED <<slvars, pools, threads, npools, inuse, ctx, uq>>

init_wallet == /\ Goto("init_wallet", "init_mining")
               /\ wallet' = TRUE
               /\ UNCHANGED <<slvars, pools, threads, npools, inuse, ctx, uq>>

\* solver_init for every solver up to the one that fails: its dummy challenge has
\* both expected sizes in one place, and the second one stays there.
init_miningFails ==
    /\ Fail("init_mining")
    /\ \/ UNCHANGED <<uq, sl, sp>>
       \/ \E i \in Solvers :
             /\ uq' = TRUE
             /\ \E k \in 0 .. 5 :
                   /\ sl' = [j \in Solvers |->
                                IF j < i THEN sortlist_resize(j, SP_EXPSIZE, 3)
                                ELSE IF j = i THEN sortlist_resize(j, SP_EXPSIZE, IF k < 3 THEN k ELSE 3)
                                ELSE sl[j]]
                   /\ sp' = [j \in Solvers |->
                                IF j < i THEN shortpath_resize(j, SP_EXPSIZE, 3)
                                ELSE IF j = i /\ k > 3 THEN shortpath_resize(j, SP_EXPSIZE, k - 3)
                                ELSE sp[j]]
    /\ UNCHANGED <<size, run, sn, drawn, pools, threads, npools, inuse, ctx, wallet>>

init_mining == /\ Goto("init_mining", "mine")
               /\ uq' = TRUE
               /\ sl' = [j \in Solvers |-> sortlist_resize(j, SP_EXPSIZE, 3)]
               /\ sp' = [j \in Solvers |-> shortpath_resize(j, SP_EXPSIZE, 3)]
               /\ UNCHANGED <<size, run, sn, drawn, pools, threads, npools, inuse, ctx, wallet>>

-----------------------------------------------------------------------------
(* mine, and the solvers it leaves running *)

NewChallenge == /\ Goto("mine", "mine")
                /\ \E n \in Sizes : Challenge(n)
                /\ inuse' = NSolvers + 1
                /\ UNCHANGED <<pools, threads, npools, ctx, wallet, uq>>

mineReturns == /\ Goto("mine", "exit_mining")
               /\ UNCHANGED <<slvars, pools, threads, npools, inuse, ctx, wallet, uq>>

Solve(i) == /\ proc = "up"
            /\ SolverStep(i)
            /\ UNCHANGED pvars

-----------------------------------------------------------------------------
(* deinit *)

\* The solvers still run.
exit_mining == /\ Goto("exit_mining", "exit_ws")
               /\ run' = [i \in Solvers |-> IF run[i] \in {"ready", "search"} THEN "freed" ELSE run[i]]
               /\ sl' = [i \in Solvers |-> NoSpace({"nums", "str", "mtmp"})]
               /\ sp' = [i \in Solvers |-> NoSpace({"grid", "sol", "cells"})]
               /\ uq' = FALSE
               /\ UNCHANGED <<size, sn, drawn, pools, threads, npools, inuse, ctx, wallet>>

\* wallet_free frees nothing; ws_dispatch may be in the context it destroys.
exit_ws == /\ Goto("exit_ws", "exit_tpool")
           /\ ctx' = IF ctx = "live" THEN "destroyed" ELSE ctx
           /\ UNCHANGED <<slvars, pools, threads, npools, inuse, wallet, uq>>

\* What a thread of the pool does with memory that main() has given back.
Stray == /\ proc = "up"
         /\ ctx = "destroyed" \/ \E i \in Solvers : run[i] = "freed"
         /\ proc' = "crashed"
         /\ UNCHANGED <<slvars, pc, pools, threads, npools, inuse, ctx, wallet, uq>>

\* Mutant: the threads are joined but not killed.
exit_tpoolJoins == /\ proc = "up" /\ pc = "exit_tpool"
                   /\ proc' = IF npools > 0 THEN proc
                              ELSE IF pools = "freed" THEN "crashed" ELSE "ended"
                   /\ UNCHANGED <<slvars, pc, pools, threads, npools, inuse, ctx, wallet, uq>>

\* SIGTERM to a thread ends the process: the threads never return, and would never
\* be joined.  Without threads the arrays are freed, one perhaps again.
exit_tpool == /\ proc = "up" /\ pc = "exit_tpool"
              /\ proc' = IF npools > 0 THEN "killed"
                         ELSE IF pools = "freed" THEN "crashed" ELSE "ended"
              /\ UNCHANGED <<slvars, pc, pools, threads, npools, inuse, ctx, wallet, uq>>

-----------------------------------------------------------------------------
StartUp == \/ init_tpoolFails \/ init_tpool \/ init_threads \/ init_wsFails \/ init_ws
           \/ init_walletFails \/ init_wallet \/ init_miningFails \/ init_mining

ShutDown == exit_mining \/ exit_ws \/ exit_tpool

Next == \/ StartUp \/ NewChallenge \/ mineReturns \/ ShutDown
        \/ Stray
        \/ \E i \in Solvers : Solve(i)
        \/ proc # "up" /\ UNCHANGED vars

\* The main thread goes on, except that register_wallet() and mine() may wait for ever.
Waiting == pc \in {"init_wallet", "mine"}

Spec == Init /\ [][Next]_vars /\ WF_vars(~Waiting /\ (StartUp \/ ShutDown))

-----------------------------------------------------------------------------
TypeOK == /\ proc \in {"up", "ended", "killed", "crashed"}
          /\ npools \in 0 .. NThreads /\ inuse \in 0 .. npools
          /\ size \in Sizes \cup {0}
          /\ \A i \in Solvers : \A a \in DOMAIN sl[i] : sl[i][a] \in Sizes \cup {0, SP_EXPSIZE}

\* mine() finds everything it uses, however init() went: a context, a wallet, a queue,
\* a thread for the translator and one for each solver, and work spaces in which a
\* challenge of the expected grid size needs no memory (main.c:56-72, lib.c:30-45,
\* mine.c:293-318, solver.c:98-120).
MiningIsReady ==
    pc = "mine" => /\ ctx = "live" /\ wallet /\ uq
                   /\ npools > NSolvers
                   /\ \A i \in Solvers : Fits(sl[i], SP_EXPSIZE) /\ Fits(sp[i], SP_EXPSIZE)

\* Whatever fails, and although no thread of the pool ever returns, the process ends
\* once mining is over or cannot begin (main.c:74-96, tpool.c:335-346).
Ends == ~Waiting ~> proc # "up" \/ Waiting
=============================================================================
