------------------------------- MODULE TPool -------------------------------
(***************************************************************************)
(* The thread pool of lib/utils/tpool.c: its workers (thread_main) and the *)
(* one thread that calls tpool_start and tpool_stop.                       *)
(*                                                                         *)
(* A region under a worker's lock is one step, a wait on its condition is  *)
(* a guard: ThreadCell checks that much of futex.c.  Threads and pools are *)
(* numbered from 1.  The list of a pool's threads is the set crew: the one *)
(* the code takes is the last it added, here any of them.                  *)
(***************************************************************************)
EXTENDS Integers, FiniteSets

CONSTANTS N,      \* npools: the threads, and the pools
          Maxes,  \* the values of max that callers pass
          Jobs,   \* func and arg of a call, as one value
          MaxOpen \* bound: ids in use at a time (an id may be returned twice)

ASSUME TPoolAssumption == /\ N \in Nat \ {0} /\ MaxOpen \in Nat
                          /\ Maxes \subseteq Nat \ {0}

Idx == 1 .. N
None == 0

VARIABLES canrun, running, pool, wpc,  \* of each thread; wpc is its place
          doing,                       \* the job a thread read from its pool
          crew, max, job,              \* of each pool
          njobs,
          mpc,    \* the place of the caller in tpool_start and tpool_stop
          cur,    \* id, or pi: the pool of the call
          th,     \* the thread of thread_start and thread_stop
          t, p, n,   \* the loop variables of __start and redistribute_threads
          handles \* history: how often an id was returned and not given back

wvars == <<canrun, running, pool, wpc, doing>>
pvars == <<crew, max, job>>
loopvars == <<cur, t, p, n>>
vars == <<wvars, pvars, loopvars, njobs, mpc, th, handles>>

NoJob == "nojob"
WPlaces == {"test", "wait", "call", "func"}
\* awaitX, drainX: in thread_start, thread_stop called from X.
MPlaces == {"idle", "scan", "steal", "steal_back", "unload", "redist", "crash",
            "await_scan", "await_steal", "await_redist",
            "drain_steal", "drain_unload"}

Init == /\ canrun = [i \in Idx |-> FALSE]
        /\ running = [i \in Idx |-> FALSE]
        /\ pool = [i \in Idx |-> None]
        /\ wpc = [i \in Idx |-> "test"]
        /\ doing = [i \in Idx |-> NoJob]
        /\ crew = [i \in Idx |-> {}]
        /\ max = [i \in Idx |-> 0]
        /\ job = [i \in Idx |-> NoJob]
        /\ njobs = 0
        /\ mpc = "idle"
        /\ cur = None /\ th = None
        /\ t = 1 /\ p = 1 /\ n = 0
        /\ handles = [i \in Idx |-> 0]

Lowest(S) == CHOOSE i \in S : \A k \in S : i <= k

nthreads(i) == Cardinality(crew[i])

-----------------------------------------------------------------------------
(* thread_main *)

\* The region under the lock, up to the wait or to the unlock.
TestRun(w) == /\ wpc[w] = "test"
              /\ running' = [running EXCEPT ![w] = canrun[w]]
              /\ wpc' = [wpc EXCEPT ![w] = IF canrun[w] THEN "call" ELSE "wait"]
              /\ UNCHANGED <<canrun, pool, doing, pvars, loopvars, njobs, mpc, th, handles>>

\* th->pool->func(th->pool->arg), read without a lock.
CallFunc(w) == /\ wpc[w] = "call"
               /\ wpc' = [wpc EXCEPT ![w] = "func"]
               /\ doing' = [doing EXCEPT ![w] = job[pool[w]]]
               /\ UNCHANGED <<canrun, running, pool, pvars, loopvars, njobs, mpc, th, handles>>

FuncReturns(w) == /\ wpc[w] = "func"
                  /\ wpc' = [wpc EXCEPT ![w] = "test"]
                  /\ doing' = [doing EXCEPT ![w] = NoJob]
                  /\ UNCHANGED <<canrun, running, pool, pvars, loopvars, njobs, mpc, th, handles>>

-----------------------------------------------------------------------------
(* thread_start and thread_stop, up to their wait for the worker *)

\* Mutant: without the signal to the worker.
thread_startQuiet(w, i) ==
    /\ pool' = [pool EXCEPT ![w] = i]
    /\ crew' = [crew EXCEPT ![i] = @ \cup {w}]
    /\ canrun' = [canrun EXCEPT ![w] = TRUE]
    /\ th' = w
    /\ UNCHANGED <<running, wpc, doing, max, job>>

thread_start(w, i) ==
    /\ pool' = [pool EXCEPT ![w] = i]
    /\ crew' = [crew EXCEPT ![i] = @ \cup {w}]
    /\ canrun' = [canrun EXCEPT ![w] = TRUE]
    /\ wpc' = [wpc EXCEPT ![w] = IF @ = "wait" THEN "test" ELSE @]
    /\ th' = w
    /\ UNCHANGED <<running, doing, max, job>>

thread_stop(w) == /\ canrun' = [canrun EXCEPT ![w] = FALSE]
                  /\ th' = w
                  /\ UNCHANGED <<running, pool, wpc, doing, pvars>>

\* The rest of thread_start: the worker has said that it runs.
Started(from, to) == /\ mpc = from /\ running[th]
                     /\ mpc' = to
                     /\ UNCHANGED <<wvars, pvars, th>>

\* The rest of thread_stop: the worker has said that it stopped; unlink it.
Stopped(from, to) == /\ mpc = from /\ ~running[th]
                     /\ mpc' = to
                     /\ crew' = [crew EXCEPT ![pool[th]] = @ \ {th}]
                     /\ UNCHANGED <<wvars, max, job, th>>

-----------------------------------------------------------------------------
(* tpool_start *)

\* The first pool without threads; EAGAIN when there is none.
FreePools == {i \in Idx : crew[i] = {}}

tpool_start(m, j) ==
    /\ mpc = "idle" /\ FreePools # {} /\ njobs < MaxOpen
    /\ LET i == Lowest(FreePools)
       IN  /\ cur' = i
           /\ max' = [max EXCEPT ![i] = m]
           /\ job' = [job EXCEPT ![i] = j]
    /\ mpc' = IF N - njobs # 0 THEN "scan" ELSE "steal"
    /\ t' = 1
    /\ UNCHANGED <<wvars, crew, p, n, njobs, th, handles>>

StartReturns == /\ njobs' = njobs + 1
                /\ handles' = [handles EXCEPT ![cur] = @ + 1]
                /\ mpc' = "idle"

\* Mutant: the loop skips a thread.
IdleAfter(i) == {w \in Idx : w > i /\ ~running[w]}

\* One thread more, while the pool wants one and the loop finds an idle one.
IdleFrom(i) == {w \in Idx : w >= i /\ ~running[w]}

ScanStarts == /\ mpc = "scan" /\ nthreads(cur) # max[cur] /\ IdleFrom(t) # {}
              /\ thread_start(Lowest(IdleFrom(t)), cur)
              /\ t' = Lowest(IdleFrom(t)) + 1
              /\ mpc' = "await_scan"
              /\ UNCHANGED <<cur, p, n, njobs, handles>>

\* Mutant: the scan goes on before the worker has said that it runs.
ScanGoesOn == /\ mpc = "await_scan" /\ mpc' = "scan"
              /\ UNCHANGED <<wvars, pvars, th, loopvars, njobs, handles>>

ScanStarted == /\ Started("await_scan", "scan")
               /\ UNCHANGED <<loopvars, njobs, handles>>

ScanEnds == /\ mpc = "scan" /\ (nthreads(cur) = max[cur] \/ IdleFrom(t) = {})
            /\ StartReturns
            /\ UNCHANGED <<wvars, pvars, loopvars, th>>

\* The first pool that has not exactly one thread gives one.  It may have none:
\* then the list is NULL, and thread_stop follows it.  The new pool has none, so
\* that there always is such a pool.
Givers == {i \in Idx : nthreads(i) # 1}

Steal == /\ mpc = "steal" /\ Givers # {}
         /\ LET i == Lowest(Givers)
            IN \/ /\ \E w \in crew[i] : thread_stop(w)
                  /\ p' = i
                  /\ mpc' = "drain_steal"
               \/ /\ crew[i] = {}
                  /\ mpc' = "crash"
                  /\ UNCHANGED <<wvars, pvars, th, p>>
         /\ UNCHANGED <<cur, t, n, njobs, handles>>

\* Mutant: the stolen thread is not waited for.
StealGoesOn == /\ mpc = "drain_steal" /\ mpc' = "steal_back"
               /\ crew' = [crew EXCEPT ![pool[th]] = @ \ {th}]
               /\ UNCHANGED <<wvars, max, job, th, loopvars, njobs, handles>>

StealStopped == /\ Stopped("drain_steal", "steal_back")
                /\ UNCHANGED <<loopvars, njobs, handles>>

\* thread_start(th, &pools[i]), and i is the pool that was robbed.
StealStarts == /\ mpc = "steal_back"
               /\ thread_start(th, p)
               /\ mpc' = "await_steal"
               /\ UNCHANGED <<loopvars, njobs, handles>>

StealEnds == /\ mpc = "await_steal" /\ running[th]
             /\ StartReturns
             /\ UNCHANGED <<wvars, pvars, loopvars, th>>

-----------------------------------------------------------------------------
(* tpool_stop, with the id of an earlier tpool_start *)

tpool_stop(i) == /\ mpc = "idle" /\ handles[i] > 0
                 /\ cur' = i
                 /\ handles' = [handles EXCEPT ![i] = @ - 1]
                 /\ mpc' = "unload"
                 /\ UNCHANGED <<wvars, pvars, t, p, n, njobs, th>>

UnloadStops == /\ mpc = "unload"
               /\ \E w \in crew[cur] : thread_stop(w)
               /\ mpc' = "drain_unload"
               /\ UNCHANGED <<loopvars, njobs, handles>>

\* Mutant: the thread is unlinked before it has stopped.
UnloadGoesOn == /\ mpc = "drain_unload" /\ mpc' = "unload"
                /\ crew' = [crew EXCEPT ![pool[th]] = @ \ {th}]
                /\ UNCHANGED <<wvars, max, job, th, loopvars, njobs, handles>>

UnloadStopped == /\ Stopped("drain_unload", "unload")
                 /\ UNCHANGED <<loopvars, njobs, handles>>

UnloadEnds == /\ mpc = "unload" /\ crew[cur] = {}
              /\ t' = 1 /\ p' = 1 /\ n' = 0
              /\ mpc' = "redist"
              /\ UNCHANGED <<wvars, pvars, cur, njobs, th, handles>>

\* Mutant: pools without threads are not skipped.
HungryOrClosed(i) == nthreads(i) # max[i]

\* redistribute_threads: rounds over the pools that want one more thread, each
\* getting one; t never goes back, a round without a start is the last.
Hungry(i) == nthreads(i) # 0 /\ nthreads(i) # max[i]
HungryFrom == {i \in Idx : i >= p /\ Hungry(i)}

\* Mutant: n++ is missing.
RedistStartsUncounted ==
    /\ mpc = "redist" /\ HungryFrom # {} /\ IdleFrom(t) # {}
    /\ thread_start(Lowest(IdleFrom(t)), Lowest(HungryFrom))
    /\ t' = Lowest(IdleFrom(t))
    /\ p' = Lowest(HungryFrom) + 1
    /\ mpc' = "await_redist"
    /\ UNCHANGED <<cur, n, njobs, handles>>

RedistStarts == /\ mpc = "redist" /\ HungryFrom # {} /\ IdleFrom(t) # {}
                /\ thread_start(Lowest(IdleFrom(t)), Lowest(HungryFrom))
                /\ t' = Lowest(IdleFrom(t))
                /\ p' = Lowest(HungryFrom) + 1
                /\ n' = 1
                /\ mpc' = "await_redist"
                /\ UNCHANGED <<cur, njobs, handles>>

RedistStarted == /\ Started("await_redist", "redist")
                 /\ UNCHANGED <<loopvars, njobs, handles>>

RedistNextRound == /\ mpc = "redist" /\ HungryFrom = {} /\ n # 0
                   /\ p' = 1 /\ n' = 0
                   /\ UNCHANGED <<wvars, pvars, cur, t, njobs, mpc, th, handles>>

RedistEnds == /\ mpc = "redist"
              /\ \/ HungryFrom # {} /\ IdleFrom(t) = {}
                 \/ HungryFrom = {} /\ n = 0
              /\ njobs' = njobs - 1
              /\ mpc' = "idle"
              /\ UNCHANGED <<wvars, pvars, loopvars, th, handles>>

-----------------------------------------------------------------------------
Worker(w) == TestRun(w) \/ CallFunc(w) \/ FuncReturns(w)

InCall == \/ ScanStarts \/ ScanStarted \/ ScanEnds
          \/ Steal \/ StealStopped \/ StealStarts \/ StealEnds
          \/ UnloadStops \/ UnloadStopped \/ UnloadEnds
          \/ RedistStarts \/ RedistStarted \/ RedistNextRound \/ RedistEnds

Call == \/ \E m \in Maxes, j \in Jobs : tpool_start(m, j)
        \/ \E i \in Idx : tpool_stop(i)

\* The NULL that Steal followed has ended the process.
Dead == mpc = "crash" /\ UNCHANGED vars

Next == (mpc # "crash" /\ \E w \in Idx : Worker(w)) \/ InCall \/ Call \/ Dead

Spec == Init /\ [][Next]_vars

\* Every thread is scheduled, and no job blocks for ever.
FairSpec == /\ Spec
            /\ WF_vars(InCall)
            /\ \A w \in Idx : WF_vars(Worker(w) /\ mpc # "crash")

-----------------------------------------------------------------------------
TypeOK == /\ canrun \in [Idx -> BOOLEAN] /\ running \in [Idx -> BOOLEAN]
          /\ pool \in [Idx -> Idx \cup {None}]
          /\ wpc \in [Idx -> WPlaces]
          /\ doing \in [Idx -> Jobs \cup {NoJob}]
          /\ crew \in [Idx -> SUBSET Idx]
          /\ max \in [Idx -> Maxes \cup {0}]
          /\ job \in [Idx -> Jobs \cup {NoJob}]
          /\ njobs \in Int
          /\ mpc \in MPlaces
          /\ cur \in Idx \cup {None} /\ th \in Idx \cup {None}
          /\ t \in 1 .. N + 1 /\ p \in 1 .. N + 1 /\ n \in {0, 1}
          /\ handles \in [Idx -> Nat]

\* Where the calls about a thread are.
Phase(w) == IF th = w /\ mpc \in {"await_scan", "await_steal", "await_redist"} THEN "starting"
            ELSE IF th = w /\ mpc \in {"drain_steal", "drain_unload"} THEN "stopping"
            ELSE IF canrun[w] THEN "started" ELSE "stopped"

Thread(w) == INSTANCE Cell WITH canrun <- canrun[w], running <- running[w],
                                place <- wpc[w], phase <- Phase(w)

\* Every worker of the pool is one that ThreadCell implements: tpool_start and tpool_stop
\* start none that is not stopped, and stop none that is not started (tpool.c:100-127).
ThreadsAreCells == /\ \A w \in Idx : Thread(w)!CInit
                   /\ [][\A w \in Idx : [Thread(w)!CNext]_(Thread(w)!cvars)]_vars

InUse(i) == handles[i] > 0 \/ (mpc # "idle" /\ cur = i)

\* A thread runs the function of the pool it belongs to, and of no other: once
\* tpool_stop has returned, nobody is in that pool's function or on the way to
\* it, and nobody runs it with the arg of an older tpool_start (tpool.c:91-92).
OnlyOpenJobsRun ==
    \A w \in Idx : wpc[w] \in {"call", "func"} =>
        /\ pool[w] \in Idx /\ w \in crew[pool[w]]
        /\ InUse(pool[w])
        /\ wpc[w] = "func" => doing[w] = job[pool[w]]

\* What __start and redistribute_threads conclude from running, unlocked, is
\* what the lists of the pools say: a thread they take as idle is in no list,
\* one they skip is in exactly one (tpool.c:152, 239).
IdleMeansFree ==
    /\ \A i, k \in Idx : i # k => crew[i] \cap crew[k] = {}
    /\ mpc \in {"idle", "scan", "redist"} =>
          \A w \in Idx : running[w] <=> \E i \in Idx : w \in crew[i]

\* No thread idles while a pool that has threads wants more of them: what
\* stopping a pool frees is given away to the last thread (tpool.c:212-219).
WorkConserving ==
    mpc = "idle" => (\A w \in Idx : running[w]) \/ (\A i \in Idx : ~Hungry(i))

\* With pools of one thread, as the program makes them, a started pool has its
\* thread and a stopped one has none (tpool.c:137-208; lib.c:19, mine.c:111).
OneThreadEach ==
    mpc = "idle" => \A i \in Idx : nthreads(i) = handles[i]

\* Every call of tpool_start and tpool_stop returns (tpool.c:100-282).
PoolCallsReturn == mpc # "idle" ~> mpc = "idle"

\* The function of a started pool gets called (tpool.c:185-208).
JobsRun == \A i \in Idx :
    handles[i] > 0 ~> (handles[i] = 0 \/ \E w \in crew[i] : wpc[w] = "func")

\* "A new pool can steal threads from existing pools" (tpool.c:19): a pool is
\* not left without a thread while another one has threads to spare.
NewPoolGetsThread ==
    mpc = "idle" => \A i \in Idx : handles[i] > 0 /\ crew[i] = {} =>
                        \A k \in Idx : nthreads(k) <= 1

\* "Here, we steal a single thread" (tpool.c:163): for the new pool.
StolenThreadJoins ==
    [][mpc = "await_steal" /\ mpc' = "idle" => crew[cur] # {}]_vars
=============================================================================
