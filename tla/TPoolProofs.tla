---------------------------- MODULE TPoolProofs ----------------------------
(***************************************************************************)
(* Type correctness, quiescence and work conservation of the thread pool,  *)
(* for any number of threads, any values of max and any jobs; and what     *)
(* holds of its pools when no call asks for more than one thread.          *)
(***************************************************************************)
EXTENDS TPool, FiniteSetTheorems, WellFoundedInduction, TLAPS

InAwait == mpc \in {"await_scan", "await_steal", "await_redist"}
InDrain == mpc \in {"drain_steal", "drain_unload"}
InRedist == mpc \in {"redist", "await_redist"}
InSteal == mpc \in {"drain_steal", "steal_back", "await_steal"}

\* A thread is in the list of its pool only, for as long as it may run; the one
\* exception is the thread that thread_stop is waiting for.
ListInv == /\ \A i, w \in Idx : w \in crew[i] => pool[w] = i
           /\ \A i, w \in Idx : w \in crew[i] /\ ~canrun[w] => InDrain /\ w = th
           /\ \A i, w \in Idx : w \in crew[i] /\ ~running[w] =>
                  (InAwait \/ InDrain) /\ w = th
           /\ \A w \in Idx : running[w] \/ canrun[w] =>
                  pool[w] \in Idx /\ w \in crew[pool[w]]
           /\ \A w \in Idx : wpc[w] \in {"call", "func"} => running[w]

\* A pool with threads is one a caller has the id of, or the one it asks for.
UseInv == /\ \A i \in Idx : crew[i] # {} => InUse(i)
          /\ InRedist /\ handles[cur] = 0 => crew[cur] = {}
          /\ InSteal => p \in Idx /\ InUse(p)

\* What the caller knows of the thread it starts or stops.
CallInv == /\ mpc # "idle" => cur \in Idx
           /\ InAwait => th \in Idx /\ pool[th] \in Idx /\ th \in crew[pool[th]]
           /\ InAwait => canrun[th]
           /\ InDrain => /\ th \in Idx /\ pool[th] \in Idx /\ th \in crew[pool[th]]
                         /\ ~canrun[th]
           /\ mpc = "steal_back" => th \in Idx /\ ~canrun[th] /\ ~running[th]

JobInv == \A w \in Idx : wpc[w] = "func" => doing[w] = job[pool[w]]

PoolInv == TypeOK /\ ListInv /\ UseInv /\ CallInv /\ JobInv

USE TPoolAssumption DEF Idx

-----------------------------------------------------------------------------
\* The smallest element of a set of naturals is one of them (the loops of
\* tpool.c stop at the first pool or thread that suits).
Less == {ss \in Nat \X Nat : ss[1] < ss[2]}

LEMMA LessOn == IsWellFoundedOn(Less, Nat)
<1>1. Less = OpToRel(<, Nat)
  BY DEF Less, OpToRel
<1>2. QED
  BY <1>1, NatLessThanWellFounded, Zenon

LEMMA LowestIn ==
    ASSUME NEW S \in SUBSET Nat, S # {}
    PROVE  Lowest(S) \in S /\ \A k \in S : Lowest(S) <= k
<1>1. PICK i \in S : \A k \in S : <<k, i>> \notin Less
  BY LessOn, WFMin
<1>2. ASSUME NEW k \in S PROVE i <= k
  <2>1. i \in Nat /\ k \in Nat
    OBVIOUS
  <2>2. k < i => <<k, i>> \in Less
    BY <2>1 DEF Less
  <2>3. QED
    BY <1>1, <2>1, <2>2
<1>3. QED
  BY <1>2 DEF Lowest

LEMMA LowestOf ==
    ASSUME NEW S \in SUBSET Idx, S # {}
    PROVE  Lowest(S) \in S
  BY LowestIn

LEMMA LowestIdle ==
    ASSUME IdleFrom(t) # {}
    PROVE  Lowest(IdleFrom(t)) \in Idx /\ ~running[Lowest(IdleFrom(t))]
<1>1. Lowest(IdleFrom(t)) \in IdleFrom(t)
  BY LowestOf DEF IdleFrom
<1>2. QED
  BY <1>1 DEF IdleFrom

LEMMA LowestHungry ==
    ASSUME HungryFrom # {}
    PROVE  /\ Lowest(HungryFrom) \in Idx
           /\ crew[Lowest(HungryFrom)] # {}
<1>1. Lowest(HungryFrom) \in HungryFrom
  BY LowestOf DEF HungryFrom
<1>2. Lowest(HungryFrom) \in Idx /\ nthreads(Lowest(HungryFrom)) # 0
  BY <1>1 DEF HungryFrom, Hungry
<1>3. QED
  BY <1>2, FS_EmptySet DEF nthreads

LEMMA InitInv == Init => PoolInv
  BY DEF Init, PoolInv, TypeOK, ListInv, UseInv, CallInv, JobInv, None, NoJob,
         WPlaces, MPlaces, InAwait, InDrain, InRedist, InSteal

-----------------------------------------------------------------------------
(* The worker *)

LEMMA WorkerStep ==
    ASSUME PoolInv, NEW w \in Idx, Worker(w)
    PROVE  PoolInv'
<1> USE DEF PoolInv, TypeOK, ListInv, UseInv, CallInv, JobInv, wvars, pvars, loopvars
<1>1. CASE TestRun(w)
  <2>1. TypeOK'
    BY <1>1 DEF TestRun, WPlaces, MPlaces
  <2>2. ListInv'
    BY <1>1 DEF TestRun, InAwait, InDrain
  <2>3. UseInv'
    BY <1>1 DEF TestRun, InUse, InRedist, InSteal
  <2>4. CallInv'
    BY <1>1 DEF TestRun, InAwait, InDrain
  <2>5. JobInv'
    BY <1>1 DEF TestRun
  <2>6. QED
    BY <2>1, <2>2, <2>3, <2>4, <2>5 DEF PoolInv
<1>2. CASE CallFunc(w)
  <2>1. TypeOK'
    BY <1>2 DEF CallFunc, WPlaces, MPlaces
  <2>2. ListInv'
    BY <1>2 DEF CallFunc, InAwait, InDrain
  <2>3. UseInv'
    BY <1>2 DEF CallFunc, InUse, InRedist, InSteal
  <2>4. CallInv'
    BY <1>2 DEF CallFunc, InAwait, InDrain
  <2>5. JobInv'
    BY <1>2 DEF CallFunc
  <2>6. QED
    BY <2>1, <2>2, <2>3, <2>4, <2>5 DEF PoolInv
<1>3. CASE FuncReturns(w)
  <2>1. TypeOK'
    BY <1>3 DEF FuncReturns, WPlaces, MPlaces
  <2>2. ListInv'
    BY <1>3 DEF FuncReturns, InAwait, InDrain
  <2>3. UseInv'
    BY <1>3 DEF FuncReturns, InUse, InRedist, InSteal
  <2>4. CallInv'
    BY <1>3 DEF FuncReturns, InAwait, InDrain
  <2>5. JobInv'
    BY <1>3 DEF FuncReturns
  <2>6. QED
    BY <2>1, <2>2, <2>3, <2>4, <2>5 DEF PoolInv
<1>4. QED
  BY <1>1, <1>2, <1>3 DEF Worker
-----------------------------------------------------------------------------
(* tpool_start *)

LEMMA StartStep ==
    ASSUME PoolInv, NEW m \in Maxes, NEW j \in Jobs, tpool_start(m, j)
    PROVE  PoolInv'
<1> DEFINE i == Lowest(FreePools)
<1> USE DEF PoolInv, TypeOK, ListInv, UseInv, CallInv, JobInv, wvars, pvars, loopvars
<1>1. i \in Idx /\ crew[i] = {}
  <2>1. FreePools # {}
    BY DEF tpool_start
  <2>2. FreePools \in SUBSET Idx
    BY DEF FreePools
  <2>3. i \in FreePools
    BY <2>1, <2>2, LowestOf
  <2>4. QED
    BY <2>3 DEF FreePools
<1> HIDE DEF i
<1>2. /\ mpc = "idle" /\ cur' = i
      /\ max' = [max EXCEPT ![i] = m] /\ job' = [job EXCEPT ![i] = j]
      /\ mpc' \in {"scan", "steal"} /\ t' = 1
      /\ UNCHANGED <<wvars, crew, p, n, njobs, th, handles>>
  BY DEF tpool_start, i
<1>3. TypeOK'
  BY <1>1, <1>2 DEF MPlaces
<1>4. ListInv'
  BY <1>1, <1>2 DEF InAwait, InDrain
<1>5. UseInv'
  BY <1>1, <1>2 DEF InUse, InRedist, InSteal
<1>6. CallInv'
  BY <1>1, <1>2 DEF InAwait, InDrain
\* Nobody is in the function of a pool without threads: its job may change.
<1>7. JobInv'
  BY <1>1, <1>2
<1>8. QED
  BY <1>3, <1>4, <1>5, <1>6, <1>7

LEMMA ScanStep ==
    ASSUME PoolInv, ScanStarts \/ ScanStarted \/ ScanEnds
    PROVE  PoolInv'
<1> USE DEF PoolInv, TypeOK, ListInv, UseInv, CallInv, JobInv, wvars, pvars, loopvars
<1>1. CASE ScanStarts
  <2>1. Lowest(IdleFrom(t)) \in Idx /\ ~running[Lowest(IdleFrom(t))]
    BY <1>1, LowestIdle DEF ScanStarts
  <2>2. TypeOK'
    BY <1>1, <2>1 DEF ScanStarts, thread_start, WPlaces, MPlaces
  <2>3. ListInv'
    BY <1>1, <2>1 DEF ScanStarts, thread_start, InAwait, InDrain
  <2>4. UseInv'
    BY <1>1, <2>1 DEF ScanStarts, thread_start, InUse, InRedist, InSteal
  <2>5. CallInv'
    BY <1>1, <2>1 DEF ScanStarts, thread_start, InAwait, InDrain
  <2>6. JobInv'
    BY <1>1, <2>1 DEF ScanStarts, thread_start
  <2>7. QED
    BY <2>2, <2>3, <2>4, <2>5, <2>6 DEF PoolInv
<1>2. CASE ScanStarted
  <2>1. TypeOK'
    BY <1>2 DEF ScanStarted, Started, WPlaces, MPlaces
  <2>2. ListInv'
    BY <1>2 DEF ScanStarted, Started, InAwait, InDrain
  <2>3. UseInv'
    BY <1>2 DEF ScanStarted, Started, InUse, InRedist, InSteal
  <2>4. CallInv'
    BY <1>2 DEF ScanStarted, Started, InAwait, InDrain
  <2>5. JobInv'
    BY <1>2 DEF ScanStarted, Started
  <2>6. QED
    BY <2>1, <2>2, <2>3, <2>4, <2>5 DEF PoolInv
<1>3. CASE ScanEnds
  <2>1. TypeOK'
    BY <1>3 DEF ScanEnds, StartReturns, WPlaces, MPlaces
  <2>2. ListInv'
    BY <1>3 DEF ScanEnds, StartReturns, InAwait, InDrain
  <2>3. UseInv'
    BY <1>3 DEF ScanEnds, StartReturns, InUse, InRedist, InSteal
  <2>4. CallInv'
    BY <1>3 DEF ScanEnds, StartReturns, InAwait, InDrain
  <2>5. JobInv'
    BY <1>3 DEF ScanEnds, StartReturns
  <2>6. QED
    BY <2>1, <2>2, <2>3, <2>4, <2>5 DEF PoolInv
<1>4. QED
  BY <1>1, <1>2, <1>3

LEMMA StealStep ==
    ASSUME PoolInv, Steal \/ StealStopped \/ StealStarts \/ StealEnds
    PROVE  PoolInv'
<1> USE DEF PoolInv, TypeOK, ListInv, UseInv, CallInv, JobInv, wvars, pvars, loopvars
<1>1. CASE Steal
  <2> DEFINE i == Lowest(Givers)
  <2>1. i \in Idx
    <3>1. Givers # {} /\ Givers \in SUBSET Idx
      BY <1>1 DEF Steal, Givers
    <3>2. i \in Givers
      BY <3>1, LowestOf
    <3>3. QED
      BY <3>1, <3>2
  <2>2. UNCHANGED <<cur, t, n, njobs, handles>> /\ mpc = "steal"
    BY <1>1 DEF Steal
  <2> HIDE DEF i
  <2>3. ASSUME NEW w \in crew[i], thread_stop(w), p' = i, mpc' = "drain_steal"
        PROVE  PoolInv'
    <3>1. w \in Idx /\ pool[w] = i /\ th' = w
      BY <2>1, <2>3 DEF thread_stop
    <3>2. TypeOK'
      BY <2>1, <2>2, <2>3, <3>1 DEF thread_stop, MPlaces
    <3>3. ListInv'
      BY <2>1, <2>2, <2>3, <3>1 DEF thread_stop, InAwait, InDrain
    <3>4. UseInv'
      BY <2>1, <2>2, <2>3, <3>1 DEF thread_stop, InUse, InRedist, InSteal
    <3>5. CallInv'
      BY <2>1, <2>2, <2>3, <3>1 DEF thread_stop, InAwait, InDrain
    <3>6. JobInv'
      BY <2>1, <2>2, <2>3, <3>1 DEF thread_stop
    <3>7. QED
      BY <3>2, <3>3, <3>4, <3>5, <3>6
  <2>4. ASSUME mpc' = "crash", UNCHANGED <<wvars, pvars, th, p>>
        PROVE  PoolInv'
    <3>1. TypeOK'
      BY <2>2, <2>4 DEF MPlaces
    <3>2. ListInv' /\ JobInv'
      BY <2>2, <2>4 DEF InAwait, InDrain
    <3>3. UseInv' /\ CallInv'
      BY <2>2, <2>4 DEF InUse, InAwait, InDrain, InRedist, InSteal
    <3>4. QED
      BY <3>1, <3>2, <3>3
  <2>5. QED
    BY <1>1, <2>3, <2>4 DEF Steal, i
<1>2. CASE StealStopped
  <2>1. TypeOK'
    BY <1>2 DEF StealStopped, Stopped, InDrain, MPlaces
  <2>2. ListInv'
    BY <1>2 DEF StealStopped, Stopped, InAwait, InDrain
  <2>3. UseInv'
    BY <1>2 DEF StealStopped, Stopped, InUse, InRedist, InSteal
  <2>4. CallInv'
    BY <1>2 DEF StealStopped, Stopped, InAwait, InDrain
  <2>5. JobInv'
    BY <1>2 DEF StealStopped, Stopped
  <2>6. QED
    BY <2>1, <2>2, <2>3, <2>4, <2>5 DEF PoolInv
<1>3. CASE StealStarts
  <2>1. p \in Idx /\ InUse(p) /\ th \in Idx /\ ~running[th] /\ ~canrun[th]
    BY <1>3 DEF StealStarts, InSteal
  <2>2. TypeOK'
    BY <1>3, <2>1 DEF StealStarts, thread_start, WPlaces, MPlaces
  <2>3. ListInv'
    BY <1>3, <2>1 DEF StealStarts, thread_start, InAwait, InDrain
  <2>4. UseInv'
    BY <1>3, <2>1 DEF StealStarts, thread_start, InUse, InRedist, InSteal
  <2>5. CallInv'
    BY <1>3, <2>1 DEF StealStarts, thread_start, InAwait, InDrain
  <2>6. JobInv'
    BY <1>3, <2>1 DEF StealStarts, thread_start
  <2>7. QED
    BY <2>2, <2>3, <2>4, <2>5, <2>6 DEF PoolInv
<1>4. CASE StealEnds
  <2>1. TypeOK'
    BY <1>4 DEF StealEnds, StartReturns, WPlaces, MPlaces
  <2>2. ListInv'
    BY <1>4 DEF StealEnds, StartReturns, InAwait, InDrain
  <2>3. UseInv'
    BY <1>4 DEF StealEnds, StartReturns, InUse, InRedist, InSteal
  <2>4. CallInv'
    BY <1>4 DEF StealEnds, StartReturns, InAwait, InDrain
  <2>5. JobInv'
    BY <1>4 DEF StealEnds, StartReturns
  <2>6. QED
    BY <2>1, <2>2, <2>3, <2>4, <2>5 DEF PoolInv
<1>5. QED
  BY <1>1, <1>2, <1>3, <1>4

-----------------------------------------------------------------------------
(* tpool_stop *)

LEMMA UnloadStep ==
    ASSUME PoolInv,
           (\E i \in Idx : tpool_stop(i)) \/ UnloadStops \/ UnloadStopped \/ UnloadEnds
    PROVE  PoolInv'
<1> USE DEF PoolInv, TypeOK, ListInv, UseInv, CallInv, JobInv, wvars, pvars, loopvars
<1>1. CASE \E i \in Idx : tpool_stop(i)
  <2>1. TypeOK'
    BY <1>1 DEF tpool_stop, WPlaces, MPlaces
  <2>2. ListInv'
    BY <1>1 DEF tpool_stop, InAwait, InDrain
  <2>3. UseInv'
    BY <1>1 DEF tpool_stop, InUse, InRedist, InSteal
  <2>4. CallInv'
    BY <1>1 DEF tpool_stop, InAwait, InDrain
  <2>5. JobInv'
    BY <1>1 DEF tpool_stop
  <2>6. QED
    BY <2>1, <2>2, <2>3, <2>4, <2>5 DEF PoolInv
<1>2. CASE UnloadStops
  <2>1. TypeOK'
    BY <1>2 DEF UnloadStops, thread_stop, WPlaces, MPlaces
  <2>2. ListInv'
    BY <1>2 DEF UnloadStops, thread_stop, InAwait, InDrain
  <2>3. UseInv'
    BY <1>2 DEF UnloadStops, thread_stop, InUse, InRedist, InSteal
  <2>4. CallInv'
    BY <1>2 DEF UnloadStops, thread_stop, InAwait, InDrain
  <2>5. JobInv'
    BY <1>2 DEF UnloadStops, thread_stop
  <2>6. QED
    BY <2>1, <2>2, <2>3, <2>4, <2>5 DEF PoolInv
<1>3. CASE UnloadStopped
  <2>1. TypeOK'
    BY <1>3 DEF UnloadStopped, Stopped, InDrain, MPlaces
  <2>2. ListInv'
    BY <1>3 DEF UnloadStopped, Stopped, InAwait, InDrain
  <2>3. UseInv'
    BY <1>3 DEF UnloadStopped, Stopped, InUse, InRedist, InSteal
  <2>4. CallInv'
    BY <1>3 DEF UnloadStopped, Stopped, InAwait, InDrain
  <2>5. JobInv'
    BY <1>3 DEF UnloadStopped, Stopped
  <2>6. QED
    BY <2>1, <2>2, <2>3, <2>4, <2>5 DEF PoolInv
<1>4. CASE UnloadEnds
  <2>1. TypeOK'
    BY <1>4 DEF UnloadEnds, WPlaces, MPlaces
  <2>2. ListInv'
    BY <1>4 DEF UnloadEnds, InAwait, InDrain
  <2>3. UseInv'
    BY <1>4 DEF UnloadEnds, InUse, InRedist, InSteal
  <2>4. CallInv'
    BY <1>4 DEF UnloadEnds, InAwait, InDrain
  <2>5. JobInv'
    BY <1>4 DEF UnloadEnds
  <2>6. QED
    BY <2>1, <2>2, <2>3, <2>4, <2>5 DEF PoolInv
<1>5. QED
  BY <1>1, <1>2, <1>3, <1>4

LEMMA RedistStep ==
    ASSUME PoolInv, RedistStarts \/ RedistStarted \/ RedistNextRound \/ RedistEnds
    PROVE  PoolInv'
<1> USE DEF PoolInv, TypeOK, ListInv, UseInv, CallInv, JobInv, wvars, pvars, loopvars
<1>1. CASE RedistStarts
  <2> DEFINE w == Lowest(IdleFrom(t))
             i == Lowest(HungryFrom)
  <2>1. w \in Idx /\ ~running[w]
    BY <1>1, LowestIdle DEF RedistStarts
  <2>2. i \in Idx /\ crew[i] # {}
    BY <1>1, LowestHungry DEF RedistStarts
  <2>3. /\ mpc = "redist" /\ mpc' = "await_redist"
        /\ thread_start(w, i) /\ t' = w /\ p' = i + 1 /\ n' = 1
        /\ UNCHANGED <<cur, njobs, handles>>
    BY <1>1 DEF RedistStarts
  <2> HIDE DEF w, i
  <2>4. TypeOK'
    BY <2>1, <2>2, <2>3 DEF thread_start, WPlaces, MPlaces
  <2>5. ListInv'
    BY <2>1, <2>2, <2>3 DEF thread_start, InAwait, InDrain
  <2>6. UseInv'
    BY <2>1, <2>2, <2>3 DEF thread_start, InUse, InRedist, InSteal
  <2>7. CallInv'
    BY <2>1, <2>2, <2>3 DEF thread_start, InAwait, InDrain
  <2>8. JobInv'
    BY <2>1, <2>2, <2>3 DEF thread_start
  <2>9. QED
    BY <2>4, <2>5, <2>6, <2>7, <2>8
<1>2. CASE RedistStarted
  <2>1. TypeOK'
    BY <1>2 DEF RedistStarted, Started, WPlaces, MPlaces
  <2>2. ListInv'
    BY <1>2 DEF RedistStarted, Started, InAwait, InDrain
  <2>3. UseInv'
    BY <1>2 DEF RedistStarted, Started, InUse, InRedist, InSteal
  <2>4. CallInv'
    BY <1>2 DEF RedistStarted, Started, InAwait, InDrain
  <2>5. JobInv'
    BY <1>2 DEF RedistStarted, Started
  <2>6. QED
    BY <2>1, <2>2, <2>3, <2>4, <2>5 DEF PoolInv
<1>3. CASE RedistNextRound
  <2>1. TypeOK'
    BY <1>3 DEF RedistNextRound, WPlaces, MPlaces
  <2>2. ListInv'
    BY <1>3 DEF RedistNextRound, InAwait, InDrain
  <2>3. UseInv'
    BY <1>3 DEF RedistNextRound, InUse, InRedist, InSteal
  <2>4. CallInv'
    BY <1>3 DEF RedistNextRound, InAwait, InDrain
  <2>5. JobInv'
    BY <1>3 DEF RedistNextRound
  <2>6. QED
    BY <2>1, <2>2, <2>3, <2>4, <2>5 DEF PoolInv
<1>4. CASE RedistEnds
  <2>1. TypeOK'
    BY <1>4 DEF RedistEnds, WPlaces, MPlaces
  <2>2. ListInv'
    BY <1>4 DEF RedistEnds, InAwait, InDrain
  <2>3. UseInv'
    BY <1>4 DEF RedistEnds, InUse, InRedist, InSteal
  <2>4. CallInv'
    BY <1>4 DEF RedistEnds, InAwait, InDrain
  <2>5. JobInv'
    BY <1>4 DEF RedistEnds
  <2>6. QED
    BY <2>1, <2>2, <2>3, <2>4, <2>5 DEF PoolInv
<1>5. QED
  BY <1>1, <1>2, <1>3, <1>4

-----------------------------------------------------------------------------
LEMMA PoolStep ==
    ASSUME PoolInv, [Next]_vars
    PROVE  PoolInv'
<1>1. CASE UNCHANGED vars
  BY <1>1 DEF vars, wvars, pvars, loopvars, PoolInv, TypeOK, ListInv, UseInv,
              CallInv, JobInv, InUse, InAwait, InDrain, InRedist, InSteal
<1>2. CASE \E w \in Idx : Worker(w)
  BY <1>2, WorkerStep
<1>3. CASE InCall
  BY <1>3, ScanStep, StealStep, UnloadStep, RedistStep DEF InCall
<1>4. CASE Call
  BY <1>4, StartStep, UnloadStep DEF Call
<1>5. QED
  BY <1>1, <1>2, <1>3, <1>4 DEF Next, Dead

LEMMA PoolInvariant == Spec => []PoolInv
  BY InitInv, PoolStep, PTL DEF Spec

\* Type correctness of the pool's state (tpool.c:36-66).
THEOREM PoolTypeCorrect == Spec => []TypeOK
  BY PoolInvariant, PTL DEF PoolInv

\* A worker only runs the function of the pool it belongs to, with the arg of
\* that pool's last tpool_start; once tpool_stop has returned nobody does
\* (tpool.c:91-92, 262-282).
THEOREM PoolQuiescence == Spec => []OnlyOpenJobsRun
<1>1. PoolInv => OnlyOpenJobsRun
  BY DEF PoolInv, ListInv, UseInv, JobInv, OnlyOpenJobsRun
<1>2. QED
  BY <1>1, PoolInvariant, PTL

\* A thread that __start and redistribute_threads take as idle, from a read of
\* running without its lock, is in no pool's list, and no thread is in two of
\* them (tpool.c:148, 241).
THEOREM PoolIdleMeansFree == Spec => []IdleMeansFree
<1>1. PoolInv => IdleMeansFree
  <2> SUFFICES ASSUME PoolInv PROVE IdleMeansFree
    OBVIOUS
  <2>1. ASSUME NEW i \in Idx, NEW k \in Idx, i # k
        PROVE  crew[i] \cap crew[k] = {}
    <3>1. crew[i] \subseteq Idx
      BY DEF PoolInv, TypeOK
    <3>2. QED
      BY <2>1, <3>1 DEF PoolInv, ListInv
  <2>2. ASSUME mpc \in {"idle", "scan", "redist"}, NEW w \in Idx
        PROVE  running[w] <=> \E i \in Idx : w \in crew[i]
    BY <2>2 DEF PoolInv, TypeOK, ListInv, InAwait, InDrain
  <2>3. QED
    BY <2>1, <2>2 DEF IdleMeansFree
<1>2. QED
  BY <1>1, PoolInvariant, PTL

-----------------------------------------------------------------------------
(* Work conservation *)

AllRun == \A w \in Idx : running[w]
AllButTh == \A w \in Idx \ {th} : running[w]
NoneHungry == \A i \in Idx : ~Hungry(i)

\* The loops never go back, and what they have passed runs, or is about to say so.
Below == \A w \in Idx : w < t /\ ~running[w] => mpc = "await_scan" /\ w = th

\* What the caller's place says of the bargain.  A steal takes a thread from a pool
\* and gives it back: in between the pool is judged as if it had it.
WorkInv ==
    /\ mpc \in {"idle", "steal"} => AllRun \/ NoneHungry
    /\ mpc \in {"scan", "await_scan"} => /\ AllRun \/ \A i \in Idx \ {cur} : ~Hungry(i)
                                         /\ Below
    /\ mpc \in {"drain_steal", "await_steal"} => AllButTh \/ NoneHungry
    /\ mpc = "drain_steal" => pool[th] = p
    /\ mpc = "steal_back" => AllButTh \/ /\ \A i \in Idx \ {p} : ~Hungry(i)
                                         /\ Cardinality(crew[p] \cup {th}) = max[p]
    /\ mpc \in {"redist", "await_redist"} => Below
    /\ mpc = "redist" /\ n = 0 => p = 1
    /\ mpc = "await_redist" => t = th /\ n = 1

LEMMA FirstIdle ==
    ASSUME NEW v \in Idx, NEW k \in 1 .. N + 1, k <= v, ~running[v], IdleFrom(k) # {}
    PROVE  Lowest(IdleFrom(k)) <= v
<1>1. v \in IdleFrom(k) /\ IdleFrom(k) \in SUBSET Nat
  BY DEF IdleFrom
<1> QED BY <1>1, LowestIn

LEMMA CrewSize ==
    ASSUME TypeOK, NEW i \in Idx
    PROVE  /\ IsFiniteSet(crew[i]) /\ nthreads(i) \in Nat
           /\ nthreads(i) = 0 <=> crew[i] = {}
<1>1. IsFiniteSet(Idx) /\ crew[i] \subseteq Idx
  BY FS_Interval DEF TypeOK
<1>2. IsFiniteSet(crew[i])
  BY <1>1, FS_Subset
<1> QED BY <1>2, FS_EmptySet, FS_CardinalityType DEF nthreads

LEMMA NoThreads == ASSUME NEW i, crew[i] = {} PROVE ~Hungry(i)
  BY FS_EmptySet DEF Hungry, nthreads

\* A worker goes on running unless it is the one that thread_stop waits for.
LEMMA KeepsRunning ==
    ASSUME PoolInv, NEW w \in Idx, Worker(w), NEW v \in Idx, running[v], ~(InDrain /\ v = th)
    PROVE  running'[v]
<1>1. canrun[v]
  BY DEF PoolInv, TypeOK, ListInv
<1> QED BY <1>1 DEF Worker, TestRun, CallFunc, FuncReturns, PoolInv, TypeOK

LEMMA WorkOfWorker ==
    ASSUME PoolInv, WorkInv, NEW w \in Idx, Worker(w)
    PROVE  WorkInv'
<1>1. UNCHANGED <<pool, crew, max, mpc, th, t, p, n, cur>>
  BY DEF Worker, TestRun, CallFunc, FuncReturns, pvars, loopvars
<1>2. \A i : Hungry(i)' = Hungry(i)
  BY <1>1 DEF Hungry, nthreads
<1>run. mpc \notin {"drain_steal", "drain_unload"} /\ AllRun => AllRun'
  BY <1>1, KeepsRunning DEF AllRun, InDrain
<1>3. mpc \notin {"drain_steal", "drain_unload"} /\ Below => Below'
  BY <1>1, KeepsRunning DEF Below, InDrain
<1>4. AllButTh => AllButTh'
  BY <1>1, KeepsRunning DEF AllButTh
<1> HIDE DEF Hungry
<1>5. NoneHungry' = NoneHungry
  BY <1>2 DEF NoneHungry
<1>6. (\A i \in Idx \ {cur} : ~Hungry(i))' = \A i \in Idx \ {cur} : ~Hungry(i)
  BY <1>1, <1>2
<1>7. (\A i \in Idx \ {p} : ~Hungry(i))' = \A i \in Idx \ {p} : ~Hungry(i)
  BY <1>1, <1>2
<1>8. (mpc \in {"idle", "steal"} => AllRun \/ NoneHungry)'
  BY <1>1, <1>run, <1>5 DEF WorkInv
<1>9. (mpc \in {"scan", "await_scan"} => /\ AllRun \/ \A i \in Idx \ {cur} : ~Hungry(i)
                                         /\ Below)'
  BY <1>1, <1>run, <1>3, <1>6 DEF WorkInv
<1>10. (mpc \in {"drain_steal", "await_steal"} => AllButTh \/ NoneHungry)'
  BY <1>1, <1>4, <1>5 DEF WorkInv
<1>11. (mpc = "steal_back" => AllButTh \/ /\ \A i \in Idx \ {p} : ~Hungry(i)
                                          /\ Cardinality(crew[p] \cup {th}) = max[p])'
  BY <1>1, <1>4, <1>7 DEF WorkInv
<1>12. (mpc \in {"redist", "await_redist"} => Below)'
  BY <1>1, <1>3 DEF WorkInv
<1> QED BY <1>1, <1>8, <1>9, <1>10, <1>11, <1>12 DEF WorkInv

LEMMA WorkOfScan ==
    ASSUME PoolInv, WorkInv, ScanStarts \/ ScanStarted \/ ScanEnds
    PROVE  WorkInv'
<1> USE DEF wvars, pvars, loopvars
<1>0. cur \in Idx /\ t \in 1 .. N + 1
  BY DEF PoolInv, CallInv, TypeOK, ScanStarts, ScanStarted, Started, ScanEnds
<1>1. CASE ScanStarts
  <2> DEFINE w == Lowest(IdleFrom(t))
  <2>1. w \in Idx /\ ~running[w]
    BY <1>1, LowestIdle DEF ScanStarts
  <2>2. /\ mpc = "scan" /\ mpc' = "await_scan" /\ t' = w + 1 /\ th' = w
        /\ crew' = [crew EXCEPT ![cur] = @ \cup {w}]
        /\ UNCHANGED <<running, max, cur>>
    BY <1>1 DEF ScanStarts, thread_start
  <2>3. \A v \in Idx : ~running[v] /\ t <= v => w <= v
    BY <1>0, <1>1, FirstIdle DEF ScanStarts
  <2> HIDE DEF w
  <2>4. Below'
    BY <1>0, <2>1, <2>2, <2>3 DEF Below, WorkInv
  <2>5. \A i \in Idx \ {cur} : Hungry(i)' = Hungry(i)
    BY <1>0, <2>2 DEF Hungry, nthreads, PoolInv, TypeOK
  <2>6. \A i \in Idx \ {cur} : ~Hungry(i)
    BY <2>1, <2>2 DEF WorkInv, AllRun
  <2> QED BY <2>2, <2>4, <2>5, <2>6 DEF WorkInv
<1>2. CASE ScanStarted
  <2>1. /\ mpc = "await_scan" /\ mpc' = "scan" /\ running[th]
        /\ UNCHANGED <<running, crew, max, cur, t>>
    BY <1>2 DEF ScanStarted, Started
  <2>2. Below'
    BY <2>1 DEF Below, WorkInv
  <2>3. \A i \in Idx : Hungry(i)' = Hungry(i)
    BY <2>1 DEF Hungry, nthreads
  <2> QED BY <2>1, <2>2, <2>3 DEF WorkInv, AllRun
\* The pool has what it wants, or the loop has passed everybody.
<1>3. CASE ScanEnds
  <2>1. /\ mpc = "scan" /\ mpc' = "idle"
        /\ UNCHANGED <<running, crew, max>>
    BY <1>3 DEF ScanEnds, StartReturns
  <2>2. \A i \in Idx : Hungry(i)' = Hungry(i)
    BY <2>1 DEF Hungry, nthreads
  <2>3. CASE nthreads(cur) = max[cur]
    <3>1. ~Hungry(cur)
      BY <2>3 DEF Hungry
    <3> QED BY <1>0, <2>1, <2>2, <3>1 DEF WorkInv, AllRun, NoneHungry
  <2>4. CASE IdleFrom(t) = {}
    <3>1. AllRun
      BY <1>0, <2>1, <2>4 DEF WorkInv, Below, IdleFrom, AllRun
    <3> QED BY <2>1, <3>1 DEF WorkInv, AllRun
  <2> QED BY <1>3, <2>3, <2>4 DEF ScanEnds
<1> QED BY <1>1, <1>2, <1>3

LEMMA WorkOfSteal ==
    ASSUME PoolInv, WorkInv, Steal \/ StealStopped \/ StealStarts \/ StealEnds
    PROVE  WorkInv'
<1> USE DEF wvars, pvars, loopvars
<1>1. CASE Steal
  <2>1. mpc' = "crash" => WorkInv'
    BY DEF WorkInv
  <2>2. ASSUME mpc' # "crash" PROVE WorkInv'
    <3>1. \E i \in Idx : \E w \in crew[i] : thread_stop(w) /\ p' = i /\ mpc' = "drain_steal"
      <4>1. Givers # {} /\ Givers \in SUBSET Idx
        BY <1>1 DEF Steal, Givers
      <4>2. Lowest(Givers) \in Idx
        BY <4>1, LowestOf
      <4> QED BY <1>1, <2>2, <4>2 DEF Steal
    <3> PICK i \in Idx : \E w \in crew[i] : thread_stop(w) /\ p' = i /\ mpc' = "drain_steal"
      BY <3>1
    <3> PICK w \in crew[i] : thread_stop(w) /\ p' = i /\ mpc' = "drain_steal"
      OBVIOUS
    <3>2. mpc = "steal" /\ UNCHANGED <<running, crew, max, pool>> /\ th' = w
      BY <1>1 DEF Steal, thread_stop
    <3>3. w \in Idx /\ pool[w] = i
      BY DEF PoolInv, TypeOK, ListInv
    <3>4. \A k \in Idx : Hungry(k)' = Hungry(k)
      BY <3>2 DEF Hungry, nthreads
    <3> QED BY <3>2, <3>3, <3>4 DEF WorkInv, AllRun, AllButTh, NoneHungry
  <2> QED BY <2>1, <2>2
<1>2. CASE StealStopped
  <2>1. /\ mpc = "drain_steal" /\ mpc' = "steal_back"
        /\ crew' = [crew EXCEPT ![p] = @ \ {th}]
        /\ UNCHANGED <<running, max, p, th>>
    BY <1>2 DEF StealStopped, Stopped, WorkInv
  <2>2. p \in Idx /\ th \in Idx /\ th \in crew[p]
    BY <2>1 DEF WorkInv, PoolInv, CallInv, InDrain
  <2>3. crew'[p] \cup {th} = crew[p] /\ \A i \in Idx \ {p} : crew'[i] = crew[i]
    BY <2>1, <2>2 DEF PoolInv, TypeOK
  <2>4. \A i \in Idx \ {p} : Hungry(i)' = Hungry(i)
    BY <2>1, <2>3 DEF Hungry, nthreads
  <2>5. nthreads(p) # 0
    BY <2>2, CrewSize DEF PoolInv
  <2>6. ~Hungry(p) => Cardinality(crew'[p] \cup {th}) = max[p]
    BY <2>3, <2>5 DEF Hungry, nthreads
  <2> QED BY <2>1, <2>2, <2>4, <2>6 DEF WorkInv, AllButTh, NoneHungry
<1>3. CASE StealStarts
  <2>1. /\ mpc = "steal_back" /\ mpc' = "await_steal"
        /\ crew' = [crew EXCEPT ![p] = @ \cup {th}]
        /\ UNCHANGED <<running, max, p, th>>
    BY <1>3 DEF StealStarts, thread_start
  <2>2. p \in Idx
    BY <2>1 DEF PoolInv, UseInv, InSteal
  <2>3. crew'[p] = crew[p] \cup {th} /\ \A i \in Idx \ {p} : crew'[i] = crew[i]
    BY <2>1, <2>2 DEF PoolInv, TypeOK
  <2>4. \A i \in Idx \ {p} : Hungry(i)' = Hungry(i)
    BY <2>1, <2>3 DEF Hungry, nthreads
  <2>5. Cardinality(crew[p] \cup {th}) = max[p] => ~Hungry(p)'
    BY <2>1, <2>3 DEF Hungry, nthreads
  <2> QED BY <2>1, <2>2, <2>4, <2>5 DEF WorkInv, AllButTh, NoneHungry
<1>4. CASE StealEnds
  <2>1. /\ mpc = "await_steal" /\ mpc' = "idle" /\ running[th]
        /\ UNCHANGED <<running, crew, max>>
    BY <1>4 DEF StealEnds, StartReturns
  <2>2. \A i \in Idx : Hungry(i)' = Hungry(i)
    BY <2>1 DEF Hungry, nthreads
  <2> QED BY <2>1, <2>2 DEF WorkInv, AllRun, AllButTh, NoneHungry
<1> QED BY <1>1, <1>2, <1>3, <1>4

LEMMA WorkOfRedist ==
    ASSUME PoolInv, WorkInv, RedistStarts \/ RedistStarted \/ RedistNextRound \/ RedistEnds
    PROVE  WorkInv'
<1> USE DEF wvars, pvars, loopvars
<1>0. t \in 1 .. N + 1
  BY DEF PoolInv, TypeOK
<1>1. CASE RedistStarts
  <2> DEFINE w == Lowest(IdleFrom(t))
  <2>1. w \in Idx /\ ~running[w]
    BY <1>1, LowestIdle DEF RedistStarts
  <2>2. /\ mpc = "redist" /\ mpc' = "await_redist" /\ t' = w /\ th' = w
        /\ n' = 1 /\ UNCHANGED running
    BY <1>1 DEF RedistStarts, thread_start
  <2>3. \A v \in Idx : ~running[v] /\ t <= v => w <= v
    BY <1>0, <1>1, FirstIdle DEF RedistStarts
  <2> HIDE DEF w
  <2>4. Below'
    BY <1>0, <2>1, <2>2, <2>3 DEF Below, WorkInv
  <2> QED BY <2>2, <2>4 DEF WorkInv
<1>2. CASE RedistStarted
  <2>1. /\ mpc = "await_redist" /\ mpc' = "redist" /\ UNCHANGED <<running, t, n, p>>
    BY <1>2 DEF RedistStarted, Started
  <2>2. n' = 1 /\ Below'
    BY <2>1 DEF WorkInv, Below
  <2> QED BY <2>1, <2>2 DEF WorkInv
<1>3. CASE RedistNextRound
  BY <1>3 DEF RedistNextRound, WorkInv, Below
\* A round without a start saw no pool that wants a thread; or there is none to give.
<1>4. CASE RedistEnds
  <2>1. /\ mpc = "redist" /\ mpc' = "idle" /\ UNCHANGED <<running, crew, max>>
    BY <1>4 DEF RedistEnds
  <2>2. \A i \in Idx : Hungry(i)' = Hungry(i)
    BY <2>1 DEF Hungry, nthreads
  <2>3. CASE IdleFrom(t) = {}
    <3>1. AllRun
      BY <1>0, <2>1, <2>3 DEF WorkInv, Below, IdleFrom, AllRun
    <3> QED BY <2>1, <3>1 DEF WorkInv, AllRun
  <2>4. CASE HungryFrom = {} /\ n = 0
    <3>1. NoneHungry
      BY <2>1, <2>4 DEF WorkInv, HungryFrom, NoneHungry
    <3> QED BY <2>1, <2>2, <3>1 DEF WorkInv, NoneHungry
  <2> QED BY <1>4, <2>3, <2>4 DEF RedistEnds
<1> QED BY <1>1, <1>2, <1>3, <1>4

LEMMA WorkOfCalls ==
    ASSUME PoolInv, WorkInv,
           \/ \E m \in Maxes, j \in Jobs : tpool_start(m, j)
           \/ \E i \in Idx : tpool_stop(i)
           \/ UnloadStops \/ UnloadStopped \/ UnloadEnds
    PROVE  WorkInv'
<1> USE DEF wvars, pvars, loopvars
<1>1. ASSUME NEW m \in Maxes, NEW j \in Jobs, tpool_start(m, j) PROVE WorkInv'
  <2>1. PICK i \in Idx : i = Lowest(FreePools) /\ crew[i] = {}
    <3>1. FreePools # {} /\ FreePools \in SUBSET Idx
      BY <1>1 DEF tpool_start, FreePools
    <3> QED BY <3>1, LowestOf DEF FreePools
  <2>2. /\ mpc = "idle" /\ mpc' \in {"scan", "steal"} /\ cur' = i /\ t' = 1
        /\ max' = [max EXCEPT ![i] = m]
        /\ UNCHANGED <<running, crew>>
    BY <1>1, <2>1 DEF tpool_start
  <2>3. \A k \in Idx \ {i} : Hungry(k)' = Hungry(k)
    BY <2>1, <2>2 DEF Hungry, nthreads, PoolInv, TypeOK
  <2>4. ~Hungry(i)'
    BY <2>1, <2>2, FS_EmptySet DEF Hungry, nthreads
  <2>5. Below'
    BY <2>2 DEF Below, Idx
  <2> QED BY <2>1, <2>2, <2>3, <2>4, <2>5 DEF WorkInv, AllRun, NoneHungry
<1>2. CASE \E i \in Idx : tpool_stop(i)
  BY <1>2 DEF tpool_stop, WorkInv
<1>3. CASE UnloadStops
  BY <1>3 DEF UnloadStops, WorkInv
<1>4. CASE UnloadStopped
  BY <1>4 DEF UnloadStopped, Stopped, WorkInv
<1>5. CASE UnloadEnds
  BY <1>5 DEF UnloadEnds, WorkInv, Below
<1> QED BY <1>1, <1>2, <1>3, <1>4, <1>5

\* Whatever stopping a pool frees is given away, to the last thread (tpool.c:212-259).
THEOREM PoolConservesWork == Spec => []WorkConserving
<1>1. Init => WorkInv
  <2> SUFFICES ASSUME Init PROVE WorkInv
    OBVIOUS
  <2>1. NoneHungry
    BY NoThreads DEF Init, NoneHungry
  <2> QED BY <2>1 DEF Init, WorkInv
<1>2. PoolInv /\ WorkInv /\ [Next]_vars => WorkInv'
  <2> SUFFICES ASSUME PoolInv, WorkInv, [Next]_vars PROVE WorkInv'
    OBVIOUS
  <2>1. CASE UNCHANGED vars
    BY <2>1 DEF vars, wvars, pvars, loopvars, WorkInv, AllRun, AllButTh, NoneHungry, Below,
                Hungry, nthreads
  <2>2. CASE \E w \in Idx : Worker(w)
    BY <2>2, WorkOfWorker
  <2>3. CASE InCall
    BY <2>3, WorkOfScan, WorkOfSteal, WorkOfCalls, WorkOfRedist DEF InCall
  <2>4. CASE Call
    BY <2>4, WorkOfCalls DEF Call
  <2> QED BY <2>1, <2>2, <2>3, <2>4 DEF Next, Dead
<1>3. WorkInv => WorkConserving
  BY DEF WorkInv, WorkConserving, AllRun, NoneHungry
<1> QED BY <1>1, <1>2, <1>3, PoolInvariant, PTL DEF Spec

-----------------------------------------------------------------------------
(* Pools of one thread, as the program makes them *)

Open == {i \in Idx : handles[i] = 1}

OneInv ==
    /\ \A i \in Idx : handles[i] \in {0, 1}
    /\ \A i \in Idx : crew[i] # {} => max[i] = 1 /\ \A v, w \in crew[i] : v = w
    /\ mpc # "idle" => handles[cur] = 0
    /\ \A i \in Idx : mpc = "idle" \/ i # cur => (handles[i] = 1 <=> crew[i] # {})
    /\ mpc \in {"idle", "scan", "await_scan", "unload", "drain_unload", "redist"}
    /\ mpc \in {"scan", "await_scan"} => max[cur] = 1
    /\ mpc = "scan" /\ crew[cur] = {} => t = 1 /\ \E w \in Idx : ~running[w]
    /\ mpc \in {"await_scan", "drain_unload"} => pool[th] = cur
    /\ mpc = "redist" => crew[cur] = {} /\ n = 0
    /\ njobs = Cardinality(Open)
               + IF mpc \in {"unload", "drain_unload", "redist"} THEN 1 ELSE 0

LEMMA OpenSize == IsFiniteSet(Open) /\ Cardinality(Open) \in Nat
<1>1. IsFiniteSet(Idx) /\ Open \subseteq Idx
  BY FS_Interval DEF Open
<1> QED BY <1>1, FS_Subset, FS_CardinalityType

LEMMA OneSize ==
    ASSUME PoolInv, OneInv, NEW i \in Idx
    PROVE  nthreads(i) = IF crew[i] = {} THEN 0 ELSE 1
<1>1. CASE crew[i] = {}
  BY <1>1, FS_EmptySet DEF nthreads
<1>2. CASE crew[i] # {}
  <2> PICK w \in crew[i] : TRUE
    BY <1>2
  <2>1. crew[i] = {w}
    BY DEF OneInv
  <2> QED BY <1>2, <2>1, FS_Singleton DEF nthreads
<1> QED BY <1>1, <1>2

LEMMA NoneIsHungry == ASSUME PoolInv, OneInv PROVE \A i \in Idx : ~Hungry(i)
  BY OneSize DEF OneInv, Hungry

\* While a pool has no thread, some thread has no pool: two threads never share one.
LEMMA FreePoolFreeThread ==
    ASSUME PoolInv, OneInv, NEW i \in Idx, crew[i] = {}
    PROVE  \E w \in Idx : ~running[w]
<1> SUFFICES ASSUME \A w \in Idx : running[w] PROVE FALSE
  OBVIOUS
<1> DEFINE f == [w \in Idx |-> pool[w]]
<1>1. \A w \in Idx : pool[w] \in Idx /\ w \in crew[pool[w]]
  BY DEF PoolInv, ListInv
<1>2. f \in [Idx -> Idx \ {i}]
  BY <1>1
<1>3. /\ IsFiniteSet(Idx) /\ IsFiniteSet(Idx \ {i})
      /\ Cardinality(Idx \ {i}) < Cardinality(Idx)
  <2>1. IsFiniteSet(Idx) /\ Cardinality(Idx) = N
    BY FS_Interval
  <2>2. IsFiniteSet(Idx \ {i}) /\ Cardinality(Idx \ {i}) = Cardinality(Idx) - 1
    <3> HIDE DEF Idx
    <3> QED BY <2>1, FS_RemoveElement
  <2> QED BY <2>1, <2>2
<1>4. \E v, w \in Idx : v # w /\ f[v] = f[w]
  <2> DEFINE T == Idx \ {i}
  <2> HIDE DEF f, T, Idx
  <2> QED BY <1>2, <1>3, FS_PigeonHole DEF T
<1> PICK v, w \in Idx : v # w /\ f[v] = f[w]
  BY <1>4
<1>5. pool[v] = pool[w]
  OBVIOUS
<1> QED BY <1>1, <1>5 DEF OneInv

LEMMA OneOfWorker ==
    ASSUME PoolInv, OneInv, NEW w \in Idx, Worker(w)
    PROVE  OneInv'
<1>1. UNCHANGED <<pool, crew, max, mpc, th, t, n, cur, handles, njobs>>
  BY DEF Worker, TestRun, CallFunc, FuncReturns, pvars, loopvars
<1>2. ASSUME mpc = "scan", NEW v \in Idx, ~running[v] PROVE ~running'[v]
  <2>1. ~canrun[v]
    BY <1>2 DEF PoolInv, ListInv, InAwait, InDrain
  <2> QED BY <1>2, <2>1 DEF Worker, TestRun, CallFunc, FuncReturns, PoolInv, TypeOK
<1>3. Open' = Open
  BY <1>1 DEF Open
<1> QED BY <1>1, <1>2, <1>3 DEF OneInv

LEMMA OneOfScan ==
    ASSUME PoolInv, OneInv, ScanStarts \/ ScanStarted \/ ScanEnds
    PROVE  OneInv'
<1> USE DEF wvars, pvars, loopvars
<1>0. cur \in Idx /\ t \in 1 .. N + 1
  BY DEF PoolInv, CallInv, TypeOK, ScanStarts, ScanStarted, Started, ScanEnds
<1>1. CASE ScanStarts
  <2> DEFINE w == Lowest(IdleFrom(t))
  <2>1. w \in Idx
    BY <1>1, LowestIdle DEF ScanStarts
  <2>2. /\ mpc = "scan" /\ mpc' = "await_scan" /\ th' = w
        /\ crew' = [crew EXCEPT ![cur] = @ \cup {w}]
        /\ pool' = [pool EXCEPT ![w] = cur]
        /\ UNCHANGED <<max, cur, handles, njobs>>
    BY <1>1 DEF ScanStarts, thread_start
  <2>3. crew[cur] = {}
    BY <1>0, <1>1, <2>2, OneSize DEF ScanStarts, OneInv
  <2>4. crew'[cur] = {w} /\ \A i \in Idx \ {cur} : crew'[i] = crew[i]
    BY <1>0, <2>2, <2>3 DEF PoolInv, TypeOK
  <2>5. pool'[th'] = cur'
    BY <2>1, <2>2 DEF PoolInv, TypeOK
  <2>6. Open' = Open
    BY <2>2 DEF Open
  <2> HIDE DEF w
  <2> QED BY <1>0, <2>2, <2>4, <2>5, <2>6 DEF OneInv
<1>2. CASE ScanStarted
  <2>1. /\ mpc = "await_scan" /\ mpc' = "scan"
        /\ UNCHANGED <<crew, max, cur, handles, njobs>>
    BY <1>2 DEF ScanStarted, Started
  <2>2. crew[cur] # {}
    BY <2>1 DEF PoolInv, CallInv, InAwait, OneInv
  <2>3. Open' = Open
    BY <2>1 DEF Open
  <2> QED BY <1>0, <2>1, <2>2, <2>3 DEF OneInv
\* The loop does not end without a thread: there is one to take.
<1>3. CASE ScanEnds
  <2>1. /\ mpc = "scan" /\ mpc' = "idle" /\ njobs' = njobs + 1
        /\ handles' = [handles EXCEPT ![cur] = @ + 1]
        /\ UNCHANGED <<crew, max, cur>>
    BY <1>3 DEF ScanEnds, StartReturns
  <2>2. crew[cur] # {}
    BY <1>0, <1>3, <2>1, OneSize DEF ScanEnds, OneInv, IdleFrom
  <2>3. handles[cur] = 0 /\ handles'[cur] = 1 /\ \A i \in Idx \ {cur} : handles'[i] = handles[i]
    BY <1>0, <2>1 DEF PoolInv, TypeOK, OneInv
  <2>4. Open' = Open \cup {cur} /\ cur \notin Open
    BY <1>0, <2>3 DEF Open
  <2>5. Cardinality(Open') = Cardinality(Open) + 1
    BY <2>4, OpenSize, FS_AddElement
  <2> QED BY <1>0, <2>1, <2>2, <2>3, <2>5, OpenSize DEF OneInv
<1> QED BY <1>1, <1>2, <1>3

LEMMA OneOfUnload ==
    ASSUME PoolInv, OneInv,
           \/ \E i \in Idx : tpool_stop(i)
           \/ UnloadStops \/ UnloadStopped \/ UnloadEnds \/ RedistEnds
    PROVE  OneInv'
<1> USE DEF wvars, pvars, loopvars
<1>1. ASSUME NEW i \in Idx, tpool_stop(i) PROVE OneInv'
  <2>1. /\ mpc = "idle" /\ mpc' = "unload" /\ handles[i] > 0 /\ cur' = i
        /\ handles' = [handles EXCEPT ![i] = @ - 1]
        /\ UNCHANGED <<crew, max, njobs>>
    BY <1>1 DEF tpool_stop
  <2>2. handles[i] = 1 /\ handles'[i] = 0 /\ \A k \in Idx \ {i} : handles'[k] = handles[k]
    BY <2>1 DEF PoolInv, TypeOK, OneInv
  <2>3. Open' = Open \ {i} /\ i \in Open
    BY <2>2 DEF Open
  <2>4. Cardinality(Open') = Cardinality(Open) - 1
    BY <2>3, OpenSize, FS_RemoveElement
  <2> QED BY <2>1, <2>2, <2>4, OpenSize DEF OneInv
<1>2. CASE UnloadStops
  <2> PICK w \in crew[cur] : thread_stop(w)
    BY <1>2 DEF UnloadStops
  <2>1. /\ mpc = "unload" /\ mpc' = "drain_unload" /\ th' = w
        /\ UNCHANGED <<pool, crew, max, cur, handles, njobs>>
    BY <1>2 DEF UnloadStops, thread_stop
  <2>2. pool[w] = cur
    BY <2>1 DEF PoolInv, TypeOK, CallInv, ListInv
  <2>3. Open' = Open
    BY <2>1 DEF Open
  <2> QED BY <2>1, <2>2, <2>3 DEF OneInv
<1>3. CASE UnloadStopped
  <2>1. /\ mpc = "drain_unload" /\ mpc' = "unload"
        /\ crew' = [crew EXCEPT ![pool[th]] = @ \ {th}]
        /\ UNCHANGED <<max, cur, handles, njobs>>
    BY <1>3 DEF UnloadStopped, Stopped
  <2>2. cur \in Idx /\ pool[th] = cur
    BY <2>1 DEF PoolInv, CallInv, OneInv
  <2>3. crew'[cur] = crew[cur] \ {th} /\ \A i \in Idx \ {cur} : crew'[i] = crew[i]
    BY <2>1, <2>2 DEF PoolInv, TypeOK
  <2>4. Open' = Open
    BY <2>1 DEF Open
  <2> QED BY <2>1, <2>2, <2>3, <2>4 DEF OneInv
<1>4. CASE UnloadEnds
  <2>1. /\ mpc = "unload" /\ mpc' = "redist" /\ crew[cur] = {} /\ n' = 0
        /\ UNCHANGED <<crew, max, cur, handles, njobs>>
    BY <1>4 DEF UnloadEnds
  <2>2. Open' = Open
    BY <2>1 DEF Open
  <2> QED BY <2>1, <2>2 DEF OneInv
<1>5. CASE RedistEnds
  <2>1. /\ mpc = "redist" /\ mpc' = "idle" /\ njobs' = njobs - 1
        /\ UNCHANGED <<crew, max, cur, handles>>
    BY <1>5 DEF RedistEnds
  <2>2. Open' = Open
    BY <2>1 DEF Open
  <2> QED BY <2>1, <2>2, OpenSize DEF OneInv
<1> QED BY <1>1, <1>2, <1>3, <1>4, <1>5

\* Nobody is robbed: there are as many ids in use as pools with a thread.
LEMMA OneOfStart ==
    ASSUME PoolInv, OneInv, NEW j \in Jobs, tpool_start(1, j)
    PROVE  OneInv'
<1>1. PICK i \in Idx : i = Lowest(FreePools) /\ crew[i] = {}
  <2>1. FreePools # {} /\ FreePools \in SUBSET Idx
    BY DEF tpool_start, FreePools
  <2> QED BY <2>1, LowestOf DEF FreePools
<1>2. /\ mpc = "idle" /\ mpc' = (IF N - njobs # 0 THEN "scan" ELSE "steal")
      /\ cur' = i /\ t' = 1
      /\ max' = [max EXCEPT ![i] = 1]
      /\ UNCHANGED <<running, pool, crew, handles, njobs>>
  BY <1>1 DEF tpool_start, wvars
<1>3. handles[i] = 0
  BY <1>1, <1>2 DEF OneInv
<1>4. Cardinality(Open) < N
  <2>1. IsFiniteSet(Idx) /\ Cardinality(Idx) = N
    BY FS_Interval
  <2>2. Open \in SUBSET Idx /\ Open # Idx
    BY <1>3 DEF Open
  <2>3. Cardinality(Open) <= Cardinality(Idx) /\ Cardinality(Open) # Cardinality(Idx)
    BY <2>1, <2>2, FS_Subset
  <2> QED BY <2>1, <2>3, OpenSize
<1>5. mpc' = "scan"
  BY <1>2, <1>4, OpenSize DEF OneInv
<1>6. \E w \in Idx : ~running[w]
  BY <1>1, FreePoolFreeThread
<1>7. max'[i] = 1 /\ \A k \in Idx \ {i} : max'[k] = max[k]
  BY <1>2 DEF PoolInv, TypeOK
<1>8. Open' = Open
  BY <1>2 DEF Open
<1> QED BY <1>1, <1>2, <1>3, <1>5, <1>6, <1>7, <1>8 DEF OneInv

\* A pool that was started has its thread, one that was stopped has none, when no
\* call asks for more than one thread (tpool.c:137-208; lib.c:19, mine.c:111).
THEOREM PoolsHaveOneThread ==
    ASSUME Maxes = {1}
    PROVE  Spec => []OneThreadEach
<1>1. Init => OneInv
  <2> SUFFICES ASSUME Init PROVE OneInv
    OBVIOUS
  <2>1. Open = {}
    BY DEF Init, Open
  <2> QED BY <2>1, FS_EmptySet DEF Init, OneInv
<1>2. PoolInv /\ OneInv /\ [Next]_vars => OneInv'
  <2> SUFFICES ASSUME PoolInv, OneInv, [Next]_vars PROVE OneInv'
    OBVIOUS
  <2>1. CASE UNCHANGED vars
    BY <2>1 DEF vars, wvars, pvars, loopvars, OneInv, Open
  <2>2. CASE \E w \in Idx : Worker(w)
    BY <2>2, OneOfWorker
  <2>3. ~(Steal \/ StealStopped \/ StealStarts \/ StealEnds \/ RedistStarted)
    BY DEF OneInv, Steal, StealStopped, Stopped, StealStarts, StealEnds, RedistStarted, Started
  <2>4. ~(RedistStarts \/ RedistNextRound)
    BY NoneIsHungry DEF RedistStarts, RedistNextRound, HungryFrom, OneInv
  <2>5. CASE InCall
    BY <2>3, <2>4, <2>5, OneOfScan, OneOfUnload DEF InCall
  <2>6. CASE Call
    BY <2>6, OneOfStart, OneOfUnload DEF Call
  <2> QED BY <2>1, <2>2, <2>5, <2>6 DEF Next, Dead
<1>3. PoolInv /\ OneInv => OneThreadEach
  <2> SUFFICES ASSUME PoolInv, OneInv, mpc = "idle", NEW i \in Idx
               PROVE  nthreads(i) = handles[i]
    BY DEF OneThreadEach
  <2> QED BY OneSize DEF OneInv
<1> QED BY <1>1, <1>2, <1>3, PoolInvariant, PTL DEF Spec
-----------------------------------------------------------------------------
(* Every worker of the pool is a Cell.                                       *)

\* What a step makes of one worker and its calls.
CellStep(w) == [Thread(w)!CNext]_(Thread(w)!cvars)

LEMMA CellsBegin == ASSUME Init, NEW w \in Idx PROVE Thread(w)!CInit
  BY DEF Init, Thread!CInit, Phase, None

LEMMA CellStays ==
    ASSUME NEW w \in Idx, UNCHANGED <<canrun[w], running[w], wpc[w], Phase(w)>>
    PROVE  CellStep(w)
  BY DEF CellStep, Thread!cvars

\* A call begins and ends where it waits; elsewhere canrun tells the phase.
LEMMA PhaseIs ==
    ASSUME NEW w \in Idx
    PROVE  /\ ~InAwait /\ ~InDrain => Phase(w) = IF canrun[w] THEN "started" ELSE "stopped"
           /\ (~InAwait /\ ~InDrain)' => Phase(w)' = IF canrun'[w] THEN "started" ELSE "stopped"
           /\ th # w => Phase(w) = IF canrun[w] THEN "started" ELSE "stopped"
           /\ th' # w => Phase(w)' = IF canrun'[w] THEN "started" ELSE "stopped"
           /\ InAwait /\ th = w => Phase(w) = "starting"
           /\ (InAwait /\ th = w)' => Phase(w)' = "starting"
           /\ InDrain /\ th = w => Phase(w) = "stopping"
           /\ (InDrain /\ th = w)' => Phase(w)' = "stopping"
  BY DEF Phase, InAwait, InDrain

LEMMA CellOfWorker ==
    ASSUME PoolInv, NEW v \in Idx, NEW w \in Idx, Worker(w)
    PROVE  CellStep(v)
<1>1. /\ UNCHANGED <<canrun, mpc, th>> /\ wpc \in [Idx -> WPlaces] /\ running \in [Idx -> BOOLEAN]
      /\ canrun \in [Idx -> BOOLEAN]
  BY DEF Worker, TestRun, CallFunc, FuncReturns, PoolInv, TypeOK
<1>2. Phase(v)' = Phase(v)
  BY <1>1 DEF Phase
<1>3. CASE v # w
  <2>1. running'[v] = running[v] /\ wpc'[v] = wpc[v]
    BY <1>1, <1>3 DEF Worker, TestRun, CallFunc, FuncReturns
  <2> QED BY <1>1, <1>2, <2>1, CellStays
<1>4. CASE v = w
  <2>1. CASE TestRun(w)
    <3>1. Thread(v)!TestRun
      BY <1>1, <1>2, <1>4, <2>1 DEF TestRun, Thread!TestRun
    <3> QED BY <3>1 DEF CellStep, Thread!CNext
  <2>2. CASE CallFunc(w)
    <3>1. Thread(v)!CallFunc
      BY <1>1, <1>2, <1>4, <2>2 DEF CallFunc, Thread!CallFunc
    <3> QED BY <3>1 DEF CellStep, Thread!CNext
  <2>3. CASE FuncReturns(w)
    <3>1. Thread(v)!FuncReturns
      BY <1>1, <1>2, <1>4, <2>3 DEF FuncReturns, Thread!FuncReturns
    <3> QED BY <3>1 DEF CellStep, Thread!CNext
  <2> QED BY <2>1, <2>2, <2>3 DEF Worker
<1> QED BY <1>3, <1>4

\* A thread that is started was stopped.
LEMMA CellOfStart ==
    ASSUME PoolInv, NEW v \in Idx, NEW w \in Idx, NEW i, thread_start(w, i),
           ~InAwait, ~InDrain, InAwait', ~canrun[w]
    PROVE  CellStep(v)
<1>1. /\ canrun' = [canrun EXCEPT ![w] = TRUE] /\ running' = running /\ th' = w
      /\ wpc' = [wpc EXCEPT ![w] = IF @ = "wait" THEN "test" ELSE @]
      /\ canrun \in [Idx -> BOOLEAN] /\ wpc \in [Idx -> WPlaces]
  BY DEF thread_start, PoolInv, TypeOK
<1>2. CASE v # w
  <2>1. canrun'[v] = canrun[v] /\ running'[v] = running[v] /\ wpc'[v] = wpc[v]
    BY <1>1, <1>2
  <2>2. Phase(v)' = Phase(v)
    BY <1>1, <1>2, <2>1, PhaseIs
  <2> QED BY <2>1, <2>2, CellStays
<1>3. CASE v = w
  <2>1. Phase(v) = "stopped" /\ Phase(v)' = "starting"
    BY <1>1, <1>3, PhaseIs
  <2>2. Thread(v)!thread_start
    BY <1>1, <1>3, <2>1 DEF Thread!thread_start
  <2> QED BY <2>2 DEF CellStep, Thread!CNext
<1> QED BY <1>2, <1>3

\* A thread that is stopped was started.
LEMMA CellOfStop ==
    ASSUME PoolInv, NEW v \in Idx, NEW w \in Idx, thread_stop(w),
           ~InAwait, ~InDrain, InDrain', canrun[w]
    PROVE  CellStep(v)
<1>1. /\ canrun' = [canrun EXCEPT ![w] = FALSE] /\ running' = running /\ th' = w /\ wpc' = wpc
      /\ canrun \in [Idx -> BOOLEAN] /\ ~InAwait'
  BY DEF thread_stop, PoolInv, TypeOK, InAwait, InDrain
<1>2. CASE v # w
  <2>1. canrun'[v] = canrun[v] /\ running'[v] = running[v] /\ wpc'[v] = wpc[v]
    BY <1>1, <1>2
  <2>2. Phase(v)' = Phase(v)
    BY <1>1, <1>2, <2>1, PhaseIs
  <2> QED BY <2>1, <2>2, CellStays
<1>3. CASE v = w
  <2>1. Phase(v) = "started" /\ Phase(v)' = "stopping"
    BY <1>1, <1>3, PhaseIs
  <2>2. Thread(v)!thread_stop
    BY <1>1, <1>3, <2>1 DEF Thread!thread_stop
  <2> QED BY <2>2 DEF CellStep, Thread!CNext
<1> QED BY <1>2, <1>3

\* The worker has answered.
LEMMA CellOfAnswer ==
    ASSUME PoolInv, NEW v \in Idx, UNCHANGED <<wvars, th>>, ~InAwait', ~InDrain',
           (InAwait /\ running[th]) \/ (InDrain /\ ~running[th])
    PROVE  CellStep(v)
<1>1. /\ UNCHANGED <<canrun, running, wpc, th>>
      /\ InAwait => th \in Idx /\ canrun[th]
      /\ InDrain => th \in Idx /\ ~canrun[th]
  BY DEF PoolInv, CallInv, wvars
<1>2. CASE v # th
  <2>1. Phase(v)' = Phase(v)
    BY <1>1, <1>2, PhaseIs
  <2> QED BY <1>1, <2>1, CellStays
<1>3. CASE v = th /\ InAwait /\ running[th]
  <2>1. Phase(v) = "starting" /\ Phase(v)' = "started"
    BY <1>1, <1>3, PhaseIs
  <2>2. Thread(v)!Started
    BY <1>1, <1>3, <2>1 DEF Thread!Started
  <2> QED BY <2>2 DEF CellStep, Thread!CNext
<1>4. CASE v = th /\ InDrain /\ ~running[th]
  <2>1. Phase(v) = "stopping" /\ Phase(v)' = "stopped"
    BY <1>1, <1>4, PhaseIs
  <2>2. Thread(v)!Stopped
    BY <1>1, <1>4, <2>1 DEF Thread!Stopped
  <2> QED BY <2>2 DEF CellStep, Thread!CNext
<1> QED BY <1>2, <1>3, <1>4

\* Nothing happens to any thread.
LEMMA CellOfRest ==
    ASSUME NEW v \in Idx, UNCHANGED <<wvars, th>>,
           mpc' = mpc \/ (~InAwait /\ ~InDrain /\ ~InAwait' /\ ~InDrain')
    PROVE  CellStep(v)
<1>1. UNCHANGED <<canrun, running, wpc, th>>
  BY DEF wvars
<1>2. Phase(v)' = Phase(v)
  <2>1. CASE mpc' = mpc
    BY <1>1, <2>1 DEF Phase
  <2>2. CASE ~InAwait /\ ~InDrain /\ ~InAwait' /\ ~InDrain'
    BY <1>1, <2>2, PhaseIs
  <2> QED BY <2>1, <2>2
<1> QED BY <1>1, <1>2, CellStays

\* The threads that a call takes: idle ones to start, of a pool's list to stop.
LEMMA TakenIs ==
    ASSUME PoolInv, ~InAwait, ~InDrain
    PROVE  /\ IdleFrom(t) # {} => Lowest(IdleFrom(t)) \in Idx /\ ~canrun[Lowest(IdleFrom(t))]
           /\ \A i \in Idx : \A w \in crew[i] : w \in Idx /\ canrun[w]
<1>1. ASSUME IdleFrom(t) # {}
      PROVE  Lowest(IdleFrom(t)) \in Idx /\ ~canrun[Lowest(IdleFrom(t))]
  <2>1. PICK w \in Idx : w = Lowest(IdleFrom(t)) /\ ~running[w]
    BY <1>1, LowestIdle
  <2>2. canrun[w] => pool[w] \in Idx /\ w \in crew[pool[w]]
    BY DEF PoolInv, ListInv
  <2>3. w \in Idx /\ ~canrun[w]
    BY <2>1, <2>2 DEF PoolInv, ListInv
  <2> QED BY <2>1, <2>3
<1>2. ASSUME NEW i \in Idx, NEW w \in crew[i] PROVE w \in Idx /\ canrun[w]
  <2>1. w \in Idx
    BY DEF PoolInv, TypeOK
  <2> QED BY <2>1 DEF PoolInv, ListInv
<1> QED BY <1>1, <1>2

LEMMA CellOfCalls ==
    ASSUME PoolInv, NEW v \in Idx, InCall \/ Call
    PROVE  CellStep(v)
<1>1. CASE ScanStarts \/ RedistStarts
  <2>1. ~InAwait /\ ~InDrain /\ InAwait' /\ IdleFrom(t) # {}
    BY <1>1 DEF ScanStarts, RedistStarts, InAwait, InDrain
  <2>2. PICK w, i : w = Lowest(IdleFrom(t)) /\ thread_start(w, i)
    BY <1>1 DEF ScanStarts, RedistStarts
  <2> QED BY <2>1, <2>2, TakenIs, CellOfStart
<1>2. CASE StealStarts
  <2>1. ~InAwait /\ ~InDrain /\ InAwait' /\ thread_start(th, p) /\ th \in Idx /\ ~canrun[th]
    BY <1>2 DEF StealStarts, InAwait, InDrain, PoolInv, CallInv
  <2> QED BY <2>1, CellOfStart
<1>3. CASE UnloadStops
  <2>1. ~InAwait /\ ~InDrain /\ InDrain' /\ cur \in Idx
    BY <1>3 DEF UnloadStops, InAwait, InDrain, PoolInv, CallInv
  <2>2. PICK w \in crew[cur] : thread_stop(w)
    BY <1>3 DEF UnloadStops
  <2> QED BY <2>1, <2>2, TakenIs, CellOfStop
<1>4. CASE Steal
  <2>1. ~InAwait /\ ~InDrain /\ Givers # {}
    BY <1>4 DEF Steal, InAwait, InDrain
  <2>2. PICK i \in Idx : i = Lowest(Givers)
    BY <2>1, LowestOf DEF Givers
  <2>3. CASE InDrain' /\ \E w \in crew[i] : thread_stop(w)
    BY <2>1, <2>3, TakenIs, CellOfStop
  <2>4. CASE mpc' = "crash" /\ UNCHANGED <<wvars, pvars, th, p>>
    BY <2>1, <2>4, CellOfRest DEF InAwait, InDrain
  <2> QED BY <1>4, <2>2, <2>3, <2>4 DEF Steal, InDrain
<1>5. CASE ScanStarted \/ RedistStarted \/ StealEnds
  <2>1. UNCHANGED <<wvars, th>> /\ mpc \in {"await_scan", "await_redist", "await_steal"}
    BY <1>5 DEF ScanStarted, RedistStarted, StealEnds, Started
  <2>2. running[th] /\ mpc' \in {"scan", "redist", "idle"}
    BY <1>5 DEF ScanStarted, RedistStarted, StealEnds, Started, StartReturns
  <2> QED BY <2>1, <2>2, CellOfAnswer DEF InAwait, InDrain
<1>6. CASE StealStopped \/ UnloadStopped
  BY <1>6, CellOfAnswer DEF StealStopped, UnloadStopped, Stopped, InAwait, InDrain
<1>7. CASE ScanEnds \/ UnloadEnds \/ RedistNextRound \/ RedistEnds \/ Call
  BY <1>7, CellOfRest DEF ScanEnds, UnloadEnds, RedistNextRound, RedistEnds, Call, tpool_start, tpool_stop,
                          StartReturns, InAwait, InDrain
<1> QED BY <1>1, <1>2, <1>3, <1>4, <1>5, <1>6, <1>7 DEF InCall

\* tpool_start and tpool_stop start no thread that is not stopped and stop none that is
\* not started, so that each worker is as ThreadCell has it (tpool.c:100-127, 137-282).
THEOREM PoolIsOfCells == Spec => ThreadsAreCells
<1>1. Init => \A w \in Idx : Thread(w)!CInit
  BY CellsBegin
<1>2. ASSUME PoolInv, [Next]_vars
      PROVE  [\A w \in Idx : [Thread(w)!CNext]_(Thread(w)!cvars)]_vars
  <2>1. ASSUME NEW w \in Idx PROVE CellStep(w)
    <3>1. CASE \E x \in Idx : Worker(x)
      BY <1>2, <3>1, CellOfWorker
    <3>2. CASE InCall \/ Call
      BY <1>2, <3>2, CellOfCalls
    <3>3. CASE UNCHANGED vars
      BY <3>3, CellOfRest DEF vars
    <3> QED BY <1>2, <3>1, <3>2, <3>3 DEF Next, Dead
  <2> QED BY <2>1 DEF CellStep
<1> QED BY <1>1, <1>2, PoolInvariant, PTL DEF Spec, ThreadsAreCells
=============================================================================
