---------------------------- MODULE ProgramProofs ----------------------------
(***************************************************************************)
(* For any number of solvers and threads and any sizes of challenges:      *)
(* whatever memory is refused, in whatever order, an attempt finds its     *)
(* arrays long enough, mine() finds all that it uses, and no nonce is      *)
(* drawn twice.                                                            *)
(***************************************************************************)
EXTENDS Program, FiniteSetTheorems, WellFoundedInduction, TLAPS

ListSpace == {"nums", "str", "mtmp"} \cup {"max"}
GridSpace == {"grid", "sol", "cells"} \cup {"max"}

\* max is never larger than an array, although an array may be larger than max.
WellFormed(space, names) == /\ space \in [names -> Nat]
                            /\ \A a \in names : space[a] >= space.max

SpacesOK == \A i \in Solvers : WellFormed(sl[i], ListSpace) /\ WellFormed(sp[i], GridSpace)

ShapeOK == /\ size \in Nat
           /\ run \in [Solvers -> {"off", "idle", "ready", "search", "freed"}]
           /\ DOMAIN sl = Solvers /\ DOMAIN sp = Solvers
           /\ sl = [i \in Solvers |-> sl[i]] /\ sp = [i \in Solvers |-> sp[i]]

\* A space is left ready as it is until the attempt ends.
ReadyOK == \A i \in Solvers :
    run[i] \in {"ready", "search"} => sl[i].max >= size /\ sp[i].max >= size

SolverInv == ShapeOK /\ SpacesOK /\ ReadyOK

-----------------------------------------------------------------------------
\* What a resize leaves, however far it came: the arrays grow in the given order.
LEMMA GrownSpace ==
    ASSUME NEW names, NEW order, NEW space, NEW n \in Nat, NEW k \in 0 .. 3,
           WellFormed(space, names), "max" \in names,
           \A j \in 1 .. 3 : order[j] # "max",
           \A a \in names \ {"max"} : \E j \in 1 .. 3 : order[j] = a
    PROVE  LET g == Grown(space, order, n, k)
           IN  /\ WellFormed(g, names)
               /\ k = 3 => g.max >= n
               /\ space.max >= n => g = space
               /\ g.max >= space.max
<1>1. DOMAIN space = names /\ space.max \in Nat
  BY DEF WellFormed
<1>2. CASE space.max >= n
  BY <1>1, <1>2 DEF Grown
<1>3. CASE ~(space.max >= n)
  <2> DEFINE g == [a \in names |-> IF (a = "max" /\ k = 3) \/ \E j \in 1 .. k : order[j] = a
                                   THEN n ELSE space[a]]
  <2>1. Grown(space, order, n, k) = g
    BY <1>1, <1>3 DEF Grown
  <2>2. g \in [names -> Nat]
    BY DEF WellFormed
  <2>3. g["max"] = IF k = 3 THEN n ELSE space.max
    OBVIOUS
  <2>4. k = 3 => \A a \in names : g[a] = n
    OBVIOUS
  <2>5. \A a \in names : g[a] = n \/ g[a] = space[a]
    OBVIOUS
  <2>6. \A a \in names : g[a] >= g["max"]
    BY <1>1, <1>3, <2>3, <2>4, <2>5 DEF WellFormed
  <2> HIDE DEF g
  <2> QED BY <1>1, <1>3, <2>1, <2>2, <2>3, <2>6 DEF WellFormed
<1> QED BY <1>2, <1>3

LEMMA ListGrown ==
    ASSUME NEW i \in Solvers, SpacesOK, NEW n \in Nat, NEW k \in 0 .. 3
    PROVE  /\ WellFormed(sortlist_resize(i, n, k), ListSpace)
           /\ k = 3 => sortlist_resize(i, n, k).max >= n
           /\ sl[i].max >= n => sortlist_resize(i, n, k) = sl[i]
           /\ sortlist_resize(i, n, k).max >= sl[i].max
<1> DEFINE order == <<"nums", "str", "mtmp">>
<1>1. order[1] = "nums" /\ order[2] = "str" /\ order[3] = "mtmp"
  OBVIOUS
<1> HIDE DEF order
<1>2. \A j \in 1 .. 3 : order[j] # "max"
  BY <1>1
<1>3. \A a \in ListSpace \ {"max"} : \E j \in 1 .. 3 : order[j] = a
  BY <1>1 DEF ListSpace
<1>4. WellFormed(sl[i], ListSpace) /\ "max" \in ListSpace
  BY DEF SpacesOK, ListSpace
<1>5. sortlist_resize(i, n, k) = Grown(sl[i], order, n, k)
  BY DEF sortlist_resize, order
<1> QED BY <1>2, <1>3, <1>4, <1>5, GrownSpace

LEMMA GridGrown ==
    ASSUME NEW i \in Solvers, SpacesOK, NEW n \in Nat, NEW k \in 0 .. 3
    PROVE  /\ WellFormed(shortpath_resize(i, n, k), GridSpace)
           /\ k = 3 => shortpath_resize(i, n, k).max >= n
           /\ sp[i].max >= n => shortpath_resize(i, n, k) = sp[i]
           /\ shortpath_resize(i, n, k).max >= sp[i].max
<1> DEFINE order == <<"grid", "sol", "cells">>
<1>1. order[1] = "grid" /\ order[2] = "sol" /\ order[3] = "cells"
  OBVIOUS
<1> HIDE DEF order
<1>2. \A j \in 1 .. 3 : order[j] # "max"
  BY <1>1
<1>3. \A a \in GridSpace \ {"max"} : \E j \in 1 .. 3 : order[j] = a
  BY <1>1 DEF GridSpace
<1>4. WellFormed(sp[i], GridSpace) /\ "max" \in GridSpace
  BY DEF SpacesOK, GridSpace
<1>5. shortpath_resize(i, n, k) = Grown(sp[i], order, n, k)
  BY DEF shortpath_resize, order
<1> QED BY <1>2, <1>3, <1>4, <1>5, GrownSpace

-----------------------------------------------------------------------------
\* What solver_resize leaves: the maxima never fall, and ok is true of those it reached.
LEMMA ResizeSolver ==
    ASSUME SolverInv, NEW i \in Solvers, NEW n \in Nat, NEW ok \in BOOLEAN,
           solver_resize(i, n, ok)
    PROVE  /\ DOMAIN sl' = Solvers /\ DOMAIN sp' = Solvers
           /\ sl' = [j \in Solvers |-> sl'[j]] /\ sp' = [j \in Solvers |-> sp'[j]]
           /\ SpacesOK'
           /\ \A j \in Solvers : sl'[j].max >= sl[j].max /\ sp'[j].max >= sp[j].max
           /\ \A j \in Solvers \ {i} : sl'[j] = sl[j] /\ sp'[j] = sp[j]
           /\ ok => sl'[i].max >= n /\ sp'[i].max >= n
<1> USE DEF SolverInv
<1>0. \A j \in Solvers : sl[j].max \in Nat /\ sp[j].max \in Nat
  BY DEF SpacesOK, WellFormed, ListSpace, GridSpace
<1>1. CASE \E k \in 0 .. 2 : /\ sl[i].max < n
                             /\ sl' = [sl EXCEPT ![i] = sortlist_resize(i, n, k)]
                             /\ ~ok /\ UNCHANGED sp
  <2>1. PICK k \in 0 .. 2 : /\ sl' = [sl EXCEPT ![i] = sortlist_resize(i, n, k)]
                            /\ ~ok /\ UNCHANGED sp
    BY <1>1
  <2>2. k \in 0 .. 3
    OBVIOUS
  <2>3. /\ WellFormed(sortlist_resize(i, n, k), ListSpace)
        /\ sortlist_resize(i, n, k).max >= sl[i].max
    BY <2>2, ListGrown
  <2> QED BY <1>0, <2>1, <2>3 DEF ShapeOK, SpacesOK
<1>2. CASE \E k \in 0 .. 3 : /\ sl' = [sl EXCEPT ![i] = sortlist_resize(i, n, 3)]
                             /\ sp' = [sp EXCEPT ![i] = shortpath_resize(i, n, k)]
                             /\ ok <=> (k = 3 \/ sp[i].max >= n)
  <2>1. PICK k \in 0 .. 3 : /\ sl' = [sl EXCEPT ![i] = sortlist_resize(i, n, 3)]
                            /\ sp' = [sp EXCEPT ![i] = shortpath_resize(i, n, k)]
                            /\ ok <=> (k = 3 \/ sp[i].max >= n)
    BY <1>2
  <2>2. /\ WellFormed(sortlist_resize(i, n, 3), ListSpace)
        /\ sortlist_resize(i, n, 3).max >= n
        /\ sortlist_resize(i, n, 3).max >= sl[i].max
    BY ListGrown
  <2>3. /\ WellFormed(shortpath_resize(i, n, k), GridSpace)
        /\ k = 3 => shortpath_resize(i, n, k).max >= n
        /\ sp[i].max >= n => shortpath_resize(i, n, k) = sp[i]
        /\ shortpath_resize(i, n, k).max >= sp[i].max
    BY GridGrown
  <2>4. /\ DOMAIN sl' = Solvers /\ DOMAIN sp' = Solvers
        /\ sl' = [j \in Solvers |-> sl'[j]] /\ sp' = [j \in Solvers |-> sp'[j]]
        /\ sl'[i] = sortlist_resize(i, n, 3) /\ sp'[i] = shortpath_resize(i, n, k)
        /\ \A j \in Solvers \ {i} : sl'[j] = sl[j] /\ sp'[j] = sp[j]
    BY <2>1 DEF ShapeOK
  <2>5. SpacesOK'
    BY <2>2, <2>3, <2>4 DEF SpacesOK
  <2>6. \A j \in Solvers : sl'[j].max >= sl[j].max /\ sp'[j].max >= sp[j].max
    BY <1>0, <2>2, <2>3, <2>4
  <2>7. ok => sp'[i].max >= n
    BY <2>1, <2>3, <2>4
  <2> QED BY <2>2, <2>4, <2>5, <2>6, <2>7
<1> QED BY <1>1, <1>2 DEF solver_resize

\* One step of a solver keeps the invariant, and the maxima never fall.
LEMMA SolverStepKeeps ==
    ASSUME SolverInv, NEW i \in Solvers, SolverStep(i)
    PROVE  /\ SolverInv'
           /\ \A j \in Solvers : sl'[j].max >= sl[j].max /\ sp'[j].max >= sp[j].max
<1>0. \A j \in Solvers : sl[j].max \in Nat /\ sp[j].max \in Nat
  BY DEF SolverInv, SpacesOK, WellFormed, ListSpace, GridSpace
<1>1. CASE Resize(i)
  <2>1. PICK ok \in BOOLEAN : /\ solver_resize(i, size, ok)
                              /\ run' = [run EXCEPT ![i] = IF ok THEN "ready" ELSE "idle"]
    BY <1>1 DEF Resize
  <2>2. size \in Nat /\ size' = size
    BY <1>1 DEF Resize, SolverInv, ShapeOK
  <2>3. /\ DOMAIN sl' = Solvers /\ DOMAIN sp' = Solvers
        /\ sl' = [j \in Solvers |-> sl'[j]] /\ sp' = [j \in Solvers |-> sp'[j]]
        /\ SpacesOK'
        /\ \A j \in Solvers : sl'[j].max >= sl[j].max /\ sp'[j].max >= sp[j].max
        /\ \A j \in Solvers \ {i} : sl'[j] = sl[j] /\ sp'[j] = sp[j]
        /\ ok => sl'[i].max >= size /\ sp'[i].max >= size
    BY <2>1, <2>2, ResizeSolver
  <2>4. ShapeOK'
    BY <2>1, <2>2, <2>3 DEF SolverInv, ShapeOK
  <2>5. ReadyOK'
    BY <2>1, <2>2, <2>3 DEF SolverInv, ShapeOK, ReadyOK
  <2> QED BY <2>3, <2>4, <2>5 DEF SolverInv
<1>2. CASE Draw(i)
  BY <1>0, <1>2 DEF Draw, SolverInv, ShapeOK, SpacesOK, ReadyOK
<1>3. CASE Attempted(i)
  BY <1>0, <1>3 DEF Attempted, SolverInv, ShapeOK, SpacesOK, ReadyOK
<1> QED BY <1>1, <1>2, <1>3 DEF SolverStep

-----------------------------------------------------------------------------
\* How far init() came says what there is.
Stage == /\ pc \in {"init_threads", "init_ws", "init_wallet", "init_mining", "mine"}
                => npools = NThreads
         /\ pc \in {"init_wallet", "init_mining", "mine"} => ctx = "live"
         /\ pc \in {"init_mining", "mine"} => wallet
         /\ pc = "mine" => /\ uq
                          /\ \A i \in Solvers : /\ sl[i].max >= SP_EXPSIZE
                                                /\ sp[i].max >= SP_EXPSIZE

IInv == SolverInv /\ Stage

LEMMA EmptySpaces ==
    /\ WellFormed(NoSpace({"nums", "str", "mtmp"}), ListSpace)
    /\ WellFormed(NoSpace({"grid", "sol", "cells"}), GridSpace)
  BY DEF NoSpace, WellFormed, ListSpace, GridSpace

LEMMA InitIInv == Init => IInv
<1> SUFFICES ASSUME Init PROVE IInv
  OBVIOUS
<1>1. SpacesOK
  BY EmptySpaces DEF Init, SolverInit, SpacesOK
<1> QED BY <1>1 DEF Init, SolverInit, IInv, SolverInv, ShapeOK, ReadyOK, Stage

\* Both solver_init's, of the solvers in S with their first k reallocations.
LEMMA ExpectedSpaces ==
    ASSUME SpacesOK, NEW i \in Solvers, NEW k \in 0 .. 3
    PROVE  /\ WellFormed(sortlist_resize(i, SP_EXPSIZE, k), ListSpace)
           /\ WellFormed(shortpath_resize(i, SP_EXPSIZE, k), GridSpace)
           /\ sortlist_resize(i, SP_EXPSIZE, k).max >= sl[i].max
           /\ shortpath_resize(i, SP_EXPSIZE, k).max >= sp[i].max
           /\ k = 3 => /\ sortlist_resize(i, SP_EXPSIZE, k).max >= SP_EXPSIZE
                      /\ shortpath_resize(i, SP_EXPSIZE, k).max >= SP_EXPSIZE
<1>1. SP_EXPSIZE \in Nat
  BY SolverAssumption
<1> QED BY <1>1, ListGrown, GridGrown

LEMMA StartMining == ASSUME IInv, init_mining PROVE IInv'
<1>1. SpacesOK'
  BY ExpectedSpaces DEF init_mining, SpacesOK, IInv, SolverInv
<1>2. \A i \in Solvers : sl'[i].max >= SP_EXPSIZE /\ sp'[i].max >= SP_EXPSIZE
  BY ExpectedSpaces DEF init_mining, IInv, SolverInv
<1>3. \A i \in Solvers : sl'[i].max \in Nat /\ sp'[i].max \in Nat
  BY <1>1 DEF SpacesOK, WellFormed, ListSpace, GridSpace
<1>4. \A i \in Solvers : sl'[i].max >= sl[i].max /\ sp'[i].max >= sp[i].max
  BY ExpectedSpaces DEF init_mining, IInv, SolverInv
<1>5. \A i \in Solvers : sl[i].max \in Nat /\ sp[i].max \in Nat
  BY DEF IInv, SolverInv, SpacesOK, WellFormed, ListSpace, GridSpace
<1>6. ReadyOK'
  BY <1>3, <1>4, <1>5 DEF init_mining, IInv, SolverInv, ShapeOK, ReadyOK
<1>7. ShapeOK'
  BY DEF init_mining, IInv, SolverInv, ShapeOK
<1>8. Stage'
  BY <1>2 DEF init_mining, Goto, IInv, Stage
<1> QED BY <1>1, <1>6, <1>7, <1>8 DEF IInv, SolverInv

LEMMA FailMining == ASSUME IInv, init_miningFails PROVE IInv'
<1>0. \A j \in Solvers : sl[j].max \in Nat /\ sp[j].max \in Nat
  BY DEF IInv, SolverInv, SpacesOK, WellFormed, ListSpace, GridSpace
<1>1. SpacesOK' /\ DOMAIN sl' = Solvers /\ DOMAIN sp' = Solvers
      /\ sl' = [j \in Solvers |-> sl'[j]] /\ sp' = [j \in Solvers |-> sp'[j]]
      /\ \A j \in Solvers : sl'[j].max >= sl[j].max /\ sp'[j].max >= sp[j].max
  <2>1. CASE UNCHANGED <<uq, sl, sp>>
    BY <1>0, <2>1 DEF IInv, SolverInv, ShapeOK, SpacesOK
  <2>2. CASE ~UNCHANGED <<uq, sl, sp>>
    <3>1. PICK i \in Solvers, k \in 0 .. 5 :
             /\ sl' = [j \in Solvers |->
                          IF j < i THEN sortlist_resize(j, SP_EXPSIZE, 3)
                          ELSE IF j = i THEN sortlist_resize(j, SP_EXPSIZE, IF k < 3 THEN k ELSE 3)
                          ELSE sl[j]]
             /\ sp' = [j \in Solvers |->
                          IF j < i THEN shortpath_resize(j, SP_EXPSIZE, 3)
                          ELSE IF j = i /\ k > 3 THEN shortpath_resize(j, SP_EXPSIZE, k - 3)
                          ELSE sp[j]]
      BY <2>2 DEF init_miningFails
    <3>2. (IF k < 3 THEN k ELSE 3) \in 0 .. 3 /\ (k > 3 => k - 3 \in 0 .. 3)
      OBVIOUS
    <3>3. \A j \in Solvers : /\ WellFormed(sl'[j], ListSpace)
                             /\ sl'[j].max >= sl[j].max
      <4> SUFFICES ASSUME NEW j \in Solvers
                   PROVE WellFormed(sl'[j], ListSpace) /\ sl'[j].max >= sl[j].max
        OBVIOUS
      <4>1. CASE sl'[j] = sl[j]
        BY <1>0, <4>1 DEF IInv, SolverInv, SpacesOK
      <4>2. CASE sl'[j] # sl[j]
        <5>1. \E m \in 0 .. 3 : sl'[j] = sortlist_resize(j, SP_EXPSIZE, m)
          BY <3>1, <3>2, <4>2
        <5> QED BY <5>1, ExpectedSpaces DEF IInv, SolverInv
      <4> QED BY <4>1, <4>2
    <3>4. \A j \in Solvers : /\ WellFormed(sp'[j], GridSpace)
                             /\ sp'[j].max >= sp[j].max
      <4> SUFFICES ASSUME NEW j \in Solvers
                   PROVE WellFormed(sp'[j], GridSpace) /\ sp'[j].max >= sp[j].max
        OBVIOUS
      <4>1. CASE sp'[j] = sp[j]
        BY <1>0, <4>1 DEF IInv, SolverInv, SpacesOK
      <4>2. CASE sp'[j] # sp[j]
        <5>1. \E m \in 0 .. 3 : sp'[j] = shortpath_resize(j, SP_EXPSIZE, m)
          BY <3>1, <3>2, <4>2
        <5> QED BY <5>1, ExpectedSpaces DEF IInv, SolverInv
      <4> QED BY <4>1, <4>2
    <3> QED BY <3>1, <3>3, <3>4 DEF SpacesOK
  <2> QED BY <2>1, <2>2
<1>2. \A i \in Solvers : sl'[i].max \in Nat /\ sp'[i].max \in Nat
  BY <1>1 DEF SpacesOK, WellFormed, ListSpace, GridSpace
<1>3. ReadyOK'
  BY <1>0, <1>1, <1>2 DEF init_miningFails, IInv, SolverInv, ShapeOK, ReadyOK
<1>4. ShapeOK'
  BY <1>1 DEF init_miningFails, IInv, SolverInv, ShapeOK
<1>5. Stage'
  BY DEF init_miningFails, Fail, Goto, Stage
<1> QED BY <1>1, <1>3, <1>4, <1>5 DEF IInv, SolverInv

LEMMA FreeMining == ASSUME IInv, exit_mining PROVE IInv'
<1>1. SpacesOK'
  BY EmptySpaces DEF exit_mining, SpacesOK
<1>2. ShapeOK'
  BY DEF exit_mining, IInv, SolverInv, ShapeOK
<1>3. ReadyOK'
  BY DEF exit_mining, IInv, SolverInv, ShapeOK, ReadyOK
<1>4. Stage'
  BY DEF exit_mining, Goto, Stage
<1> QED BY <1>1, <1>2, <1>3, <1>4 DEF IInv, SolverInv

\* What the solvers use stays as it is while main() does something else.
LEMMA SolversKeep == ASSUME SolverInv, UNCHANGED slvars PROVE SolverInv'
  BY DEF SolverInv, ShapeOK, SpacesOK, ReadyOK, slvars

LEMMA NextIInv == IInv /\ [Next]_vars => IInv'
<1> SUFFICES ASSUME IInv, [Next]_vars PROVE IInv'
  OBVIOUS
<1> USE DEF Goto, Fail
<1>1. ASSUME init_tpoolFails \/ init_tpool \/ init_threads \/ init_wsFails \/ init_ws
             \/ init_walletFails \/ init_wallet \/ mineReturns \/ exit_ws
      PROVE  IInv'
  <2>1. UNCHANGED slvars
    BY <1>1 DEF init_tpoolFails, init_tpool, init_threads, init_wsFails, init_ws,
                init_walletFails, init_wallet, mineReturns, exit_ws
  <2>2. SolverInv'
    BY <2>1, SolversKeep DEF IInv
  <2>3. Stage'
    BY <1>1, <2>1 DEF init_tpoolFails, init_tpool, init_threads, init_wsFails, init_ws,
                      init_walletFails, init_wallet, mineReturns, exit_ws, IInv, Stage
  <2> QED BY <2>2, <2>3 DEF IInv
<1>2. ASSUME Stray \/ exit_tpool \/ UNCHANGED vars PROVE IInv'
  <2>1. UNCHANGED <<slvars, pc, npools, ctx, wallet, uq>>
    BY <1>2 DEF Stray, exit_tpool, vars, pvars
  <2>2. SolverInv'
    BY <2>1, SolversKeep DEF IInv
  <2> QED BY <2>1, <2>2 DEF IInv, Stage, slvars
<1>3. CASE NewChallenge
  <2>1. PICK n \in Sizes : Challenge(n)
    BY <1>3 DEF NewChallenge
  <2>2. n \in Nat
    BY SolverAssumption
  <2>3. SolverInv'
    BY <2>1, <2>2 DEF Challenge, IInv, SolverInv, ShapeOK, SpacesOK, ReadyOK
  <2>4. Stage'
    BY <1>3, <2>1 DEF Challenge, NewChallenge, IInv, Stage
  <2> QED BY <2>3, <2>4 DEF IInv
<1>4. ASSUME NEW i \in Solvers, Solve(i) PROVE IInv'
  <2>1. /\ SolverInv'
        /\ \A j \in Solvers : sl'[j].max >= sl[j].max /\ sp'[j].max >= sp[j].max
    BY <1>4, SolverStepKeeps DEF Solve, IInv
  <2>2. \A j \in Solvers : /\ sl[j].max \in Nat /\ sp[j].max \in Nat
                           /\ sl'[j].max \in Nat /\ sp'[j].max \in Nat
    BY <2>1 DEF IInv, SolverInv, SpacesOK, WellFormed, ListSpace, GridSpace
  <2>3. SP_EXPSIZE \in Nat
    BY SolverAssumption
  <2>4. Stage'
    BY <1>4, <2>1, <2>2, <2>3 DEF Solve, pvars, IInv, Stage
  <2> QED BY <2>1, <2>4 DEF IInv
<1>5. CASE init_miningFails
  BY <1>5, FailMining
<1>6. CASE init_mining
  BY <1>6, StartMining
<1>7. CASE exit_mining
  BY <1>7, FreeMining
<1> QED BY <1>1, <1>2, <1>3, <1>4, <1>5, <1>6, <1>7 DEF Next, StartUp, ShutDown

LEMMA ProgramInvariant == Spec => []IInv
  BY InitIInv, NextIInv, PTL DEF Spec

\* mine() finds its context, wallet, queue, threads and work spaces, for any number of
\* solvers and of threads that is larger.
THEOREM MiningFindsAll == Spec => []MiningIsReady
<1>1. IInv => MiningIsReady
  <2> SUFFICES ASSUME IInv, pc = "mine" PROVE MiningIsReady
    BY DEF MiningIsReady
  <2>1. npools > NSolvers
    BY ProgramAssumption DEF IInv, Stage
  <2>2. \A i \in Solvers : /\ sl[i].max >= SP_EXPSIZE /\ sp[i].max >= SP_EXPSIZE
                           /\ sl[i].max \in Nat /\ sp[i].max \in Nat
                           /\ WellFormed(sl[i], ListSpace) /\ WellFormed(sp[i], GridSpace)
    BY DEF IInv, Stage, SolverInv, SpacesOK, WellFormed, ListSpace, GridSpace
  <2>3. \A i \in Solvers : Fits(sl[i], SP_EXPSIZE) /\ Fits(sp[i], SP_EXPSIZE)
    BY <2>2, SolverAssumption DEF Fits, WellFormed
  <2> QED BY <2>1, <2>3 DEF IInv, Stage, MiningIsReady
<1> QED BY <1>1, ProgramInvariant, PTL

\* An attempt's arrays are long enough, for any number of solvers and any sizes.
THEOREM AttemptFits == Spec => []FitsTheChallenge
<1>1. IInv => FitsTheChallenge
  <2> SUFFICES ASSUME IInv, NEW i \in Solvers, run[i] \in {"ready", "search"}
               PROVE Fits(sl[i], size) /\ Fits(sp[i], size)
    BY DEF FitsTheChallenge
  <2>1. /\ sl[i].max >= size /\ sp[i].max >= size /\ size \in Nat
        /\ sl[i].max \in Nat /\ sp[i].max \in Nat
        /\ WellFormed(sl[i], ListSpace) /\ WellFormed(sp[i], GridSpace)
    BY DEF IInv, SolverInv, ShapeOK, ReadyOK, SpacesOK, WellFormed, ListSpace, GridSpace
  <2> QED BY <2>1 DEF Fits, WellFormed
<1> QED BY <1>1, ProgramInvariant, PTL

-----------------------------------------------------------------------------
(* Type correctness *)

\* The lengths are those of challenges, or of the dummy one.
Lengths == Sizes \cup {0, SP_EXPSIZE}

TypeInv == /\ TypeOK
           /\ pc = "init_tpool" => inuse = 0

LEMMA GrownLengths ==
    ASSUME NEW order, NEW space, NEW n, NEW k
    PROVE  LET g == Grown(space, order, n, k)
           IN  DOMAIN g = DOMAIN space /\ \A a \in DOMAIN g : g[a] \in {n, space[a]}
  BY DEF Grown

LEMMA ListLengths ==
    ASSUME TypeOK, NEW i \in Solvers, NEW n \in Lengths, NEW k
    PROVE  LET g == sortlist_resize(i, n, k) IN \A a \in DOMAIN g : g[a] \in Lengths
<1> DEFINE order == <<"nums", "str", "mtmp">>
<1>1. sortlist_resize(i, n, k) = Grown(sl[i], order, n, k)
  BY DEF sortlist_resize
<1> HIDE DEF order
<1> QED BY <1>1, GrownLengths DEF TypeOK, Lengths

LEMMA TypeOfSolver == ASSUME IInv, TypeInv, NEW i \in Solvers, Solve(i) PROVE TypeInv'
<1>1. UNCHANGED <<pvars, size>>
  BY DEF Solve, SolverStep, Resize, Draw, Attempted
<1>2. size \in Lengths
  BY DEF TypeInv, TypeOK, Lengths
<1>3. CASE UNCHANGED sl
  BY <1>1, <1>3 DEF TypeInv, TypeOK, pvars
<1>4. CASE ~UNCHANGED sl
  <2>1. PICK k \in 0 .. 3 : sl' = [sl EXCEPT ![i] = sortlist_resize(i, size, k)]
    BY <1>4 DEF Solve, SolverStep, Resize, solver_resize, Draw, Attempted
  <2>2. \A j \in Solvers \ {i} : sl'[j] = sl[j]
    BY <2>1
  <2>3. sl'[i] = sortlist_resize(i, size, k)
    BY <2>1 DEF IInv, SolverInv, ShapeOK
  <2>4. \A j \in Solvers : \A a \in DOMAIN sl'[j] : sl'[j][a] \in Lengths
    BY <1>2, <2>2, <2>3, ListLengths DEF TypeInv, TypeOK, Lengths
  <2> QED BY <1>1, <2>4 DEF TypeInv, TypeOK, Lengths, pvars
<1> QED BY <1>3, <1>4

LEMMA TypeOfMining ==
    ASSUME IInv, TypeInv, init_miningFails \/ init_mining \/ exit_mining PROVE TypeInv'
<1>1. SP_EXPSIZE \in Lengths /\ 0 \in Lengths
  BY DEF Lengths
<1>2. /\ UNCHANGED <<size, npools, inuse, proc>> /\ pc' # "init_tpool"
  BY DEF init_miningFails, init_mining, exit_mining, Goto, Fail
<1>3. ASSUME NEW j \in Solvers
      PROVE  \/ sl'[j] = sl[j]
             \/ \E k \in 0 .. 3 : sl'[j] = sortlist_resize(j, SP_EXPSIZE, k)
             \/ sl'[j] = NoSpace({"nums", "str", "mtmp"})
  <2>1. CASE init_mining
    BY <2>1 DEF init_mining
  <2>2. CASE exit_mining
    BY <2>2 DEF exit_mining
  <2>3. CASE init_miningFails
    <3>1. CASE UNCHANGED sl
      BY <3>1
    <3>2. CASE ~UNCHANGED sl
      <4>1. PICK i \in Solvers, k \in 0 .. 5 :
               sl' = [m \in Solvers |->
                          IF m < i THEN sortlist_resize(m, SP_EXPSIZE, 3)
                          ELSE IF m = i THEN sortlist_resize(m, SP_EXPSIZE, IF k < 3 THEN k ELSE 3)
                          ELSE sl[m]]
        BY <2>3, <3>2 DEF init_miningFails
      <4>2. (IF k < 3 THEN k ELSE 3) \in 0 .. 3
        OBVIOUS
      <4> QED BY <4>1, <4>2
    <3> QED BY <3>1, <3>2
  <2> QED BY <2>1, <2>2, <2>3
<1>4. \A a \in DOMAIN NoSpace({"nums", "str", "mtmp"}) : NoSpace({"nums", "str", "mtmp"})[a] = 0
  BY DEF NoSpace
<1>5. \A j \in Solvers : \A a \in DOMAIN sl'[j] : sl'[j][a] \in Lengths
  <2> SUFFICES ASSUME NEW j \in Solvers PROVE \A a \in DOMAIN sl'[j] : sl'[j][a] \in Lengths
    OBVIOUS
  <2>1. CASE sl'[j] = sl[j]
    BY <2>1 DEF TypeInv, TypeOK, Lengths
  <2>2. CASE \E k \in 0 .. 3 : sl'[j] = sortlist_resize(j, SP_EXPSIZE, k)
    BY <1>1, <2>2, ListLengths DEF TypeInv
  <2>3. CASE sl'[j] = NoSpace({"nums", "str", "mtmp"})
    BY <1>1, <1>4, <2>3
  <2> QED BY <1>3, <2>1, <2>2, <2>3
<1> QED BY <1>2, <1>5 DEF TypeInv, TypeOK, Lengths

\* The state of the process has the values it is declared with, and no pool is
\* started without a thread (main.c:56-96, tpool.c:307-346).
THEOREM ProgramTypeCorrect == Spec => []TypeOK
<1> USE DEF Goto, Fail
<1>1. Init => TypeInv
  <2>1. \A a \in DOMAIN NoSpace({"nums", "str", "mtmp"}) : NoSpace({"nums", "str", "mtmp"})[a] = 0
    BY DEF NoSpace
  <2> QED BY <2>1, ProgramAssumption, SolverAssumption DEF Init, SolverInit, TypeInv, TypeOK
<1>2. IInv /\ TypeInv /\ [Next]_vars => TypeInv'
  <2> SUFFICES ASSUME IInv, TypeInv, [Next]_vars PROVE TypeInv'
    OBVIOUS
  <2>1. ASSUME init_tpoolFails \/ init_tpool \/ init_threads \/ init_wsFails \/ init_ws
               \/ init_walletFails \/ init_wallet \/ mineReturns \/ exit_ws
        PROVE  TypeInv'
    <3>1. UNCHANGED <<slvars, proc>>
      BY <2>1 DEF init_tpoolFails, init_tpool, init_threads, init_wsFails, init_ws,
                  init_walletFails, init_wallet, mineReturns, exit_ws
    <3>2. npools' \in 0 .. NThreads /\ inuse' \in 0 .. npools' /\ pc' # "init_tpool"
      BY <2>1, ProgramAssumption, SolverAssumption
         DEF init_tpoolFails, init_tpool, init_threads, init_wsFails, init_ws,
             init_walletFails, init_wallet, mineReturns, exit_ws, TypeInv, TypeOK
    <3> QED BY <3>1, <3>2 DEF TypeInv, TypeOK, slvars
  <2>2. CASE NewChallenge
    <3>1. npools = NThreads /\ inuse' = NSolvers + 1 /\ npools' = npools
      BY <2>2 DEF NewChallenge, IInv, Stage
    <3>2. inuse' \in 0 .. npools'
      BY <3>1, ProgramAssumption, SolverAssumption
    <3> QED BY <2>2, <3>1, <3>2 DEF NewChallenge, Challenge, TypeInv, TypeOK
  <2>3. CASE Stray \/ exit_tpool \/ UNCHANGED vars
    BY <2>3 DEF Stray, exit_tpool, vars, pvars, slvars, TypeInv, TypeOK
  <2> QED BY <2>1, <2>2, <2>3, TypeOfMining, TypeOfSolver DEF Next, StartUp, ShutDown
<1>3. TypeInv => TypeOK
  BY DEF TypeInv
<1> QED BY <1>1, <1>2, <1>3, ProgramInvariant, PTL DEF Spec

-----------------------------------------------------------------------------
(* The nonces *)

Splits(a, m) == \E q \in Nat, r \in 0 .. m - 1 : a % m = r /\ a = m * q + r

LEMMA DivMod == ASSUME NEW a \in Nat, NEW m \in Nat \ {0} PROVE Splits(a, m)
<1>1. a % m \in 0 .. m - 1
  OBVIOUS
<1>2. a \div m \in Int
  OBVIOUS
<1>3. a - (a % m) = m * (a \div m)
  BY <1>1, <1>2
<1>4. a \div m >= 0
  OBVIOUS
<1>5. PICK q \in Nat : q = a \div m
  BY <1>2, <1>4
<1>6. PICK r \in 0 .. m - 1 : r = a % m
  BY <1>1
<1>7. a - r = m * q
  BY <1>3, <1>5, <1>6
<1>8. a = m * q + r
  BY <1>7
<1> QED BY <1>6, <1>8 DEF Splits

LEMMA Multiple == ASSUME NEW m \in Nat \ {0}, NEW q \in Nat PROVE (m * q) % m = 0
  OBVIOUS

\* Two ranges of length m do not meet.
LEMMA RangesApart ==
    ASSUME NEW a \in Int, NEW b \in Int, NEW m \in Nat \ {0},
           NEW r \in 0 .. m - 1, NEW s \in 0 .. m - 1, a * m + r = b * m + s
    PROVE  a = b /\ r = s
<1>1. CASE a > b
  <2>1. PICK d \in Nat : a = b + 1 + d
    <3>1. a - b - 1 \in Nat /\ a = b + 1 + (a - b - 1)
      BY <1>1
    <3> QED BY <3>1
  <2>2. a * m = b * m + m + d * m /\ d * m \in Nat
    BY <2>1
  <2> QED BY <2>2
<1>2. CASE b > a
  <2>1. PICK d \in Nat : b = a + 1 + d
    <3>1. b - a - 1 \in Nat /\ b = a + 1 + (b - a - 1)
      BY <1>2
    <3> QED BY <3>1
  <2>2. b * m = a * m + m + d * m /\ d * m \in Nat
    BY <2>1
  <2> QED BY <2>2
<1>3. a = b => r = s
  OBVIOUS
<1> QED BY <1>1, <1>2, <1>3

Less == {ss \in Nat \X Nat : ss[1] < ss[2]}

LEMMA LessOn == IsWellFoundedOn(Less, Nat)
<1>1. Less = OpToRel(<, Nat)
  BY DEF Less, OpToRel
<1> QED BY <1>1, NatLessThanWellFounded, Zenon

\* With no common divisor, fewer than n steps of k never come to a multiple of n: the
\* shortest such way would divide n, and what n is of it would divide k.
LEMMA NoShortCut ==
    ASSUME NEW k \in Nat \ {0}, NEW n \in Nat \ {0},
           \A d \in 2 .. k : ~(k % d = 0 /\ n % d = 0),
           NEW j \in Nat \ {0}, j < n, NEW t \in Nat, k * j = n * t
    PROVE  FALSE
<1> DEFINE M == {m \in Nat \ {0} : \E u \in Nat : k * m = n * u}
<1>1. j \in M /\ M \in SUBSET Nat
  OBVIOUS
<1>2. PICK m \in M : \A x \in M : <<x, m>> \notin Less
  BY <1>1, LessOn, WFMin
<1>3. m \in Nat \ {0} /\ \A x \in M : m <= x
  <2>1. m \in Nat \ {0}
    OBVIOUS
  <2>2. ASSUME NEW x \in M PROVE m <= x
    <3>1. x \in Nat /\ m \in Nat /\ ~(x < m)
      BY <1>2 DEF Less
    <3> QED BY <3>1
  <2> QED BY <2>1, <2>2
<1>4. PICK u \in Nat : k * m = n * u
  OBVIOUS
<1>M. \A x \in Nat \ {0}, v \in Nat : k * x = n * v => x \in M
  OBVIOUS
<1> HIDE DEF M
<1>5. m <= j
  BY <1>1, <1>3
<1>6. PICK q \in Nat, r \in 0 .. m - 1 : n = m * q + r
  <2>1. Splits(n, m)
    BY <1>3, DivMod
  <2> QED BY <2>1 DEF Splits
<1>7. r = 0
  <2> SUFFICES ASSUME r # 0 PROVE FALSE
    OBVIOUS
  <2>1. k * n = k * (m * q) + k * r
    BY <1>3, <1>6
  <2>2. k * (m * q) = (n * u) * q
    <3>1. k * (m * q) = (k * m) * q
      BY <1>3
    <3> QED BY <1>4, <3>1
  <2>3. k * r = n * (k - u * q)
    <3>1. n * (k - u * q) = n * k - (n * u) * q
      OBVIOUS
    <3> QED BY <2>1, <2>2, <3>1
  <2>4. k - u * q >= 0
    <3> SUFFICES ASSUME k - u * q < 0 PROVE FALSE
      OBVIOUS
    <3>1. PICK v \in Nat : u * q - k = v + 1
      <4>1. u * q - k - 1 \in Nat
        OBVIOUS
      <4> QED BY <4>1
    <3>2. n * (k - u * q) = 0 - (n * v + n)
      BY <3>1
    <3>3. n * v \in Nat /\ k * r \in Nat
      BY <1>3
    <3> QED BY <2>3, <3>2, <3>3
  <2>5. r \in M
    <3>1. k - u * q \in Nat /\ r \in Nat \ {0}
      BY <1>3, <2>4
    <3> QED BY <1>M, <2>3, <3>1
  <2>6. m <= r
    BY <1>3, <2>5
  <2> QED BY <1>3, <2>6
<1>8. n = m * q /\ q >= 2
  <2>1. n = m * q
    BY <1>3, <1>6, <1>7
  <2>2. q # 0 /\ q # 1
    BY <1>3, <1>5, <2>1
  <2> QED BY <2>1, <2>2
<1>9. k = q * u
  <2>1. m * k = m * (q * u)
    <3>1. n * u = m * (q * u)
      BY <1>3, <1>8
    <3> QED BY <1>3, <1>4, <3>1
  <2> QED BY <1>3, <2>1
<1>10. q <= k
  <2>1. u # 0
    BY <1>9
  <2>2. PICK v \in Nat : u = v + 1
    <3>1. u - 1 \in Nat /\ u = (u - 1) + 1
      BY <2>1
    <3> QED BY <3>1
  <2>3. k = q * v + q /\ q * v \in Nat
    BY <1>9, <2>2
  <2> QED BY <2>3
<1>11. k % q = 0 /\ n % q = 0
  <2>1. n = q * m /\ q \in Nat \ {0}
    BY <1>3, <1>8
  <2>2. (q * m) % q = 0 /\ (q * u) % q = 0
    BY <1>3, <2>1, Multiple
  <2> QED BY <1>9, <2>1, <2>2
<1> QED BY <1>8, <1>10, <1>11

\* The j-th step of the counter.
Offset(j) == (CHAL_NONCEINC * j) % Span

LEMMA SpanType == Span \in Int
  BY SolverAssumption DEF Span

LEMMA OffsetsDiffer ==
    ASSUME Span > 0, CHAL_NONCEINC # 0, NEW i \in Nat, NEW j \in Nat, i < j, j - i < Span
    PROVE  Offset(i) # Offset(j)
<1> SUFFICES ASSUME Offset(i) = Offset(j) PROVE FALSE
  OBVIOUS
<1> DEFINE k == CHAL_NONCEINC
           n == Span
<1>1. k \in Nat \ {0} /\ n \in Nat \ {0} /\ \A d \in 2 .. k : ~(k % d = 0 /\ n % d = 0)
  BY SolverAssumption, SpanType
<1>2. Offset(i) = (k * i) % n /\ Offset(j) = (k * j) % n
  BY DEF Offset
<1> HIDE DEF k, n
<1>3. k * i \in Nat /\ k * j \in Nat
  BY <1>1
<1>4. PICK p \in Nat, r \in 0 .. n - 1 : Offset(i) = r /\ k * i = n * p + r
  <2>1. Splits(k * i, n)
    BY <1>1, <1>3, DivMod
  <2> QED BY <1>2, <2>1 DEF Splits
<1>5. PICK q \in Nat, s \in 0 .. n - 1 : Offset(j) = s /\ k * j = n * q + s
  <2>1. Splits(k * j, n)
    BY <1>1, <1>3, DivMod
  <2> QED BY <1>2, <2>1 DEF Splits
<1>6. r = s
  BY <1>4, <1>5
<1>7. k * (j - i) = n * (q - p)
  <2>1. k * (j - i) = k * j - k * i /\ n * (q - p) = n * q - n * p
    BY <1>1
  <2>2. n * p \in Nat /\ n * q \in Nat
    BY <1>1
  <2> QED BY <1>1, <1>3, <1>4, <1>5, <1>6, <2>1, <2>2
<1>8. q - p \in Nat
  <2> SUFFICES ASSUME q < p PROVE FALSE
    OBVIOUS
  <2>1. PICK v \in Nat : p - q = v + 1
    <3>1. p - q - 1 \in Nat
      OBVIOUS
    <3> QED BY <3>1
  <2>2. n * (q - p) = 0 - (n * v + n) /\ n * v \in Nat
    BY <1>1, <2>1
  <2>3. k * (j - i) \in Nat
    BY <1>1
  <2> QED BY <1>1, <1>7, <2>2, <2>3
<1>9. j - i \in Nat \ {0} /\ j - i < n
  BY DEF n
<1> QED BY <1>1, <1>7, <1>8, <1>9, NoShortCut

\* Every nonce that was drawn is that of a solver and of one of the steps so far.
NonceInv ==
    /\ IsFiniteSet(drawn) /\ Cardinality(drawn) <= MaxDraws
    /\ sn = CHAL_NONCEINC * Cardinality(drawn)
    /\ CHAL_NONCEINC # 0 => \A x \in drawn : \E i \in Solvers, k \in 1 .. Cardinality(drawn) :
                                                x = Lowest(i) + Offset(k)

LEMMA DrawsDiffer ==
    ASSUME NonceInv, NEW i \in Solvers, Cardinality(drawn) < MaxDraws, CHAL_NONCEINC # 0
    PROVE  Lowest(i) + Offset(Cardinality(drawn) + 1) \notin drawn
<1> DEFINE c == Cardinality(drawn)
<1>0. c \in Nat /\ Span \in Nat \ {0} /\ c < Span
  BY FS_CardinalityType, SpanType, SolverAssumption DEF NonceInv
<1> SUFFICES ASSUME NEW h \in Solvers, NEW k \in 1 .. c,
                    Lowest(i) + Offset(c + 1) = Lowest(h) + Offset(k)
             PROVE  FALSE
  BY DEF NonceInv
<1> HIDE DEF c
<1>1. k \in Nat /\ k < c + 1 /\ (c + 1) - k < Span /\ c + 1 \in Nat
  BY <1>0
<1>2. Offset(k) # Offset(c + 1)
  BY <1>0, <1>1, OffsetsDiffer
<1>3. Offset(k) \in 0 .. Span - 1 /\ Offset(c + 1) \in 0 .. Span - 1
  <2>1. CHAL_NONCEINC * k \in Nat /\ CHAL_NONCEINC * (c + 1) \in Nat
    BY <1>1, SolverAssumption
  <2>2. Splits(CHAL_NONCEINC * k, Span) /\ Splits(CHAL_NONCEINC * (c + 1), Span)
    BY <1>0, <2>1, DivMod
  <2> QED BY <2>2 DEF Offset, Splits
<1>4. /\ i - 1 \in Int /\ h - 1 \in Int
      /\ (i - 1) * Span + Offset(c + 1) = (h - 1) * Span + Offset(k)
  <2>1. i \in Int /\ h \in Int
    BY SolverAssumption DEF Solvers
  <2>2. PICK x \in Int, y \in Int : x = (i - 1) * Span /\ y = (h - 1) * Span
    BY <1>0, <2>1
  <2>3. Lowest(i) = NONCEMIN + x /\ Lowest(h) = NONCEMIN + y
    BY <2>2 DEF Lowest
  <2> QED BY <1>3, <2>1, <2>2, <2>3, SolverAssumption
<1> QED BY <1>0, <1>2, <1>3, <1>4, RangesApart

LEMMA DrawKeeps == ASSUME NonceInv, NEW i \in Solvers, Draw(i) PROVE NonceInv'
<1> DEFINE c == Cardinality(drawn)
           x == Lowest(i) + Offset(c + 1)
<1>1. c \in Nat /\ c < MaxDraws /\ MaxDraws \in Nat /\ CHAL_NONCEINC \in Nat
  BY FS_CardinalityType, SolverAssumption, SpanType DEF NonceInv, Draw
<1>2. sn + CHAL_NONCEINC = CHAL_NONCEINC * (c + 1)
  BY <1>1 DEF NonceInv
<1>3. drawn' = drawn \cup {x} /\ sn' = CHAL_NONCEINC * (c + 1)
  BY <1>2 DEF Draw, getnonce, Offset
<1>4. CHAL_NONCEINC # 0 => x \notin drawn
  BY DrawsDiffer DEF Draw
<1>5. /\ IsFiniteSet(drawn')
      /\ Cardinality(drawn') = IF x \in drawn THEN c ELSE c + 1
  BY <1>3, FS_AddElement DEF NonceInv
<1> HIDE DEF c, x
<1>6. CASE CHAL_NONCEINC = 0
  BY <1>1, <1>3, <1>5, <1>6 DEF NonceInv
<1>7. CASE CHAL_NONCEINC # 0
  <2>1. Cardinality(drawn') = c + 1
    BY <1>4, <1>5, <1>7
  <2>2. ASSUME NEW y \in drawn'
        PROVE  \E h \in Solvers, k \in 1 .. c + 1 : y = Lowest(h) + Offset(k)
    <3>1. CASE y = x
      <4>1. c + 1 \in 1 .. c + 1
        BY <1>1
      <4> QED BY <3>1, <4>1 DEF x
    <3>2. CASE y \in drawn
      <4>1. \E h \in Solvers, k \in 1 .. c : y = Lowest(h) + Offset(k)
        BY <1>7, <3>2 DEF NonceInv, c
      <4>2. \A k \in 1 .. c : k \in 1 .. c + 1
        BY <1>1
      <4> QED BY <4>1, <4>2
    <3> QED BY <1>3, <3>1, <3>2
  <2>3. Cardinality(drawn') <= MaxDraws
    BY <1>1, <2>1
  <2>4. \A y \in drawn' : \E h \in Solvers, k \in 1 .. Cardinality(drawn') :
                              y = Lowest(h) + Offset(k)
    BY <2>1, <2>2
  <2> QED BY <1>3, <1>5, <2>1, <2>3, <2>4 DEF NonceInv
<1> QED BY <1>6, <1>7

\* No nonce is drawn twice before a solver's range is used up, whatever the range and
\* a step that has no divisor in common with it (getnonce.c:18-27, mine.c:300-310).
THEOREM NoncesDiffer == Spec => []NonceOnce
<1>1. Init => NonceInv
  <2> SUFFICES ASSUME Init PROVE NonceInv
    OBVIOUS
  <2>1. sn = 0 /\ drawn = {} /\ MaxDraws \in Nat /\ CHAL_NONCEINC \in Nat
    BY SolverAssumption, SpanType DEF Init, SolverInit
  <2> QED BY <2>1, FS_EmptySet DEF NonceInv
<1>2. NonceInv /\ [Next]_vars => NonceInv'
  <2> SUFFICES ASSUME NonceInv, [Next]_vars PROVE NonceInv'
    OBVIOUS
  <2>1. CASE \E i \in Solvers : Draw(i)
    BY <2>1, DrawKeeps
  <2>2. CASE UNCHANGED <<sn, drawn>>
    BY <2>2 DEF NonceInv, Offset, Lowest
  <2>3. (\E i \in Solvers : Draw(i)) \/ UNCHANGED <<sn, drawn>>
    BY DEF Next, StartUp, ShutDown, init_tpoolFails, init_tpool, init_threads, init_wsFails,
           init_ws, init_walletFails, init_wallet, init_miningFails, init_mining,
           NewChallenge, Challenge, mineReturns, exit_mining, exit_ws, exit_tpool, Stray,
           Solve, SolverStep, Resize, Attempted, vars, slvars
  <2> QED BY <2>1, <2>2, <2>3
<1>3. NonceInv => NonceOnce
  BY DEF NonceInv, NonceOnce
<1> QED BY <1>1, <1>2, <1>3, PTL DEF Spec
=============================================================================
