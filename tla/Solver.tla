------------------------------- MODULE Solver -------------------------------
(***************************************************************************)
(* The solvers, lib/chals/solver.c: the memory they work in, which grows   *)
(* with the challenges and may be refused, and the counter from which all  *)
(* of them draw their nonces.  Miner models how they are started, stopped  *)
(* and heard, Attempt what an attempt computes.                            *)
(*                                                                         *)
(* The two challenges keep their size in one place (params is a union), so *)
(* that a challenge has one size here, and both spaces follow it.          *)
(***************************************************************************)
EXTENDS Integers, FiniteSets

CONSTANTS NSolvers,            \* MAXSLV
          SP_EXPSIZE,
          Sizes,               \* the sizes of the CA's challenges
          NONCEMIN, NONCEMAX, CHAL_NONCEINC,
          MaxDraws             \* bound: nonces drawn

Span == (NONCEMAX - NONCEMIN) \div NSolvers

\* A bound on the draws that the counter's step justifies: see NonceOnce.
ASSUME SolverAssumption ==
    /\ NSolvers \in Nat \ {0} /\ SP_EXPSIZE \in Nat /\ Sizes \subseteq Nat
    /\ NONCEMIN \in Nat /\ NONCEMAX \in Nat /\ CHAL_NONCEINC \in Nat
    /\ MaxDraws \in 0 .. Span
    /\ \A d \in 2 .. CHAL_NONCEINC : ~(CHAL_NONCEINC % d = 0 /\ Span % d = 0)

Solvers == 1 .. NSolvers

VARIABLES size,   \* of the challenge that all solvers share
          run,    \* of each solver: off, idle, ready (its space fits), search, freed
          sl, sp, \* of each solver: the arrays' lengths, and max
          sn,     \* getnonce's counter
          drawn   \* history: the nonces drawn

slvars == <<size, run, sl, sp, sn, drawn>>

NoSpace(arrays) == [a \in arrays \cup {"max"} |-> 0]

SolverInit == /\ size = 0
              /\ run = [i \in Solvers |-> "off"]
              /\ sl = [i \in Solvers |-> NoSpace({"nums", "str", "mtmp"})]
              /\ sp = [i \in Solvers |-> NoSpace({"grid", "sol", "cells"})]
              /\ sn = 0 /\ drawn = {}

-----------------------------------------------------------------------------
(* solver_resize *)

\* Mutant: max is set before the arrays have grown.
GrownEagerly(space, order, n, k) ==
    IF space.max >= n THEN space
    ELSE [a \in DOMAIN space |->
             IF a = "max" \/ \E j \in 1 .. k : order[j] = a THEN n ELSE space[a]]

\* The arrays are reallocated in this order until one is refused, the (k+1)th: it
\* keeps its length, those before it are as long as they are asked to be.
Grown(space, order, n, k) ==
    IF space.max >= n THEN space
    ELSE [a \in DOMAIN space |->
             IF \/ a = "max" /\ k = 3
                \/ \E j \in 1 .. k : order[j] = a
             THEN n ELSE space[a]]

sortlist_resize(i, n, k) == Grown(sl[i], <<"nums", "str", "mtmp">>, n, k)
shortpath_resize(i, n, k) == Grown(sp[i], <<"grid", "sol", "cells">>, n, k)

\* shortpath_resize is only called when all went well before.
solver_resize(i, n, ok) ==
    \/ \E k \in 0 .. 2 : /\ sl[i].max < n
                         /\ sl' = [sl EXCEPT ![i] = sortlist_resize(i, n, k)]
                         /\ ~ok /\ UNCHANGED sp
    \/ \E k \in 0 .. 3 : /\ sl' = [sl EXCEPT ![i] = sortlist_resize(i, n, 3)]
                         /\ sp' = [sp EXCEPT ![i] = shortpath_resize(i, n, k)]
                         /\ ok <=> (k = 3 \/ sp[i].max >= n)

-----------------------------------------------------------------------------
(* The challenges and the attempts *)

\* handle_newchal: dropchal waits for the end of every attempt.
Challenge(n) == /\ \A i \in Solvers : run[i] \in {"off", "idle"}
                /\ size' = n
                /\ run' = [i \in Solvers |-> "idle"]
                /\ UNCHANGED <<sl, sp, sn, drawn>>

\* __solve.  What was refused is asked for again in the next turn of the thread.
Resize(i) == /\ run[i] = "idle"
             /\ \E ok \in BOOLEAN :
                   /\ solver_resize(i, size, ok)
                   /\ run' = [run EXCEPT ![i] = IF ok THEN "ready" ELSE "idle"]
             /\ UNCHANGED <<size, sn, drawn>>

\* init_mining gives each solver a range of its own: nmin.
Lowest(i) == NONCEMIN + (i - 1) * Span

\* Mutant: without the atomic instruction another thread's older value may come later.
getnonceLost(i) ==
    LET n == Lowest(i) + ((sn + CHAL_NONCEINC) % Span)
    IN  /\ sn' \in {sn, sn + CHAL_NONCEINC}
        /\ drawn' = drawn \cup {n}

\* All solvers step one counter.
getnonce(i) ==
    LET n == Lowest(i) + ((sn + CHAL_NONCEINC) % Span)
    IN  /\ sn' = sn + CHAL_NONCEINC
        /\ drawn' = drawn \cup {n}

Draw(i) == /\ run[i] = "ready" /\ Cardinality(drawn) < MaxDraws
           /\ getnonce(i)
           /\ run' = [run EXCEPT ![i] = "search"]
           /\ UNCHANGED <<size, sl, sp>>

Attempted(i) == /\ run[i] \in {"search", "freed"}
                /\ run' = [run EXCEPT ![i] = "idle"]
                /\ UNCHANGED <<size, sl, sp, sn, drawn>>

SolverStep(i) == Resize(i) \/ Draw(i) \/ Attempted(i)

-----------------------------------------------------------------------------
\* An attempt finds every array at the length that the resize functions give to a
\* challenge of its size, whatever memory was refused before and however the sizes of the
\* challenges went up and down (solver.c:27-60, sortlist.c:121-162, shortpath.c:472-510).
\* That length is enough for the numbers, the grid and the cells; for the digits of a
\* path (sp->sol) it need not be: Emit of ShortPath.
Fits(space, n) == \A a \in DOMAIN space : space[a] >= n

FitsTheChallenge ==
    \A i \in Solvers : run[i] \in {"ready", "search"} => Fits(sl[i], size) /\ Fits(sp[i], size)

\* No nonce is tried twice, by whichever solver, before as many have been drawn as a
\* solver's range holds: the ranges are apart, and the step of the shared counter has
\* no divisor in common with their length (getnonce.c:18-27, mine.c:300-310).
NonceOnce == sn = CHAL_NONCEINC * Cardinality(drawn)
=============================================================================
