----------------------------- MODULE ShortPath -----------------------------
(***************************************************************************)
(* The shortest path of lib/chals/shortpath.c: a random grid with walls,   *)
(* the search over a sorted queue of cells, and the path turned around     *)
(* with the same queue.  A cell is <<y, x>>; the queue, a list linked in   *)
(* both directions through the cells, is the sequence q.                   *)
(***************************************************************************)
EXTENDS Text, SequencesExt

CONSTANTS Size,    \* the width of the grid
          MaxBlks  \* nblks: the cells drawn for blockers

ASSUME ShortPathAssumption == Size \in Nat /\ Size >= 4 /\ MaxBlks \in Nat

Cells == (0 .. Size - 1) \X (0 .. Size - 1)
Inner == (1 .. Size - 2) \X (1 .. Size - 2)
NoCell == <<>>

VARIABLES spc,       \* the place in shortpath()
          wall,      \* the cells marked 'x'
          src, dst,
          cost,      \* c, -1 for a cell that was not reached
          parent,    \* p
          q,
          cur,
          i,         \* the counter of the way back
          sol        \* the cells whose coordinates are written into sp->sol

spvars == <<spc, wall, src, dst, cost, parent, q, cur, i, sol>>

SPInit == /\ spc = "draw"
          /\ wall = {} /\ src = NoCell /\ dst = NoCell
          /\ cost = [c \in Cells |-> -1]
          /\ parent = [c \in Cells |-> NoCell]
          /\ q = <<>> /\ cur = NoCell
          /\ i = -1
          /\ sol = <<>>

-----------------------------------------------------------------------------
(* The queue *)

\* a comes after b: by cost, then y, then x.
costcmp(c, a, b) == \/ c[a] > c[b]
                    \/ c[a] = c[b] /\ a[1] > b[1]
                    \/ c[a] = c[b] /\ a[1] = b[1] /\ a[2] > b[2]

\* Mutant: a cell goes to the tail.
qaddLast(c, queue, cl) == Append(queue, cl)

\* Mutant: a cell goes to the head.
qaddFirst(c, queue, cl) == <<cl>> \o queue

\* Before the first cell that comes after cl.
qadd(c, queue, cl) ==
    LET after == {k \in 1 .. Len(queue) : costcmp(c, queue[k], cl)}
    IN  IF after = {} THEN Append(queue, cl)
        ELSE InsertAt(queue, CHOOSE k \in after : \A m \in after : k <= m, cl)

\* Only a cell that is in the queue leaves it.
qdel(queue, cl) ==
    LET at == {k \in 1 .. Len(queue) : queue[k] = cl}
    IN  IF at = {} THEN queue
        ELSE RemoveAt(queue, CHOOSE k \in at : \A m \in at : k <= m)

-----------------------------------------------------------------------------
\* clrgrid and popgrid: walls around, two cells, and blockers elsewhere.  A
\* blocker that falls on a wall or on another one changes nothing.
popgrid == \E s, d \in Inner, B \in SUBSET Inner :
    /\ s # d /\ Cardinality(B) <= MaxBlks
    /\ src' = s /\ dst' = d
    /\ wall' = (Cells \ Inner) \cup (B \ {s, d})

\* search_init, and the source as the only cell in the queue.
Begin == /\ spc = "draw" /\ spc' = "search"
         /\ popgrid
         /\ cost' = [[c \in Cells |-> -1] EXCEPT ![src'] = 0]
         /\ parent' = [c \in Cells |-> NoCell]
         /\ q' = <<src'>>
         /\ UNCHANGED <<cur, i, sol>>

\* The neighbours in the order of their direction: down, up, right, left.
Around(c) == <<<<c[1] + 1, c[2]>>, <<c[1] - 1, c[2]>>,
               <<c[1], c[2] + 1>>, <<c[1], c[2] - 1>>>>

\* A neighbour n that c is a better way to, or the first one, gets its cost and its
\* parent, and is put into the queue again, at its new place.
Visit(s, c, n) ==
    IF n \in wall \/ (s.cost[n] >= 0 /\ s.cost[n] <= s.cost[c] + 1) THEN s
    ELSE LET costs == [s.cost EXCEPT ![n] = s.cost[c] + 1]
         IN  [cost   |-> costs,
              parent |-> [s.parent EXCEPT ![n] = c],
              q      |-> qadd(costs, qdel(s.q, n), n)]

\* One turn of the search: the first cell leaves the queue and, unless it is the
\* destination, visits its four neighbours.
Expand == /\ spc = "search" /\ q # <<>> /\ Head(q) # dst
          /\ cur' = Head(q)
          /\ LET c  == Head(q)
                 s0 == [cost |-> cost, parent |-> parent, q |-> Tail(q)]
                 s1 == Visit(s0, c, Around(c)[1])
                 s2 == Visit(s1, c, Around(c)[2])
                 s3 == Visit(s2, c, Around(c)[3])
                 s4 == Visit(s3, c, Around(c)[4])
             IN  cost' = s4.cost /\ parent' = s4.parent /\ q' = s4.q
          /\ UNCHANGED <<spc, wall, src, dst, i, sol>>

\* The destination comes out of the queue, which is emptied to be used again.
Found == /\ spc = "search" /\ q # <<>> /\ Head(q) = dst
         /\ spc' = "back"
         /\ cur' = dst
         /\ q' = <<>>
         /\ i' = -1
         /\ UNCHANGED <<wall, src, dst, cost, parent, sol>>

NotFound == /\ spc = "search" /\ q = <<>>
            /\ spc' = "done"
            /\ cur' = NoCell
            /\ UNCHANGED <<wall, src, dst, cost, parent, q, i, sol>>

\* Mutant: the way back counts upwards.
BackUpwards == /\ spc = "back"
               /\ cost' = [cost EXCEPT ![cur] = i]
               /\ q' = qadd(cost', q, cur)
               /\ i' = i + 1
               /\ IF cur = src THEN spc' = "emit" /\ UNCHANGED cur
                  ELSE cur' = parent[cur] /\ UNCHANGED spc
               /\ UNCHANGED <<wall, src, dst, parent, sol>>

\* The way back from parent to parent, at lower and lower costs: (size_t)-1 and
\* what comes below is -1 and so on in the int of a cell.
Back == /\ spc = "back"
        /\ cost' = [cost EXCEPT ![cur] = i]
        /\ q' = qadd(cost', q, cur)
        /\ i' = i - 1
        /\ IF cur = src THEN spc' = "emit" /\ UNCHANGED cur
           ELSE cur' = parent[cur] /\ UNCHANGED spc
        /\ UNCHANGED <<wall, src, dst, parent, sol>>

\* The y and the x of each cell, in decimal, one after the other.
PathText(cells) == mku64str([k \in 0 .. 2 * Len(cells) - 1 |-> cells[(k \div 2) + 1][(k % 2) + 1]],
                           2 * Len(cells))

\* The cells in the order of the queue.  sp->sol has a byte for each cell of the grid, or
\* of the largest one so far: a long path and its Nul may need more, and are written all
\* the same.
Emit == /\ spc = "emit"
        /\ spc' \in IF Len(PathText(q)) < Size * Size THEN {"done"} ELSE {"done", "overrun"}
        /\ sol' = q
        /\ q' = <<>> /\ cur' = NoCell
        /\ UNCHANGED <<wall, src, dst, cost, parent, i>>

SPNext == Begin \/ Expand \/ Found \/ NotFound \/ Back \/ Emit

\* The challenge of the attempt is a list: no search takes place.
NoSearch == /\ spc = "draw" /\ spc' = "done"
            /\ UNCHANGED <<wall, src, dst, cost, parent, q, cur, i, sol>>

SPSpec == SPInit /\ [][SPNext \/ NoSearch]_spvars

-----------------------------------------------------------------------------
(* The reference: balls around the source *)

Adjacent(a, b) == \/ a[1] = b[1] /\ a[2] - b[2] \in {-1, 1}
                  \/ a[2] = b[2] /\ a[1] - b[1] \in {-1, 1}

Free == Cells \ wall

\* The free cells that at most k steps lead to.
Ball[k \in Nat] ==
    IF k = 0 THEN {src}
    ELSE LET ball == Ball[k - 1]
         IN  ball \cup {c \in Free : \E b \in ball : Adjacent(b, c)}

YXBefore(a, b) == a[1] < b[1] \/ (a[1] = b[1] /\ a[2] < b[2])

\* Dijkstra's algorithm settles a cell once: a cell that was reached keeps its cost
\* and its parent for the rest of the search, and qdel never has one to take out of
\* the queue (shortpath.c:300-307).
ReachedIsSettled ==
    [][spc = "search" /\ spc' = "search" =>
        \A c \in Cells : cost[c] >= 0 => cost'[c] = cost[c] /\ parent'[c] = parent[c]]_spvars

\* The choice between shortest paths that the server's heap makes: a cell's parent
\* is the first one by y, then x, of the neighbours that are one step nearer,
\* whatever the order of the directions (shortpath.c:53-62).
ParentIsFirst ==
    spc = "search" => \A c \in Cells : cost[c] > 0 =>
        LET nearer == {n \in Free : Adjacent(n, c) /\ cost[n] = cost[c] - 1}
        IN  parent[c] \in nearer /\ \A n \in nearer \ {parent[c]} : YXBefore(parent[c], n)

\* What the attempt hashes: nothing when no path leads to the destination, else a
\* path from the source to it with no step too many (shortpath.c:315-352), whether it
\* has room in sp->sol or not.
SolutionIsShortest ==
    spc \in {"done", "overrun"} /\ src # NoCell =>
        IF sol = <<>> THEN dst \notin Ball[Cardinality(Free)]
        ELSE /\ sol[1] = src /\ sol[Len(sol)] = dst
             /\ \A k \in 1 .. Len(sol) - 1 : sol[k + 1] \in Free /\ Adjacent(sol[k], sol[k + 1])
             /\ dst \notin Ball[Len(sol) - 2]
=============================================================================
