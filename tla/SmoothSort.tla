----------------------------- MODULE SmoothSort -----------------------------
(***************************************************************************)
(* Smooth sort of lib/utils, the third of the sorts.  big and small are    *)
(* two successive Leonardo numbers, the bits of trees the sizes, from big  *)
(* on, of the trees that lie side by side in the array, and root is the    *)
(* place of the last one's root.                                           *)
(***************************************************************************)
EXTENDS Sorts

VARIABLES trees, big, small, root, \* p, b, c, r
          seen,                    \* q
          ttrees, tbig, tsmall,    \* p1 of trinkle, b1, c1; r1 is hole, t is held
          then                     \* where a call returns to

forestvars == <<trees, big, small, root, seen>>
callvars == <<ttrees, tbig, tsmall, then>>
smoothvars == <<forestvars, callvars>>

SmoothInit == /\ trees = 0 /\ big = 0 /\ small = 0 /\ root = 0 /\ seen = 0
              /\ ttrees = 0 /\ tbig = 0 /\ tsmall = 0 /\ then = "sorted"

smoothsort64 == /\ at = "sort" /\ sorter = "smooth"
                /\ at' = "build"
                /\ trees' = 1 /\ big' = 1 /\ small' = 1 /\ root' = 0 /\ seen' = 1
                /\ UNCHANGED <<argvars, nums, mergevars, heapvars, holevars, callvars>>

Up(b, c) == <<b + c + 1, b>>
Down(b, c) == <<c, b - c - 1>>

-----------------------------------------------------------------------------
(* sift, trinkle and semitrinkle *)

CallSift(place) == /\ at' = "sift" /\ then' = place
                   /\ hole' = root /\ held' = nums[root]
                   /\ tbig' = big /\ tsmall' = small
                   /\ UNCHANGED <<nums, ttrees>>

CallTrinkle(place) == /\ at' = "trinkle" /\ then' = place
                      /\ hole' = root /\ held' = nums[root]
                      /\ ttrees' = trees /\ tbig' = big /\ tsmall' = small
                      /\ UNCHANGED nums

\* The swap by three exclusive ors is one: the two places differ.
semitrinkle(p, b, c, r, place) ==
    IF Precedes(nums[r - c], nums[r])
    THEN at' = place /\ UNCHANGED <<nums, holevars, callvars>>
    ELSE /\ at' = "trinkle" /\ then' = place
         /\ nums' = [nums EXCEPT ![r] = nums[r - c], ![r - c] = nums[r]]
         /\ hole' = r - c /\ held' = nums[r]
         /\ ttrees' = p /\ tbig' = b /\ tsmall' = c

\* The greater one of the roots of the two trees below hole, and their sizes.
Second == hole - tbig + tsmall
LastIsGreater == ~Precedes(nums[hole - 1], nums[Second])
Greater == IF LastIsGreater THEN hole - 1 ELSE Second
HalfOf == IF LastIsGreater THEN Down(tbig, tsmall) ELSE <<tbig, tsmall>>

MoveTo(place, sizes) == /\ nums' = [nums EXCEPT ![hole] = nums[place]]
                        /\ hole' = place
                        /\ tbig' = sizes[1] /\ tsmall' = sizes[2]

sift == /\ at = "sift"
        /\ IF tbig <= 2 \/ Precedes(nums[Greater], held)
           THEN /\ at' = then
                /\ nums' = [nums EXCEPT ![hole] = held]
                /\ UNCHANGED <<hole, tbig, tsmall>>
           ELSE /\ MoveTo(Greater, Down(HalfOf[1], HalfOf[2]))
                /\ UNCHANGED at
        /\ UNCHANGED <<argvars, held, mergevars, heapvars, forestvars, ttrees, then>>

\* Past the trees that there are not.
TrinkleShifts == /\ at = "trinkle" /\ ttrees > 0 /\ ttrees % 2 = 0
                 /\ ttrees' = ttrees \div 2
                 /\ tbig' = Up(tbig, tsmall)[1] /\ tsmall' = Up(tbig, tsmall)[2]
                 /\ UNCHANGED <<argvars, at, nums, holevars, mergevars, heapvars, forestvars, then>>

\* held moves from root to root to the left, until it meets a lesser one, or a
\* greater one below its own.
TrinkleMoves ==
    /\ at = "trinkle" /\ ttrees % 2 = 1
    /\ LET before == hole - tbig
       IN  IF ttrees = 1 \/ Precedes(nums[before], held)
           THEN ttrees' = 0 /\ UNCHANGED <<nums, hole, tbig, tsmall>>
           ELSE IF tbig = 1
           THEN ttrees' = ttrees - 1 /\ MoveTo(before, <<tbig, tsmall>>)
           ELSE IF Precedes(nums[Greater], nums[before])
           THEN /\ ttrees' = IF LastIsGreater THEN 2 * (ttrees - 1) ELSE ttrees - 1
                /\ MoveTo(before, HalfOf)
           ELSE ttrees' = 0 /\ MoveTo(Greater, Down(HalfOf[1], HalfOf[2]))
    /\ UNCHANGED <<argvars, at, held, mergevars, heapvars, forestvars, then>>

TrinkleSifts == /\ at = "trinkle" /\ ttrees = 0
                /\ at' = "sift"
                /\ nums' = [nums EXCEPT ![hole] = held]
                /\ UNCHANGED <<argvars, holevars, mergevars, heapvars, smoothvars>>

-----------------------------------------------------------------------------
(* The trees are built *)

\* The last two trees will be those below the next element.
BuildJoins == /\ at = "build" /\ seen < cnt /\ trees % 8 = 3
              /\ CallSift("join")
              /\ UNCHANGED <<argvars, mergevars, heapvars, forestvars>>

\* It will be a tree of its own.  The last tree has no use for an order among the
\* roots when there will be one above it.
BuildAdds == /\ at = "build" /\ seen < cnt /\ trees % 4 = 1
             /\ IF seen + small < cnt THEN CallSift("descend") ELSE CallTrinkle("descend")
             /\ UNCHANGED <<argvars, mergevars, heapvars, forestvars>>

BuildEnds == /\ at = "build" /\ seen >= cnt
             /\ CallTrinkle("take")
             /\ UNCHANGED <<argvars, mergevars, heapvars, forestvars>>

Join == /\ at = "join" /\ at' = "build"
        /\ trees' = (trees + 1) \div 4
        /\ LET sum == big + small + 1 IN big' = big + sum + 1 /\ small' = sum
        /\ seen' = seen + 1 /\ root' = root + 1
        /\ UNCHANGED <<argvars, nums, mergevars, heapvars, holevars, callvars>>

\* do { down; p <<= 1 } while (1 < b), and the new tree.
Descend == /\ at = "descend"
           /\ big' = Down(big, small)[1] /\ small' = Down(big, small)[2]
           /\ IF big' > 1 THEN trees' = 2 * trees /\ UNCHANGED <<at, seen, root>>
              ELSE /\ at' = "build" /\ trees' = 2 * trees + 1
                   /\ seen' = seen + 1 /\ root' = root + 1
           /\ UNCHANGED <<argvars, nums, mergevars, heapvars, holevars, callvars>>

-----------------------------------------------------------------------------
(* The greatest root is in its place; its two trees become trees of their own *)

TakeDone == /\ at = "take" /\ seen <= 1
            /\ at' = "sorted"
            /\ UNCHANGED <<argvars, nums, mergevars, heapvars, holevars, smoothvars>>

TakeLeaf == /\ at = "take" /\ seen > 1 /\ big = 1
            /\ at' = "shift"
            /\ seen' = seen - 1 /\ root' = root - 1 /\ trees' = trees - 1
            /\ UNCHANGED <<argvars, nums, mergevars, heapvars, holevars, big, small, callvars>>

TakeShifts == /\ at = "shift"
              /\ IF trees % 2 = 0
                 THEN /\ trees' = trees \div 2
                      /\ big' = Up(big, small)[1] /\ small' = Up(big, small)[2]
                      /\ UNCHANGED at
                 ELSE at' = "take" /\ UNCHANGED <<trees, big, small>>
              /\ UNCHANGED <<argvars, nums, mergevars, heapvars, holevars, root, seen, callvars>>

TakeFirst == /\ at = "take" /\ seen > 1 /\ big > 1
             /\ seen' = seen - 1 /\ trees' = trees - 1
             /\ root' = root - big + small
             /\ IF trees - 1 > 0 THEN semitrinkle(trees', big, small, root', "second")
                ELSE at' = "second" /\ UNCHANGED <<nums, holevars, callvars>>
             /\ UNCHANGED <<argvars, mergevars, heapvars, big, small>>

TakeSecond == /\ at = "second"
              /\ big' = Down(big, small)[1] /\ small' = Down(big, small)[2]
              /\ trees' = 2 * trees + 1
              /\ root' = root + small'
              /\ semitrinkle(trees', big', small', root', "taken")
              /\ UNCHANGED <<argvars, mergevars, heapvars, seen>>

Taken == /\ at = "taken" /\ at' = "take"
         /\ big' = Down(big, small)[1] /\ small' = Down(big, small)[2]
         /\ trees' = 2 * trees + 1
         /\ UNCHANGED <<argvars, nums, mergevars, heapvars, holevars, root, seen, callvars>>

SmoothNext == \/ smoothsort64 \/ sift \/ TrinkleShifts \/ TrinkleMoves \/ TrinkleSifts
              \/ BuildJoins \/ BuildAdds \/ BuildEnds \/ Join \/ Descend
              \/ TakeDone \/ TakeLeaf \/ TakeShifts \/ TakeFirst \/ TakeSecond \/ Taken
=============================================================================
