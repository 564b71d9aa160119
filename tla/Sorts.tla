------------------------------- MODULE Sorts -------------------------------
(***************************************************************************)
(* Two of the sorts of lib/utils that a build of sortlist.c chooses from:  *)
(* bottom-up merge sort (the default) and heap sort; SmoothSort adds the   *)
(* third.  A turn of an innermost loop is a step.  An array of cnt numbers *)
(* is a function on 0 .. cnt - 1.  The fourth choice, SL_QUICKSORT, is not *)
(* modelled: the C library's qsort gets comparators that compare the       *)
(* addresses of the numbers, and does not sort.                            *)
(***************************************************************************)
EXTENDS Integers, FiniteSets

CONSTANTS Nums    \* the numbers that may be drawn

ASSUME NumsAssumption == Nums \subseteq Nat

VARIABLES sorter,   \* the sort that the build uses, one of the three
          at,       \* the place in it
          nums,     \* sl->nums
          drawn,    \* history: the numbers before the sort
          cnt, rev, \* the arguments; rev asks for the descending order
          mtmp,     \* sl->mtmp: tmp and dst
          width, low,       \* mergesort64: i, j
          left, right, out, \* merge: i, j, k
          top, heap,        \* heapsort64: p, and cnt as it goes down
          hole, held        \* i and t: a place, and the number that comes to it

argvars == <<sorter, drawn, cnt, rev>>
mergevars == <<mtmp, width, low, left, right, out>>
heapvars == <<top, heap>>
holevars == <<hole, held>>
sortvars == <<argvars, at, nums, mergevars, heapvars, holevars>>

NoNums == <<>>
Garbage == -1

SortInit == /\ sorter \in {"merge", "heap", "smooth"}
            /\ at = "idle"
            /\ nums = NoNums /\ drawn = NoNums /\ cnt = 0 /\ rev = FALSE
            /\ mtmp = NoNums /\ width = 0 /\ low = 0 /\ left = 0 /\ right = 0 /\ out = 0
            /\ top = 0 /\ heap = 0 /\ hole = 0 /\ held = 0

\* mt64_randn fills nums; mtmp has room, and nothing that was written.
Draw(n, desc) == /\ at = "idle" /\ at' = "sort"
                 /\ nums' \in [0 .. n - 1 -> Nums] /\ drawn' = nums'
                 /\ cnt' = n /\ rev' = desc
                 /\ mtmp' = [k \in 0 .. n - 1 |-> Garbage]
                 /\ UNCHANGED <<sorter, width, low, left, right, out, heapvars, holevars>>

\* x comes before y: the two macros, and the function cmp of smooth sort.
Precedes(x, y) == IF rev THEN x > y ELSE x < y

Smaller(x, y) == IF x < y THEN x ELSE y

-----------------------------------------------------------------------------
(* mergesort64 *)

mergesort64 == /\ at = "sort" /\ sorter = "merge"
               /\ at' = "pass"
               /\ width' = 1
               /\ UNCHANGED <<argvars, nums, mtmp, low, left, right, out, heapvars, holevars>>

Pass == /\ at = "pass"
        /\ IF width < cnt THEN at' = "runs" /\ low' = 0
           ELSE at' = "sorted" /\ UNCHANGED low
        /\ UNCHANGED <<argvars, nums, mtmp, width, left, right, out, heapvars, holevars>>

\* Two runs, [low, Middle) and [Middle, End), the last ones perhaps cut or empty.
Middle == Smaller(low + width, cnt)
End == Smaller(low + 2 * width, cnt)

BeginMerge == /\ at = "runs" /\ low < cnt
              /\ at' = "merge"
              /\ left' = low /\ right' = Middle /\ out' = low
              /\ UNCHANGED <<argvars, nums, mtmp, width, low, heapvars, holevars>>

CopyBack == /\ at = "runs" /\ low >= cnt
            /\ at' = "pass"
            /\ nums' = mtmp
            /\ width' = 2 * width
            /\ UNCHANGED <<argvars, mtmp, low, left, right, out, heapvars, holevars>>

FromLeft == left < Middle /\ (right >= End \/ Precedes(nums[left], nums[right]))

MergeOne == /\ at = "merge" /\ out < End
            /\ IF FromLeft THEN /\ mtmp' = [mtmp EXCEPT ![out] = nums[left]]
                                /\ left' = left + 1 /\ UNCHANGED right
               ELSE /\ mtmp' = [mtmp EXCEPT ![out] = nums[right]]
                    /\ right' = right + 1 /\ UNCHANGED left
            /\ out' = out + 1
            /\ UNCHANGED <<argvars, at, nums, width, low, heapvars, holevars>>

EndMerge == /\ at = "merge" /\ out >= End
            /\ at' = "runs"
            /\ low' = low + 2 * width
            /\ UNCHANGED <<argvars, nums, mtmp, width, left, right, out, heapvars, holevars>>

-----------------------------------------------------------------------------
(* heapsort64 *)

\* Mutant: the last parent of an even number of elements is left out.
heapsort64Late == /\ at = "sort" /\ sorter = "heap"
                  /\ at' = "pick"
                  /\ top' = (cnt - 1) \div 2 /\ heap' = cnt
                  /\ UNCHANGED <<argvars, nums, mergevars, holevars>>

heapsort64 == /\ at = "sort" /\ sorter = "heap"
              /\ at' = "pick"
              /\ top' = cnt \div 2 /\ heap' = cnt
              /\ UNCHANGED <<argvars, nums, mergevars, holevars>>

\* The parents sink from the last one on.
PickParent == /\ at = "pick" /\ top > 0
              /\ at' = "sink"
              /\ top' = top - 1
              /\ hole' = top - 1 /\ held' = nums[top - 1]
              /\ UNCHANGED <<argvars, nums, mergevars, heap>>

\* The root goes behind the heap, and the last element sinks from there.
PickLast == /\ at = "pick" /\ top = 0
            /\ heap' = heap - 1
            /\ IF heap = 1 THEN at' = "sorted" /\ UNCHANGED <<nums, holevars>>
               ELSE /\ at' = "sink"
                    /\ hole' = 0 /\ held' = nums[heap - 1]
                    /\ nums' = [nums EXCEPT ![heap - 1] = nums[0]]
            /\ UNCHANGED <<argvars, mergevars, top>>

\* The child that held is compared with.
Child == LET c == 2 * hole + 1
         IN  IF c + 1 < heap /\ Precedes(nums[c], nums[c + 1]) THEN c + 1 ELSE c

\* A child ends the descent; with rev, one that equals held does not.
Rests == \/ 2 * hole + 1 >= heap
         \/ IF rev THEN nums[Child] > held ELSE nums[Child] <= held

Sink == /\ at = "sink"
        /\ IF Rests THEN /\ at' = "pick"
                         /\ nums' = [nums EXCEPT ![hole] = held]
                         /\ UNCHANGED hole
           ELSE /\ nums' = [nums EXCEPT ![hole] = nums[Child]]
                /\ hole' = Child
                /\ UNCHANGED at
        /\ UNCHANGED <<argvars, mergevars, heapvars, held>>

-----------------------------------------------------------------------------
MergeNext == mergesort64 \/ Pass \/ BeginMerge \/ CopyBack \/ MergeOne \/ EndMerge
HeapNext == heapsort64 \/ PickParent \/ PickLast \/ Sink

\* sort(), without the branches of SL_QUICKSORT.
Sorting == MergeNext \/ HeapNext

\* Merge sort, heap sort and smooth sort put the numbers in the order that the
\* challenge asks for, and neither lose nor invent one (sortlist.c:56-59, 66-69).
SortsTheNumbers ==
    at = "sorted" =>
        LET Count(a, v) == Cardinality({k \in DOMAIN a : a[k] = v})
        IN  /\ DOMAIN nums = DOMAIN drawn
            /\ \A v \in Nums : Count(nums, v) = Count(drawn, v)
            /\ \A k \in 1 .. Cardinality(DOMAIN drawn) - 1 : ~Precedes(nums[k], nums[k - 1])
=============================================================================
