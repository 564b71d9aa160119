------------------------------ MODULE Attempt ------------------------------
(***************************************************************************)
(* A challenge and one attempt at it: the CA's answer is parsed, and as    *)
(* __solver_solve of lib/chals/solver.c has it numbers are drawn, sorted   *)
(* and written down, or a grid is drawn and searched.  The nonce, the      *)
(* random numbers and the hash are the choice of what is drawn.            *)
(***************************************************************************)
EXTENDS ShortPath, SmoothSort, Parse

CONSTANTS MaxElems, \* bound: nelems
          U64STRLEN \* the digits of the largest number

Power10[k \in 0 .. U64STRLEN] == IF k = 0 THEN 1 ELSE 10 * Power10[k - 1]

ASSUME AttemptAssumption == /\ MaxElems \in Nat \ {0} /\ U64STRLEN \in Nat \ {0}
                            /\ Nums \subseteq 0 .. Power10[U64STRLEN] - 1

VARIABLES reply,   \* the tokens of the CA's answer, until it is parsed
          meant,   \* history: the challenge that the CA described,
          extra,   \* and what it added to that
          chal,    \* what the parser made of it
          refused  \* the parser failed: mine() returns

chalvars == <<reply, meant, extra, chal, refused>>
vars == <<spvars, chalvars, sortvars, smoothvars>>

-----------------------------------------------------------------------------
(* The CA's answers *)

Prefix == <<244, 10>>   \* sent as "f40a"

Meant(t, n) == [type |-> t, id |-> 7, left |-> 60, pfix |-> Prefix, lhash |-> "lhash",
                size |-> n, nblks |-> MaxBlks]

Challenges == {Meant(t, n) : t \in {"CHAL_SORT", "CHAL_RSORT"}, n \in 1 .. MaxElems}
              \cup {Meant("CHAL_SPATH", Size)}

\* The parameters, in one of their orders.
Parameters(c) == IF c.type # "CHAL_SPATH" THEN {<<Str("nb_elements"), Prim(c.size)>>}
                 ELSE LET size == <<Str("grid_size"), Prim(c.size)>>
                          nblks == <<Str("nb_blockers"), Prim(c.nblks)>>
                      IN  {size \o nblks, nblks \o size}

\* The fields with their values.
Fields(c, params) == <<<<Str("type"), Str("challenge")>>,
                       <<Str("challenge_id"), Prim(c.id)>>,
                       <<Str("challenge_name"), Str(Name[c.type])>>,
                       <<Str("time_left"), Prim(c.left)>>,
                       <<Str("hash_prefix"), HexStr(bin2hex(c.pfix))>>,
                       <<Str("last_solution_hash"), Str(c.lhash)>>,
                       <<Str("parameters"), Obj>> \o params>>

\* What may follow: a pair the program does not know, an array, another name.
Unknown == <<Str("nb_solvers"), Prim(3)>>
Extras == {<<>>, Unknown, <<Str("solvers"), Arr>>,
           <<Str("challenge_name"), Str("coloring")>>}

Answer(c, params, o, x) ==
    LET f == Fields(c, params)
    IN  <<Obj>> \o f[o[1]] \o f[o[2]] \o f[o[3]] \o f[o[4]] \o f[o[5]] \o f[o[6]] \o f[o[7]] \o x

AsListed == [k \in 1 .. 7 |-> k]

AnyOrder == {o \in [1 .. 7 -> 1 .. 7] : o[1] = 1 /\ \A j \in 1 .. 7 : \E k \in 1 .. 7 : o[k] = j}

\* The smallest lists and the grid come in every order of the fields after "type".
Orders(c) == IF c.size \in {1, Size} THEN AnyOrder ELSE {AsListed}

Init == /\ SPInit /\ SortInit /\ SmoothInit
        /\ meant \in Challenges
        /\ extra \in Extras
        /\ \E p \in Parameters(meant), o \in Orders(meant) : reply = Answer(meant, p, o, extra)
        /\ chal = NoChallenge /\ refused = FALSE
        /\ sorter # "merge" => /\ meant.type # "CHAL_SPATH"
                              /\ \E p \in Parameters(meant) : reply = Answer(meant, p, AsListed, <<>>)

-----------------------------------------------------------------------------
\* handle_newchal
NewChallenge == /\ reply # <<>>
                /\ LET p == chal_parse(reply)
                   IN  refused' = (p.ret # 0) /\ chal' = IF p.ret # 0 THEN NoChallenge ELSE p.chal
                /\ reply' = <<>>
                /\ UNCHANGED <<spvars, meant, extra, sortvars, smoothvars>>

Started(type) == reply = <<>> /\ ~refused /\ chal.type = type

\* mt64_randn
DrawNums == /\ (Started("CHAL_SORT") \/ Started("CHAL_RSORT"))
            /\ Draw(chal.size, chal.type = "CHAL_RSORT")
            /\ UNCHANGED <<spvars, chalvars, smoothvars>>

\* What the build's sort makes of the numbers, in place.
SortNums == /\ (Sorting /\ UNCHANGED smoothvars) \/ SmoothNext
            /\ UNCHANGED <<spvars, chalvars>>

\* What the attempt hashes: sl->str.
Hashed == mku64str(nums, chal.size)

\* The attempt hashes and ends.
HashNums == /\ at = "sorted"
            /\ NoSearch
            /\ UNCHANGED <<chalvars, sortvars, smoothvars>>

Search == /\ Started("CHAL_SPATH")
          /\ SPNext
          /\ UNCHANGED <<chalvars, sortvars, smoothvars>>

\* After an overrun the process may do anything.
Done == (spc \in {"done", "overrun"} \/ refused) /\ UNCHANGED vars

Next == NewChallenge \/ DrawNums \/ SortNums \/ HashNums \/ Search \/ Done

Spec == Init /\ [][Next]_vars

-----------------------------------------------------------------------------
\* An unknown pair is one too many for toks[] only in the longest answer.
Understood == extra = <<>> \/ (extra = Unknown /\ meant.type # "CHAL_SPATH")

\* In whatever order the CA names the fields and the parameters, the solvers get the
\* challenge that it describes; an answer is refused exactly when it holds an unknown
\* name, an array, or more tokens than all known fields make (parse.c:18-155).
ParsesAnyOrder ==
    reply = <<>> =>
        IF ~Understood THEN refused
        ELSE chal = [meant EXCEPT !.nblks = IF meant.type = "CHAL_SPATH" THEN @ ELSE Unset]

\* What is hashed is every number in decimal, one after the other, except that a 0
\* leaves nothing, and it fits into sl->str with its Nul (u64str.c:17-28,
\* mku64str.c:13-26, sortlist.c:143-148).
Decimal(n) == LET digits == Cardinality({k \in 0 .. U64STRLEN : Power10[k] <= n})
              IN  [k \in 1 .. digits |-> 48 + ((n \div Power10[digits - k]) % 10)]

HashesTheNumbers ==
    at = "sorted" =>
        LET Before[k \in 0 .. chal.size] ==
                IF k = 0 THEN 0 ELSE Before[k - 1] + Len(Decimal(nums[k - 1]))
        IN  /\ Len(Hashed) = Before[chal.size]
            /\ Len(Hashed) < (chal.size + 1) * U64STRLEN
            /\ \A k \in 1 .. chal.size :
                  SubSeq(Hashed, Before[k - 1] + 1, Before[k]) = Decimal(nums[k - 1])
=============================================================================
