-------------------------------- MODULE Parse --------------------------------
(***************************************************************************)
(* The parser of challenges, lib/chals/parse.c, over the tokens that jsmn  *)
(* makes of the CA's answer: "The CA's responses are generally out of      *)
(* order."  A token is its type and what it says; a string of digits is a  *)
(* number, a prefix the codes of its characters.                           *)
(***************************************************************************)
EXTENDS Text

Str(s) == [type |-> "JSMN_STRING", says |-> <<"text", s>>]
HexStr(s) == [type |-> "JSMN_STRING", says |-> <<"hex", s>>]
Prim(n) == [type |-> "JSMN_PRIMITIVE", says |-> <<"num", n>>]
Obj == [type |-> "JSMN_OBJECT", says |-> <<"braces">>]
Arr == [type |-> "JSMN_ARRAY", says |-> <<"brackets">>]

Unset == -1   \* what was on the stack

\* params is a union: size is nelems of a list and size of a grid.
NoChallenge == [type |-> "unset", id |-> Unset, left |-> Unset, pfix |-> <<>>,
                lhash |-> "unset", size |-> Unset, nblks |-> Unset]

strtol(v) == IF v[1] = "num" THEN v[2] ELSE 0

Types == {"CHAL_SORT", "CHAL_RSORT", "CHAL_SPATH"}
Name == [CHAL_SORT |-> "sorted_list", CHAL_RSORT |-> "reverse_sorted_list",
         CHAL_SPATH |-> "shortest_path"]

\* The variables of parse_toks; d is what there is of the pair: nothing, a key, both.
State(d, k, v, chal, ret) == [d |-> d, k |-> k, v |-> v, chal |-> chal, ret |-> ret]

\* For a key and its value.
__parse_toks(st) ==
    LET key == st.k[2]
        v == st.v
        c == st.chal
        With(chal) == State(0, st.k, v, chal, 0)
    IN  CASE key = "time_left" -> With([c EXCEPT !.left = strtol(v)])
          [] key \in {"nb_elements", "grid_size"} -> With([c EXCEPT !.size = strtol(v)])
          [] key = "nb_blockers" -> With([c EXCEPT !.nblks = strtol(v)])
          [] key = "challenge_name" ->
                IF \E t \in Types : v = <<"text", Name[t]>>
                THEN With([c EXCEPT !.type = CHOOSE t \in Types : v = <<"text", Name[t]>>])
                ELSE State(2, st.k, v, c, -1)
          [] key = "hash_prefix" -> With([c EXCEPT !.pfix = hex2bin(v[2])])
          [] key = "challenge_id" -> With([c EXCEPT !.id = strtol(v)])
          [] key = "last_solution_hash" -> With([c EXCEPT !.lhash = v[2]])
          [] OTHER -> With(c)   \* "type", and keys it does not know

\* Mutant: the key of an object stays.
TokenObjectKept(st, tok) ==
    CASE tok.type = "JSMN_STRING" /\ st.d = 0 -> State(1, tok.says, st.v, st.chal, 0)
      [] tok.type = "JSMN_STRING" /\ st.d # 0 -> State(2, st.k, tok.says, st.chal, 0)
      [] tok.type = "JSMN_PRIMITIVE" -> State(st.d + 1, st.k, tok.says, st.chal, 0)
      [] tok.type = "JSMN_OBJECT" -> st
      [] OTHER -> State(st.d, st.k, st.v, st.chal, -1)

\* An object is not a value: its members are taken for those of the answer.  The copies
\* into k and v (and lhash) are not bounded: tokens are taken to fit.
Token(st, tok) ==
    CASE tok.type = "JSMN_STRING" /\ st.d = 0 -> State(1, tok.says, st.v, st.chal, 0)
      [] tok.type = "JSMN_STRING" /\ st.d # 0 -> State(2, st.k, tok.says, st.chal, 0)
      [] tok.type = "JSMN_PRIMITIVE" -> State(st.d + 1, st.k, tok.says, st.chal, 0)
      [] tok.type = "JSMN_OBJECT" -> State(0, st.k, st.v, st.chal, 0)
      [] OTHER -> State(st.d, st.k, st.v, st.chal, -1)

MAX_TOKENS == 1 + 7 * 2 + 2 * 2

Start == State(0, <<"text", "">>, <<"text", "">>, NoChallenge, 0)

\* One turn of the loop, unless parse_toks has returned.
Turn(st, tok) == LET new == Token(st, tok)
                 IN  IF st.ret # 0 THEN st
                     ELSE IF new.d = 2 /\ new.ret = 0 THEN __parse_toks(new) ELSE new

\* After k tokens behind the envelope.
parse_toks(toks) ==
    LET After[k \in 0 .. Len(toks) - 1] ==
            IF k = 0 THEN Start ELSE Turn(After[k - 1], toks[k + 1])
    IN  After[Len(toks) - 1]

\* jsmn_parse fails for want of room in toks[].
chal_parse(toks) == IF Len(toks) > MAX_TOKENS THEN [Start EXCEPT !.ret = -1]
                    ELSE parse_toks(toks)
=============================================================================
