----------------------------- MODULE MbufThreads -----------------------------
(***************************************************************************)
(* The message buffers under both threads that use them, access by access: *)
(* the user's thread sends a command or reads a message while the thread   *)
(* of the callbacks stores a message, relays a command or drains the queue *)
(* of a dead connection.  mbuf() takes no lock; mbufq() is called with the *)
(* lock of ws.c; of the calls of mbufp() only ws_recv's is.                *)
(***************************************************************************)
EXTENDS Integers, Sequences

CONSTANT NBufs   \* MAXMBUFS, a positive number

Bufs == 0 .. NBufs - 1
Null == NBufs
Threads == {"main", "service"}
Empty == "empty"

\* What a thread stores, where it stores it, and which queue it takes from.
Msg == [main |-> "command", service |-> "message"]
Into == [main |-> "oq", service |-> "iq"]

VARIABLES buf, len, next,  \* of each of mbufs[]; len is 0 or 1
          cur,             \* i
          head,            \* iq and oq of the connection
          lock,            \* the owner of ws.c's lock, or "none"
          pc, from,        \* the place of a thread, and l
          el, p            \* the buffer it got, and the one its walk is at

memory == <<buf, len, next, cur, head>>
vars == <<memory, lock, pc, from, el, p>>

Init == /\ buf = [b \in Bufs |-> Empty] /\ len = [b \in Bufs |-> 0]
        /\ next = [b \in Bufs |-> Null]
        /\ cur = 0
        /\ head = [q \in {"iq", "oq"} |-> Null]
        /\ lock = "none"
        /\ pc = [t \in Threads |-> "idle"] /\ from = [t \in Threads |-> 0]
        /\ el = [t \in Threads |-> Null] /\ p = [t \in Threads |-> Null]

Goto(t, a, b) == pc[t] = a /\ pc' = [pc EXCEPT ![t] = b]

\* mbuf(): l = i, and the loop over i, which both threads move.
Call(t) == /\ Goto(t, "idle", "scan")
           /\ from' = [from EXCEPT ![t] = cur]
           /\ UNCHANGED <<memory, lock, el, p>>

Found(t) == /\ Goto(t, "scan", "copy")
            /\ len[cur] = 0
            /\ UNCHANGED <<memory, lock, from, el, p>>

Further(t) == /\ len[cur] # 0
              /\ cur' = (cur + 1) % NBufs
              /\ Goto(t, "scan", IF cur' = from[t] THEN "panic" ELSE "scan")
              /\ UNCHANGED <<buf, len, next, head, lock, from, el, p>>

\* The rest of mbuf(), which looks at i again for every access.
Copy(t) == /\ Goto(t, "copy", "mark")
           /\ buf' = [buf EXCEPT ![cur] = Msg[t]]
           /\ UNCHANGED <<len, next, cur, head, lock, from, el, p>>

Mark(t) == /\ Goto(t, "mark", "return")
           /\ len' = [len EXCEPT ![cur] = 1]
           /\ UNCHANGED <<buf, next, cur, head, lock, from, el, p>>

Return(t) == /\ Goto(t, "return", "lock")
             /\ next' = [next EXCEPT ![cur] = Null]
             /\ el' = [el EXCEPT ![t] = cur]
             /\ UNCHANGED <<buf, len, cur, head, lock, from, p>>

\* mutex_lock, and mbufq() up to the end of the queue.
Lock(t) == /\ Goto(t, "lock", IF head[Into[t]] = Null THEN "link" ELSE "walk")
           /\ lock = "none" /\ lock' = t
           /\ p' = [p EXCEPT ![t] = head[Into[t]]]
           /\ UNCHANGED <<memory, from, el>>

Walk(t) == /\ Goto(t, "walk", IF next[p[t]] = Null THEN "link" ELSE "walk")
           /\ p' = [p EXCEPT ![t] = IF next[@] = Null THEN @ ELSE next[@]]
           /\ UNCHANGED <<memory, lock, from, el>>

Link(t) == /\ Goto(t, "link", "idle")
           /\ IF p[t] = Null THEN /\ head' = [head EXCEPT ![Into[t]] = el[t]]
                                  /\ UNCHANGED next
                             ELSE /\ next' = [next EXCEPT ![p[t]] = el[t]]
                                  /\ UNCHANGED head
           /\ lock' = "none"
           /\ UNCHANGED <<buf, len, cur, from, el, p>>

\* mbufp() by ws_recv, with the lock, and by relayca and WSI_DESTROY, without.
Pop(t, q) == /\ IF t = "main" THEN q = "iq" /\ lock = "none" /\ lock' = t
                              ELSE UNCHANGED lock
             /\ head[q] # Null
             /\ Goto(t, "idle", "advance_" \o q)
             /\ len' = [len EXCEPT ![head[q]] = 0]
             /\ UNCHANGED <<buf, next, cur, head, from, el, p>>

Advance(t, q) == /\ Goto(t, "advance_" \o q, "idle")
                 /\ head' = [head EXCEPT ![q] = IF @ = Null THEN @ ELSE next[@]]
                 /\ lock' = IF t = "main" THEN "none" ELSE lock
                 /\ UNCHANGED <<buf, len, next, cur, from, el, p>>

Next == /\ \A t \in Threads : pc[t] # "panic"
        /\ \E t \in Threads :
              \/ Call(t) \/ Found(t) \/ Further(t) \/ Copy(t) \/ Mark(t) \/ Return(t)
              \/ Lock(t) \/ Walk(t) \/ Link(t)
              \/ \E q \in {"iq", "oq"} : Pop(t, q) \/ Advance(t, q)

Spec == Init /\ [][Next]_vars

\* "Create an mbuf holding a copy of the @cnt first bytes of @buf" (ws/priv.h:28-29):
\* what mbuf() returned to a thread still holds its message when it is queued.  Two
\* threads that find the same free buffer both get it.
HoldsACopy == \A t \in Threads : pc[t] = "lock" => buf[el[t]] = Msg[t]
=============================================================================
