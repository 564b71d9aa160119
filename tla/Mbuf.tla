-------------------------------- MODULE Mbuf --------------------------------
(***************************************************************************)
(* The message buffers, lib/ws/mbuf.c, and the code of lib/ws/ws.c that    *)
(* takes them: a static array with a cursor, chained into the queues of    *)
(* the connections, and the fragments that the translator puts together.   *)
(*                                                                         *)
(* A call is one step: this is the use of the buffers by threads that do   *)
(* not meet in them.  MbufThreads looks at the ones that do.               *)
(***************************************************************************)
EXTENDS Integers, Sequences, FiniteSets

CONSTANTS Slots, NBufs, MaxLen, Texts, Cmds, Nul   \* as in Mailbox

ASSUME MbufAssumption == /\ NBufs \in Nat \ {0} /\ MaxLen \in Nat \ {0}
                         /\ Texts \subseteq Seq(STRING) \ {<<>>}
                         /\ Cmds \subseteq Seq(STRING) \ {<<>>}
                         /\ Nul \in STRING

Bufs == 0 .. NBufs - 1
Null == NBufs        \* no buffer
Nothing == <<>>

VARIABLES id, ws, coming, up,  \* as in Mailbox
          got,   \* how many bytes of coming have arrived
          mem,   \* mbufs[]: buf (its first len bytes) and next
          cur,   \* i, the place where the search begins
          iq, oq, \* the heads of the queues
          fb      \* the fragments buffer, up to fo

vars == <<id, ws, coming, up, got, mem, cur, iq, oq, fb>>

Init == /\ id = [s \in Slots |-> FALSE] /\ ws = [s \in Slots |-> FALSE]
        /\ coming = [s \in Slots |-> Nothing] /\ got = [s \in Slots |-> 0]
        /\ up = TRUE
        /\ mem = [b \in Bufs |-> [buf |-> <<>>, next |-> 0]]
        /\ cur = 0
        /\ iq = [s \in Slots |-> Null] /\ oq = [s \in Slots |-> Null]
        /\ fb = [s \in Slots |-> <<>>]

-----------------------------------------------------------------------------
(* mbuf(), mbufq() and mbufp() *)

Free == {b \in Bufs : mem[b].buf = <<>>}

\* How far the search goes before it comes to b.
Distance(b) == (b - cur) % NBufs

FirstFree(b) == b \in Free /\ \A f \in Free : Distance(b) <= Distance(f)

\* Mutant: the cursor moves past the buffer, and not around.
CursorPast(b) == cur' = b + 1

Cursor(b) == cur' = b

\* The buffers from h to the one without a next.
Chains == UNION {{c \in [1 .. n -> Bufs] : \A i, j \in 1 .. n : c[i] = c[j] => i = j} :
                    n \in 0 .. NBufs}

IsChain(c, h) == /\ h = IF c = <<>> THEN Null ELSE c[1]
                 /\ \A k \in 1 .. Len(c) :
                       mem[c[k]].next = IF k = Len(c) THEN Null ELSE c[k + 1]

Chain(h) == CHOOSE c \in Chains : IsChain(c, h)

Filled(b, m) == [buf |-> m, next |-> Null]

\* mbuf() makes b of m, mbufq() puts it behind the buffers from h.
Enqueue(b, m, h) ==
    LET c == Chain(h)
    IN  mem' = IF h = Null THEN [mem EXCEPT ![b] = Filled(b, m)]
               ELSE [mem EXCEPT ![b] = Filled(b, m), ![c[Len(c)]].next = b]

\* What mbufq() does to the head of the queue.
HeadWith(h, b) == IF h = Null THEN b ELSE h

Dequeue(h) == mem' = [mem EXCEPT ![h].buf = <<>>]

\* All the buffers from h, one mbufp() after the other.
Drain(h) == LET c == Chain(h)
            IN  mem' = [b \in Bufs |-> IF \E k \in 1 .. Len(c) : c[k] = b
                                       THEN [mem[b] EXCEPT !.buf = <<>>] ELSE mem[b]]

panic == up' = FALSE /\ UNCHANGED <<id, ws, coming, got, mem, cur, iq, oq, fb>>

-----------------------------------------------------------------------------
(* ws.c.  A connection that opens and one that is open are not told apart. *)

\* Mutant: the fragments of the last connection stay.
newuconnKeepsFragments(s) ==
    /\ iq' = [iq EXCEPT ![s] = Null] /\ oq' = [oq EXCEPT ![s] = Null]
    /\ UNCHANGED fb

\* newuconn: the queues and the fragments buffer begin anew.
newuconn(s) == /\ iq' = [iq EXCEPT ![s] = Null] /\ oq' = [oq EXCEPT ![s] = Null]
               /\ fb' = [fb EXCEPT ![s] = <<>>]

ws_connect(s) == /\ up /\ ~id[s] /\ ~ws[s]
                 /\ id' = [id EXCEPT ![s] = TRUE] /\ ws' = [ws EXCEPT ![s] = TRUE]
                 /\ newuconn(s)
                 /\ coming' = [coming EXCEPT ![s] = Nothing]
                 /\ got' = [got EXCEPT ![s] = 0]
                 /\ UNCHANGED <<up, mem, cur>>

ws_close(s) == /\ up /\ id[s]
               /\ id' = [id EXCEPT ![s] = FALSE]
               /\ UNCHANGED <<ws, coming, up, got, mem, cur, iq, oq, fb>>

\* On a slot whose connection is gone it does not return: see WSock.
ws_send(s, c) == /\ up /\ id[s] /\ ws[s]
                 /\ \/ Free = {} /\ panic
                    \/ \E b \in Bufs :
                          /\ FirstFree(b)
                          /\ Cursor(b)
                          /\ Enqueue(b, c, oq[s])
                          /\ oq' = [oq EXCEPT ![s] = HeadWith(@, b)]
                          /\ UNCHANGED <<id, ws, coming, up, got, iq, fb>>

ws_recv(s) == /\ up /\ id[s] /\ iq[s] # Null
              /\ Dequeue(iq[s])
              /\ iq' = [iq EXCEPT ![s] = mem[@].next]
              /\ UNCHANGED <<id, ws, coming, up, got, cur, oq, fb>>

relayca(s) == /\ up /\ ws[s] /\ oq[s] # Null
              /\ Dequeue(oq[s])
              /\ oq' = [oq EXCEPT ![s] = mem[@].next]
              /\ UNCHANGED <<id, ws, coming, up, got, cur, iq, fb>>

\* Mutant: WSI_DESTROY drains nothing.
DestroyedOnly(s) == /\ up /\ ws[s]
                    /\ ws' = [ws EXCEPT ![s] = FALSE]
                    /\ coming' = [coming EXCEPT ![s] = Nothing]
                    /\ got' = [got EXCEPT ![s] = 0]
                    /\ iq' = [iq EXCEPT ![s] = Null]
                    /\ UNCHANGED <<id, up, mem, cur, oq, fb>>

\* The end of a connection and WSI_DESTROY: iq is drained, twice, oq is not.
Destroyed(s) == /\ up /\ ws[s]
                /\ ws' = [ws EXCEPT ![s] = FALSE]
                /\ coming' = [coming EXCEPT ![s] = Nothing]
                /\ got' = [got EXCEPT ![s] = 0]
                /\ Drain(iq[s])
                /\ iq' = [iq EXCEPT ![s] = Null]
                /\ UNCHANGED <<id, up, cur, oq, fb>>

\* The CA begins to send t.
Arrives(s, t) == /\ up /\ ws[s] /\ coming[s] = Nothing
                 /\ coming' = [coming EXCEPT ![s] = t]
                 /\ UNCHANGED <<id, ws, up, got, mem, cur, iq, oq, fb>>

\* The fragments buffer with the next n bytes of the message.
With(s, n) == fb[s] \o SubSeq(coming[s], got[s] + 1, got[s] + n)

\* What lws_remaining_packet_payload says after n more bytes.
Remaining(s, n) == Len(coming[s]) - got[s] - n

\* recvfrag: the message fits, and n bytes of it are not the last ones.
Fragment(s, n) == /\ up /\ ws[s] /\ Remaining(s, n) > 0
                  /\ Len(fb[s]) + n + Remaining(s, n) <= MaxLen
                  /\ fb' = [fb EXCEPT ![s] = With(s, n)]
                  /\ got' = [got EXCEPT ![s] = @ + n]
                  /\ UNCHANGED <<id, ws, coming, up, mem, cur, iq, oq>>

\* recvfrag returns -1: libwebsockets closes the connection.
TooLarge(s) == /\ coming[s] # Nothing
               /\ Len(fb[s]) + Len(coming[s]) - got[s] > MaxLen
               /\ Destroyed(s)

Emptied(s) == fb' = [fb EXCEPT ![s] = <<>>]

\* __recvfrag, with the last n bytes: mbuf() refuses what the Nul makes too long.
LastFragment(s, n) ==
    LET m == Append(With(s, n), Nul)
    IN  /\ up /\ ws[s] /\ coming[s] # Nothing /\ Remaining(s, n) = 0
        /\ Len(fb[s]) + n <= MaxLen
        /\ \/ (Len(m) > MaxLen \/ Free = {}) /\ panic
           \/ \E b \in Bufs :
                 /\ Len(m) <= MaxLen /\ FirstFree(b)
                 /\ Cursor(b)
                 /\ Enqueue(b, m, iq[s])
                 /\ iq' = [iq EXCEPT ![s] = HeadWith(@, b)]
                 /\ Emptied(s)
                 /\ coming' = [coming EXCEPT ![s] = Nothing]
                 /\ got' = [got EXCEPT ![s] = 0]
                 /\ UNCHANGED <<id, ws, up, oq>>

Received(s) == \E n \in 1 .. MaxLen : Fragment(s, n) \/ LastFragment(s, n)

Next == \/ \E s \in Slots :
              \/ ws_connect(s) \/ ws_close(s) \/ ws_recv(s)
              \/ relayca(s) \/ Destroyed(s) \/ TooLarge(s) \/ Received(s)
              \/ \E c \in Cmds : ws_send(s, c)
              \/ \E t \in Texts : Arrives(s, t)
        \/ ~up /\ UNCHANGED vars

Spec == Init /\ [][Next]_vars

-----------------------------------------------------------------------------
TypeOK == /\ mem \in [Bufs -> [buf : Seq(STRING), next : Bufs \cup {Null}]]
          /\ cur \in Bufs
          /\ iq \in [Slots -> Bufs \cup {Null}] /\ oq \in [Slots -> Bufs \cup {Null}]
          /\ \A s \in Slots : got[s] \in 0 .. MaxLen /\ Len(fb[s]) <= MaxLen

Contents(h) == LET c == Chain(h) IN [k \in 1 .. Len(c) |-> mem[c[k]].buf]

\* The buffers are what Mailbox promises: every queue hands out whole messages in
\* their order, nothing of one connection is seen by the next one, and the process
\* ends for want of a buffer exactly when all of them are taken (mbuf.c:23-90,
\* ws.c:82-101, 197-293, 335-341).
Mail == INSTANCE Mailbox WITH in <- [s \in Slots |-> Contents(iq[s])],
                              out <- [s \in Slots |-> Contents(oq[s])],
                              free <- Cardinality(Free)

ImplementsMailbox == Mail!Spec

Queued(b) == \E s \in Slots : \E h \in {iq[s], oq[s]} :
                 LET c == Chain(h) IN \E k \in 1 .. Len(c) : c[k] = b

\* The only buffers that are lost, taken and in no queue, are those of commands: a
\* message of the CA always gives its buffer back, read or not, whatever ends the
\* connection (ws.c:336-341 against 94-95).
OnlyCommandsAreLost == \A b \in Bufs : mem[b].buf # <<>> /\ ~Queued(b) => mem[b].buf \in Cmds
=============================================================================
