------------------------------ MODULE Mailbox ------------------------------
(***************************************************************************)
(* What the WebSocket translator promises about messages: two queues of    *)
(* whole messages for each connection, over a number of places that all    *)
(* connections share.  ws/priv.h: "mbuf's are used to guarantee that we    *)
(* never send two or more commands in one go to the CA.  They are entirely *)
(* hidden from the application code."                                      *)
(***************************************************************************)
EXTENDS Integers, Sequences

CONSTANTS Slots,   \* uconns[]
          NBufs,   \* MAXMBUFS
          MaxLen,  \* MAXMSGLEN
          Texts,   \* what the CA sends, as sequences of bytes
          Cmds,    \* what the user sends
          Nul      \* ends every message that the user gets

VARIABLES id,      \* the user's handle is valid
          ws,      \* there is a connection
          coming,  \* the message that the CA is sending, or nothing
          in, out, \* the messages that wait for the user and for the CA
          free,    \* the number of places left
          up       \* the process is alive

mvars == <<id, ws, coming, in, out, free, up>>

Nothing == <<>>

Init == /\ id = [s \in Slots |-> FALSE] /\ ws = [s \in Slots |-> FALSE]
        /\ coming = [s \in Slots |-> Nothing]
        /\ in = [s \in Slots |-> <<>>] /\ out = [s \in Slots |-> <<>>]
        /\ free = NBufs
        /\ up = TRUE

\* What the last connection of the slot did not send keeps its places.
Connect(s) == /\ up /\ ~id[s] /\ ~ws[s]
              /\ id' = [id EXCEPT ![s] = TRUE] /\ ws' = [ws EXCEPT ![s] = TRUE]
              /\ coming' = [coming EXCEPT ![s] = Nothing]
              /\ in' = [in EXCEPT ![s] = <<>>] /\ out' = [out EXCEPT ![s] = <<>>]
              /\ UNCHANGED <<free, up>>

Close(s) == /\ up /\ id[s]
            /\ id' = [id EXCEPT ![s] = FALSE]
            /\ UNCHANGED <<ws, coming, in, out, free, up>>

\* What the user has not read is dropped.
End(s) == /\ up /\ ws[s]
          /\ ws' = [ws EXCEPT ![s] = FALSE]
          /\ coming' = [coming EXCEPT ![s] = Nothing]
          /\ in' = [in EXCEPT ![s] = <<>>]
          /\ free' = free + Len(in[s])
          /\ UNCHANGED <<id, out, up>>

\* No place is left: the process ends.
Panic == up' = FALSE /\ UNCHANGED <<id, ws, coming, in, out, free>>

Send(s, c) == /\ up /\ id[s] /\ ws[s]
              /\ \/ free = 0 /\ Panic
                 \/ /\ free > 0
                    /\ out' = [out EXCEPT ![s] = Append(@, c)]
                    /\ free' = free - 1
                    /\ UNCHANGED <<id, ws, coming, in, up>>

Recv(s) == /\ up /\ id[s] /\ in[s] # <<>>
           /\ in' = [in EXCEPT ![s] = Tail(@)]
           /\ free' = free + 1
           /\ UNCHANGED <<id, ws, coming, out, up>>

\* One command in one go.
Relay(s) == /\ up /\ ws[s] /\ out[s] # <<>>
            /\ out' = [out EXCEPT ![s] = Tail(@)]
            /\ free' = free + 1
            /\ UNCHANGED <<id, ws, coming, in, up>>

Begin(s, t) == /\ up /\ ws[s] /\ coming[s] = Nothing
               /\ coming' = [coming EXCEPT ![s] = t]
               /\ UNCHANGED <<id, ws, in, out, free, up>>

\* A message whose Nul finds no room ends the process, a longer one ends the
\* connection (End); any other one arrives whole.
Deliver(s) ==
    /\ up /\ ws[s] /\ coming[s] # Nothing /\ Len(coming[s]) <= MaxLen
    /\ \/ (Len(coming[s]) = MaxLen \/ free = 0) /\ Panic
       \/ /\ Len(coming[s]) < MaxLen /\ free > 0
          /\ in' = [in EXCEPT ![s] = Append(@, Append(coming[s], Nul))]
          /\ coming' = [coming EXCEPT ![s] = Nothing]
          /\ free' = free - 1
          /\ UNCHANGED <<id, ws, out, up>>

Next == \E s \in Slots :
            \/ Connect(s) \/ Close(s) \/ End(s)
            \/ \E c \in Cmds : Send(s, c)
            \/ Recv(s) \/ Relay(s)
            \/ \E t \in Texts : Begin(s, t)
            \/ Deliver(s)

Spec == Init /\ [][Next]_mvars
=============================================================================
