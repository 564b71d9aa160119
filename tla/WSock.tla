------------------------------- MODULE WSock -------------------------------
(***************************************************************************)
(* The WebSocket translator, lib/ws/ws.c: the calls of its user, and the   *)
(* callbacks that its thread makes from libwebsockets.  libwebsockets, the *)
(* network and the Central Authority (CA) are what the code sees of them.  *)
(*                                                                         *)
(* Each call and each callback is one step: they touch a slot's queues     *)
(* under the module's lock, or would have to.  The memory of the messages  *)
(* is not looked at here: mbuf() finds a buffer, or ends the process.      *)
(***************************************************************************)
EXTENDS UQueue, Integers, FiniteSets

CONSTANTS NSlots,   \* MAXUCONNS
          MaxChal,  \* bound: challenges the CA goes through
          MaxDown   \* bound: messages of the CA in flight on a connection

ASSUME WSockAssumption == NSlots \in Nat \ {0} /\ MaxChal \in Nat /\ MaxDown \in Nat

Slots == 1 .. NSlots
NoSlot == 0

VARIABLES uc,    \* uconns[]: id (is it valid), ws, sendreq, iq, oq
          link,  \* of libwebsockets and the network, for each connection: want
                 \* (a WRITEABLE callback is due), up and down (messages on
                 \* their way), asked (the CA has seen a CURCHAL)
          caId,  \* the CA's current challenge
          crash  \* what the process died of, if it did: not, panic (mbuf() found no
                 \* buffer that fits), pointer (a bad one was followed), garbage (a
                 \* challenge that was not initialised is started)

wsvars == <<uc, link, caId, crash>>

\* ws: no connection, connecting, established, closed but not yet destroyed; gone
\* is a pointer that was stored after its connection had been destroyed.
WsStates == {"none", "opening", "open", "closing", "gone"}

NoLink == [want |-> FALSE, up |-> <<>>, down |-> <<>>, asked |-> FALSE]

WSInit == /\ uc = [s \in Slots |-> [id |-> FALSE, ws |-> "none", sendreq |-> FALSE,
                                    iq |-> <<>>, oq |-> <<>>]]
          /\ link = [s \in Slots |-> NoLink]
          /\ caId = 1
          /\ crash = "not"

Crashed == crash # "not"

Key(s) == <<"WSOCK", s>>
Conn == <<"conn">>
Read == <<"read">>
Closed == <<"closed">>
CurChal == <<"curchal">>
Submit(c) == <<"submit", c>>   \* a nonce for challenge c
Chal(c) == <<"chal", c>>
Error == <<"error">>
Accepted == <<"submission">>
RegisterWallet == <<"register_wallet">>
WalletId == <<"wallet_id">>
Already == <<"already registered">>
BadSignature == <<"invalid signature">>

-----------------------------------------------------------------------------
(* The user's calls *)

\* Mutant: the connection that a slot may still have is not looked at.
newuconnById(s) == ~uc[s].id

newuconn(s) == uc[s].ws = "none" /\ ~uc[s].id

\* The thread of the callbacks may be done with the connection before the user
\* stores it in ws; its events find no registration yet.
ws_connect(s) ==
    /\ newuconn(s)
    /\ \E st \in {"opening", "gone"} :
          uc' = [uc EXCEPT ![s] = [id |-> TRUE, ws |-> st, sendreq |-> FALSE,
                                   iq |-> <<>>, oq |-> <<>>]]
    /\ link' = [link EXCEPT ![s] = NoLink]
    /\ UNCHANGED <<caId, crash>>

\* The connection itself goes on.
ws_close(s) == /\ uc' = [uc EXCEPT ![s].id = FALSE]
               /\ UNCHANGED <<link, caId, crash>>

Dies(cause) == crash' = cause /\ UNCHANGED <<uc, link, caId>>

\* mbuf(): the message is too long, or no buffer is free.
Panic == Dies("panic")

\* Mutant: the callback is left to the handler.
ws_sendQuiet(s, m) ==
    \/ Panic
    \/ uc[s].ws \in {"none", "gone"} /\ Dies("pointer")
    \/ /\ uc[s].ws \notin {"none", "gone"}
       /\ uc' = [uc EXCEPT ![s].oq = Append(@, m), ![s].sendreq = TRUE]
       /\ UNCHANGED <<link, caId, crash>>

\* lws_callback_on_writable takes effect on an established connection only, and
\* follows the pointer that WSI_DESTROY resets, or that came too late for it.
ws_send(s, m) ==
    \/ Panic
    \/ uc[s].ws \in {"none", "gone"} /\ Dies("pointer")
    \/ /\ uc[s].ws \notin {"none", "gone"}
       /\ uc' = [uc EXCEPT ![s].oq = Append(@, m), ![s].sendreq = TRUE]
       /\ link' = [link EXCEPT ![s].want = @ \/ uc[s].ws = "open"]
       /\ UNCHANGED <<caId, crash>>

\* Mutant: everything that is there is read at once.
ws_recvAll(s) == /\ uc' = [uc EXCEPT ![s].iq = <<>>]
                 /\ UNCHANGED <<link, caId, crash>>

\* One message, none (the user's buffer keeps what was in it).
ws_recv(s) == /\ uc' = IF uc[s].iq = <<>> THEN uc
                       ELSE [uc EXCEPT ![s].iq = Tail(@)]
              /\ UNCHANGED <<link, caId, crash>>

-----------------------------------------------------------------------------
(* lws_handler.  One thread makes the callbacks: nothing comes between the *)
(* end of a connection and its destruction.                                *)

Callback(s, st) == uc[s].ws = st /\ \A r \in Slots \ {s} : uc[r].ws # "closing"

\* An event on a slot that was given back has ident -1: nobody registers it.
Report(s, flag) == IF uc[s].id THEN UQTrigger(Key(s), flag) ELSE UNCHANGED uqvars

Established(s) == /\ Callback(s, "opening")
                  /\ uc' = [uc EXCEPT ![s].ws = "open", ![s].sendreq = FALSE]
                  /\ link' = [link EXCEPT ![s].want = uc[s].sendreq]
                  /\ Report(s, Conn)
                  /\ UNCHANGED <<caId, crash>>

\* Mutant: only a failed connection is reported.
EndedQuietly(s, st) == /\ Callback(s, st)
                       /\ uc' = [uc EXCEPT ![s].ws = "closing"]
                       /\ link' = [link EXCEPT ![s] = NoLink]
                       /\ IF st = "opening" THEN Report(s, Closed) ELSE UNCHANGED uqvars
                       /\ UNCHANGED <<caId, crash>>

\* CLIENT_CONNECTION_ERROR and CLOSED
Ended(s, st) == /\ Callback(s, st)
                /\ uc' = [uc EXCEPT ![s].ws = "closing"]
                /\ link' = [link EXCEPT ![s] = NoLink]
                /\ Report(s, Closed)
                /\ UNCHANGED <<caId, crash>>

\* WSI_DESTROY drains the incoming queue, twice.
Destroyed(s) == /\ uc[s].ws = "closing"
                /\ uc' = [uc EXCEPT ![s].ws = "none", ![s].iq = <<>>]
                /\ UNCHANGED <<link, caId, crash, uqvars>>

\* relayca: one message for one callback.
Writeable(s) ==
    /\ Callback(s, "open") /\ link[s].want
    /\ uc' = [uc EXCEPT ![s].oq = IF @ = <<>> THEN @ ELSE Tail(@)]
    /\ link' = [link EXCEPT ![s].want = FALSE,
                            ![s].up = IF uc[s].oq = <<>> THEN @
                                      ELSE Append(@, Head(uc[s].oq))]
    /\ UNCHANGED <<caId, crash, uqvars>>

\* recvfrag, with the last fragment of a message.
Receive(s) == /\ Callback(s, "open") /\ link[s].down # <<>>
              /\ \/ Panic /\ UNCHANGED uqvars
                 \/ /\ uc' = [uc EXCEPT ![s].iq = Append(@, Head(link[s].down))]
                    /\ link' = [link EXCEPT ![s].down = Tail(@)]
                    /\ Report(s, Read)
                    /\ UNCHANGED <<caId, crash>>

-----------------------------------------------------------------------------
(* The CA: answers a query with its challenge, a submission and a           *)
(* registration with a verdict, and tells those who asked once of every new *)
(* challenge.                                                               *)

Replies(m) == IF m = CurChal THEN {Chal(caId)}
              ELSE IF m = RegisterWallet THEN {WalletId, Already, BadSignature}
              ELSE {Error, Accepted}

CAAnswers(s) ==
    /\ link[s].up # <<>> /\ Len(link[s].down) < MaxDown
    /\ \E m \in Replies(Head(link[s].up)) :
          link' = [link EXCEPT ![s].up = Tail(@), ![s].down = Append(@, m),
                               ![s].asked = @ \/ Head(link[s].up) = CurChal]
    /\ UNCHANGED <<uc, caId, crash, uqvars>>

CANewChallenge ==
    /\ caId < MaxChal
    /\ \A s \in Slots : Len(link[s].down) < MaxDown
    /\ caId' = caId + 1
    /\ link' = [s \in Slots |-> IF link[s].asked
                                THEN [link[s] EXCEPT !.down = Append(@, Chal(caId + 1))]
                                ELSE link[s]]
    /\ UNCHANGED <<uc, crash, uqvars>>

-----------------------------------------------------------------------------
\* What the thread of ws_dispatch does when the network lets it.
Service(s) == Established(s) \/ Destroyed(s) \/ Writeable(s) \/ Receive(s)

\* What may happen to a connection at any time.
Fails(s) == Ended(s, "opening") \/ Ended(s, "open")

WSNext == \/ \E s \in Slots : Service(s) \/ Fails(s) \/ CAAnswers(s)
          \/ CANewChallenge
=============================================================================
