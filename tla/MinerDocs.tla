----------------------------- MODULE MinerDocs -----------------------------
(***************************************************************************)
(* What the documentation and the comments of the repository say of the    *)
(* miner and of its connections, and what the code does not do: TLC finds  *)
(* a behaviour of Miner against each of these.                             *)
(***************************************************************************)
EXTENDS Miner

\* "Whenever the connection with the server is severed, an event is sent [...]
\* A new connexion is then made" (mine.c:42-44).  The CLOSED event of a connection
\* that ends before the miner registers for it is lost.
SeveredIsNoticed ==
    pc = "wait" /\ uc[sk].ws \in {"closing", "none"} ~> Leaving

\* "and the mining is resumed" (mine.c:44): the process outlives the drop.  ws_send
\* follows the pointer that the end of the connection has reset.
NoCrash == ~Astray

\* "They send QNOTE_READ when a message is available" (priv.h:167).  The end of the
\* connection takes the message away between the event and the call.
ReadFindsMessage == pc = "recv" => uc[sk].iq # <<>>

\* The same, the other way round: a message does not wait for ever in the incoming
\* queue of a connection that lasts.  Two that arrive before the miner looks make
\* one event, and the miner reads one message for one event.
MessagesAreRead == \A s \in Slots :
    uc[s].id /\ uc[s].iq # <<>> ~> uc[s].iq = <<>> \/ Leaving

\* "Whenever the user writes data to its socket, the thread reads it and forwards
\* it to the remote node" (ws.c:14-16).  Two messages sent before the next callback
\* make one callback, which relays one of them.
SentIsForwarded == \A s \in Slots :
    uc[s].ws = "open" /\ uc[s].oq # <<>> ~> uc[s].oq = <<>> \/ uc[s].ws # "open" \/ Gone

\* "Delaying submission: not connected" (mine.c:275): a solution of the challenge
\* is sent once the miner is connected again.  It is forgotten, and the solutions
\* that follow are late ones.
DelayedIsSent ==
    delayed # NoChal /\ conned ~> sent \/ delayed = NoChal \/ ~conned \/ Leaving

\* "so we don't get penalized" (mine.c:229): one solution for a challenge, unless
\* the CA answered with an error.  An error that is read twice counts twice.
SubmitsOnce == pc = "submit" /\ sent => uc[sk].ws # "open"

\* "release after everything else" (ws.c:341): a slot that is free for the next
\* connection holds no message of the last one.  The outgoing queue is not drained.
FreeSlotIsEmpty == \A s \in Slots : newuconn(s) => uc[s].iq = <<>> /\ uc[s].oq = <<>>

\* "stop events reporting" (mine.c:82): when startchal begins, no challenge before
\* the one it starts can send events any more.  dropchal deletes another one.
DroppedIsSilent ==
    pc = "watch" => \A c \in 1 .. MaxChal : c # chal => ~Registered(SlvKey(c))
=============================================================================
