------------------------------- MODULE Miner -------------------------------
(***************************************************************************)
(* The miner: the event loop of mine.c, its solvers (lib/chals/solver.c)   *)
(* and what they share with the thread of the WebSocket translator         *)
(* (WSock): the event queue and the slots of the connections.              *)
(*                                                                         *)
(* A solver is a pool of one thread: TPool and ThreadCell show that        *)
(* tpool_start and tpool_stop start it and wait for the end of its last    *)
(* attempt.                                                                *)
(***************************************************************************)
EXTENDS WSock

CONSTANT NSolvers   \* MAXSLV

ASSUME MinerAssumption == NSolvers \in Nat \ {0}

Solvers == 1 .. NSolvers
NoChal == 0

VARIABLES pc,      \* the place of the main thread in mine()
          sk, conned,
          buf,     \* b: the last message read
          chal,    \* mchl.chal.id
          solved,  \* mchl.solved
          sst,     \* of each solver: off, idle, busy, last (busy and told to stop)
          sch,     \* the challenge whose parameters a busy solver works on
          found,   \* n: the challenge that the nonce in main's hand solves
          armed,   \* history: the connection was alive when it was registered
          delayed, \* history: the challenge solved while not connected
          sent     \* history: chal's solution was sent, and no error came since

mainvars == <<pc, sk, conned, buf, chal, solved, found, armed, delayed, sent>>
slvvars == <<sst, sch>>
vars == <<uqvars, wsvars, mainvars, slvvars>>

Garbage == <<"garbage">>

Init == /\ UQInit /\ WSInit
        /\ pc = "start"
        /\ sk = NoSlot /\ conned = FALSE
        /\ buf = Garbage
        /\ chal = NoChal /\ solved = FALSE
        /\ sst = [i \in Solvers |-> "off"]
        /\ sch = [i \in Solvers |-> NoChal]
        /\ found = NoChal
        /\ armed = FALSE /\ delayed = NoChal /\ sent = FALSE

SlvKey(c) == <<"SOLVR", c>>
Nonce(c) == <<"nonce", c>>   \* a nonce that solves challenge c

Goto(from, to) == pc = from /\ pc' = to

-----------------------------------------------------------------------------
(* L_RESTART and L_START *)

\* Mutant: the registration of the dropped socket stays.
RestartOnly == /\ Goto("restart", "start")
               /\ ws_close(sk)
               /\ UNCHANGED <<uqvars, slvvars, sk, conned, buf, chal, solved, found, armed, delayed, sent>>

Restart == /\ Goto("restart", "start")
           /\ UQDelete(Key(sk))
           /\ ws_close(sk)
           /\ UNCHANGED <<slvvars, sk, conned, buf, chal, solved, found, armed, delayed, sent>>

\* No slot, or libwebsockets refuses: mine() returns.
Connect == /\ \/ /\ pc' = "add"
                 /\ \E s \in Slots : /\ \A r \in 1 .. s - 1 : ~newuconn(r)
                                     /\ ws_connect(s)
                                     /\ sk' = s
              \/ pc' = "quit" /\ UNCHANGED <<wsvars, sk>>
           /\ pc = "start"
           /\ conned' = FALSE /\ armed' = FALSE
           /\ UNCHANGED <<uqvars, slvvars, buf, chal, solved, found, delayed, sent>>

Monitor == /\ Goto("add", "wait")
           /\ UQAdd(Key(sk))
           /\ armed' = (uc[sk].ws \in {"opening", "open"})
           /\ UNCHANGED <<wsvars, slvvars, sk, conned, buf, chal, solved, found, delayed, sent>>

\* No memory for the registration: mine() returns, and leaves the connection.
MonitorFails == /\ Goto("add", "quit")
                /\ UNCHANGED <<uqvars, wsvars, slvvars, sk, conned, buf, chal, solved, found, armed, delayed, sent>>

\* L_QUIT: uevent fails, or handle_newchal does, for want of memory.
GiveUp(from) == /\ Goto(from, "quit")
                /\ ws_close(sk)
                /\ UNCHANGED <<uqvars, slvvars, sk, conned, buf, chal, solved, found, armed, delayed, sent>>

-----------------------------------------------------------------------------
(* L_WAIT: an event of the connection.  The branch for the event of another *)
(* socket (mine.c:217-220) is never taken: OnlyOwnSocket.                    *)

Event(k, to) == Goto("wait", to) /\ UQPop /\ Head(ready) = k

Dropped == /\ Event(Key(sk), "restart") /\ note[Key(sk)] = Closed
           /\ UNCHANGED <<wsvars, slvvars, sk, conned, buf, chal, solved, found, armed, delayed, sent>>

Connected == /\ Event(Key(sk), "query") /\ note[Key(sk)] = Conn
             /\ conned' = TRUE
             /\ UNCHANGED <<wsvars, slvvars, sk, buf, chal, solved, found, armed, delayed, sent>>

\* ca_curchal.  It only fails on a slot that is not in use.
Query == /\ Goto("query", "wait")
         /\ ws_send(sk, CurChal)
         /\ UNCHANGED <<uqvars, slvvars, sk, conned, buf, chal, solved, found, armed, delayed, sent>>

Readable == /\ Event(Key(sk), "recv") /\ note[Key(sk)] = Read
            /\ UNCHANGED <<wsvars, slvvars, sk, conned, buf, chal, solved, found, armed, delayed, sent>>

\* What strstr looks at after ca_recv: b keeps its bytes when nothing was read.
Text == IF uc[sk].iq = <<>> THEN buf ELSE Head(uc[sk].iq)

Recv == /\ pc = "recv"
        /\ buf' = Text
        /\ \/ /\ Text \in {Error, Accepted, Garbage} \cup {Chal(chal)}
              /\ ws_recv(sk)
              /\ pc' = "wait"
              /\ solved' = IF Text = Error THEN FALSE ELSE solved
              /\ sent' = (sent /\ (Text # Error \/ uc[sk].iq = <<>>))
           \/ /\ Text \in {Chal(c) : c \in 1 .. MaxChal} \ {Chal(chal)}
              /\ uc[sk].iq # <<>>
              /\ ws_recv(sk)
              /\ pc' = "stop"
              /\ UNCHANGED <<solved, sent>>
           \* chal_parse refuses it.
           \/ /\ Text \in {Chal(c) : c \in 1 .. MaxChal}
              /\ uc[sk].iq # <<>>
              /\ uc' = [uc EXCEPT ![sk].iq = Tail(@), ![sk].id = FALSE]
              /\ pc' = "quit"
              /\ UNCHANGED <<link, caId, crash, solved, sent>>
           \* An old challenge, parsed with a length of 0: the struct chal
           \* that handle_newchal compares and starts is not initialised.  Its
           \* type may be none, which ends the process in the solver, its sizes any.
           \/ /\ Text \in {Chal(c) : c \in 1 .. MaxChal}
              /\ uc[sk].iq = <<>>
              /\ Dies("garbage")
              /\ UNCHANGED <<pc, solved, sent>>
        /\ UNCHANGED <<uqvars, slvvars, sk, conned, chal, found, armed, delayed>>

-----------------------------------------------------------------------------
(* handle_newchal: dropchal, the copy, startchal *)

Lowest(S) == CHOOSE i \in S : \A k \in S : i <= k

\* Mutant: solver_stop does not wait for the attempt to end.
LiveUntold == {i \in Solvers : sst[i] \in {"idle", "busy"}}

Live == {i \in Solvers : sst[i] # "off"}

\* solver_stop: the pool's thread ends the attempt it is in.
StopSolver == /\ pc = "stop" /\ Live # {} /\ \A i \in Live : sst[i] # "last"
              /\ sst' = [sst EXCEPT ![Lowest(Live)] = IF @ = "busy" THEN "last" ELSE "off"]
              /\ UNCHANGED <<uqvars, wsvars, mainvars, sch>>

\* The registration that goes is the one of the challenge before.
CopyChal == /\ Live = {}
            /\ Goto("stop", "watch")
            /\ UQDelete(SlvKey(chal - 1))
            /\ chal' = buf[2]
            /\ sent' = FALSE /\ delayed' = NoChal
            /\ UNCHANGED <<wsvars, slvvars, sk, conned, buf, solved, found, armed>>

\* Mutant: the id is off by one, as that of dropchal is.
WatchPrevious == /\ Goto("watch", "launch")
                 /\ UQAdd(SlvKey(chal - 1))
                 /\ UNCHANGED <<wsvars, slvvars, sk, conned, buf, chal, solved, found, armed, delayed, sent>>

Watch == /\ Goto("watch", "launch")
         /\ UQAdd(SlvKey(chal))
         /\ UNCHANGED <<wsvars, slvvars, sk, conned, buf, chal, solved, found, armed, delayed, sent>>

\* solver_start finds a pool and a thread: there is one of each for every solver and
\* one more for ws_dispatch (MiningIsReady in Program).
LaunchSolver == /\ pc = "launch"
                /\ LET i == Lowest(Solvers \ Live)
                   IN  /\ sst' = [sst EXCEPT ![i] = "idle"]
                       /\ pc' = IF Solvers \ Live = {i} THEN "wait" ELSE "launch"
                /\ solved' = FALSE
                /\ UNCHANGED <<uqvars, wsvars, sch, sk, conned, buf, chal, found, armed, delayed, sent>>

-----------------------------------------------------------------------------
(* L_WAIT: an event of a solver *)

SolverEvent(to) == /\ ready # <<>> /\ Head(ready)[1] = "SOLVR"
                   /\ Event(Head(ready), to)
                   /\ UNCHANGED <<wsvars, slvvars, sk, conned, buf, chal, armed, sent>>

\* The backlog of an older challenge, or a late solution.
Late == /\ SolverEvent("wait")
        /\ Head(ready) # SlvKey(chal) \/ solved
        /\ UNCHANGED <<solved, found, delayed>>

\* Mutant: the backlog of older challenges is not told apart.
SolutionOfAny == /\ SolverEvent(IF conned THEN "submit" ELSE "wait")
                 /\ ~solved
                 /\ solved' = TRUE
                 /\ found' = note[Head(ready)][2]
                 /\ delayed' = IF conned THEN delayed ELSE chal

\* Mutant: sent whether connected or not.
SolutionAnyway == /\ SolverEvent("submit")
                  /\ Head(ready) = SlvKey(chal) /\ ~solved
                  /\ solved' = TRUE
                  /\ found' = note[Head(ready)][2]
                  /\ UNCHANGED delayed

Solution == /\ SolverEvent(IF conned THEN "submit" ELSE "wait")
            /\ Head(ready) = SlvKey(chal) /\ ~solved
            /\ solved' = TRUE
            /\ found' = note[Head(ready)][2]
            /\ delayed' = IF conned THEN delayed ELSE chal

\* ca_submit; a failure to sign the nonce is ignored.
Submission == /\ Goto("submit", "wait")
              /\ \/ ws_send(sk, Submit(found)) /\ sent' = TRUE
                 \/ UNCHANGED <<wsvars, sent>>
              /\ UNCHANGED <<uqvars, slvvars, sk, conned, buf, chal, solved, found, armed, delayed>>

-----------------------------------------------------------------------------
(* __solve, once per turn of the pool's thread *)

SolverBegins(i) == /\ sst[i] = "idle"
                   /\ sst' = [sst EXCEPT ![i] = "busy"]
                   /\ sch' = [sch EXCEPT ![i] = chal]
                   /\ UNCHANGED <<uqvars, wsvars, mainvars>>

\* The event carries the id that chal has now.
SolverEnds(i) == /\ sst[i] \in {"busy", "last"}
                 /\ sst' = [sst EXCEPT ![i] = IF @ = "busy" THEN "idle" ELSE "off"]
                 /\ \/ UQTrigger(SlvKey(chal), Nonce(sch[i]))
                    \/ UNCHANGED uqvars
                 /\ UNCHANGED <<sch, wsvars, mainvars>>

-----------------------------------------------------------------------------
Works == \/ Restart \/ Connect \/ Monitor
         \/ Dropped \/ Connected \/ Query \/ Readable \/ Recv
         \/ StopSolver \/ CopyChal \/ Watch \/ LaunchSolver
         \/ Late \/ Solution \/ Submission

Main == Works \/ MonitorFails \/ GiveUp("wait") \/ GiveUp("watch")

Network == WSNext /\ UNCHANGED <<mainvars, slvvars>>

\* The process went where it should never be.
Astray == crash \in {"pointer", "garbage"}

Gone == Crashed \/ pc = "quit"

Next == \/ ~Gone /\ (Main \/ Network \/ \E i \in Solvers : SolverBegins(i) \/ SolverEnds(i))
        \/ Gone /\ UNCHANGED vars

Spec == Init /\ [][Next]_vars

\* Every thread runs, and nothing has to fail; a connection and the CA may stay
\* silent for ever.
FairSpec == /\ Spec
            /\ WF_vars(~Gone /\ Works)
            /\ \A s \in Slots : WF_vars(~Gone /\ Service(s) /\ UNCHANGED <<mainvars, slvvars>>)
            /\ \A i \in Solvers : WF_vars(~Gone /\ SolverEnds(i))

-----------------------------------------------------------------------------
Busy(i) == sst[i] \in {"busy", "last"}

\* mchl.chal is only written while no solver is in an attempt, so that the id
\* the solver reports with is the one of the parameters it used (mine.c:124-144
\* against solver.c:43-60).
NoTornChallenge == \A i \in Solvers : Busy(i) => sch[i] = chal

\* A nonce is sent for the challenge the miner works on, and it was found for
\* that one: what older attempts left in the queue is told apart (mine.c:259-276).
SubmitsCurrent == pc = "submit" => found = chal /\ chal # NoChal

\* A running solver's notifications have a registration to go to, although
\* dropchal deletes that of another challenge than it stops (mine.c:83-104).
SolversAreHeard ==
    \A i \in Solvers : sst[i] # "off" /\ pc \notin {"stop", "watch"} =>
        Registered(SlvKey(chal))

\* The CA has seen a query on a connection before it sees a submission there:
\* the miner is told of new challenges (mine.c:225-231).
QueryFirst ==
    \A s \in Slots : link[s].up # <<>> /\ Head(link[s].up) # CurChal => link[s].asked

\* What a READ event announced is there, as long as the connection lives: events
\* merge with pending ones, but never outnumber the messages (ws.c:248-256,
\* mine.c:240).
ReadIsThere == pc = "recv" /\ uc[sk].ws = "open" => uc[sk].iq # <<>>

\* As long as the miner's connection lives no bad pointer is followed in ws_send
\* (ws.c:460), and no challenge is started that was not initialised (mine.c:126): both
\* begin with the end of the connection.  What else ends the miner (mbuf(), a refused
\* challenge, memory) may do so at any time.
LiveConnIsValid == Astray => uc[sk].ws \in {"closing", "none"}

\* No event of a connection that was given up reaches the miner (mine.c:181-187):
\* it needs no check for one.
OnlyOwnSocket == \A k \in DOMAIN note : k[1] = "WSOCK" => k = Key(sk)

\* The query that the miner queues on an open connection goes out, or the connection
\* ends (ws.c:262-293, 454-460): one callback relays one message and asks for no other,
\* so a message that is not the first may stay behind; the query always is the first.
QueryGoesOut == \A s \in Slots :
    /\ uc[s].ws = "open" /\ uc[s].oq # <<>> /\ Head(uc[s].oq) = CurChal
    ~> uc[s].ws # "open" \/ uc[s].oq = <<>> \/ Head(uc[s].oq) # CurChal \/ Gone

\* A connection that was alive when the miner began to monitor it and then ends
\* makes the miner connect again, or give up (mine.c:40-44, 215-218).
Leaving == pc \in {"restart", "start", "add", "quit"} \/ Crashed
DropIsNoticed ==
    armed /\ uc[sk].ws \in {"closing", "none"} ~> Leaving
=============================================================================
