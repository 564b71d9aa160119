------------------------------ MODULE Register ------------------------------
(***************************************************************************)
(* The registration of the wallet: register_wallet of register.c over the  *)
(* WebSocket translator (WSock), and init_wallet of main.c, which runs it  *)
(* unless an earlier run of the program left its flag file.  The process   *)
(* may die at any time; the file and the CA stay.                          *)
(***************************************************************************)
EXTENDS WSock, SequencesExt

CONSTANT MaxFails   \* bound: connections that fail

ASSUME RegisterAssumption == MaxFails \in Nat

VARIABLES rpc,    \* the place of the main thread
          sk,
          b,      \* the answer, Garbage before one was read
          timed,  \* ts was set, to 10 seconds
          flag,   \* the file .registered
          known,  \* the CA knows the wallet
          fails   \* connections that failed

mainvars == <<rpc, sk, b, timed, flag>>
vars == <<uqvars, wsvars, mainvars, known, fails>>

Garbage == <<"garbage">>

RPlaces == {"boot", "try", "add", "wait1", "send", "wait2", "recv", "retry",
            "leave", "flag", "mine", "quit"}

Init == /\ UQInit /\ WSInit
        /\ rpc = "boot"
        /\ sk = NoSlot
        /\ b = Garbage /\ timed = FALSE
        /\ flag = FALSE /\ known = FALSE
        /\ fails = 0

Goto(from, to) == rpc = from /\ rpc' = to

\* sk as the code numbers it.
Ident(s) == s - 1

-----------------------------------------------------------------------------
(* init_wallet *)

\* Mutant: the file is made before the wallet is registered.
BootMakesFlag == /\ Goto("boot", IF flag THEN "mine" ELSE "try")
                 /\ flag' = TRUE
                 /\ UNCHANGED <<uqvars, wsvars, sk, b, timed>>

\* The wallet is loaded, and register_wallet gets an event queue, or not.
Boot == /\ Goto("boot", IF flag THEN "mine" ELSE "try") \/ Goto("boot", "quit")
        /\ UNCHANGED <<uqvars, wsvars, sk, b, timed, flag>>

\* register_wallet leaves with 0.  The file may fail to be made, and nobody looks.
MakeFlag == /\ Goto("flag", "mine")
            /\ flag' \in {TRUE, flag}
            /\ UNCHANGED <<uqvars, wsvars, sk, b, timed>>

-----------------------------------------------------------------------------
(* register_wallet *)

Connect == /\ \/ /\ Goto("try", "add")
                 /\ \E s \in Slots : /\ \A r \in 1 .. s - 1 : ~newuconn(r)
                                     /\ ws_connect(s)
                                     /\ sk' = s
              \/ Goto("try", "quit") /\ UNCHANGED <<wsvars, sk>>
           /\ UNCHANGED <<uqvars, b, timed, flag>>

Monitor == /\ Goto("add", "wait1")
           /\ UQAdd(Key(sk))
           /\ UNCHANGED <<wsvars, sk, b, timed, flag>>

\* uevent fails, to register or to wait: L_QUIT with r = -1.
EventFails == /\ \E from \in {"add", "wait1", "wait2"} : Goto(from, "leave")
              /\ UNCHANGED <<uqvars, wsvars, sk, b, timed, flag>>

Event(from, to) == ready # <<>> /\ Goto(from, to) /\ UQPop

\* L_WAIT1: not closed is taken for connected.
Answered1 == /\ Event("wait1", IF note[Head(ready)] = Closed THEN "retry" ELSE "send")
             /\ UNCHANGED <<wsvars, sk, b, timed, flag>>

\* Until the first request ts is what was on the stack: any time, for ever, or not
\* a time at all.  After that it is the timeout of the answer.
Expired1 == /\ Goto("wait1", "leave")
            /\ UNCHANGED <<uqvars, wsvars, sk, b, timed, flag>>

\* ca_register, which may fail before it sends: the key is not written down, nothing is
\* signed, or the command does not fit.
Send == /\ \/ /\ Goto("send", "wait2")
              /\ ws_send(sk, RegisterWallet)
              /\ timed' = TRUE
           \/ Goto("send", "retry") /\ UNCHANGED <<wsvars, timed>>
        /\ UNCHANGED <<uqvars, sk, b, flag>>

\* L_WAIT2: a drop is told by the ident of the event, not by its flags.
SaysClosed(s) == Ident(s) % 2 = 1

Answered2 == /\ Event("wait2", IF SaysClosed(sk) THEN "retry" ELSE "recv")
             /\ UNCHANGED <<wsvars, sk, b, timed, flag>>

Expired2 == /\ Goto("wait2", "retry")
            /\ UNCHANGED <<uqvars, wsvars, sk, b, timed, flag>>

\* What strstr looks at after ca_recv: b keeps its bytes when nothing was read.
Text == IF uc[sk].iq = <<>> THEN b ELSE Head(uc[sk].iq)

Recv == /\ Goto("recv", "leave")
        /\ b' = Text
        /\ ws_recv(sk)
        /\ UNCHANGED <<uqvars, sk, timed, flag>>

\* L_QUIT, with r = 0 if the answer says that the CA has the wallet.
Leave == /\ Goto("leave", IF b \in {WalletId, Already} THEN "flag" ELSE "quit")
         /\ ws_close(sk) /\ UQClose
         /\ UNCHANGED <<sk, b, timed, flag>>

\* Mutant: the registration of the dropped socket stays.
RetryOnly == /\ Goto("retry", "try")
             /\ ws_close(sk)
             /\ UNCHANGED <<uqvars, sk, b, timed, flag>>

Retry == /\ Goto("retry", "try")
         /\ UQDelete(Key(sk))
         /\ ws_close(sk)
         /\ UNCHANGED <<sk, b, timed, flag>>

-----------------------------------------------------------------------------
\* The process ends, by itself or not, and is started again.
Restarts == /\ UQClose
            /\ uc' = [s \in Slots |-> [id |-> FALSE, ws |-> "none", sendreq |-> FALSE,
                                       iq |-> <<>>, oq |-> <<>>]]
            /\ link' = [s \in Slots |-> NoLink]
            /\ crash' = "not"
            /\ rpc' = "boot" /\ sk' = NoSlot /\ b' = Garbage /\ timed' = FALSE
            /\ UNCHANGED <<caId, flag, known, fails>>

Main == /\ ~Crashed
        /\ \/ Boot \/ MakeFlag \/ Connect \/ Monitor \/ EventFails \/ Answered1 \/ Expired1
           \/ Send \/ Answered2 \/ Expired2 \/ Recv \/ Leave \/ Retry
        /\ UNCHANGED <<known, fails>>

Serves(s) == ~Crashed /\ Service(s) /\ UNCHANGED <<mainvars, known, fails>>

Breaks(s) == /\ ~Crashed /\ fails < MaxFails
             /\ Fails(s)
             /\ fails' = fails + 1
             /\ UNCHANGED <<mainvars, known>>

Registers(s) == /\ CAAnswers(s)
                /\ known' = (known \/ Last(link'[s].down) \in {WalletId, Already})
                /\ UNCHANGED <<mainvars, fails>>

Next == \/ Main \/ Restarts
        \/ \E s \in Slots : Serves(s) \/ Breaks(s) \/ Registers(s)

Spec == Init /\ [][Next]_vars

\* The threads run, and a timeout that was set expires.
Unset == rpc = "wait1" /\ rpc' = "leave" /\ ~timed

FairSpec == Spec /\ WF_vars(Main /\ ~Unset) /\ \A s \in Slots : WF_vars(Serves(s))

-----------------------------------------------------------------------------
\* "There is no point in mining if we cannot submit" (register.c:9): whatever
\* died when, and whatever the flag file says, a miner's wallet is known to the CA
\* (main.c:29-47, register.c:94-130).
MinesRegistered == rpc = "mine" => known

\* L_WAIT1 is right to take what is not CLOSED for CONN, and its own (register.c:66-76):
\* neither an answer nor an event of a connection given up comes there.
ConnComesFirst ==
    rpc = "wait1" /\ ready # <<>> =>
        /\ Head(ready) = Key(sk)
        /\ note[Key(sk)] \in {Conn, Closed}

\* Once a request was sent, the retries come to an end when connections no longer
\* fail, also those that follow a request that cannot be made or that time out: each
\* leaves a slot in use, and there are so many (register.c:43-56, 86-89, ws.c:82-101).
Settles == rpc = "try" /\ timed ~> rpc \in {"mine", "quit", "boot"} \/ Crashed

\* "if the connection fais or drops, we retry" (register.c:8): after the request,
\* the program only gives up on an answer.  register.c:100 looks for the drop in
\* the wrong field.
GivesUpOnAnswer == [][rpc = "recv" /\ rpc' = "leave" => uc[sk].iq # <<>>]_vars
=============================================================================
