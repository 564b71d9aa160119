---------------------------- MODULE RegisterProofs ----------------------------
(***************************************************************************)
(* The program never mines with a wallet that the CA does not know, and    *)
(* the first event of a connection is that it is up or gone, for any       *)
(* number of slots, of failures and of restarts.                           *)
(***************************************************************************)
EXTENDS Register, SequenceTheorems, TLAPS

Verdicts == {WalletId, Already, BadSignature}

\* What the CA may have said so far: the two good answers come from a CA that knows
\* the wallet.
Heard == IF known THEN Verdicts ELSE {BadSignature}

\* A slot and a connection through which only messages of H come down.
UConns(H) == [id : BOOLEAN, ws : WsStates, sendreq : BOOLEAN,
              iq : Seq(H), oq : Seq({RegisterWallet})]
Links(H) == [want : BOOLEAN, up : Seq({RegisterWallet}), down : Seq(H), asked : BOOLEAN]

Channels(H) == uc \in [Slots -> UConns(H)] /\ link \in [Slots -> Links(H)]

\* The answer is what was heard, and what follows from a good one was preceded by it.
IInv == /\ known \in BOOLEAN /\ flag \in BOOLEAN
        /\ Channels(Heard)
        /\ b \in Heard \cup {Garbage}
        /\ rpc \in RPlaces \ {"boot", "try", "mine", "flag", "quit"} => sk \in Slots
        /\ flag \/ rpc \in {"flag", "mine"} => known

LEMMA NoMessages == ASSUME NEW H PROVE <<>> \in Seq(H)
  OBVIOUS

LEMMA ChannelsGrow ==
    ASSUME NEW H, NEW K, H \subseteq K, Channels(H) PROVE Channels(K)
<1>1. Seq(H) \subseteq Seq(K)
  BY SeqMonotonic
<1>2. UConns(H) \subseteq UConns(K) /\ Links(H) \subseteq Links(K)
  BY <1>1 DEF UConns, Links
<1> QED BY <1>2 DEF Channels

-----------------------------------------------------------------------------
(* The calls and the callbacks *)

LEMMA ConnectKeeps ==
    ASSUME NEW H, Channels(H), NEW s \in Slots, ws_connect(s) PROVE Channels(H)'
  BY NoMessages DEF ws_connect, Channels, UConns, Links, WsStates, NoLink

LEMMA CloseKeeps ==
    ASSUME NEW H, Channels(H), NEW s \in Slots, ws_close(s) PROVE Channels(H)'
  BY DEF ws_close, Channels, UConns

LEMMA SendKeeps ==
    ASSUME NEW H, Channels(H), NEW s \in Slots, ws_send(s, RegisterWallet) PROVE Channels(H)'
<1>1. CASE Panic \/ Dies("pointer")
  BY <1>1 DEF Panic, Dies, Channels
<1>2. CASE ~Panic /\ ~Dies("pointer")
  <2> DEFINE w == link[s].want \/ uc[s].ws = "open"
  <2>1. uc[s] \in UConns(H) /\ link[s] \in Links(H)
    BY DEF Channels
  <2>2. Append(uc[s].oq, RegisterWallet) \in Seq({RegisterWallet})
    BY <2>1 DEF UConns
  <2>3. w \in BOOLEAN
    BY <2>1 DEF Links
  <2>4. /\ uc' = [uc EXCEPT ![s].oq = Append(@, RegisterWallet), ![s].sendreq = TRUE]
        /\ link' = [link EXCEPT ![s].want = w]
    BY <1>2, Zenon DEF ws_send
  <2> HIDE DEF w
  <2>5. uc' \in [Slots -> UConns(H)]
    BY <2>1, <2>2, <2>4 DEF Channels, UConns
  <2>6. link' \in [Slots -> Links(H)]
    BY <2>1, <2>3, <2>4 DEF Channels, Links
  <2> QED BY <2>5, <2>6 DEF Channels
<1> QED BY <1>1, <1>2

LEMMA RecvKeeps ==
    ASSUME NEW H, Channels(H), NEW s \in Slots, ws_recv(s) PROVE Channels(H)'
<1>1. uc[s] \in UConns(H)
  BY DEF Channels
<1>2. uc[s].iq # <<>> => Tail(uc[s].iq) \in Seq(H)
  BY <1>1 DEF UConns
<1> QED BY <1>1, <1>2 DEF ws_recv, Channels, UConns

LEMMA CallbackKeeps ==
    ASSUME NEW H, Channels(H), NEW s \in Slots, Service(s) \/ Fails(s) PROVE Channels(H)'
<1>0. uc[s] \in UConns(H) /\ link[s] \in Links(H)
  BY DEF Channels
<1>1. CASE Established(s)
  BY <1>0, <1>1 DEF Established, Channels, UConns, Links, WsStates
<1>2. CASE Destroyed(s)
  BY <1>0, <1>2, NoMessages DEF Destroyed, Channels, UConns, WsStates
<1>3. CASE Writeable(s)
  <2>1. uc[s].oq # <<>> => /\ Tail(uc[s].oq) \in Seq({RegisterWallet})
                          /\ Append(link[s].up, Head(uc[s].oq)) \in Seq({RegisterWallet})
    BY <1>0 DEF UConns, Links
  <2> QED BY <1>0, <1>3, <2>1 DEF Writeable, Channels, UConns, Links
<1>4. CASE Receive(s)
  <2>1. /\ Tail(link[s].down) \in Seq(H)
        /\ Append(uc[s].iq, Head(link[s].down)) \in Seq(H)
    BY <1>0, <1>4 DEF Receive, UConns, Links
  <2>2. CASE Panic
    BY <2>2 DEF Panic, Dies, Channels
  <2>3. CASE ~Panic
    <3>1. /\ uc' = [uc EXCEPT ![s].iq = Append(@, Head(link[s].down))]
          /\ link' = [link EXCEPT ![s].down = Tail(@)]
      BY <1>4, <2>3 DEF Receive
    <3> QED BY <1>0, <2>1, <3>1 DEF Channels, UConns, Links
  <2> QED BY <2>2, <2>3
<1>5. ASSUME NEW st, Ended(s, st) PROVE Channels(H)'
  BY <1>0, <1>5, NoMessages DEF Ended, Channels, UConns, Links, WsStates, NoLink
<1> QED BY <1>1, <1>2, <1>3, <1>4, <1>5 DEF Service, Fails

\* What the CA answers is heard by then.
LEMMA AnswerIsHeard ==
    ASSUME IInv, NEW s \in Slots, Registers(s)
    PROVE  Channels(Heard)' /\ Heard \subseteq Heard' /\ known' \in BOOLEAN /\ (known => known')
<1>1. PICK m \in Replies(Head(link[s].up)) :
         link' = [link EXCEPT ![s].up = Tail(@), ![s].down = Append(@, m),
                              ![s].asked = @ \/ Head(link[s].up) = CurChal]
  BY DEF Registers, CAAnswers
<1>2. uc[s] \in UConns(Heard) /\ link[s] \in Links(Heard)
  BY DEF IInv, Channels
<1>3. link[s].up # <<>> /\ Head(link[s].up) = RegisterWallet
  BY <1>2 DEF Registers, CAAnswers, Links
<1>4. m \in Verdicts
  BY <1>1, <1>3 DEF Replies, CurChal, RegisterWallet, Verdicts
<1>5. link'[s].down = Append(link[s].down, m)
  BY <1>1, <1>2 DEF IInv, Channels, Links
<1>6. Last(link'[s].down) = m
  <2>1. link[s].down \in Seq(Heard \cup {m}) /\ m \in Heard \cup {m}
    BY <1>2, SeqMonotonic DEF Links
  <2> QED BY <1>5, <2>1, AppendProperties DEF Last
<1>7. known' = (known \/ m \in {WalletId, Already})
  BY <1>6 DEF Registers
<1>8. Heard \subseteq Heard' /\ m \in Heard' /\ known' \in BOOLEAN
  BY <1>4, <1>7 DEF IInv, Heard, Verdicts
<1>9. PICK H : H = Heard'
  OBVIOUS
<1>10. Channels(H)
  BY <1>8, <1>9, ChannelsGrow DEF IInv
<1>11. link[s] \in Links(H)
  BY <1>10 DEF Channels
<1>12. /\ Append(link[s].down, m) \in Seq(H)
       /\ Tail(link[s].up) \in Seq({RegisterWallet})
  BY <1>3, <1>8, <1>9, <1>11 DEF Links
<1>13. link' \in [Slots -> Links(H)] /\ uc' \in [Slots -> UConns(H)]
  BY <1>1, <1>10, <1>11, <1>12 DEF Registers, CAAnswers, Channels, Links
<1> QED BY <1>7, <1>8, <1>9, <1>13 DEF Channels

-----------------------------------------------------------------------------
(* The invariant *)

LEMMA InitIInv == Init => IInv
<1> SUFFICES ASSUME Init PROVE IInv
  OBVIOUS
<1>1. Channels(Heard)
  BY NoMessages DEF Init, WSInit, Channels, UConns, Links, WsStates, NoLink
<1> QED BY <1>1 DEF Init, IInv, RPlaces, Garbage

LEMMA MainIInv == ASSUME IInv, Main PROVE IInv'
<1> USE DEF IInv
<1>0. known' = known /\ Heard' = Heard
  BY DEF Main, Heard
<1>1. b \in {WalletId, Already} => known
  <2>1. Garbage[1] = "garbage" /\ BadSignature[1] = "invalid signature"
    BY DEF Garbage, BadSignature
  <2>2. WalletId[1] = "wallet_id" /\ Already[1] = "already registered"
    BY DEF WalletId, Already
  <2> QED BY <2>1, <2>2 DEF Heard
<1>2. CASE Boot
  BY <1>0, <1>2 DEF Boot, Goto, uqvars, wsvars, Channels, RPlaces
<1>3. CASE MakeFlag
  BY <1>0, <1>3 DEF MakeFlag, Goto, uqvars, wsvars, Channels, RPlaces
<1>4. CASE Connect
  BY <1>0, <1>4, ConnectKeeps DEF Connect, Goto, wsvars, Channels, RPlaces
<1>5. CASE Monitor
  BY <1>0, <1>5 DEF Monitor, Goto, wsvars, Channels, RPlaces
<1>14. CASE EventFails
  BY <1>0, <1>14 DEF EventFails, Goto, wsvars, Channels, RPlaces
<1>6. CASE Answered1
  BY <1>0, <1>6 DEF Answered1, Event, Goto, wsvars, Channels, RPlaces
<1>7. CASE Expired1
  BY <1>0, <1>7 DEF Expired1, Goto, wsvars, Channels, RPlaces
<1>8. CASE Send
  <2>1. sk \in Slots
    BY <1>8 DEF Send, Goto, RPlaces
  <2>2. Channels(Heard)'
    <3>1. PICK h : h = Heard
      OBVIOUS
    <3>2. Channels(h)'
      BY <1>8, <2>1, <3>1, SendKeeps DEF Send, wsvars, Channels
    <3> QED BY <1>0, <3>1, <3>2
  <2> QED BY <1>0, <1>8, <2>2 DEF Send, Goto, RPlaces
<1>9. CASE Answered2
  BY <1>0, <1>9 DEF Answered2, Event, Goto, wsvars, Channels, RPlaces
<1>10. CASE Expired2
  BY <1>0, <1>10 DEF Expired2, Goto, wsvars, Channels, RPlaces
<1>11. CASE Recv
  <2>1. sk \in Slots /\ uc[sk] \in UConns(Heard)
    BY <1>11 DEF Recv, Goto, RPlaces, Channels
  <2>2. uc[sk].iq # <<>> => Head(uc[sk].iq) \in Heard
    BY <2>1 DEF UConns
  <2> QED BY <1>0, <1>11, <2>1, <2>2, RecvKeeps DEF Recv, Text, Goto, RPlaces
<1>12. CASE Leave
  BY <1>0, <1>1, <1>12, CloseKeeps DEF Leave, Goto, RPlaces
<1>13. CASE Retry
  BY <1>0, <1>13, CloseKeeps DEF Retry, Goto, RPlaces
<1> QED BY <1>2, <1>3, <1>4, <1>5, <1>6, <1>7, <1>8, <1>9, <1>10, <1>11, <1>12, <1>13,
           <1>14 DEF Main

LEMMA NextIInv == IInv /\ [Next]_vars => IInv'
<1> SUFFICES ASSUME IInv, [Next]_vars PROVE IInv'
  OBVIOUS
<1>1. CASE Main
  BY <1>1, MainIInv
<1>2. CASE Restarts
  <2>1. Heard' = Heard
    BY <1>2 DEF Restarts, Heard
  <2>2. Channels(Heard)'
    BY <1>2, NoMessages DEF Restarts, Channels, UConns, Links, WsStates, NoLink
  <2> QED BY <1>2, <2>1, <2>2 DEF Restarts, IInv, RPlaces
<1>3. ASSUME NEW s \in Slots, Serves(s) \/ Breaks(s) PROVE IInv'
  <2>1. Heard' = Heard /\ UNCHANGED <<mainvars, known>>
    BY <1>3 DEF Serves, Breaks, Heard
  <2>2. PICK h : h = Heard
    OBVIOUS
  <2>3. Channels(h)'
    BY <1>3, <2>2, CallbackKeeps DEF Serves, Breaks, IInv
  <2>4. Channels(Heard)'
    BY <2>1, <2>2, <2>3 DEF Channels
  <2> QED BY <2>1, <2>4 DEF mainvars, IInv
<1>4. ASSUME NEW s \in Slots, Registers(s) PROVE IInv'
  BY <1>4, AnswerIsHeard DEF Registers, mainvars, IInv
<1>5. CASE UNCHANGED vars
  BY <1>5 DEF vars, uqvars, wsvars, mainvars, IInv, Channels, Heard
<1> QED BY <1>1, <1>2, <1>3, <1>4, <1>5 DEF Next

\* Whatever the network, the CA and the death of the process do, a program that mines
\* has a wallet that the CA knows.
THEOREM MinesOnlyRegistered == Spec => []MinesRegistered
<1>1. IInv => MinesRegistered
  BY DEF IInv, MinesRegistered
<1> QED BY <1>1, InitIInv, NextIInv, PTL DEF Spec

-----------------------------------------------------------------------------
(* What the event queue holds *)

Listening == {"wait1", "send", "wait2", "recv", "retry"}

\* At most the program's own connection is registered, and nothing else is ready; on its
\* way out the program looks no more.
Nobody == DOMAIN note = {} /\ ready = <<>>
One == /\ DOMAIN note = {Key(sk)}
       /\ ready = IF note[Key(sk)] = NoNote THEN <<>> ELSE <<Key(sk)>>

\* Nobody has written to the connection yet, so that nobody answers.
Fresh(s) == uc[s].oq = <<>> /\ link[s].up = <<>> /\ link[s].down = <<>>

QueueInv == /\ rpc \in Listening => One
            /\ rpc \notin Listening \cup {"leave"} => Nobody
            /\ rpc \in {"add", "wait1"} => Fresh(sk)
            /\ rpc = "wait1" => note[Key(sk)] \in {NoNote, Conn, Closed}

LEMMA KeyInjective == \A s, r : Key(s) = Key(r) => s = r
  BY DEF Key

LEMMA TriggerKeeps ==
    ASSUME NEW s, NEW v, v # NoNote, UQTrigger(Key(s), v) \/ UNCHANGED uqvars, sk' = sk
    PROVE  /\ Nobody => Nobody'
           /\ One => One' /\ note'[Key(sk)] \in {note[Key(sk)], v}
<1>1. CASE UNCHANGED uqvars
  BY <1>1 DEF uqvars, Nobody, One
<1>2. CASE UQTrigger(Key(s), v)
  <2>1. Nobody => Nobody'
    BY <1>2 DEF UQTrigger, Registered, uqvars, Nobody
  <2>2. ASSUME One, s # sk PROVE One' /\ note' = note
    BY <1>2, <2>2, KeyInjective DEF UQTrigger, Registered, uqvars, One
  <2>3. ASSUME One, s = sk PROVE One' /\ note'[Key(sk)] = v
    <3>1. /\ note' = [note EXCEPT ![Key(sk)] = v]
          /\ ready' = IF note[Key(sk)] = NoNote THEN Append(ready, Key(sk)) ELSE ready
      BY <1>2, <2>3 DEF UQTrigger, Registered, One
    <3>2. DOMAIN note' = {Key(sk)} /\ note'[Key(sk)] = v
      BY <2>3, <3>1 DEF One
    <3>3. ready' = <<Key(sk)>>
      BY <2>3, <3>1 DEF One
    <3> QED BY <2>3, <3>2, <3>3 DEF One, Key
  <2> QED BY <2>1, <2>2, <2>3
<1> QED BY <1>1, <1>2

LEMMA PopKeeps == ASSUME One, UQPop, sk' = sk PROVE One' /\ note'[Key(sk)] = NoNote
<1>1. ready = <<Key(sk)>> /\ Head(ready) = Key(sk) /\ Tail(ready) = <<>>
  BY DEF One, UQPop
<1>2. DOMAIN note' = {Key(sk)} /\ note'[Key(sk)] = NoNote /\ ready' = <<>>
  BY <1>1 DEF One, UQPop
<1> QED BY <1>2 DEF One, Key

LEMMA DeleteKeeps == ASSUME One, UQDelete(Key(sk)) PROVE Nobody'
<1>1. DOMAIN note' = {}
  BY DEF UQDelete, One
<1>2. CASE ready = <<>>
  BY <1>1, <1>2 DEF UQDelete, Nobody
<1>3. CASE ready = <<Key(sk)>>
  <2>1. PICK j \in DOMAIN ready : ready' = RemoveAt(ready, j)
    BY <1>3 DEF UQDelete
  <2>2. j = 1 /\ Len(ready) = 1
    BY <1>3
  <2>3. ready' = SubSeq(ready, 1, 0) \o SubSeq(ready, 2, 1)
    BY <2>1, <2>2 DEF RemoveAt
  <2>4. SubSeq(ready, 1, 0) = <<>> /\ SubSeq(ready, 2, 1) = <<>>
    BY <1>3
  <2>5. ready' = <<>>
    BY <2>3, <2>4
  <2> QED BY <1>1, <2>5 DEF Nobody
<1> QED BY <1>2, <1>3 DEF One

LEMMA MainQueue == ASSUME IInv, QueueInv, Main PROVE QueueInv'
<1> USE DEF Goto, uqvars, wsvars
<1>0. rpc \in RPlaces \ {"boot", "try", "mine", "flag", "quit"} =>
          sk \in Slots /\ uc[sk] \in UConns(Heard) /\ link[sk] \in Links(Heard)
  BY DEF IInv, Channels
<1>1. CASE Boot \/ MakeFlag
  BY <1>1 DEF Boot, MakeFlag, QueueInv, Listening, Nobody
<1>2. CASE Connect
  <2>1. CASE rpc' = "quit"
    BY <1>2, <2>1 DEF Connect, QueueInv, Listening, Nobody
  <2>2. ASSUME NEW s \in Slots, ws_connect(s), sk' = s, Goto("try", "add") PROVE QueueInv'
    <3>1. Fresh(s)'
      BY <2>2 DEF ws_connect, IInv, Channels, Fresh, NoLink
    <3> QED BY <1>2, <2>2, <3>1 DEF Connect, QueueInv, Listening, Nobody, Fresh
  <2> QED BY <1>2, <2>1, <2>2 DEF Connect
<1>3. CASE Monitor
  <2>1. DOMAIN note = {} /\ ready = <<>> /\ Fresh(sk)
    BY <1>3 DEF Monitor, QueueInv, Listening, Nobody
  <2>2. DOMAIN note' = {Key(sk)} /\ note'[Key(sk)] = NoNote /\ ready' = <<>>
    BY <1>3, <2>1 DEF Monitor, UQAdd, Registered
  <2> QED BY <1>3, <2>1, <2>2 DEF Monitor, QueueInv, Listening, One, Fresh, Key
<1>4. CASE Answered1 \/ Answered2
  <2>1. /\ UQPop /\ rpc \in {"wait1", "wait2"} /\ rpc' \in {"retry", "send", "recv"}
        /\ UNCHANGED <<uc, link, sk>>
    BY <1>4 DEF Answered1, Answered2, Event
  <2>2. One
    BY <2>1 DEF QueueInv, Listening
  <2> QED BY <2>1, <2>2, PopKeeps DEF QueueInv, Listening
<1>5. CASE Expired1 \/ Expired2
  BY <1>5 DEF Expired1, Expired2, QueueInv, Listening, One, Key
<1>9. CASE EventFails
  BY <1>9 DEF EventFails, QueueInv, Listening
<1>6. CASE Send \/ Recv
  BY <1>6 DEF Send, Recv, QueueInv, Listening, One, Key
<1>7. CASE Leave
  BY <1>7 DEF Leave, UQClose, QueueInv, Listening, Nobody
<1>8. CASE Retry
  BY <1>8, DeleteKeeps DEF Retry, QueueInv, Listening
<1> QED BY <1>1, <1>2, <1>3, <1>4, <1>5, <1>6, <1>7, <1>8, <1>9 DEF Main

\* What the network does to a slot nobody has written to.
LEMMA FreshStays ==
    ASSUME IInv, NEW s \in Slots, Serves(s) \/ Breaks(s) \/ Registers(s),
           NEW r \in Slots, Fresh(r)
    PROVE  /\ Fresh(r)'
           /\ Receive(s) => r # s
<1>0. /\ uc[s] \in UConns(Heard) /\ link[s] \in Links(Heard)
      /\ uc \in [Slots -> UConns(Heard)] /\ link \in [Slots -> Links(Heard)]
  BY DEF IInv, Channels
<1>1. CASE Established(s) \/ Destroyed(s)
  BY <1>0, <1>1 DEF Established, Destroyed, Receive, Fresh, UConns, Links
<1>2. CASE Writeable(s)
  <2>1. CASE r = s
    BY <1>0, <1>2, <2>1 DEF Writeable, Receive, Fresh, UConns, Links
  <2>2. CASE r # s
    BY <1>0, <1>2, <2>2 DEF Writeable, Receive, Fresh
  <2> QED BY <2>1, <2>2
<1>3. CASE Receive(s)
  BY <1>0, <1>3 DEF Receive, Panic, Dies, Fresh
<1>4. ASSUME NEW st, Ended(s, st) PROVE Fresh(r)' /\ ~(Receive(s) /\ r = s)
  BY <1>0, <1>4 DEF Ended, Receive, Fresh, UConns, NoLink
<1>5. CASE Registers(s)
  <2>1. r # s /\ UNCHANGED uc
    BY <1>5 DEF Registers, CAAnswers, Fresh
  <2>2. link'[r] = link[r]
    BY <1>0, <1>5, <2>1 DEF Registers, CAAnswers
  <2> QED BY <2>1, <2>2 DEF Fresh
<1> QED BY <1>1, <1>2, <1>3, <1>4, <1>5 DEF Serves, Breaks, Service, Fails

LEMMA NetworkQueue ==
    ASSUME IInv, QueueInv, NEW s \in Slots, Serves(s) \/ Breaks(s) \/ Registers(s)
    PROVE  QueueInv'
<1>1. UNCHANGED mainvars
  BY DEF Serves, Breaks, Registers
<1>0. Conn # Read /\ Closed # Read
  <2>1. Conn[1] = "conn" /\ Read[1] = "read" /\ Closed[1] = "closed"
    BY DEF Conn, Read, Closed
  <2> QED BY <2>1
<1>2. PICK v \in {Conn, Read, Closed} : /\ UQTrigger(Key(s), v) \/ UNCHANGED uqvars
                                        /\ v = Read => Receive(s)
  <2>1. CASE Established(s)
    BY <1>0, <2>1 DEF Established, Report
  <2>2. CASE Receive(s)
    BY <2>2 DEF Receive, Report
  <2>3. CASE Fails(s)
    BY <1>0, <2>3 DEF Fails, Ended, Report
  <2>4. CASE Destroyed(s) \/ Writeable(s) \/ Registers(s)
    BY <1>0, <2>4 DEF Destroyed, Writeable, Registers, CAAnswers
  <2> QED BY <2>1, <2>2, <2>3, <2>4 DEF Serves, Breaks, Service
<1>3. v # NoNote
  BY DEF Conn, Read, Closed, NoNote
<1>4. rpc \in {"add", "wait1"} => sk \in Slots
  BY DEF IInv, RPlaces
<1>5. rpc \in {"add", "wait1"} => Fresh(sk)' /\ ~(Receive(s) /\ s = sk)
  BY <1>1, <1>4, FreshStays DEF QueueInv, mainvars
<1>6. ASSUME rpc = "wait1" PROVE note'[Key(sk)] \in {NoNote, Conn, Closed}
  <2>1. One /\ note[Key(sk)] \in {NoNote, Conn, Closed}
    BY <1>6 DEF QueueInv, Listening
  <2>2. CASE v # Read
    BY <1>1, <1>2, <1>3, <2>1, <2>2, TriggerKeeps DEF mainvars
  <2>3. CASE v = Read
    <3>1. s # sk
      BY <1>2, <1>5, <1>6, <2>3
    <3>2. note' = note
      BY <1>2, <2>1, <3>1, KeyInjective DEF UQTrigger, Registered, uqvars, One
    <3> QED BY <2>1, <3>2
  <2> QED BY <2>2, <2>3
<1>7. (One => One') /\ (Nobody => Nobody')
  BY <1>1, <1>2, <1>3, TriggerKeeps DEF mainvars
<1> QED BY <1>1, <1>5, <1>6, <1>7 DEF QueueInv, mainvars

\* What the program first hears of a connection is that it is up or that it is gone:
\* no answer, and nothing of a connection it has given up (register.c:60-76).
THEOREM FirstEventIsConn == Spec => []ConnComesFirst
<1>1. Init => QueueInv
  BY DEF Init, UQInit, QueueInv, Listening, Nobody
<1>2. IInv /\ QueueInv /\ [Next]_vars => QueueInv'
  <2> SUFFICES ASSUME IInv, QueueInv, [Next]_vars PROVE QueueInv'
    OBVIOUS
  <2>1. CASE Restarts
    BY <2>1 DEF Restarts, UQClose, QueueInv, Listening, Nobody
  <2>2. CASE UNCHANGED vars
    BY <2>2 DEF vars, uqvars, wsvars, mainvars, QueueInv, One, Nobody, Fresh, Key
  <2> QED BY <2>1, <2>2, MainQueue, NetworkQueue DEF Next
<1>3. QueueInv => ConnComesFirst
  BY DEF QueueInv, Listening, One, ConnComesFirst
<1> QED BY <1>1, <1>2, <1>3, InitIInv, NextIInv, PTL DEF Spec
=============================================================================
