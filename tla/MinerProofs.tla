----------------------------- MODULE MinerProofs -----------------------------
(***************************************************************************)
(* For any number of slots, of challenges and of solvers: what the miner   *)
(* shares with its solvers, what it is told through the event queue, and   *)
(* what it sends.                                                          *)
(***************************************************************************)
EXTENDS Miner, SequenceTheorems, TLAPS

(* The event queue *)

\* What is ready is registered, pending, and there once.
UQInv == /\ note = [k \in DOMAIN note |-> note[k]]
         /\ ready \in Seq(DOMAIN note)
         /\ \A i, j \in DOMAIN ready : ready[i] = ready[j] => i = j
         /\ \A i \in DOMAIN ready : note[ready[i]] # NoNote

LEMMA UQAddKeeps ==
    ASSUME UQInv, NEW k, UQAdd(k)
    PROVE  /\ UQInv'
           /\ DOMAIN note' = DOMAIN note \cup {k}
           /\ \A x \in DOMAIN note : note'[x] = note[x]
           /\ k \notin DOMAIN note => note'[k] = NoNote
<1>1. /\ DOMAIN note' = DOMAIN note \cup {k}
      /\ \A x \in DOMAIN note : note'[x] = note[x]
      /\ k \notin DOMAIN note => note'[k] = NoNote
      /\ note' = [x \in DOMAIN note' |-> note'[x]]
  BY DEF UQAdd, Registered, UQInv
<1>2. ready' = ready /\ ready \in Seq(DOMAIN note')
  BY <1>1, SeqMonotonic DEF UQAdd, UQInv
<1>3. \A i \in DOMAIN ready : ready[i] \in DOMAIN note
  BY DEF UQInv
<1> QED BY <1>1, <1>2, <1>3 DEF UQInv

LEMMA UQDeleteKeeps ==
    ASSUME UQInv, NEW k, UQDelete(k)
    PROVE  /\ UQInv'
           /\ DOMAIN note' = DOMAIN note \ {k}
           /\ \A x \in DOMAIN note' : note'[x] = note[x]
<1>1. /\ DOMAIN note' = DOMAIN note \ {k}
      /\ \A x \in DOMAIN note' : note'[x] = note[x]
      /\ note' = [x \in DOMAIN note' |-> note'[x]]
  BY DEF UQDelete
<1>2. CASE \A j \in DOMAIN ready : ready[j] # k
  <2>1. ready' = ready
    BY <1>2 DEF UQDelete
  <2>2. Len(ready) \in Nat /\ \A i \in 1 .. Len(ready) : ready[i] \in DOMAIN note'
    BY <1>1, <1>2 DEF UQInv
  <2>3. ready \in Seq(DOMAIN note')
    BY <2>2, IsASeq DEF UQInv
  <2> QED BY <1>1, <2>1, <2>2, <2>3 DEF UQInv
<1>3. CASE \E j \in DOMAIN ready : ready[j] = k
  <2>1. PICK j \in DOMAIN ready : ready[j] = k /\ ready' = RemoveAt(ready, j)
    BY <1>3 DEF UQDelete
  <2> DEFINE l == SubSeq(ready, 1, j - 1)
             r == SubSeq(ready, j + 1, Len(ready))
  <2>2. /\ Len(ready) \in Nat /\ DOMAIN ready = 1 .. Len(ready) /\ j \in 1 .. Len(ready)
        /\ \A i \in 1 .. Len(ready) : ready[i] \in DOMAIN note
    BY <2>1 DEF UQInv
  <2>3. \A i \in 1 .. Len(ready) : i # j => ready[i] \in DOMAIN note'
    BY <1>1, <2>1, <2>2 DEF UQInv
  <2>4. /\ l \in Seq(DOMAIN note') /\ Len(l) = j - 1
        /\ \A i \in 1 .. j - 1 : l[i] = ready[i]
    BY <2>2, <2>3, SubSeqProperties
  <2>5. /\ r \in Seq(DOMAIN note') /\ Len(r) = Len(ready) - j
        /\ \A i \in 1 .. Len(ready) - j : r[i] = ready[i + j]
    BY <2>2, <2>3, SubSeqProperties
  <2>6. ready' = l \o r
    BY <2>1 DEF RemoveAt
  <2> HIDE DEF l, r
  <2>7. /\ ready' \in Seq(DOMAIN note') /\ Len(ready') = Len(ready) - 1
        /\ \A i \in 1 .. Len(ready) - 1 : ready'[i] = ready[IF i < j THEN i ELSE i + 1]
    <3> DEFINE b == l \o r
    <3>1. /\ b \in Seq(DOMAIN note') /\ Len(b) = Len(l) + Len(r)
          /\ \A i \in 1 .. Len(l) + Len(r) :
                b[i] = IF i <= Len(l) THEN l[i] ELSE r[i - Len(l)]
      BY <2>4, <2>5, ConcatProperties
    <3> HIDE DEF b
    <3>2. Len(b) = Len(ready) - 1
      BY <2>2, <2>4, <2>5, <3>1
    <3>3. ASSUME NEW i \in 1 .. Len(ready) - 1
          PROVE  b[i] = ready[IF i < j THEN i ELSE i + 1]
      <4>1. CASE i < j
        BY <2>2, <2>4, <2>5, <3>1, <4>1
      <4>2. CASE ~(i < j)
        <5>1. b[i] = r[i - (j - 1)] /\ i - (j - 1) \in 1 .. Len(ready) - j
          BY <2>2, <2>4, <2>5, <3>1, <4>2
        <5>2. r[i - (j - 1)] = ready[i - (j - 1) + j]
          BY <2>5, <5>1
        <5> QED BY <2>2, <4>2, <5>1, <5>2
      <4> QED BY <4>1, <4>2
    <3> QED BY <2>6, <3>1, <3>2, <3>3 DEF b
  <2>8. DOMAIN ready' = 1 .. Len(ready) - 1
    BY <2>2, <2>7
  <2>9. \A i \in DOMAIN ready' : LET s == IF i < j THEN i ELSE i + 1
                                 IN  s \in DOMAIN ready /\ s # j /\ ready'[i] = ready[s]
    BY <2>2, <2>7, <2>8
  <2>10. \A i, m \in DOMAIN ready' : ready'[i] = ready'[m] => i = m
    BY <2>2, <2>8, <2>9 DEF UQInv
  <2>11. \A i \in DOMAIN ready' : note'[ready'[i]] # NoNote
    BY <1>1, <2>2, <2>3, <2>9 DEF UQInv
  <2> QED BY <1>1, <2>7, <2>10, <2>11 DEF UQInv
<1> QED BY <1>1, <1>2, <1>3

LEMMA UQPopKeeps ==
    ASSUME UQInv, UQPop
    PROVE  /\ UQInv'
           /\ Head(ready) \in DOMAIN note /\ note[Head(ready)] # NoNote
           /\ DOMAIN note' = DOMAIN note
           /\ \A x \in DOMAIN note : note'[x] = IF x = Head(ready) THEN NoNote ELSE note[x]
<1>1. /\ ready \in Seq(DOMAIN note) /\ ready # <<>> /\ ready' = Tail(ready)
      /\ 1 \in DOMAIN ready /\ Head(ready) = ready[1]
  BY DEF UQInv, UQPop
<1>2. Head(ready) \in DOMAIN note /\ note[Head(ready)] # NoNote
  BY <1>1 DEF UQInv
<1>3. /\ DOMAIN note' = DOMAIN note
      /\ \A x \in DOMAIN note : note'[x] = IF x = Head(ready) THEN NoNote ELSE note[x]
      /\ note' = [x \in DOMAIN note' |-> note'[x]]
  BY <1>2 DEF UQInv, UQPop
<1>4. /\ ready' \in Seq(DOMAIN note') /\ DOMAIN ready' = 1 .. Len(ready) - 1
      /\ Len(ready) \in Nat /\ DOMAIN ready = 1 .. Len(ready)
      /\ \A i \in 1 .. Len(ready) - 1 : ready'[i] = ready[i + 1]
  BY <1>1, <1>3, HeadTailProperties
<1>5. \A i, j \in DOMAIN ready' : ready'[i] = ready'[j] => i = j
  BY <1>4 DEF UQInv
<1>6. \A i \in DOMAIN ready' : note'[ready'[i]] # NoNote
  BY <1>1, <1>3, <1>4 DEF UQInv
<1> QED BY <1>2, <1>3, <1>4, <1>5, <1>6 DEF UQInv

LEMMA UQTriggerKeeps ==
    ASSUME UQInv, NEW k, NEW v, v # NoNote, UQTrigger(k, v)
    PROVE  /\ UQInv'
           /\ DOMAIN note' = DOMAIN note
           /\ \A x \in DOMAIN note : note'[x] = IF x = k THEN v ELSE note[x]
<1>1. CASE k \notin DOMAIN note
  BY <1>1 DEF UQTrigger, Registered, uqvars, UQInv
<1>2. CASE k \in DOMAIN note
  <2>1. /\ DOMAIN note' = DOMAIN note
        /\ \A x \in DOMAIN note : note'[x] = IF x = k THEN v ELSE note[x]
        /\ note' = [x \in DOMAIN note' |-> note'[x]]
    BY <1>2 DEF UQTrigger, Registered, UQInv
  <2>2. CASE note[k] # NoNote
    BY <1>2, <2>1, <2>2 DEF UQTrigger, Registered, UQInv
  <2>3. CASE note[k] = NoNote
    <3>1. ready' = Append(ready, k)
      BY <1>2, <2>3 DEF UQTrigger, Registered
    <3>2. /\ ready' \in Seq(DOMAIN note') /\ Len(ready') = Len(ready) + 1
          /\ Len(ready) \in Nat
          /\ \A i \in 1 .. Len(ready) : ready'[i] = ready[i] /\ ready[i] # k
          /\ ready'[Len(ready) + 1] = k
      BY <1>2, <2>1, <2>3, <3>1, AppendProperties DEF UQInv
    <3>3. DOMAIN ready' = 1 .. Len(ready) + 1 /\ DOMAIN ready = 1 .. Len(ready)
      BY <3>2 DEF UQInv
    <3>4. \A i, j \in DOMAIN ready' : ready'[i] = ready'[j] => i = j
      BY <3>2, <3>3 DEF UQInv
    <3>5. \A i \in DOMAIN ready' : note'[ready'[i]] # NoNote
      BY <1>2, <2>1, <3>2, <3>3 DEF UQInv
    <3> QED BY <2>1, <3>2, <3>4, <3>5 DEF UQInv
  <2> QED BY <2>2, <2>3
<1> QED BY <1>1, <1>2

-----------------------------------------------------------------------------
(* What the miner shares with its solvers *)

\* The registrations: that of the miner's own connection, and those of challenges,
\* each with a nonce that was found for it.
QueueInv ==
    /\ UQInv
    /\ \A k \in DOMAIN note :
          \/ k = Key(sk) /\ pc \notin {"start", "add"}
          \/ \E c \in 1 .. MaxChal : k = SlvKey(c) /\ note[k] \in {NoNote, Nonce(c)}

ReadNewChal == pc = "stop" => \E c \in 1 .. MaxChal : buf = Chal(c)

AllOff == \A i \in Solvers : sst[i] = "off"

SolverInv ==
    /\ sst \in [Solvers -> {"off", "idle", "busy", "last"}] /\ sch \in [Solvers -> Nat]
    /\ chal \in Nat
    /\ pc \in {"watch", "launch"} => chal \in 1 .. MaxChal
    /\ chal = NoChal => AllOff
    /\ NoTornChallenge
    /\ pc = "watch" => AllOff
    /\ pc \notin {"stop", "watch"} /\ chal # NoChal =>
          Registered(SlvKey(chal)) \/ (pc = "quit" /\ AllOff)

MinerInv == QueueInv /\ ReadNewChal /\ SolverInv /\ SubmitsCurrent

USE MinerAssumption, WSockAssumption

LEMMA KeysDiffer == \A s, c : Key(s) # SlvKey(c)
<1> SUFFICES ASSUME NEW s, NEW c, Key(s) = SlvKey(c) PROVE FALSE
  OBVIOUS
<1>1. Key(s)[1] = "WSOCK" /\ SlvKey(c)[1] = "SOLVR"
  BY DEF Key, SlvKey
<1> QED BY <1>1

LEMMA SlvKeyInjective == \A c, d : SlvKey(c) = SlvKey(d) => c = d
BY DEF SlvKey

LEMMA MinerInit == Init => MinerInv
<1> SUFFICES ASSUME Init PROVE MinerInv
  OBVIOUS
<1>1. /\ note = <<>> /\ ready = <<>> /\ DOMAIN note = {} /\ DOMAIN ready = {}
  BY DEF Init, UQInit
<1>2. ready \in Seq(DOMAIN note)
  BY <1>1
<1>3. UQInv /\ QueueInv
  BY <1>1, <1>2 DEF UQInv, QueueInv
<1>4. SolverInv /\ ReadNewChal /\ SubmitsCurrent
  BY DEF Init, SolverInv, AllOff, NoTornChallenge, Busy, ReadNewChal, SubmitsCurrent, NoChal
<1> QED BY <1>3, <1>4 DEF MinerInv

\* The steps that leave the solvers alone.
LEMMA MainKeepsSolvers ==
    ASSUME MinerInv, QueueInv', UNCHANGED <<slvvars, chal>>,
           SubmitsCurrent', ReadNewChal',
           pc' \in {"watch", "launch"} => pc \in {"watch", "launch"},
           pc' \notin {"stop", "watch"} => pc \notin {"stop", "watch"} \/ Registered(SlvKey(chal))',
           pc = "quit" => pc' = "quit",
           pc' = "watch" => pc = "watch",
           \A c : SlvKey(c) \in DOMAIN note => SlvKey(c) \in DOMAIN note'
    PROVE  MinerInv'
BY DEF MinerInv, SolverInv, AllOff, NoTornChallenge, Busy, slvvars, Registered

\* What the connections report goes to the registration of the miner's own.
LEMMA ReportKeeps ==
    ASSUME QueueInv, NEW s, NEW v, v # NoNote, UQTrigger(Key(s), v) \/ UNCHANGED uqvars,
           UNCHANGED <<pc, sk>>
    PROVE  /\ QueueInv'
           /\ DOMAIN note' = DOMAIN note
           /\ \A x \in DOMAIN note : (x = Key(s) /\ note'[x] = v) \/ note'[x] = note[x]
<1>1. CASE UNCHANGED uqvars /\ ~UQTrigger(Key(s), v)
  BY <1>1 DEF QueueInv, UQInv, uqvars
<1>2. CASE UQTrigger(Key(s), v)
  <2>1. /\ UQInv' /\ DOMAIN note' = DOMAIN note
        /\ \A x \in DOMAIN note : note'[x] = IF x = Key(s) THEN v ELSE note[x]
    BY <1>2, UQTriggerKeeps DEF QueueInv
  <2>2. ASSUME NEW k \in DOMAIN note'
        PROVE  \/ k = Key(sk) /\ pc \notin {"start", "add"}
               \/ \E c \in 1 .. MaxChal : k = SlvKey(c) /\ note'[k] \in {NoNote, Nonce(c)}
    BY <2>1, <2>2, KeysDiffer DEF QueueInv
  <2> QED BY <1>2, <2>1, <2>2 DEF QueueInv
<1> QED BY <1>1, <1>2

LEMMA NetworkKeeps == ASSUME MinerInv, Network PROVE MinerInv'
<1>1. PICK s \in Slots, v \in {Conn, Read, Closed} : UQTrigger(Key(s), v) \/ UNCHANGED uqvars
  <2>1. CASE \E s \in Slots : Established(s)
    BY <2>1 DEF Established, Report
  <2>2. CASE \E s \in Slots : Receive(s)
    BY <2>2 DEF Receive, Report
  <2>3. CASE \E s \in Slots : Fails(s)
    BY <2>3 DEF Fails, Ended, Report
  <2>4. CASE \E s \in Slots : Destroyed(s) \/ Writeable(s) \/ CAAnswers(s)
    BY <2>4 DEF Destroyed, Writeable, CAAnswers
  <2>5. CASE CANewChallenge
    BY <2>5 DEF CANewChallenge, Slots
  <2> QED BY <2>1, <2>2, <2>3, <2>4, <2>5 DEF Network, WSNext, Service
<1>2. v # NoNote
  BY DEF Conn, Read, Closed, NoNote
<1>3. UNCHANGED <<mainvars, slvvars>>
  BY DEF Network
<1>4. UNCHANGED <<pc, sk, chal, buf, found>>
  BY <1>3 DEF mainvars
<1>5. QueueInv' /\ DOMAIN note' = DOMAIN note
  BY <1>1, <1>2, <1>4, ReportKeeps DEF MinerInv
<1>6. SubmitsCurrent' /\ ReadNewChal'
  BY <1>4 DEF MinerInv, SubmitsCurrent, ReadNewChal
<1> QED BY <1>3, <1>4, <1>5, <1>6, MainKeepsSolvers

\* Main's steps that leave the queue alone, or take an event from it.
LEMMA QueueKeeps ==
    ASSUME QueueInv, UNCHANGED uqvars \/ UQPop, UNCHANGED sk,
           pc' \in {"start", "add"} => pc \in {"start", "add"}
    PROVE  QueueInv' /\ DOMAIN note' = DOMAIN note
<1>1. CASE UNCHANGED uqvars
  BY <1>1 DEF QueueInv, UQInv, uqvars
<1>2. CASE UQPop
  BY <1>2, UQPopKeeps DEF QueueInv
<1> QED BY <1>1, <1>2

\* What the event of a solver brings.
LEMMA SolverNote ==
    ASSUME MinerInv, ready # <<>>, Head(ready) = SlvKey(chal)
    PROVE  chal \in 1 .. MaxChal /\ note[Head(ready)] = Nonce(chal)
<1>1. 1 \in DOMAIN ready /\ Head(ready) = ready[1] /\ ready[1] \in DOMAIN note
  BY DEF MinerInv, QueueInv, UQInv
<1>2. note[Head(ready)] # NoNote
  BY <1>1 DEF MinerInv, QueueInv, UQInv
<1> QED BY <1>1, <1>2, KeysDiffer, SlvKeyInjective DEF MinerInv, QueueInv

LEMMA MainKeeps == ASSUME MinerInv, Main PROVE MinerInv'
<1> USE DEF Goto, Event
<1>1. CASE Restart
  <2>1. UQDelete(Key(sk)) /\ UNCHANGED <<slvvars, sk, chal, buf, found>> /\ pc' = "start" /\ pc = "restart"
    BY <1>1 DEF Restart
  <2>2. /\ UQInv' /\ DOMAIN note' = DOMAIN note \ {Key(sk)}
        /\ \A x \in DOMAIN note' : note'[x] = note[x]
    BY <2>1, UQDeleteKeeps DEF MinerInv, QueueInv
  <2>3. QueueInv'
    BY <2>1, <2>2 DEF MinerInv, QueueInv
  <2>4. SubmitsCurrent' /\ ReadNewChal'
    BY <2>1 DEF SubmitsCurrent, ReadNewChal
  <2> QED BY <2>1, <2>2, <2>3, <2>4, KeysDiffer, MainKeepsSolvers
<1>2. CASE Connect
  <2>1. UNCHANGED <<uqvars, slvvars, chal, buf, found>> /\ pc' \in {"add", "quit"} /\ pc = "start"
    BY <1>2 DEF Connect
  <2>2. QueueInv' /\ DOMAIN note' = DOMAIN note
    BY <2>1 DEF MinerInv, QueueInv, UQInv, uqvars
  <2>3. SubmitsCurrent' /\ ReadNewChal'
    BY <2>1 DEF SubmitsCurrent, ReadNewChal
  <2> QED BY <2>1, <2>2, <2>3, MainKeepsSolvers
<1>3. CASE Monitor
  <2>1. UQAdd(Key(sk)) /\ UNCHANGED <<slvvars, sk, chal, buf, found>> /\ pc' = "wait" /\ pc = "add"
    BY <1>3 DEF Monitor
  <2>2. /\ UQInv' /\ DOMAIN note' = DOMAIN note \cup {Key(sk)}
        /\ \A x \in DOMAIN note : note'[x] = note[x]
    BY <2>1, UQAddKeeps DEF MinerInv, QueueInv
  <2>3. QueueInv'
    BY <2>1, <2>2 DEF MinerInv, QueueInv
  <2>4. SubmitsCurrent' /\ ReadNewChal'
    BY <2>1 DEF SubmitsCurrent, ReadNewChal
  <2> QED BY <2>1, <2>2, <2>3, <2>4, MainKeepsSolvers
<1>4. CASE \/ Dropped \/ Connected \/ Readable \/ Query \/ Late \/ Submission
           \/ MonitorFails \/ GiveUp("wait")
  <2>1. /\ UNCHANGED <<slvvars, sk, chal, buf>> /\ (UNCHANGED uqvars \/ UQPop)
        /\ pc \notin {"start", "quit", "stop", "watch"}
        /\ pc' \in {"restart", "query", "recv", "wait", "quit"}
    BY <1>4 DEF Dropped, Connected, Readable, Query, Late, SolverEvent, Submission, MonitorFails, GiveUp
  <2>2. QueueInv' /\ DOMAIN note' = DOMAIN note
    BY <2>1, QueueKeeps DEF MinerInv
  <2>3. SubmitsCurrent' /\ ReadNewChal'
    BY <2>1 DEF SubmitsCurrent, ReadNewChal
  <2> QED BY <2>1, <2>2, <2>3, MainKeepsSolvers
<1>5. CASE Recv
  <2>1. /\ UNCHANGED <<uqvars, slvvars, sk, chal>> /\ pc = "recv"
        /\ \/ pc' \in {"wait", "recv", "quit"}
           \/ pc' = "stop" /\ \E c \in 1 .. MaxChal : buf' = Chal(c)
    BY <1>5 DEF Recv
  <2>2. QueueInv' /\ DOMAIN note' = DOMAIN note
    BY <2>1, QueueKeeps DEF MinerInv
  <2>3. SubmitsCurrent' /\ ReadNewChal'
    BY <2>1 DEF SubmitsCurrent, ReadNewChal
  <2> QED BY <2>1, <2>2, <2>3, MainKeepsSolvers
<1>6. CASE Solution
  <2>1. /\ UQPop /\ Head(ready) = SlvKey(chal) /\ ready # <<>>
        /\ UNCHANGED <<slvvars, sk, chal, buf>>
        /\ found' = note[Head(ready)][2] /\ pc = "wait" /\ pc' \in {"submit", "wait"}
    BY <1>6 DEF Solution, SolverEvent
  <2>2. found' = chal /\ chal # NoChal
    BY <2>1, SolverNote DEF Nonce, NoChal
  <2>3. QueueInv' /\ DOMAIN note' = DOMAIN note
    BY <2>1, QueueKeeps DEF MinerInv
  <2>4. SubmitsCurrent' /\ ReadNewChal'
    BY <2>1, <2>2 DEF SubmitsCurrent, ReadNewChal
  <2> QED BY <2>1, <2>3, <2>4, MainKeepsSolvers
<1>7. CASE StopSolver
  <2>1. UNCHANGED <<uqvars, sch, pc, sk, chal, buf, found>> /\ pc = "stop"
    BY <1>7 DEF StopSolver, mainvars
  <2>2. QueueInv' /\ SubmitsCurrent' /\ ReadNewChal'
    BY <2>1, QueueKeeps DEF MinerInv, SubmitsCurrent, ReadNewChal
  <2>3. sst' = [sst EXCEPT ![Lowest(Live)] = IF @ = "busy" THEN "last" ELSE "off"]
    BY <1>7 DEF StopSolver
  <2>4. /\ sst' \in [Solvers -> {"off", "idle", "busy", "last"}]
        /\ \A i \in Solvers : /\ Busy(i)' => Busy(i)
                              /\ sst[i] = "off" => sst'[i] = "off"
    <3> DEFINE l == Lowest(Live)
    <3> HIDE DEF l
    <3> QED BY <2>3 DEF MinerInv, SolverInv, AllOff, Busy, l
  <2> QED BY <2>1, <2>2, <2>4 DEF MinerInv, SolverInv, AllOff, NoTornChallenge
<1>8. CASE CopyChal
  <2>1. /\ UQDelete(SlvKey(chal - 1)) /\ chal' = buf[2] /\ Live = {} /\ pc = "stop" /\ pc' = "watch"
        /\ UNCHANGED <<slvvars, sk, buf, found>>
    BY <1>8 DEF CopyChal
  <2>2. chal' \in 1 .. MaxChal
    BY <2>1 DEF MinerInv, ReadNewChal, Chal
  <2>3. /\ UQInv' /\ DOMAIN note' = DOMAIN note \ {SlvKey(chal - 1)}
        /\ \A x \in DOMAIN note' : note'[x] = note[x]
    BY <2>1, UQDeleteKeeps DEF MinerInv, QueueInv
  <2>4. QueueInv'
    BY <2>1, <2>3 DEF MinerInv, QueueInv
  <2>5. \A i \in Solvers : sst[i] = "off"
    BY <2>1 DEF Live
  <2> QED BY <2>1, <2>2, <2>4, <2>5
          DEF MinerInv, SolverInv, AllOff, NoTornChallenge, Busy, SubmitsCurrent, ReadNewChal, NoChal, slvvars
<1>9. CASE Watch
  <2>1. /\ UQAdd(SlvKey(chal)) /\ UNCHANGED <<slvvars, sk, chal, buf, found>>
        /\ pc = "watch" /\ pc' = "launch"
    BY <1>9 DEF Watch
  <2>2. /\ UQInv' /\ DOMAIN note' = DOMAIN note \cup {SlvKey(chal)}
        /\ \A x \in DOMAIN note : note'[x] = note[x]
        /\ SlvKey(chal) \notin DOMAIN note => note'[SlvKey(chal)] = NoNote
    BY <2>1, UQAddKeeps DEF MinerInv, QueueInv
  <2>3. QueueInv'
    <3>1. chal \in 1 .. MaxChal
      BY <2>1 DEF MinerInv, SolverInv
    <3> QED BY <2>1, <2>2, <3>1 DEF MinerInv, QueueInv
  <2>4. SubmitsCurrent' /\ ReadNewChal' /\ Registered(SlvKey(chal))'
    BY <2>1, <2>2 DEF SubmitsCurrent, ReadNewChal, Registered
  <2> QED BY <2>1, <2>2, <2>3, <2>4, MainKeepsSolvers
<1>10. CASE LaunchSolver
  <2>1. UNCHANGED <<uqvars, sch, sk, chal, buf, found>> /\ pc = "launch" /\ pc' \in {"wait", "launch"}
    BY <1>10 DEF LaunchSolver
  <2>2. QueueInv' /\ SubmitsCurrent' /\ ReadNewChal'
    BY <2>1, QueueKeeps DEF MinerInv, SubmitsCurrent, ReadNewChal
  <2>3. sst' = [sst EXCEPT ![Lowest(Solvers \ Live)] = "idle"]
    BY <1>10 DEF LaunchSolver
  <2>4. /\ sst' \in [Solvers -> {"off", "idle", "busy", "last"}]
        /\ \A i \in Solvers : Busy(i)' => Busy(i)
    <3> DEFINE l == Lowest(Solvers \ Live)
    <3> HIDE DEF l
    <3> QED BY <2>3 DEF MinerInv, SolverInv, AllOff, Busy, l
  <2> QED BY <2>1, <2>2, <2>4 DEF MinerInv, SolverInv, AllOff, NoTornChallenge, uqvars, Registered, NoChal
<1>11. CASE GiveUp("watch")
  <2>1. /\ UNCHANGED <<uqvars, slvvars, sk, chal, buf, found>> /\ pc = "watch" /\ pc' = "quit"
    BY <1>11 DEF GiveUp
  <2>2. QueueInv' /\ DOMAIN note' = DOMAIN note
    BY <2>1, QueueKeeps DEF MinerInv
  <2> QED BY <2>1, <2>2 DEF MinerInv, SolverInv, AllOff, NoTornChallenge, Busy, SubmitsCurrent, ReadNewChal, slvvars
<1> QED BY <1>1, <1>2, <1>3, <1>4, <1>5, <1>6, <1>7, <1>8, <1>9, <1>10, <1>11 DEF Main, Works

LEMMA SolversKeep ==
    ASSUME MinerInv, NEW i \in Solvers, SolverBegins(i) \/ SolverEnds(i) PROVE MinerInv'
<1>1. CASE SolverBegins(i)
  <2>1. UNCHANGED <<uqvars, pc, sk, chal, buf, found>>
    BY <1>1 DEF SolverBegins, mainvars
  <2>2. QueueInv' /\ SubmitsCurrent' /\ ReadNewChal'
    BY <2>1, QueueKeeps DEF MinerInv, SubmitsCurrent, ReadNewChal
  <2>3. /\ sst[i] = "idle" /\ sst' = [sst EXCEPT ![i] = "busy"]
        /\ sch' = [sch EXCEPT ![i] = chal]
    BY <1>1 DEF SolverBegins
  <2> QED BY <2>1, <2>2, <2>3 DEF MinerInv, SolverInv, AllOff, NoTornChallenge, Busy, uqvars, Registered
<1>2. CASE SolverEnds(i)
  <2>1. /\ UNCHANGED <<sch, pc, sk, chal, buf, found>> /\ Busy(i)
        /\ sst' = [sst EXCEPT ![i] = IF @ = "busy" THEN "idle" ELSE "off"]
        /\ UQTrigger(SlvKey(chal), Nonce(sch[i])) \/ UNCHANGED uqvars
    BY <1>2 DEF SolverEnds, mainvars, Busy
  <2>2. sch[i] = chal /\ Nonce(chal) # NoNote
    BY <2>1 DEF MinerInv, SolverInv, AllOff, NoTornChallenge, Nonce, NoNote
  <2>3. QueueInv' /\ DOMAIN note' = DOMAIN note
    <3>1. CASE UNCHANGED uqvars
      BY <2>1, <3>1, QueueKeeps DEF MinerInv
    <3>2. CASE UQTrigger(SlvKey(chal), Nonce(chal))
      <4>1. /\ UQInv' /\ DOMAIN note' = DOMAIN note
            /\ \A x \in DOMAIN note :
                  note'[x] = IF x = SlvKey(chal) THEN Nonce(chal) ELSE note[x]
        BY <2>2, <3>2, UQTriggerKeeps DEF MinerInv, QueueInv
      <4>2. ASSUME NEW k \in DOMAIN note'
            PROVE  \/ k = Key(sk) /\ pc \notin {"start", "add"}
                   \/ \E c \in 1 .. MaxChal : k = SlvKey(c) /\ note'[k] \in {NoNote, Nonce(c)}
        BY <4>1, <4>2, SlvKeyInjective DEF MinerInv, QueueInv
      <4> QED BY <2>1, <4>1, <4>2 DEF QueueInv
    <3> QED BY <2>1, <2>2, <3>1, <3>2
  <2>4. SubmitsCurrent' /\ ReadNewChal'
    BY <2>1 DEF MinerInv, SubmitsCurrent, ReadNewChal
  <2>5. /\ sst' \in [Solvers -> {"off", "idle", "busy", "last"}]
        /\ \A j \in Solvers : /\ Busy(j)' => Busy(j)
                              /\ sst[j] = "off" => sst'[j] = "off"
    BY <2>1 DEF MinerInv, SolverInv, AllOff, Busy
  <2> QED BY <2>1, <2>3, <2>4, <2>5 DEF MinerInv, SolverInv, AllOff, NoTornChallenge, Registered
<1> QED BY <1>1, <1>2

LEMMA MinerNext == ASSUME MinerInv, [Next]_vars PROVE MinerInv'
<1>1. CASE UNCHANGED vars
  <2>1. UNCHANGED <<uqvars, slvvars, pc, sk, chal, buf, found>>
    BY <1>1 DEF vars, mainvars
  <2>2. QueueInv' /\ DOMAIN note' = DOMAIN note
    BY <2>1, QueueKeeps DEF MinerInv
  <2> QED BY <2>1, <2>2, MainKeepsSolvers DEF MinerInv, SubmitsCurrent, ReadNewChal
<1> QED BY <1>1, MainKeeps, NetworkKeeps, SolversKeep DEF Next

LEMMA MinerInvariant == Spec => []MinerInv
<1> QED BY MinerInit, MinerNext, PTL DEF Spec

\* For any number of solvers: the challenge is only written while none of them works
\* on it, so a solution carries the id of the challenge it was found for
\* (mine.c:124-144 against solver.c:43-60).
THEOREM ChallengeIsWhole == Spec => []NoTornChallenge
<1>1. MinerInv => NoTornChallenge
  BY DEF MinerInv, SolverInv
<1> QED BY <1>1, MinerInvariant, PTL

\* A running solver's notification has a registration to go to (mine.c:83-104).
THEOREM SolutionsAreHeard == Spec => []SolversAreHeard
<1>1. MinerInv => SolversAreHeard
  BY DEF MinerInv, SolverInv, AllOff, SolversAreHeard
<1> QED BY <1>1, MinerInvariant, PTL

\* What is sent solves the challenge that the miner works on, however many events of
\* older ones are still in the queue (mine.c:259-276).
THEOREM SubmissionIsCurrent == Spec => []SubmitsCurrent
<1>1. MinerInv => SubmitsCurrent
  BY DEF MinerInv
<1> QED BY <1>1, MinerInvariant, PTL

\* The miner hears of no connection but its own (mine.c:181-187, 217-220).
THEOREM HearsOwnSocket == Spec => []OnlyOwnSocket
<1>1. MinerInv => OnlyOwnSocket
  BY DEF MinerInv, QueueInv, OnlyOwnSocket, SlvKey
<1> QED BY <1>1, MinerInvariant, PTL

-----------------------------------------------------------------------------
(* The connections *)

Messages == {Error, Accepted, CurChal, RegisterWallet, WalletId, Already, BadSignature}
            \cup {Chal(c) : c \in Nat} \cup {Submit(c) : c \in Nat}

UConns == [id : BOOLEAN, ws : WsStates, sendreq : BOOLEAN, iq : Seq(Messages), oq : Seq(Messages)]
Links == [want : BOOLEAN, up : Seq(Messages), down : Seq(Messages), asked : BOOLEAN]

\* Until the CA has seen a query on a connection, a query is the first message that is
\* on its way there, or else the first one to be relayed.
SlotInv(u, l) ==
    /\ u \in UConns /\ l \in Links
    /\ l.up # <<>> => u.ws = "open"
    /\ u.ws = "opening" => u.oq = <<>>
    /\ u.ws = "open" /\ ~l.asked /\ l.up # <<>> => Head(l.up) = CurChal
    /\ u.ws = "open" /\ ~l.asked /\ l.up = <<>> /\ u.oq # <<>> => Head(u.oq) = CurChal

NetInv == /\ uc \in [Slots -> UConns] /\ link \in [Slots -> Links] /\ caId \in Nat
          /\ \A s \in Slots : SlotInv(uc[s], link[s])

Pending(k, v) == k \in DOMAIN note /\ note[k] = v

\* The slot that the miner uses, by what the miner knows of its connection.
OwnInv(u, l) ==
    /\ conned \/ Pending(Key(sk), Conn) \/ Pending(Key(sk), Read) \/ pc = "recv" =>
          u.ws \notin {"opening", "gone"}
    /\ u.ws = "open" /\ (Pending(Key(sk), Read) \/ pc = "recv") => u.iq # <<>>
    /\ u.ws = "open" /\ Pending(Key(sk), Read) /\ pc = "recv" => Len(u.iq) > 1
    /\ u.ws = "open" /\ conned /\ pc # "query" /\ ~Crashed =>
          l.asked \/ l.up # <<>> \/ u.oq # <<>>
    /\ Astray => u.ws \in {"closing", "none"}

PlaceInv == /\ pc \notin {"start", "quit"} => sk \in Slots
            /\ pc \in {"start", "quit"} => ~Astray
            /\ pc = "add" => ~conned
            /\ pc \in {"query", "submit"} => conned
            /\ conned \in BOOLEAN /\ crash \in {"not", "panic", "pointer", "garbage"}

ConnInv == /\ NetInv /\ PlaceInv
           /\ pc \notin {"start", "quit"} => OwnInv(uc[sk], link[sk])

LEMMA IsMessage ==
    /\ CurChal \in Messages /\ Chal(1) \in Messages
    /\ \A c \in Nat : Chal(c) \in Messages /\ Chal(c + 1) \in Messages /\ Submit(c) \in Messages
    /\ \A m \in {Error, Accepted, WalletId, Already, BadSignature} : m \in Messages
BY DEF Messages

\* A change to one slot.
LEMMA OneSlot ==
    ASSUME NetInv, NEW s \in Slots, NEW u, NEW l, SlotInv(u, l),
           uc' = [uc EXCEPT ![s] = u], link' = [link EXCEPT ![s] = l], caId' \in Nat
    PROVE  NetInv' /\ uc'[s] = u /\ link'[s] = l
BY DEF NetInv, SlotInv

LEMMA Renamed ==
    /\ \A s, r : Key(s) = Key(r) => s = r
    /\ Conn # Read /\ Closed # Read /\ Closed # Conn /\ NoNote # Conn /\ NoNote # Read
BY DEF Key, Conn, Read, Closed, NoNote

LEMMA AppendHead ==
    ASSUME NEW q \in Seq(Messages), NEW m \in Messages
    PROVE  /\ Append(q, m) \in Seq(Messages) /\ Append(q, m) # <<>>
           /\ q # <<>> => Head(Append(q, m)) = Head(q) /\ Len(Append(q, m)) > 1
           /\ q = <<>> => Head(Append(q, m)) = m
<1>1. /\ Append(q, m) \in Seq(Messages) /\ Append(q, m) # <<>>
      /\ Len(Append(q, m)) = Len(q) + 1 /\ Len(q) \in Nat
      /\ \A i \in 1 .. Len(q) : Append(q, m)[i] = q[i]
      /\ Append(q, m)[Len(q) + 1] = m
  BY AppendProperties
<1> DEFINE a == Append(q, m)
<1>2. Head(a) = a[1]
  OBVIOUS
<1>3. q = <<>> => Len(q) = 0
  OBVIOUS
<1>4. q # <<>> => Len(q) > 0 /\ Head(q) = q[1]
  OBVIOUS
<1> QED BY <1>1, <1>2, <1>3, <1>4

LEMMA EstablishedSlot ==
    ASSUME NetInv, NEW s \in Slots, Established(s)
    PROVE  /\ NetInv' /\ uc[s].ws = "opening" /\ uc'[s].ws = "open"
           /\ uc'[s].iq = uc[s].iq
<1> DEFINE u == [uc[s] EXCEPT !.ws = "open", !.sendreq = FALSE]
           l == [link[s] EXCEPT !.want = uc[s].sendreq]
<1>1. uc' = [uc EXCEPT ![s] = u] /\ link' = [link EXCEPT ![s] = l] /\ caId' = caId
  BY DEF Established, NetInv
<1>2. uc[s] \in UConns /\ link[s] \in Links /\ uc[s].ws = "opening" /\ SlotInv(uc[s], link[s])
  BY DEF NetInv, Established, Callback
<1>3. SlotInv(u, l)
  BY <1>2 DEF SlotInv, UConns, Links, WsStates
<1>4. u.ws = "open" /\ u.iq = uc[s].iq
  BY <1>2 DEF UConns
<1> HIDE DEF u, l
<1> QED BY <1>1, <1>2, <1>3, <1>4, OneSlot DEF NetInv

LEMMA EndedSlot ==
    ASSUME NetInv, NEW s \in Slots, NEW st \in {"opening", "open"}, Ended(s, st)
    PROVE  NetInv' /\ uc'[s].ws = "closing"
<1> DEFINE u == [uc[s] EXCEPT !.ws = "closing"]
<1>1. uc' = [uc EXCEPT ![s] = u] /\ link' = [link EXCEPT ![s] = NoLink] /\ caId' = caId
  BY DEF Ended, NetInv
<1>2. uc[s] \in UConns
  BY DEF NetInv
<1>3. SlotInv(u, NoLink) /\ u.ws = "closing"
  BY <1>2 DEF SlotInv, UConns, Links, WsStates, NoLink
<1> HIDE DEF u
<1> QED BY <1>1, <1>3, OneSlot DEF NetInv

LEMMA DestroyedSlot ==
    ASSUME NetInv, NEW s \in Slots, Destroyed(s)
    PROVE  NetInv' /\ uc[s].ws = "closing" /\ uc'[s].ws = "none"
<1> DEFINE u == [uc[s] EXCEPT !.ws = "none", !.iq = <<>>]
           l == link[s]
<1>1. /\ uc' = [uc EXCEPT ![s] = u] /\ link' = [link EXCEPT ![s] = l] /\ caId' = caId
      /\ uc[s].ws = "closing"
  BY DEF Destroyed, NetInv
<1>2. uc[s] \in UConns /\ SlotInv(uc[s], link[s])
  BY DEF NetInv
<1>3. SlotInv(u, l) /\ u.ws = "none"
  BY <1>1, <1>2 DEF SlotInv, UConns, Links, WsStates
<1> HIDE DEF u, l
<1> QED BY <1>1, <1>3, OneSlot DEF NetInv

LEMMA WriteableSlot ==
    ASSUME NetInv, NEW s \in Slots, Writeable(s)
    PROVE  /\ NetInv' /\ uc'[s].ws = uc[s].ws /\ uc'[s].iq = uc[s].iq
           /\ link[s].asked \/ link[s].up # <<>> \/ uc[s].oq # <<>> =>
                 link'[s].asked \/ link'[s].up # <<>> \/ uc'[s].oq # <<>>
<1>0. /\ uc[s] \in UConns /\ link[s] \in Links /\ SlotInv(uc[s], link[s])
      /\ uc[s].ws = "open" /\ caId' = caId
  BY DEF NetInv, Writeable, Callback
<1>1. CASE uc[s].oq = <<>>
  <2> DEFINE u == uc[s]
             l == [link[s] EXCEPT !.want = FALSE]
  <2>1. uc' = [uc EXCEPT ![s] = u] /\ link' = [link EXCEPT ![s] = l]
    BY <1>0, <1>1 DEF Writeable, NetInv, UConns, Links
  <2>2. SlotInv(u, l) /\ l.asked = link[s].asked /\ l.up = link[s].up
    BY <1>0, <1>1 DEF SlotInv, UConns, Links
  <2> HIDE DEF l
  <2> QED BY <1>0, <2>1, <2>2, OneSlot DEF NetInv
<1>2. CASE uc[s].oq # <<>>
  <2> DEFINE q == Tail(uc[s].oq)
             p == Append(link[s].up, Head(uc[s].oq))
             u == [uc[s] EXCEPT !.oq = q]
             l == [link[s] EXCEPT !.want = FALSE, !.up = p]
  <2>1. uc' = [uc EXCEPT ![s] = u] /\ link' = [link EXCEPT ![s] = l]
    BY <1>0, <1>2 DEF Writeable, NetInv
  <2>2. /\ q \in Seq(Messages) /\ p \in Seq(Messages) /\ p # <<>>
        /\ link[s].up # <<>> => Head(p) = Head(link[s].up)
        /\ link[s].up = <<>> => Head(p) = Head(uc[s].oq)
    <3>1. uc[s].oq \in Seq(Messages) /\ link[s].up \in Seq(Messages)
      BY <1>0 DEF UConns, Links
    <3>2. q \in Seq(Messages) /\ Head(uc[s].oq) \in Messages
      BY <1>2, <3>1
    <3> QED BY <3>1, <3>2, AppendHead
  <2> HIDE DEF p, q
  <2>3. SlotInv(u, l) /\ u.ws = uc[s].ws /\ u.iq = uc[s].iq /\ l.up # <<>>
    BY <1>0, <1>2, <2>2 DEF SlotInv, UConns, Links
  <2> HIDE DEF u, l
  <2> QED BY <1>0, <2>1, <2>3, OneSlot DEF NetInv
<1> QED BY <1>1, <1>2

LEMMA ReceiveSlot ==
    ASSUME NetInv, NEW s \in Slots, Receive(s), ~Panic
    PROVE  /\ NetInv' /\ uc[s].ws = "open" /\ uc'[s].ws = "open"
           /\ uc'[s].iq # <<>> /\ (uc[s].iq # <<>> => Len(uc'[s].iq) > 1)
           /\ uc'[s].oq = uc[s].oq /\ link'[s].up = link[s].up /\ link'[s].asked = link[s].asked
<1>0. /\ uc[s] \in UConns /\ link[s] \in Links /\ SlotInv(uc[s], link[s])
      /\ uc[s].ws = "open" /\ caId' = caId /\ link[s].down # <<>>
  BY DEF NetInv, Receive, Callback
<1> DEFINE q == Append(uc[s].iq, Head(link[s].down))
           d == Tail(link[s].down)
           u == [uc[s] EXCEPT !.iq = q]
           l == [link[s] EXCEPT !.down = d]
<1>1. uc' = [uc EXCEPT ![s] = u] /\ link' = [link EXCEPT ![s] = l]
  BY <1>0 DEF Receive, NetInv
<1>2. /\ q \in Seq(Messages) /\ d \in Seq(Messages) /\ q # <<>>
      /\ uc[s].iq # <<>> => Len(q) > 1
  <2>1. uc[s].iq \in Seq(Messages) /\ link[s].down \in Seq(Messages)
    BY <1>0 DEF UConns, Links
  <2>2. d \in Seq(Messages) /\ Head(link[s].down) \in Messages
    BY <1>0, <2>1
  <2> QED BY <2>1, <2>2, AppendHead
<1> HIDE DEF q, d
<1>3. /\ SlotInv(u, l) /\ u.ws = "open" /\ u.iq = q /\ u.oq = uc[s].oq
      /\ l.up = link[s].up /\ l.asked = link[s].asked
  BY <1>0, <1>2 DEF SlotInv, UConns, Links
<1> HIDE DEF u, l
<1> QED BY <1>0, <1>1, <1>2, <1>3, OneSlot DEF NetInv

LEMMA AnswerSlot ==
    ASSUME NetInv, NEW s \in Slots, CAAnswers(s)
    PROVE  /\ NetInv' /\ uc' = uc
           /\ link[s].up # <<>>
           /\ ~link[s].asked => link'[s].asked
<1>0. /\ uc[s] \in UConns /\ link[s] \in Links /\ SlotInv(uc[s], link[s])
      /\ caId' = caId /\ uc' = uc /\ link[s].up # <<>> /\ uc[s].ws = "open"
  BY DEF NetInv, CAAnswers, SlotInv
<1>1. PICK m \in Replies(Head(link[s].up)) :
         link' = [link EXCEPT ![s].up = Tail(@), ![s].down = Append(@, m),
                              ![s].asked = @ \/ Head(link[s].up) = CurChal]
  BY DEF CAAnswers
<1>2. m \in Messages
  BY IsMessage DEF Replies, NetInv
<1> DEFINE q == Tail(link[s].up)
           d == Append(link[s].down, m)
           a == link[s].asked \/ Head(link[s].up) = CurChal
           u == uc[s]
           l == [link[s] EXCEPT !.up = q, !.down = d, !.asked = a]
<1>3. link' = [link EXCEPT ![s].up = q, ![s].down = d, ![s].asked = a]
  BY <1>1, Zenon
<1>4. q \in Seq(Messages) /\ d \in Seq(Messages)
  <2>1. link[s].up \in Seq(Messages) /\ link[s].down \in Seq(Messages)
    BY <1>0 DEF Links
  <2> QED BY <1>0, <1>2, <2>1, AppendHead
<1>5. a \in BOOLEAN /\ a = TRUE
  BY <1>0 DEF SlotInv, Links
<1> HIDE DEF q, d, a
<1>6. uc' = [uc EXCEPT ![s] = u] /\ link' = [link EXCEPT ![s] = l]
  BY <1>0, <1>3 DEF NetInv
<1>7. SlotInv(u, l) /\ l.asked = a
  BY <1>0, <1>4, <1>5 DEF SlotInv, UConns, Links
<1> HIDE DEF l
<1> QED BY <1>0, <1>5, <1>6, <1>7, OneSlot DEF NetInv

LEMMA NewChallengeSlots ==
    ASSUME NetInv, CANewChallenge
    PROVE  /\ NetInv' /\ uc' = uc
           /\ \A s \in Slots : link'[s].up = link[s].up /\ link'[s].asked = link[s].asked
<1>0. caId' \in Nat /\ uc' = uc
  BY DEF CANewChallenge, NetInv
<1>1. link' = [s \in Slots |-> IF link[s].asked
                               THEN [link[s] EXCEPT !.down = Append(@, Chal(caId + 1))]
                               ELSE link[s]]
  BY DEF CANewChallenge
<1>2. ASSUME NEW s \in Slots
      PROVE  /\ SlotInv(uc[s], link'[s]) /\ link'[s] \in Links
             /\ link'[s].up = link[s].up /\ link'[s].asked = link[s].asked
  <2>1. link[s] \in Links /\ SlotInv(uc[s], link[s])
    BY DEF NetInv
  <2>2. CASE ~link[s].asked
    BY <1>1, <2>1, <2>2
  <2>3. CASE link[s].asked
    <3> DEFINE d == Append(link[s].down, Chal(caId + 1))
    <3>1. d \in Seq(Messages)
      <4>1. link[s].down \in Seq(Messages)
        BY <2>1 DEF Links
      <4>2. Chal(caId + 1) \in Messages
        BY IsMessage DEF NetInv
      <4> QED BY <4>1, <4>2, AppendHead
    <3>2. link'[s] = [link[s] EXCEPT !.down = d]
      BY <1>1, <2>3
    <3> HIDE DEF d
    <3> QED BY <2>1, <3>1, <3>2 DEF SlotInv, Links
  <2> QED BY <2>2, <2>3
<1>3. link' \in [Slots -> Links]
  BY <1>1, <1>2
<1> QED BY <1>0, <1>2, <1>3 DEF NetInv

(* The user's calls *)

LEMMA ConnectSlot ==
    ASSUME NetInv, NEW s \in Slots, ws_connect(s)
    PROVE  NetInv' /\ crash' = crash
<1>1. PICK st \in {"opening", "gone"} :
         uc' = [uc EXCEPT ![s] = [id |-> TRUE, ws |-> st, sendreq |-> FALSE,
                                  iq |-> <<>>, oq |-> <<>>]]
  BY DEF ws_connect
<1> DEFINE u == [id |-> TRUE, ws |-> st, sendreq |-> FALSE, iq |-> <<>>, oq |-> <<>>]
<1>2. SlotInv(u, NoLink)
  BY DEF SlotInv, UConns, Links, WsStates, NoLink
<1>3. uc' = [uc EXCEPT ![s] = u] /\ link' = [link EXCEPT ![s] = NoLink]
      /\ caId' = caId /\ crash' = crash
  BY <1>1 DEF ws_connect
<1> HIDE DEF u
<1> QED BY <1>2, <1>3, OneSlot DEF NetInv

LEMMA CloseSlot ==
    ASSUME NetInv, NEW s \in Slots, ws_close(s)
    PROVE  NetInv' /\ crash' = crash
<1> DEFINE u == [uc[s] EXCEPT !.id = FALSE]
           l == link[s]
<1>1. uc[s] \in UConns /\ SlotInv(uc[s], link[s])
  BY DEF NetInv
<1>2. SlotInv(u, l)
  BY <1>1 DEF SlotInv, UConns
<1>3. uc' = [uc EXCEPT ![s] = u] /\ link' = [link EXCEPT ![s] = l]
      /\ caId' = caId /\ crash' = crash
  BY DEF ws_close, NetInv
<1> HIDE DEF u, l
<1> QED BY <1>2, <1>3, OneSlot DEF NetInv

LEMMA SendSlot ==
    ASSUME NetInv, NEW s \in Slots, NEW m \in Messages, ws_send(s, m),
           uc[s].ws \notin {"opening", "gone"},
           m = CurChal \/ (uc[s].ws = "open" => link[s].asked \/ link[s].up # <<>> \/ uc[s].oq # <<>>)
    PROVE  /\ NetInv'
           /\ \/ Panic
              \/ uc[s].ws = "none" /\ UNCHANGED <<uc, link>> /\ crash' = "pointer"
              \/ /\ crash' = crash
                 /\ uc'[s].ws = uc[s].ws /\ uc'[s].iq = uc[s].iq /\ uc'[s].oq # <<>>
<1>0. /\ uc[s] \in UConns /\ link[s] \in Links /\ SlotInv(uc[s], link[s])
  BY DEF NetInv
<1>1. CASE Panic \/ (uc[s].ws \in {"none", "gone"} /\ Dies("pointer"))
  BY <1>0, <1>1 DEF Panic, Dies, NetInv
<1>2. CASE ~Panic /\ uc[s].ws \notin {"none", "gone"}
  <2> DEFINE q == Append(uc[s].oq, m)
             w == link[s].want \/ uc[s].ws = "open"
             u == [uc[s] EXCEPT !.oq = q, !.sendreq = TRUE]
             l == [link[s] EXCEPT !.want = w]
  <2>1. /\ uc' = [uc EXCEPT ![s].oq = q, ![s].sendreq = TRUE]
        /\ link' = [link EXCEPT ![s].want = w]
        /\ crash' = crash /\ caId' = caId
    BY <1>2, Zenon DEF ws_send
  <2>2. w \in BOOLEAN
    BY <1>0 DEF Links
  <2>3. /\ q \in Seq(Messages) /\ q # <<>>
        /\ uc[s].oq # <<>> => Head(q) = Head(uc[s].oq)
        /\ uc[s].oq = <<>> => Head(q) = m
    <3>1. uc[s].oq \in Seq(Messages)
      BY <1>0 DEF UConns
    <3> QED BY <3>1, AppendHead
  <2> HIDE DEF q, w
  <2>4. uc' = [uc EXCEPT ![s] = u] /\ link' = [link EXCEPT ![s] = l]
    BY <2>1 DEF NetInv
  <2>5. SlotInv(u, l) /\ u.ws = uc[s].ws /\ u.iq = uc[s].iq /\ u.oq = q
    BY <1>0, <2>2, <2>3 DEF SlotInv, UConns, Links
  <2> HIDE DEF u, l
  <2> QED BY <2>1, <2>3, <2>4, <2>5, OneSlot DEF NetInv
<1> QED BY <1>1, <1>2 DEF ws_send

LEMMA RecvSlot ==
    ASSUME NetInv, NEW s \in Slots, ws_recv(s)
    PROVE  /\ NetInv' /\ crash' = crash /\ link' = link
           /\ uc'[s].ws = uc[s].ws /\ uc'[s].oq = uc[s].oq
           /\ Len(uc[s].iq) > 1 => uc'[s].iq # <<>>
<1>0. uc[s] \in UConns /\ SlotInv(uc[s], link[s])
  BY DEF NetInv
<1> DEFINE q == IF uc[s].iq = <<>> THEN <<>> ELSE Tail(uc[s].iq)
           u == [uc[s] EXCEPT !.iq = q]
           l == link[s]
<1>1. /\ uc' = [uc EXCEPT ![s] = u] /\ link' = [link EXCEPT ![s] = l]
      /\ caId' = caId /\ crash' = crash /\ link' = link
  <2>1. CASE uc[s].iq = <<>>
    BY <1>0, <2>1 DEF ws_recv, NetInv, UConns
  <2>2. CASE uc[s].iq # <<>>
    BY <1>0, <2>2 DEF ws_recv, NetInv, UConns
  <2> QED BY <2>1, <2>2
<1>2. q \in Seq(Messages) /\ (Len(uc[s].iq) > 1 => q # <<>>)
  <2>1. uc[s].iq \in Seq(Messages)
    BY <1>0 DEF UConns
  <2>2. CASE uc[s].iq = <<>>
    BY <2>1, <2>2
  <2>3. CASE uc[s].iq # <<>>
    <3>1. /\ Tail(uc[s].iq) \in Seq(Messages) /\ Len(uc[s].iq) \in Nat
          /\ Len(Tail(uc[s].iq)) = Len(uc[s].iq) - 1
      BY <2>1, <2>3, HeadTailProperties
    <3>2. Len(uc[s].iq) > 1 => Tail(uc[s].iq) # <<>>
      <4>1. PICK t : t = Tail(uc[s].iq)
        OBVIOUS
      <4>2. t = <<>> => Len(t) = 0
        OBVIOUS
      <4> QED BY <3>1, <4>1, <4>2
    <3>3. q = Tail(uc[s].iq)
      BY <2>3
    <3> HIDE DEF q
    <3> QED BY <3>1, <3>2, <3>3
  <2> QED BY <2>2, <2>3
<1> HIDE DEF q
<1>3. SlotInv(u, l) /\ u.ws = uc[s].ws /\ u.oq = uc[s].oq /\ u.iq = q
  BY <1>0, <1>2 DEF SlotInv, UConns
<1> HIDE DEF u, l
<1> QED BY <1>1, <1>2, <1>3, OneSlot DEF NetInv

-----------------------------------------------------------------------------
(* What the miner knows of its connection *)

MineInv == MinerInv /\ ConnInv

\* Steps that leave the connection alone, and announce nothing of it.
LEMMA OwnKept ==
    ASSUME ConnInv, UNCHANGED <<wsvars, sk, conned>>,
           \/ pc' = pc
           \/ /\ pc \notin {"start", "quit", "add", "query"}
              /\ \/ pc' \in {"wait", "stop", "watch", "launch", "restart"}
                 \/ pc' = "submit" /\ conned,
           \A v \in {Conn, Read} : Pending(Key(sk), v)' => Pending(Key(sk), v)
    PROVE  ConnInv'
<1> USE DEF Crashed, Astray
<1>1. NetInv' /\ PlaceInv'
  BY DEF ConnInv, NetInv, PlaceInv, wsvars
<1>2. CASE pc' \in {"start", "quit"}
  BY <1>1, <1>2 DEF ConnInv
<1>3. CASE pc' \notin {"start", "quit"}
  <2>1. OwnInv(uc[sk], link[sk]) /\ uc' = uc /\ link' = link /\ crash' = crash
    BY <1>3 DEF ConnInv, wsvars
  <2>2. OwnInv(uc[sk], link[sk])'
    BY <2>1 DEF OwnInv
  <2> QED BY <1>1, <2>2 DEF ConnInv
<1> QED BY <1>2, <1>3

LEMMA PopAnnouncesNothing ==
    ASSUME MinerInv, UQPop, sk' = sk, NEW v, v # NoNote
    PROVE  Pending(Key(sk), v)' => Pending(Key(sk), v) /\ Head(ready) # Key(sk)
BY UQPopKeeps DEF MinerInv, QueueInv, Pending

LEMMA ConnOfSolvers ==
    ASSUME MineInv, ~Gone, NEW i \in Solvers, SolverBegins(i) \/ SolverEnds(i) PROVE ConnInv'
<1>1. UNCHANGED <<wsvars, sk, conned, pc>>
  BY DEF SolverBegins, SolverEnds, mainvars
<1>2. \A v : Pending(Key(sk), v)' => Pending(Key(sk), v)
  <2>1. CASE UNCHANGED uqvars
    BY <1>1, <2>1 DEF Pending, uqvars
  <2>2. CASE UQTrigger(SlvKey(chal), Nonce(sch[i]))
    <3>1. Nonce(sch[i]) # NoNote
      BY DEF Nonce, NoNote
    <3>2. /\ DOMAIN note' = DOMAIN note
          /\ \A x \in DOMAIN note : note'[x] = IF x = SlvKey(chal) THEN Nonce(sch[i]) ELSE note[x]
      BY <2>2, <3>1, UQTriggerKeeps DEF MineInv, MinerInv, QueueInv
    <3> QED BY <1>1, <3>2, KeysDiffer DEF Pending
  <2> QED BY <2>1, <2>2 DEF SolverBegins, SolverEnds
<1> QED BY <1>1, <1>2, OwnKept DEF MineInv

LEMMA OtherSlots ==
    ASSUME NetInv, NEW s \in Slots, Service(s) \/ Fails(s) \/ CAAnswers(s), NEW r \in Slots \ {s}
    PROVE  uc'[r] = uc[r] /\ link'[r] = link[r]
<1>0. uc \in [Slots -> UConns] /\ link \in [Slots -> Links]
  BY DEF NetInv
<1>1. CASE Established(s)
  BY <1>0, <1>1 DEF Established
<1>2. CASE Destroyed(s)
  BY <1>0, <1>2 DEF Destroyed
<1>3. CASE Writeable(s)
  BY <1>0, <1>3 DEF Writeable
<1>4. CASE Receive(s)
  BY <1>0, <1>4 DEF Receive, Panic, Dies
<1>5. CASE CAAnswers(s)
  BY <1>0, <1>5 DEF CAAnswers
<1>6. CASE Fails(s)
  BY <1>0, <1>6 DEF Fails, Ended
<1> QED BY <1>1, <1>2, <1>3, <1>4, <1>5, <1>6 DEF Service

LEMMA ReportPending ==
    ASSUME MinerInv, NEW s, NEW v, v # NoNote, Report(s, v), UNCHANGED <<pc, sk>>,
           NEW w, Pending(Key(sk), w)'
    PROVE  Pending(Key(sk), w) \/ (s = sk /\ w = v)
<1>1. UQTrigger(Key(s), v) \/ UNCHANGED uqvars
  BY DEF Report
<1>2. /\ DOMAIN note' = DOMAIN note
      /\ \A x \in DOMAIN note : (x = Key(s) /\ note'[x] = v) \/ note'[x] = note[x]
  BY <1>1, ReportKeeps DEF MinerInv
<1> QED BY <1>2, Renamed DEF Pending

\* mbuf() ends the process: nothing is where it should not be.
LEMMA ConnOfPanic ==
    ASSUME MineInv, ~Gone, Panic, UNCHANGED <<uqvars, sk, conned>>,
           pc' = pc \/ (pc \in {"query", "submit"} /\ pc' = "wait")
    PROVE  ConnInv'
<1>1. UNCHANGED <<uc, link, caId>> /\ Crashed' /\ ~Astray' /\ crash' = "panic"
  BY DEF Panic, Dies, Crashed, Astray
<1>2. NetInv' /\ PlaceInv'
  BY <1>1 DEF MineInv, ConnInv, NetInv, PlaceInv
<1>3. pc' \notin {"start", "quit"} => OwnInv(uc[sk], link[sk])'
  BY <1>1 DEF MineInv, ConnInv, OwnInv, Pending, uqvars
<1> QED BY <1>2, <1>3 DEF ConnInv

LEMMA ConnOfNetwork == ASSUME MineInv, Network, ~Gone PROVE ConnInv'
<1> USE DEF Crashed, Astray
<1>0. UNCHANGED <<pc, sk, conned, mainvars>> /\ NetInv
  BY DEF Network, mainvars, MineInv, ConnInv
<1>1. ASSUME NEW s \in Slots, Service(s) \/ Fails(s) \/ CAAnswers(s), NetInv', crash' = crash,
             s = sk /\ pc \notin {"start", "quit"} => OwnInv(uc[sk], link[sk])',
             \A w \in {Conn, Read} : Pending(Key(sk), w)' => Pending(Key(sk), w) \/ s = sk
      PROVE  ConnInv'
  <2>1. PlaceInv'
    BY <1>0, <1>1 DEF MineInv, ConnInv, PlaceInv
  <2>2. CASE s = sk \/ pc \in {"start", "quit"}
    BY <1>0, <1>1, <2>1, <2>2 DEF ConnInv
  <2>3. CASE s # sk /\ pc \notin {"start", "quit"}
    <3>1. sk \in Slots \ {s} /\ OwnInv(uc[sk], link[sk])
      BY <2>3 DEF MineInv, ConnInv, PlaceInv
    <3>2. uc'[sk] = uc[sk] /\ link'[sk] = link[sk]
      BY <1>0, <1>1, <3>1, OtherSlots
    <3>3. OwnInv(uc[sk], link[sk])'
      BY <1>0, <1>1, <2>3, <3>1, <3>2 DEF OwnInv
    <3> QED BY <1>0, <1>1, <2>1, <3>3 DEF ConnInv
  <2> QED BY <2>2, <2>3
<1>2. ASSUME NEW s \in Slots, Established(s) PROVE ConnInv'
  <2>1. /\ NetInv' /\ crash' = crash /\ uc[s].ws = "opening" /\ uc'[s].ws = "open"
    BY <1>0, <1>2, EstablishedSlot DEF Established
  <2>2. ASSUME NEW w, Pending(Key(sk), w)' PROVE Pending(Key(sk), w) \/ (s = sk /\ w = Conn)
    BY <1>0, <1>2, <2>2, ReportPending, Renamed DEF Established, MineInv, Conn, NoNote
  <2>3. ASSUME s = sk, pc \notin {"start", "quit"} PROVE OwnInv(uc[sk], link[sk])'
    BY <1>0, <2>1, <2>2, <2>3, Renamed DEF MineInv, ConnInv, OwnInv, Gone
  <2> QED BY <1>1, <1>2, <2>1, <2>2, <2>3 DEF Service
<1>3. ASSUME NEW s \in Slots, Fails(s) PROVE ConnInv'
  <2>1. NetInv' /\ crash' = crash /\ uc'[s].ws = "closing" /\ Report(s, Closed)
    BY <1>0, <1>3, EndedSlot DEF Fails, Ended
  <2>2. ASSUME NEW w, Pending(Key(sk), w)' PROVE Pending(Key(sk), w) \/ (s = sk /\ w = Closed)
    BY <1>0, <2>1, <2>2, ReportPending, Renamed DEF MineInv, Closed, NoNote
  <2>3. ASSUME s = sk, pc \notin {"start", "quit"} PROVE OwnInv(uc[sk], link[sk])'
    BY <1>0, <2>1, <2>2, <2>3, Renamed DEF MineInv, ConnInv, OwnInv, Gone
  <2> QED BY <1>1, <1>3, <2>1, <2>2, <2>3
<1>4. ASSUME NEW s \in Slots, Destroyed(s) PROVE ConnInv'
  <2>1. NetInv' /\ crash' = crash /\ uc'[s].ws = "none" /\ UNCHANGED uqvars
        /\ uc[s].ws = "closing"
    BY <1>0, <1>4, DestroyedSlot DEF Destroyed
  <2>2. ASSUME NEW w, Pending(Key(sk), w)' PROVE Pending(Key(sk), w)
    BY <1>0, <2>1, <2>2 DEF Pending, uqvars
  <2>3. ASSUME s = sk, pc \notin {"start", "quit"} PROVE OwnInv(uc[sk], link[sk])'
    BY <1>0, <2>1, <2>2, <2>3, Renamed DEF MineInv, ConnInv, OwnInv, Gone
  <2> QED BY <1>1, <1>4, <2>1, <2>2, <2>3 DEF Service
<1>5. ASSUME NEW s \in Slots, Writeable(s) PROVE ConnInv'
  <2>1. /\ NetInv' /\ crash' = crash /\ UNCHANGED uqvars
        /\ uc'[s].ws = uc[s].ws /\ uc'[s].iq = uc[s].iq
        /\ link[s].asked \/ link[s].up # <<>> \/ uc[s].oq # <<>> =>
              link'[s].asked \/ link'[s].up # <<>> \/ uc'[s].oq # <<>>
    BY <1>0, <1>5, WriteableSlot DEF Writeable
  <2>2. ASSUME NEW w, Pending(Key(sk), w)' PROVE Pending(Key(sk), w)
    BY <1>0, <2>1, <2>2 DEF Pending, uqvars
  <2>3. ASSUME s = sk, pc \notin {"start", "quit"} PROVE OwnInv(uc[sk], link[sk])'
    BY <1>0, <2>1, <2>2, <2>3 DEF MineInv, ConnInv, OwnInv, Gone
  <2> QED BY <1>1, <1>5, <2>1, <2>2, <2>3 DEF Service
<1>6. ASSUME NEW s \in Slots, Receive(s), ~Panic PROVE ConnInv'
  <2>1. /\ NetInv' /\ crash' = crash /\ uc[s].ws = "open" /\ uc'[s].ws = "open"
        /\ uc'[s].iq # <<>> /\ (uc[s].iq # <<>> => Len(uc'[s].iq) > 1)
        /\ uc'[s].oq = uc[s].oq /\ link'[s].up = link[s].up /\ link'[s].asked = link[s].asked
    BY <1>0, <1>6, ReceiveSlot DEF Receive
  <2>2. ASSUME NEW w, Pending(Key(sk), w)' PROVE Pending(Key(sk), w) \/ (s = sk /\ w = Read)
    BY <1>0, <1>6, <2>2, ReportPending, Renamed DEF Receive, MineInv, Read, NoNote
  <2>3. ASSUME s = sk, pc \notin {"start", "quit"} PROVE OwnInv(uc[sk], link[sk])'
    BY <1>0, <2>1, <2>2, <2>3, Renamed DEF MineInv, ConnInv, OwnInv, Gone
  <2> QED BY <1>1, <1>6, <2>1, <2>2, <2>3 DEF Service
<1>7. ASSUME NEW s \in Slots, CAAnswers(s) PROVE ConnInv'
  <2>1. /\ NetInv' /\ uc' = uc /\ crash' = crash /\ UNCHANGED uqvars
        /\ link'[s].asked
    <3>1. link[s].asked => link'[s].asked
      BY <1>0, <1>7 DEF CAAnswers, NetInv, Links
    <3> QED BY <1>0, <1>7, <3>1, AnswerSlot DEF CAAnswers
  <2>2. ASSUME NEW w, Pending(Key(sk), w)' PROVE Pending(Key(sk), w)
    BY <1>0, <2>1, <2>2 DEF Pending, uqvars
  <2>3. ASSUME s = sk, pc \notin {"start", "quit"} PROVE OwnInv(uc[sk], link[sk])'
    BY <1>0, <2>1, <2>2, <2>3 DEF MineInv, ConnInv, OwnInv, Gone
  <2> QED BY <1>1, <1>7, <2>1, <2>2, <2>3
<1>8. CASE CANewChallenge
  <2>1. /\ NetInv' /\ uc' = uc /\ crash' = crash /\ UNCHANGED uqvars
        /\ \A s \in Slots : link'[s].up = link[s].up /\ link'[s].asked = link[s].asked
    BY <1>0, <1>8, NewChallengeSlots DEF CANewChallenge
  <2>2. PlaceInv'
    BY <1>0, <2>1 DEF MineInv, ConnInv, PlaceInv
  <2>3. ASSUME pc \notin {"start", "quit"} PROVE OwnInv(uc[sk], link[sk])'
    BY <1>0, <2>1, <2>3 DEF MineInv, ConnInv, PlaceInv, OwnInv, Pending, uqvars
  <2> QED BY <1>0, <2>1, <2>2, <2>3 DEF ConnInv
<1>9. ASSUME NEW s \in Slots, Receive(s), Panic PROVE ConnInv'
  <2>1. UNCHANGED <<uqvars, sk, conned>> /\ pc' = pc
    BY <1>0, <1>9 DEF Receive, Panic, Dies, Gone
  <2> QED BY <1>9, <2>1, ConnOfPanic
<1>10. ASSUME NEW s \in Slots, Service(s) PROVE ConnInv'
  <2>1. CASE Receive(s)
    BY <1>6, <1>9, <2>1
  <2> QED BY <1>2, <1>4, <1>5, <1>10, <2>1 DEF Service
<1> QED BY <1>3, <1>7, <1>8, <1>10 DEF Network, WSNext

LEMMA ConnOfMain == ASSUME MineInv, Main, ~Gone PROVE ConnInv'
<1> USE DEF Goto, Event, Crashed, Astray
<1>0. /\ NetInv /\ PlaceInv /\ MinerInv /\ ~Crashed /\ pc # "quit"
      /\ pc # "start" => sk \in Slots /\ OwnInv(uc[sk], link[sk])
  BY DEF MineInv, ConnInv, PlaceInv, Gone
<1>1. CASE Restart
  <2>1. ws_close(sk) /\ UNCHANGED <<sk, conned>> /\ pc = "restart" /\ pc' = "start"
    BY <1>1 DEF Restart
  <2>2. NetInv' /\ crash' = crash
    BY <1>0, <2>1, CloseSlot
  <2> QED BY <1>0, <2>1, <2>2 DEF ConnInv, PlaceInv
<1>2. CASE Connect
  <2>1. pc = "start" /\ conned' = FALSE /\ UNCHANGED uqvars
    BY <1>2 DEF Connect
  <2>2. CASE pc' = "quit" /\ UNCHANGED <<wsvars, sk>>
    BY <1>0, <2>1, <2>2 DEF ConnInv, NetInv, PlaceInv, wsvars
  <2>3. CASE pc' = "add" /\ \E s \in Slots : ws_connect(s) /\ sk' = s
    <3>1. PICK s \in Slots : ws_connect(s) /\ sk' = s
      BY <2>3
    <3>2. NetInv' /\ crash' = crash
      BY <1>0, <3>1, ConnectSlot
    <3>3. \A v : ~Pending(Key(sk), v)'
      BY <1>0, <2>1, KeysDiffer DEF MinerInv, QueueInv, Pending, uqvars
    <3>4. PlaceInv' /\ OwnInv(uc[sk], link[sk])'
      BY <1>0, <2>1, <2>3, <3>1, <3>2, <3>3 DEF PlaceInv, OwnInv
    <3> QED BY <3>2, <3>4 DEF ConnInv
  <2> QED BY <1>2, <2>2, <2>3 DEF Connect
<1>3. CASE Monitor
  <2>1. UQAdd(Key(sk)) /\ UNCHANGED <<wsvars, sk, conned>> /\ pc = "add" /\ pc' = "wait"
    BY <1>3 DEF Monitor
  <2>2. Key(sk) \notin DOMAIN note
    BY <1>0, <2>1, KeysDiffer DEF MinerInv, QueueInv
  <2>3. \A v \in {Conn, Read} : ~Pending(Key(sk), v)'
    BY <1>0, <2>1, <2>2, UQAddKeeps, Renamed DEF MinerInv, QueueInv, Pending
  <2>4. NetInv' /\ PlaceInv'
    BY <1>0, <2>1 DEF NetInv, PlaceInv, wsvars
  <2>5. OwnInv(uc[sk], link[sk])'
    BY <1>0, <2>1, <2>3 DEF OwnInv, PlaceInv, wsvars
  <2> QED BY <2>4, <2>5 DEF ConnInv
<1>4. CASE Dropped \/ Late \/ Solution
  <2>1. /\ UNCHANGED <<wsvars, sk, conned>> /\ UQPop /\ pc = "wait"
        /\ pc' \in {"wait", "restart"} \/ (pc' = "submit" /\ conned)
    BY <1>4 DEF Dropped, Late, Solution, SolverEvent
  <2>2. \A v \in {Conn, Read} : Pending(Key(sk), v)' => Pending(Key(sk), v)
    BY <1>0, <2>1, PopAnnouncesNothing, Renamed
  <2> QED BY <2>1, <2>2, OwnKept DEF MineInv
<1>5. CASE Connected \/ Readable
  <2>1. /\ UNCHANGED <<wsvars, sk>> /\ UQPop /\ pc = "wait" /\ Head(ready) = Key(sk)
        /\ \/ pc' = "query" /\ conned' = TRUE /\ note[Key(sk)] = Conn
           \/ pc' = "recv" /\ conned' = conned /\ note[Key(sk)] = Read
    BY <1>5 DEF Connected, Readable
  <2>2. Key(sk) \in DOMAIN note
    BY <1>0, <2>1, UQPopKeeps DEF MinerInv, QueueInv
  <2>3. \A v \in {Conn, Read} : ~Pending(Key(sk), v)'
    BY <1>0, <2>1, PopAnnouncesNothing, Renamed
  <2>4. NetInv' /\ PlaceInv'
    BY <1>0, <2>1 DEF NetInv, PlaceInv, wsvars
  <2>5. OwnInv(uc[sk], link[sk])'
    BY <1>0, <2>1, <2>2, <2>3 DEF OwnInv, Pending, wsvars
  <2> QED BY <2>4, <2>5 DEF ConnInv
<1>6. CASE Query \/ (Submission /\ ~UNCHANGED wsvars)
  <2>1. PICK m \in Messages : ws_send(sk, m) /\ (m = CurChal \/ pc = "submit")
    <3>1. CASE Query
      BY <3>1, IsMessage DEF Query
    <3>2. CASE Submission
      <4>1. found = chal /\ chal \in Nat
        BY <1>0, <3>2 DEF Submission, MinerInv, SubmitsCurrent, SolverInv
      <4> QED BY <1>6, <3>2, <4>1, IsMessage DEF Submission, Query
    <3> QED BY <1>6, <3>1, <3>2
  <2>2. /\ UNCHANGED <<uqvars, sk, conned>> /\ pc \in {"query", "submit"} /\ pc' = "wait"
    BY <1>6 DEF Query, Submission
  <2>3. /\ sk \in Slots /\ conned /\ uc[sk].ws \notin {"opening", "gone"}
        /\ pc = "submit" /\ uc[sk].ws = "open" =>
              link[sk].asked \/ link[sk].up # <<>> \/ uc[sk].oq # <<>>
    BY <1>0, <2>2 DEF PlaceInv, OwnInv
  <2>4. /\ NetInv'
        /\ \/ Panic
           \/ uc[sk].ws = "none" /\ UNCHANGED <<uc, link>> /\ crash' = "pointer"
           \/ /\ crash' = crash
              /\ uc'[sk].ws = uc[sk].ws /\ uc'[sk].iq = uc[sk].iq /\ uc'[sk].oq # <<>>
    BY <1>0, <2>1, <2>3, SendSlot
  <2>8. CASE Panic
    BY <2>2, <2>8, ConnOfPanic
  <2>9. CASE ~Panic
    <3>1. PlaceInv'
      BY <1>0, <2>2, <2>4, <2>9 DEF PlaceInv
    <3>2. \A v : Pending(Key(sk), v)' => Pending(Key(sk), v)
      BY <2>2 DEF Pending, uqvars
    <3>3. OwnInv(uc[sk], link[sk])'
      BY <1>0, <2>2, <2>3, <2>4, <2>9, <3>2 DEF OwnInv
    <3> QED BY <2>4, <3>1, <3>3 DEF ConnInv
  <2> QED BY <2>8, <2>9
<1>12. CASE Submission /\ UNCHANGED wsvars
  <2>1. /\ UNCHANGED <<uqvars, wsvars, sk, conned>> /\ pc = "submit" /\ pc' = "wait"
    BY <1>12 DEF Submission
  <2>2. \A v : Pending(Key(sk), v)' => Pending(Key(sk), v)
    BY <2>1 DEF Pending, uqvars
  <2> QED BY <2>1, <2>2, OwnKept DEF MineInv
<1>7. CASE Recv
  <2>1. /\ UNCHANGED <<uqvars, sk, conned>> /\ pc = "recv"
        /\ \/ ws_recv(sk) /\ pc' \in {"wait", "stop"}
           \/ uc[sk].iq # <<>> /\ uc' = [uc EXCEPT ![sk].iq = Tail(@), ![sk].id = FALSE]
              /\ pc' = "quit" /\ UNCHANGED <<link, caId, crash>>
           \/ uc[sk].iq = <<>> /\ crash' = "garbage" /\ UNCHANGED <<uc, link, caId, pc>>
    BY <1>7 DEF Recv, Dies
  <2>2. \A v : Pending(Key(sk), v)' => Pending(Key(sk), v)
    BY <2>1 DEF Pending, uqvars
  <2>3. CASE ws_recv(sk) /\ pc' \in {"wait", "stop"}
    <3>1. /\ NetInv' /\ crash' = crash /\ link' = link
          /\ uc'[sk].ws = uc[sk].ws /\ uc'[sk].oq = uc[sk].oq
          /\ Len(uc[sk].iq) > 1 => uc'[sk].iq # <<>>
      BY <1>0, <2>1, <2>3, RecvSlot
    <3>2. PlaceInv'
      BY <1>0, <2>1, <2>3, <3>1 DEF PlaceInv
    <3>3. OwnInv(uc[sk], link[sk])'
      BY <1>0, <2>1, <2>2, <2>3, <3>1 DEF OwnInv
    <3> QED BY <3>1, <3>2, <3>3 DEF ConnInv
  <2>4. CASE uc[sk].iq = <<>> /\ crash' = "garbage" /\ UNCHANGED <<uc, link, caId, pc>>
    <3>1. NetInv' /\ PlaceInv'
      BY <1>0, <2>1, <2>4 DEF NetInv, PlaceInv
    <3>2. uc[sk] \in UConns /\ uc[sk].ws \in {"closing", "none"}
      BY <1>0, <2>1, <2>4 DEF NetInv, UConns, WsStates, OwnInv
    <3>3. OwnInv(uc[sk], link[sk])'
      BY <1>0, <2>1, <2>2, <2>4, <3>2 DEF OwnInv
    <3> QED BY <3>1, <3>3 DEF ConnInv
  <2>5. CASE /\ uc[sk].iq # <<>> /\ uc' = [uc EXCEPT ![sk].iq = Tail(@), ![sk].id = FALSE]
             /\ pc' = "quit" /\ UNCHANGED <<link, caId, crash>>
    <3>1. sk \in Slots /\ uc[sk] \in UConns /\ SlotInv(uc[sk], link[sk])
      BY <1>0, <2>1 DEF NetInv
    <3> DEFINE q == Tail(uc[sk].iq)
               u == [uc[sk] EXCEPT !.iq = q, !.id = FALSE]
               l == link[sk]
    <3>2. q \in Seq(Messages)
      <4>1. uc[sk].iq \in Seq(Messages)
        BY <3>1 DEF UConns
      <4> QED BY <2>5, <4>1
    <3> HIDE DEF q
    <3>3. SlotInv(u, l)
      BY <3>1, <3>2 DEF SlotInv, UConns
    <3>4. uc' = [uc EXCEPT ![sk] = u] /\ link' = [link EXCEPT ![sk] = l]
      BY <1>0, <2>5 DEF NetInv, q
    <3> HIDE DEF u, l
    <3>5. NetInv'
      BY <1>0, <2>5, <3>1, <3>3, <3>4, OneSlot DEF NetInv
    <3> QED BY <1>0, <2>1, <2>5, <3>5 DEF ConnInv, PlaceInv
  <2> QED BY <2>1, <2>3, <2>4, <2>5
<1>8. CASE StopSolver \/ LaunchSolver
  <2>1. /\ UNCHANGED <<wsvars, sk, conned, uqvars>>
        /\ pc' = pc \/ (pc = "launch" /\ pc' \in {"wait", "launch"})
    BY <1>8 DEF StopSolver, LaunchSolver, mainvars
  <2>2. \A v : Pending(Key(sk), v)' => Pending(Key(sk), v)
    BY <2>1 DEF Pending, uqvars
  <2> QED BY <2>1, <2>2, OwnKept DEF MineInv
<1>9. CASE CopyChal \/ Watch
  <2>1. /\ UNCHANGED <<wsvars, sk, conned>> /\ pc \in {"stop", "watch"} /\ pc' \in {"watch", "launch"}
        /\ \E c : UQDelete(SlvKey(c)) \/ UQAdd(SlvKey(c))
    BY <1>9 DEF CopyChal, Watch
  <2>2. \A v : Pending(Key(sk), v)' => Pending(Key(sk), v)
    <3>1. PICK c : UQDelete(SlvKey(c)) \/ UQAdd(SlvKey(c))
      BY <2>1
    <3>2. CASE UQDelete(SlvKey(c))
      BY <1>0, <2>1, <3>2, UQDeleteKeeps DEF MinerInv, QueueInv, Pending
    <3>3. CASE UQAdd(SlvKey(c))
      <4>1. /\ DOMAIN note' = DOMAIN note \cup {SlvKey(c)}
            /\ \A x \in DOMAIN note : note'[x] = note[x]
        BY <1>0, <3>3, UQAddKeeps DEF MinerInv, QueueInv
      <4> QED BY <2>1, <4>1, KeysDiffer DEF Pending
    <3> QED BY <3>1, <3>2, <3>3
  <2> QED BY <2>1, <2>2, OwnKept DEF MineInv
<1>10. CASE MonitorFails
  <2>1. UNCHANGED <<wsvars, sk, conned>> /\ pc' = "quit"
    BY <1>10 DEF MonitorFails
  <2> QED BY <1>0, <2>1 DEF ConnInv, NetInv, PlaceInv, wsvars
<1>11. ASSUME NEW from \in {"wait", "watch"}, GiveUp(from) PROVE ConnInv'
  <2>1. ws_close(sk) /\ UNCHANGED <<sk, conned>> /\ pc = from /\ pc' = "quit"
    BY <1>11 DEF GiveUp
  <2>2. NetInv' /\ crash' = crash
    BY <1>0, <2>1, CloseSlot
  <2> QED BY <1>0, <2>1, <2>2 DEF ConnInv, PlaceInv
<1> QED BY <1>1, <1>2, <1>3, <1>4, <1>5, <1>6, <1>7, <1>8, <1>9, <1>10, <1>11, <1>12 DEF Main, Works

LEMMA ConnInit == Init => ConnInv
<1> SUFFICES ASSUME Init PROVE ConnInv
  OBVIOUS
<1> DEFINE u == [id |-> FALSE, ws |-> "none", sendreq |-> FALSE, iq |-> <<>>, oq |-> <<>>]
<1>1. /\ uc = [s \in Slots |-> u] /\ link = [s \in Slots |-> NoLink] /\ caId = 1
      /\ pc = "start" /\ conned = FALSE /\ crash = "not"
  BY DEF Init, WSInit
<1>2. u \in UConns /\ NoLink \in Links /\ SlotInv(u, NoLink)
  BY DEF SlotInv, UConns, Links, WsStates, NoLink
<1> HIDE DEF u
<1> QED BY <1>1, <1>2 DEF ConnInv, NetInv, PlaceInv, Astray

LEMMA ConnNext == ASSUME MineInv, [Next]_vars PROVE ConnInv'
<1>1. CASE UNCHANGED vars
  <2>1. /\ UNCHANGED <<wsvars, sk, conned, pc>>
        /\ \A v : Pending(Key(sk), v)' => Pending(Key(sk), v)
    BY <1>1 DEF vars, mainvars, Pending, uqvars
  <2> QED BY <2>1, OwnKept DEF MineInv
<1> QED BY <1>1, ConnOfMain, ConnOfNetwork, ConnOfSolvers DEF Next

LEMMA MineInvariant == Spec => []MineInv
<1>1. Init => MineInv
  BY MinerInit, ConnInit DEF MineInv
<1>2. MineInv /\ [Next]_vars => MineInv'
  BY MinerNext, ConnNext DEF MineInv
<1> QED BY <1>1, <1>2, PTL DEF Spec

\* What a READ event announced is there as long as the connection lives (mine.c:240).
THEOREM AnnouncedIsThere == Spec => []ReadIsThere
<1>1. MineInv => ReadIsThere
  BY DEF MineInv, ConnInv, OwnInv, ReadIsThere
<1> QED BY <1>1, MineInvariant, PTL

\* No bad pointer is followed and no challenge is started that was not initialised, as long
\* as the miner's connection lives (ws.c:460, mine.c:126).
THEOREM LivePointersAreValid == Spec => []LiveConnIsValid
<1>1. MineInv => LiveConnIsValid
  BY DEF MineInv, ConnInv, OwnInv, PlaceInv, LiveConnIsValid
<1> QED BY <1>1, MineInvariant, PTL

\* The CA is asked for its challenge before anything else reaches it (mine.c:225-231).
THEOREM AsksFirst == Spec => []QueryFirst
<1>1. MineInv => QueryFirst
  BY DEF MineInv, ConnInv, NetInv, SlotInv, QueryFirst
<1> QED BY <1>1, MineInvariant, PTL
=============================================================================
