---------------------------- MODULE FutexProofs ----------------------------
(***************************************************************************)
(* Safety of the mutex and the condition variable of lib/utils/futex.c,    *)
(* for any set of threads and any width of cv.seq.                         *)
(***************************************************************************)
EXTENDS Futex, TLAPS

\* An owner has set the lock byte, and there is one owner only.
OwnerInv == /\ FTypeOK
            /\ \A p \in Procs : fpc[p] \in Owning => locked = 1
            /\ MutualExclusion

\* What keeps NoLostWakeup: a mark that a sleeper left in the word is cleared
\* by nobody but a thread that wakes one up afterwards, and whoever frees the
\* lock under a sleeper stays in mutex_unlock until it sees it taken again.
Asleep == \E p \in Procs : fpc[p] = "lk_sleep"
MarkInv == Asleep => \/ contended = 1
                     \/ \E q \in Procs : WillRetry(q) \/ fpc[q] = "ul_wake"
FreeInv == Asleep => \/ locked = 1
                     \/ \E q \in Procs : WillRetry(q) \/ WillWake(q)
WakeInv == FTypeOK /\ MarkInv /\ FreeInv

USE SeqModAssumption

-----------------------------------------------------------------------------
\* Types are kept by every step of a thread.
LEMMA FTypeStep ==
    ASSUME FTypeOK, [FNext]_fvars
    PROVE  FTypeOK'
<1> USE DEF FTypeOK, Places, NoSeq
<1>1. CASE UNCHANGED fvars
  BY <1>1 DEF fvars
<1>2. ASSUME NEW p \in Procs, Call(p)
      PROVE  FTypeOK'
  <2>1. CASE Lock(p)
    BY <2>1 DEF Lock, Goto
  <2>2. CASE Unlock(p)
    BY <2>2 DEF Unlock, Goto
  <2>3. CASE CondWait(p)
    BY <2>3 DEF CondWait, Goto
  <2>4. CASE CondSignal(p)
    <3>1. (seq + 1) % SeqMod \in 0 .. SeqMod - 1
      OBVIOUS
    <3>2. QED
      BY <2>4, <3>1 DEF CondSignal, Goto
  <2>5. QED
    BY <1>2, <2>1, <2>2, <2>3, <2>4 DEF Call
<1>3. ASSUME NEW p \in Procs, Inside(p)
      PROVE  FTypeOK'
  <2>1. AfterUnlock(p) \in Places
    BY DEF AfterUnlock
  <2>2. CASE TryLock(p)
    BY <2>2 DEF TryLock, Goto
  <2>3. CASE Xchg(p)
    BY <2>3 DEF Xchg, Goto
  <2>4. CASE FutexWait(p)
    BY <2>4 DEF FutexWait, Goto
  <2>5. CASE TestWord(p)
    BY <2>5 DEF TestWord, Goto
  <2>6. CASE CmpXchg(p)
    BY <2>1, <2>6 DEF CmpXchg, Goto
  <2>7. CASE ClearLocked(p)
    BY <2>7 DEF ClearLocked, Goto
  <2>8. CASE SpinUnlock(p)
    BY <2>1, <2>8 DEF SpinUnlock, Goto
  <2>9. CASE ClearContended(p)
    BY <2>9 DEF ClearContended, Goto
  <2>10. CASE WakeLocker(p)
    BY <2>1, <2>10 DEF WakeLocker, WakeOne
  <2>11. CASE CondSleep(p)
    BY <2>11 DEF CondSleep, Goto
  <2>12. CASE WakeWaiter(p)
    BY <2>12 DEF WakeWaiter, WakeOne
  <2>13. QED
    BY <1>3, <2>2, <2>3, <2>4, <2>5, <2>6, <2>7, <2>8, <2>9, <2>10, <2>11, <2>12
    DEF Inside
<1>4. QED
  BY <1>1, <1>2, <1>3 DEF FNext

LEMMA FTypeInit == FInit => FTypeOK
  BY DEF FInit, FTypeOK, Places, NoSeq

\* Type correctness of the lock word, the sequence counter and the places of
\* the threads in futex.c.
THEOREM FTypeCorrect == FSpec => []FTypeOK
  BY FTypeInit, FTypeStep, PTL DEF FSpec

-----------------------------------------------------------------------------
LEMMA OwnerStep ==
    ASSUME OwnerInv, [FNext]_fvars
    PROVE  OwnerInv'
<1>1. FTypeOK /\ FTypeOK'
  BY FTypeStep DEF OwnerInv
<1> USE <1>1 DEF OwnerInv, MutualExclusion, Owning
<1>2. CASE UNCHANGED fvars
  BY <1>2 DEF fvars
<1>3. ASSUME NEW p \in Procs, Call(p)
      PROVE  OwnerInv'
  <2>1. CASE Lock(p)
    BY <2>1 DEF Lock, Goto, FTypeOK
  <2>2. CASE Unlock(p)
    BY <2>2 DEF Unlock, Goto, FTypeOK
  <2>3. CASE CondWait(p)
    BY <2>3 DEF CondWait, Goto, FTypeOK
  <2>4. CASE CondSignal(p)
    BY <2>4 DEF CondSignal, Goto, FTypeOK
  <2>5. QED
    BY <1>3, <2>1, <2>2, <2>3, <2>4 DEF Call
<1>4. ASSUME NEW p \in Procs, Inside(p)
      PROVE  OwnerInv'
  <2>1. AfterUnlock(p) \notin Owning
    BY DEF AfterUnlock
  <2>2. CASE TryLock(p)
    BY <2>2 DEF TryLock, Goto, FTypeOK
  <2>3. CASE Xchg(p)
    BY <2>3 DEF Xchg, Goto, FTypeOK
  <2>4. CASE FutexWait(p)
    BY <2>4 DEF FutexWait, Goto, FTypeOK
  <2>5. CASE TestWord(p)
    BY <2>5 DEF TestWord, Goto, FTypeOK
  \* The owner frees the word: no other thread can count on it.
  <2>6. CASE CmpXchg(p)
    BY <2>1, <2>6 DEF CmpXchg, Goto, OnlyLocked, FTypeOK
  <2>7. CASE ClearLocked(p)
    BY <2>7 DEF ClearLocked, Goto, FTypeOK
  <2>8. CASE SpinUnlock(p)
    BY <2>1, <2>8 DEF SpinUnlock, Goto, FTypeOK
  <2>9. CASE ClearContended(p)
    BY <2>9 DEF ClearContended, Goto, FTypeOK
  <2>10. CASE WakeLocker(p)
    BY <2>1, <2>10 DEF WakeLocker, WakeOne, FTypeOK
  <2>11. CASE CondSleep(p)
    BY <2>11 DEF CondSleep, Goto, FTypeOK
  <2>12. CASE WakeWaiter(p)
    BY <2>12 DEF WakeWaiter, WakeOne, FTypeOK
  <2>13. QED
    BY <1>4, <2>2, <2>3, <2>4, <2>5, <2>6, <2>7, <2>8, <2>9, <2>10, <2>11, <2>12
    DEF Inside
<1>5. QED
  BY <1>2, <1>3, <1>4 DEF FNext

\* Two threads are never both between the end of mutex_lock (or of cond_wait)
\* and the store of mutex_unlock that frees the lock word (futex.c:71-163).
THEOREM FutexMutualExclusion == FSpec => []MutualExclusion
<1>1. FInit => OwnerInv
  BY FTypeInit DEF FInit, OwnerInv, MutualExclusion, Owning
<1>2. OwnerInv /\ [FNext]_fvars => OwnerInv'
  BY OwnerStep
<1>3. OwnerInv => MutualExclusion
  BY DEF OwnerInv
<1>4. QED
  BY <1>1, <1>2, <1>3, PTL DEF FSpec

-----------------------------------------------------------------------------
LEMMA WakeStep ==
    ASSUME WakeInv, [FNext]_fvars
    PROVE  WakeInv'
<1>1. FTypeOK /\ FTypeOK'
  BY FTypeStep DEF WakeInv
<1> SUFFICES (MarkInv /\ FreeInv)'
  BY <1>1 DEF WakeInv
<1> USE <1>1 DEF WakeInv, MarkInv, FreeInv, Asleep, WillRetry, WillWake
<1>2. CASE UNCHANGED fvars
  BY <1>2 DEF fvars
<1>3. ASSUME NEW p \in Procs, Call(p)
      PROVE  (MarkInv /\ FreeInv)'
  <2>1. CASE Lock(p)
    BY <2>1 DEF Lock, Goto, FTypeOK
  <2>2. CASE Unlock(p)
    BY <2>2 DEF Unlock, Goto, FTypeOK
  <2>3. CASE CondWait(p)
    BY <2>3 DEF CondWait, Goto, FTypeOK
  <2>4. CASE CondSignal(p)
    BY <2>4 DEF CondSignal, Goto, FTypeOK
  <2>5. QED
    BY <1>3, <2>1, <2>2, <2>3, <2>4 DEF Call
<1>4. ASSUME NEW p \in Procs, Inside(p)
      PROVE  (MarkInv /\ FreeInv)'
  <2>2. CASE TryLock(p)
    BY <2>2 DEF TryLock, Goto, FTypeOK
  <2>3. CASE Xchg(p)
    BY <2>3 DEF Xchg, Goto, FTypeOK
  <2>4. CASE FutexWait(p)
    BY <2>4 DEF FutexWait, Goto, FTypeOK
  <2>5. CASE TestWord(p)
    BY <2>5 DEF TestWord, Goto, FTypeOK
  \* The fast path saw no mark: with a sleeper around, MarkInv names another
  \* thread that is going to repair it.
  <2>6. CASE CmpXchg(p)
    BY <2>6 DEF CmpXchg, Goto, OnlyLocked, AfterUnlock, FTypeOK
  <2>7. CASE ClearLocked(p)
    BY <2>7 DEF ClearLocked, Goto, FTypeOK
  <2>8. CASE SpinUnlock(p)
    BY <2>8 DEF SpinUnlock, Goto, AfterUnlock, FTypeOK
  <2>9. CASE ClearContended(p)
    BY <2>9 DEF ClearContended, Goto, FTypeOK
  <2>10. CASE WakeLocker(p)
    BY <2>10 DEF WakeLocker, WakeOne, AfterUnlock, FTypeOK
  <2>11. CASE CondSleep(p)
    BY <2>11 DEF CondSleep, Goto, FTypeOK
  <2>12. CASE WakeWaiter(p)
    BY <2>12 DEF WakeWaiter, WakeOne, FTypeOK
  <2>13. QED
    BY <1>4, <2>2, <2>3, <2>4, <2>5, <2>6, <2>7, <2>8, <2>9, <2>10, <2>11, <2>12
    DEF Inside
<1>5. QED
  BY <1>2, <1>3, <1>4 DEF FNext

\* While a thread sleeps on the mutex, the word says so to its owner or some
\* thread is about to wake a sleeper or to mark the word again (futex.c:126-162).
THEOREM FutexNoLostWakeup == FSpec => []NoLostWakeup
<1>1. FInit => WakeInv
  BY FTypeInit DEF FInit, WakeInv, MarkInv, FreeInv, Asleep
<1>2. WakeInv /\ [FNext]_fvars => WakeInv'
  BY WakeStep
<1>3. WakeInv => NoLostWakeup
  BY DEF WakeInv, MarkInv, FreeInv, Asleep, NoLostWakeup, WillRetry, WillWake
<1>4. QED
  BY <1>1, <1>2, <1>3, PTL DEF FSpec
=============================================================================
