------------------------------- MODULE Futex -------------------------------
(***************************************************************************)
(* The mutex and the condition variable of lib/utils/futex.c, one action   *)
(* per atomic instruction or system call, for any set of processes.        *)
(*                                                                         *)
(* fpc[p] is the place of process p in the four operations:                *)
(*   "out"       outside, without the mutex                                *)
(*   "lk_try"    in mutex_lock's spin loop, at xchg8                       *)
(*   "lk_xchg"   at xchg32(257), in mutex_lock or at the end of cond_wait  *)
(*   "lk_wait"   at FUTEX_WAIT(m, 257)      "lk_sleep" asleep in it        *)
(*   "in"        owns the mutex, in the caller's code                      *)
(*   "ul_test" "ul_cas" "ul_clear" "ul_spin" "ul_clean" "ul_wake"          *)
(*               the successive steps of mutex_unlock                      *)
(*   "sg_wake"   in cond_signal, seq incremented, at FUTEX_WAKE            *)
(*   "cw_wait"   in cond_wait, at FUTEX_WAIT(seq, s)  "cw_sleep" asleep    *)
(*                                                                         *)
(* The 100 and 200 turns of the two spin loops are any number of turns     *)
(* from one up.  The instructions take effect in program order: the xchg   *)
(* and cmpxchg of the code are full barriers on x86 and the only plain     *)
(* stores, to locked and contended, are followed by one or by a system     *)
(* call.                                                                   *)
(***************************************************************************)
EXTENDS Integers, FiniteSets

CONSTANTS Procs,   \* the threads that share the mutex and the condition
          SeqMod   \* cv.seq wraps at SeqMod (2^32 in the code, a bound in TLC)

ASSUME SeqModAssumption == SeqMod \in Nat \ {0, 1}

VARIABLES locked,     \* m->b.locked
          contended,  \* m->b.contended
          seq,        \* c->seq
          saw,        \* saw[p]: p's local s in cond_wait, NoSeq outside of it
          fpc

fvars == <<locked, contended, seq, saw, fpc>>

NoSeq == -1

Places == {"out", "lk_try", "lk_xchg", "lk_wait", "lk_sleep", "in",
           "ul_test", "ul_cas", "ul_clear", "ul_spin", "ul_clean", "ul_wake",
           "sg_wake", "cw_wait", "cw_sleep"}

FInit == /\ locked = 0
         /\ contended = 0
         /\ seq = 0
         /\ saw = [p \in Procs |-> NoSeq]
         /\ fpc = [p \in Procs |-> "out"]

\* The lock word m->u is 1: locked and nobody asked to be woken up.
OnlyLocked == locked = 1 /\ contended = 0

Goto(p, from, to) == fpc[p] = from /\ fpc' = [fpc EXCEPT ![p] = to]

\* Where mutex_unlock returns to: its caller, or the rest of cond_wait.
AfterUnlock(p) == IF saw[p] = NoSeq THEN "out" ELSE "cw_wait"

-----------------------------------------------------------------------------
(* mutex_lock, and the identical loop that ends cond_wait *)

Lock(p) == /\ Goto(p, "out", "lk_try")
           /\ UNCHANGED <<locked, contended, seq, saw>>

TryLock(p) == \/ /\ locked = 0
                 /\ Goto(p, "lk_try", "in")
                 /\ locked' = 1
                 /\ UNCHANGED <<contended, seq, saw>>
              \/ /\ locked = 1
                 /\ Goto(p, "lk_try", "lk_xchg")
                 /\ UNCHANGED <<locked, contended, seq, saw>>

Xchg(p) == /\ Goto(p, "lk_xchg", IF locked = 0 THEN "in" ELSE "lk_wait")
           /\ locked' = 1
           /\ contended' = 1
           /\ UNCHANGED <<seq, saw>>

\* The kernel compares the word with 257 and sleeps in one atomic step.
FutexWait(p) ==
    /\ Goto(p, "lk_wait", IF locked = 1 /\ contended = 1
                          THEN "lk_sleep" ELSE "lk_xchg")
    /\ UNCHANGED <<locked, contended, seq, saw>>

-----------------------------------------------------------------------------
(* mutex_unlock *)

Unlock(p) == /\ Goto(p, "in", "ul_test")
             /\ UNCHANGED <<locked, contended, seq, saw>>

TestWord(p) == /\ Goto(p, "ul_test", IF OnlyLocked THEN "ul_cas" ELSE "ul_clear")
               /\ UNCHANGED <<locked, contended, seq, saw>>

\* Mutant: a plain store where the compare-and-exchange is.
CmpXchgStores(p) == /\ Goto(p, "ul_cas", AfterUnlock(p))
                    /\ locked' = 0 /\ contended' = 0
                    /\ UNCHANGED <<seq, saw>>

CmpXchg(p) == /\ Goto(p, "ul_cas", IF OnlyLocked THEN AfterUnlock(p) ELSE "ul_clear")
              /\ locked' = IF OnlyLocked THEN 0 ELSE locked
              /\ UNCHANGED <<contended, seq, saw>>

ClearLocked(p) == /\ Goto(p, "ul_clear", "ul_spin")
                  /\ locked' = 0
                  /\ UNCHANGED <<contended, seq, saw>>

\* Mutant: mutex_unlock returns after the spin loop in any case.
SpinUnlockOnly(p) == /\ Goto(p, "ul_spin", AfterUnlock(p))
                     /\ UNCHANGED <<locked, contended, seq, saw>>

\* Someone took the lock: return.  Nobody did: the last turn falls through.
SpinUnlock(p) == /\ Goto(p, "ul_spin", IF locked = 1 THEN AfterUnlock(p) ELSE "ul_clean")
                 /\ UNCHANGED <<locked, contended, seq, saw>>

\* Mutant: m->u = 0 for m->b.contended = 0.
ClearWord(p) == /\ Goto(p, "ul_clean", "ul_wake")
                /\ locked' = 0 /\ contended' = 0
                /\ UNCHANGED <<seq, saw>>

\* Mutant: the mark is taken off by subtraction.
SubContended(p) == /\ Goto(p, "ul_clean", "ul_wake")
                   /\ contended' = contended - 1
                   /\ UNCHANGED <<locked, seq, saw>>

ClearContended(p) == /\ Goto(p, "ul_clean", "ul_wake")
                     /\ contended' = 0
                     /\ UNCHANGED <<locked, seq, saw>>

\* FUTEX_WAKE of one: the process w asleep at `place' goes on at "lk_xchg".
WakeOne(p, from, to, place) ==
    /\ fpc[p] = from
    /\ \/ /\ \A w \in Procs : fpc[w] # place
          /\ fpc' = [fpc EXCEPT ![p] = to]
          /\ UNCHANGED saw
       \/ \E w \in Procs :
             /\ fpc[w] = place
             /\ fpc' = [fpc EXCEPT ![p] = to, ![w] = "lk_xchg"]
             /\ saw' = [saw EXCEPT ![w] = NoSeq]
    /\ UNCHANGED <<locked, contended, seq>>

WakeLocker(p) == WakeOne(p, "ul_wake", AfterUnlock(p), "lk_sleep")

-----------------------------------------------------------------------------
(* cond_wait and cond_signal.  Every caller holds the mutex, and a         *)
(* condition variable is used with one mutex only, so the registration of  *)
(* c->m never fails.                                                       *)

CondWait(p) == /\ Goto(p, "in", "ul_test")
               /\ saw' = [saw EXCEPT ![p] = seq]
               /\ UNCHANGED <<locked, contended, seq>>

CondSleep(p) == /\ Goto(p, "cw_wait", IF seq = saw[p] THEN "cw_sleep" ELSE "lk_xchg")
                /\ saw' = IF seq = saw[p] THEN saw ELSE [saw EXCEPT ![p] = NoSeq]
                /\ UNCHANGED <<locked, contended, seq>>

CondSignal(p) == /\ Goto(p, "in", "sg_wake")
                 /\ seq' = (seq + 1) % SeqMod
                 /\ UNCHANGED <<locked, contended, saw>>

WakeWaiter(p) == WakeOne(p, "sg_wake", "in", "cw_sleep")

-----------------------------------------------------------------------------
\* The steps p takes by itself once it has called an operation.
Inside(p) == \/ TryLock(p) \/ Xchg(p) \/ FutexWait(p)
             \/ TestWord(p) \/ CmpXchg(p) \/ ClearLocked(p) \/ SpinUnlock(p)
             \/ ClearContended(p) \/ WakeLocker(p)
             \/ CondSleep(p) \/ WakeWaiter(p)

\* The calls a client may make: lock when out; the other three when in.
Call(p) == Lock(p) \/ Unlock(p) \/ CondWait(p) \/ CondSignal(p)

FNext == \E p \in Procs : Inside(p) \/ Call(p)

\* The scheduler runs every thread, and an owner eventually unlocks.
FFairness == \A p \in Procs : WF_fvars(Inside(p)) /\ WF_fvars(Unlock(p))

FSpec == FInit /\ [][FNext]_fvars

FairFSpec == FSpec /\ FFairness

-----------------------------------------------------------------------------
FTypeOK == /\ locked \in {0, 1}
           /\ contended \in {0, 1}
           /\ seq \in 0 .. SeqMod - 1
           /\ saw \in [Procs -> {NoSeq} \cup 0 .. SeqMod - 1]
           /\ fpc \in [Procs -> Places]

Owning == {"in", "ul_test", "ul_cas", "ul_clear", "sg_wake"}

\* At most one thread is between the end of its mutex_lock (or cond_wait) and
\* the store of mutex_unlock that frees the word (futex.c:113-163).
MutualExclusion ==
    \A p, q \in Procs : fpc[p] \in Owning /\ fpc[q] \in Owning => p = q

\* A thread that goes on to compare the word with 257, or to wake up a sleeper.
WillRetry(p) == fpc[p] \in {"lk_xchg", "lk_wait"}
WillWake(p) == fpc[p] \in {"ul_clear", "ul_spin", "ul_clean", "ul_wake"}

\* No wake-up of the mutex is lost: as long as a thread sleeps on the word,
\* either the word still says "contended" while it is locked, so that its owner
\* takes the slow path of mutex_unlock, or some thread is on its way to wake a
\* sleeper or to mark the word again (futex.c:126-162).
NoLostWakeup ==
    (\E p \in Procs : fpc[p] = "lk_sleep") =>
        \/ locked = 1 /\ contended = 1
        \/ \E q \in Procs : WillRetry(q) \/ WillWake(q)

Wants(p) == fpc[p] \in {"lk_try", "lk_xchg", "lk_wait", "lk_sleep"}

\* When some thread wants the mutex, some thread eventually gets it
\* (futex.c:113-132 and 93-95): the lock never stays free with sleepers.
LockProgress == (\E p \in Procs : Wants(p)) ~> (\E p \in Procs : fpc[p] = "in")

=============================================================================
