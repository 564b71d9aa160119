# Formal verification of oin17

oin17 is the CS Coins miner of the CS Games 2017: one process that keeps a
WebSocket to a Central Authority (CA), fetches the current challenge, lets a
few solver threads search for a nonce whose solution hashes to the requested
prefix, and submits it.  This directory holds the TLA+ models of the program,
the TLC configurations that check them, and the TLAPS proofs.

## 1. The system

### Components, their state and their operations

| component | source | state | operations |
|---|---|---|---|
| futex mutex and condition variable | `lib/utils/futex.c` | one 16-bit lock word (`locked`, `contended`), `cv.seq` | `mutex_lock`, `mutex_unlock`, `cond_wait`, `cond_signal` |
| thread pool | `lib/utils/tpool.c` | `threads[]` (`canrun`, `running`, `pool`, `next`), `pools[]` (`max`, `func`, `arg`, list), `npools`, `njobs` | `thread_main` (every worker), `tpool_start`, `tpool_stop`, stealing, redistribution |
| WebSocket translator | `lib/ws/ws.c` | 16 connection slots `uconns[]` (`id`, `ws`, `st`, fragment buffer, `iq`, `oq`) | `ws_connect`, `ws_close`, `ws_send`, `ws_recv` by the user; `lws_handler` callbacks by the pool's ws thread |
| message buffers | `lib/ws/mbuf.c` | 16 static `mbufs[]`, cursor `i` | `mbuf` (allocate), `mbufq`, `mbufp` |
| event queue | external, vendored `3rd/dist/uqueue-*.tar.gz` | registrations with one pending value each, ready list | `uevent` with `UQ_ADD`, `UQ_DELETE`, trigger, wait |
| libwebsockets | external | connection life cycle, "writeable" request flag | callbacks |
| CA commands | `lib/ca/*.c` | none | format a command and `ws_send` it |
| miner | `mine.c` | `mchl` (current challenge, `solved`, solvers), `sk`, `conned` | event loop: reconnect, query, new challenge, error, solution |
| solvers | `lib/chals/solver.c` | work space, nonce | `solver_start/stop`, one attempt per pool iteration, notify |
| wallet registration | `register.c` | `sk`, the answer buffer, the timeout | connect, register, wait, retry |
| start-up and shutdown | `main.c`, `lib/lib.c` | `.registered` flag file | `init`, `deinit` |
| wallet, RSA, SHA-256, MT64 | `lib/wallet.c`, `lib/crypto/*` | keys, PRNG words | sign, hash, random |
| challenges | `lib/chals/{sortlist,shortpath,getnonce,mkseed,parse}.c` | work spaces, shared nonce counter | grow the work space, try a nonce, parse a challenge |
| sorting and conversions | `lib/utils/{merge,heap,smooth}sort64.c`, `u64str`, `strrev`, `hex2bin`, `bin2hex` | none | pure functions |

### Threads

* **main** runs `init`, `register_wallet`, `mine`; it is the only caller of the
  pool, of `ws_connect/close/send/recv` and of `uevent` with registrations.
* **one ws thread** (pool 0) loops in `ws_dispatch` -> `lws_service`, where every
  `lws_handler` callback runs.
* **four solver threads** loop in `solver_solve`; each iteration reads the
  shared `mchl.chal` without any lock.
* idle workers sleep on their own condition variable.

### How they interact

* main -> worker: `canrun`/`running` under the worker's lock, handshake over one
  condition variable used in both directions.
* solver -> main: `uevent` trigger `(UQFILT_SOLVR, challenge id, nonce)`.
* ws thread -> main: `uevent` trigger `(UQFILT_WSOCK, uconn id, CONN|READ|CLOSED)`;
  message bytes through `uconns[].iq`.
* main -> ws thread: message bytes through `uconns[].oq`, then
  `lws_callback_on_writable`; the bytes of both directions lie in the same
  sixteen buffers.
* solver -> solver: the counter of `getnonce`.

### What is hard here

* `mutex_unlock` frees the word, waits a little for another thread to take it,
  and only then decides to wake a sleeper: the order of five instructions
  against any number of lockers.
* one condition variable per worker carries signals in both directions, the
  caller of the pool reads `running` without the lock, and a worker reads its
  pool, function and argument without one.
* `mchl.chal` is shared with the solvers without a lock: what protects it is
  that `tpool_stop` returns after the last attempt.
* the event queue keeps one value per registration: events overwrite one
  another, and events without a registration are lost.
* a connection may end between any two steps of the main thread; `ws_close`
  gives the id back and leaves the connection open.
* the registration retries over timeouts, drops and restarts of the process.
* the buffers of all connections are one array with one cursor, chained by
  their indices, and both threads take from it; a message comes in fragments,
  and its terminating Nul needs a byte that nobody has counted.
* the work spaces of the solvers grow array by array, and each may be refused.
* every part of `init` may fail, `deinit` runs whatever was initialised, and
  the threads of the pool go on meanwhile.
* the fields of a challenge come in any order, and arrays are skipped by
  counting.

### What makes each component correct

| component | properties |
|---|---|
| futex | `MutualExclusion`, `NoLostWakeup`, `LockProgress` |
| one worker and its caller | `ImplementsHandshake` and `ImplementsCell` (the refinements), `UnlockedReadIsTrue`, `CallsReturn` |
| thread pool | `ThreadsAreCells` (a refinement for each worker), `OnlyOpenJobsRun`, `IdleMeansFree`, `WorkConserving`, `OneThreadEach`, `PoolCallsReturn`, `JobsRun` |
| message buffers | `ImplementsMailbox` (the refinement), `OnlyCommandsAreLost` |
| miner and solvers | `NoTornChallenge`, `SubmitsCurrent`, `SolversAreHeard` |
| miner and its connection | `QueryFirst`, `QueryGoesOut`, `ReadIsThere`, `OnlyOwnSocket`, `LiveConnIsValid`, `DropIsNoticed` |
| registration | `MinesRegistered`, `ConnComesFirst`, `Settles` |
| start-up and shutdown | `MiningIsReady`, `Ends` |
| work spaces and nonces | `FitsTheChallenge`, `NonceOnce` |
| a challenge and an attempt | `ParsesAnyOrder`, `HashesTheNumbers`, `SortsTheNumbers`, `ParentIsFirst`, `SolutionIsShortest`, `ReachedIsSettled` |

## 2. The modules

```
Futex --- MCFutex, FutexProofs         UQueue (external)
  |                                       |
  | INSTANCE (processes ctl, worker)      | EXTENDS
ThreadCell ==> Handshake, Cell          WSock
  |            (both abstract)          /    \
ThreadCellProofs        ^           Miner    Register --- RegisterProofs
                        |             |
TPool (each worker) ====+           MinerDocs, MinerProofs
  |
MCTPool, TPoolProofs

Mbuf ==> Mailbox (abstract)            Solver
  |                                       |
MCMbuf, MbufProofs    MbufThreads      Program --- ProgramProofs

Text --- Parse -----------+
Sorts --- SmoothSort --- Attempt --- AttemptProofs
ShortPath ----------------+
```

`==>` is a refinement that a run checks and a theorem states.  The modules meet where one takes as a
step, or as a choice, what another one shows in detail: `TPool` the steps of
`ThreadCell`; `Miner` the attempts of `Attempt`, the pools of `TPool` and the
work spaces of `Solver`; `WSock` the queues of `Mbuf`; `Program` the calls
`mine()` and `register_wallet()` of `Miner` and `Register`.

**Futex** has one action per atomic instruction or system call: `fpc[p]` is the
place of process p in `mutex_lock`, `mutex_unlock`, `cond_wait` or
`cond_signal`.  The 16-bit word is the pair `locked`, `contended`; `CmpXchg` is
the fast path, `ClearLocked`, `SpinUnlock`, `ClearContended` and `WakeLocker`
the slow one.  The 100 and 200 turns of the spin loops are any positive number.
`saw[p]` is the local copy of `cv.seq`, which wraps at `SeqMod` (2^32 in the
code).

**ThreadCell** puts `thread_main` (`WLock` .. `WReturn`) and one caller of
`thread_start` and `thread_stop` (`CStart` .. `CDrain`) on top of these
instructions.  **Handshake** is what a caller may rely on: the function runs only
between a start and the return of the next stop, and at least once.

**TPool** is the whole pool, with a region under a worker's lock as one step and
a wait as a guard (`Started`, `Stopped`).  **Cell** is one worker and its calls in
these steps: the place where `ThreadCell` and `TPool` meet.  `ThreadCell`
implements it under `CoarsePlace` and `CoarsePhase` (the signal's effect counts
from the write of `canrun`, and a worker that has read nothing new is one that
waits), so that no interleaving of the instructions does more than these steps;
each worker w of `TPool` implements it under `Phase(w)`, so that the pool makes
no call that the caller of `ThreadCell` would not.  That a waiting worker hears the
signal at all is `CallsReturn`, checked in `ThreadCell`.
`mpc` is the place of the caller in `tpool_start` (`scan`, `steal`,
`steal_back`, and the waits `await_*` and `drain_*`) and `tpool_stop` (`unload`,
`redist`).  The list of a pool's threads is the set `crew`.  `crash` is the
place where stealing from an empty list follows a null pointer.

**UQueue** is libuqueue as this program uses it (external): a map from
registrations to one pending value each, and the order in which they became
pending.

**WSock** has one action per user call (`ws_connect`, `ws_close`, `ws_send`,
`ws_recv`) and per callback of `lws_handler` (`Established`, `Ended`,
`Destroyed`, `Writeable`, `Receive`), over the slots `uc`; `link` is what
libwebsockets and the network hold of a connection.  `ws_connect` stores the
connection after libwebsockets made it, so that a connection that is already
gone leaves a pointer to it (`"gone"`).  The CA (external) answers, and tells
those who asked of new challenges.  `crash` says what the process has died of.
`"pointer"`: a call of `ws_send` on a slot whose connection was destroyed gives
`lws_callback_on_writable` a bad pointer.  `"panic"`: `mbuf()` is given a message
that is too long, or finds no buffer free, in `ws_send` or under a callback
(`Receive`).  Which of the calls that is depends on all that is in the buffers
(`Mbuf` has it); here any of them may.

**Miner** is `mine()` with `pc` for its labels and calls, `handle_newchal` split
into `StopSolver`, `CopyChal`, `Watch` and `LaunchSolver` (between any two of
which the ws thread and the solvers go on), and each solver's attempt as a
beginning and an end.  What fails makes `mine()` return (`MonitorFails`,
`GiveUp`, and the refusal in `Recv`), but for a submission, whose failure is only
written to the log.  A fourth end is the third `crash`, `"garbage"`: an old text that is
parsed again with a length of 0 has no token, and the challenge that is then
started was never initialised (`Recv`; the attempt may reach the `exit(1)` of
`solver.c:78`, which no other one does).  `armed`, `delayed` and `sent` are history
variables used only in properties.  **MinerDocs** adds what the documentation
says and the code does not do.

**Register** is `register_wallet` and `init_wallet` with the flag file;
`Restarts` is the end of the process and the start of the next one.  A request that
fails (`ca_register` writes the key down and signs it before it calls `ws_send`)
is retried, like a drop or the timeout; a failure of `uevent` (`EventFails`)
or of the queue's creation (`Boot`) leaves the function.  `ca_recv` does not fail:
the slot is the program's own, and no message is longer than its buffer.

**Mailbox** is what the translator promises of messages: two queues of whole
messages for each connection, in places that all connections share.  **Mbuf** is
how it keeps that: `mem`, `cur` and the chains for `mbuf`, `mbufq` and `mbufp`,
the fragments buffer `fb` up to `fo`, and the calls and callbacks that use them.
A queue of `Mailbox` is the contents of the chain from `iq` or `oq`
(`Contents`); what a dead connection left in its outgoing chain keeps its
places.  **MbufThreads** is the same code access by access, under the user's
thread and the thread of the callbacks, with the lock where the code takes it.

**Solver** has the work spaces (`sl`, `sp`: the lengths of the three arrays of
each kind, and `max`), their growth of which any reallocation may be refused
(`Grown`), the counter `sn` and the solvers' ranges.  **Program** is `main()`:
`pc` is the next call of `init` or `deinit`, each with its failures, while
`Solve(i)` goes on; `Stray` is a thread of the pool that uses what `exit_mining`
or `exit_ws` has freed.

**Attempt** begins with the text of a challenge and ends with what is hashed.
**Parse** is `chal_parse` over the tokens of jsmn (external): the loop of
`parse_toks` is a function of how many tokens have been read.  **Text** has the
conversions as operators on sequences of character codes.  **Sorts** has merge
sort and heap sort, **SmoothSort** the third one, as machines: an array is a
function on `0 .. cnt - 1`, `at` the place in the code, and a step one turn of an
innermost loop.  The calls of `sift` and `trinkle` are places too, with `then`
for where they return, and `held` for the element they carry to the `hole`.
`drawn` keeps the numbers as they were before the sort.  **ShortPath** is the
search as a machine that expands one cell per step.  The linked queue is a
sequence, kept in order by `qadd` alone.  `Emit` writes the digits of the path
(`PathText`) into `sol`, which has a byte for each cell of the grid: when that is too
short for them, the code writes on and may end as `"overrun"` (section 7).

A mutated form of a definition, marked `Mutant:`, stands before the definition
it replaces; it is what shows that a property can fail.  It is used by no
specification.

## 3. The runs

| run | question | bounds | states |
|---|---|---|---|
| `futex` | does the lock exclude, and is no sleeper forgotten | 3 threads, `seq` mod 2 | 39,812 |
| `thread_cell` | do a worker and its caller implement the handshake | `seq` mod 4 | 5,898 |
| `tpool_one` | the pool as the program uses it | 3 threads and pools of 1 thread, 2 jobs, 3 ids in use | 14,432 |
| `tpool_many` | pools of several threads, stealing and giving away | 3 threads, pools of 1 to 3, 4 ids in use | 1,207,225 |
| `miner` | the shared challenge, the solvers, and connections that fail at any moment | 2 slots, 2 challenges, 1 solver, 1 message in flight | 503,805 |
| `register` | registration over failures and restarts | 3 slots, 2 failing connections | 219,177 |
| `mbuf` | do the buffers implement the queues | 2 connections, 3 buffers of 3 bytes, messages of 1 to 4 bytes | 387,247 |
| `program` | is everything there when mining begins, and does the process end | 2 solvers, 3 threads, sizes 1, 3 and 4 around an expected 2, ranges of 3 nonces | 248,410 |
| `attempt` | parser, sorts, conversions and search against references | lists of up to 6 of 3 numbers, all grids of 3 by 3 cells inside the walls, every order of the fields | 405,701 |
| `mbuf_shared`, `miner_crash`, `register_drop` | a statement of the repository that does not hold (section 7) | as above, `mbuf_shared` with 2 buffers | |

Why the bounds are enough for the interesting cases:

* three threads on the lock give an owner, a sleeper and a third one that takes
  the word in the spin window, with a sleeper left behind the one that is woken
  up.  With `SeqMod` 2 the counter wraps at once, and a waiter may take an old
  value for the present one: no property of this run depends on its wake-up.
* `thread_cell` wraps at 4; its properties also hold at 2, 3 and 8, since the two
  threads answer each other and never are a whole turn of the counter apart.
* three pools and threads give a pool that is robbed, one that robs and one that
  is skipped, and a redistribution of several rounds.
* two slots give a new connection while the old one still lives in the other
  slot, and no slot at all when that one still does not end.  `MaxDown` 1
  already makes two events meet, since a message is read in two steps.  Two
  challenges give an event of one that is no longer the current one.  What more
  challenges, solvers and slots could do to the safety properties of the miner
  is left to the proofs (section 4).
* three slots for `Register` cover both parities of the `ident` test
  (section 7) and a first attempt, a retry and slots that run out.
* three buffers are exhausted by two connections, with a chain of each kind and
  a lost one; three bytes have a message that fits, one that fits without its
  Nul only, and one that is refused when its first fragment comes, and every
  division into fragments.
* the sizes are one below and two above the expected one, so that spaces grow
  twice, and a refusal comes before, between and after the arrays that grow.
  Ranges of three nonces with a step of four wrap after each draw.
* a grid of nine inner cells has all the detours and dead ends around a blocker,
  and the ties between shortest paths that the order of the queue decides;
  six numbers give merge passes with cut and empty runs, heaps of three levels
  and Leonardo trees of one to five elements side by side.  0, 7 and 10 have no
  digit, one and two.

Deadlock is checked except where the system may stop for good: every client of
`futex` may wait on the condition; the miner may wait for an event that never
comes; each is said in the cfg.

### Fairness

`FFairness`: every thread that is inside an operation goes on, and an owner
unlocks; nobody has to call anything.  `FairCellSpec`: both threads run and a
job ends.  `FairSpec` of `TPool`: the caller's current call and every worker go
on, a job ends (an attempt is finite, `lws_service` has a timeout).  `Miner`:
the main thread runs, libwebsockets serves what is due, an attempt that has
begun ends; that a connection fails, that memory runs out, that the CA answers
and that a solver finds a nonce are never assumed.  `Register`: as the miner, and a timeout that was set
expires; the first wait uses a timeout that was never set
(`register.c:65`), and nothing is assumed of it.  `Program`: the main thread
goes on, except inside `register_wallet()` and `mine()`, which may wait for
ever.

The mutex is not fair, so that `CallsReturn` is stated for calls in which the
worker's job outlasts the few instructions the caller needs to take the lock:
`hurried` notes the others.

## 4. What is proved

Eight modules hold proofs, for every value of the constants, under the
assumptions named in the modules.  `SeqModAssumption`, `CellAssumption`: the
counter has at least two values.  `TPoolAssumption`: there is a thread, and
callers ask for at least one.  `SolverAssumption`: there is a solver, and the
step of the nonces' counter has no divisor in common with the length of a
solver's range (in the code 3917 and 17,500,000: `lib/config.h:23-24`,
`config.h:36-37`, `mine.c:303`).  `ProgramAssumption`: `init_tpool` makes more
threads than there are solvers.  `WSockAssumption`, `MinerAssumption`,
`RegisterAssumption`: there is a slot and a solver, and the bounds are numbers.
`MbufAssumption`: bytes are strings, no command or message is empty, there is a
buffer and it has room for a byte.  `ShortPathAssumption`: the grid has two cells
inside its walls (`Size` is 4 at least; `popgrid` would not end without).
`NumsAssumption`, `AttemptAssumption`: the numbers drawn have at most `U64STRLEN`
digits, and a list has at least one number.

* `FTypeCorrect`, `FutexMutualExclusion`, `FutexNoLostWakeup`: any number of
  threads.  Exclusion alone is not inductive: that a word which is free has no
  owner (`FreeInv`), and that a sleeper implies a mark or somebody who will make
  or has seen it (`MarkInv`), are kept together with it.
* `CellImplements` (`ImplementsHandshake`), `ReadIsTrue`
  (`UnlockedReadIsTrue`): one worker and its caller, each at any instruction of
  `thread_main`, `thread_start`, `thread_stop` and of the futex inside them.
  `CellInv` says of each place of one thread what `canrun` and `running` are
  there and whether the call has had its effect (`CallerOK`, `WorkerOK`); it
  needs no argument from the lock or the wake-ups, since only the caller writes
  `canrun` and only the worker `running`.  `CellUsesFutex` shows that the two
  call the lock only as `Futex` lets its clients, and `CellExcludes` draws
  `MutualExclusion` from there: the theorem of one module at work in another.
* `CellIsCoarse` (`ImplementsCell`) and `PoolIsOfCells` (`ThreadsAreCells`): any
  modulus of the counter, any number of threads and any `max`.  The first follows
  from `CellInv`, action by action: the steps on the lock and the waits stutter,
  and a test that reads what was written since is the one step `TestRun`.  The
  second follows from `PoolInv`, and says what no single guard of the pool does: a
  thread is started only when it is stopped and its last stop has returned, also
  by a steal or a redistribution, and stopped only when it was started.
* `PoolTypeCorrect`, `PoolQuiescence` (`OnlyOpenJobsRun`) and
  `PoolIdleMeansFree`: any number of threads, any `max`, any use of the
  interface.  `PoolInv` adds to the type invariant where the lists are
  (`ListInv`), that only ids in use have threads (`UseInv`), where the caller is
  in a handshake (`CallInv`) and what a worker has read (`JobInv`).
* `PoolConservesWork` (`WorkConserving`): any number of threads and any `max`.
  `WorkInv` says what is left of "no thread idles or no pool is hungry" in the
  midst of each call: at a steal the robbed pool is judged as if it had the
  thread still, and while the scan of the threads goes on nobody idles below its
  cursor.  `PoolsHaveOneThread` (`OneThreadEach`) has the hypothesis
  `Maxes = {1}`, which is how the program uses the pool (`lib.c:19`,
  `mine.c:111`); `OneInv` counts: `njobs` is the number of open pools, each has
  one thread, and so there is one left for the next.
* `MiningFindsAll` (`MiningIsReady`) and `AttemptFits` (`FitsTheChallenge`): any
  number of solvers and threads, any sizes, whichever reallocation is refused.
  "Fits" means the lengths that `sl_resize` and `sp_resize` ask for: that of `sol` may
  still be too short for a path (section 7).
  The invariant says that `max` is never above the length of an array
  (`WellFormed`): growing in any other order would lose it.
  `ProgramTypeCorrect` (`TypeOK`) is the type invariant of both modules.  It and
  `PoolTypeCorrect` stand on their proofs alone: no run repeats them.
* `NoncesDiffer` (`NonceOnce`): any number of solvers, any step and range
  without a common divisor.  `NonceInv` says that what was drawn are the first
  multiples of the step, each in the range of some solver; two of them that fall
  on the same nonce would make the range divide a product with the step, and
  hence the difference of two numbers of draws below it.  The argument about
  divisors (a set of multiples that is closed under subtraction has a least
  element, which divides) is in the module.
* `MinesOnlyRegistered` (`MinesRegistered`): any number of slots, failing
  connections and deaths of the process.  What holds it together is that nothing
  but what the CA said comes down a connection (`Heard`, `Channels`), and that
  its two good answers come from a CA that knows the wallet.
  `FirstEventIsConn` (`ConnComesFirst`): `QueueInv` says that outside the two
  waits nothing is registered, inside them only the events of `sk`, and that a
  connection that nobody has written to has no answer under way.
* all seven invariants of the run `miner`: any number of slots, challenges,
  solvers and messages in flight, and any failure.  `MinerInv` says whom the
  registrations belong to and that a note of a challenge is a nonce for that
  challenge (`QueueInv`, over `UQInv`: what is ready is registered, pending and
  there once), and what the solvers may be doing at each place of the main thread
  (`SolverInv`); from it follow `ChallengeIsWhole`, `SolutionsAreHeard`,
  `SubmissionIsCurrent` and `HearsOwnSocket`.  `ConnInv` adds what each
  connection still owes the CA (`SlotInv`), and what the miner's place and its
  pending event say of its own connection (`OwnInv`): a READ event and a READ
  pending stand for two messages; from it follow `AnnouncedIsThere`,
  `LivePointersAreValid` and `AsksFirst`.  `LivePointersAreValid`
  (`LiveConnIsValid`) is about the two ways to a bad memory access only: both begin
  with the end of the connection.  It does not say that nothing else ends the
  process meanwhile: `mbuf()` may at every message, and `mine()` returns when a
  challenge is refused or memory is short.
* `MbufTypeCorrect` (`TypeOK`), `MessagesAreNotLost` (`OnlyCommandsAreLost`) and
  `BuffersAreMailbox` (`ImplementsMailbox`): any number of connections and
  buffers, any size of a buffer, messages of any length in any fragments.  `Inv`
  says that the memory is a heap (`HeapInv`): every queue begins a chain of taken
  buffers that ends, no two chains meet, and a taken buffer holds a command or is
  in the queue to the user.  Without the second part a `mbufp` for one connection
  could take from the queue of another; without the third a message could be lost
  by `newuconn`, which forgets a queue.  `SlotInv` says that the bytes in the
  fragments' buffer are a beginning of the message that is coming in, that its
  terminating byte has room, and that a slot without a connection has no queue to
  the user.  Each step of `Mbuf` is then one of `Mailbox` on the contents of the
  chains, or none.  The lemmas say what appending, taking and dropping do to one
  chain, and that they leave all others alone.

* `CellsAreSettledOnce` (`ReachedIsSettled`), `ParentIsTheFirst`
  (`ParentIsFirst`) and `PathIsShortest` (`SolutionIsShortest`): grids of any size
  with any blockers.  `Searching` says that the queue is sorted by `costcmp`, that
  its costs are those of the head or one more, that what has left it came before
  what is in it (`QueueInv`), and that what has left it has reached its
  neighbours (`TreeInv`).  So a neighbour that was reached is never improved, which
  is why a list may stand for Dijkstra's heap; and a cell that is reached for the
  first time has all its nearer neighbours in the queue still, the first of which
  is the head.  `Returning` is the way back: the path so far is in the queue at
  costs that rise from `i + 1` to -1, and below the cost of `cur` the search's
  costs are still there.  `BallIs` gives the recursive function `Ball` its
  equations, and `BallReached` shows that what `k` steps lead to costs at most `k`.
  These are theorems of `SPSpec`, the search and the step that leaves it out;
  `AttemptSearches` shows that an attempt (`Spec`) implements it.
* `AnswerIs`: for every challenge and every order of its fields and parameters,
  `chal_parse` has what the answer describes, or refuses it when something unknown
  follows.  `Good` says that once the fields of a set S have been read, the
  challenge holds those fields and nothing else (`Partial`); a pair that is read
  adds its field, whichever come before it.  `AnyOrderParsed` (`ParsesAnyOrder`)
  follows with `ParseInv`.
* `ListIsSorted` (`SortsTheNumbers`): any length, any numbers, either order, each
  of the three sorts.  That nothing is lost is a count of each number in the
  array, the `hole` filled (`SameNums`); order is a matter of each sort.
  * `MergeInv`: the runs of `width` elements are in order, those before `low` in
    `mtmp` are twice as long, and what the merge at hand has put out fits before
    all it has not (`MergingInv`).
  * `HeapInv`: every child from `top` on fits before its parent, but for the
    children of the hole, which fit before its parent (`SinkInv`); what lies behind
    the heap fits behind all in front of it (`Behind`).
  * `SmoothInv`: the array is a row of trees of Leonardo sizes.  A tree, and a row
    of them, are recursive: the definitions are by a certificate, a set V that holds
    the tree and, with each tree, those below it (`TreesIn`, `ForestsIn`), so that
    nothing has to be computed by recursion over the data, and `TreeIs` and `ForestIs` give
    them their equations.  `Goal` says for every place of the loops what the row is:
    while it is built only the roots behind which small trees alone will follow need
    be in order (`PartForest`), while it is taken apart all are, and what lies from
    `seen` on is in its place.  `sift` and `trinkle` are called from several places.
    `Aim` is the set of the arrays that the place of return allows, and `Sifting` and
    `Trinkling` say that whatever puts the element at the hole in order (rearranging
    no more than its tree, or the elements up to the hole) leaves an array of that
    set.  Each turn of the two loops makes the hole's tree, or the row, a smaller one.
* `StringHoldsNumbers` (`HashesTheNumbers`): `HashIs` follows `u64str` digit by
  digit and `mku64str` number by number, over the functions that stand for their
  loops.

Each invariant is proved in the same three parts: the strengthening holds initially,
every action keeps it (one step for each action), and it implies the property.  TLC
has checked the strengthenings as invariants of the runs before, but for `MergeInv`
and `SmoothInv`, which quantify over all numbers and over certificates.  The lemmas
about recursive functions (`Ball`, the parser's loop, the powers of ten, the digits)
take the least number for which they would fail (`Least`): the library's induction
theorems cannot be used.

Only model-checked: all liveness (`LockProgress`, `CallsReturn`,
`PoolCallsReturn`, `JobsRun`, `DropIsNoticed`, `QueryGoesOut`, `Settles`, `Ends`),
which is out of the prover's reach.  That a sort and a search end is stated nowhere:
the fairness of `TPool` assumes that an attempt is finite.

## 5. What is abstracted, and what is not modelled

* In `WSock` messages are their kind and their challenge; their bytes,
  fragments and memory are in `Mbuf`.  That the commands are formatted into
  `MAXMSGLEN` bytes is left out, and whether `mbuf()` finds a buffer is a choice at
  each call.
* In `WSock` and `Mbuf` a call of the translator, and a callback, is one step.
  Both hold the module's lock while they touch a queue, except where they do not
  (`mbuf` itself, `ws.c:278`, `335`): `MbufThreads` has those accesses.
* In `Miner` a challenge has no content: a refusal by the parser is a choice
  (`Attempt` shows when it happens).  `solver_start` does not fail, since
  `MiningIsReady` gives every solver a pool and a thread.
* The work spaces of a challenge follow one size: `params` is a union, and
  `nelems` and `size` are its first member (`libcscoins.h`).
* The 64-bit wrap of the nonces' counter is left out: it takes 2^64 / 3917
  draws, and `NonceOnce` is bounded by a range of 17,500,000 anyway.
* `Parse` begins with tokens.  A text that is not JSON, or has too many tokens,
  fails in jsmn (vendored), and then `chal_parse` fails.  The copies of a token into
  `k[64]` and `v[256]`, and of the hash into `lhash[65]`, have no bound in the code
  (`parse.c:55`, `68-77`); the models have tokens that fit.
* `hex2bin` is modelled for pairs of digits.  Of an odd number the code takes the
  terminating Nul for a digit and reads on behind it (`hex2bin.c:32`), and the
  32 bytes of `pfix` are not checked either.
* `cond_wait` may be woken up without a signal by the kernel: every caller tests
  its condition again, and the model has no such wake-up.
* `Sorts` and `SmoothSort` have the three sorts of `sort()` (`sortlist.c:51-77`).
  A fourth build, with `SL_QUICKSORT`, gives `qsort` comparators that compare the
  pointers (`sortlist.c:34-49`): it is left out, and does not sort (section 7).
* In `Sorts` the numbers are numbers, and 64-bit places and products are not cut
  off: the lengths are far below.  `mtmp` begins with `Garbage`, which is never
  compared.  `heapsort64` of no number at all would wrap its counter: lists have
  one number at least, and the default build uses merge sort.
* Not modelled: `mkseed`, `sha256.c`, `rsa.c` and `mt64.c` compute hashes,
  signatures and random words bit by bit or through OpenSSL; the models choose
  their values.  `wallet.c` loads a key and formats it: `Program` has that it
  may fail.  `strlcpy` and `reallocarray` replace library functions, `printf.c`
  writes; `ca_cainfo` and `strrev` are not called.  Vendored archives, container
  files, certificate scripts and the test of the generator are not part of the
  program.

## 6. The plan

Done: the lock, the worker, the pool, the translator with the miner and with the
registration, the buffers alone and under both threads, the solvers' memory and
nonces, the life of the process, the parser and the conversions, one attempt;
the proofs of section 4.

Every invariant, action property and refinement that a passing run checks is a
theorem.  Next: that the sorts and the search end, with a measure for each loop;
and the departures of section 7 that have no run.

## 7. Where the code departs from what is said of it

With a run that keeps the counterexample:

* `HoldsACopy` (`mbuf.c:37`): `mbuf()` is called before the lock is taken, by
  both threads; both find the same free buffer, and a command becomes a message
  or the other way round.
* `NoCrash` (`ws.c:460`): between the CONN event and `ca_curchal` the connection
  may be destroyed, which resets the pointer that `ws_send` passes on.  The same
  run also has the second way to this state: an old challenge text that is
  parsed again with a length of 0 (`mine.c:126`).
* `GivesUpOnAnswer` (`register.c:100`): `QNOTE_CLOSED` is tested against
  `ue.ident`: a drop is an answer on even slots, an answer a drop on odd ones.

Without a run; each is defined in `MinerDocs`, and TLC finds it violated with the
constants of the run `miner`, or in `TPool` (the last two), where two threads and
pools of one to three are enough:

* `SentIsForwarded` (`ws.c:331`): one WRITEABLE callback relays one message; the
  second of two stays in `oq`.  `QueryGoesOut` is the part that holds.
* `SeveredIsNoticed`: the CLOSED event of a connection that ends between
  `ws_connect` and the registration of its events (`mine.c:190-196`) is lost, and
  the miner waits for ever.  `DropIsNoticed` is the part that holds.
* `ReadFindsMessage`: a connection's end drains the messages that a pending READ
  event announced.
* `MessagesAreRead`: two messages that arrive before the miner looks make one
  event, and the miner reads one message for one event.
* `DelayedIsSent`: a solution found while not connected marks the challenge as
  solved and is forgotten (`mine.c:264-276`).
* `SubmitsOnce`: an error text read a second time, with 0 bytes, resets `solved`.
* `FreeSlotIsEmpty`: the outgoing queue of a destroyed connection keeps its
  messages, and `newuconn` forgets them.
* `DroppedIsSilent`: `dropchal` deletes the registration of another challenge
  than the one it ends (`mine.c:83`).
* `StolenThreadJoins` (`tpool.c:174`): the stolen thread is started for
  `&pools[i]`, the pool it was taken from, and the new pool has none.  The program
  never runs out of threads, so that it does not meet this.
* `NewPoolGetsThread` (`tpool.c:164-176`): a new pool takes a thread from the
  first pool that has not exactly one, perhaps from itself.

Seen in the models, without a property:

* `solver_init` assigns both members of the union `params`: `SL_EXPNUMS` is
  overwritten by `SP_EXPSIZE`, and a list needs memory at its first attempt
  (`solver.c:107-108`, `Program`'s `init_mining`).
* `exit_mining` and `exit_ws` free what the solvers and `ws_dispatch` still use
  (`Stray`); a failed `init_tpool` leaves a freed `pools`, which `exit_tpool`
  frees again when no thread was made.
* `search` writes the digits of each cell of the path, and a Nul, into `sol`, whose
  size is one byte for each cell of the grid (`shortpath.c:343-349`, `497`).  A path
  that winds through a grid of 25 by 25 has about 287 cells and some 900 digits, for
  625 bytes.  `Emit` has the case (`"overrun"`); in the grids of the run `attempt`
  every path fits, and the proofs hold for both.
* Built with `SL_QUICKSORT`, `sort()` puts nothing in order: the comparators convert
  the pointers to the numbers, and not the numbers (`sortlist.c:34-49`).
* `mbuf()` ends the process where `ws/priv.h` says that it returns nil; `u64str`
  of 0 has no digit, so that a 0 in a list leaves no trace in what is hashed.
