# Radiation in TLA+

Models of libvimradiation, the C library behind the Vim plugin Radiation, with
the TLC configurations that check them and TLAPS proofs about them. Radiation
runs a compiler's preprocessor over the file being edited, scans the output for
type and function names, and sends Vim highlighting commands for them.

Paths below are relative to the repository's root; `radiation.c` is
`src/radiation/radiation.c`, `blocking_queue.c` is `src/util/blocking_queue.c`.

## The system

| Part | State | Operations | What makes it correct |
|---|---|---|---|
| blocking queue (`util/blocking_queue.c`) | linked list, mutex, two condition variables | add, take with a timeout, wait_digest | FIFO, each item to one taker, nothing lost on a timeout, no cell used after free, nobody asleep next to an item |
| core (`radiation/radiation.c`) | `g_current_radiator`, `g_servername`, registry, `g_del_bucket`, two queues per radiator | `radiate`, `radiation_next`, `radiation_put_*_message`, `radiation_set_servername`, server calls, the worker's entry `run_as_thread` | the right routine runs for a file; its commands reach Vim once and in order; an answer reaches who asked |
| sequential interface (`impl/sequentialimpl.c`) | none of its own | query (10 ms), error, finished, queue, read | a query returns its own variable's value or the default |
| server interface (`impl/serverimpl.c`) | none of its own | the same through `vim --remote-expr` and `--remote-send` | Vim is asked to digest once per finished file, after the end marker is queued |
| modules (`modules/c`, `cpp`, `test`) | one global radiator each, compiled regexes, blacklist | init, routine, match callback, stderr callback | always finish a file; queue on their own radiator |
| stream buffer (`util/strbuf.c`) | window of 4096 bytes, one relative offset per regex | read, cut, exhaust, scan | reads every byte, terminates, no match cut off |
| subprocess (`util/subprocess.c`) | pipes, children, stderr thread | run_process, spawn_* | no leaked descriptor or child, documented statuses |
| Python and Vim client (`assets`) | error message variables | `:Radiate`, `:RadiationDigest`, `radiation#Error`, digest loop | digests until the file is done |

`:Radiate` calls `radiate()`, which finds the radiator of the file type, makes
it the global *current* one, gives it the sequential or the server interface
and starts a worker thread. The worker runs the radiator's routine, which asks
Vim for variables (a query command on the data queue and an answer on the
message queue; or a `vim --remote-expr` process), runs the compiler and queues
a command per match and then a null pointer. A further thread per compiler
copies its stderr to the user. Vim takes commands with `radiation_next`, which
waits at most a second: at once after `:Radiate` without a server, or on a
`:RadiationDigest` the worker types through the server when it is done.

What is hard here: the queue's hand-made waiting; a global that one thread sets
and others read later; two timeouts (1 s towards Vim, 10 ms towards workers)
after which the other side goes on as if nothing had happened; Vim and workers
waiting for each other; errors that come after the end marker. Nothing is
persisted, so there is no crash recovery. `PROJECT.json` lists every hazard with its line.

## Modules

- `FifoQueue`: the abstract queue.
- `BlockingQueue`: `blocking_queue.c` statement by statement. `pc[t]` says
  where a thread is in its call, `mutex` who owns the lock; a thread that waits
  on the condition variable has `pc[t] = "take_wait"` and owns no lock. List
  cells are numbered as they are allocated and never reused, so `freed` tells a
  use after free from a use. `contents` is the refinement mapping to `FifoQueue`.
- `BlockingQueueProofs`: its inductive invariant and what follows from it.
- `BlockingQueueRefinement`: the proof that it implements `FifoQueue`.
- `Radiation`: the Vim thread (`main`), one worker per radiated file (`pc[w]`),
  the queues, the global, both interfaces, the client and the routines of the
  three modules. It uses queues at the level of `FifoQueue`.
- `RadiationProofs`: types, conservation of commands, destination of answers,
  and the frame lemmas (`Changes`, `WorkerEffect`, `MainEffect`) that say how any
  step changes the queues; the two modules below cite them.
- `RadiationServerProofs`, `RadiationSequentialProofs`: the promise of each of the
  two interfaces.
- `StreamRegex`: `strbuf.c`. A file is a size and, for each regex, the places
  where it begins to match (its *tries*) with what becomes of each: complete
  from which byte on, how far it grows, where its last group ends, or a failure
  and when that is known. `base` and `len` say which part of the file is in the
  window, `rel_pointer` is the code's array of offsets; `resume`, `reports`
  and `lost` are histories: of the place in the file where each regex stopped, of
  what the callback was given, and of the places given up when PCRE failed.
- `StreamRegexProofs`: the safety properties of the scan.
- `Subprocess`: `subprocess.c` with its callers. A call is one run of
  `run_process`, `spawn_waitvp` or `spawn_wait_outvp`; `pc[c]` is its place,
  `open` the descriptors Vim has, `held[c]` the write ends that the child of `c`
  got from `fork`, `data` and `left` the chunks in a pipe and those still to be
  written, `child[c]` and `status[c]` what the kernel knows of the process.
- `SubprocessProofs`: the safety properties of the processes and pipes.
- `SubprocessDeadlockProofs`: that they never all wait for each other.
- `MCBlockingQueue`, `MCRadiation`, `MCStreamRegex`: what TLC needs besides
  (symmetry, the set of Vim variables that have a value, the files to scan).

`Radiation` uses the queue through its abstract specification. `StreamRegex` and
`Subprocess` are composed with nothing: the scan is one thread's affair, whose
matches `Radiation` sees as a choice of commands (`Emit`), and of a process
`Radiation` sees whether it started (`StartStream`, `FailStream`), that its
output ends, and its errors (`ErrorThread`).

Definitions whose comment begins "Mutant of X" are plausible bugs in X,
used to see that each property can fail; no specification contains them.

### From code to actions

| Code | Action of `Radiation` |
|---|---|
| `radiate`, `pick_interface`, `radiation_set_servername`, client's `radiate` | `Radiate`, `RadiateUnknown` |
| `radiation_next` in the loop of `digest_all` | `TakeItem` and the `Next...` actions by what the queue held; `NextSleep`, `NextTimeout` when it was empty |
| an exception in that loop, which nobody catches | `Raises` in `NextCommand`, `NextError`, `NextQueryRaises` |
| `:RadiationDigest`, typed or sent | `ManualDigest`, `TakeKeys` |
| `run_as_thread` | `LoadRoutine`, `LoadRadiator`: the default build (no optimisation, as the Makefile and the README say) loads the global twice. An optimised build may load it once, which is the two actions in succession |
| sequential query | `Ask`, then `TakeAnswer`, or `AwaitAnswer` and `TakeAnswer` or `AnswerTimeout` |
| server query | `AskServer`, `ServerAnswer` |
| routines of `c`, `cpp`, `test` | `Preamble`, `StartStream` or `FailStream`, `Emit`, `Finish`, `CallDigest` |
| `error_thread_run` with the modules' callbacks | `ErrorThread` |

| Code | Action of `StreamRegex` |
|---|---|
| `new_strbuf`, `strbuf_read` | `Init` |
| head of the loop of `strbuf_stream_regex8`, `strbuf_cut_offset`, `strbuf_read` | `Cut` |
| one `pcre_exec` of `strbuf_exhaust` | `Match`, `PartialMatch`, `NoMatch`; `ExecFails` for any other result |
| shift of the offsets and choice of the smallest | `Pick` |

| Code | Action of `Subprocess` |
|---|---|
| `pipe` and its error returns | `OpenPipe`, `PipeFails`; `OpenSecond`, `SecondFails` in `run_process` |
| `fork`, and what the child does until `exec` or `exit` | `Fork`, `ForkFails` |
| `close` of the write ends, start of the error thread | `CloseWrite` |
| the worker reading the compiler's output and closing it | `ReadOutput`, `EndOutput`, `CloseOutput` |
| `read`, `close`, `waitpid` of the spawn functions | `ReadOnce`, `Wait` |
| `error_thread_run` | `ReadError`, `EndErrors` |
| the child (external) | `Write`, `Exit` |

## Runs

| Run | Shows | Bounds |
|---|---|---|
| `bq_shared` | list well formed (`AssertsHold`), memory safe (`HeapSafe`), the proofs' `IInv`, `ImplementsFifo` | 2 adders, 2 takers, 1 digester, 2 values, 3 adds: enough for an add to an empty and to a non-empty list, the last item and a middle one being taken, and two frees at once |
| `bq_single` | `NoNullDereference`, `NoStrandedTaker`, `CallsReturn` | 2 adders, 1 taker, 4 adds, no spurious wake-ups |
| `bq_stolen` | *violation*: with two takers `NoNullDereference` fails | 2 takers, 2 adds |
| `rad_sequential` | `CommandsConserved`, `AnswersReachAskers`, `SequentialClean` | 2 radiates of types c and test, 1 match and 1 stderr chunk each; Vim may get a server name at any time; commands, queries and errors may raise an exception (`MayRaise`), here and in the next two |
| `rad_server` | `CommandsConserved`, `ServerDrains` | 2 radiates of types c and cpp, 1 manual digest |
| `rad_returns` | `DigestReturns`, `WorkersEnd` | 2 radiates of type test (whose routine may end without an end marker), 1 manual digest, with and without a server |
| `rad_answers` | *violation*: `QueryAnswersMatch`, a late answer becomes the next query's | 2 radiates of type c |
| `rad_filetype` | *violation*: `RoutineMatchesFiletype`, a second `:Radiate` changes the first worker's routine | types c and cpp, server |
| `stream` | `WindowInFile`, `OffsetsConsistent`, `NothingDropped`, `SeparateMatchesFound`, `ReportsForward`, `TurnsAdvance`, `ScanEnds` | 3 regexes, window of 2 bytes, every file of 5 bytes with up to 2 tries of the first regex and up to 1, the same, of the others; PCRE may fail anywhere for the first (`Failing`) |
| `stream_window` | *violation*: `WindowExhausted`, going on one past the last group skips a match | 1 regex, window of 3 bytes, files of 4 |
| `subprocess` | `EndMeansAllRead`, `DescriptorsAccounted`, `StatusIsOwn`, `OnlyCompilersLeft`, `EveryCallReturns` | 2 workers, at most one with the server interface; 2 chunks of output, 1 of errors, an answer of up to 1, pipes that hold 1; pipes, forks and execs may fail (`MayFail`) |
| `subprocess_blocked` | `NeverStuck` | 2 workers, up to two with the server interface; compilers that write up to 3 chunks of errors to pipes that hold 1, and no output; nothing fails |

In `stream` a match can lie inside a window, across its end or across a whole
window, the file is not a multiple of the window, and with three regexes the
choice of the next one has ties and offsets that are shifted twice. Tries longer
than a window and a byte are left out: they are never complete, like those
of that length. In `subprocess` a child of one worker inherits pipes of the other
at every stage, a compiler blocks on its full stdout, and two threads wait for
children at once. `rad_server` has a C module that may fail to load.

`subprocess_blocked` is for the circle that processes and threads could form. A
compiler writes a chunk that its error thread takes, another that fills the pipe,
and then blocks on the third as long as the error thread is in its call; the call
waits for the end of a pipe that the other compiler may have inherited. With
two servers both compilers and both error threads get there at once, and the run
comes to states in which all of that is so. The compilers' output makes no
difference to this, since a worker only reads it, and is left out to keep
the run small. After a failed fork nothing is promised: an error thread that waits
with pid -1 for any child could wait for the very compiler whose errors it should
read. `EveryCallReturns` excludes that in the same way.

Two radiates give one pair of every kind that can interfere: two workers of
one radiator, two radiators, an old worker whose digest timed out with a new
one. One variable of each radiator has a value and the other has none, so both
kinds of answer occur.

`SequentialClean` is the promise of the mode without a server, and it holds
only while no take has timed out and no exception has ended a digest; the runs
that expect a violation show what the timeouts can do. An exception needs little:
`radiation.py` puts the compiler's text between apostrophes (line 17), so an
error that holds one makes `vim.command` raise, and the digest ends with the
commands behind that error and the end marker still queued. `raised` remembers that.
`CommandsConserved`, `DigestReturns` and `WorkersEnd` hold in spite of exceptions.
`ServerDrains` promises nothing after one either, and is limited to files of
one type: with two, the digest reads the queue of the radiator that is current by
then. The two runs that expect a violation leave exceptions out: theirs need none.

`SeparateMatchesFound` is what the scan does promise: a match that fits into the
window and touches no other place where its regex begins to match is reported,
unless it begins in a part of the file that was given up when `pcre_exec`
failed for its regex (the match limit, say; `strbuf.c:111-113`). The other matches may be lost or cut: one that begins where the last group of
another ends (`stream_window`), one nested in another, a partial match at the
very start of a window, with the rest of that window, and the end of a match
that could go on past the window.

Deadlock is checked in `bq_single`, `stream` and `subprocess`. In the others
the process may end (a null dereference) or the user may do nothing more.

## Fairness

A thread inside the library is never stopped and a timed wait ends, so
`BlockingQueue` has weak fairness per thread for the steps of a call, not for
starting one. Weak fairness does not in general get a thread a contended
mutex; it does here because the calls of the others are bounded (`MaxAdds`; a
worker queues finitely many commands). `Radiation` has weak fairness for what
the Vim thread does inside the library and with typed keys, and for each
worker. There is none for the user, nor for the stderr threads, which depend
on the compiler. A stream ends because the compiler does. `StreamRegex` has weak
fairness for `Next`: it is one loop of one thread. `Subprocess` has the same:
the threads and children go on as long as any can, and since none repeats a
step for ever each gets its turn; the kernel owes no more than that.

## Proofs

`BlockingQueueProofs` proves, for any sets of threads and values, any bound on
adds, with or without spurious wake-ups:

- `Invariance`: `Spec => []IInv`. The checked invariants are not inductive. `IInv`
  adds that a thread is in its critical section exactly when it owns the mutex
  (`MutexInv`), that a thread only runs the calls of its role (`RoleInv`), that
  the list is the run of cells from `head` to `tail`, with the exceptions that
  the owner of the mutex may be making at its program counter (`ListInv`), that
  a cell is on the list, held by one thread, or freed (`HeapInv`), and that
  allocated cells hold values (`DataInv`). One lemma per conjunct, one step per
  action; the mutex invariant gives that only one thread disturbs the list.
- `TypeCorrect`, `AssertsCorrect`, `HeapCorrect`: the invariants of `bq_shared`.
- `SingleTaker`, `NobodyStranded`: with at most one taker and no spurious
  wake-up, no null dereference and no taker asleep next to an item, by the further
  invariant `WakeInv`. `bq_stolen` shows why the first assumption is needed; the
  second is POSIX's licence to the condition variable.

`BlockingQueueRefinement` proves `Implementation`: `Spec => ImplementsFifo`.
Lemmas about the segment of `data` between `front` and `tail` show that
`AddFirst` and `AddTail` append, `TakeRead` removes the head, and every other
step leaves `contents` and `into` alone.

`RadiationProofs` proves, for any subset of the modules, any number of radiates,
commands, errors and digests, with or without a server:

- `SessionTypeCorrect`: from `RInv`, the type invariant with `WorkInv`. Types alone are
  not inductive: a worker's routine and its radiator are modules, not null, from
  the program counter at which it has read them.
- `AnswersFindAskers`: every answer lies with the radiator of a worker that asked
  for it. The invariant `AskInv` says the same of the queries still on the data
  queues, since an answer goes to whatever radiator Vim is digesting.
- `CommandsAreConserved`: `ConserveInv`. The queue of a worker's output holds exactly
  the commands after those executed, in order, and no other queue holds any. It is
  proved by what taking from the front and adding at the end do to the places of
  one worker's commands (`Of`, `InOrder`).
- `EndMarkersFollow`: behind each queued command of a worker that has ended is an
  end marker (`MarkedInv`). It needs `ConserveInv`: a step that queues the end
  marker puts it on the queue that holds the worker's commands. `ServerDrains`
  and `SequentialClean` rest on it.

`RadiationServerProofs` proves `ServerLeavesNothing`: `Spec => []ServerDrains`. Its
invariant `ServerInv` counts. While all files are of the type of one radiator and
no exception has ended a digest (which takes a digest away and leaves its marker), the
end markers on its queue are at most the digests to come: those typed and not yet
begun, the workers that have queued their marker and not yet asked, and the
running digest. A digest that sleeps is counted once more on the side of the
markers, since it may time out as a marker arrives; the manual digests only add
to the other side. So with no digest to come there is no marker, by `MarkedInv`
no command of a worker that is done, and by `ConserveInv` all its commands have
been executed. A hypothesis about the files' types is not an assumption of the
theorem but part of the invariant: `ServerInv` says of each radiator what holds as
long as every file so far is of its type.

`RadiationSequentialProofs` proves `SequentialIsClean`: `Spec => []SequentialClean`.
`SequentialInv` holds while there is no server, nothing has timed out and no exception
has ended a digest. It says
that at most one worker is active, and Vim digests for it (`AloneInv`); that queues
hold nothing but errors when Vim does not digest, and nothing but errors behind an
end marker (`QueueInv`); and that there is at most one query or answer on its way,
the one the worker waits for (`AnswerInv`). The three need one another: the
digest is the right one because no other worker is active, and no other is
because the end marker, at which the digest stops, is the last thing a worker does.

`StreamRegexProofs` proves, for any number of regexes, any window and any files:

- `ScanTypeCorrect`, `WindowIsPartOfFile`, `OffsetsStayConsistent`,
  `NothingIsDropped`, from one invariant `ScanInv`. Its part `OffsetInv` says what
  the offsets mean also during a turn, when the others' still lack this turn's
  shift, and that the regex that runs is furthest behind.
- `ReportsGoForward` from `ReportInv`: whatever a regex has reported begins before
  the place it has come to. `TurnsDoAdvance`, an action property: the regex that
  runs is the one furthest behind, and leaves the window further on than it was.
- `SeparateMatchesAreFound` from `FoundInv`: a separate match that fits into the
  window is reported, still in front of its regex, or in what was given up
  when PCRE failed.

`SubprocessProofs` proves, for any workers, any amount of output and errors and
pipes of any capacity, whatever pipes, forks and execs fail, from one invariant `PInv`:

- `ProcessTypeCorrect`. The types are not inductive: that an error thread reads no
  more chunks than there were needs `CountInv`, which follows a chunk from the
  child through the pipe to the thread.
- `EndsAreEnds`: no end of file before the compiler's end, and nothing unread at
  it. `PipeInv` says why: a child was forked while Vim had the write ends of its
  pipes, so it holds them as long as it runs; before there is a child nothing is
  in its pipes, and after it nothing is left to be written.
- `DescriptorsAreAccounted`, by `PlaceInv` (which places a call of each kind comes
  to) and `OrderInv` (the calls of a worker and of its error thread follow one
  another, and the error thread is in at most one).
- `StatusesAreOwn`, `OnlyCompilersAreLeft`: `StatusInv` says that, while no fork has
  failed, a call has an unreaped child until it returns its status. After a
  failed fork a wait for pid -1 may take the child of another call, which is why
  both properties stop there.

`SubprocessDeadlockProofs` proves `NobodyIsStuck`: `Spec => []NeverStuck`, the
absence of deadlock, stated by the guards of calls, children and error threads
since `ENABLED` is out of the prover's reach (TLC finds them equal to it in an
instance with two workers in which no fork fails). If nobody can go on, a running child is a compiler whose stderr is full,
because a client's pipe has room for its answer and a worker reads its compiler's
output. Its error thread is not reading, so it is in a call, and that call waits
for the end of a pipe that another running compiler has inherited. `AgeInv`
numbers the compilers in the order of their forks and says that the other is
younger: the pipes of an error thread's calls are opened after its own compiler
was forked, and inherited by what is forked after that. The youngest running
compiler thus has nobody to wait for, so none runs, and then every read comes to
an end and every wait has its child. `ThreadInv` and `HeldInv` are what this needs
besides `PInv`: an error thread in a call has not returned from it, is gone only
when its compiler has ended, and only running children have descriptors.

Assumptions: `BlockingQueueAssumption` (the "no thread" value is not a thread,
the bound is a number), `RadiationAssumption` (which modules there are),
`StreamAssumption` (what a try is: it is not empty, its group lies in it, one per
place), `SubprocessAssumption` (the bounds are numbers, a pipe holds at least
one chunk, and a client answers in at most one; nothing about what fails); `SingleTaker` and `NobodyStranded` state their own two.

Every invariant and safety property of the passing runs is thus proved. Only
model-checked are the liveness properties, which are out of the prover's reach:
`CallsReturn`, `DigestReturns`, `WorkersEnd`, `ScanEnds` and `EveryCallReturns`. The
strengthened invariants were checked by TLC before they were proved.

## Abstractions

- The clock: a timed wait may expire at any moment after it began.
- Memory allocation succeeds, and so does the `pthread_create` of `run_process`;
  that of `radiate` may fail. Vim clients can be run in `Radiation`; in
  `Subprocess` they may fail.
- Commands are numbered per worker, file contents and regexes are a choice of
  how many commands to queue. The tables that map a group of a match to a
  highlight and the blacklist are constant data inside that choice.
- PCRE is external: `StreamRegex` takes from it what `pcre_exec` with
  `PCRE_PARTIAL` reports, with complete matches before partial ones.
- The queue in `Radiation` is the FIFO that `BlockingQueue` implements. The
  crash that two workers on one message queue can cause is the subject of
  `bq_stolen` and not repeated there.
- The assignment of an interface to a radiator is one step; in C it copies six
  pointers one by one, each of which is seen old or new.
- The keystrokes a server receives are typed one command at a time while Vim
  waits for input.
- An exception ends the digest at the item that raised it; a command that raised
  counts as one that Vim was given. An exception in `:Radiate` before
  `digest_all` is left out.
- A program that cannot be run exits with 1, 32 or 3294, of which `Status` keeps the
  low byte as the kernel does: where `subprocess.h:31` has "ec 3294 = exec
  failed", `spawn_wait_outvp` returns 56832. Nobody looks at it.
- A pipe holds chunks; a chunk is what one read or write moves. The queries of
  a routine are calls like those of the error thread and not repeated in
  `Subprocess`.

## Not modelled

- `wait_digest` in `Radiation`, `spawn_oevp`, `radiator_signal_end` and
  `radiator_query_variable_default`: nothing calls them.
- The registry's tree (third-party), build and installation scripts, error texts.
- The blacklist: a set that is filled before any thread starts and only read.
- The bytes of `radiation_server_call`'s buffers and the bounds of the highlight
  tables: out-of-bounds accesses whose effect depends on the link order.
- `message_delete` and releases of memory outside the queue, except that `PROJECT.json` lists the
  hazards among them.

## Plan

The safety properties are proved. What is left is the safety half of the
liveness properties, as theorems that need no fairness:

1. `StreamRegex`: a measure on the window and the offsets that no step raises and
   each turn lowers, so that a scan has only finitely many steps.
2. `Radiation`: a worker has at most one digest outstanding.
