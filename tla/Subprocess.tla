----------------------------- MODULE Subprocess -----------------------------
(***************************************************************************)
(* The child processes of a Vim with libvimradiation loaded, and the pipes *)
(* to them: src/util/subprocess.c, as the workers and their error threads  *)
(* use it.  A worker runs the compiler and reads its output ("compile"),   *)
(* tells the Vim server of an error if that was impossible ("failed") and  *)
(* asks it to digest ("digest"); its error thread sends each chunk of the  *)
(* compiler's stderr to the server ("error").  Without the server          *)
(* interface only the compiler is run.  The queries before it are calls    *)
(* like "error".                                                           *)
(*                                                                         *)
(* A call is one run of run_process (compile), of spawn_waitvp (digest) or *)
(* of spawn_wait_outvp (the others).  The kernel is modelled from its use: *)
(* fork copies every descriptor that Vim has open, of all its threads, and *)
(* nothing closes these copies before the child ends.                      *)
(***************************************************************************)
EXTENDS Integers

CONSTANTS MaxWorkers,  \* bound: files radiated, each by a worker of its own
          MaxServers,  \* bound: how many of them use the server interface
          MaxOutput,   \* bound: chunks a compiler writes to its stdout
          MaxErrors,   \* bound: chunks a compiler writes to its stderr
          MaxAnswer,   \* bound: chunks a vim client writes to its stdout
          Capacity,    \* the chunks a pipe holds
          MayFail      \* what may fail: "pipe", "fork", "exec"

ASSUME SubprocessAssumption ==
  /\ {MaxWorkers, MaxErrors, Capacity} \subseteq Nat \ {0}
  /\ MaxOutput \in Nat /\ MaxAnswer \in {0, 1}
  /\ MaxServers \in 0 .. MaxWorkers
  /\ MayFail \subseteq {"pipe", "fork", "exec"}

Workers == 1 .. MaxWorkers
Calls == Workers \X ({<<k, 0>> : k \in {"compile", "failed", "digest"}}
                       \cup {<<"error", n>> : n \in 1 .. MaxErrors})
Call(w, kind) == <<w, <<kind, 0>>>>
Error(w, n) == <<w, <<"error", n>>>>
Kind(c) == c[2][1]

(* A pipe belongs to a call: the child writes its "out" or its "err". *)
PipesOf(c) == {c} \X (CASE Kind(c) = "compile" -> {"out", "err"}
                       [] Kind(c) = "digest" -> {}
                       [] OTHER -> {"out"})
Pipes == UNION {PipesOf(c) : c \in Calls}

VARIABLES
  server,     \* the workers whose radiator has the server interface; which
              \* of the workers those are makes no difference
  pc,         \* pc[c]: where call c is
  errors,     \* errors[w]: the error thread: "none", "reads", "calls", "gone"
  chunks,     \* chunks[w]: the chunks of stderr it has read
  open,       \* the descriptors Vim has open: <<pipe, "r">> and <<pipe, "w">>
  held,       \* held[c]: the pipes whose write end c's child has open
  data,       \* data[p]: the chunks in pipe p
  left,       \* left[p]: the chunks the child still writes to p
  child,      \* child[c]: "none", "runs", "zombie" or "reaped"
  status,     \* status[c]: the wait status of c's child
  result,     \* result[c]: what a spawn function returned, -1 until then
  forkFailed  \* history: has any fork failed?

kernel == <<held, data, left, child, status>>
vars == <<server, pc, errors, chunks, open, kernel, result, forkFailed>>

(* What exit codes become in the status that waitpid stores. *)
Status(code) == (code % 256) * 256
Codes == {0, 1, 32, 3294}
Results == {Status(code) : code \in Codes} \cup {3293}

Init ==
  /\ server \in {1 .. n : n \in 0 .. MaxServers}
  /\ pc = [c \in Calls |-> "idle"]
  /\ errors = [w \in Workers |-> "none"]
  /\ chunks = [w \in Workers |-> 0]
  /\ open = {}
  /\ held = [c \in Calls |-> {}]
  /\ data = [p \in Pipes |-> 0]
  /\ left = [p \in Pipes |-> 0]
  /\ child = [c \in Calls |-> "none"]
  /\ status = [c \in Calls |-> 0]
  /\ result = [c \in Calls |-> -1]
  /\ forkFailed = FALSE

------------------------------------------------------------------------------
(* Where a worker, or its error thread, makes a call. *)
Returned(c) == pc[c] \in {"done", "failed"}
Ready(c) ==
  LET w == c[1] IN
  /\ pc[c] = "idle"
  /\ CASE Kind(c) = "compile" -> TRUE
       [] Kind(c) = "failed"  -> w \in server /\ pc[Call(w, "compile")] = "failed"
       [] Kind(c) = "digest"  -> /\ w \in server
                                 /\ \/ pc[Call(w, "compile")] = "ended"
                                    \/ Returned(Call(w, "failed"))
       [] OTHER -> errors[w] = "calls" /\ chunks[w] = c[2][2]

At(c, here, there) == pc[c] = here /\ pc' = [pc EXCEPT ![c] = there]
Ends(p) == {<<p, "r">>, <<p, "w">>}
EndOfFile(p) == data[p] = 0 /\ <<p, "w">> \notin open
                /\ \A c \in Calls : p \notin held[c]

(* The first pipe, or none: spawn_wait_outvp returns 3293, run_process NULL. *)
OpenPipe(c) ==
  /\ Ready(c) /\ Kind(c) # "digest"
  /\ At(c, "idle", IF Kind(c) = "compile" THEN "second" ELSE "fork")
  /\ open' = open \cup Ends(<<c, "out">>)
  /\ UNCHANGED <<server, errors, chunks, kernel, result, forkFailed>>

PipeFails(c) ==
  /\ "pipe" \in MayFail
  /\ Ready(c) /\ Kind(c) # "digest"
  /\ At(c, "idle", "failed")
  /\ result' = IF Kind(c) = "compile" THEN result ELSE [result EXCEPT ![c] = 3293]
  /\ errors' = IF Kind(c) = "error" THEN [errors EXCEPT ![c[1]] = "reads"] ELSE errors
  /\ UNCHANGED <<server, chunks, open, kernel, forkFailed>>

(* The second pipe of run_process.  If there is none, the first stays open. *)
OpenSecond(c) ==
  /\ At(c, "second", "fork")
  /\ open' = open \cup Ends(<<c, "err">>)
  /\ UNCHANGED <<server, errors, chunks, kernel, result, forkFailed>>

SecondFails(c) ==
  /\ "pipe" \in MayFail
  /\ At(c, "second", "failed")
  /\ UNCHANGED <<server, errors, chunks, open, kernel, result, forkFailed>>

(* The write ends the child of a fork has open, from then to its end. *)
Inherited == {p \in Pipes : <<p, "w">> \in open}

(* fork follows the pipes; spawn_waitvp has none. *)
ForkPoint(c) ==
  IF Kind(c) = "digest" THEN Ready(c) /\ At(c, "idle", "wait") ELSE At(c, "fork", "close")

(* The child's program writes: a compiler all its output and some errors,  *)
(* a vim client the answer to a query, or nothing if it only sends keys.   *)
(* One that cannot be run writes nothing; that of run_process then writes  *)
(* a message to stderr.                                                    *)
ExecFailure(c) ==
  CASE Kind(c) = "compile" -> 1 [] Kind(c) = "digest" -> 32 [] OTHER -> 3294

Writes(c, ok) ==
  CASE Kind(c) = "compile" /\ ok -> {[out |-> MaxOutput, err |-> n] : n \in 0 .. MaxErrors}
    [] Kind(c) = "compile" /\ ~ok -> {[out |-> 0, err |-> 1]}
    [] OTHER -> {[out |-> n, err |-> 0] : n \in IF ok THEN 0 .. MaxAnswer ELSE {0}}

Fork(c) ==
  /\ ForkPoint(c)
  /\ child' = [child EXCEPT ![c] = "runs"]
  /\ held' = [held EXCEPT ![c] = Inherited]
  /\ \E ok \in BOOLEAN : \E f \in Writes(c, ok) :
       /\ ok \/ "exec" \in MayFail
       /\ left' = [p \in Pipes |-> IF p[1] = c THEN f[p[2]] ELSE left[p]]
       /\ status' = [status EXCEPT ![c] = Status(IF ok THEN 0 ELSE ExecFailure(c))]
  /\ UNCHANGED <<server, errors, chunks, open, data, result, forkFailed>>

(* fork returns -1, which is not 0: the caller goes on as the parent. *)
ForkFails(c) ==
  /\ "fork" \in MayFail
  /\ ForkPoint(c)
  /\ forkFailed' = TRUE
  /\ UNCHANGED <<server, errors, chunks, open, kernel, result>>

(* Mutant of CloseWrite: the parent keeps the write ends. *)
CloseNothing(c) ==
  /\ At(c, "close", "read")
  /\ errors' = IF Kind(c) = "compile" THEN [errors EXCEPT ![c[1]] = "reads"] ELSE errors
  /\ UNCHANGED <<server, chunks, open, kernel, result, forkFailed>>

(* The parent closes the write ends; run_process starts the error thread. *)
CloseWrite(c) ==
  /\ At(c, "close", "read")
  /\ open' = open \ {<<p, "w">> : p \in PipesOf(c)}
  /\ errors' = IF Kind(c) = "compile" THEN [errors EXCEPT ![c[1]] = "reads"] ELSE errors
  /\ UNCHANGED <<server, chunks, kernel, result, forkFailed>>

(* The worker reads the compiler's output up to its end. *)
ReadOutput(c) ==
  /\ pc[c] = "read" /\ Kind(c) = "compile"
  /\ data[<<c, "out">>] > 0
  /\ data' = [data EXCEPT ![<<c, "out">>] = @ - 1]
  /\ UNCHANGED <<server, pc, errors, chunks, open, held, left, child, status,
                 result, forkFailed>>

(* Mutant of EndOutput: an empty pipe is taken for the end. *)
EndOutputWhenEmpty(c) ==
  /\ Kind(c) = "compile" /\ At(c, "read", "ended")
  /\ data[<<c, "out">>] = 0
  /\ UNCHANGED <<server, errors, chunks, open, kernel, result, forkFailed>>

EndOutput(c) ==
  /\ Kind(c) = "compile" /\ At(c, "read", "ended")
  /\ EndOfFile(<<c, "out">>)
  /\ UNCHANGED <<server, errors, chunks, open, kernel, result, forkFailed>>

(* The stream is closed after finished, which with a server asks Vim to    *)
(* digest.  Mutant of CloseOutput: it is not closed.                       *)
CloseOutputNot(c) ==
  /\ At(c, "ended", "done")
  /\ c[1] \in server => pc[Call(c[1], "digest")] = "done"
  /\ UNCHANGED <<server, errors, chunks, open, kernel, result, forkFailed>>

CloseOutput(c) ==
  /\ At(c, "ended", "done")
  /\ c[1] \in server => pc[Call(c[1], "digest")] = "done"
  /\ open' = open \ {<<<<c, "out">>, "r">>}
  /\ UNCHANGED <<server, errors, chunks, kernel, result, forkFailed>>

(* spawn_wait_outvp reads once, one chunk or the end. *)
ReadOnce(c) ==
  /\ Kind(c) # "compile" /\ At(c, "read", "wait")
  /\ \/ data[<<c, "out">>] > 0 /\ data' = [data EXCEPT ![<<c, "out">>] = @ - 1]
     \/ EndOfFile(<<c, "out">>) /\ UNCHANGED data
  /\ open' = open \ {<<<<c, "out">>, "r">>}
  /\ UNCHANGED <<server, errors, chunks, held, left, child, status, result,
                 forkFailed>>

(* The children a call waits for.  Mutant of Awaited: any of them. *)
AwaitAny(c) == {d \in Calls : child[d] \in {"runs", "zombie"}}

(* Its own, or if the fork failed and the pid is -1 any of Vim's. *)
Awaited(c) == IF child[c] # "none" THEN {c} \cap {d \in Calls : child[d] # "reaped"}
              ELSE {d \in Calls : child[d] \in {"runs", "zombie"}}

(* Mutant of Wait: it does not wait (WNOHANG) for a child that still runs. *)
WaitNotAtAll(c) ==
  /\ At(c, "wait", "done")
  /\ \E s \in Results : result' = [result EXCEPT ![c] = s]
  /\ errors' = IF Kind(c) = "error" THEN [errors EXCEPT ![c[1]] = "reads"] ELSE errors
  /\ UNCHANGED <<server, chunks, open, kernel, forkFailed>>

(* waitpid stores a status, or fails and leaves what was in ret. *)
Wait(c) ==
  /\ At(c, "wait", "done")
  /\ \/ \E d \in Awaited(c) :
          /\ child[d] = "zombie"
          /\ child' = [child EXCEPT ![d] = "reaped"]
          /\ result' = [result EXCEPT ![c] = status[d]]
     \/ /\ Awaited(c) = {}
        /\ \E s \in Results : result' = [result EXCEPT ![c] = s]
        /\ UNCHANGED child
  /\ errors' = IF Kind(c) = "error" THEN [errors EXCEPT ![c[1]] = "reads"] ELSE errors
  /\ UNCHANGED <<server, chunks, open, held, data, left, status, forkFailed>>

------------------------------------------------------------------------------
(* The error thread of w's compiler: each chunk of stderr goes to the      *)
(* callback, which with a server is a call; the end ends the thread.       *)
Stderr(w) == <<Call(w, "compile"), "err">>

(* Mutant of ReadError: the end is taken for another, empty chunk. *)
ReadErrorAtEnd(w) ==
  /\ errors[w] = "reads" /\ (data[Stderr(w)] > 0 \/ EndOfFile(Stderr(w)))
  /\ data' = [data EXCEPT ![Stderr(w)] = IF @ > 0 THEN @ - 1 ELSE 0]
  /\ chunks' = [chunks EXCEPT ![w] = @ + 1]
  /\ errors' = IF w \in server THEN [errors EXCEPT ![w] = "calls"] ELSE errors
  /\ UNCHANGED <<server, pc, open, held, left, child, status, result, forkFailed>>

ReadError(w) ==
  /\ errors[w] = "reads" /\ data[Stderr(w)] > 0
  /\ data' = [data EXCEPT ![Stderr(w)] = @ - 1]
  /\ chunks' = [chunks EXCEPT ![w] = @ + 1]
  /\ errors' = IF w \in server THEN [errors EXCEPT ![w] = "calls"] ELSE errors
  /\ UNCHANGED <<server, pc, open, held, left, child, status, result, forkFailed>>

EndErrors(w) ==
  /\ errors[w] = "reads" /\ EndOfFile(Stderr(w))
  /\ errors' = [errors EXCEPT ![w] = "gone"]
  /\ open' = open \ {<<Stderr(w), "r">>}
  /\ UNCHANGED <<server, pc, chunks, kernel, result, forkFailed>>

(* The children: they write, unless the pipe is full, and exit. *)
Write(c) ==
  \E p \in PipesOf(c) :
    /\ child[c] = "runs" /\ left[p] > 0 /\ data[p] < Capacity
    /\ left' = [left EXCEPT ![p] = @ - 1]
    /\ data' = [data EXCEPT ![p] = @ + 1]
    /\ UNCHANGED <<server, pc, errors, chunks, open, held, child, status, result,
                   forkFailed>>

Exit(c) ==
  /\ child[c] = "runs"
  /\ \A p \in PipesOf(c) : left[p] = 0
  /\ child' = [child EXCEPT ![c] = "zombie"]
  /\ held' = [held EXCEPT ![c] = {}]
  /\ UNCHANGED <<server, pc, errors, chunks, open, data, left, status, result,
                 forkFailed>>

------------------------------------------------------------------------------
CallStep(c) ==
  \/ OpenPipe(c) \/ PipeFails(c) \/ OpenSecond(c) \/ SecondFails(c)
  \/ Fork(c) \/ ForkFails(c) \/ CloseWrite(c)
  \/ ReadOutput(c) \/ EndOutput(c) \/ CloseOutput(c) \/ ReadOnce(c) \/ Wait(c)
ChildStep(c) == Write(c) \/ Exit(c)
ErrorStep(w) == ReadError(w) \/ EndErrors(w)

(* The worker has done all it does. *)
WorkerDone(w) ==
  /\ Returned(Call(w, "compile"))
  /\ w \in server => Returned(Call(w, "digest"))
  /\ errors[w] \in {"none", "gone"}

AllDone == (\A w \in Workers : WorkerDone(w)) /\ \A c \in Calls : child[c] # "runs"
Finished == AllDone /\ UNCHANGED vars

Next ==
  \/ \E c \in Calls : CallStep(c) \/ ChildStep(c)
  \/ \E w \in Workers : ErrorStep(w)
  \/ Finished

Spec == Init /\ [][Next]_vars

(* The threads and the children go on as long as any of them can; none of  *)
(* them repeats a step for ever, so this gives each of them its turn.      *)
FairSpec == Spec /\ WF_vars(Next)

------------------------------------------------------------------------------
TypeOK ==
  /\ server \subseteq Workers
  /\ pc \in [Calls -> {"idle", "second", "fork", "close", "read", "ended",
                       "wait", "failed", "done"}]
  /\ errors \in [Workers -> {"none", "reads", "calls", "gone"}]
  /\ chunks \in [Workers -> 0 .. MaxErrors]
  /\ open \subseteq Pipes \X {"r", "w"}
  /\ held \in [Calls -> SUBSET Pipes]
  /\ data \in [Pipes -> 0 .. Capacity]
  /\ left \in [Pipes -> Nat]
  /\ child \in [Calls -> {"none", "runs", "zombie", "reaped"}]
  /\ status \in [Calls -> Results]
  /\ result \in [Calls -> Results \cup {-1}]
  /\ forkFailed \in BOOLEAN

(* Whatever descriptors the children of other calls have inherited, and    *)
(* even if its own fork failed, a worker that sees the end of its          *)
(* compiler's output has read all of it from a compiler that has ended.    *)
EndMeansAllRead ==
  \A w \in Workers :
    LET c == Call(w, "compile") IN
    pc[c] \in {"ended", "done"} =>
      child[c] # "runs" /\ left[<<c, "out">>] = 0 /\ data[<<c, "out">>] = 0

(* The descriptors Vim keeps are those of calls and error threads that are *)
(* still at work, write ends only until the fork is done, and the first    *)
(* pipe of a run_process that got no second.                               *)
InUse(p) ==
  LET c == p[1] IN
  IF p[2] = "out"
    THEN pc[c] \in {"second", "fork", "close", "read", "ended"}
    ELSE pc[c] \in {"fork", "close"} \/ (Kind(c) = "compile" /\ errors[c[1]] \in {"reads", "calls"})
Leaked(p) == p[2] = "out" /\ Kind(p[1]) = "compile" /\ pc[p[1]] = "failed"
DescriptorsAccounted ==
  \A d \in open :
    \/ InUse(d[1]) /\ (d[2] = "w" => pc[d[1][1]] \in {"second", "fork", "close"})
    \/ Leaked(d[1])

(* While no fork has failed, what spawn_waitvp and spawn_wait_outvp return *)
(* is the status of the child of this very call, whatever other threads    *)
(* wait for.                                                               *)
StatusIsOwn ==
  ~forkFailed =>
    \A c \in Calls : result[c] \notin {-1, 3293} =>
      child[c] = "reaped" /\ result[c] = status[c]

(* What is left when all workers are done: no child but the compilers,     *)
(* which nobody waits for, stays a zombie.                                 *)
OnlyCompilersLeft ==
  AllDone /\ ~forkFailed =>
    \A c \in Calls : child[c] = "zombie" => Kind(c) = "compile"

(* Where a call, a child and an error thread are not blocked.              *)
MayRead(p) == data[p] > 0 \/ EndOfFile(p)
CallGoesOn(c) ==
  \/ Ready(c)
  \/ pc[c] \in {"second", "fork", "close"}
  \/ pc[c] = "read" /\ MayRead(<<c, "out">>)
  \/ pc[c] = "ended" /\ (c[1] \in server => pc[Call(c[1], "digest")] = "done")
  \/ pc[c] = "wait" /\ (Awaited(c) = {} \/ \E d \in Awaited(c) : child[d] = "zombie")
ChildGoesOn(c) ==
  /\ child[c] = "runs"
  /\ \/ \A p \in PipesOf(c) : left[p] = 0
     \/ \E p \in PipesOf(c) : left[p] > 0 /\ data[p] < Capacity
ErrorGoesOn(w) == errors[w] = "reads" /\ MayRead(Stderr(w))

(* Unless a fork fails, the calls, the error threads and the children      *)
(* never all wait for each other: a child that blocks on its full stderr   *)
(* may have open what its own error thread, or another one, reads to the   *)
(* end, but there is no circle of such children.                           *)
NeverStuck ==
  ~forkFailed /\ ~AllDone =>
    \/ \E c \in Calls : CallGoesOn(c) \/ ChildGoesOn(c)
    \/ \E w \in Workers : ErrorGoesOn(w)

(* Every call returns and every error thread ends unless a fork fails:     *)
(* readers of different workers wait for each other's children, which have *)
(* their pipes open, but never in a circle.                                *)
EveryCallReturns == <>(forkFailed \/ AllDone)
=============================================================================
