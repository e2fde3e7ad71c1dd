------------------------------ MODULE Radiation ------------------------------
(***************************************************************************)
(* A Vim process with libvimradiation loaded: the Vim thread, which        *)
(* radiates files and digests the commands that come back, and one worker  *)
(* thread per radiated file.  They meet in the two queues of each radiator *)
(* (data_queue towards Vim, message_queue towards the workers) and in the  *)
(* global g_current_radiator.  The core is src/radiation/radiation.c, with *)
(* the sequential and the server interface of src/radiation/impl/, the     *)
(* routines of src/modules/ and the Python client of assets/.              *)
(*                                                                         *)
(* Queues are the FIFO queues of FifoQueue, which blocking_queue.c         *)
(* implements (BlockingQueueRefinement).  A take is still two steps when   *)
(* it finds the queue empty: it falls asleep, and later it gets an item or *)
(* runs out of time, possibly with an item that came too late.             *)
(***************************************************************************)
EXTENDS Naturals, Sequences

CONSTANTS Modules,       \* the radiators of the enabled modules, by filetype
          MayFail,       \* the modules whose init may fail
          None,          \* no radiator: the null pointer
          Defined,       \* the Vim variables that have a value
          MayRaise,      \* what the client may raise an exception on
          MaxRadiates,   \* bound: files radiated, each by a worker of its own
          MaxCommands,   \* bound: matches in one file worth a command
          MaxErrors,     \* bound: chunks of stderr one compiler writes
          MaxDigests,    \* bound: :RadiationDigest commands the user types
          ServerAtStart, \* does Vim have a server name from the start?
          ServerLater    \* may Vim get a server name later?

ASSUME RadiationAssumption ==
  /\ Modules \subseteq {"c", "cpp", "test"}
  /\ None \notin Modules
  /\ MayFail \subseteq Modules \ {"test"}
  /\ Defined \subseteq Modules \X {1, 2}
  /\ MayRaise \subseteq {"command", "query", "error"}
  /\ {MaxRadiates, MaxCommands, MaxErrors, MaxDigests} \subseteq Nat
  /\ {ServerAtStart, ServerLater} \subseteq BOOLEAN

Workers == 1 .. MaxRadiates

VARIABLES
  registered,    \* g_registry: the radiators of the modules that loaded
  current,       \* g_current_radiator
  g_servername,  \* has the library been told a server name?
  v_servername,  \* is Vim's v:servername set?
  interface,     \* interface[r]: radiator r's system_interface
  data_queue,    \* data_queue[r]: commands on their way to Vim
  message_queue, \* message_queue[r]: answers on their way to the workers
  main,          \* what the Vim thread does
  keys,          \* keystrokes other processes sent to Vim's server
  digests,       \* how often the user has typed :RadiationDigest
  pc,            \* pc[w]: where worker w is
  asked,         \* asked[w]: the filetype of the file w was made for
  routine,       \* routine[w]: the radiator whose routine w runs
  ths,           \* ths[w]: the radiator that routine was called with
  answers,       \* answers[w]: the values w's queries have returned
  emitted,       \* emitted[w]: how many commands w has queued
  executed,      \* executed[w]: the commands of w that Vim was given
  stderr,        \* stderr[w]: chunks of stderr w's error thread may still read
  late,          \* history: has a take of any queue run out of time?
  raised         \* history: has an exception ended a digest?

vim == <<registered, current, g_servername, v_servername, interface, digests,
         raised>>
work == <<asked, routine, ths, answers, emitted, stderr>>
vars == <<vim, data_queue, message_queue, main, keys, pc, work, executed, late>>

(* The command_node_t's on a data queue; EOF is the null pointer. *)
EOF == [type |-> "eof"]
Command(w, n) == [type |-> "command", worker |-> w, n |-> n]
Query(var) == [type |-> "query", var |-> var]
Error == [type |-> "error"]

(* How many Vim variables a routine asks for, one after the other, and how *)
(* many commands it queues before those for its matches.  A query that     *)
(* nobody answers returns the default of the caller.                       *)
Queries(r) == IF r = "test" THEN 1 ELSE 2
Preambles(r) == IF r = "c" THEN 0 ELSE 1
Default == <<None, 0>>
Variable(w) == <<routine[w], Len(answers[w]) + 1>>

(* Mutant of Output: a routine writes to whatever radiator is current. *)
OutputToCurrent(w) == current

(* The C and C++ routines write to their own global radiator, the test     *)
(* routine to the one it was given.                                        *)
Output(w) == IF routine[w] = "test" THEN ths[w] ELSE routine[w]

(* pick_interface: the server interface once the library has been told a   *)
(* server name.                                                            *)
Interface(named) == IF named THEN "server" ELSE "sequential"

(* The init of a module whose regexes do not compile, or that PCRE cannot  *)
(* study, reports an error to a queue nobody digests yet.                  *)
InitErrors(failed) == [r \in Modules |-> IF r \in failed THEN <<Error>> ELSE <<>>]

(* init_radiator: two new queues and an interface for each radiator.       *)
InitRadiators(failed) ==
  /\ data_queue = InitErrors(failed)
  /\ message_queue = [r \in Modules |-> <<>>]
  /\ interface = [r \in Modules |-> Interface(g_servername)]

(* radiation_register for each module whose init succeeded. *)
Register(failed) == registered = Modules \ failed

(* radiation_init has called the init of each module. *)
Init ==
  /\ g_servername = FALSE
  /\ v_servername = ServerAtStart
  /\ \E failed \in SUBSET MayFail : InitRadiators(failed) /\ Register(failed)
  /\ current = None
  /\ main = "idle"
  /\ keys = <<>>
  /\ digests = 0
  /\ pc = [w \in Workers |-> "none"]
  /\ asked = [w \in Workers |-> None]
  /\ routine = [w \in Workers |-> None]
  /\ ths = [w \in Workers |-> None]
  /\ answers = [w \in Workers |-> <<>>]
  /\ emitted = [w \in Workers |-> 0]
  /\ executed = [w \in Workers |-> <<>>]
  /\ stderr = [w \in Workers |-> 0]
  /\ late = FALSE
  /\ raised = FALSE

------------------------------------------------------------------------------
(* The Vim thread.  It digests by calling radiation_next until that        *)
(* returns NULL: "digest" is the start of such a call, "asleep" the wait   *)
(* for the data queue inside it, "crashed" the end of the process.         *)

Goto(w, from, to) ==
  /\ pc[w] = from
  /\ pc' = [pc EXCEPT ![w] = to]

(* digest_all: the first radiation_next reads the queue of the current     *)
(* radiator, even if there is none yet.                                    *)
StartDigest == main' = IF current' = None THEN "crashed" ELSE "digest"

(* :Radiate on a file of a registered type.  Without a server name the     *)
(* client digests at once; with one it leaves that to the worker's signal. *)
(* Nobody notices if pthread_create fails and there is no worker.          *)
Radiate(r) ==
  \E w \in Workers, there \in {"created", "done"} :
    /\ main = "idle" /\ r \in registered
    /\ \A u \in 1 .. (w - 1) : pc[u] # "none"
    /\ Goto(w, "none", there)
    /\ asked' = [asked EXCEPT ![w] = r]
    /\ g_servername' = (g_servername \/ v_servername)
    /\ current' = r
    /\ interface' = [interface EXCEPT ![r] = Interface(g_servername')]
    /\ IF v_servername THEN main' = "idle" ELSE StartDigest
    /\ UNCHANGED <<registered, v_servername, digests, data_queue, message_queue,
                   keys, routine, ths, answers, emitted, stderr, executed, late,
                   raised>>

(* :Radiate on a file nobody has a radiator for. *)
RadiateUnknown ==
  /\ main = "idle"
  /\ g_servername' = (g_servername \/ v_servername)
  /\ UNCHANGED <<registered, current, v_servername, interface, digests, data_queue,
                 message_queue, main, keys, pc, work, executed, late, raised>>

(* :RadiationDigest, typed by the user. *)
ManualDigest ==
  /\ main = "idle"
  /\ digests < MaxDigests
  /\ digests' = digests + 1
  /\ UNCHANGED <<registered, current, g_servername, v_servername, interface,
                 data_queue, message_queue, keys, pc, work, executed, late, raised>>
  /\ StartDigest

(* Vim gets its server name. *)
StartServer ==
  /\ main = "idle" /\ ServerLater
  /\ v_servername' = TRUE
  /\ UNCHANGED <<registered, current, g_servername, interface, digests, data_queue,
                 message_queue, main, keys, pc, work, executed, late, raised>>

(* Keystrokes sent to the server are typed when Vim waits for input:       *)
(* :RadiationDigest, or a call of radiation#Error.                         *)
TakeKeys ==
  /\ main = "idle" /\ keys # <<>>
  /\ keys' = Tail(keys)
  /\ UNCHANGED <<vim, data_queue, message_queue, pc, work, executed, late>>
  /\ IF Head(keys) = "digest" THEN StartDigest ELSE UNCHANGED main

(* blocking_queue_take of the current radiator's data queue, when it hands *)
(* over an item.                                                           *)
TakeItem(type) ==
  /\ main \in {"digest", "asleep"}
  /\ data_queue[current] # <<>>
  /\ Head(data_queue[current]).type = type
  /\ data_queue' = [data_queue EXCEPT ![current] = Tail(@)]
  /\ UNCHANGED <<registered, current, g_servername, v_servername, interface, digests,
                 keys, pc, work, late>>

(* What becomes of the digest after an item: it goes on, unless handling   *)
(* the item raised an exception, which nobody catches.                     *)
GoesOn == main' = "digest" /\ UNCHANGED raised
Raises(type) == type \in MayRaise /\ main' = "idle" /\ raised' = TRUE

(* NULL: the file is done, and so is the digest. *)
NextEOF ==
  /\ TakeItem("eof")
  /\ main' = "idle"
  /\ UNCHANGED <<message_queue, executed, raised>>

(* A highlight or raw command, which the client has Vim execute: an error  *)
(* in it comes back as an exception.                                       *)
NextCommand ==
  /\ TakeItem("command")
  /\ LET c == Head(data_queue[current]) IN
       executed' = [executed EXCEPT ![c.worker] = Append(@, c.n)]
  /\ GoesOn \/ Raises("command")
  /\ UNCHANGED message_queue

(* "q:...": the client answers with the value of the variable, or with an  *)
(* error message if it has none.  Vim does nothing in between that a       *)
(* worker could see.                                                       *)
NextQuery ==
  /\ TakeItem("query")
  /\ LET var == Head(data_queue[current]).var IN
       message_queue' = [message_queue EXCEPT ![current] =
                           Append(@, [var |-> var, set |-> var \in Defined])]
  /\ GoesOn
  /\ UNCHANGED executed

(* A value that is no string cannot be sent: the query gets no answer.     *)
NextQueryRaises ==
  /\ TakeItem("query")
  /\ Head(data_queue[current]).var \in Defined
  /\ Raises("query")
  /\ UNCHANGED <<message_queue, executed>>

(* Mutant of NextError: an error ends the digest, without an exception.    *)
NextErrorStops ==
  /\ TakeItem("error")
  /\ main' = "idle"
  /\ UNCHANGED <<message_queue, executed, raised>>

(* "e:...": shown to the user, by way of a Vim string that an apostrophe   *)
(* in the text ends too early.                                             *)
NextError ==
  /\ TakeItem("error")
  /\ GoesOn \/ Raises("error")
  /\ UNCHANGED <<message_queue, executed>>

NextSleep ==
  /\ main = "digest" /\ data_queue[current] = <<>>
  /\ main' = "asleep"
  /\ UNCHANGED <<vim, data_queue, message_queue, keys, pc, work, executed, late>>

(* Mutant of NextTimeout: radiation_next waits again when its time is up. *)
NextTimeoutRetries ==
  /\ main = "asleep"
  /\ main' = "digest"
  /\ late' = TRUE
  /\ UNCHANGED <<vim, data_queue, message_queue, keys, pc, work, executed>>

(* After a second radiation_next gives up and also returns NULL. *)
NextTimeout ==
  /\ main = "asleep"
  /\ main' = "idle"
  /\ late' = TRUE
  /\ UNCHANGED <<vim, data_queue, message_queue, keys, pc, work, executed>>

------------------------------------------------------------------------------
(* A worker thread.  run_as_thread reads g_current_radiator once for the   *)
(* routine and, in the default build without optimisation, a second time   *)
(* for its argument.                                                       *)

LoadRoutine(w) ==
  /\ Goto(w, "created", "loading")
  /\ routine' = [routine EXCEPT ![w] = current]
  /\ UNCHANGED <<vim, data_queue, message_queue, main, keys, asked, ths,
                 answers, emitted, stderr, executed, late>>

LoadRadiator(w) ==
  /\ Goto(w, "loading", "query")
  /\ ths' = [ths EXCEPT ![w] = current]
  /\ UNCHANGED <<vim, data_queue, message_queue, main, keys, asked, routine,
                 answers, emitted, stderr, executed, late>>

(* What the routine does after a query that returned value. *)
Answered(w, value) ==
  /\ answers' = [answers EXCEPT ![w] = Append(@, value)]
  /\ pc' = [pc EXCEPT ![w] =
              CASE Len(answers[w]) + 1 < Queries(routine[w]) -> "query"
                [] routine[w] = "cpp" -> "preamble"
                [] OTHER -> "start"]
  /\ UNCHANGED <<vim, data_queue, main, keys, asked, routine, ths, emitted,
                 stderr, executed>>

(* Mutant of Ask: the query goes to the current radiator, as the answer    *)
(* does.                                                                   *)
AskCurrent(w) ==
  /\ Goto(w, "query", "await")
  /\ interface[ths[w]] = "sequential"
  /\ data_queue' = [data_queue EXCEPT ![current] = Append(@, Query(Variable(w)))]
  /\ UNCHANGED <<vim, message_queue, main, keys, work, executed, late>>

(* Sequential query: a query command for Vim, then a message within 10 ms. *)
Ask(w) ==
  /\ Goto(w, "query", "await")
  /\ interface[ths[w]] = "sequential"
  /\ data_queue' = [data_queue EXCEPT ![ths[w]] = Append(@, Query(Variable(w)))]
  /\ UNCHANGED <<vim, message_queue, main, keys, work, executed, late>>

TakeAnswer(w) ==
  /\ pc[w] \in {"await", "asleep"}
  /\ message_queue[ths[w]] # <<>>
  /\ LET answer == Head(message_queue[ths[w]]) IN
       Answered(w, IF answer.set THEN answer.var ELSE Default)
  /\ message_queue' = [message_queue EXCEPT ![ths[w]] = Tail(@)]
  /\ UNCHANGED late

AwaitAnswer(w) ==
  /\ Goto(w, "await", "asleep")
  /\ message_queue[ths[w]] = <<>>
  /\ UNCHANGED <<vim, data_queue, message_queue, main, keys, work, executed, late>>

(* Mutant of AnswerTimeout: the worker waits for its answer for ever. *)
AnswerAwaited(w) ==
  /\ pc[w] = "asleep" /\ message_queue[ths[w]] # <<>>
  /\ TakeAnswer(w)

AnswerTimeout(w) ==
  /\ pc[w] = "asleep"
  /\ Answered(w, Default)
  /\ late' = TRUE
  /\ UNCHANGED message_queue

(* Server query: a vim client asks the server, which evaluates the         *)
(* variable when it waits for input.                                       *)
AskServer(w) ==
  /\ Goto(w, "query", "remote")
  /\ interface[ths[w]] = "server"
  /\ UNCHANGED <<vim, data_queue, message_queue, main, keys, work, executed, late>>

ServerAnswer(w) ==
  /\ pc[w] = "remote"
  /\ main = "idle"
  /\ Answered(w, IF Variable(w) \in Defined THEN Variable(w) ELSE Default)
  /\ UNCHANGED <<message_queue, late>>

(* Mutant of Queue: the item is put at the front of the queue. *)
QueueInFront(w, item) ==
  /\ data_queue' = [data_queue EXCEPT ![Output(w)] = <<item>> \o @]
  /\ UNCHANGED keys

Queue(w, item) ==
  /\ data_queue' = [data_queue EXCEPT ![Output(w)] = Append(@, item)]
  /\ UNCHANGED keys

(* The error operation of an interface. *)
PostError(w) ==
  IF interface[Output(w)] = "server"
  THEN keys' = Append(keys, "error") /\ UNCHANGED data_queue
  ELSE Queue(w, Error)

EmitCommand(w) ==
  /\ emitted' = [emitted EXCEPT ![w] = @ + 1]
  /\ Queue(w, Command(w, emitted[w] + 1))
  /\ UNCHANGED <<vim, message_queue, main, asked, routine, ths, answers,
                 stderr, executed, late>>

(* A command of its own, which the C++ routine queues before it runs the   *)
(* compiler and the test routine after it has opened the dictionary.       *)
Preamble(w) ==
  /\ Goto(w, "preamble", IF routine[w] = "test" THEN "stream" ELSE "start")
  /\ EmitCommand(w)

(* run_process, with a thread that reads the compiler's stderr; or, for    *)
(* the test routine, the dictionary opens.                                 *)
StartStream(w) ==
  /\ Goto(w, "start", IF routine[w] = "test" THEN "preamble" ELSE "stream")
  /\ stderr' = [stderr EXCEPT ![w] = IF routine[w] = "test" THEN 0 ELSE MaxErrors]
  /\ UNCHANGED <<vim, data_queue, message_queue, main, keys, asked, routine,
                 ths, answers, emitted, executed, late>>

(* run_process returns NULL: an error, then the end of the file.  The test *)
(* routine just returns when it has no dictionary.                         *)
FailStream(w) ==
  /\ Goto(w, "start", IF routine[w] = "test" THEN "done" ELSE "finish")
  /\ IF routine[w] = "test" THEN UNCHANGED <<data_queue, keys>> ELSE PostError(w)
  /\ UNCHANGED <<vim, message_queue, main, work, executed, late>>

(* A match that is worth a command. *)
Emit(w) ==
  /\ pc[w] = "stream" /\ UNCHANGED pc
  /\ emitted[w] < Preambles(routine[w]) + MaxCommands
  /\ EmitCommand(w)

(* The stream has ended, or never began: finished queues the end-of-file   *)
(* marker and with the server interface goes on to ask Vim to digest.      *)
Finish(w) ==
  /\ pc[w] \in {"stream", "finish"}
  /\ Goto(w, pc[w], IF interface[Output(w)] = "server" THEN "signal" ELSE "done")
  /\ Queue(w, EOF)
  /\ UNCHANGED <<vim, message_queue, main, work, executed, late>>

(* Mutant of CallDigest: no request while another one is pending. *)
CallDigestOnce(w) ==
  /\ Goto(w, "signal", "done")
  /\ keys' = IF \E i \in 1 .. Len(keys) : keys[i] = "digest"
             THEN keys ELSE Append(keys, "digest")
  /\ UNCHANGED <<vim, data_queue, message_queue, main, work, executed, late>>

CallDigest(w) ==
  /\ Goto(w, "signal", "done")
  /\ keys' = Append(keys, "digest")
  /\ UNCHANGED <<vim, data_queue, message_queue, main, work, executed, late>>

(* Mutant of ErrorThread: it does not stop at the end of the stream. *)
ErrorThreadReadsOn(w) ==
  /\ pc[w] \in {"stream", "finish", "signal"}
  /\ stderr' = [stderr EXCEPT ![w] = @ - 1]
  /\ PostError(w)
  /\ UNCHANGED <<vim, message_queue, main, pc, asked, routine, ths, answers,
                 emitted, executed, late>>

(* The error thread, which nobody waits for. *)
ErrorThread(w) ==
  /\ stderr[w] > 0
  /\ stderr' = [stderr EXCEPT ![w] = @ - 1]
  /\ PostError(w)
  /\ UNCHANGED <<vim, message_queue, main, pc, asked, routine, ths, answers,
                 emitted, executed, late>>

------------------------------------------------------------------------------
(* What the Vim thread does once it is inside the library, or has keys to  *)
(* type; what a worker does until it ends.                                 *)
MainStep ==
  \/ TakeKeys \/ NextEOF \/ NextCommand \/ NextQuery \/ NextQueryRaises
  \/ NextError \/ NextSleep \/ NextTimeout
WorkerStep(w) ==
  \/ LoadRoutine(w) \/ LoadRadiator(w) \/ Ask(w) \/ TakeAnswer(w)
  \/ AwaitAnswer(w) \/ AnswerTimeout(w) \/ AskServer(w) \/ ServerAnswer(w)
  \/ Preamble(w) \/ StartStream(w) \/ FailStream(w) \/ Emit(w)
  \/ Finish(w) \/ CallDigest(w)

User ==
  \/ \E r \in Modules : Radiate(r)
  \/ RadiateUnknown \/ ManualDigest \/ StartServer

Next ==
  /\ main # "crashed"
  /\ \/ User
     \/ MainStep
     \/ \E w \in Workers : WorkerStep(w) \/ ErrorThread(w)

Spec == Init /\ [][Next]_vars

(* Threads inside the library keep running and their timers go off, Vim    *)
(* comes back to its input; the user and the compiler's stderr do as they  *)
(* please.                                                                 *)
FairSpec ==
  /\ Spec
  /\ WF_vars(main # "crashed" /\ MainStep)
  /\ \A w \in Workers : WF_vars(main # "crashed" /\ WorkerStep(w))

------------------------------------------------------------------------------
Items == {EOF, Error}
         \cup {Command(w, n) : w \in Workers, n \in 1 .. MaxCommands + 1}
         \cup {Query(var) : var \in Modules \X {1, 2}}
Radiators == Modules \cup {None}

(* Types. *)
TypeOK ==
  /\ registered \subseteq Modules
  /\ current \in Radiators
  /\ g_servername \in BOOLEAN /\ v_servername \in BOOLEAN
  /\ late \in BOOLEAN /\ raised \in BOOLEAN
  /\ interface \in [Modules -> {"sequential", "server"}]
  /\ data_queue \in [Modules -> Seq(Items)]
  /\ message_queue \in [Modules -> Seq([var : Modules \X {1, 2}, set : BOOLEAN])]
  /\ main \in {"idle", "digest", "asleep", "crashed"}
  /\ keys \in Seq({"digest", "error"})
  /\ digests \in 0 .. MaxDigests
  /\ pc \in [Workers -> {"none", "created", "loading", "query", "await",
                         "asleep", "remote", "preamble", "start", "stream",
                         "finish", "signal", "done"}]
  /\ asked \in [Workers -> Radiators]
  /\ routine \in [Workers -> Radiators]
  /\ ths \in [Workers -> Radiators]
  /\ answers \in [Workers -> Seq((Modules \X {1, 2}) \cup {Default})]
  /\ emitted \in [Workers -> 0 .. MaxCommands + 1]
  /\ executed \in [Workers -> Seq(1 .. MaxCommands + 1)]
  /\ stderr \in [Workers -> 0 .. MaxErrors]

(* The places of the data queue of radiator r that hold commands of w. *)
Pending(w, r) ==
  {i \in 1 .. Len(data_queue[r]) :
     data_queue[r][i].type = "command" /\ data_queue[r][i].worker = w}

(* Whatever times out, whoever digests and whatever ends a digest, no      *)
(* command is lost, executed twice or overtaken by a later one of the same *)
(* worker: Vim was given the first ones, and the rest wait in order on one *)
(* data queue.                                                             *)
CommandsConserved ==
  \A w \in Workers :
    /\ executed[w] = [n \in 1 .. Len(executed[w]) |-> n]
    /\ emitted[w] > 0 =>
         LET q == data_queue[Output(w)] IN
         /\ {q[i].n : i \in Pending(w, Output(w))} = Len(executed[w]) + 1 .. emitted[w]
         /\ \A i, j \in Pending(w, Output(w)) : i < j => q[i].n < q[j].n
    /\ \A r \in Modules : Pending(w, r) # {} => emitted[w] > 0 /\ r = Output(w)

(* An answer goes to the radiator whose worker asked for it, although the  *)
(* client only says "the current radiator".                                *)
AnswersReachAskers ==
  \A r \in Modules : \A i \in 1 .. Len(message_queue[r]) :
    \E w \in Workers :
      /\ ths[w] = r
      /\ message_queue[r][i].var \in {routine[w]} \X (1 .. Len(answers[w]) + 1)

(* A query returns its own variable's value or the default. *)
QueryAnswersMatch ==
  \A w \in Workers : \A k \in 1 .. Len(answers[w]) :
    answers[w][k] \in {<<routine[w], k>>, Default}

(* A file is read by the routine for its type. *)
RoutineMatchesFiletype ==
  \A w \in Workers : routine[w] \in {None, asked[w]} /\ ths[w] \in {None, asked[w]}

(* Without a server, and while no take has timed out and no exception has  *)
(* ended a digest, every radiate is complete when Vim is idle again: the   *)
(* right routine ran, its queries got their own answers, its commands have *)
(* all been executed, and nothing but late errors is left for the next     *)
(* digest to find.                                                         *)
SequentialClean ==
  ~g_servername /\ ~late /\ ~raised =>
    /\ QueryAnswersMatch
    /\ RoutineMatchesFiletype
    /\ main = "idle" =>
         /\ \A w \in Workers :
              pc[w] \in {"none", "done"} /\ Len(executed[w]) = emitted[w]
         /\ \A r \in Modules :
              /\ message_queue[r] = <<>>
              /\ \A i \in 1 .. Len(data_queue[r]) : data_queue[r][i] = Error

(* With a server and files of one type, whatever else the user digests and *)
(* whatever times out: when the workers are done and the keystrokes typed, *)
(* every command has been executed, unless an exception ended a digest     *)
(* whose request is then used up.                                          *)
ServerDrains ==
  /\ ServerAtStart /\ ~raised
  /\ main = "idle"
  /\ \A i \in 1 .. Len(keys) : keys[i] # "digest"
  /\ \A w \in Workers :
       pc[w] \in {"none", "done"} /\ asked[w] \in {None, current}
  => \A w \in Workers : Len(executed[w]) = emitted[w]

(* Vim is not blocked for ever. *)
DigestReturns == main \in {"digest", "asleep"} ~> main = "idle"

(* No worker hangs, although Vim and the workers wait for each other. *)
WorkersEnd ==
  \A w \in Workers : pc[w] # "none" ~> pc[w] = "done" \/ main = "crashed"
==============================================================================
