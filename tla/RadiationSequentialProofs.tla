---------------------- MODULE RadiationSequentialProofs ----------------------
(***************************************************************************)
(* Proof that without a server every radiate is complete when Vim is idle  *)
(* again, unless something has timed out, for any number of files,         *)
(* commands, errors and digests.                                           *)
(***************************************************************************)
EXTENDS RadiationProofs, SequenceTheorems

Active(w) == pc[w] \notin {"none", "done"}

(* Nothing but errors from place i of a queue on. *)
ErrorsFrom(q, i) == \A j \in 1 .. Len(q) : i <= j => q[j] = Error

(* There is at most one worker, while Vim digests for it; it runs the      *)
(* routine of the current radiator, and uses no server.                    *)
AloneInv ==
  /\ keys = <<>>
  /\ \A r \in Modules : interface[r] = "sequential"
  /\ \A w \in Workers : Active(w) =>
       /\ main \in {"digest", "asleep"}
       /\ asked[w] = current
       /\ pc[w] \notin {"remote", "signal"}
  /\ \A w, u \in Workers : Active(w) /\ Active(u) => w = u
  /\ \A w \in Workers : pc[w] = "none" => routine[w] = None
  /\ RoutineMatchesFiletype

(* Only on the current radiator's queue, and only while Vim digests, is    *)
(* there anything but errors.  An end marker there is the end of the only  *)
(* worker: only errors come after it.                                      *)
QueueInv ==
  /\ \A r \in Modules : r # current \/ main = "idle" => ErrorsFrom(data_queue[r], 1)
  /\ \A r \in Modules : \A i \in 1 .. Len(data_queue[r]) : data_queue[r][i] = EOF =>
       /\ ErrorsFrom(data_queue[r], i + 1)
       /\ \A w \in Workers : ~Active(w)

(* A query or an answer on its way is the one the worker waits for, and    *)
(* there is one of them.                                                   *)
Awaits(w, var) == pc[w] \in {"await", "asleep"} /\ var = Variable(w)
OneQuery(q) ==
  \A i, j \in 1 .. Len(q) : q[i].type = "query" /\ q[j].type = "query" => i = j
AnswerInv ==
  /\ QueryAnswersMatch
  /\ \A r \in Modules :
       /\ OneQuery(data_queue[r])
       /\ \A i \in 1 .. Len(data_queue[r]) : data_queue[r][i].type = "query" =>
            /\ \E w \in Workers : Awaits(w, data_queue[r][i].var)
            /\ \A s \in Modules : message_queue[s] = <<>>
  /\ \A r \in Modules : message_queue[r] # <<>> =>
       /\ Len(message_queue[r]) = 1 /\ r = current
       /\ \E w \in Workers : Awaits(w, message_queue[r][1].var)

Alone == ~g_servername /\ ~late /\ ~raised
SequentialInv == Alone => AloneInv /\ QueueInv /\ AnswerInv

------------------------------------------------------------------------------
LEMMA SequentialInit == Init => SequentialInv
<1> SUFFICES ASSUME Init PROVE AloneInv /\ QueueInv /\ AnswerInv
  BY DEF SequentialInv
<1>1. PICK failed \in SUBSET MayFail : InitRadiators(failed)
  BY DEF Init
<1>2. AloneInv
  BY <1>1
     DEF Init, InitRadiators, Interface, AloneInv, Active,
         RoutineMatchesFiletype
<1>3. ASSUME NEW r \in Modules
      PROVE  \A i \in 1 .. Len(data_queue[r]) : data_queue[r][i] = Error
  <2>1. data_queue[r] = <<>> \/ data_queue[r] = <<Error>>
    BY <1>1 DEF InitRadiators, InitErrors
  <2> QED
    BY <2>1
<1>4. QueueInv
  BY <1>3 DEF QueueInv, ErrorsFrom, EOF, Error
<1>5. AnswerInv
  <2>1. QueryAnswersMatch
    BY DEF Init, QueryAnswersMatch
  <2>2. \A r \in Modules : message_queue[r] = <<>>
    BY <1>1 DEF InitRadiators
  <2> QED
    BY <1>3, <2>1, <2>2 DEF AnswerInv, OneQuery, Error
<1> QED
  BY <1>2, <1>4, <1>5

(* A server name is not forgotten, nor that a take has run out of time or  *)
(* that an exception was raised.                                           *)
LEMMA AloneBefore == RInv /\ [Next]_vars /\ Alone' => Alone
<1> SUFFICES ASSUME RInv, [Next]_vars, Alone' PROVE Alone
  OBVIOUS
<1>0. ~raised
  BY RaisedBefore DEF Alone
<1>1. CASE UNCHANGED <<g_servername, late>>
  BY <1>0, <1>1 DEF Alone
<1>2. CASE User
  BY <1>0, <1>2
     DEF User, Radiate, RadiateUnknown, ManualDigest, StartServer, Alone, RInv,
         TypeOK
<1>3. CASE MainStep
  <2>1. g_servername' = g_servername
    BY <1>3, MainEffect DEF session
  <2>2. late' = late \/ late'
    BY <1>3 DEF MainStep, TakeKeys, NextEOF, NextCommand, NextQuery, NextQueryRaises,
       NextError, NextSleep, NextTimeout, TakeItem
  <2> QED
    BY <1>0, <2>1, <2>2 DEF Alone
<1>4. ASSUME NEW w \in Workers, WorkerStep(w) \/ ErrorThread(w) PROVE Alone
  BY <1>1, <1>4
     DEF WorkerStep, LoadRoutine, LoadRadiator, Ask, TakeAnswer, AwaitAnswer,
         AnswerTimeout, AskServer, ServerAnswer, Answered, Preamble,
         EmitCommand, StartStream, FailStream, Emit, Finish, CallDigest,
         ErrorThread, vim, Alone
<1> QED
  BY <1>1, <1>2, <1>3, <1>4 DEF Next, vars, vim

(* The only worker runs for the current radiator, and sends no keys.       *)
LEMMA AloneTypes ==
  ASSUME RInv, AloneInv, NEW w \in Workers, routine[w] \in Modules, ths[w] \in Modules
  PROVE  /\ Output(w) \in Modules /\ interface[Output(w)] = "sequential"
         /\ Active(w) => Output(w) = current /\ ths[w] = current /\ current \in Modules
<1>1. routine[w] = asked[w] /\ ths[w] = asked[w]
  BY ConstantTypes DEF AloneInv, RoutineMatchesFiletype
<1>2. Active(w) => asked[w] = current
  BY DEF AloneInv
<1>3. Output(w) = asked[w]
  BY <1>1 DEF Output
<1> QED
  BY <1>1, <1>2, <1>3 DEF AloneInv

LEMMA ErrorThreadAlone ==
  ASSUME RInv, AloneInv, NEW w \in Workers, ErrorThread(w)
  PROVE  /\ keys' = keys
         /\ \E r \in Modules :
              data_queue' = [data_queue EXCEPT ![r] = Append(@, Error)]
<1>1. stderr[w] > 0 /\ PostError(w)
  BY DEF ErrorThread
<1>2. Output(w) \in Modules /\ interface[Output(w)] = "sequential"
  BY <1>1, AloneTypes DEF RInv, WorkInv, Knows
<1> QED
  BY <1>1, <1>2 DEF PostError, Queue

LEMMA WorkerAlone ==
  ASSUME RInv, AloneInv, Alone', NEW w \in Workers, WorkerStep(w)
  PROVE  /\ Active(w) /\ keys' = keys
         /\ pc'[w] \notin {"remote", "signal"}
         /\ asked[w] = current /\ main \in {"digest", "asleep"}
<1> USE DEF RInv
<1>1. /\ pc \in [Workers -> {"none", "created", "loading", "query", "await",
                             "asleep", "remote", "preamble", "start", "stream",
                             "finish", "signal", "done"}]
      /\ \A r \in Modules : interface[r] = "sequential"
      /\ pc[w] \notin {"none", "created", "loading", "done"} =>
           routine[w] \in Modules /\ ths[w] \in Modules
      /\ Active(w) => pc[w] \notin {"remote", "signal"} /\ asked[w] = current
                      /\ main \in {"digest", "asleep"}
  BY DEF TypeOK, WorkInv, Knows, AloneInv
<1> SUFFICES Active(w) /\ keys' = keys /\ pc'[w] \notin {"remote", "signal"}
  BY <1>1
<1>2. CASE LoadRoutine(w) \/ LoadRadiator(w) \/ Ask(w) \/ AwaitAnswer(w) \/ StartStream(w)
  BY <1>1, <1>2
     DEF LoadRoutine, LoadRadiator, Ask, AwaitAnswer, StartStream, Goto, Active
<1>3. CASE TakeAnswer(w)
  BY <1>1, <1>3 DEF TakeAnswer, Answered, Active
<1>4. CASE AnswerTimeout(w)
  BY <1>4 DEF AnswerTimeout, Alone
<1>5. CASE AskServer(w) \/ ServerAnswer(w) \/ CallDigest(w)
  BY <1>1, <1>5 DEF AskServer, ServerAnswer, CallDigest, Goto, Active
<1>6. CASE Preamble(w) \/ Emit(w)
  BY <1>1, <1>6 DEF Preamble, Emit, EmitCommand, Queue, Goto, Active
<1>7. CASE FailStream(w)
  <2>1. pc[w] = "start" /\ pc'[w] \in {"done", "finish"}
    BY <1>1, <1>7 DEF FailStream, Goto
  <2>2. interface[Output(w)] = "sequential"
    BY <1>1, <2>1, OutputModule
  <2> QED
    BY <1>7, <2>1, <2>2 DEF FailStream, PostError, Queue, Active
<1>8. CASE Finish(w)
  <2>1. pc[w] \in {"stream", "finish"} /\ keys' = keys
    BY <1>8 DEF Finish, Queue
  <2>2. interface[Output(w)] = "sequential"
    BY <1>1, <2>1, OutputModule
  <2> QED
    BY <1>1, <1>8, <2>1, <2>2 DEF Finish, Goto, Active
<1> QED
  BY <1>2, <1>3, <1>4, <1>5, <1>6, <1>7, <1>8 DEF WorkerStep

LEMMA AloneStep ==
  ASSUME RInv, AloneInv, QueueInv, [Next]_vars, Alone, Alone'
  PROVE  AloneInv'
<1> USE DEF RInv
<1>1. /\ DOMAIN pc = Workers /\ DOMAIN asked = Workers /\ DOMAIN routine = Workers
      /\ DOMAIN ths = Workers /\ DOMAIN interface = Modules
  BY DEF TypeOK
<1>2. CASE UNCHANGED <<keys, interface, pc, main, asked, current, routine, ths>>
  BY <1>2 DEF AloneInv, Active, RoutineMatchesFiletype
<1>3. ASSUME NEW r \in Modules, Radiate(r) PROVE AloneInv'
  <2>1. PICK w \in Workers, there \in {"created", "done"} :
          /\ pc[w] = "none" /\ pc' = [pc EXCEPT ![w] = there]
          /\ asked' = [asked EXCEPT ![w] = r]
          /\ g_servername' = (g_servername \/ v_servername)
          /\ current' = r
          /\ interface' = [interface EXCEPT ![r] = Interface(g_servername')]
          /\ IF v_servername THEN main' = "idle" ELSE StartDigest
          /\ UNCHANGED <<keys, routine, ths>>
          /\ main = "idle"
    BY <1>3 DEF Radiate, Goto
  <2>2. v_servername = FALSE /\ Interface(g_servername') = "sequential"
    BY <2>1 DEF Alone, Interface, TypeOK
  <2>3. main' = "digest"
    BY <2>1, <2>2, ConstantTypes DEF StartDigest
  <2>4. \A u \in Workers : ~Active(u)
    BY <2>1 DEF AloneInv
  <2>5. routine[w] = None /\ ths[w] = None
    BY <2>1 DEF AloneInv, WorkInv, Knows
  <2>6. \A s \in Modules : interface'[s] = "sequential"
    BY <1>1, <2>1, <2>2 DEF AloneInv
  <2>7. \A u \in Workers : Active(u)' => u = w /\ asked'[u] = r
                                         /\ pc'[u] \notin {"remote", "signal"}
    BY <1>1, <2>1, <2>4 DEF Active
  <2>8. \A u \in Workers : pc'[u] = "none" => routine'[u] = None
    BY <1>1, <2>1 DEF AloneInv
  <2>9. RoutineMatchesFiletype'
    BY <1>1, <2>1, <2>5 DEF AloneInv, RoutineMatchesFiletype
  <2> QED
    BY <2>1, <2>3, <2>6, <2>7, <2>8, <2>9 DEF AloneInv
<1>4. CASE RadiateUnknown \/ ManualDigest \/ StartServer
  <2>1. /\ UNCHANGED <<keys, interface, pc, asked, current, routine, ths>>
        /\ main = "idle"
    BY <1>4 DEF RadiateUnknown, ManualDigest, StartServer, work
  <2> QED
    BY <2>1 DEF AloneInv, Active, RoutineMatchesFiletype
<1>5. CASE MainStep
  <2>1. ~TakeKeys
    BY DEF TakeKeys, AloneInv
  <2>2. UNCHANGED <<keys, interface, pc, asked, current, routine, ths>>
    BY <1>5, <2>1, MainEffect DEF session, work
  <2>3. main' \in {"digest", "asleep"} \/ \A w \in Workers : ~Active(w)
    <3>1. CASE NextEOF
      <4>1. /\ current \in Modules /\ data_queue[current] # <<>>
            /\ Head(data_queue[current]).type = "eof"
        BY <3>1, TakeItemTypes DEF NextEOF, TakeItem
      <4>2. data_queue[current] \in Seq(Items)
        BY <4>1 DEF TypeOK
      <4>3. 1 \in 1 .. Len(data_queue[current]) /\ data_queue[current][1] = EOF
        <5>1. Head(data_queue[current]) \in Items
          BY <4>1, <4>2
        <5>2. Head(data_queue[current]) = EOF
          BY <4>1, <5>1 DEF Items, EOF, Error, Command, Query
        <5> QED
          BY <4>1, <4>2, <5>2
      <4> QED
        BY <4>1, <4>3 DEF QueueInv
    <3>2. CASE NextTimeout
      BY <3>2 DEF NextTimeout, Alone
    <3>3. CASE NextCommand \/ NextQuery \/ NextError \/ NextSleep
      BY <3>3 DEF NextCommand, NextQuery, NextError, GoesOn, Raises, Alone, NextSleep
    <3>4. ~NextQueryRaises
      BY DEF NextQueryRaises, Raises, Alone
    <3> QED
      BY <1>5, <2>1, <3>1, <3>2, <3>3, <3>4 DEF MainStep
  <2> QED
    BY <2>2, <2>3 DEF AloneInv, Active, RoutineMatchesFiletype
<1>6. ASSUME NEW w \in Workers, WorkerStep(w) PROVE AloneInv'
  <2>1. /\ Active(w) /\ keys' = keys /\ pc'[w] \notin {"remote", "signal"}
        /\ asked[w] = current /\ main \in {"digest", "asleep"}
    BY <1>6, WorkerAlone
  <2>2. /\ UNCHANGED <<current, interface, main, asked>>
        /\ pc'[w] # "none" /\ pc' = [pc EXCEPT ![w] = pc'[w]]
    BY <1>6, WorkerEffect
  <2>3. \A u \in Workers : Active(u)' => Active(u)
    BY <1>1, <2>1, <2>2 DEF Active
  <2>4. /\ \A u \in Workers : routine'[u] \in {routine[u], asked[u]}
                              /\ ths'[u] \in {ths[u], asked[u]}
        /\ \A u \in Workers \ {w} : routine'[u] = routine[u]
    <3>1. CASE LoadRoutine(w) \/ LoadRadiator(w)
      BY <1>1, <2>1, <3>1 DEF LoadRoutine, LoadRadiator
    <3>2. CASE ~(LoadRoutine(w) \/ LoadRadiator(w))
      <4>1. UNCHANGED <<routine, ths>>
        BY <1>6, <3>2 DEF WorkerStep, Ask, TakeAnswer, AwaitAnswer, AnswerTimeout,
           AskServer, ServerAnswer, Answered, Preamble, EmitCommand, StartStream,
           FailStream, Emit, Finish, CallDigest, work
      <4> QED
        BY <4>1
    <3> QED
      BY <3>1, <3>2
  <2>5. RoutineMatchesFiletype'
    BY <2>2, <2>4 DEF AloneInv, RoutineMatchesFiletype
  <2>6. \A u \in Workers : pc'[u] = "none" => routine'[u] = None
    BY <1>1, <2>2, <2>4 DEF AloneInv
  <2>7. \A u \in Workers : Active(u)' => pc'[u] \notin {"remote", "signal"}
    BY <1>1, <2>1, <2>2, <2>3 DEF AloneInv
  <2> QED
    BY <2>1, <2>2, <2>3, <2>5, <2>6, <2>7 DEF AloneInv
<1>7. ASSUME NEW w \in Workers, ErrorThread(w) PROVE AloneInv'
  <2>1. UNCHANGED <<interface, pc, main, asked, current, routine, ths>>
    BY <1>7 DEF ErrorThread, vim
  <2> QED
    BY <1>2, <1>7, <2>1, ErrorThreadAlone
<1>8. UNCHANGED vars => AloneInv'
  BY <1>2 DEF vars, vim, work
<1> QED
  BY <1>3, <1>4, <1>5, <1>6, <1>7, <1>8 DEF Next, User

(* How the rest of a queue with nothing but errors changes.                *)
LEMMA ErrorsAppend ==
  ASSUME NEW q \in Seq(Items), NEW i \in Nat, ErrorsFrom(q, i)
  PROVE  ErrorsFrom(Append(q, Error), i)
<1> DEFINE q1 == Append(q, Error)
<1>1. /\ Len(q1) = Len(q) + 1 /\ q1[Len(q) + 1] = Error
      /\ \A j \in 1 .. Len(q) : q1[j] = q[j]
  BY ItemTypes
<1> QED
  BY <1>1 DEF ErrorsFrom

LEMMA ErrorsTail ==
  ASSUME NEW q \in Seq(Items), q # <<>>, NEW i \in Nat
  PROVE  ErrorsFrom(q, i + 1) => ErrorsFrom(Tail(q), i)
<1>1. /\ Len(q) \in Nat \ {0} /\ Len(Tail(q)) = Len(q) - 1
      /\ \A j \in 1 .. Len(q) - 1 : Tail(q)[j] = q[j + 1]
  OBVIOUS
<1> QED
  BY <1>1 DEF ErrorsFrom

(* A digest takes the first item of the current radiator's queue.          *)
LEMMA TakeShape ==
  ASSUME RInv, NEW type, TakeItem(type)
  PROVE  /\ current \in Modules /\ data_queue[current] \in Seq(Items)
         /\ data_queue[current] # <<>> /\ data_queue[current][1] \in Items
         /\ data_queue[current][1].type = type
         /\ type = "eof" => data_queue[current][1] = EOF
         /\ 1 \in 1 .. Len(data_queue[current])
         /\ data_queue' = [data_queue EXCEPT ![current] = Tail(@)]
         /\ UNCHANGED <<session, pc, work>> /\ main \in {"digest", "asleep"}
<1>1. /\ current \in Modules /\ data_queue[current] # <<>>
      /\ Head(data_queue[current]).type = type
      /\ data_queue' = [data_queue EXCEPT ![current] = Tail(@)]
      /\ UNCHANGED <<session, pc, work>> /\ main \in {"digest", "asleep"}
  BY TakeItemTypes DEF TakeItem, session
<1>2. data_queue[current] \in Seq(Items)
  BY <1>1 DEF RInv, TypeOK
<1>3. /\ data_queue[current][1] \in Items /\ 1 \in 1 .. Len(data_queue[current])
      /\ Head(data_queue[current]) = data_queue[current][1]
  BY <1>1, <1>2
<1>4. type = "eof" => data_queue[current][1] = EOF
  BY <1>1, <1>3 DEF Items, EOF, Error, Command, Query
<1> QED
  BY <1>1, <1>2, <1>3, <1>4

LEMMA QueuesTake ==
  ASSUME RInv, QueueInv, NEW type, TakeItem(type),
         main' = "digest" \/ type = "eof"
  PROVE  QueueInv'
<1> DEFINE q == data_queue[current]
<1>1. /\ current \in Modules /\ q \in Seq(Items) /\ q # <<>> /\ 1 \in 1 .. Len(q)
      /\ type = "eof" => q[1] = EOF
      /\ data_queue' = [data_queue EXCEPT ![current] = Tail(@)]
      /\ UNCHANGED <<session, pc, work>> /\ main \in {"digest", "asleep"}
  BY TakeShape
<1>2. /\ data_queue'[current] = Tail(q) /\ current' = current
      /\ \A r \in Modules \ {current} : data_queue'[r] = data_queue[r]
  BY <1>1 DEF RInv, TypeOK, session
<1>3. /\ Len(q) \in Nat \ {0} /\ Len(Tail(q)) = Len(q) - 1
      /\ \A i \in 1 .. Len(q) - 1 : Tail(q)[i] = q[i + 1]
  BY <1>1
<1>4. type = "eof" => ErrorsFrom(Tail(q), 1)
  <2>1. type = "eof" => ErrorsFrom(q, 2)
    BY <1>1 DEF QueueInv
  <2> QED
    BY <1>1, <2>1, ErrorsTail
<1>5. ASSUME NEW r \in Modules, r # current' \/ main' = "idle"
      PROVE  ErrorsFrom(data_queue'[r], 1)
  BY <1>2, <1>4, <1>5 DEF QueueInv
<1>6. ASSUME NEW r \in Modules, NEW i \in 1 .. Len(data_queue'[r]),
             data_queue'[r][i] = EOF
      PROVE  ErrorsFrom(data_queue'[r], i + 1) /\ \A w \in Workers : ~Active(w)
  <2>1. CASE r = current
    <3>1. i \in 1 .. Len(q) - 1 /\ Tail(q)[i] = EOF
      BY <1>2, <1>3, <1>6, <2>1
    <3>2. i + 1 \in 1 .. Len(q) /\ q[i + 1] = EOF /\ i + 1 \in Nat
      BY <1>3, <3>1
    <3>3. ErrorsFrom(q, (i + 1) + 1) /\ \A w \in Workers : ~Active(w)
      BY <1>1, <3>2 DEF QueueInv
    <3> QED
      BY <1>1, <1>2, <2>1, <3>2, <3>3, ErrorsTail
  <2>2. CASE r # current
    BY <1>2, <1>6, <2>2 DEF QueueInv
  <2> QED
    BY <2>1, <2>2
<1>7. \A w \in Workers : Active(w)' = Active(w)
  BY <1>1 DEF Active
<1> QED
  BY <1>5, <1>6, <1>7 DEF QueueInv

(* An item of the only worker, on the current radiator's queue: its end    *)
(* marker when it ends.                                                    *)
LEMMA QueuesAppend ==
  ASSUME RInv, AloneInv, QueueInv, NEW w \in Workers, Active(w), NEW item \in Items,
         current \in Modules, UNCHANGED <<current, main>>,
         pc' = [pc EXCEPT ![w] = pc'[w]], item = EOF => pc'[w] = "done",
         data_queue' = [data_queue EXCEPT ![current] = Append(@, item)]
  PROVE  QueueInv'
<1> DEFINE q == data_queue[current]
<1>1. /\ main # "idle" /\ \A u \in Workers : Active(u) => u = w
      /\ pc[w] # "none"
  BY DEF AloneInv, Active
<1>2. /\ q \in Seq(Items) /\ data_queue'[current] = Append(q, item)
      /\ \A r \in Modules \ {current} : data_queue'[r] = data_queue[r]
  BY DEF RInv, TypeOK
<1>3. /\ Len(q) \in Nat /\ Len(Append(q, item)) = Len(q) + 1
      /\ Append(q, item)[Len(q) + 1] = item
      /\ \A i \in 1 .. Len(q) : Append(q, item)[i] = q[i]
  BY <1>2
<1>4. \A r \in Modules : \A i \in 1 .. Len(data_queue[r]) : data_queue[r][i] # EOF
  BY DEF QueueInv
<1>5. ASSUME NEW r \in Modules, NEW i \in 1 .. Len(data_queue'[r]),
             data_queue'[r][i] = EOF
      PROVE  /\ ErrorsFrom(data_queue'[r], i + 1)
             /\ \A u \in Workers : ~Active(u)'
  <2>1. r = current
    BY <1>2, <1>4, <1>5
  <2>2. i = Len(q) + 1 /\ item = EOF
    BY <1>2, <1>3, <1>4, <1>5, <2>1
  <2>3. ErrorsFrom(data_queue'[r], i + 1)
    BY <1>2, <1>3, <2>1, <2>2 DEF ErrorsFrom
  <2>4. \A u \in Workers : ~Active(u)'
    BY <1>1, <2>2 DEF Active, RInv, TypeOK
  <2> QED
    BY <2>3, <2>4
<1>6. ASSUME NEW r \in Modules, r # current' \/ main' = "idle"
      PROVE  ErrorsFrom(data_queue'[r], 1)
  BY <1>1, <1>2, <1>6 DEF QueueInv
<1> QED
  BY <1>5, <1>6 DEF QueueInv

LEMMA QueuesStep ==
  ASSUME RInv, AloneInv, QueueInv, [Next]_vars, Alone, Alone'
  PROVE  QueueInv'
<1> USE DEF RInv
<1>1. /\ DOMAIN pc = Workers /\ data_queue \in [Modules -> Seq(Items)]
  BY DEF TypeOK
<1>2. ASSUME UNCHANGED <<data_queue, current>>, main = "idle" \/ main' # "idle",
             \A w \in Workers : Active(w)' => Active(w)
      PROVE  QueueInv'
  BY <1>2 DEF QueueInv
<1>3. ASSUME NEW r \in Modules, Radiate(r) PROVE QueueInv'
  <2>1. main = "idle" /\ UNCHANGED data_queue
    BY <1>3 DEF Radiate
  <2>2. ASSUME NEW s \in Modules, NEW i \in 1 .. Len(data_queue[s])
        PROVE  data_queue[s][i] # EOF
    BY <2>1 DEF QueueInv, ErrorsFrom, Error, EOF
  <2> QED
    BY <2>1, <2>2 DEF QueueInv
<1>4. CASE RadiateUnknown \/ ManualDigest \/ StartServer \/ UNCHANGED vars
  <2>1. UNCHANGED <<data_queue, current, pc>> /\ (main = "idle" \/ main' = main)
    BY <1>4 DEF RadiateUnknown, ManualDigest, StartServer, vars, vim, work
  <2> QED
    BY <1>2, <2>1 DEF Active
<1>5. CASE MainStep
  <2>1. CASE NextEOF
    BY <2>1, QueuesTake DEF NextEOF
  <2>2. CASE NextCommand \/ NextQuery \/ NextError
    <3>1. main' = "digest" /\ \E type : TakeItem(type)
      BY <2>2 DEF NextCommand, NextQuery, NextError, GoesOn, Raises, Alone
    <3> QED
      BY <3>1, QueuesTake
  <2>3. CASE NextSleep
    BY <1>2, <2>3 DEF NextSleep, vim, Active
  <2>4. CASE NextTimeout \/ TakeKeys \/ NextQueryRaises
    BY <2>4 DEF NextTimeout, TakeKeys, NextQueryRaises, Raises, Alone, AloneInv
  <2> QED
    BY <1>5, <2>1, <2>2, <2>3, <2>4 DEF MainStep
<1>6. ASSUME NEW w \in Workers, WorkerStep(w) PROVE QueueInv'
  <2>1. /\ Active(w) /\ asked[w] = current /\ main # "idle"
        /\ pc'[w] \notin {"remote", "signal"}
    BY <1>6, WorkerAlone
  <2>2. /\ UNCHANGED <<current, main>> /\ current \in Modules
        /\ pc' = [pc EXCEPT ![w] = pc'[w]]
    BY <1>6, WorkerEffect
  <2>3. \A u \in Workers : Active(u)' => Active(u)
    BY <1>1, <2>1, <2>2 DEF Active
  <2>4. UNCHANGED data_queue => QueueInv'
    BY <1>2, <2>1, <2>2, <2>3
  <2>5. pc[w] \notin {"created", "loading"} =>
          /\ routine[w] \in Modules /\ ths[w] = current /\ Output(w) = current
          /\ interface[current] = "sequential"
    <3>1. pc[w] \notin {"created", "loading"} =>
            routine[w] \in Modules /\ ths[w] \in Modules
      BY <2>1 DEF WorkInv, Knows, Active
    <3> QED
      BY <2>1, <3>1, AloneTypes
  <2>6. ASSUME NEW item \in Items,
               data_queue' = [data_queue EXCEPT ![current] = Append(@, item)],
               item = EOF => pc'[w] = "done"
        PROVE  QueueInv'
    BY <2>1, <2>2, <2>6, QueuesAppend
  <2>7. CASE \/ LoadRoutine(w) \/ LoadRadiator(w) \/ TakeAnswer(w) \/ AwaitAnswer(w)
             \/ AnswerTimeout(w) \/ AskServer(w) \/ ServerAnswer(w) \/ StartStream(w)
             \/ CallDigest(w)
    BY <2>4, <2>7
       DEF LoadRoutine, LoadRadiator, TakeAnswer, AwaitAnswer, AnswerTimeout,
           AskServer, ServerAnswer, Answered, StartStream, CallDigest
  <2>8. CASE Ask(w)
    <3>1. /\ data_queue' = [data_queue EXCEPT ![current] =
                              Append(@, Query(Variable(w)))]
      BY <2>5, <2>8 DEF Ask, Goto
    <3>2. /\ routine[w] \in Modules /\ Len(answers[w]) \in Nat
          /\ Len(answers[w]) < Queries(routine[w])
      BY <2>8 DEF Ask, Goto, TypeOK, WorkInv, Knows
    <3>3. Variable(w) \in Modules \X {1, 2}
      BY <3>2 DEF Queries, Variable
    <3> QED
      BY <2>6, <3>1, <3>3, ItemTypes DEF Query, EOF
  <2>9. CASE Preamble(w) \/ Emit(w)
    <3>1. pc[w] \notin {"created", "loading"}
      BY <2>9 DEF Preamble, Emit, Goto
    <3>2. Command(w, emitted[w] + 1) # EOF
      BY DEF Command, EOF
    <3> QED
      BY <2>5, <2>6, <2>9, <3>1, <3>2, EmitEffect
  <2>10. CASE FailStream(w)
    <3>1. \/ UNCHANGED data_queue
          \/ data_queue' = [data_queue EXCEPT ![current] = Append(@, Error)]
      BY <2>5, <2>10 DEF FailStream, PostError, Queue, Goto
    <3> QED
      BY <2>4, <2>6, <3>1, ItemTypes DEF Error, EOF
  <2>11. CASE Finish(w)
    <3>1. /\ data_queue' = [data_queue EXCEPT ![current] = Append(@, EOF)]
          /\ pc'[w] = "done"
      BY <1>1, <2>5, <2>11 DEF Finish, Queue, Goto
    <3> QED
      BY <2>6, <3>1, ItemTypes
  <2> QED
    BY <1>6, <2>7, <2>8, <2>9, <2>10, <2>11 DEF WorkerStep
<1>7. ASSUME NEW w \in Workers, ErrorThread(w) PROVE QueueInv'
  <2>1. UNCHANGED <<pc, main, current>>
    BY <1>7 DEF ErrorThread, vim
  <2>2. PICK s \in Modules : data_queue' = [data_queue EXCEPT ![s] = Append(@, Error)]
    BY <1>7, ErrorThreadAlone
  <2>3. \A r \in Modules : \/ data_queue'[r] = data_queue[r]
                           \/ data_queue'[r] = Append(data_queue[r], Error)
    BY <1>1, <2>2
  <2>4. ASSUME NEW r \in Modules, r # current' \/ main' = "idle"
        PROVE  ErrorsFrom(data_queue'[r], 1)
    BY <1>1, <2>1, <2>3, <2>4, ErrorsAppend DEF QueueInv
  <2>5. ASSUME NEW r \in Modules, NEW i \in 1 .. Len(data_queue'[r]),
               data_queue'[r][i] = EOF
        PROVE  ErrorsFrom(data_queue'[r], i + 1) /\ \A u \in Workers : ~Active(u)
    <3>1. data_queue[r] \in Seq(Items) /\ Len(data_queue[r]) \in Nat
      BY <1>1
    <3>2. i \in 1 .. Len(data_queue[r]) /\ data_queue[r][i] = EOF /\ i + 1 \in Nat
      <4> DEFINE q == data_queue[r]
      <4>1. /\ Len(Append(q, Error)) = Len(q) + 1
            /\ Append(q, Error)[Len(q) + 1] = Error
            /\ \A j \in 1 .. Len(q) : Append(q, Error)[j] = q[j]
        BY <3>1
      <4>2. Error # EOF
        BY DEF Error, EOF
      <4> HIDE DEF q
      <4>3. CASE data_queue'[r] = Append(q, Error)
        BY <2>5, <3>1, <4>1, <4>2, <4>3 DEF q
      <4>4. CASE data_queue'[r] = q
        BY <2>5, <3>1, <4>4 DEF q
      <4> QED
        BY <2>3, <4>3, <4>4 DEF q
    <3>3. ErrorsFrom(data_queue[r], i + 1) /\ \A u \in Workers : ~Active(u)
      BY <3>2 DEF QueueInv
    <3> QED
      BY <2>3, <3>1, <3>2, <3>3, ErrorsAppend
  <2> QED
    BY <2>1, <2>4, <2>5 DEF QueueInv, Active
<1> QED
  BY <1>3, <1>4, <1>5, <1>6, <1>7 DEF Next, User

------------------------------------------------------------------------------
(* No query is added to a queue.                                           *)
LEMMA QueriesFewer ==
  ASSUME NEW q \in Seq(Items), NEW q1,
         \/ q1 = q
         \/ q # <<>> /\ q1 = Tail(q)
         \/ \E item \in Items : item.type # "query" /\ q1 = Append(q, item)
  PROVE  /\ OneQuery(q) => OneQuery(q1)
         /\ \A i \in 1 .. Len(q1) : q1[i].type = "query" =>
              \E j \in 1 .. Len(q) : q[j] = q1[i]
<1>1. CASE q1 = q
  BY <1>1
<1>2. CASE q # <<>> /\ q1 = Tail(q)
  <2>1. /\ Len(q) \in Nat \ {0} /\ Len(q1) = Len(q) - 1
        /\ \A i \in 1 .. Len(q) - 1 : q1[i] = q[i + 1]
    BY <1>2
  <2>2. \A i \in 1 .. Len(q1) : i \in Nat /\ i + 1 \in 1 .. Len(q) /\ q1[i] = q[i + 1]
    BY <2>1
  <2>3. ASSUME OneQuery(q), NEW i \in 1 .. Len(q1), NEW j \in 1 .. Len(q1),
               q1[i].type = "query", q1[j].type = "query"
        PROVE  i = j
    <3>1. i + 1 = j + 1
      BY <2>2, <2>3 DEF OneQuery
    <3> QED
      BY <2>2, <3>1
  <2> QED
    BY <2>2, <2>3 DEF OneQuery
<1>3. ASSUME NEW item \in Items, item.type # "query", q1 = Append(q, item)
      PROVE  /\ OneQuery(q) => OneQuery(q1)
             /\ \A i \in 1 .. Len(q1) : q1[i].type = "query" =>
                  \E j \in 1 .. Len(q) : q[j] = q1[i]
  <2>1. /\ Len(q) \in Nat /\ Len(q1) = Len(q) + 1 /\ q1[Len(q) + 1] = item
        /\ \A i \in 1 .. Len(q) : q1[i] = q[i]
    BY <1>3
  <2>2. \A i \in 1 .. Len(q1) : q1[i].type = "query" =>
          i \in 1 .. Len(q) /\ q1[i] = q[i]
    BY <1>3, <2>1
  <2> QED
    BY <2>2 DEF OneQuery
<1> QED
  BY <1>1, <1>2, <1>3

(* A step that neither asks nor answers, and after which those who waited  *)
(* for an answer still do.                                                 *)
LEMMA AnswerKeeps ==
  ASSUME RInv, AnswerInv, QueryAnswersMatch',
         UNCHANGED <<message_queue, current>>,
         \A w \in Workers : pc[w] \in {"await", "asleep"} =>
           /\ pc'[w] \in {"await", "asleep"}
           /\ routine'[w] = routine[w] /\ answers'[w] = answers[w],
         \A r \in Modules :
           \/ data_queue'[r] = data_queue[r]
           \/ data_queue[r] # <<>> /\ data_queue'[r] = Tail(data_queue[r])
           \/ \E item \in Items :
                item.type # "query" /\ data_queue'[r] = Append(data_queue[r], item)
  PROVE  AnswerInv'
<1>1. ASSUME NEW w \in Workers, NEW var, Awaits(w, var) PROVE Awaits(w, var)'
  BY <1>1 DEF Awaits, Variable
<1>2. ASSUME NEW r \in Modules
      PROVE  /\ OneQuery(data_queue[r]) => OneQuery(data_queue'[r])
             /\ \A i \in 1 .. Len(data_queue'[r]) : data_queue'[r][i].type = "query" =>
                  \E j \in 1 .. Len(data_queue[r]) : data_queue[r][j] = data_queue'[r][i]
  <2> DEFINE q == data_queue[r]
             q1 == data_queue'[r]
  <2>1. q \in Seq(Items)
    BY DEF RInv, TypeOK
  <2>2. \/ q1 = q
        \/ q # <<>> /\ q1 = Tail(q)
        \/ \E item \in Items : item.type # "query" /\ q1 = Append(q, item)
    OBVIOUS
  <2> HIDE DEF q, q1
  <2>3. /\ OneQuery(q) => OneQuery(q1)
        /\ \A i \in 1 .. Len(q1) : q1[i].type = "query" =>
             \E j \in 1 .. Len(q) : q[j] = q1[i]
    BY <2>1, <2>2, QueriesFewer
  <2> QED
    BY <2>3 DEF q, q1
<1>3. ASSUME NEW r \in Modules PROVE OneQuery(data_queue[r])'
  <2>1. OneQuery(data_queue'[r])
    BY <1>2 DEF AnswerInv
  <2> QED
    BY <2>1 DEF OneQuery
<1>4. ASSUME NEW r \in Modules, NEW i \in 1 .. Len(data_queue'[r]),
             data_queue'[r][i].type = "query"
      PROVE  /\ \E w \in Workers : Awaits(w, data_queue[r][i].var)'
             /\ \A s \in Modules : message_queue'[s] = <<>>
  <2>1. PICK j \in 1 .. Len(data_queue[r]) : data_queue[r][j] = data_queue'[r][i]
    BY <1>2, <1>4
  <2>2. /\ \E w \in Workers : Awaits(w, data_queue'[r][i].var)
        /\ \A s \in Modules : message_queue[s] = <<>>
    BY <1>4, <2>1 DEF AnswerInv
  <2> QED
    BY <2>2 DEF Awaits, Variable
<1>5. ASSUME NEW r \in Modules, message_queue'[r] # <<>>
      PROVE  /\ Len(message_queue'[r]) = 1 /\ r = current'
             /\ \E w \in Workers : Awaits(w, message_queue[r][1].var)'
  <2>1. /\ Len(message_queue'[r]) = 1 /\ r = current'
        /\ \E w \in Workers : Awaits(w, message_queue'[r][1].var)
    BY <1>5 DEF AnswerInv
  <2> QED
    BY <2>1 DEF Awaits, Variable
<1> QED
  BY <1>3, <1>4, <1>5 DEF AnswerInv

(* While nobody waits for an answer, none is on its way, nor a query.      *)
LEMMA NobodyWaits ==
  ASSUME AnswerInv, \A w \in Workers : pc[w] \notin {"await", "asleep"}
  PROVE  /\ \A r \in Modules : message_queue[r] = <<>>
         /\ \A r \in Modules : \A i \in 1 .. Len(data_queue[r]) :
              data_queue[r][i].type # "query"
  BY DEF AnswerInv, Awaits

(* The answers of a routine change when it gets one.                       *)
LEMMA MatchStep ==
  ASSUME RInv, AloneInv, AnswerInv, [Next]_vars, Alone, Alone'
  PROVE  QueryAnswersMatch'
<1> USE DEF RInv
<1>1. CASE UNCHANGED <<routine, answers>>
  BY <1>1 DEF AnswerInv, QueryAnswersMatch
<1>2. CASE User \/ MainStep \/ UNCHANGED vars
  <2>1. UNCHANGED <<routine, answers>>
    BY <1>2, MainEffect
       DEF User, Radiate, RadiateUnknown, ManualDigest, StartServer, vars, work
  <2> QED
    BY <1>1, <2>1
<1>3. ASSUME NEW w \in Workers, LoadRoutine(w) PROVE QueryAnswersMatch'
  <2>1. /\ answers[w] = <<>> /\ answers' = answers
        /\ \A u \in Workers \ {w} : routine'[u] = routine[u]
    BY <1>3 DEF LoadRoutine, Goto, WorkInv, Knows, TypeOK
  <2> QED
    BY <2>1 DEF AnswerInv, QueryAnswersMatch
<1>4. ASSUME NEW w \in Workers, NEW value, value \in {Variable(w), Default},
             Answered(w, value)
      PROVE  QueryAnswersMatch'
  <2>1. /\ answers' = [answers EXCEPT ![w] = Append(@, value)] /\ routine' = routine
    BY <1>4 DEF Answered
  <2>2. /\ \A u \in Workers \ {w} : answers'[u] = answers[u]
        /\ answers'[w] = Append(answers[w], value)
        /\ answers[w] \in Seq((Modules \X {1, 2}) \cup {Default})
    BY <2>1 DEF TypeOK
  <2>3. /\ Len(answers[w]) \in Nat /\ Len(answers'[w]) = Len(answers[w]) + 1
        /\ answers'[w][Len(answers[w]) + 1] = value
        /\ \A k \in 1 .. Len(answers[w]) : answers'[w][k] = answers[w][k]
    BY <2>2
  <2>4. \A k \in 1 .. Len(answers'[w]) : answers'[w][k] \in {<<routine[w], k>>, Default}
    BY <1>4, <2>3 DEF Variable, AnswerInv, QueryAnswersMatch
  <2>5. Default' = Default
    BY DEF Default
  <2> QED
    BY <2>1, <2>2, <2>4, <2>5 DEF AnswerInv, QueryAnswersMatch
<1>5. ASSUME NEW w \in Workers, TakeAnswer(w) PROVE QueryAnswersMatch'
  <2> DEFINE m == message_queue[ths[w]]
  <2>1. /\ pc[w] \in {"await", "asleep"} /\ m # <<>> /\ ths[w] \in Modules
        /\ Answered(w, IF Head(m).set THEN Head(m).var ELSE Default)
    BY <1>5 DEF TakeAnswer, WorkInv, Knows
  <2>2. m \in Seq([var : Modules \X {1, 2}, set : BOOLEAN])
    BY <2>1 DEF TypeOK
  <2>3. PICK u \in Workers : Awaits(u, m[1].var)
    BY <2>1 DEF AnswerInv
  <2>4. u = w
    BY <2>1, <2>3 DEF AloneInv, Active, Awaits
  <2>5. Head(m).var = Variable(w)
    BY <2>1, <2>2, <2>3, <2>4 DEF Awaits
  <2> QED
    BY <1>4, <2>1, <2>5
<1>6. ASSUME NEW w \in Workers, WorkerStep(w) \/ ErrorThread(w),
             ~LoadRoutine(w), ~TakeAnswer(w)
      PROVE  QueryAnswersMatch'
  <2>1. ~AnswerTimeout(w)
    BY DEF AnswerTimeout, Alone
  <2>2. ~ServerAnswer(w)
    BY DEF ServerAnswer, AloneInv, Active
  <2>3. UNCHANGED <<routine, answers>>
    BY <1>6, <2>1, <2>2 DEF WorkerStep, LoadRadiator, Ask, AwaitAnswer, AskServer,
       Preamble, EmitCommand, StartStream, FailStream, Emit, Finish, CallDigest,
       ErrorThread, work
  <2> QED
    BY <1>1, <2>3
<1> QED
  BY <1>2, <1>3, <1>5, <1>6 DEF Next

(* Vim's answer replaces the query.                                        *)
LEMMA AnswerQuery ==
  ASSUME RInv, QueueInv, AnswerInv, NextQuery, QueryAnswersMatch'
  PROVE  AnswerInv'
<1> DEFINE q == data_queue[current]
           var == q[1].var
           answer == [var |-> var, set |-> var \in Defined]
<1>1. /\ current \in Modules /\ q \in Seq(Items) /\ q # <<>> /\ 1 \in 1 .. Len(q)
      /\ q[1].type = "query"
      /\ data_queue' = [data_queue EXCEPT ![current] = Tail(@)]
      /\ UNCHANGED <<session, pc, work>>
  BY TakeShape DEF NextQuery
<1>2. /\ \E w \in Workers : Awaits(w, var)
      /\ \A s \in Modules : message_queue[s] = <<>>
      /\ OneQuery(q)
  BY <1>1 DEF AnswerInv
<1>3. /\ message_queue' = [message_queue EXCEPT ![current] = Append(@, answer)]
      /\ DOMAIN message_queue = Modules /\ DOMAIN data_queue = Modules
  <2>1. Head(q) = q[1]
    BY <1>1
  <2> QED
    BY <2>1 DEF NextQuery, RInv, TypeOK
<1>4. /\ message_queue'[current] = <<answer>>
      /\ \A s \in Modules \ {current} : message_queue'[s] = <<>>
  <2>1. Append(<<>>, answer) = <<answer>>
    OBVIOUS
  <2> HIDE DEF answer
  <2> QED
    BY <1>1, <1>2, <1>3, <2>1
<1>5. ASSUME NEW r \in Modules, NEW i \in 1 .. Len(data_queue'[r])
      PROVE  data_queue'[r][i].type # "query"
  <2>1. CASE r = current
    <3>1. /\ data_queue'[r] = Tail(q) /\ Len(q) \in Nat \ {0} /\ Len(Tail(q)) = Len(q) - 1
          /\ \A j \in 1 .. Len(q) - 1 : Tail(q)[j] = q[j + 1]
      BY <1>1, <1>3, <2>1
    <3>2. i + 1 \in 1 .. Len(q) /\ i + 1 # 1 /\ data_queue'[r][i] = q[i + 1]
      BY <3>1
    <3> QED
      BY <1>1, <1>2, <3>2 DEF OneQuery
  <2>2. CASE r # current
    <3>1. data_queue'[r] = data_queue[r] /\ ErrorsFrom(data_queue[r], 1)
      BY <1>1, <1>3, <2>2 DEF QueueInv
    <3> QED
      BY <3>1 DEF ErrorsFrom, Error
  <2> QED
    BY <2>1, <2>2
<1>6. \E w \in Workers : Awaits(w, message_queue[current][1].var)'
  <2>1. message_queue'[current][1].var = var /\ current' = current
    BY <1>1, <1>4 DEF session
  <2> QED
    BY <1>1, <1>2, <2>1 DEF Awaits, Variable, work
<1>7. current' = current /\ Len(message_queue'[current]) = 1
  BY <1>1, <1>4 DEF session
<1> QED
  BY <1>4, <1>5, <1>6, <1>7 DEF AnswerInv, OneQuery

(* A query that nobody else has asked, and the answer nobody else awaits.  *)
LEMMA AnswerAsk ==
  ASSUME RInv, AloneInv, AnswerInv, NEW w \in Workers, Ask(w), QueryAnswersMatch'
  PROVE  AnswerInv'
<1> USE DEF RInv
<1>1. /\ pc[w] = "query" /\ pc' = [pc EXCEPT ![w] = "await"]
      /\ ths[w] \in Modules /\ UNCHANGED <<message_queue, routine, answers, current>>
      /\ data_queue' = [data_queue EXCEPT ![ths[w]] = Append(@, Query(Variable(w)))]
  BY DEF Ask, Goto, WorkInv, Knows, vim, work
<1>2. \A u \in Workers : pc[u] \notin {"await", "asleep"}
  BY <1>1 DEF AloneInv, Active
<1>3. /\ \A r \in Modules : message_queue[r] = <<>>
      /\ \A r \in Modules : \A i \in 1 .. Len(data_queue[r]) :
           data_queue[r][i].type # "query"
  BY <1>2, NobodyWaits
<1>4. Awaits(w, Variable(w))' /\ Variable(w)' = Variable(w)
  BY <1>1 DEF Awaits, Variable, TypeOK
<1>5. ASSUME NEW r \in Modules, NEW i \in 1 .. Len(data_queue'[r]),
             data_queue'[r][i].type = "query"
      PROVE  i = Len(data_queue[r]) + 1 /\ data_queue'[r][i] = Query(Variable(w))
  <2> DEFINE q == data_queue[r]
             item == Query(Variable(w))
  <2>1. q \in Seq(Items) /\ (data_queue'[r] = q \/ data_queue'[r] = Append(q, item))
    BY <1>1 DEF TypeOK
  <2>2. /\ Len(q) \in Nat /\ Len(Append(q, item)) = Len(q) + 1
        /\ Append(q, item)[Len(q) + 1] = item
        /\ \A j \in 1 .. Len(q) : Append(q, item)[j] = q[j]
    BY <2>1
  <2> HIDE DEF item
  <2>3. CASE data_queue'[r] = q
    BY <1>3, <1>5, <2>3
  <2>4. CASE data_queue'[r] = Append(q, item)
    BY <1>3, <1>5, <2>2, <2>4 DEF item
  <2> QED
    BY <2>1, <2>3, <2>4
<1>6. \A r \in Modules : OneQuery(data_queue[r])'
  BY <1>5 DEF OneQuery
<1>7. Query(Variable(w)).var = Variable(w)
  BY DEF Query
<1>8. ASSUME NEW r \in Modules, NEW i \in 1 .. Len(data_queue'[r]),
             data_queue'[r][i].type = "query"
      PROVE  Awaits(w, data_queue[r][i].var)'
  <2>1. data_queue'[r][i].var = Variable(w)'
    BY <1>4, <1>5, <1>7, <1>8
  <2> QED
    BY <1>4, <2>1 DEF Awaits
<1> QED
  BY <1>1, <1>3, <1>6, <1>8 DEF AnswerInv

LEMMA TailOfOne ==
  ASSUME NEW S, NEW q \in Seq(S), Len(q) = 1
  PROVE  Tail(q) = <<>>
<1>1. q # <<>> /\ Tail(q) \in Seq(S) /\ Len(Tail(q)) = 0
  OBVIOUS
<1> QED
  BY <1>1, EmptySeq

LEMMA AnswerTaken ==
  ASSUME RInv, AloneInv, AnswerInv, NEW w \in Workers, TakeAnswer(w), QueryAnswersMatch'
  PROVE  AnswerInv'
<1> DEFINE m == message_queue[ths[w]]
<1>1. /\ ths[w] \in Modules /\ m # <<>>
      /\ message_queue' = [message_queue EXCEPT ![ths[w]] = Tail(@)]
      /\ UNCHANGED <<data_queue, current>>
  BY DEF TakeAnswer, Answered, vim, RInv, WorkInv, Knows
<1>2. Len(m) = 1 /\ \A r \in Modules : r # ths[w] => message_queue[r] = <<>>
  BY <1>1 DEF AnswerInv
<1>3. m \in Seq([var : Modules \X {1, 2}, set : BOOLEAN]) /\ DOMAIN message_queue = Modules
  BY <1>1 DEF RInv, TypeOK
<1>4. Tail(m) = <<>>
  BY <1>2, <1>3, TailOfOne
<1>5. \A r \in Modules : message_queue'[r] = <<>>
  BY <1>1, <1>2, <1>3, <1>4
<1>6. \A r \in Modules : \A i \in 1 .. Len(data_queue[r]) :
        data_queue[r][i].type # "query"
  BY <1>1 DEF AnswerInv
<1> QED
  BY <1>1, <1>5, <1>6 DEF AnswerInv, OneQuery

LEMMA AnswerStep ==
  ASSUME RInv, AloneInv, QueueInv, AnswerInv, [Next]_vars, Alone, Alone'
  PROVE  AnswerInv'
<1> USE DEF RInv
<1>1. QueryAnswersMatch'
  BY MatchStep
<1>2. /\ DOMAIN pc = Workers /\ DOMAIN data_queue = Modules
  BY DEF TypeOK
<1>3. ASSUME NEW r \in Modules, Radiate(r) PROVE AnswerInv'
  <2>1. main = "idle" /\ UNCHANGED <<data_queue, message_queue>>
    BY <1>3 DEF Radiate
  <2>2. \A w \in Workers : pc[w] \notin {"await", "asleep"}
    BY <2>1 DEF AloneInv, Active
  <2> QED
    BY <1>1, <2>1, <2>2, NobodyWaits DEF AnswerInv, OneQuery
<1>4. ASSUME UNCHANGED <<message_queue, current, pc, routine, answers>>,
             \A r \in Modules :
               \/ data_queue'[r] = data_queue[r]
               \/ data_queue[r] # <<>> /\ data_queue'[r] = Tail(data_queue[r])
               \/ data_queue'[r] = Append(data_queue[r], Error)
      PROVE  AnswerInv'
  <2>1. Error \in Items /\ Error.type # "query"
    BY ItemTypes DEF Error
  <2> QED
    BY <1>1, <1>4, <2>1, AnswerKeeps
<1>5. CASE \/ RadiateUnknown \/ ManualDigest \/ StartServer \/ UNCHANGED vars
           \/ NextSleep \/ NextTimeout \/ TakeKeys
  <2>1. UNCHANGED <<message_queue, current, pc, routine, answers, data_queue>>
    BY <1>5 DEF RadiateUnknown, ManualDigest, StartServer, NextSleep, NextTimeout,
       TakeKeys, vars, vim, work
  <2> QED
    BY <1>4, <2>1
<1>6. CASE NextEOF \/ NextCommand \/ NextError
  <2>1. UNCHANGED message_queue /\ \E type : TakeItem(type)
    BY <1>6 DEF NextEOF, NextCommand, NextError
  <2>2. /\ current \in Modules /\ data_queue[current] # <<>>
        /\ data_queue' = [data_queue EXCEPT ![current] = Tail(@)]
        /\ UNCHANGED <<session, pc, work>>
    BY <2>1, TakeShape
  <2> QED
    BY <1>2, <1>4, <2>1, <2>2 DEF session, work
<1>7. CASE NextQuery \/ NextQueryRaises
  BY <1>1, <1>7, AnswerQuery DEF NextQueryRaises, Raises, Alone
<1>8. ASSUME NEW w \in Workers, ErrorThread(w) PROVE AnswerInv'
  <2>1. UNCHANGED <<message_queue, current, pc, routine, answers>>
    BY <1>8 DEF ErrorThread, vim
  <2>2. PICK s \in Modules : data_queue' = [data_queue EXCEPT ![s] = Append(@, Error)]
    BY <1>8, ErrorThreadAlone
  <2> QED
    BY <1>2, <1>4, <2>1, <2>2
<1>9. ASSUME NEW w \in Workers, WorkerStep(w), ~Ask(w), ~TakeAnswer(w)
      PROVE  AnswerInv'
  <2>1. /\ UNCHANGED current /\ pc' = [pc EXCEPT ![w] = pc'[w]]
    BY <1>9, WorkerEffect
  <2>2. ~AnswerTimeout(w) /\ ~ServerAnswer(w)
    BY DEF AnswerTimeout, Alone, ServerAnswer, AloneInv, Active
  <2>3. /\ UNCHANGED <<message_queue, answers>>
        /\ pc[w] # "asleep"
        /\ pc[w] = "await" => pc'[w] = "asleep"
        /\ \A u \in Workers : routine'[u] = routine[u] \/ (u = w /\ pc[w] = "created")
    BY <1>2, <1>9, <2>2 DEF WorkerStep, LoadRoutine, LoadRadiator, AwaitAnswer,
       AskServer, Preamble, EmitCommand, StartStream, FailStream, Emit, Finish,
       CallDigest, Goto, work, TypeOK
  <2>4. \A u \in Workers : pc[u] \in {"await", "asleep"} =>
          /\ pc'[u] \in {"await", "asleep"}
          /\ routine'[u] = routine[u] /\ answers'[u] = answers[u]
    BY <1>2, <2>1, <2>3
  <2>5. \A r \in Modules :
          \/ data_queue'[r] = data_queue[r]
          \/ \E item \in Items :
               item.type # "query" /\ data_queue'[r] = Append(data_queue[r], item)
    <3>1. CASE LoadRoutine(w) \/ LoadRadiator(w) \/ AwaitAnswer(w) \/ AskServer(w)
               \/ StartStream(w) \/ CallDigest(w)
      BY <3>1 DEF LoadRoutine, LoadRadiator, AwaitAnswer, AskServer, StartStream,
         CallDigest
    <3>2. ASSUME NEW item \in Items, item.type # "query",
                 data_queue' = [data_queue EXCEPT ![Output(w)] = Append(@, item)]
          PROVE  \A r \in Modules :
                   \/ data_queue'[r] = data_queue[r]
                   \/ \E it \in Items :
                        it.type # "query" /\ data_queue'[r] = Append(data_queue[r], it)
      BY <1>2, <3>2
    <3>3. CASE Preamble(w) \/ Emit(w)
      BY <3>2, <3>3, EmitEffect
    <3>4. CASE FailStream(w)
      <4>1. UNCHANGED data_queue
            \/ data_queue' = [data_queue EXCEPT ![Output(w)] = Append(@, Error)]
        BY <3>4 DEF FailStream, PostError, Queue
      <4> QED
        BY <3>2, <4>1, ItemTypes DEF Error
    <3>5. CASE Finish(w)
      <4>1. data_queue' = [data_queue EXCEPT ![Output(w)] = Append(@, EOF)]
        BY <3>5 DEF Finish, Queue
      <4> QED
        BY <3>2, <4>1, ItemTypes DEF EOF
    <3> QED
      BY <1>9, <2>2, <3>1, <3>3, <3>4, <3>5 DEF WorkerStep
  <2> QED
    BY <1>1, <2>1, <2>3, <2>4, <2>5, AnswerKeeps
<1> QED
  BY <1>1, <1>3, <1>5, <1>6, <1>7, <1>8, <1>9, AnswerAsk, AnswerTaken
     DEF Next, User, MainStep

LEMMA SequentialStep == RInv /\ SequentialInv /\ [Next]_vars => SequentialInv'
<1> SUFFICES ASSUME RInv, SequentialInv, [Next]_vars, Alone'
             PROVE  AloneInv' /\ QueueInv' /\ AnswerInv'
  BY DEF SequentialInv
<1>1. Alone
  BY AloneBefore
<1>2. AloneInv /\ QueueInv /\ AnswerInv
  BY <1>1 DEF SequentialInv
<1> QED
  BY <1>1, <1>2, AloneStep, QueuesStep, AnswerStep

(* Vim is idle again when the end marker of the only worker has been read. *)
LEMMA IdleIsClean == RInv /\ ConserveInv /\ SequentialInv => SequentialClean
<1> SUFFICES ASSUME RInv, ConserveInv, Alone, AloneInv, QueueInv, AnswerInv
             PROVE  SequentialClean
  BY DEF SequentialInv, SequentialClean, Alone
<1>1. QueryAnswersMatch /\ RoutineMatchesFiletype
  BY DEF AnswerInv, AloneInv
<1>2. ASSUME main = "idle", NEW r \in Modules
      PROVE  /\ message_queue[r] = <<>>
             /\ \A i \in 1 .. Len(data_queue[r]) : data_queue[r][i] = Error
  <2>1. \A w \in Workers : ~Active(w)
    BY <1>2 DEF AloneInv
  <2>2. message_queue[r] = <<>>
    BY <2>1 DEF AnswerInv, Awaits, Active
  <2>3. ErrorsFrom(data_queue[r], 1)
    BY <1>2 DEF QueueInv
  <2> QED
    BY <2>2, <2>3 DEF ErrorsFrom
<1>3. ASSUME main = "idle", NEW w \in Workers
      PROVE  pc[w] \in {"none", "done"} /\ Len(executed[w]) = emitted[w]
  <2>1. pc[w] \in {"none", "done"}
    BY <1>3 DEF AloneInv, Active
  <2>2. Len(executed[w]) <= emitted[w] /\ Len(executed[w]) \in Nat /\ emitted[w] \in Nat
        /\ (emitted[w] > 0 => Output(w) \in Modules)
    BY ConserveTypes DEF ConserveInv, Conserved
  <2>3. CASE emitted[w] = 0
    BY <2>1, <2>2, <2>3
  <2>4. CASE emitted[w] > 0
    <3>1. Of(data_queue[Output(w)], w) = {}
      BY <1>2, <1>3, <2>2, <2>4 DEF Of, Error
    <3>2. InOrder(data_queue[Output(w)], w, Len(executed[w]), emitted[w])
      BY <2>4 DEF ConserveInv, Conserved
    <3>3. Len(executed[w]) + 1 .. emitted[w] = {}
      BY <3>1, <3>2 DEF InOrder
    <3> QED
      BY <2>1, <2>2, <3>3
  <2> QED
    BY <2>2, <2>3, <2>4
<1> QED
  BY <1>1, <1>2, <1>3 DEF SequentialClean

(* Without a server, and while no take has run out of time and no          *)
(* exception has ended a digest, each radiate is complete when the digest  *)
(* of the Python client is over: radiation.c ran the routine for the file, *)
(* its queries got their own answers, its commands are executed, and only  *)
(* late errors are left in the queues.                                     *)
THEOREM SequentialIsClean == Spec => []SequentialClean
BY QueuesInv, SessionInv, SequentialInit, SequentialStep, IdleIsClean, PTL DEF Spec
==============================================================================
