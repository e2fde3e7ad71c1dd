--------------------------- MODULE RadiationProofs ---------------------------
(***************************************************************************)
(* Proofs about the session of Vim and its workers, for any number of      *)
(* files, commands, errors and digests: the types of its state, that       *)
(* commands are conserved on their way to Vim, and that answers go to the  *)
(* radiator whose worker asked.                                            *)
(***************************************************************************)
EXTENDS Radiation, TLAPS

(* What a worker knows at each place of its way: which routine it runs and *)
(* for which radiator, that it has a query left to ask, and that it has    *)
(* queued no command yet.                                                  *)
Knows(w) ==
  /\ pc[w] # "none" => current \in Modules
  /\ pc[w] = "loading" => routine[w] \in Modules
  /\ pc[w] \in {"none", "created", "loading"} =>
       ths[w] = None /\ answers[w] = <<>> /\ emitted[w] = 0
  /\ pc[w] \notin {"none", "created", "loading", "done"} =>
       routine[w] \in Modules /\ ths[w] \in Modules
  /\ emitted[w] > 0 \/ stderr[w] > 0 => routine[w] \in Modules /\ ths[w] \in Modules
  /\ pc[w] \in {"query", "await", "asleep", "remote"} =>
       Len(answers[w]) < Queries(routine[w])
  /\ pc[w] \in {"query", "await", "asleep", "remote", "preamble"} => emitted[w] = 0
  /\ pc[w] = "start" /\ routine[w] = "test" => emitted[w] = 0

WorkInv ==
  /\ \A w \in Workers : Knows(w)
  /\ main \in {"digest", "asleep"} => current \in Modules

RInv == TypeOK /\ WorkInv

LEMMA ConstantTypes ==
  /\ MaxRadiates \in Nat /\ MaxCommands \in Nat
  /\ MaxErrors \in Nat /\ MaxDigests \in Nat
  /\ None \notin Modules
  /\ ServerAtStart \in BOOLEAN /\ ServerLater \in BOOLEAN
  /\ MayFail \subseteq Modules
  BY RadiationAssumption

(* What is on a data queue. *)
LEMMA ItemTypes ==
  /\ EOF \in Items /\ Error \in Items
  /\ \A w \in Workers, n \in 1 .. MaxCommands + 1 : Command(w, n) \in Items
  /\ \A var \in Modules \X {1, 2} : Query(var) \in Items
  /\ \A item \in Items : item.type = "command" =>
       item.worker \in Workers /\ item.n \in 1 .. MaxCommands + 1
  /\ \A item \in Items : item.type = "query" => item.var \in Modules \X {1, 2}
<1>1. ASSUME NEW item \in Items
      PROVE  \/ item = EOF \/ item = Error
             \/ \E w \in Workers, n \in 1 .. MaxCommands + 1 : item = Command(w, n)
             \/ \E var \in Modules \X {1, 2} : item = Query(var)
  BY DEF Items
<1>2. ASSUME NEW item \in Items, item.type = "command"
      PROVE  item.worker \in Workers /\ item.n \in 1 .. MaxCommands + 1
  BY <1>1, <1>2 DEF EOF, Error, Command, Query
<1>3. ASSUME NEW item \in Items, item.type = "query"
      PROVE  item.var \in Modules \X {1, 2}
  BY <1>1, <1>3 DEF EOF, Error, Command, Query
<1>4. /\ EOF \in Items /\ Error \in Items
      /\ \A w \in Workers, n \in 1 .. MaxCommands + 1 : Command(w, n) \in Items
      /\ \A var \in Modules \X {1, 2} : Query(var) \in Items
  BY DEF Items
<1> QED
  BY <1>2, <1>3, <1>4

(* The radiators of all modules have sequences, and stay sequences when    *)
(* one item is added or taken.                                             *)
LEMMA QueueTypes ==
  ASSUME NEW S, NEW q \in [Modules -> Seq(S)], NEW r \in Modules
  PROVE  /\ \A item \in S : [q EXCEPT ![r] = Append(@, item)] \in [Modules -> Seq(S)]
         /\ q[r] # <<>> => /\ Head(q[r]) \in S
                           /\ [q EXCEPT ![r] = Tail(@)] \in [Modules -> Seq(S)]
<1>1. q[r] \in Seq(S)
  OBVIOUS
<1>2. \A item \in S : Append(q[r], item) \in Seq(S)
  BY <1>1
<1>3. q[r] # <<>> => Head(q[r]) \in S /\ Tail(q[r]) \in Seq(S)
  BY <1>1
<1> QED
  BY <1>2, <1>3

LEMMA RInit == Init => RInv
<1> SUFFICES ASSUME Init PROVE RInv
  OBVIOUS
<1>1. <<Error>> \in Seq(Items) /\ <<>> \in Seq(Items)
  BY ItemTypes
<1>2. PICK failed \in SUBSET MayFail : InitRadiators(failed) /\ Register(failed)
  BY DEF Init
<1>3. data_queue \in [Modules -> Seq(Items)]
  BY <1>1, <1>2 DEF InitRadiators, InitErrors
<1>4. registered \subseteq Modules
  BY <1>2 DEF Register
<1>5. message_queue \in [Modules -> Seq([var : Modules \X {1, 2}, set : BOOLEAN])]
  BY <1>2 DEF InitRadiators
<1>6. interface \in [Modules -> {"sequential", "server"}]
  <2>1. Interface(g_servername) = "sequential"
    BY DEF Init, Interface
  <2> QED
    BY <1>2, <2>1 DEF InitRadiators
<1>7. TypeOK
  <2>1. /\ g_servername \in BOOLEAN /\ v_servername \in BOOLEAN
        /\ late \in BOOLEAN /\ raised \in BOOLEAN
    BY ConstantTypes DEF Init
  <2>2. /\ current \in Radiators /\ main = "idle" /\ digests \in 0 .. MaxDigests
        /\ keys \in Seq({"digest", "error"})
    BY ConstantTypes DEF Init, Radiators
  <2>3. /\ asked \in [Workers -> Radiators]
        /\ routine \in [Workers -> Radiators]
        /\ ths \in [Workers -> Radiators]
        /\ answers \in [Workers -> Seq((Modules \X {1, 2}) \cup {Default})]
        /\ executed \in [Workers -> Seq(1 .. MaxCommands + 1)]
    BY DEF Init, Radiators
  <2>4. /\ emitted \in [Workers -> 0 .. MaxCommands + 1]
        /\ stderr \in [Workers -> 0 .. MaxErrors]
    BY ConstantTypes DEF Init
  <2>5. pc = [w \in Workers |-> "none"]
    BY DEF Init
  <2> QED
    BY <1>3, <1>4, <1>5, <1>6, <2>1, <2>2, <2>3, <2>4, <2>5 DEF TypeOK
<1>8. WorkInv
  BY ConstantTypes DEF Init, WorkInv, Knows
<1> QED
  BY <1>7, <1>8 DEF RInv
(* Queueing an item and posting an error leave the queues well typed.      *)
LEMMA QueueStep ==
  ASSUME RInv, NEW w \in Workers, NEW item \in Items,
         routine[w] \in Modules, ths[w] \in Modules, Queue(w, item)
  PROVE  /\ data_queue' \in [Modules -> Seq(Items)]
         /\ keys' \in Seq({"digest", "error"})
<1>1. Output(w) \in Modules
  BY DEF Output
<1> QED
  BY <1>1, QueueTypes DEF Queue, RInv, TypeOK

LEMMA PostErrorStep ==
  ASSUME RInv, NEW w \in Workers,
         routine[w] \in Modules, ths[w] \in Modules, PostError(w)
  PROVE  /\ data_queue' \in [Modules -> Seq(Items)]
         /\ keys' \in Seq({"digest", "error"})
<1>1. CASE interface[Output(w)] = "server"
  <2>1. keys' = Append(keys, "error") /\ data_queue' = data_queue
    BY <1>1 DEF PostError
  <2>2. keys \in Seq({"digest", "error"}) /\ "error" \in {"digest", "error"}
    BY DEF RInv, TypeOK
  <2>3. Append(keys, "error") \in Seq({"digest", "error"})
    BY <2>2
  <2> QED
    BY <2>1, <2>3 DEF RInv, TypeOK
<1>2. CASE interface[Output(w)] # "server"
  BY <1>2, ItemTypes, QueueStep DEF PostError
<1> QED
  BY <1>1, <1>2

(* What a query leaves behind. *)
LEMMA AnsweredStep ==
  ASSUME RInv, NEW w \in Workers, NEW value \in (Modules \X {1, 2}) \cup {Default},
         pc[w] \in {"query", "await", "asleep", "remote"}, Answered(w, value)
  PROVE  /\ answers' \in [Workers -> Seq((Modules \X {1, 2}) \cup {Default})]
         /\ pc' \in [Workers -> {"none", "created", "loading", "query", "await",
                                 "asleep", "remote", "preamble", "start", "stream",
                                 "finish", "signal", "done"}]
         /\ WorkInv'
<1>1. answers' \in [Workers -> Seq((Modules \X {1, 2}) \cup {Default})]
  <2>1. answers' = [answers EXCEPT ![w] = Append(@, value)]
    BY DEF Answered
  <2>2. answers[w] \in Seq((Modules \X {1, 2}) \cup {Default})
    BY DEF RInv, TypeOK
  <2>3. Append(answers[w], value) \in Seq((Modules \X {1, 2}) \cup {Default})
    BY <2>2
  <2> QED
    BY <2>1, <2>3 DEF RInv, TypeOK
<1>2. /\ answers[w] \in Seq((Modules \X {1, 2}) \cup {Default})
      /\ answers'[w] = Append(answers[w], value)
      /\ \A u \in Workers \ {w} : answers'[u] = answers[u] /\ pc'[u] = pc[u]
      /\ pc'[w] = CASE Len(answers[w]) + 1 < Queries(routine[w]) -> "query"
                    [] routine[w] = "cpp" -> "preamble"
                    [] OTHER -> "start"
      /\ pc' \in [Workers -> {"none", "created", "loading", "query", "await",
                              "asleep", "remote", "preamble", "start", "stream",
                              "finish", "signal", "done"}]
  BY DEF RInv, TypeOK, Answered
<1>3. Len(answers'[w]) = Len(answers[w]) + 1
  BY <1>2
<1>4. Knows(w)'
  BY <1>2, <1>3 DEF RInv, WorkInv, Knows, Answered, vim
<1>5. ASSUME NEW u \in Workers \ {w} PROVE Knows(u)'
  BY <1>2 DEF RInv, WorkInv, Knows, Answered, vim
<1>6. WorkInv'
  BY <1>4, <1>5 DEF RInv, WorkInv, Answered, vim
<1> QED
  BY <1>1, <1>2, <1>6

LEMMA UserTypes == RInv /\ User => RInv'
<1> SUFFICES ASSUME RInv, User PROVE RInv'
  OBVIOUS
<1> USE DEF RInv
<1>1. ASSUME NEW r \in Modules, Radiate(r) PROVE RInv'
  <2>1. PICK w \in Workers, there \in {"created", "done"} : Radiate(r)!(w, there)
    BY <1>1 DEF Radiate
  <2>2. /\ g_servername' \in BOOLEAN
        /\ v_servername' \in BOOLEAN
        /\ late' \in BOOLEAN /\ raised' \in BOOLEAN
    BY <2>1 DEF TypeOK
  <2>3. interface' \in [Modules -> {"sequential", "server"}]
    BY <2>1 DEF TypeOK, Interface
  <2>4. main' \in {"idle", "digest"} /\ current' = r
    BY <2>1, ConstantTypes DEF StartDigest
  <2>5. TypeOK'
    BY <2>1, <2>2, <2>3, <2>4 DEF TypeOK, Goto, Radiators
  <2>6. WorkInv'
    BY <2>1, <2>4 DEF TypeOK, WorkInv, Knows, Goto
  <2> QED
    BY <2>5, <2>6
<1>2. CASE RadiateUnknown
  <2>1. g_servername' \in BOOLEAN
    BY <1>2 DEF RadiateUnknown, TypeOK
  <2>2. TypeOK'
    BY <1>2, <2>1 DEF RadiateUnknown, TypeOK, work
  <2>3. WorkInv'
    BY <1>2 DEF RadiateUnknown, WorkInv, Knows, work
  <2> QED
    BY <2>2, <2>3
<1>3. CASE ManualDigest
  <2>1. TypeOK'
    <3>1. digests' \in 0 .. MaxDigests
      BY <1>3, ConstantTypes DEF ManualDigest, TypeOK
    <3>2. main' \in {"digest", "crashed"}
      BY <1>3 DEF ManualDigest, StartDigest
    <3> QED
      BY <1>3, <3>1, <3>2 DEF ManualDigest, TypeOK, work
  <2>2. WorkInv'
    BY <1>3 DEF ManualDigest, StartDigest, TypeOK, Radiators, WorkInv, Knows, work
  <2> QED
    BY <2>1, <2>2
<1>4. CASE StartServer
  <2>1. TypeOK'
    BY <1>4 DEF StartServer, TypeOK, work
  <2>2. WorkInv'
    BY <1>4 DEF StartServer, WorkInv, Knows, work
  <2> QED
    BY <2>1, <2>2
<1> QED
  BY <1>1, <1>2, <1>3, <1>4 DEF User

(* A step of Vim that moves no worker and not the current radiator. *)
LEMMA MainWork ==
  ASSUME WorkInv, UNCHANGED <<current, pc, work>>,
         main' \in {"digest", "asleep"} => current \in Modules
  PROVE  WorkInv'
  BY DEF WorkInv, Knows, work

LEMMA TakeItemTypes ==
  ASSUME RInv, NEW type, TakeItem(type)
  PROVE  /\ current \in Modules
         /\ Head(data_queue[current]) \in Items
         /\ Head(data_queue[current]).type = type
         /\ data_queue' \in [Modules -> Seq(Items)]
<1>1. current \in Modules
  BY DEF TakeItem, RInv, WorkInv
<1>2. data_queue \in [Modules -> Seq(Items)] /\ data_queue[current] # <<>>
  BY DEF TakeItem, RInv, TypeOK
<1>3. /\ Head(data_queue[current]) \in Items
      /\ [data_queue EXCEPT ![current] = Tail(@)] \in [Modules -> Seq(Items)]
  BY <1>1, <1>2, QueueTypes
<1> QED
  BY <1>1, <1>3 DEF TakeItem

LEMMA MainTypes == RInv /\ MainStep => RInv'
<1> SUFFICES ASSUME RInv, MainStep PROVE RInv'
  OBVIOUS
<1> USE DEF RInv
<1>1. CASE TakeKeys
  <2>1. keys' \in Seq({"digest", "error"})
    BY <1>1 DEF TakeKeys, TypeOK
  <2>2. main' \in {"idle", "digest", "crashed"}
    BY <1>1 DEF TakeKeys, StartDigest
  <2>3. main' = "digest" => current \in Modules
    BY <1>1 DEF TakeKeys, StartDigest, TypeOK, Radiators, vim
  <2>4. TypeOK'
    BY <1>1, <2>1, <2>2 DEF TakeKeys, TypeOK, vim, work
  <2> QED
    BY <1>1, <2>2, <2>3, <2>4, MainWork DEF TakeKeys, vim
<1>2. CASE NextEOF
  <2>1. TypeOK'
    BY <1>2, TakeItemTypes DEF NextEOF, TakeItem, TypeOK, vim, work
  <2> QED
    BY <1>2, <2>1, MainWork DEF NextEOF, TakeItem
<1>3. CASE NextCommand
  <2> DEFINE c == Head(data_queue[current])
  <2>1. current \in Modules /\ c \in Items /\ c.type = "command"
    BY <1>3, TakeItemTypes DEF NextCommand
  <2>2. c.worker \in Workers /\ c.n \in 1 .. MaxCommands + 1
    BY <2>1, ItemTypes
  <2>3. executed' = [executed EXCEPT ![c.worker] = Append(@, c.n)]
    BY <1>3 DEF NextCommand
  <2>4. executed' \in [Workers -> Seq(1 .. MaxCommands + 1)]
    <3>1. executed \in [Workers -> Seq(1 .. MaxCommands + 1)]
      BY DEF TypeOK
    <3>2. executed[c.worker] \in Seq(1 .. MaxCommands + 1)
      BY <2>2, <3>1
    <3>3. Append(executed[c.worker], c.n) \in Seq(1 .. MaxCommands + 1)
      BY <2>2, <3>2
    <3> HIDE DEF c
    <3> QED
      BY <2>2, <2>3, <3>1, <3>3
  <2>5. /\ data_queue' \in [Modules -> Seq(Items)]
        /\ main' \in {"digest", "idle"} /\ raised' \in BOOLEAN
    BY <1>3, TakeItemTypes DEF NextCommand, GoesOn, Raises, TypeOK
  <2> HIDE DEF c
  <2>6. TypeOK'
    BY <1>3, <2>4, <2>5 DEF NextCommand, TakeItem, TypeOK, vim, work
  <2> QED
    BY <1>3, <2>1, <2>6, MainWork DEF NextCommand, TakeItem
<1>4. CASE NextQuery
  <2> DEFINE var == Head(data_queue[current]).var
             answer == [var |-> var, set |-> var \in Defined]
  <2>1. current \in Modules /\ data_queue' \in [Modules -> Seq(Items)]
    BY <1>4, TakeItemTypes DEF NextQuery
  <2>2. var \in Modules \X {1, 2}
    BY <1>4, TakeItemTypes, ItemTypes DEF NextQuery
  <2>3. answer \in [var : Modules \X {1, 2}, set : BOOLEAN]
    <3>1. (var \in Defined) \in BOOLEAN
      OBVIOUS
    <3> HIDE DEF var
    <3> QED
      BY <2>2, <3>1
  <2>4. message_queue' = [message_queue EXCEPT ![current] = Append(@, answer)]
    BY <1>4 DEF NextQuery
  <2> HIDE DEF answer
  <2>5. message_queue' \in [Modules -> Seq([var : Modules \X {1, 2}, set : BOOLEAN])]
    BY <2>1, <2>3, <2>4, QueueTypes DEF TypeOK
  <2>6. TypeOK'
    BY <1>4, <2>1, <2>5 DEF NextQuery, GoesOn, TakeItem, TypeOK, vim, work
  <2> QED
    BY <1>4, <2>1, <2>6, MainWork DEF NextQuery, TakeItem
<1>5. CASE NextError \/ NextQueryRaises
  <2>1. PICK type : TakeItem(type)
    BY <1>5 DEF NextError, NextQueryRaises
  <2>2. main' \in {"digest", "idle"} /\ raised' \in BOOLEAN
    BY <1>5 DEF NextError, NextQueryRaises, GoesOn, Raises, TypeOK
  <2>3. UNCHANGED <<message_queue, executed>>
    BY <1>5 DEF NextError, NextQueryRaises
  <2>4. TypeOK'
    BY <2>1, <2>2, <2>3, TakeItemTypes DEF TakeItem, TypeOK, work
  <2> QED
    BY <2>1, <2>4, MainWork, TakeItemTypes DEF TakeItem
<1>6. CASE NextSleep \/ NextTimeout
  <2>1. main' \in {"asleep", "idle"} /\ late' \in BOOLEAN
    BY <1>6 DEF NextSleep, NextTimeout, TypeOK
  <2>2. UNCHANGED <<vim, data_queue, message_queue, keys, pc, work, executed>>
    BY <1>6 DEF NextSleep, NextTimeout
  <2>3. TypeOK'
    BY <2>1, <2>2 DEF TypeOK, vim, work
  <2>4. main' = "asleep" => current \in Modules
    BY <1>6 DEF NextSleep, NextTimeout, WorkInv
  <2> QED
    BY <2>1, <2>2, <2>3, <2>4, MainWork DEF vim
<1> QED
  BY <1>1, <1>2, <1>3, <1>4, <1>5, <1>6 DEF MainStep

LEMMA WorkerTypes ==
  ASSUME RInv, NEW w \in Workers, WorkerStep(w) \/ ErrorThread(w)
  PROVE  RInv'
<1> USE DEF RInv
<1>1. CASE LoadRoutine(w)
  <2>1. TypeOK'
    BY <1>1 DEF LoadRoutine, Goto, TypeOK, vim
  <2>2. WorkInv'
    BY <1>1 DEF LoadRoutine, Goto, TypeOK, WorkInv, Knows, vim
  <2> QED
    BY <2>1, <2>2
<1>2. CASE LoadRadiator(w)
  <2>1. TypeOK'
    BY <1>2 DEF LoadRadiator, Goto, TypeOK, vim
  <2>2. WorkInv'
    BY <1>2 DEF LoadRadiator, Goto, TypeOK, WorkInv, Knows, Queries, vim
  <2> QED
    BY <2>1, <2>2
<1>3. CASE Ask(w)
  <2>1. /\ routine[w] \in Modules /\ ths[w] \in Modules
        /\ Len(answers[w]) < Queries(routine[w])
    BY <1>3 DEF Ask, Goto, WorkInv, Knows
  <2>2. Variable(w) \in Modules \X {1, 2}
    <3>1. Len(answers[w]) \in Nat
      BY DEF TypeOK
    <3>2. Len(answers[w]) + 1 \in {1, 2}
      BY <2>1, <3>1 DEF Queries
    <3> QED
      BY <2>1, <3>2 DEF Variable
  <2>3. data_queue' \in [Modules -> Seq(Items)]
    BY <1>3, <2>1, <2>2, ItemTypes, QueueTypes DEF Ask, TypeOK
  <2>4. TypeOK'
    BY <1>3, <2>3 DEF Ask, Goto, TypeOK, vim, work
  <2>5. WorkInv'
    BY <1>3 DEF Ask, Goto, TypeOK, WorkInv, Knows, vim, work
  <2> QED
    BY <2>4, <2>5
<1>4. CASE TakeAnswer(w)
  <2> DEFINE answer == Head(message_queue[ths[w]])
             value == IF answer.set THEN answer.var ELSE Default
  <2>1. ths[w] \in Modules /\ pc[w] \in {"query", "await", "asleep", "remote"}
    BY <1>4 DEF TakeAnswer, WorkInv, Knows
  <2>2. /\ answer \in [var : Modules \X {1, 2}, set : BOOLEAN]
        /\ message_queue' \in [Modules -> Seq([var : Modules \X {1, 2}, set : BOOLEAN])]
    <3>1. message_queue[ths[w]] # <<>>
      BY <1>4 DEF TakeAnswer
    <3>2. message_queue \in [Modules -> Seq([var : Modules \X {1, 2}, set : BOOLEAN])]
      BY DEF TypeOK
    <3>3. /\ answer \in [var : Modules \X {1, 2}, set : BOOLEAN]
          /\ [message_queue EXCEPT ![ths[w]] = Tail(@)]
               \in [Modules -> Seq([var : Modules \X {1, 2}, set : BOOLEAN])]
      BY <2>1, <3>1, <3>2, QueueTypes
    <3> QED
      BY <1>4, <3>3 DEF TakeAnswer
  <2> HIDE DEF answer
  <2>3. value \in (Modules \X {1, 2}) \cup {Default}
    BY <2>2
  <2>4. Answered(w, value)
    BY <1>4 DEF TakeAnswer, answer
  <2> HIDE DEF value
  <2>5. TypeOK'
    BY <1>4, <2>1, <2>2, <2>3, <2>4, AnsweredStep
       DEF TakeAnswer, Answered, TypeOK, vim
  <2> QED
    BY <2>1, <2>3, <2>4, <2>5, AnsweredStep
<1>5. CASE AwaitAnswer(w)
  <2>1. TypeOK'
    BY <1>5 DEF AwaitAnswer, Goto, TypeOK, vim, work
  <2>2. WorkInv'
    BY <1>5 DEF AwaitAnswer, Goto, TypeOK, WorkInv, Knows, vim, work
  <2> QED
    BY <2>1, <2>2
<1>6. CASE AnswerTimeout(w)
  <2>1. TypeOK'
    BY <1>6, AnsweredStep DEF AnswerTimeout, Answered, TypeOK, vim
  <2> QED
    BY <1>6, <2>1, AnsweredStep DEF AnswerTimeout
<1>7. CASE AskServer(w)
  <2>1. TypeOK'
    BY <1>7 DEF AskServer, Goto, TypeOK, vim, work
  <2>2. WorkInv'
    BY <1>7 DEF AskServer, Goto, TypeOK, WorkInv, Knows, vim, work
  <2> QED
    BY <2>1, <2>2
<1>8. CASE ServerAnswer(w)
  <2> DEFINE value == IF Variable(w) \in Defined THEN Variable(w) ELSE Default
  <2>1. value \in (Modules \X {1, 2}) \cup {Default}
    BY RadiationAssumption
  <2>2. Answered(w, value) /\ pc[w] = "remote"
    BY <1>8 DEF ServerAnswer
  <2> HIDE DEF value
  <2>3. TypeOK'
    BY <1>8, <2>1, <2>2, AnsweredStep DEF ServerAnswer, Answered, TypeOK, vim
  <2> QED
    BY <2>1, <2>2, <2>3, AnsweredStep
<1>9. ASSUME EmitCommand(w), routine[w] \in Modules, ths[w] \in Modules,
             emitted[w] + 1 \in 1 .. MaxCommands + 1
      PROVE  /\ emitted' = [emitted EXCEPT ![w] = @ + 1]
             /\ emitted' \in [Workers -> 0 .. MaxCommands + 1]
             /\ data_queue' \in [Modules -> Seq(Items)]
             /\ keys' \in Seq({"digest", "error"})
  <2>1. Command(w, emitted[w] + 1) \in Items
    BY <1>9, ItemTypes
  <2>2. Queue(w, Command(w, emitted[w] + 1))
    BY <1>9 DEF EmitCommand
  <2>3. emitted' = [emitted EXCEPT ![w] = @ + 1]
    BY <1>9 DEF EmitCommand
  <2>4. emitted' \in [Workers -> 0 .. MaxCommands + 1]
    BY <1>9, <2>3 DEF TypeOK
  <2> QED
    BY <1>9, <2>1, <2>2, <2>3, <2>4, QueueStep
<1>10. CASE Preamble(w)
  <2>1. routine[w] \in Modules /\ ths[w] \in Modules /\ emitted[w] = 0
    BY <1>10 DEF Preamble, Goto, WorkInv, Knows
  <2>2. emitted[w] + 1 \in 1 .. MaxCommands + 1
    BY <2>1, ConstantTypes
  <2>3. TypeOK'
    BY <1>9, <1>10, <2>1, <2>2 DEF Preamble, EmitCommand, Goto, TypeOK, vim
  <2>4. WorkInv'
    BY <1>9, <1>10, <2>1, <2>2
       DEF Preamble, EmitCommand, Goto, TypeOK, WorkInv, Knows, vim
  <2> QED
    BY <2>3, <2>4
<1>11. CASE StartStream(w)
  <2>1. stderr' \in [Workers -> 0 .. MaxErrors]
    BY <1>11, ConstantTypes DEF StartStream, TypeOK
  <2>2. TypeOK'
    BY <1>11, <2>1 DEF StartStream, Goto, TypeOK, vim
  <2>3. WorkInv'
    BY <1>11 DEF StartStream, Goto, TypeOK, WorkInv, Knows, vim
  <2> QED
    BY <2>2, <2>3
<1>12. CASE FailStream(w)
  <2>1. routine[w] \in Modules /\ ths[w] \in Modules
    BY <1>12 DEF FailStream, Goto, WorkInv, Knows
  <2>2. data_queue' \in [Modules -> Seq(Items)] /\ keys' \in Seq({"digest", "error"})
    BY <1>12, <2>1, PostErrorStep DEF FailStream, TypeOK
  <2>3. TypeOK'
    BY <1>12, <2>2 DEF FailStream, Goto, TypeOK, vim, work
  <2>4. WorkInv'
    BY <1>12, <2>1 DEF FailStream, Goto, TypeOK, WorkInv, Knows, vim, work
  <2> QED
    BY <2>3, <2>4
<1>13. CASE Emit(w)
  <2>1. routine[w] \in Modules /\ ths[w] \in Modules
    BY <1>13 DEF Emit, WorkInv, Knows
  <2>2. emitted[w] + 1 \in 1 .. MaxCommands + 1
    <3>1. emitted[w] \in Nat /\ emitted[w] < Preambles(routine[w]) + MaxCommands
      BY <1>13, ConstantTypes DEF Emit, TypeOK
    <3>2. Preambles(routine[w]) \in {0, 1}
      BY DEF Preambles
    <3> QED
      BY <3>1, <3>2, ConstantTypes
  <2>3. TypeOK'
    BY <1>9, <1>13, <2>1, <2>2 DEF Emit, EmitCommand, TypeOK, vim
  <2>4. WorkInv'
    BY <1>9, <1>13, <2>1, <2>2 DEF Emit, EmitCommand, TypeOK, WorkInv, Knows, vim
  <2> QED
    BY <2>3, <2>4
<1>14. CASE Finish(w)
  <2>1. routine[w] \in Modules /\ ths[w] \in Modules
    BY <1>14 DEF Finish, Goto, WorkInv, Knows
  <2>2. data_queue' \in [Modules -> Seq(Items)] /\ keys' \in Seq({"digest", "error"})
    BY <1>14, <2>1, ItemTypes, QueueStep DEF Finish
  <2>3. TypeOK'
    BY <1>14, <2>2 DEF Finish, Goto, TypeOK, vim, work
  <2>4. WorkInv'
    BY <1>14, <2>1 DEF Finish, Goto, TypeOK, WorkInv, Knows, vim, work
  <2> QED
    BY <2>3, <2>4
<1>15. CASE CallDigest(w)
  <2>1. keys' \in Seq({"digest", "error"})
    BY <1>15 DEF CallDigest, TypeOK
  <2>2. TypeOK'
    BY <1>15, <2>1 DEF CallDigest, Goto, TypeOK, vim, work
  <2>3. WorkInv'
    BY <1>15 DEF CallDigest, Goto, TypeOK, WorkInv, Knows, vim, work
  <2> QED
    BY <2>2, <2>3
<1>16. CASE ErrorThread(w)
  <2>1. /\ routine[w] \in Modules /\ ths[w] \in Modules
        /\ stderr[w] > 0 /\ stderr[w] \in 0 .. MaxErrors
    BY <1>16 DEF ErrorThread, WorkInv, Knows, TypeOK
  <2>2. data_queue' \in [Modules -> Seq(Items)] /\ keys' \in Seq({"digest", "error"})
    BY <1>16, <2>1, PostErrorStep DEF ErrorThread
  <2>3. stderr' = [stderr EXCEPT ![w] = @ - 1] /\ stderr' \in [Workers -> 0 .. MaxErrors]
    BY <1>16, <2>1, ConstantTypes DEF ErrorThread, TypeOK
  <2>4. TypeOK'
    BY <1>16, <2>2, <2>3 DEF ErrorThread, TypeOK, vim
  <2>5. WorkInv'
    BY <1>16, <2>1, <2>3 DEF ErrorThread, TypeOK, WorkInv, Knows, vim
  <2> QED
    BY <2>4, <2>5
<1> QED
  BY <1>1, <1>2, <1>3, <1>4, <1>5, <1>6, <1>7, <1>8, <1>10, <1>11, <1>12, <1>13,
     <1>14, <1>15, <1>16 DEF WorkerStep

LEMMA RStep == RInv /\ [Next]_vars => RInv'
<1> SUFFICES ASSUME RInv, [Next]_vars PROVE RInv'
  OBVIOUS
<1>1. CASE UNCHANGED vars
  <2>1. TypeOK'
    BY <1>1 DEF RInv, TypeOK, vars, vim, work
  <2>2. WorkInv'
    BY <1>1 DEF RInv, WorkInv, Knows, vars, vim, work
  <2> QED
    BY <2>1, <2>2 DEF RInv
<1> QED
  BY <1>1, UserTypes, MainTypes, WorkerTypes DEF Next

(* What holds in every state of a session, for any number of files.        *)
LEMMA SessionInv == Spec => []RInv
  BY RInit, RStep, PTL DEF Spec

(* Types: everything radiation.c and its modules queue, answer and count   *)
(* is of its kind, whatever threads, timeouts and digests do.              *)
THEOREM SessionTypeCorrect == Spec => []TypeOK
  BY SessionInv, PTL DEF RInv

------------------------------------------------------------------------------
(* The places of a queue that hold commands of w; whether these are the    *)
(* commands lo + 1 .. hi in order.                                         *)
Of(q, w) == {i \in 1 .. Len(q) : q[i].type = "command" /\ q[i].worker = w}
InOrder(q, w, lo, hi) ==
  /\ {q[i].n : i \in Of(q, w)} = lo + 1 .. hi
  /\ \A i, j \in Of(q, w) : i < j => q[i].n < q[j].n

LEMMA AppendOther ==
  ASSUME NEW q \in Seq(Items), NEW item \in Items, NEW w \in Workers,
         ~(item.type = "command" /\ item.worker = w)
  PROVE  /\ Of(Append(q, item), w) = Of(q, w)
         /\ \A lo, hi \in Nat : InOrder(q, w, lo, hi) => InOrder(Append(q, item), w, lo, hi)
<1> DEFINE q1 == Append(q, item)
<1>1. /\ Len(q) \in Nat /\ Len(q1) = Len(q) + 1 /\ q1[Len(q) + 1] = item
      /\ \A i \in 1 .. Len(q) : q1[i] = q[i]
  OBVIOUS
<1> HIDE DEF q1
<1>2. Of(q1, w) = Of(q, w)
  BY <1>1 DEF Of
<1>3. \A i \in Of(q, w) : q1[i] = q[i] /\ i \in Nat
  BY <1>1 DEF Of
<1>4. \A lo, hi \in Nat : InOrder(q, w, lo, hi) => InOrder(q1, w, lo, hi)
  BY <1>2, <1>3 DEF InOrder
<1> QED
  BY <1>2, <1>4 DEF q1

LEMMA AppendOwn ==
  ASSUME NEW q \in Seq(Items), NEW w \in Workers, NEW lo \in Nat, NEW hi \in Nat,
         lo <= hi, InOrder(q, w, lo, hi)
  PROVE  InOrder(Append(q, Command(w, hi + 1)), w, lo, hi + 1)
<1> DEFINE q1 == Append(q, Command(w, hi + 1))
<1>1. /\ Len(q) \in Nat /\ Len(q1) = Len(q) + 1
      /\ q1[Len(q) + 1] = Command(w, hi + 1)
      /\ \A i \in 1 .. Len(q) : q1[i] = q[i]
  OBVIOUS
<1> HIDE DEF q1
<1>2. Of(q1, w) = Of(q, w) \cup {Len(q) + 1}
  BY <1>1 DEF Of, Command
<1>3. \A i \in Of(q, w) : q1[i] = q[i] /\ i \in 1 .. Len(q) /\ q[i].n \in lo + 1 .. hi
  BY <1>1 DEF Of, InOrder
<1>4. q1[Len(q) + 1].n = hi + 1
  BY <1>1 DEF Command
<1>5. {q1[i].n : i \in Of(q1, w)} = {q[i].n : i \in Of(q, w)} \cup {hi + 1}
  BY <1>2, <1>3, <1>4
<1>6. {q1[i].n : i \in Of(q1, w)} = lo + 1 .. hi + 1
  <2>1. {q[i].n : i \in Of(q, w)} = lo + 1 .. hi
    BY DEF InOrder
  <2>2. (lo + 1 .. hi) \cup {hi + 1} = lo + 1 .. hi + 1
    OBVIOUS
  <2> QED
    BY <1>5, <2>1, <2>2
<1>7. ASSUME NEW i \in Of(q1, w), NEW j \in Of(q1, w), i < j PROVE q1[i].n < q1[j].n
  <2>1. i \in Of(q, w)
    BY <1>1, <1>2, <1>3, <1>7
  <2>2. CASE j \in Of(q, w)
    BY <1>3, <1>7, <2>1, <2>2 DEF InOrder
  <2>3. CASE j = Len(q) + 1
    <3>1. q1[i].n \in lo + 1 .. hi
      BY <1>3, <2>1
    <3>2. q1[j].n = hi + 1
      BY <1>4, <2>3
    <3> QED
      BY <3>1, <3>2
  <2> QED
    BY <1>2, <2>2, <2>3
<1> QED
  BY <1>6, <1>7 DEF InOrder, q1

LEMMA TailPlaces ==
  ASSUME NEW q \in Seq(Items), q # <<>>, NEW w \in Workers
  PROVE  /\ 1 \in Of(q, w) <=> Head(q).type = "command" /\ Head(q).worker = w
         /\ \A i \in Nat : i \in Of(Tail(q), w) <=> i # 0 /\ i + 1 \in Of(q, w)
         /\ \A i \in Of(Tail(q), w) : Tail(q)[i] = q[i + 1] /\ i \in Nat /\ i + 1 \in Of(q, w)
         /\ \A i \in Of(q, w) : i \in Nat /\ i >= 1
                                /\ (i # 1 => i - 1 \in Of(Tail(q), w)
                                             /\ q[i] = Tail(q)[i - 1])
<1> DEFINE q1 == Tail(q)
<1>1. /\ Len(q) \in Nat \ {0} /\ Len(q1) = Len(q) - 1 /\ Head(q) = q[1]
      /\ \A i \in 1 .. Len(q) - 1 : q1[i] = q[i + 1]
  OBVIOUS
<1> HIDE DEF q1
<1>2. 1 \in Of(q, w) <=> Head(q).type = "command" /\ Head(q).worker = w
  BY <1>1 DEF Of
<1>3. \A i \in Nat : i \in Of(q1, w) <=> i # 0 /\ i + 1 \in Of(q, w)
  BY <1>1 DEF Of
<1>4. \A i \in Of(q1, w) : q1[i] = q[i + 1] /\ i \in Nat /\ i + 1 \in Of(q, w)
  BY <1>1, <1>3 DEF Of
<1>5. ASSUME NEW i \in Of(q, w)
      PROVE  /\ i \in Nat /\ i >= 1
             /\ i # 1 => i - 1 \in Of(q1, w) /\ q[i] = q1[i - 1]
  BY <1>1 DEF Of
<1> QED
  BY <1>2, <1>3, <1>4, <1>5 DEF q1

LEMMA TailOther ==
  ASSUME NEW q \in Seq(Items), q # <<>>, NEW w \in Workers,
         ~(Head(q).type = "command" /\ Head(q).worker = w)
  PROVE  /\ Of(q, w) = {} => Of(Tail(q), w) = {}
         /\ \A lo, hi \in Nat : InOrder(q, w, lo, hi) => InOrder(Tail(q), w, lo, hi)
<1> DEFINE q1 == Tail(q)
<1>1. /\ 1 \in Of(q, w) <=> Head(q).type = "command" /\ Head(q).worker = w
      /\ \A i \in Nat : i \in Of(q1, w) <=> i # 0 /\ i + 1 \in Of(q, w)
      /\ \A i \in Of(q1, w) : q1[i] = q[i + 1] /\ i \in Nat /\ i + 1 \in Of(q, w)
      /\ \A i \in Of(q, w) : i \in Nat /\ i >= 1
                             /\ (i # 1 => i - 1 \in Of(q1, w) /\ q[i] = q1[i - 1])
  BY TailPlaces
<1> HIDE DEF q1
<1>2. /\ \A i \in Of(q1, w) : q1[i] = q[i + 1] /\ i \in Nat /\ i + 1 \in Of(q, w)
      /\ \A i \in Of(q, w) : i \in Nat /\ i - 1 \in Of(q1, w) /\ q[i] = q1[i - 1]
  BY <1>1
<1>3. {q1[i].n : i \in Of(q1, w)} = {q[i].n : i \in Of(q, w)}
  <2>1. \A i \in Of(q1, w) : \E k \in Of(q, w) : q1[i].n = q[k].n
    BY <1>2
  <2>2. \A i \in Of(q, w) : \E k \in Of(q1, w) : q[i].n = q1[k].n
    BY <1>2
  <2> QED
    BY <2>1, <2>2
<1>4. ASSUME NEW lo \in Nat, NEW hi \in Nat, InOrder(q, w, lo, hi)
      PROVE  InOrder(q1, w, lo, hi)
  <2>1. ASSUME NEW i \in Of(q1, w), NEW j \in Of(q1, w), i < j PROVE q1[i].n < q1[j].n
    <3>1. i + 1 \in Of(q, w) /\ j + 1 \in Of(q, w) /\ i + 1 < j + 1
      BY <1>2, <2>1
    <3> QED
      BY <1>2, <1>4, <3>1 DEF InOrder
  <2> QED
    BY <1>3, <1>4, <2>1 DEF InOrder
<1>5. Of(q, w) = {} => Of(q1, w) = {}
  BY <1>2
<1> QED
  BY <1>4, <1>5 DEF q1

LEMMA TailOwn ==
  ASSUME NEW q \in Seq(Items), q # <<>>, NEW w \in Workers, NEW lo \in Nat, NEW hi \in Nat
  PROVE  Head(q).type = "command" /\ Head(q).worker = w /\ InOrder(q, w, lo, hi)
         => Head(q).n = lo + 1 /\ lo + 1 <= hi /\ InOrder(Tail(q), w, lo + 1, hi)
<1> DEFINE q1 == Tail(q)
<1>1. /\ 1 \in Of(q, w) <=> Head(q).type = "command" /\ Head(q).worker = w
      /\ \A i \in Nat : i \in Of(q1, w) <=> i # 0 /\ i + 1 \in Of(q, w)
      /\ \A i \in Of(q1, w) : q1[i] = q[i + 1] /\ i \in Nat /\ i + 1 \in Of(q, w)
      /\ \A i \in Of(q, w) : i \in Nat /\ i >= 1
                             /\ (i # 1 => i - 1 \in Of(q1, w) /\ q[i] = q1[i - 1])
  BY TailPlaces
<1>0. Head(q) = q[1]
  OBVIOUS
<1> HIDE DEF q1
<1> SUFFICES ASSUME Head(q).type = "command", Head(q).worker = w, InOrder(q, w, lo, hi)
             PROVE  Head(q).n = lo + 1 /\ lo + 1 <= hi /\ InOrder(q1, w, lo + 1, hi)
  BY DEF q1
<1>a. 1 \in Of(q, w)
  BY <1>1
<1>2. q[1].n \in lo + 1 .. hi
  BY <1>a DEF InOrder
<1>3. PICK k \in Of(q, w) : q[k].n = lo + 1
  BY <1>2 DEF InOrder
<1>4. k = 1
  <2>1. k \in Nat /\ k >= 1
    BY <1>1
  <2>2. k > 1 => q[1].n < q[k].n
    BY <1>a DEF InOrder
  <2> QED
    BY <1>2, <1>3, <2>1, <2>2
<1>5. q[1].n = lo + 1 /\ lo + 1 <= hi
  BY <1>2, <1>3, <1>4
<1>6. ASSUME NEW n \in lo + 2 .. hi PROVE \E i \in Of(q1, w) : q1[i].n = n
  <2>1. PICK i \in Of(q, w) : q[i].n = n
    BY DEF InOrder
  <2>2. i # 1
    BY <1>5, <2>1
  <2> QED
    BY <1>1, <2>1, <2>2
<1>7. ASSUME NEW i \in Of(q1, w) PROVE q1[i].n \in lo + 2 .. hi
  <2>1. i + 1 \in Of(q, w) /\ i + 1 > 1 /\ q1[i] = q[i + 1]
    BY <1>1
  <2>2. q[i + 1].n \in lo + 1 .. hi /\ q[1].n < q[i + 1].n
    <3>1. q[i + 1].n \in {q[k1].n : k1 \in Of(q, w)}
      BY <2>1
    <3> QED
      BY <1>a, <2>1, <3>1 DEF InOrder
  <2> QED
    BY <1>5, <2>1, <2>2
<1>8. {q1[i].n : i \in Of(q1, w)} = (lo + 1) + 1 .. hi
  BY <1>6, <1>7
<1>9. ASSUME NEW i \in Of(q1, w), NEW j \in Of(q1, w), i < j PROVE q1[i].n < q1[j].n
  <2>1. i + 1 \in Of(q, w) /\ j + 1 \in Of(q, w) /\ i + 1 < j + 1
    BY <1>1, <1>9
  <2> QED
    BY <1>1, <2>1 DEF InOrder
<1> QED
  BY <1>0, <1>5, <1>8, <1>9 DEF InOrder

------------------------------------------------------------------------------
(* What a step can do to the data queues and to what has been executed.    *)
Asks(w, r, var) ==
  ths[w] = r /\ var \in {routine[w]} \X (1 .. Len(answers[w]) + 1)

Stays == UNCHANGED <<data_queue, emitted, executed>>
Appends ==
  /\ \E r \in Modules, item \in Items :
       /\ item.type # "command"
       /\ item.type = "query" => \E w \in Workers : Asks(w, r, item.var)
       /\ data_queue' = [data_queue EXCEPT ![r] = Append(@, item)]
  /\ UNCHANGED <<emitted, executed>>
Emits ==
  \E w \in Workers :
    /\ routine[w] \in Modules /\ ths[w] \in Modules
    /\ emitted[w] + 1 \in 1 .. MaxCommands + 1
    /\ data_queue' = [data_queue EXCEPT ![Output(w)] =
                        Append(@, Command(w, emitted[w] + 1))]
    /\ emitted' = [emitted EXCEPT ![w] = @ + 1]
    /\ UNCHANGED executed
Takes ==
  /\ current \in Modules /\ data_queue[current] # <<>>
  /\ Head(data_queue[current]).type # "command"
  /\ data_queue' = [data_queue EXCEPT ![current] = Tail(@)]
  /\ UNCHANGED <<emitted, executed>>
Executes ==
  /\ current \in Modules /\ data_queue[current] # <<>>
  /\ Head(data_queue[current]).type = "command"
  /\ data_queue' = [data_queue EXCEPT ![current] = Tail(@)]
  /\ LET c == Head(data_queue[current]) IN
       executed' = [executed EXCEPT ![c.worker] = Append(@, c.n)]
  /\ UNCHANGED emitted

(* The queue a routine writes to, and an error on it. *)
LEMMA OutputModule ==
  ASSUME NEW w \in Workers, routine[w] \in Modules, ths[w] \in Modules
  PROVE  Output(w) \in Modules
  BY DEF Output

LEMMA PostErrorAppends ==
  ASSUME NEW w \in Workers, routine[w] \in Modules, ths[w] \in Modules,
         PostError(w), UNCHANGED <<emitted, executed>>
  PROVE  Stays \/ Appends
<1>1. CASE interface[Output(w)] = "server"
  BY <1>1 DEF PostError, Stays
<1>2. CASE interface[Output(w)] # "server"
  <2>1. data_queue' = [data_queue EXCEPT ![Output(w)] = Append(@, Error)]
    BY <1>2 DEF PostError, Queue
  <2>2. Error \in Items /\ Error.type = "error"
    BY ItemTypes DEF Error
  <2>3. Output(w) \in Modules
    BY OutputModule
  <2> QED
    BY <2>1, <2>2, <2>3 DEF Appends
<1> QED
  BY <1>1, <1>2

LEMMA UserChanges == User => Stays
  BY DEF User, Radiate, RadiateUnknown, ManualDigest, StartServer, Stays, work

LEMMA MainChanges ==
  ASSUME RInv, MainStep
  PROVE  Stays \/ Takes \/ Executes
<1>1. ASSUME NEW type, TakeItem(type)
      PROVE  /\ current \in Modules /\ data_queue[current] # <<>>
             /\ Head(data_queue[current]).type = type
             /\ data_queue' = [data_queue EXCEPT ![current] = Tail(@)]
             /\ UNCHANGED emitted
  BY <1>1, TakeItemTypes DEF TakeItem, work
<1>2. CASE TakeKeys \/ NextSleep \/ NextTimeout
  BY <1>2 DEF TakeKeys, NextSleep, NextTimeout, Stays, work
<1>3. CASE NextEOF
  BY <1>1, <1>3 DEF NextEOF, Takes
<1>4. CASE NextCommand
  BY <1>1, <1>4 DEF NextCommand, Executes
<1>5. CASE NextQuery
  BY <1>1, <1>5 DEF NextQuery, Takes
<1>6. CASE NextError \/ NextQueryRaises
  BY <1>1, <1>6 DEF NextError, NextQueryRaises, Takes
<1> QED
  BY <1>2, <1>3, <1>4, <1>5, <1>6 DEF MainStep

LEMMA WorkerChanges ==
  ASSUME RInv, NEW w \in Workers, WorkerStep(w) \/ ErrorThread(w)
  PROVE  Stays \/ Appends \/ Emits
<1> USE DEF RInv
<1>1. CASE LoadRoutine(w) \/ LoadRadiator(w) \/ AwaitAnswer(w) \/ AskServer(w)
           \/ StartStream(w) \/ CallDigest(w)
  BY <1>1 DEF LoadRoutine, LoadRadiator, AwaitAnswer, AskServer, StartStream,
     CallDigest, Stays, work
<1>2. CASE TakeAnswer(w) \/ AnswerTimeout(w) \/ ServerAnswer(w)
  BY <1>2 DEF TakeAnswer, AnswerTimeout, ServerAnswer, Answered, Stays
<1>3. CASE Ask(w)
  <2>1. /\ routine[w] \in Modules /\ ths[w] \in Modules
        /\ Len(answers[w]) < Queries(routine[w])
    BY <1>3 DEF Ask, Goto, WorkInv, Knows
  <2>2. Len(answers[w]) \in Nat
    BY DEF TypeOK
  <2>3. Len(answers[w]) + 1 \in {1, 2}
    BY <2>1, <2>2 DEF Queries
  <2>4. Variable(w) \in Modules \X {1, 2} /\ Asks(w, ths[w], Variable(w))
    BY <2>1, <2>2, <2>3 DEF Variable, Asks
  <2>5. /\ Query(Variable(w)) \in Items
        /\ Query(Variable(w)).type = "query" /\ Query(Variable(w)).var = Variable(w)
    BY <2>4, ItemTypes DEF Query
  <2>6. /\ data_queue' = [data_queue EXCEPT ![ths[w]] = Append(@, Query(Variable(w)))]
        /\ UNCHANGED <<emitted, executed>>
    BY <1>3 DEF Ask, work
  <2> QED
    BY <2>1, <2>4, <2>5, <2>6 DEF Appends
<1>4. CASE Preamble(w)
  <2>1. routine[w] \in Modules /\ ths[w] \in Modules /\ emitted[w] = 0
    BY <1>4 DEF Preamble, Goto, WorkInv, Knows
  <2>2. emitted[w] + 1 \in 1 .. MaxCommands + 1
    BY <2>1, ConstantTypes
  <2> QED
    BY <1>4, <2>1, <2>2 DEF Preamble, EmitCommand, Queue, Emits
<1>5. CASE Emit(w)
  <2>1. routine[w] \in Modules /\ ths[w] \in Modules
    BY <1>5 DEF Emit, WorkInv, Knows
  <2>2. emitted[w] \in Nat /\ emitted[w] < Preambles(routine[w]) + MaxCommands
    BY <1>5, ConstantTypes DEF Emit, TypeOK
  <2>3. Preambles(routine[w]) \in {0, 1}
    BY DEF Preambles
  <2>4. emitted[w] + 1 \in 1 .. MaxCommands + 1
    BY <2>2, <2>3, ConstantTypes
  <2> QED
    BY <1>5, <2>1, <2>4 DEF Emit, EmitCommand, Queue, Emits
<1>6. CASE FailStream(w)
  <2>1. routine[w] \in Modules /\ ths[w] \in Modules
    BY <1>6 DEF FailStream, Goto, WorkInv, Knows
  <2>2. CASE routine[w] = "test"
    BY <1>6, <2>2 DEF FailStream, Stays, work
  <2>3. CASE routine[w] # "test"
    BY <1>6, <2>1, <2>3, PostErrorAppends DEF FailStream, work
  <2> QED
    BY <2>2, <2>3
<1>7. CASE Finish(w)
  <2>1. routine[w] \in Modules /\ ths[w] \in Modules
    BY <1>7 DEF Finish, Goto, WorkInv, Knows
  <2>2. EOF \in Items /\ EOF.type = "eof"
    BY ItemTypes DEF EOF
  <2>3. Output(w) \in Modules
    BY <2>1, OutputModule
  <2>4. /\ data_queue' = [data_queue EXCEPT ![Output(w)] = Append(@, EOF)]
        /\ UNCHANGED <<emitted, executed>>
    BY <1>7 DEF Finish, Queue, work
  <2> QED
    BY <2>2, <2>3, <2>4 DEF Appends
<1>8. CASE ErrorThread(w)
  <2>1. routine[w] \in Modules /\ ths[w] \in Modules
    BY <1>8 DEF ErrorThread, WorkInv, Knows, TypeOK
  <2> QED
    BY <1>8, <2>1, PostErrorAppends DEF ErrorThread
<1> QED
  BY <1>1, <1>2, <1>3, <1>4, <1>5, <1>6, <1>7, <1>8 DEF WorkerStep

LEMMA Changes == RInv /\ [Next]_vars => Stays \/ Appends \/ Emits \/ Takes \/ Executes
<1>1. UNCHANGED vars => Stays
  BY DEF vars, work, Stays
<1> QED
  BY <1>1, UserChanges, MainChanges, WorkerChanges DEF Next

(* Once a routine knows its radiator, neither changes, and its answers     *)
(* only get more.                                                          *)
LEMMA WorkStable ==
  ASSUME RInv, [Next]_vars, NEW w \in Workers, ths[w] \in Modules
  PROVE  /\ ths'[w] = ths[w] /\ routine'[w] = routine[w]
         /\ Len(answers[w]) \in Nat /\ Len(answers'[w]) \in Nat
         /\ Len(answers[w]) <= Len(answers'[w])
<1> USE DEF RInv
<1>1. Len(answers[w]) \in Nat /\ pc[w] \notin {"created", "loading"}
  BY ConstantTypes DEF TypeOK, WorkInv, Knows
<1>2. CASE UNCHANGED <<ths, routine, answers>>
  BY <1>1, <1>2
<1>3. ASSUME NEW u \in Workers, LoadRoutine(u) \/ LoadRadiator(u)
      PROVE  /\ ths'[w] = ths[w] /\ routine'[w] = routine[w]
             /\ answers'[w] = answers[w]
  BY <1>1, <1>3 DEF LoadRoutine, LoadRadiator, Goto, TypeOK
<1>4. ASSUME NEW u \in Workers, NEW value, Answered(u, value)
      PROVE  /\ ths'[w] = ths[w] /\ routine'[w] = routine[w]
             /\ Len(answers'[w]) \in Nat /\ Len(answers[w]) <= Len(answers'[w])
  <2>1. /\ answers' = [answers EXCEPT ![u] = Append(@, value)]
        /\ UNCHANGED <<ths, routine>>
    BY <1>4 DEF Answered
  <2>2. answers[w] \in Seq((Modules \X {1, 2}) \cup {Default})
    BY DEF TypeOK
  <2>3. answers'[w] = answers[w] \/ answers'[w] = Append(answers[w], value)
    BY <2>1 DEF TypeOK
  <2>4. Len(Append(answers[w], value)) = Len(answers[w]) + 1
    BY <2>2
  <2> QED
    BY <1>1, <2>1, <2>3, <2>4
<1>5. CASE User \/ MainStep \/ UNCHANGED vars
  <2>1. UNCHANGED <<ths, routine, answers>>
    BY <1>5 DEF User, Radiate, RadiateUnknown, ManualDigest, StartServer, MainStep,
       TakeKeys, NextEOF, NextCommand, NextQuery, NextQueryRaises, NextError,
       NextSleep, NextTimeout, TakeItem, vars, work
  <2> QED
    BY <1>2, <2>1
<1>6. ASSUME NEW u \in Workers, WorkerStep(u) \/ ErrorThread(u)
      PROVE  \/ LoadRoutine(u) \/ LoadRadiator(u)
             \/ \E value : Answered(u, value)
             \/ UNCHANGED <<ths, routine, answers>>
  BY <1>6 DEF WorkerStep, Ask, TakeAnswer, AwaitAnswer, AnswerTimeout, AskServer,
     ServerAnswer, Preamble, EmitCommand, StartStream, FailStream, Emit, Finish,
     CallDigest, ErrorThread, work
<1> QED
  BY <1>1, <1>2, <1>3, <1>4, <1>5, <1>6 DEF Next

------------------------------------------------------------------------------
(* Every query and every answer is of a worker that runs for the radiator  *)
(* of its queue.                                                           *)
Answers == [var : Modules \X {1, 2}, set : BOOLEAN]
AskedItems(r) ==
  {item \in Items : item.type = "query" => \E w \in Workers : Asks(w, r, item.var)}
AskedAnswers(r) == {m \in Answers : \E w \in Workers : Asks(w, r, m.var)}
AskInv ==
  \A r \in Modules :
    data_queue[r] \in Seq(AskedItems(r)) /\ message_queue[r] \in Seq(AskedAnswers(r))

LEMMA SeqMonotone ==
  ASSUME NEW S, NEW T, S \subseteq T, NEW q \in Seq(S)
  PROVE  q \in Seq(T)
  OBVIOUS

LEMMA QueueChange ==
  ASSUME NEW S, NEW T, S \subseteq T, NEW q \in Seq(S), NEW q1,
         \/ q1 = q
         \/ q # <<>> /\ q1 = Tail(q)
         \/ \E item \in S : q1 = Append(q, item)
  PROVE  q1 \in Seq(T)
<1>1. q \in Seq(T)
  BY SeqMonotone
<1>2. CASE q # <<>> /\ q1 = Tail(q)
  BY <1>1, <1>2
<1>3. CASE \E item \in S : q1 = Append(q, item)
  BY <1>1, <1>3
<1> QED
  BY <1>1, <1>2, <1>3

LEMMA AskersStay ==
  ASSUME RInv, [Next]_vars, NEW r \in Modules
  PROVE  /\ \A w \in Workers : \A var : Asks(w, r, var) => Asks(w, r, var)'
         /\ AskedItems(r) \subseteq AskedItems(r)'
         /\ AskedAnswers(r) \subseteq AskedAnswers(r)'
<1>1. ASSUME NEW w \in Workers, NEW var, Asks(w, r, var) PROVE Asks(w, r, var)'
  <2>1. /\ ths'[w] = ths[w] /\ routine'[w] = routine[w]
        /\ Len(answers[w]) \in Nat /\ Len(answers'[w]) \in Nat
        /\ Len(answers[w]) <= Len(answers'[w])
    BY <1>1, WorkStable DEF Asks
  <2>2. 1 .. Len(answers[w]) + 1 \subseteq 1 .. Len(answers'[w]) + 1
    BY <2>1
  <2> QED
    BY <1>1, <2>1, <2>2 DEF Asks
<1> QED
  BY <1>1 DEF AskedItems, AskedAnswers

LEMMA MessageChanges ==
  ASSUME RInv, AskInv, [Next]_vars
  PROVE  \/ UNCHANGED message_queue
         \/ \E r \in Modules :
              /\ message_queue[r] # <<>>
              /\ message_queue' = [message_queue EXCEPT ![r] = Tail(@)]
         \/ \E r \in Modules : \E m \in AskedAnswers(r) :
              message_queue' = [message_queue EXCEPT ![r] = Append(@, m)]
<1>1. CASE NextQuery
  <2> DEFINE item == Head(data_queue[current])
             m == [var |-> item.var, set |-> item.var \in Defined]
  <2>1. current \in Modules /\ item \in Items /\ item.type = "query"
    BY <1>1, TakeItemTypes DEF NextQuery
  <2>2. data_queue[current] # <<>>
    BY <1>1 DEF NextQuery, TakeItem
  <2>3. item \in AskedItems(current)
    <3>1. data_queue[current] \in Seq(AskedItems(current))
      BY <2>1 DEF AskInv
    <3> QED
      BY <2>2, <3>1
  <2>4. \E w \in Workers : Asks(w, current, item.var)
    BY <2>1, <2>3 DEF AskedItems
  <2>5. message_queue' = [message_queue EXCEPT ![current] = Append(@, m)]
    BY <1>1 DEF NextQuery
  <2>6. item.var \in Modules \X {1, 2}
    BY <2>1, ItemTypes
  <2> HIDE DEF item
  <2>7. m \in Answers /\ m.var = item.var
    <3>1. (item.var \in Defined) \in BOOLEAN
      OBVIOUS
    <3> QED
      BY <2>6, <3>1 DEF Answers
  <2> HIDE DEF m
  <2>8. m \in AskedAnswers(current)
    BY <2>4, <2>7 DEF AskedAnswers
  <2> QED
    BY <2>1, <2>5, <2>8
<1>2. ASSUME NEW w \in Workers, TakeAnswer(w)
      PROVE  /\ ths[w] \in Modules /\ message_queue[ths[w]] # <<>>
             /\ message_queue' = [message_queue EXCEPT ![ths[w]] = Tail(@)]
  BY <1>2 DEF TakeAnswer, RInv, WorkInv, Knows
<1>3. CASE User \/ UNCHANGED vars
  BY <1>3 DEF User, Radiate, RadiateUnknown, ManualDigest, StartServer, vars
<1>4. MainStep => NextQuery \/ UNCHANGED message_queue
  BY DEF MainStep, TakeKeys, NextEOF, NextCommand, NextQueryRaises, NextError,
     NextSleep, NextTimeout
<1>5. ASSUME NEW w \in Workers, WorkerStep(w) \/ ErrorThread(w)
      PROVE  TakeAnswer(w) \/ UNCHANGED message_queue
  BY <1>5
     DEF WorkerStep, LoadRoutine, LoadRadiator, Ask, AwaitAnswer, AnswerTimeout,
         AskServer, ServerAnswer, Preamble, EmitCommand, StartStream,
         FailStream, Emit, Finish, CallDigest, ErrorThread
<1> QED
  BY <1>1, <1>2, <1>3, <1>4, <1>5 DEF Next

LEMMA AskInit == Init => AskInv
<1> SUFFICES ASSUME Init, NEW r \in Modules
             PROVE  data_queue[r] \in Seq(AskedItems(r))
                    /\ message_queue[r] \in Seq(AskedAnswers(r))
  BY DEF AskInv
<1>1. PICK failed \in SUBSET MayFail : InitRadiators(failed)
  BY DEF Init
<1>2. Error \in AskedItems(r)
  BY ItemTypes DEF AskedItems, Error
<1>3. (data_queue[r] = <<>> \/ data_queue[r] = <<Error>>) /\ message_queue[r] = <<>>
  BY <1>1 DEF InitRadiators, InitErrors
<1>4. /\ <<Error>> \in Seq(AskedItems(r)) /\ <<>> \in Seq(AskedItems(r))
      /\ <<>> \in Seq(AskedAnswers(r))
  BY <1>2
<1>5. data_queue[r] \in Seq(AskedItems(r))
  BY <1>3, <1>4
<1>6. message_queue[r] \in Seq(AskedAnswers(r))
  BY <1>3, <1>4
<1> QED
  BY <1>5, <1>6

LEMMA AskStep == RInv /\ AskInv /\ [Next]_vars => AskInv'
<1> SUFFICES ASSUME RInv, AskInv, [Next]_vars, NEW r \in Modules
             PROVE  data_queue'[r] \in Seq(AskedItems(r)')
                    /\ message_queue'[r] \in Seq(AskedAnswers(r)')
  BY DEF AskInv
<1>1. /\ AskedItems(r) \subseteq AskedItems(r)'
      /\ AskedAnswers(r) \subseteq AskedAnswers(r)'
  BY AskersStay
<1>2. /\ data_queue[r] \in Seq(AskedItems(r))
      /\ message_queue[r] \in Seq(AskedAnswers(r))
  BY DEF AskInv
<1>3. data_queue \in [Modules -> Seq(Items)]
      /\ message_queue \in [Modules -> Seq(Answers)]
  BY DEF RInv, TypeOK, Answers
<1>4. \/ data_queue'[r] = data_queue[r]
      \/ data_queue[r] # <<>> /\ data_queue'[r] = Tail(data_queue[r])
      \/ \E item \in AskedItems(r) : data_queue'[r] = Append(data_queue[r], item)
  <2>1. CASE Stays
    BY <2>1 DEF Stays
  <2>2. CASE Appends
    BY <1>3, <2>2 DEF Appends, AskedItems
  <2>3. CASE Emits
    <3>1. PICK w \in Workers :
            /\ emitted[w] + 1 \in 1 .. MaxCommands + 1
            /\ data_queue' = [data_queue EXCEPT ![Output(w)] =
                                Append(@, Command(w, emitted[w] + 1))]
      BY <2>3 DEF Emits
    <3>2. Command(w, emitted[w] + 1) \in AskedItems(r)
      BY <3>1, ItemTypes DEF AskedItems, Command
    <3> QED
      BY <1>3, <3>1, <3>2
  <2>4. CASE Takes \/ Executes
    BY <1>3, <2>4 DEF Takes, Executes
  <2> QED
    BY <2>1, <2>2, <2>3, <2>4, Changes
<1>5. data_queue'[r] \in Seq(AskedItems(r)')
  BY <1>1, <1>2, <1>4, QueueChange
<1>6. \/ message_queue'[r] = message_queue[r]
      \/ message_queue[r] # <<>> /\ message_queue'[r] = Tail(message_queue[r])
      \/ \E m \in AskedAnswers(r) : message_queue'[r] = Append(message_queue[r], m)
  BY <1>3, MessageChanges
<1>7. message_queue'[r] \in Seq(AskedAnswers(r)')
  BY <1>1, <1>2, <1>6, QueueChange
<1> QED
  BY <1>5, <1>7

(* radiation_put_message answers the radiator that is current: it is the   *)
(* one whose worker asked, whoever has become current since.               *)
THEOREM AnswersFindAskers == Spec => []AnswersReachAskers
<1>1. AskInv => AnswersReachAskers
  <2> SUFFICES ASSUME AskInv, NEW r \in Modules, NEW i \in 1 .. Len(message_queue[r])
               PROVE  \E w \in Workers : Asks(w, r, message_queue[r][i].var)
    BY DEF AnswersReachAskers, Asks
  <2>1. message_queue[r] \in Seq(AskedAnswers(r))
    BY DEF AskInv
  <2>2. message_queue[r][i] \in AskedAnswers(r)
    BY <2>1
  <2> QED
    BY <2>2 DEF AskedAnswers
<1> QED
  BY <1>1, SessionInv, AskInit, AskStep, PTL DEF Spec

------------------------------------------------------------------------------
(* What is executed and what waits, for each worker.                       *)
Conserved(w) ==
  /\ executed[w] = [n \in 1 .. Len(executed[w]) |-> n]
  /\ Len(executed[w]) <= emitted[w]
  /\ emitted[w] > 0 =>
       InOrder(data_queue[Output(w)], w, Len(executed[w]), emitted[w])
  /\ \A r \in Modules : Of(data_queue[r], w) # {} => emitted[w] > 0 /\ r = Output(w)
ConserveInv == \A w \in Workers : Conserved(w)

LEMMA OutputStable ==
  ASSUME RInv, [Next]_vars, NEW w \in Workers, routine[w] \in Modules, ths[w] \in Modules
  PROVE  Output(w)' = Output(w)
  BY WorkStable DEF Output

LEMMA ConserveInit == Init => ConserveInv
<1> SUFFICES ASSUME Init, NEW w \in Workers PROVE Conserved(w)
  BY DEF ConserveInv
<1>1. executed[w] = <<>> /\ emitted[w] = 0
  BY DEF Init
<1>2. PICK failed \in SUBSET MayFail : InitRadiators(failed)
  BY DEF Init
<1>3. ASSUME NEW r \in Modules PROVE Of(data_queue[r], w) = {}
  <2>1. data_queue[r] = <<>> \/ data_queue[r] = <<Error>>
    BY <1>2 DEF InitRadiators, InitErrors
  <2>2. \A i \in 1 .. Len(data_queue[r]) : data_queue[r][i] = Error
    BY <2>1
  <2> QED
    BY <2>2 DEF Of, Error
<1>4. executed[w] = [n \in 1 .. Len(executed[w]) |-> n]
  BY <1>1
<1> QED
  BY <1>1, <1>3, <1>4 DEF Conserved

LEMMA ConserveTypes ==
  ASSUME RInv, ConserveInv, NEW w \in Workers
  PROVE  /\ data_queue \in [Modules -> Seq(Items)]
         /\ Len(executed[w]) \in Nat /\ emitted[w] \in Nat
         /\ emitted[w] > 0 => routine[w] \in Modules /\ ths[w] \in Modules
                              /\ Output(w) \in Modules
  BY OutputModule, ConstantTypes DEF RInv, TypeOK, WorkInv, Knows

(* A step that moves no command of w. *)
LEMMA ConserveOthers ==
  ASSUME RInv, ConserveInv, [Next]_vars, NEW w \in Workers,
         executed'[w] = executed[w], emitted'[w] = emitted[w],
         \A s \in Modules :
           /\ Of(data_queue[s], w) = {} => Of(data_queue'[s], w) = {}
           /\ \A lo, hi \in Nat : InOrder(data_queue[s], w, lo, hi)
                                  => InOrder(data_queue'[s], w, lo, hi)
  PROVE  Conserved(w)'
<1>1. emitted[w] > 0 => Output(w)' = Output(w) /\ Output(w) \in Modules
  BY ConserveTypes, OutputStable
<1>2. Conserved(w)
  BY DEF ConserveInv
<1>3. emitted'[w] > 0 =>
        InOrder(data_queue'[Output(w)'], w, Len(executed'[w]), emitted'[w])
  BY <1>1, <1>2, ConserveTypes DEF Conserved
<1>4. \A r \in Modules : Of(data_queue'[r], w) # {} => emitted'[w] > 0 /\ r = Output(w)'
  BY <1>1, <1>2 DEF Conserved
<1>5. /\ executed'[w] = [n \in 1 .. Len(executed'[w]) |-> n]
      /\ Len(executed'[w]) <= emitted'[w]
  BY <1>2 DEF Conserved
<1> QED
  BY <1>3, <1>4, <1>5 DEF Conserved

LEMMA ConserveAppend ==
  ASSUME RInv, ConserveInv, [Next]_vars, NEW w \in Workers,
         NEW r \in Modules, NEW item \in Items,
         ~(item.type = "command" /\ item.worker = w),
         data_queue' = [data_queue EXCEPT ![r] = Append(@, item)],
         executed'[w] = executed[w], emitted'[w] = emitted[w]
  PROVE  Conserved(w)'
<1>1. ASSUME NEW s \in Modules
      PROVE  /\ Of(data_queue[s], w) = {} => Of(data_queue'[s], w) = {}
             /\ \A lo, hi \in Nat : InOrder(data_queue[s], w, lo, hi)
                                    => InOrder(data_queue'[s], w, lo, hi)
  <2>1. CASE s # r
    <3>1. data_queue'[s] = data_queue[s]
      BY <2>1, ConserveTypes
    <3> QED
      BY <3>1
  <2>2. CASE s = r
    <3>1. data_queue'[s] = Append(data_queue[s], item) /\ data_queue[s] \in Seq(Items)
      BY <2>2, ConserveTypes
    <3> QED
      BY <3>1, AppendOther
  <2> QED
    BY <2>1, <2>2
<1> QED
  BY <1>1, ConserveOthers

LEMMA ConserveTail ==
  ASSUME RInv, ConserveInv, [Next]_vars, NEW w \in Workers,
         current \in Modules, data_queue[current] # <<>>,
         ~(Head(data_queue[current]).type = "command"
           /\ Head(data_queue[current]).worker = w),
         data_queue' = [data_queue EXCEPT ![current] = Tail(@)],
         executed'[w] = executed[w], emitted'[w] = emitted[w]
  PROVE  Conserved(w)'
<1>1. ASSUME NEW s \in Modules
      PROVE  /\ Of(data_queue[s], w) = {} => Of(data_queue'[s], w) = {}
             /\ \A lo, hi \in Nat : InOrder(data_queue[s], w, lo, hi)
                                    => InOrder(data_queue'[s], w, lo, hi)
  <2>1. CASE s # current
    <3>1. data_queue'[s] = data_queue[s]
      BY <2>1, ConserveTypes
    <3> QED
      BY <3>1
  <2>2. CASE s = current
    <3>1. data_queue'[s] = Tail(data_queue[s]) /\ data_queue[s] \in Seq(Items)
      BY <2>2, ConserveTypes
    <3> QED
      BY <2>2, <3>1, TailOther
  <2> QED
    BY <2>1, <2>2
<1> QED
  BY <1>1, ConserveOthers

(* The worker queues its next command, behind those that wait. *)
LEMMA ConserveEmit ==
  ASSUME RInv, ConserveInv, [Next]_vars, NEW w \in Workers,
         routine[w] \in Modules, ths[w] \in Modules,
         data_queue' = [data_queue EXCEPT ![Output(w)] =
                          Append(@, Command(w, emitted[w] + 1))],
         emitted'[w] = emitted[w] + 1, executed'[w] = executed[w]
  PROVE  Conserved(w)'
<1> DEFINE r == Output(w)
           lo == Len(executed[w])
           hi == emitted[w]
<1>1. r \in Modules /\ Output(w)' = r /\ data_queue[r] \in Seq(Items)
  BY OutputModule, OutputStable, ConserveTypes
<1>a. Conserved(w)
  BY DEF ConserveInv
<1>2. lo \in Nat /\ hi \in Nat /\ lo <= hi
  BY ConserveTypes DEF ConserveInv, Conserved
<1>3. InOrder(data_queue[r], w, lo, hi)
  <2>1. CASE hi > 0
    BY <2>1 DEF ConserveInv, Conserved
  <2>2. CASE hi = 0
    <3>1. Of(data_queue[r], w) = {}
      BY <1>1, <1>a, <2>2 DEF Conserved
    <3>2. lo + 1 .. hi = {}
      BY <1>2, <2>2
    <3> QED
      BY <3>1, <3>2 DEF InOrder
  <2> QED
    BY <1>2, <2>1, <2>2
<1>4. InOrder(data_queue'[r], w, lo, hi + 1)
  <2>1. data_queue'[r] = Append(data_queue[r], Command(w, hi + 1))
    BY <1>1, ConserveTypes
  <2> HIDE DEF r, lo, hi
  <2> QED
    BY <1>1, <1>2, <1>3, <2>1, AppendOwn
<1>5. ASSUME NEW s \in Modules, Of(data_queue'[s], w) # {} PROVE s = r
  <2>1. CASE s # r
    <3>1. data_queue'[s] = data_queue[s]
      BY <2>1, ConserveTypes
    <3>2. \A k \in Modules : Of(data_queue[k], w) # {} => k = Output(w)
      BY <1>a DEF Conserved
    <3> QED
      BY <1>5, <3>1, <3>2
  <2> QED
    BY <2>1
<1>6. executed'[w] = [n \in 1 .. Len(executed'[w]) |-> n]
  BY DEF ConserveInv, Conserved
<1>7. Len(executed'[w]) <= emitted'[w] /\ emitted'[w] > 0
  BY <1>2
<1> QED
  BY <1>1, <1>4, <1>5, <1>6, <1>7 DEF Conserved

(* Vim executes the next command of w. *)
LEMMA ConserveExecute ==
  ASSUME RInv, ConserveInv, [Next]_vars, NEW w \in Workers,
         current \in Modules, data_queue[current] # <<>>,
         Head(data_queue[current]).type = "command",
         Head(data_queue[current]).worker = w,
         data_queue' = [data_queue EXCEPT ![current] = Tail(@)],
         executed'[w] = Append(executed[w], Head(data_queue[current]).n),
         emitted'[w] = emitted[w]
  PROVE  Conserved(w)'
<1> DEFINE q == data_queue[current]
           lo == Len(executed[w])
           hi == emitted[w]
<1>1. q \in Seq(Items) /\ lo \in Nat /\ hi \in Nat
  BY ConserveTypes
<1>2. 1 \in Of(q, w)
  <2>1. Len(q) >= 1 /\ q[1] = Head(q)
    BY <1>1
  <2> QED
    BY <1>1, <2>1 DEF Of
<1>3. hi > 0 /\ current = Output(w) /\ InOrder(q, w, lo, hi)
  BY <1>2 DEF ConserveInv, Conserved
<1>4. Output(w)' = current
  BY <1>3, ConserveTypes, OutputStable
<1>5. Head(q).n = lo + 1 /\ lo + 1 <= hi /\ InOrder(Tail(q), w, lo + 1, hi)
  <2> HIDE DEF lo, hi
  <2>1. Head(q).type = "command" /\ Head(q).worker = w
    OBVIOUS
  <2> HIDE DEF q
  <2>2. q # <<>>
    BY DEF q
  <2> QED
    BY <1>1, <1>3, <2>1, <2>2, TailOwn
<1>6. executed[w] = [n \in 1 .. lo |-> n] /\ executed[w] \in Seq(Nat)
  BY ConstantTypes DEF ConserveInv, Conserved, RInv, TypeOK
<1>7. executed'[w] = Append(executed[w], lo + 1)
  BY <1>5
<1>8. Len(executed'[w]) = lo + 1 /\ executed'[w] = [n \in 1 .. lo + 1 |-> n]
  BY <1>1, <1>6, <1>7
<1>9. data_queue'[current] = Tail(q)
  BY ConserveTypes
<1>10. InOrder(data_queue'[Output(w)'], w, Len(executed'[w]), emitted'[w])
  BY <1>4, <1>5, <1>8, <1>9
<1>11. ASSUME NEW s \in Modules, Of(data_queue'[s], w) # {} PROVE s = current
  <2>1. CASE s # current
    <3>1. data_queue'[s] = data_queue[s]
      BY <2>1, ConserveTypes
    <3> QED
      BY <1>3, <1>11, <3>1 DEF ConserveInv, Conserved
  <2> QED
    BY <2>1
<1> QED
  BY <1>3, <1>4, <1>5, <1>8, <1>10, <1>11 DEF Conserved

LEMMA ConserveStep == RInv /\ ConserveInv /\ [Next]_vars => ConserveInv'
<1> SUFFICES ASSUME RInv, ConserveInv, [Next]_vars, NEW w \in Workers
             PROVE  Conserved(w)'
  BY DEF ConserveInv
<1>1. CASE Stays
  BY <1>1, ConserveOthers DEF Stays
<1>2. CASE Appends
  <2>1. PICK r \in Modules, item \in Items :
          /\ item.type # "command"
          /\ data_queue' = [data_queue EXCEPT ![r] = Append(@, item)]
    BY <1>2 DEF Appends
  <2> QED
    BY <1>2, <2>1, ConserveAppend DEF Appends
<1>3. CASE Emits
  <2>1. PICK u \in Workers :
          /\ routine[u] \in Modules /\ ths[u] \in Modules
          /\ emitted[u] + 1 \in 1 .. MaxCommands + 1
          /\ data_queue' = [data_queue EXCEPT ![Output(u)] =
                              Append(@, Command(u, emitted[u] + 1))]
          /\ emitted' = [emitted EXCEPT ![u] = @ + 1]
          /\ UNCHANGED executed
    BY <1>3 DEF Emits
  <2>2. emitted \in [Workers -> 0 .. MaxCommands + 1]
    BY DEF RInv, TypeOK
  <2>3. CASE u = w
    <3>1. emitted'[w] = emitted[w] + 1 /\ executed'[w] = executed[w]
      BY <2>1, <2>2, <2>3
    <3> QED
      BY <2>1, <2>3, <3>1, ConserveEmit
  <2>4. CASE u # w
    <3>1. emitted'[w] = emitted[w] /\ executed'[w] = executed[w]
      BY <2>1, <2>2, <2>4
    <3>2. /\ Command(u, emitted[u] + 1) \in Items
          /\ Command(u, emitted[u] + 1).worker = u
      BY <2>1, ItemTypes DEF Command
    <3>3. Output(u) \in Modules
      BY <2>1, OutputModule
    <3> QED
      BY <2>1, <2>4, <3>1, <3>2, <3>3, ConserveAppend
  <2> QED
    BY <2>3, <2>4
<1>4. CASE Takes
  BY <1>4, ConserveTail DEF Takes
<1>5. CASE Executes
  <2> DEFINE c == Head(data_queue[current])
  <2>1. /\ current \in Modules /\ data_queue[current] # <<>> /\ c.type = "command"
        /\ data_queue' = [data_queue EXCEPT ![current] = Tail(@)]
        /\ executed' = [executed EXCEPT ![c.worker] = Append(@, c.n)]
        /\ UNCHANGED emitted
    BY <1>5 DEF Executes
  <2>2. executed \in [Workers -> Seq(1 .. MaxCommands + 1)]
    BY DEF RInv, TypeOK
  <2>3. CASE c.worker = w
    <3>1. executed'[w] = Append(executed[w], c.n)
      BY <2>1, <2>2, <2>3
    <3> QED
      BY <2>1, <2>3, <3>1, ConserveExecute
  <2>4. CASE c.worker # w
    <3>1. executed'[w] = executed[w]
      BY <2>1, <2>2, <2>4
    <3> QED
      BY <2>1, <2>4, <3>1, ConserveTail
  <2> QED
    BY <2>3, <2>4
<1> QED
  BY <1>1, <1>2, <1>3, <1>4, <1>5, Changes

(* Commands on their way from a routine through the data queue to Vim are  *)
(* neither lost nor executed twice nor overtaken, whichever takes time out *)
(* and whoever digests, for any number of files, commands and digests.     *)
THEOREM CommandsAreConserved == Spec => []CommandsConserved
<1>1. ConserveInv => CommandsConserved
  BY DEF ConserveInv, Conserved, CommandsConserved, Pending, InOrder, Of
<1> QED
  BY <1>1, SessionInv, ConserveInit, ConserveStep, PTL DEF Spec
------------------------------------------------------------------------------
(* The workers leave to Vim what Vim keeps; each of them runs for a file.  *)
LEMMA WorkerEffect ==
  ASSUME RInv, NEW w \in Workers, WorkerStep(w) \/ ErrorThread(w)
  PROVE  /\ UNCHANGED <<current, v_servername, interface, main, asked, raised>>
         /\ current \in Modules
         /\ pc[w] # "none" /\ pc'[w] # "none"
         /\ pc' = [pc EXCEPT ![w] = pc'[w]]
<1> USE DEF RInv
<1>1. pc = [u \in Workers |-> pc[u]] /\ DOMAIN pc = Workers
  BY DEF TypeOK
<1>2. /\ pc[w] # "none" => current \in Modules
      /\ stderr[w] > 0 => pc[w] # "none"
  BY ConstantTypes DEF WorkInv, Knows, TypeOK
<1>3. ASSUME NEW x, NEW y, Goto(w, x, y), x # "none", y # "none"
      PROVE  pc[w] # "none" /\ pc'[w] # "none" /\ pc' = [pc EXCEPT ![w] = pc'[w]]
  BY <1>1, <1>3 DEF Goto
<1>4. ASSUME NEW value, Answered(w, value), pc[w] # "none"
      PROVE  pc[w] # "none" /\ pc'[w] # "none" /\ pc' = [pc EXCEPT ![w] = pc'[w]]
  BY <1>1, <1>4 DEF Answered
<1>5. CASE TakeAnswer(w) \/ AnswerTimeout(w) \/ ServerAnswer(w)
  BY <1>2, <1>4, <1>5 DEF TakeAnswer, AnswerTimeout, ServerAnswer, Answered, vim
<1>6. CASE LoadRoutine(w) \/ LoadRadiator(w) \/ Ask(w) \/ AwaitAnswer(w) \/ AskServer(w)
  BY <1>2, <1>3, <1>6 DEF LoadRoutine, LoadRadiator, Ask, AwaitAnswer, AskServer,
     vim, work
<1>7. CASE Preamble(w) \/ StartStream(w) \/ FailStream(w)
  <2>1. pc[w] # "none" /\ pc'[w] # "none" /\ pc' = [pc EXCEPT ![w] = pc'[w]]
    BY <1>1, <1>7 DEF Preamble, StartStream, FailStream, Goto
  <2> QED
    BY <1>2, <1>7, <2>1
       DEF Preamble, EmitCommand, StartStream, FailStream, vim, work
<1>8. CASE Emit(w)
  BY <1>1, <1>2, <1>8 DEF Emit, EmitCommand, vim
<1>9. CASE Finish(w)
  <2>1. pc[w] # "none" /\ pc'[w] # "none" /\ pc' = [pc EXCEPT ![w] = pc'[w]]
    BY <1>1, <1>9 DEF Finish, Goto
  <2> QED
    BY <1>2, <1>9, <2>1 DEF Finish, vim, work
<1>10. CASE CallDigest(w)
  BY <1>2, <1>3, <1>10 DEF CallDigest, vim, work
<1>11. CASE ErrorThread(w)
  <2>1. stderr[w] > 0 /\ pc' = pc /\ UNCHANGED <<vim, main, asked>>
    BY <1>11 DEF ErrorThread
  <2> QED
    BY <1>1, <1>2, <2>1 DEF vim
<1> QED
  BY <1>5, <1>6, <1>7, <1>8, <1>9, <1>10, <1>11 DEF WorkerStep

(* A routine queues its next command.                                      *)
LEMMA EmitEffect ==
  ASSUME RInv, [Next]_vars, NEW w \in Workers, Preamble(w) \/ Emit(w)
  PROVE  /\ Command(w, emitted[w] + 1) \in Items
         /\ Command(w, emitted[w] + 1).type = "command" /\ keys' = keys
         /\ data_queue' = [data_queue EXCEPT ![Output(w)] =
                             Append(@, Command(w, emitted[w] + 1))]
<1>1. /\ data_queue' = [data_queue EXCEPT ![Output(w)] =
                          Append(@, Command(w, emitted[w] + 1))]
      /\ emitted' = [emitted EXCEPT ![w] = @ + 1] /\ keys' = keys
  BY DEF Preamble, Emit, EmitCommand, Queue
<1>2. RInv'
  BY RStep
<1>3. emitted'[w] \in 0 .. MaxCommands + 1
  BY <1>2 DEF RInv, TypeOK
<1>4. emitted'[w] = emitted[w] + 1 /\ emitted[w] \in Nat
  BY <1>1, ConstantTypes DEF RInv, TypeOK
<1>5. Command(w, emitted[w] + 1) \in Items
  BY <1>3, <1>4, ItemTypes
<1> QED
  BY <1>1, <1>5 DEF Command

(* All of Vim but what it has been through. *)
session == <<registered, current, g_servername, v_servername, interface, digests>>

LEMMA MainEffect ==
  ASSUME MainStep
  PROVE  /\ UNCHANGED <<session, pc, work>>
         /\ keys' = keys \/ TakeKeys
  BY DEF MainStep, TakeKeys, NextEOF, NextCommand, NextQuery, NextQueryRaises,
     NextError, NextSleep, NextTimeout, TakeItem, vim, session

(* It is not forgotten that an exception ended a digest.                   *)
LEMMA RaisedBefore == RInv /\ [Next]_vars /\ ~raised' => ~raised
<1> SUFFICES ASSUME RInv, [Next]_vars, raised' # raised PROVE raised'
  OBVIOUS
<1>1. ~User /\ ~UNCHANGED vars
  BY DEF User, Radiate, RadiateUnknown, ManualDigest, StartServer, vars, vim
<1>2. \A w \in Workers : ~WorkerStep(w) /\ ~ErrorThread(w)
  BY WorkerEffect
<1>3. MainStep
  BY <1>1, <1>2 DEF Next
<1>4. NextCommand \/ NextQueryRaises \/ NextError
  BY <1>3 DEF MainStep, TakeKeys, NextEOF, NextQuery, GoesOn, NextSleep,
     NextTimeout, vim
<1> QED
  BY <1>4 DEF NextCommand, NextQueryRaises, NextError, GoesOn, Raises

(* Behind each command of a worker that has ended, on whichever queue it   *)
(* waits, is an end marker: a digest that reads up to the last marker has  *)
(* executed everything of the workers that are done.                       *)
Marked(r) ==
  \A i \in 1 .. Len(data_queue[r]) :
    /\ data_queue[r][i].type = "command"
    /\ pc[data_queue[r][i].worker] \in {"signal", "done"}
    => \E j \in i .. Len(data_queue[r]) : data_queue[r][j] = EOF
MarkedInv == \A r \in Modules : Marked(r)

LEMMA MarkedInit == Init => MarkedInv
<1> SUFFICES ASSUME Init, NEW r \in Modules PROVE Marked(r)
  BY DEF MarkedInv
<1>1. PICK failed \in SUBSET MayFail : InitRadiators(failed)
  BY DEF Init
<1>2. data_queue[r] = <<>> \/ data_queue[r] = <<Error>>
  BY <1>1 DEF InitRadiators, InitErrors
<1>3. \A i \in 1 .. Len(data_queue[r]) : data_queue[r][i] = Error
  BY <1>2
<1> QED
  BY <1>3 DEF Marked, Error

(* A worker ends with its end marker, unless it has queued no command, and *)
(* queues nothing after that.                                              *)
LEMMA EndStep ==
  ASSUME RInv, [Next]_vars, NEW w \in Workers, pc'[w] \in {"signal", "done"}
  PROVE  /\ emitted'[w] = emitted[w]
         /\ pc[w] \in {"signal", "done"} \/ Finish(w) \/ emitted[w] = 0
<1> USE DEF RInv
<1>1. /\ DOMAIN pc = Workers /\ DOMAIN emitted = Workers
      /\ pc[w] = "none" => emitted[w] = 0
  BY DEF TypeOK, WorkInv, Knows
<1>2. CASE UNCHANGED <<pc, emitted>>
  BY <1>2
<1>3. CASE User
  BY <1>1, <1>3
     DEF User, Radiate, RadiateUnknown, ManualDigest, StartServer, Goto, work
<1>4. CASE MainStep
  BY <1>2, <1>4 DEF MainStep, TakeKeys, NextEOF, NextCommand, NextQuery,
     NextQueryRaises, NextError, NextSleep, NextTimeout, TakeItem, work
<1>5. ASSUME NEW u \in Workers, WorkerStep(u) \/ ErrorThread(u)
      PROVE  /\ emitted'[w] = emitted[w]
             /\ pc[w] \in {"signal", "done"} \/ Finish(w) \/ emitted[w] = 0
  <2>1. CASE \/ LoadRoutine(u) \/ LoadRadiator(u) \/ Ask(u) \/ AwaitAnswer(u)
             \/ AskServer(u) \/ StartStream(u) \/ ErrorThread(u)
    BY <1>1, <2>1 DEF LoadRoutine, LoadRadiator, Ask, AwaitAnswer, AskServer,
       StartStream, ErrorThread, Goto, work
  <2>2. ASSUME NEW value, Answered(u, value)
        PROVE  emitted'[w] = emitted[w] /\ pc[w] \in {"signal", "done"}
    BY <1>1, <2>2 DEF Answered
  <2>3. CASE TakeAnswer(u) \/ AnswerTimeout(u) \/ ServerAnswer(u)
    BY <2>2, <2>3 DEF TakeAnswer, AnswerTimeout, ServerAnswer
  <2>4. CASE Preamble(u) \/ Emit(u)
    BY <1>1, <2>4 DEF Preamble, Emit, EmitCommand, Goto
  <2>5. CASE FailStream(u)
    <3>1. pc[u] = "start" /\ routine[u] = "test" => emitted[u] = 0
      BY DEF WorkInv, Knows
    <3> QED
      BY <1>1, <2>5, <3>1 DEF FailStream, Goto, work
  <2>6. CASE Finish(u) \/ CallDigest(u)
    BY <1>1, <2>6 DEF Finish, CallDigest, Goto, work
  <2> QED
    BY <1>5, <2>1, <2>3, <2>4, <2>5, <2>6 DEF WorkerStep
<1> QED
  BY <1>2, <1>3, <1>4, <1>5 DEF Next, vars, work

(* A queue on which nobody's commands come to an end stays marked.         *)
LEMMA MarkedKeeps ==
  ASSUME RInv, MarkedInv, NEW r \in Modules, data_queue'[r] \in Seq(Items),
         \A w \in Workers : Of(data_queue[r], w) # {} /\ pc'[w] \in {"signal", "done"}
                            => pc[w] \in {"signal", "done"},
         \/ data_queue'[r] = data_queue[r]
         \/ data_queue[r] # <<>> /\ data_queue'[r] = Tail(data_queue[r])
         \/ \E item \in Items :
              /\ item.type = "command" => pc'[item.worker] \notin {"signal", "done"}
              /\ data_queue'[r] = Append(data_queue[r], item)
  PROVE  Marked(r)'
<1> DEFINE q == data_queue[r]
           q1 == data_queue'[r]
           Ended(w) == pc[w] \in {"signal", "done"}
<1>1. q \in Seq(Items)
  BY DEF RInv, TypeOK
<1>2. ASSUME NEW i \in 1 .. Len(q), q[i].type = "command",
             pc'[q[i].worker] \in {"signal", "done"}
      PROVE  \E j \in i .. Len(q) : q[j] = EOF
  <2>1. q[i].worker \in Workers /\ i \in Of(q, q[i].worker)
    BY <1>1, <1>2, ItemTypes DEF Of
  <2>2. Ended(q[i].worker)
    BY <1>2, <2>1
  <2> QED
    BY <1>2, <2>2 DEF MarkedInv, Marked
<1> SUFFICES ASSUME NEW i \in 1 .. Len(q1), q1[i].type = "command",
                    pc'[q1[i].worker] \in {"signal", "done"}
             PROVE  \E j \in i .. Len(q1) : q1[j] = EOF
  BY DEF Marked
<1>3. CASE q1 = q
  BY <1>2, <1>3
<1>4. CASE q # <<>> /\ q1 = Tail(q)
  <2>1. /\ Len(q) \in Nat \ {0} /\ Len(q1) = Len(q) - 1
        /\ \A j \in 1 .. Len(q) - 1 : q1[j] = q[j + 1]
    BY <1>1, <1>4
  <2>2. i + 1 \in 1 .. Len(q) /\ q[i + 1] = q1[i]
    BY <2>1
  <2>3. PICK j \in i + 1 .. Len(q) : q[j] = EOF
    BY <1>2, <2>2
  <2>4. j - 1 \in i .. Len(q1) /\ q1[j - 1] = q[j]
    BY <2>1, <2>2
  <2> QED
    BY <2>3, <2>4
<1>5. ASSUME NEW item \in Items, q1 = Append(q, item),
             item.type = "command" => pc'[item.worker] \notin {"signal", "done"}
      PROVE  \E j \in i .. Len(q1) : q1[j] = EOF
  <2>1. /\ Len(q) \in Nat /\ Len(q1) = Len(q) + 1 /\ q1[Len(q) + 1] = item
        /\ \A j \in 1 .. Len(q) : q1[j] = q[j]
    BY <1>1, <1>5
  <2>2. i \in 1 .. Len(q) /\ q[i] = q1[i]
    BY <1>5, <2>1
  <2>3. PICK j \in i .. Len(q) : q[j] = EOF
    BY <1>2, <2>2
  <2> QED
    BY <2>1, <2>2, <2>3
<1> QED
  BY <1>3, <1>4, <1>5

LEMMA MarkedStep == RInv /\ ConserveInv /\ MarkedInv /\ [Next]_vars => MarkedInv'
<1> SUFFICES ASSUME RInv, ConserveInv, MarkedInv, [Next]_vars, NEW r \in Modules
             PROVE  Marked(r)'
  BY DEF MarkedInv
<1> DEFINE q == data_queue[r]
<1>1. data_queue'[r] \in Seq(Items) /\ q \in Seq(Items)
  BY RStep DEF RInv, TypeOK
<1>2. CASE \E w \in Workers : Finish(w) /\ r = Output(w)
  <2>1. PICK w \in Workers : Finish(w) /\ r = Output(w)
    BY <1>2
  <2>2. data_queue'[r] = Append(q, EOF)
    BY <2>1 DEF Finish, Queue, RInv, TypeOK
  <2>3. Len(data_queue'[r]) = Len(q) + 1 /\ data_queue'[r][Len(q) + 1] = EOF
        /\ Len(q) \in Nat
    BY <1>1, <2>2
  <2> QED
    BY <2>3 DEF Marked
<1>3. CASE ~\E w \in Workers : Finish(w) /\ r = Output(w)
  <2>1. ASSUME NEW w \in Workers, Of(q, w) # {}, pc'[w] \in {"signal", "done"}
        PROVE  pc[w] \in {"signal", "done"}
    <3>1. emitted[w] > 0 /\ r = Output(w)
      BY <2>1 DEF ConserveInv, Conserved
    <3> QED
      BY <1>3, <2>1, <3>1, EndStep
  <2>2. CASE Stays \/ Takes \/ Executes
    <3>1. \/ data_queue'[r] = q
          \/ q # <<>> /\ data_queue'[r] = Tail(q)
      BY <2>2 DEF Stays, Takes, Executes, RInv, TypeOK
    <3> QED
      BY <1>1, <2>1, <3>1, MarkedKeeps
  <2>3. CASE Appends
    <3>1. PICK s \in Modules, item \in Items :
            /\ item.type # "command"
            /\ data_queue' = [data_queue EXCEPT ![s] = Append(@, item)]
      BY <2>3 DEF Appends
    <3>2. data_queue'[r] = q \/ data_queue'[r] = Append(q, item)
      BY <3>1 DEF RInv, TypeOK
    <3> QED
      BY <1>1, <2>1, <3>1, <3>2, MarkedKeeps
  <2>4. CASE Emits
    <3>1. PICK w \in Workers :
            /\ emitted[w] + 1 \in 1 .. MaxCommands + 1
            /\ data_queue' = [data_queue EXCEPT ![Output(w)] =
                                Append(@, Command(w, emitted[w] + 1))]
            /\ emitted' = [emitted EXCEPT ![w] = @ + 1]
      BY <2>4 DEF Emits
    <3>2. emitted'[w] # emitted[w]
      BY <3>1, ConstantTypes DEF RInv, TypeOK
    <3>3. pc'[w] \notin {"signal", "done"}
      BY <3>2, EndStep
    <3>4. /\ Command(w, emitted[w] + 1) \in Items
          /\ Command(w, emitted[w] + 1).worker = w
      BY <3>1, ItemTypes DEF Command
    <3>5. data_queue'[r] = q \/ data_queue'[r] = Append(q, Command(w, emitted[w] + 1))
      BY <3>1 DEF RInv, TypeOK
    <3> QED
      BY <1>1, <2>1, <3>3, <3>4, <3>5, MarkedKeeps
  <2> QED
    BY <2>2, <2>3, <2>4, Changes
<1> QED
  BY <1>2, <1>3

LEMMA QueuesInv == Spec => [](RInv /\ ConserveInv /\ MarkedInv)
<1>1. Init => RInv /\ ConserveInv /\ MarkedInv
  BY RInit, ConserveInit, MarkedInit
<1>2. RInv /\ ConserveInv /\ MarkedInv /\ [Next]_vars
      => (RInv /\ ConserveInv /\ MarkedInv)'
  BY RStep, ConserveStep, MarkedStep
<1> QED
  BY <1>1, <1>2, PTL DEF Spec

(* A worker of radiation.c that has ended, or is about to ask for a        *)
(* digest, has left an end marker behind each of its commands that waits   *)
(* for Vim, whatever times out and with any interface.  A digest that gets *)
(* to that marker has executed them all before it stops.                   *)
THEOREM EndMarkersFollow == Spec => []MarkedInv
BY QueuesInv, PTL
=============================================================================
