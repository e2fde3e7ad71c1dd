------------------------ MODULE RadiationServerProofs ------------------------
(***************************************************************************)
(* Proof that with a server nothing is left to be digested: for files of   *)
(* one type, any number of them and whatever else the user digests, when   *)
(* the workers are done and the keystrokes typed, every command has been   *)
(* executed, if no exception ended a digest.                               *)
(***************************************************************************)
EXTENDS RadiationProofs, FiniteSetTheorems, FunctionTheorems

(* How often x is in the sequence q. *)
Places(q, x) == {i \in 1 .. Len(q) : q[i] = x}
Count(q, x) == Cardinality(Places(q, x))

(* The workers that have queued their end marker and not yet asked Vim to  *)
(* digest.                                                                 *)
Signalling == {w \in Workers : pc[w] = "signal"}

(* The digests that are to end at an end marker: those Vim has been or     *)
(* will be asked for, and the running one.                                 *)
ToCome == Count(keys, "digest") + Cardinality(Signalling)
          + (IF main \in {"digest", "asleep"} THEN 1 ELSE 0)

(* The end markers such a digest may find; one that has fallen asleep will *)
(* perhaps wake up too late for the one it waits for.                      *)
Markers(r) == Count(data_queue[r], EOF) + (IF main = "asleep" THEN 1 ELSE 0)

(* What holds while all files are of the type of radiator r.               *)
OfType(r) == \A w \in Workers : asked[w] \in {None, r}
Served(r) ==
  /\ current \in {None, r}
  /\ \A w \in Workers :
       /\ routine[w] \in {None, r} /\ ths[w] \in {None, r}
       /\ pc[w] # "none" => interface[r] = "server"
  /\ ~raised => Markers(r) <= ToCome

AskedInv ==
  /\ \A w \in Workers : pc[w] = "none" <=> asked[w] = None
  /\ current = None => keys = <<>>
  /\ ServerAtStart => v_servername

ServerInv ==
  /\ AskedInv
  /\ ServerAtStart => \A r \in Modules : OfType(r) => Served(r)

------------------------------------------------------------------------------
(* Counting.                                                               *)
LEMMA PlacesFinite ==
  ASSUME NEW q, NEW x, Len(q) \in Nat
  PROVE  IsFiniteSet(Places(q, x))
<1>1. IsFiniteSet(1 .. Len(q))
  BY FS_Interval
<1>2. Places(q, x) \subseteq 1 .. Len(q)
  BY DEF Places
<1> QED
  BY <1>1, <1>2, FS_Subset

LEMMA CountTypes ==
  ASSUME NEW q, NEW x, Len(q) \in Nat
  PROVE  /\ Count(q, x) \in Nat
         /\ Count(q, x) = 0 <=> \A i \in 1 .. Len(q) : q[i] # x
<1>1. IsFiniteSet(Places(q, x))
  BY PlacesFinite
<1>2. Count(q, x) \in Nat
  BY <1>1, FS_CardinalityType DEF Count
<1>3. Count(q, x) = 0 <=> Places(q, x) = {}
  BY <1>1, FS_EmptySet DEF Count
<1>4. Places(q, x) = {} <=> \A i \in 1 .. Len(q) : q[i] # x
  BY DEF Places
<1> QED
  BY <1>2, <1>3, <1>4

LEMMA CountAppend ==
  ASSUME NEW S, NEW q \in Seq(S), NEW x, NEW item \in S
  PROVE  /\ item # x => Count(Append(q, item), x) = Count(q, x)
         /\ item = x => Count(Append(q, item), x) = Count(q, x) + 1
<1> DEFINE q1 == Append(q, item)
           P == Places(q, x)
           P1 == Places(q1, x)
<1>1. /\ Len(q) \in Nat /\ Len(q1) = Len(q) + 1 /\ q1[Len(q) + 1] = item
      /\ \A i \in 1 .. Len(q) : q1[i] = q[i]
  OBVIOUS
<1>2. IsFiniteSet(P)
  BY <1>1, PlacesFinite
<1>0. Len(q) + 1 \notin P
  BY <1>1 DEF Places
<1> HIDE DEF q1
<1>3. item # x => P1 = P
  BY <1>1 DEF Places
<1>4. item = x => P1 = P \cup {Len(q) + 1}
  BY <1>1 DEF Places
<1>5. Cardinality(P \cup {Len(q) + 1}) = Cardinality(P) + 1
  BY <1>0, <1>2, FS_AddElement
<1>6. Count(q, x) = Cardinality(P) /\ Count(q1, x) = Cardinality(P1)
  BY DEF Count
<1> HIDE DEF P, P1
<1>7. item # x => Count(q1, x) = Count(q, x)
  BY <1>3, <1>6
<1>8. item = x => Count(q1, x) = Count(q, x) + 1
  BY <1>4, <1>5, <1>6
<1> QED
  BY <1>7, <1>8 DEF q1

LEMMA CountTail ==
  ASSUME NEW S, NEW q \in Seq(S), NEW x, q # <<>>
  PROVE  /\ Head(q) # x => Count(Tail(q), x) = Count(q, x)
         /\ Head(q) = x => Count(Tail(q), x) + 1 = Count(q, x)
<1> DEFINE q1 == Tail(q)
           P == Places(q, x)
           P1 == Places(q1, x)
           f == [i \in P1 |-> i + 1]
<1>1. /\ Len(q) \in Nat \ {0} /\ Len(q1) = Len(q) - 1 /\ Head(q) = q[1]
      /\ \A i \in 1 .. Len(q) - 1 : q1[i] = q[i + 1]
  OBVIOUS
<1>2. IsFiniteSet(P) /\ IsFiniteSet(P1)
  BY <1>1, PlacesFinite
<1> HIDE DEF q1
<1>3. f \in Bijection(P1, P \ {1})
  <2>1. \A i \in P1 : i \in Nat /\ i + 1 \in P \ {1}
    BY <1>1 DEF Places
  <2>2. \A i \in P \ {1} : i - 1 \in P1 /\ i = (i - 1) + 1
    <3> SUFFICES ASSUME NEW i \in P \ {1} PROVE i - 1 \in P1 /\ i = (i - 1) + 1
      OBVIOUS
    <3>1. i \in 2 .. Len(q) /\ q[i] = x
      BY <1>1 DEF Places
    <3>2. i - 1 \in 1 .. Len(q1) /\ i = (i - 1) + 1
      BY <1>1, <3>1
    <3> QED
      BY <1>1, <3>1, <3>2 DEF Places
  <2>3. \A i, j \in P1 : i + 1 = j + 1 => i = j
    BY <2>1
  <2>4. f \in [P1 -> P \ {1}] /\ \A i, j \in P1 : f[i] = f[j] => i = j
    BY <2>1, <2>3
  <2>5. \A j \in P \ {1} : \E i \in P1 : f[i] = j
    BY <2>2
  <2> QED
    BY <2>4, <2>5, Fun_IsBij
<1>4. Cardinality(P1) = Cardinality(P \ {1})
  BY <1>2, <1>3, FS_Bijection DEF ExistsBijection
<1>5. Head(q) # x => P \ {1} = P
  BY <1>1 DEF Places
<1>6. Head(q) = x => Cardinality(P \ {1}) + 1 = Cardinality(P)
  <2>1. Head(q) = x => 1 \in P
    BY <1>1 DEF Places
  <2>2. Cardinality(P) \in Nat
    BY <1>2, FS_CardinalityType
  <2>3. Head(q) = x => Cardinality(P \ {1}) = Cardinality(P) - 1
    BY <1>2, <2>1, FS_RemoveElement
  <2> HIDE DEF P
  <2> QED
    BY <2>2, <2>3
<1>7. Count(q, x) = Cardinality(P) /\ Count(q1, x) = Cardinality(P1)
  BY DEF Count
<1> HIDE DEF P, P1
<1>8. Head(q) # x => Count(q1, x) = Count(q, x)
  BY <1>4, <1>5, <1>7
<1>9. Head(q) = x => Count(q1, x) + 1 = Count(q, x)
  BY <1>4, <1>6, <1>7
<1> QED
  BY <1>8, <1>9 DEF q1

(* One worker more or less between its end marker and its request.         *)
LEMMA SignalCount ==
  ASSUME TypeOK
  PROVE  IsFiniteSet(Signalling) /\ Cardinality(Signalling) \in Nat
<1>1. IsFiniteSet(Workers)
  BY ConstantTypes, FS_Interval DEF Workers
<1>2. Signalling \subseteq Workers
  BY DEF Signalling
<1>3. IsFiniteSet(Signalling)
  BY <1>1, <1>2, FS_Subset
<1> QED
  BY <1>3, FS_CardinalityType

LEMMA SignalStep ==
  ASSUME TypeOK, NEW w \in Workers, NEW x, pc' = [pc EXCEPT ![w] = x]
  PROVE  /\ (pc[w] = "signal" <=> x = "signal") =>
              Cardinality(Signalling') = Cardinality(Signalling)
         /\ pc[w] # "signal" /\ x = "signal" =>
              Cardinality(Signalling') = Cardinality(Signalling) + 1
         /\ pc[w] = "signal" /\ x # "signal" =>
              Cardinality(Signalling') + 1 = Cardinality(Signalling)
         /\ Cardinality(Signalling') \in Nat
<1>1. pc'[w] = x /\ \A u \in Workers \ {w} : pc'[u] = pc[u]
  BY DEF TypeOK
<1>2. (pc[w] = "signal" <=> x = "signal") => Signalling' = Signalling
  BY <1>1 DEF Signalling
<1>3. pc[w] # "signal" /\ x = "signal" =>
        Cardinality(Signalling') = Cardinality(Signalling) + 1
  <2> SUFFICES ASSUME pc[w] # "signal", x = "signal"
               PROVE  Cardinality(Signalling') = Cardinality(Signalling) + 1
    OBVIOUS
  <2>1. Signalling' = Signalling \cup {w} /\ w \notin Signalling
    BY <1>1 DEF Signalling
  <2> QED
    BY <2>1, SignalCount, FS_AddElement
<1>4. pc[w] = "signal" /\ x # "signal" =>
        Cardinality(Signalling') + 1 = Cardinality(Signalling)
  <2> SUFFICES ASSUME pc[w] = "signal", x # "signal"
               PROVE  Cardinality(Signalling') + 1 = Cardinality(Signalling)
    OBVIOUS
  <2>1. Signalling' = Signalling \ {w} /\ w \in Signalling
    BY <1>1 DEF Signalling
  <2>2. Cardinality(Signalling \ {w}) = Cardinality(Signalling) - 1
    BY <2>1, SignalCount, FS_RemoveElement
  <2> QED
    BY <2>1, <2>2, SignalCount
<1>5. Cardinality(Signalling') \in Nat
  <2>1. IsFiniteSet(Workers)
    BY ConstantTypes, FS_Interval DEF Workers
  <2>2. Signalling' \subseteq Workers
    BY DEF Signalling
  <2> QED
    BY <2>1, <2>2, FS_Subset, FS_CardinalityType
<1> QED
  BY <1>2, <1>3, <1>4, <1>5

------------------------------------------------------------------------------
LEMMA ServerInit == Init => ServerInv
<1> SUFFICES ASSUME Init PROVE ServerInv
  OBVIOUS
<1>1. TypeOK
  BY RInit DEF RInv
<1>2. AskedInv
  BY ConstantTypes DEF Init, AskedInv
<1>3. ASSUME NEW r \in Modules PROVE Served(r)
  <2>1. PICK failed \in SUBSET MayFail : InitRadiators(failed)
    BY DEF Init
  <2>2. data_queue[r] = <<>> \/ data_queue[r] = <<Error>>
    BY <2>1 DEF InitRadiators, InitErrors
  <2>3. /\ Len(data_queue[r]) \in Nat
        /\ \A i \in 1 .. Len(data_queue[r]) : data_queue[r][i] = Error
    BY <2>2
  <2>4. Count(data_queue[r], EOF) = 0
    BY <2>3, CountTypes DEF EOF, Error
  <2>5. Count(keys, "digest") \in Nat /\ Cardinality(Signalling) \in Nat
    BY <1>1, CountTypes, SignalCount DEF Init
  <2>6. main = "idle" /\ Markers(r) = 0
    BY <2>4 DEF Init, Markers
  <2>7. Markers(r) <= ToCome
    BY <2>5, <2>6 DEF ToCome
  <2> QED
    BY <2>7 DEF Init, Served
<1> QED
  BY <1>2, <1>3 DEF ServerInv

LEMMA AskedStep == RInv /\ AskedInv /\ [Next]_vars => AskedInv'
<1> SUFFICES ASSUME RInv, AskedInv, [Next]_vars PROVE AskedInv'
  OBVIOUS
<1>1. DOMAIN pc = Workers /\ DOMAIN asked = Workers
  BY DEF RInv, TypeOK
<1>2. CASE UNCHANGED vars
  BY <1>2 DEF AskedInv, vars, vim, work
<1>3. ASSUME NEW r \in Modules, Radiate(r) PROVE AskedInv'
  BY <1>1, <1>3, ConstantTypes DEF Radiate, Goto, AskedInv
<1>4. CASE RadiateUnknown \/ ManualDigest \/ StartServer
  BY <1>4 DEF RadiateUnknown, ManualDigest, StartServer, AskedInv, work
<1>5. CASE MainStep
  BY <1>5, MainEffect DEF TakeKeys, AskedInv, session, work
<1>6. ASSUME NEW w \in Workers, WorkerStep(w) \/ ErrorThread(w) PROVE AskedInv'
  BY <1>1, <1>6, WorkerEffect, ConstantTypes DEF AskedInv
<1> QED
  BY <1>2, <1>3, <1>4, <1>5, <1>6 DEF Next, User

(* When all files are of one type so far, they were before, and their      *)
(* workers run for its radiator and with the server.                       *)
LEMMA TypeStep ==
  ASSUME RInv, AskedInv, ServerAtStart, [Next]_vars, NEW r \in Modules,
         OfType(r)', OfType(r) => Served(r)
  PROVE  /\ OfType(r) /\ Served(r)
         /\ current' \in {None, r}
         /\ \A w \in Workers :
              /\ routine'[w] \in {None, r} /\ ths'[w] \in {None, r}
              /\ pc'[w] # "none" => interface'[r] = "server"
<1> DEFINE Part ==
             /\ current' \in {None, r}
             /\ \A w \in Workers :
                  /\ routine'[w] \in {None, r} /\ ths'[w] \in {None, r}
                  /\ pc'[w] # "none" => interface'[r] = "server"
<1>1. /\ DOMAIN pc = Workers /\ DOMAIN asked = Workers /\ DOMAIN routine = Workers
      /\ DOMAIN ths = Workers /\ DOMAIN interface = Modules
  BY DEF RInv, TypeOK
<1>2. CASE UNCHANGED <<current, routine, ths, pc, interface, asked>>
  <2>1. OfType(r)
    BY <1>2 DEF OfType
  <2>2. Served(r)
    BY <2>1
  <2>3. Part
    BY <1>2, <2>2 DEF Served
  <2> QED
    BY <2>1, <2>2, <2>3
<1>3. ASSUME NEW s \in Modules, Radiate(s) PROVE OfType(r) /\ Served(r) /\ Part
  <2>1. PICK w \in Workers, there \in {"created", "done"} :
          /\ pc[w] = "none" /\ pc' = [pc EXCEPT ![w] = there]
          /\ asked' = [asked EXCEPT ![w] = s]
          /\ g_servername' = (g_servername \/ v_servername)
          /\ current' = s
          /\ interface' = [interface EXCEPT ![s] = Interface(g_servername')]
          /\ UNCHANGED <<routine, ths>>
    BY <1>3 DEF Radiate, Goto
  <2>2. asked[w] = None /\ v_servername
    BY <2>1 DEF AskedInv
  <2>3. s = r
    <3>1. asked'[w] = s
      BY <1>1, <2>1
    <3> QED
      BY <3>1, ConstantTypes DEF OfType
  <2>4. OfType(r)
    BY <1>1, <2>1, <2>2 DEF OfType
  <2>5. Served(r)
    BY <2>4
  <2>6. interface'[r] = "server"
    BY <1>1, <2>1, <2>2, <2>3 DEF Interface
  <2> QED
    BY <2>1, <2>3, <2>4, <2>5, <2>6 DEF Served
<1>4. CASE RadiateUnknown \/ ManualDigest \/ StartServer
  BY <1>2, <1>4 DEF RadiateUnknown, ManualDigest, StartServer, work
<1>5. CASE MainStep
  BY <1>2, <1>5, MainEffect DEF session, work
<1>6. ASSUME NEW w \in Workers, WorkerStep(w) \/ ErrorThread(w)
      PROVE  OfType(r) /\ Served(r) /\ Part
  <2>1. /\ UNCHANGED <<current, interface, asked>>
        /\ pc[w] # "none" /\ pc' = [pc EXCEPT ![w] = pc'[w]]
    BY <1>6, WorkerEffect
  <2>2. OfType(r)
    BY <2>1 DEF OfType
  <2>3. Served(r)
    BY <2>2
  <2>4. \A u \in Workers : /\ routine'[u] \in {routine[u], current}
                           /\ ths'[u] \in {ths[u], current}
    <3>1. CASE LoadRoutine(w) \/ LoadRadiator(w)
      BY <1>1, <3>1 DEF LoadRoutine, LoadRadiator
    <3>2. CASE ~(LoadRoutine(w) \/ LoadRadiator(w))
      <4>1. UNCHANGED <<routine, ths>>
        BY <1>6, <3>2 DEF WorkerStep, Ask, TakeAnswer, AwaitAnswer, AnswerTimeout,
           AskServer, ServerAnswer, Answered, Preamble, EmitCommand, StartStream,
           FailStream, Emit, Finish, CallDigest, ErrorThread, work
      <4> QED
        BY <4>1
    <3> QED
      BY <3>1, <3>2
  <2>5. \A u \in Workers : pc'[u] # "none" => pc[u] # "none"
    BY <1>1, <2>1
  <2>6. Part
    BY <2>1, <2>3, <2>4, <2>5 DEF Served
  <2> QED
    BY <2>2, <2>3, <2>6
<1>7. UNCHANGED vars => UNCHANGED <<current, routine, ths, pc, interface, asked>>
  BY DEF vars, vim, work
<1>8. OfType(r) /\ Served(r) /\ Part
  BY <1>2, <1>3, <1>4, <1>5, <1>6, <1>7 DEF Next, User
<1> QED
  BY <1>8

(* An error thread adds neither an end marker nor a digest.                *)
LEMMA PostErrorCounts ==
  ASSUME TypeOK, NEW r \in Modules, NEW w \in Workers, Output(w) \in Modules,
         PostError(w)
  PROVE  /\ Count(data_queue'[r], EOF) = Count(data_queue[r], EOF)
         /\ Count(keys', "digest") = Count(keys, "digest")
<1>1. CASE interface[Output(w)] = "server"
  <2>1. keys' = Append(keys, "error") /\ data_queue' = data_queue
    BY <1>1 DEF PostError
  <2>2. keys \in Seq({"digest", "error"})
    BY DEF TypeOK
  <2>3. Count(Append(keys, "error"), "digest") = Count(keys, "digest")
    BY <2>2, CountAppend
  <2> QED
    BY <2>1, <2>3
<1>2. CASE interface[Output(w)] # "server"
  <2>1. data_queue' = [data_queue EXCEPT ![Output(w)] = Append(@, Error)] /\ keys' = keys
    BY <1>2 DEF PostError, Queue
  <2>2. data_queue'[r] = data_queue[r] \/ data_queue'[r] = Append(data_queue[r], Error)
    BY <2>1 DEF TypeOK
  <2>3. Error \in Items /\ Error # EOF /\ data_queue[r] \in Seq(Items)
    BY ItemTypes DEF Error, EOF, TypeOK
  <2> QED
    BY <2>1, <2>2, <2>3, CountAppend
<1> QED
  BY <1>1, <1>2

(* Each end marker comes with a digest to come, and each digest takes one  *)
(* away, or finds none in time, unless an exception ends it.               *)
LEMMA BalanceStep ==
  ASSUME RInv, AskedInv, [Next]_vars, NEW r \in Modules, Served(r), ~raised'
  PROVE  Markers(r)' <= ToCome'
<1> DEFINE E == Count(data_queue[r], EOF)
           E1 == Count(data_queue'[r], EOF)
           K == Count(keys, "digest")
           K1 == Count(keys', "digest")
           S == Cardinality(Signalling)
           S1 == Cardinality(Signalling')
           Asleep(m) == IF m = "asleep" THEN 1 ELSE 0
           Runs(m) == IF m \in {"digest", "asleep"} THEN 1 ELSE 0
<1> USE DEF RInv
<1>1. /\ data_queue \in [Modules -> Seq(Items)] /\ keys \in Seq({"digest", "error"})
      /\ E \in Nat /\ K \in Nat /\ S \in Nat
  <2>1. data_queue \in [Modules -> Seq(Items)] /\ keys \in Seq({"digest", "error"})
    BY DEF TypeOK
  <2>2. Len(data_queue[r]) \in Nat /\ Len(keys) \in Nat
    BY <2>1
  <2> QED
    BY <2>1, <2>2, CountTypes, SignalCount
<1>2. E + Asleep(main) <= K + S + Runs(main)
  BY RaisedBefore DEF Served, Markers, ToCome
<1> SUFFICES E1 + Asleep(main') <= K1 + S1 + Runs(main')
  BY DEF Markers, ToCome
<1>3. UNCHANGED pc => S1 = S
  BY DEF Signalling
<1>4. UNCHANGED data_queue => E1 = E
  OBVIOUS
<1>5. UNCHANGED keys => K1 = K
  OBVIOUS
<1> HIDE DEF E, E1, K, K1, S, S1
<1>6. CASE UNCHANGED vars
  BY <1>2, <1>3, <1>4, <1>5, <1>6 DEF vars
<1>7. ASSUME NEW s \in Modules, Radiate(s)
      PROVE  E1 + Asleep(main') <= K1 + S1 + Runs(main')
  <2>1. PICK w \in Workers, there \in {"created", "done"} :
          pc[w] = "none" /\ pc' = [pc EXCEPT ![w] = there]
    BY <1>7 DEF Radiate, Goto
  <2>2. S1 = S
    BY <2>1, SignalStep DEF S, S1
  <2>3. UNCHANGED <<data_queue, keys>> /\ main = "idle" /\ main' # "asleep"
    BY <1>7 DEF Radiate, StartDigest
  <2> QED
    BY <1>1, <1>2, <1>4, <1>5, <2>2, <2>3
<1>8. CASE RadiateUnknown \/ ManualDigest \/ StartServer
  <2>1. UNCHANGED <<data_queue, keys, pc>> /\ main = "idle" /\ main' # "asleep"
    BY <1>8 DEF RadiateUnknown, ManualDigest, StartServer, StartDigest, work
  <2> QED
    BY <1>1, <1>2, <1>3, <1>4, <1>5, <2>1
<1>9. CASE MainStep
  <2>1. S1 = S
    BY <1>3, <1>9, MainEffect
  <2>2. CASE TakeKeys
    <3>1. /\ main = "idle" /\ keys # <<>> /\ keys' = Tail(keys) /\ E1 = E
          /\ UNCHANGED current /\ current # None
      BY <1>4, <2>2 DEF TakeKeys, vim, AskedInv
    <3>2. CASE Head(keys) = "digest"
      <4>1. main' = "digest"
        BY <2>2, <3>1, <3>2 DEF TakeKeys, StartDigest
      <4>2. K1 + 1 = K
        BY <1>1, <3>1, <3>2, CountTail DEF K, K1
      <4>3. K1 \in Nat
        BY <1>1, <3>1, CountTypes DEF K1
      <4> QED
        BY <1>1, <1>2, <2>1, <3>1, <4>1, <4>2, <4>3
    <3>3. CASE Head(keys) # "digest"
      <4>1. main' = main
        BY <2>2, <3>3 DEF TakeKeys
      <4>2. K1 = K
        BY <1>1, <3>1, <3>3, CountTail DEF K, K1
      <4> QED
        BY <1>2, <2>1, <3>1, <4>1, <4>2
    <3> QED
      BY <3>2, <3>3
  <2>3. ASSUME NEW type, TakeItem(type)
        PROVE  /\ K1 = K /\ main \in {"digest", "asleep"} /\ E1 \in Nat
               /\ type # "eof" => E1 = E
               /\ type = "eof" => E1 + 1 = E
    <3>1. /\ main \in {"digest", "asleep"} /\ current \in Modules
          /\ data_queue[current] # <<>> /\ Head(data_queue[current]).type = type
          /\ data_queue' = [data_queue EXCEPT ![current] = Tail(@)] /\ keys' = keys
      BY <2>3, TakeItemTypes DEF TakeItem
    <3>2. current = r
      BY <3>1, ConstantTypes DEF Served
    <3>3. data_queue'[r] = Tail(data_queue[r]) /\ data_queue[r] \in Seq(Items)
      BY <1>1, <3>1, <3>2
    <3>4. Head(data_queue[r]) = EOF <=> type = "eof"
      BY <3>1, <3>2, <3>3, ItemTypes DEF EOF, Items, Error, Command, Query
    <3>5. E1 \in Nat
      BY <3>1, <3>2, <3>3, CountTypes DEF E1
    <3> QED
      BY <1>5, <3>1, <3>2, <3>3, <3>4, <3>5, CountTail DEF E, E1
  <2>4. CASE NextEOF
    <3>1. main' = "idle" /\ TakeItem("eof")
      BY <2>4 DEF NextEOF
    <3> QED
      BY <1>1, <1>2, <2>1, <2>3, <3>1
  <2>5. CASE NextCommand \/ NextQuery \/ NextError
    <3>1. main' = "digest" /\ \E type : type # "eof" /\ TakeItem(type)
      BY <2>5 DEF NextCommand, NextQuery, NextError, GoesOn, Raises
    <3>2. E1 = E /\ K1 = K /\ main \in {"digest", "asleep"}
      BY <2>3, <3>1
    <3> QED
      BY <1>1, <1>2, <2>1, <3>1, <3>2
  <2>6. CASE NextSleep
    <3>1. main = "digest" /\ main' = "asleep" /\ K1 = K /\ E1 = E
      BY <1>4, <1>5, <2>6 DEF NextSleep
    <3>2. current = r
      BY <3>1, ConstantTypes DEF Served, WorkInv
    <3>3. E = 0
      BY <2>6, <3>2, CountTypes DEF NextSleep, E
    <3> QED
      BY <1>1, <2>1, <3>1, <3>3
  <2>7. CASE NextTimeout
    <3>1. main = "asleep" /\ main' = "idle" /\ K1 = K /\ E1 = E
      BY <1>4, <1>5, <2>7 DEF NextTimeout
    <3> QED
      BY <1>1, <1>2, <2>1, <3>1
  <2>8. ~NextQueryRaises
    BY DEF NextQueryRaises, Raises
  <2> QED
    BY <1>9, <2>2, <2>4, <2>5, <2>6, <2>7, <2>8 DEF MainStep
<1>10. ASSUME NEW w \in Workers, WorkerStep(w) \/ ErrorThread(w)
       PROVE  E1 + Asleep(main') <= K1 + S1 + Runs(main')
  <2>1. /\ main' = main /\ pc[w] # "none" /\ pc' = [pc EXCEPT ![w] = pc'[w]]
    BY <1>10, WorkerEffect
  <2>2. (pc[w] = "signal" <=> pc'[w] = "signal") => S1 = S
    BY <2>1, SignalStep DEF S, S1
  <2>3. ASSUME NEW item \in Items, item # EOF, NEW s,
               data_queue' = [data_queue EXCEPT ![s] = Append(@, item)]
        PROVE  E1 = E
    <3>1. \/ data_queue'[r] = data_queue[r]
          \/ data_queue'[r] = Append(data_queue[r], item)
      BY <1>1, <2>3
    <3> QED
      BY <1>1, <2>3, <3>1, CountAppend DEF E, E1
  <2>4. CASE \/ LoadRoutine(w) \/ LoadRadiator(w) \/ TakeAnswer(w) \/ AwaitAnswer(w)
             \/ AnswerTimeout(w) \/ AskServer(w) \/ ServerAnswer(w) \/ StartStream(w)
    <3>1. UNCHANGED <<data_queue, keys>>
      BY <2>4 DEF LoadRoutine, LoadRadiator, TakeAnswer, AwaitAnswer, AnswerTimeout,
         AskServer, ServerAnswer, Answered, StartStream
    <3>2. pc[w] # "signal" /\ pc'[w] # "signal"
      BY <2>4 DEF LoadRoutine, LoadRadiator, TakeAnswer, AwaitAnswer, AnswerTimeout,
         AskServer, ServerAnswer, Answered, StartStream, Goto, TypeOK
    <3> QED
      BY <1>2, <1>4, <1>5, <2>1, <2>2, <3>1, <3>2
  <2>5. CASE Ask(w)
    <3>1. K1 = K /\ pc[w] # "signal" /\ pc'[w] # "signal"
      BY <1>5, <2>5 DEF Ask, Goto, TypeOK
    <3>2. E1 = E
      <4>1. data_queue' = [data_queue EXCEPT ![ths[w]] =
                             Append(@, Query(Variable(w)))]
        BY <2>5 DEF Ask
      <4>2. /\ routine[w] \in Modules /\ Len(answers[w]) \in Nat
            /\ Len(answers[w]) < Queries(routine[w])
        BY <2>5 DEF Ask, Goto, TypeOK, WorkInv, Knows
      <4>3. Variable(w) \in Modules \X {1, 2}
        BY <4>2 DEF Queries, Variable
      <4> QED
        BY <2>3, <4>1, <4>3, ItemTypes DEF Query, EOF
    <3> QED
      BY <1>2, <2>1, <2>2, <3>1, <3>2
  <2>6. CASE Preamble(w) \/ Emit(w)
    <3>1. pc[w] # "signal" /\ pc'[w] # "signal"
      BY <2>6 DEF Preamble, Emit, Goto, TypeOK
    <3>2. Command(w, emitted[w] + 1) # EOF
      BY DEF Command, EOF
    <3>3. E1 = E /\ keys' = keys
      BY <2>3, <2>6, <3>2, EmitEffect
    <3> QED
      BY <1>2, <1>5, <2>1, <2>2, <3>1, <3>3
  <2>7. CASE FailStream(w)
    <3>1. pc[w] = "start" /\ pc'[w] # "signal"
      BY <2>7 DEF FailStream, Goto, TypeOK
    <3>2. E1 = E /\ K1 = K
      <4>1. Output(w) \in Modules
        BY <3>1, OutputModule DEF WorkInv, Knows
      <4>2. UNCHANGED <<data_queue, keys>> \/ PostError(w)
        BY <2>7 DEF FailStream
      <4> QED
        BY <1>4, <1>5, <4>1, <4>2, PostErrorCounts DEF E, E1, K, K1
    <3> QED
      BY <1>2, <2>1, <2>2, <3>1, <3>2
  <2>8. CASE ErrorThread(w)
    <3>1. pc' = pc /\ stderr[w] > 0 /\ PostError(w)
      BY <2>8 DEF ErrorThread
    <3>2. Output(w) \in Modules
      BY <3>1, OutputModule DEF WorkInv, Knows
    <3>3. E1 = E /\ K1 = K
      BY <3>1, <3>2, PostErrorCounts DEF E, E1, K, K1
    <3> QED
      BY <1>2, <1>3, <2>1, <3>1, <3>3
  <2>9. CASE Finish(w)
    <3>1. routine[w] \in Modules /\ ths[w] \in Modules
      BY <2>9 DEF Finish, Goto, WorkInv, Knows
    <3>2. Output(w) = r /\ interface[r] = "server"
      BY <2>1, <3>1, ConstantTypes DEF Served, Output
    <3>3. /\ pc[w] # "signal" /\ pc'[w] = "signal" /\ keys' = keys
          /\ data_queue'[r] = Append(data_queue[r], EOF)
      BY <2>9, <3>2 DEF Finish, Goto, Queue, TypeOK
    <3>4. S1 = S + 1
      BY <2>1, <3>3, SignalStep DEF S, S1
    <3>5. E1 = E + 1
      BY <1>1, <3>3, CountAppend, ItemTypes DEF E, E1
    <3> QED
      BY <1>1, <1>2, <1>5, <2>1, <3>3, <3>4, <3>5
  <2>10. CASE CallDigest(w)
    <3>1. /\ pc[w] = "signal" /\ pc'[w] # "signal" /\ UNCHANGED data_queue
          /\ keys' = Append(keys, "digest")
      BY <2>10 DEF CallDigest, Goto, TypeOK
    <3>2. S1 + 1 = S /\ S1 \in Nat
      BY <2>1, <3>1, SignalStep DEF S, S1
    <3>3. K1 = K + 1
      BY <1>1, <3>1, CountAppend DEF K, K1
    <3> QED
      BY <1>1, <1>2, <1>4, <2>1, <3>1, <3>2, <3>3
  <2> QED
    BY <1>10, <2>4, <2>5, <2>6, <2>7, <2>8, <2>9, <2>10 DEF WorkerStep
<1> QED
  BY <1>6, <1>7, <1>8, <1>9, <1>10 DEF Next, User

LEMMA ServerStep == RInv /\ ServerInv /\ [Next]_vars => ServerInv'
<1> SUFFICES ASSUME RInv, ServerInv, [Next]_vars PROVE ServerInv'
  OBVIOUS
<1>1. AskedInv /\ AskedInv'
  BY AskedStep DEF ServerInv
<1>2. ASSUME ServerAtStart, NEW r \in Modules, OfType(r)' PROVE Served(r)'
  <2>1. OfType(r) => Served(r)
    BY <1>2 DEF ServerInv
  <2>2. /\ Served(r) /\ current' \in {None, r}
        /\ \A w \in Workers :
             /\ routine'[w] \in {None, r} /\ ths'[w] \in {None, r}
             /\ pc'[w] # "none" => interface'[r] = "server"
    BY <1>1, <1>2, <2>1, TypeStep
  <2>3. ~raised' => Markers(r)' <= ToCome'
    BY <1>1, <2>2, BalanceStep
  <2> QED
    BY <2>2, <2>3 DEF Served
<1> QED
  BY <1>1, <1>2 DEF ServerInv

(* The drain of ServerDrains: no digest is to come, so no end marker is    *)
(* queued, so no command of a worker that is done.                         *)
LEMMA Drained == RInv /\ ConserveInv /\ MarkedInv /\ ServerInv => ServerDrains
<1> SUFFICES ASSUME RInv, ConserveInv, MarkedInv, ServerInv,
                    ServerAtStart, ~raised, main = "idle",
                    \A i \in 1 .. Len(keys) : keys[i] # "digest",
                    \A w \in Workers :
                      pc[w] \in {"none", "done"} /\ asked[w] \in {None, current},
                    NEW w \in Workers
             PROVE  Len(executed[w]) = emitted[w]
  BY DEF ServerDrains
<1> USE DEF RInv
<1>1. Len(executed[w]) <= emitted[w] /\ Len(executed[w]) \in Nat /\ emitted[w] \in Nat
  BY ConserveTypes DEF ConserveInv, Conserved
<1>2. CASE emitted[w] = 0
  BY <1>1, <1>2
<1>3. CASE emitted[w] > 0
  <2>1. pc[w] = "done" /\ current \in Modules
    BY <1>3, ConstantTypes DEF WorkInv, Knows
  <2>2. Served(current)
    BY <2>1 DEF ServerInv, OfType
  <2>3. Output(w) = current
    BY <1>3, <2>2, ConstantTypes DEF WorkInv, Knows, Served, Output
  <2>4. Count(data_queue[current], EOF) = 0
    <3>1. /\ Len(keys) \in Nat
          /\ Len(data_queue[current]) \in Nat
      BY <2>1 DEF TypeOK
    <3>2. Count(keys, "digest") = 0 /\ Count(data_queue[current], EOF) \in Nat
      BY <3>1, CountTypes
    <3>3. Signalling = {}
      BY DEF Signalling
    <3>4. Cardinality(Signalling) = 0
      BY <3>3, FS_EmptySet
    <3> QED
      BY <2>2, <3>2, <3>4 DEF Served, Markers, ToCome
  <2>5. \A i \in 1 .. Len(data_queue[current]) : data_queue[current][i] # EOF
    <3>1. Len(data_queue[current]) \in Nat
      BY <2>1 DEF TypeOK
    <3> QED
      BY <2>4, <3>1, CountTypes
  <2>6. Of(data_queue[current], w) = {}
    <3> SUFFICES ASSUME NEW i \in Of(data_queue[current], w) PROVE FALSE
      OBVIOUS
    <3>1. \E j \in i .. Len(data_queue[current]) : data_queue[current][j] = EOF
      BY <2>1 DEF Of, MarkedInv, Marked
    <3> QED
      BY <2>5, <3>1 DEF Of
  <2>7. InOrder(data_queue[current], w, Len(executed[w]), emitted[w])
    BY <1>3, <2>3 DEF ConserveInv, Conserved
  <2>8. Len(executed[w]) + 1 .. emitted[w] = {}
    BY <2>6, <2>7 DEF InOrder
  <2> QED
    BY <1>1, <2>8
<1> QED
  BY <1>1, <1>2, <1>3

(* With a server, and for files of one type, nothing is left to be         *)
(* digested when the workers of radiation.c are done and Vim has typed     *)
(* what they sent: each has queued its end marker before it asks Vim to    *)
(* digest, and asks for a digest of its own.  Only an exception in the     *)
(* Python client uses up a digest without its end marker.                  *)
THEOREM ServerLeavesNothing == Spec => []ServerDrains
BY QueuesInv, SessionInv, ServerInit, ServerStep, Drained, PTL DEF Spec
==============================================================================
