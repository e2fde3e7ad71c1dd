----------------------- MODULE SubprocessDeadlockProofs -----------------------
(***************************************************************************)
(* Proof that, unless a fork fails, the processes and the threads that     *)
(* read from them never all wait for each other, for any number of         *)
(* workers, any amount of output and pipes of any capacity.                *)
(***************************************************************************)
EXTENDS SubprocessProofs, FiniteSetTheorems, WellFoundedInduction

(* The error threads: what they have begun and what they have ended, and   *)
(* that a worker closes its compiler's output after it has asked Vim to    *)
(* digest.                                                                 *)
ThreadInv ==
  \A w \in Workers :
    /\ errors[w] = "none" =>
         pc[Call(w, "compile")] \in {"idle", "second", "fork", "close", "failed"}
    /\ errors[w] = "gone" => child[Call(w, "compile")] # "runs"
    /\ errors[w] = "calls" =>
         /\ w \in server /\ chunks[w] > 0
         /\ pc[Error(w, chunks[w])] \notin {"done", "failed"}
    /\ \A n \in 1 .. MaxErrors : n > chunks[w] => pc[Error(w, n)] = "idle"
    /\ w \in server /\ pc[Call(w, "compile")] = "done" =>
         pc[Call(w, "digest")] = "done"

(* Only a running child has descriptors, those of calls that have begun,   *)
(* and a vim client never blocks on its pipe.                              *)
HeldInv ==
  \A c \in Calls :
    /\ child[c] # "runs" => held[c] = {}
    /\ \A p \in held[c] : pc[p[1]] # "idle"
    /\ Kind(c) # "compile" => \A p \in PipesOf(c) : data[p] + left[p] <= 1

(* The compilers can be numbered in the order of their forks: one that has *)
(* open a pipe of another's error thread was forked after that other one.  *)
Ordered(age) ==
  \A w, u \in Workers : \A n \in 1 .. MaxErrors :
    <<Error(u, n), "out">> \in held[Call(w, "compile")] => age[u] < age[w]
AgeInv ==
  \E age \in [Workers -> Nat], top \in Nat :
    Ordered(age) /\ \A w \in Workers : age[w] < top

WaitInv == PInv /\ ThreadInv /\ HeldInv /\ AgeInv

------------------------------------------------------------------------------
(* A set of numbers with a bound has a largest one: the n for which no     *)
(* other n .. top is smaller.                                              *)
LEMMA HasGreatest ==
  ASSUME NEW T, NEW top \in Nat, T \subseteq Nat, T # {}, \A n \in T : n < top
  PROVE  \E n \in T : \A m \in T : m <= n
<1> DEFINE F == {n .. top : n \in T}
<1>1. F \subseteq FiniteSubsetsOf(Nat)
  <2> SUFFICES ASSUME NEW n \in T PROVE n .. top \in FiniteSubsetsOf(Nat)
    OBVIOUS
  <2>1. IsFiniteSet(n .. top) /\ n .. top \subseteq Nat
    BY FS_Interval
  <2> QED
    BY <2>1 DEF FiniteSubsetsOf
<1>2. F # {}
  OBVIOUS
<1>3. IsWellFoundedOn(StrictSubsetOrdering(Nat), FiniteSubsetsOf(Nat))
  BY FS_StrictSubsetOrderingWellFounded
<1>4. PICK X \in F : \A Y \in F : ~ (<<Y, X>> \in StrictSubsetOrdering(Nat))
  BY <1>1, <1>2, <1>3, WFMin
<1>5. PICK n \in T : X = n .. top
  OBVIOUS
<1>6. ASSUME NEW m \in T, n < m PROVE FALSE
  <2>1. m .. top \in F
    OBVIOUS
  <2>2. m .. top \subseteq n .. top /\ n \in n .. top /\ n \notin m .. top
    BY <1>6
  <2>3. <<m .. top, n .. top>> \in StrictSubsetOrdering(Nat)
    BY <2>2 DEF StrictSubsetOrdering
  <2> QED
    BY <1>4, <1>5, <2>1, <2>3
<1> QED
  BY <1>6

------------------------------------------------------------------------------
(* At the start nothing is forked and all have the same age. *)
LEMMA WaitInit == Init => ThreadInv /\ HeldInv /\ AgeInv
<1> SUFFICES ASSUME Init PROVE ThreadInv /\ HeldInv /\ AgeInv
  OBVIOUS
<1>1. ThreadInv
  BY CallMembers DEF Init, ThreadInv
<1>2. HeldInv
  BY PipesOfCall DEF Init, HeldInv
<1>3. AgeInv
  <2>1. \A w \in Workers : held[Call(w, "compile")] = {}
    BY CallMembers DEF Init
  <2> DEFINE age == [w \in Workers |-> 0]
  <2>2. age \in [Workers -> Nat] /\ Ordered(age) /\ \A w \in Workers : age[w] < 1
    BY <2>1 DEF Ordered
  <2> QED
    BY <2>2 DEF AgeInv
<1> QED
  BY <1>1, <1>2, <1>3

(* A call that has begun never is at its beginning again. *)
LEMMA CallsGoOn ==
  ASSUME PInv, [Next]_vars, NEW c \in Calls, pc[c] # "idle"
  PROVE  pc'[c] # "idle"
<1>1. pc \in [Calls -> {"idle", "second", "fork", "close", "read", "ended",
                       "wait", "failed", "done"}]
  BY DEF PInv, TypeOK
<1>2. ASSUME NEW d \in Calls, CallStep(d) \/ ChildStep(d) PROVE pc'[c] # "idle"
  BY <1>1, <1>2
     DEF CallStep, ChildStep, OpenPipe, PipeFails, OpenSecond, SecondFails, Fork,
         ForkFails, ForkPoint, CloseWrite, ReadOutput, EndOutput, CloseOutput,
         ReadOnce, Wait, Write, Exit, At
<1>3. ASSUME NEW w \in Workers, ErrorStep(w) PROVE pc'[c] # "idle"
  BY <1>3 DEF ErrorStep, ReadError, EndErrors
<1> QED
  BY <1>2, <1>3 DEF Next, Finished, vars

(* The write ends that a child inherits are of calls at their forks.       *)
LEMMA InheritedPipes ==
  ASSUME PInv, NEW p \in Inherited
  PROVE  /\ p \in Pipes /\ p[1] \in Calls
         /\ \/ pc[p[1]] \in {"second", "fork", "close"}
            \/ pc[p[1]] = "failed" /\ Kind(p[1]) = "compile"
<1>1. p \in Pipes /\ <<p, "w">> \in open
  BY DEF Inherited
<1>2. p[1] \in Calls
  BY <1>1, CallOfPipe
<1> QED
  BY <1>1, <1>2 DEF PInv, DescriptorsAccounted, Leaked

(* A vim client writes one chunk, or none, to a pipe that is empty. *)
LEMMA ClientWrites ==
  ASSUME PInv, NEW c \in Calls, Fork(c), Kind(c) # "compile", NEW p \in PipesOf(c)
  PROVE  data'[p] + left'[p] <= 1
<1>1. p \in Pipes /\ p[1] = c /\ p[2] = "out" /\ Kind(c) # "digest"
  BY PipesOfCall, CallTypes
<1>2. PICK n \in {0, 1} : left' = [q \in Pipes |->
        IF q[1] = c THEN [out |-> n, err |-> 0][q[2]] ELSE left[q]]
  <2>1. PICK ok \in BOOLEAN : \E f \in Writes(c, ok) :
          left' = [q \in Pipes |-> IF q[1] = c THEN f[q[2]] ELSE left[q]]
    BY DEF Fork
  <2>2. \A f \in Writes(c, ok) : \E n \in {0, 1} : f = [out |-> n, err |-> 0]
    BY ConstantTypes DEF Writes
  <2> QED
    BY <2>1, <2>2
<1>3. left'[p] = n
  BY <1>1, <1>2
<1>4. child[c] = "none"
  BY <1>1 DEF PInv, PipeInv, Fork, ForkPoint, At
<1>5. data'[p] = 0
  BY <1>1, <1>4 DEF PInv, PipeInv, PipeSound, Fork
<1> QED
  BY <1>3, <1>5

(* Children get their descriptors from their fork and lose them at their   *)
(* end; what a client has written is read, not added to.                   *)
LEMMA NextHeldInv ==
  ASSUME PInv, HeldInv, [Next]_vars
  PROVE  HeldInv'
<1> USE DEF PInv
<1>1. \A c \in Calls : pc[c] # "idle" => pc'[c] # "idle"
  BY CallsGoOn
<1>2. /\ data \in [Pipes -> 0 .. Capacity] /\ left \in [Pipes -> Nat]
      /\ Capacity \in Nat /\ held \in [Calls -> SUBSET Pipes]
      /\ child \in [Calls -> {"none", "runs", "zombie", "reaped"}]
  BY ConstantTypes DEF TypeOK
<1>3. \A p \in Pipes : p[1] \in Calls
  BY CallOfPipe
<1>4. ASSUME NEW c \in Calls, Fork(c) PROVE HeldInv'
  <2>1. ASSUME NEW p \in held'[c] PROVE pc'[p[1]] # "idle"
    BY <1>1, <1>2, <1>4, InheritedPipes DEF Fork
  <2>2. \A d \in Calls \ {c} : \A p \in PipesOf(d) :
          data'[p] = data[p] /\ left'[p] = left[p]
    BY <1>4, PipesOfCall DEF Fork
  <2>3. child'[c] = "runs"
    BY <1>2, <1>4 DEF Fork
  <2>4. \A d \in Calls \ {c} : child'[d] = child[d] /\ held'[d] = held[d]
    BY <1>2, <1>4 DEF Fork
  <2>5. \A d \in Calls \ {c} : \A p \in held[d] : p \in Pipes
    BY <1>2
  <2> QED
    BY <1>1, <1>3, <1>4, <2>1, <2>2, <2>3, <2>4, <2>5, ClientWrites DEF HeldInv
<1>5. ASSUME NEW c \in Calls, Exit(c) PROVE HeldInv'
  BY <1>1, <1>2, <1>3, <1>5 DEF Exit, HeldInv
<1>6. ASSUME NEW c \in Calls, Wait(c) PROVE HeldInv'
  BY <1>1, <1>2, <1>3, <1>6 DEF Wait, Awaited, HeldInv
<1>7. ASSUME NEW p \in Pipes, data[p] > 0, data' = [data EXCEPT ![p] = @ - 1],
             UNCHANGED <<held, left, child>>
      PROVE  HeldInv'
  <2>1. \A q \in Pipes : data'[q] + left'[q] <= data[q] + left[q]
    BY <1>2, <1>7
  <2>2. \A q \in Pipes : /\ data[q] + left[q] \in Nat
                          /\ data'[q] + left'[q] \in Int
    BY <1>2, <1>7
  <2>3. \A q \in Pipes : data[q] + left[q] <= 1 => data'[q] + left'[q] <= 1
    BY <2>1, <2>2
  <2> QED
    BY <1>1, <1>2, <1>3, <1>7, <2>3, PipesOfCall DEF HeldInv
<1>8. ASSUME NEW c \in Calls, Write(c) PROVE HeldInv'
  <2>1. \A q \in Pipes : data'[q] + left'[q] = data[q] + left[q]
    BY <1>2, <1>8, PipesOfCall DEF Write
  <2> QED
    BY <1>1, <1>2, <1>3, <1>8, <2>1, PipesOfCall DEF Write, HeldInv
<1>9. CASE UNCHANGED kernel
  BY <1>1, <1>2, <1>3, <1>9 DEF kernel, HeldInv
<1>10. ASSUME NEW c \in Calls, ReadOutput(c) PROVE HeldInv'
  BY <1>7, <1>10, OutPipe DEF ReadOutput
<1>11. ASSUME NEW c \in Calls, ReadOnce(c) PROVE HeldInv'
  <2>1. CASE UNCHANGED data
    BY <1>9, <1>11, <2>1 DEF ReadOnce, kernel
  <2> QED
    BY <1>7, <1>11, <2>1, OutPipe DEF ReadOnce, At, PlaceInv
<1>12. ASSUME NEW w \in Workers, ReadError(w) PROVE HeldInv'
  BY <1>7, <1>12, StderrPipe DEF ReadError
<1>13. ASSUME NEW c \in Calls, CallStep(c) \/ ChildStep(c) PROVE HeldInv'
  BY <1>4, <1>5, <1>6, <1>8, <1>9, <1>10, <1>11, <1>13
     DEF CallStep, ChildStep, OpenPipe, PipeFails, OpenSecond, SecondFails,
         ForkFails, CloseWrite, EndOutput, CloseOutput
<1>14. ASSUME NEW w \in Workers, ErrorStep(w) PROVE HeldInv'
  BY <1>9, <1>12, <1>14 DEF ErrorStep, EndErrors
<1> QED
  BY <1>9, <1>13, <1>14 DEF Next, Finished, vars

(* An error thread makes a call for each chunk, the last one it has read,  *)
(* and is gone only when its compiler has ended.                           *)
LEMMA NextThreadInv ==
  ASSUME PInv, ThreadInv, [Next]_vars
  PROVE  ThreadInv'
<1> USE DEF PInv
<1>1. ASSUME NEW c \in Calls, OpenPipe(c) PROVE ThreadInv'
  BY <1>1, CallTypes, CallMembers
     DEF OpenPipe, At, kernel, ForkPoint, Ready, PlaceInv, TypeOK, OrderInv,
         ThreadInv
<1>2. ASSUME NEW c \in Calls, PipeFails(c) PROVE ThreadInv'
  BY <1>2, CallTypes, CallMembers
     DEF PipeFails, At, kernel, ForkPoint, Ready, PlaceInv, TypeOK, OrderInv,
         ThreadInv
<1>3. ASSUME NEW c \in Calls, OpenSecond(c) PROVE ThreadInv'
  BY <1>3, CallTypes, CallMembers
     DEF OpenSecond, At, kernel, ForkPoint, Ready, PlaceInv, TypeOK, OrderInv,
         ThreadInv
<1>4. ASSUME NEW c \in Calls, SecondFails(c) PROVE ThreadInv'
  BY <1>4, CallTypes, CallMembers
     DEF SecondFails, At, kernel, ForkPoint, Ready, PlaceInv, TypeOK, OrderInv,
         ThreadInv
<1>5. ASSUME NEW c \in Calls, Fork(c) PROVE ThreadInv'
  BY <1>5, CallTypes, CallMembers
     DEF Fork, At, kernel, ForkPoint, Ready, PlaceInv, TypeOK, OrderInv, ThreadInv
<1>6. ASSUME NEW c \in Calls, ForkFails(c) PROVE ThreadInv'
  <2>1. CASE Kind(c) = "digest"
    <3>1. pc[c] = "idle" /\ pc' = [pc EXCEPT ![c] = "wait"] /\ c = Call(c[1], "digest")
      BY <1>6, <2>1, CallTypes DEF ForkFails, ForkPoint, At
    <3> QED
      BY <1>6, <3>1, CallMembers DEF ForkFails, kernel, TypeOK, ThreadInv
  <2>2. CASE Kind(c) # "digest"
    <3>1. pc[c] = "fork" /\ pc' = [pc EXCEPT ![c] = "close"]
      BY <1>6, <2>2 DEF ForkFails, ForkPoint, At
    <3> QED
      BY <1>6, <3>1, CallMembers DEF ForkFails, kernel, TypeOK, ThreadInv
  <2> QED
    BY <2>1, <2>2
<1>7. ASSUME NEW c \in Calls, CloseWrite(c) PROVE ThreadInv'
  <2>1. pc[c] = "close" /\ pc' = [pc EXCEPT ![c] = "read"]
    BY <1>7 DEF CloseWrite, At
  <2>2. UNCHANGED <<server, chunks, child>>
    BY <1>7 DEF CloseWrite, kernel
  <2>3. CASE Kind(c) = "compile"
    <3>1. c[1] \in Workers /\ c = Call(c[1], "compile")
      BY <2>3, CallTypes
    <3>2. errors' = [errors EXCEPT ![c[1]] = "reads"]
      BY <1>7, <2>3 DEF CloseWrite
    <3> QED
      BY <2>1, <2>2, <2>3, <3>1, <3>2, CallMembers DEF TypeOK, ThreadInv
  <2>4. CASE Kind(c) # "compile"
    <3>1. errors' = errors
      BY <1>7, <2>4 DEF CloseWrite
    <3> QED
      BY <2>1, <2>2, <2>4, <3>1, CallMembers DEF TypeOK, ThreadInv
  <2> QED
    BY <2>3, <2>4
<1>8. ASSUME NEW c \in Calls, ReadOutput(c) PROVE ThreadInv'
  BY <1>8, CallTypes, CallMembers
     DEF ReadOutput, At, kernel, ForkPoint, Ready, PlaceInv, TypeOK, OrderInv,
         ThreadInv
<1>9. ASSUME NEW c \in Calls, EndOutput(c) PROVE ThreadInv'
  BY <1>9, CallTypes, CallMembers
     DEF EndOutput, At, kernel, ForkPoint, Ready, PlaceInv, TypeOK, OrderInv,
         ThreadInv
<1>10. ASSUME NEW c \in Calls, CloseOutput(c) PROVE ThreadInv'
  BY <1>10, CallTypes, CallMembers
     DEF CloseOutput, At, kernel, ForkPoint, Ready, PlaceInv, TypeOK, OrderInv,
         ThreadInv
<1>11. ASSUME NEW c \in Calls, ReadOnce(c) PROVE ThreadInv'
  BY <1>11, CallTypes, CallMembers
     DEF ReadOnce, At, kernel, ForkPoint, Ready, PlaceInv, TypeOK, OrderInv,
         ThreadInv
<1>12. ASSUME NEW c \in Calls, Wait(c) PROVE ThreadInv'
  BY <1>12, CallTypes, CallMembers
     DEF Wait, At, kernel, ForkPoint, Ready, PlaceInv, TypeOK, OrderInv, ThreadInv
<1>13. ASSUME NEW c \in Calls, Write(c) PROVE ThreadInv'
  BY <1>13, CallTypes, CallMembers
     DEF Write, At, kernel, ForkPoint, Ready, PlaceInv, TypeOK, OrderInv, ThreadInv
<1>14. ASSUME NEW c \in Calls, Exit(c) PROVE ThreadInv'
  BY <1>14, CallTypes, CallMembers
     DEF Exit, At, kernel, ForkPoint, Ready, PlaceInv, TypeOK, OrderInv, ThreadInv
<1>15. ASSUME NEW w \in Workers, ReadError(w) PROVE ThreadInv'
  <2>1. /\ chunks' = [chunks EXCEPT ![w] = @ + 1] /\ chunks[w] \in Nat
        /\ chunks'[w] \in 1 .. MaxErrors /\ chunks'[w] > chunks[w]
    BY <1>15, NextTypeOK DEF ReadError, TypeOK
  <2>2. pc[Error(w, chunks'[w])] = "idle"
    BY <2>1 DEF ThreadInv
  <2>3. \A n \in 1 .. MaxErrors : n > chunks'[w] => n > chunks[w]
    BY <2>1
  <2>4. \A u \in Workers \ {w} : errors'[u] = errors[u] /\ chunks'[u] = chunks[u]
    BY <1>15 DEF ReadError, TypeOK
  <2>5. \/ errors'[w] = "reads"
        \/ errors'[w] = "calls" /\ w \in server
    BY <1>15 DEF ReadError, TypeOK
  <2>6. UNCHANGED <<server, pc, child>>
    BY <1>15 DEF ReadError
  <2> QED
    BY <2>1, <2>2, <2>3, <2>4, <2>5, <2>6 DEF ThreadInv
<1>16. ASSUME NEW w \in Workers, EndErrors(w) PROVE ThreadInv'
  <2>1. Stderr(w) \notin held[Call(w, "compile")]
    BY <1>16, CallMembers DEF EndErrors, EndOfFile
  <2>2. child[Call(w, "compile")] # "runs"
    BY <2>1, StderrPipe DEF PipeInv, PipeSound
  <2>3. UNCHANGED <<server, pc, chunks, child>>
    BY <1>16 DEF EndErrors, kernel
  <2>4. errors' = [errors EXCEPT ![w] = "gone"]
    BY <1>16 DEF EndErrors
  <2> QED
    BY <2>2, <2>3, <2>4 DEF TypeOK, ThreadInv
<1>17. CASE UNCHANGED vars
  BY <1>17 DEF vars, kernel, ThreadInv
<1> QED
  BY <1>1, <1>2, <1>3, <1>4, <1>5, <1>6, <1>7, <1>8, <1>9, <1>10, <1>11, <1>12,
     <1>13, <1>14, <1>15, <1>16, <1>17
     DEF Next, CallStep, ChildStep, ErrorStep, Finished

(* A compiler that is forked is the youngest: nobody has open a pipe of    *)
(* its error thread, which has yet to be started.                          *)
LEMMA NextAgeInv ==
  ASSUME PInv, ThreadInv, HeldInv, AgeInv, [Next]_vars
  PROVE  AgeInv'
<1> USE DEF PInv
<1>1. PICK age \in [Workers -> Nat], top \in Nat :
        Ordered(age) /\ \A w \in Workers : age[w] < top
  BY DEF AgeInv
<1>2. ASSUME NEW c \in Calls, Fork(c), Kind(c) = "compile" PROVE AgeInv'
  <2> DEFINE u == c[1]
             age1 == [age EXCEPT ![u] = top]
  <2>1. u \in Workers /\ c = Call(u, "compile")
    BY <1>2, CallTypes
  <2>2. pc[c] = "fork"
    BY <1>2 DEF Fork, ForkPoint, At
  <2>3. errors[u] = "none" /\ \A n \in 1 .. MaxErrors : pc[Error(u, n)] = "idle"
    BY <2>1, <2>2 DEF OrderInv, ThreadInv
  <2>4. ASSUME NEW w \in Workers, NEW v \in Workers, NEW n \in 1 .. MaxErrors,
               <<Error(v, n), "out">> \in held'[Call(w, "compile")]
        PROVE  age1[v] < age1[w]
    <3>1. Error(v, n) \in Calls /\ Kind(Error(v, n)) = "error"
          /\ Call(w, "compile") \in Calls
      BY CallMembers
    <3>2. CASE w = u
      <4>1. <<Error(v, n), "out">> \in Inherited
        BY <1>2, <2>1, <2>4, <3>2 DEF Fork, TypeOK
      <4>2. pc[Error(v, n)] \in {"second", "fork", "close"}
        BY <3>1, <4>1, InheritedPipes
      <4>3. v # u
        BY <2>3, <4>2
      <4> QED
        BY <1>1, <2>1, <3>2, <4>3
    <3>3. CASE w # u
      <4>1. <<Error(v, n), "out">> \in held[Call(w, "compile")]
        BY <1>2, <2>1, <2>4, <3>1, <3>3, CallMembers DEF Fork, TypeOK
      <4>2. v # u
        BY <2>3, <3>1, <4>1 DEF HeldInv
      <4> QED
        BY <1>1, <3>3, <4>1, <4>2 DEF Ordered
    <3> QED
      BY <3>2, <3>3
  <2>5. /\ age1 \in [Workers -> Nat] /\ top + 1 \in Nat
        /\ \A w \in Workers : age1[w] < top + 1
    <3>1. \A w \in Workers : age1[w] = (IF w = u THEN top ELSE age[w])
      BY <1>1
    <3>2. \A w \in Workers : age[w] \in Nat /\ age[w] < top
      BY <1>1
    <3>3. age1 \in [Workers -> Nat]
      BY <1>1
    <3> HIDE DEF age1, u
    <3> QED
      BY <3>1, <3>2, <3>3
  <2>6. Ordered(age1)'
    BY <2>4 DEF Ordered
  <2> QED
    BY <2>5, <2>6 DEF AgeInv
<1>3. ASSUME \A w \in Workers : held'[Call(w, "compile")] \subseteq held[Call(w, "compile")]
      PROVE  AgeInv'
  <2>1. Ordered(age)'
    BY <1>1, <1>3 DEF Ordered
  <2> QED
    BY <1>1, <2>1 DEF AgeInv
<1>4. CASE UNCHANGED held
  BY <1>3, <1>4
<1>5. ASSUME NEW c \in Calls, Fork(c), Kind(c) # "compile" PROVE AgeInv'
  BY <1>3, <1>5, CallMembers DEF Fork, TypeOK
<1>6. ASSUME NEW c \in Calls, Exit(c) PROVE AgeInv'
  BY <1>3, <1>6, CallMembers DEF Exit, TypeOK
<1>7. ASSUME NEW c \in Calls, CallStep(c) \/ ChildStep(c) PROVE AgeInv'
  BY <1>2, <1>4, <1>5, <1>6, <1>7
     DEF CallStep, ChildStep, kernel, OpenPipe, PipeFails, OpenSecond, SecondFails,
         ForkFails, CloseWrite, ReadOutput, EndOutput, CloseOutput, ReadOnce, Wait,
         Write
<1>8. ASSUME NEW w \in Workers, ErrorStep(w) PROVE AgeInv'
  BY <1>4, <1>8 DEF ErrorStep, ReadError, EndErrors, kernel
<1> QED
  BY <1>4, <1>7, <1>8 DEF Next, Finished, vars, kernel

(* The inductive invariant. *)
LEMMA WaitingInv == Spec => []WaitInv
<1>1. Init => WaitInv
  BY PInit, WaitInit DEF WaitInv
<1>2. WaitInv /\ [Next]_vars => WaitInv'
  BY NextTypeOK, NextPlaceInv, NextPipeInv, NextStatusInv, NextOrderInv,
     NextCountInv, NextDescriptors, NextEnd, NextThreadInv, NextHeldInv, NextAgeInv
     DEF PInv, WaitInv
<1> QED
  BY <1>1, <1>2, PTL DEF Spec

------------------------------------------------------------------------------
(* Nobody can go on. *)
Stuck ==
  /\ \A c \in Calls : ~CallGoesOn(c) /\ ~ChildGoesOn(c)
  /\ \A w \in Workers : ~ErrorGoesOn(w)

(* A call that waits, waits for its own child. *)
LEMMA WaitsForOwn ==
  ASSUME PInv, Stuck, ~forkFailed, NEW c \in Calls, pc[c] = "wait"
  PROVE  child[c] = "runs"
<1>1. child[c] \in {"runs", "zombie"}
  BY DEF PInv, StatusInv
<1>2. Awaited(c) = {c}
  BY <1>1 DEF Awaited
<1>3. \A d \in Awaited(c) : child[d] # "zombie"
  BY DEF Stuck, CallGoesOn
<1> QED
  BY <1>1, <1>2, <1>3

(* A thread that cannot read waits for a child that has its pipe open. *)
LEMMA WaitsForHolder ==
  ASSUME PInv, HeldInv, NEW p \in Pipes, <<p, "w">> \notin open, ~MayRead(p)
  PROVE  \E d \in Calls : p \in held[d] /\ child[d] = "runs"
<1>1. data[p] = 0
  BY ConstantTypes DEF PInv, TypeOK, MayRead
<1>2. PICK d \in Calls : p \in held[d]
  BY <1>1 DEF MayRead, EndOfFile
<1> QED
  BY <1>2 DEF HeldInv

(* When a call or an error thread reads, Vim has closed the write end. *)
LEMMA CallReads ==
  ASSUME PInv, HeldInv, Stuck, NEW c \in Calls, pc[c] = "read"
  PROVE  \E d \in Calls : <<c, "out">> \in held[d] /\ child[d] = "runs"
<1>1. <<c, "out">> \in Pipes
  BY OutPipe DEF PInv, PlaceInv
<1>2. <<<<c, "out">>, "w">> \notin open
  BY DEF PInv, DescriptorsAccounted, Leaked
<1>3. ~MayRead(<<c, "out">>)
  BY DEF Stuck, CallGoesOn
<1> QED
  BY <1>1, <1>2, <1>3, WaitsForHolder

LEMMA ThreadReads ==
  ASSUME PInv, HeldInv, Stuck, NEW w \in Workers, errors[w] = "reads"
  PROVE  data[Stderr(w)] = 0 /\ \E d \in Calls : child[d] = "runs"
<1>1. Stderr(w) \in Pipes /\ Stderr(w)[1] = Call(w, "compile") /\ Stderr(w)[2] = "err"
  BY StderrPipe
<1>2. <<Stderr(w), "w">> \notin open
  BY <1>1 DEF PInv, DescriptorsAccounted, Leaked, OrderInv
<1>3. ~MayRead(Stderr(w))
  BY DEF Stuck, ErrorGoesOn
<1>4. data[Stderr(w)] = 0
  BY <1>1, <1>3, ConstantTypes DEF MayRead, PInv, TypeOK
<1> QED
  BY <1>1, <1>2, <1>3, <1>4, WaitsForHolder

(* A child that cannot go on is a compiler whose stderr is full. *)
LEMMA BlockedChild ==
  ASSUME PInv, HeldInv, Stuck, NEW c \in Calls, child[c] = "runs"
  PROVE  Kind(c) = "compile" /\ pc[c] = "read" /\ data[Stderr(c[1])] > 0
<1>1. /\ \A p \in PipesOf(c) : p \in Pipes /\ left[p] \in Nat /\ data[p] \in Nat
      /\ Capacity \in Nat \ {0}
  BY PipesOfCall, ConstantTypes DEF PInv, TypeOK
<1>2. PICK p \in PipesOf(c) : left[p] # 0
  BY DEF Stuck, ChildGoesOn
<1>3. data[p] >= Capacity
  BY <1>1, <1>2 DEF Stuck, ChildGoesOn
<1>4. Kind(c) = "compile"
  BY <1>1, <1>2, <1>3 DEF HeldInv
<1>5. c = Call(c[1], "compile") /\ c[1] \in Workers
  BY <1>4, CallTypes
<1>6. pc[c] = "read"
  <2>1. pc[c] \notin {"idle", "second", "fork", "failed", "wait"}
    BY <1>4 DEF PInv, PipeInv, PlaceInv
  <2>2. pc[c] \notin {"ended", "done"}
    BY <1>5 DEF PInv, EndMeansAllRead
  <2>3. pc[c] # "close"
    BY DEF Stuck, CallGoesOn
  <2> QED
    BY <2>1, <2>2, <2>3 DEF PInv, TypeOK
<1>7. data[<<c, "out">>] = 0
  <2>1. <<c, "out">> \in PipesOf(c)
    BY <1>4, PipesOfCall
  <2> QED
    BY <1>1, <1>6, <2>1 DEF Stuck, CallGoesOn, MayRead
<1>8. p = Stderr(c[1])
  BY <1>1, <1>3, <1>4, <1>5, <1>7, PipesOfCall DEF Stderr
<1> QED
  BY <1>1, <1>3, <1>4, <1>6, <1>8

(* An error thread in a call waits for a running compiler that has the     *)
(* pipe of this call open.                                                 *)
LEMMA BlockedThread ==
  ASSUME PInv, ThreadInv, HeldInv, Stuck, ~forkFailed,
         NEW w \in Workers, errors[w] = "calls"
  PROVE  \E u \in Workers, n \in 1 .. MaxErrors :
           /\ child[Call(u, "compile")] = "runs"
           /\ <<Error(w, n), "out">> \in held[Call(u, "compile")]
<1> DEFINE n == chunks[w]
           e == Error(w, n)
<1>1. n \in 1 .. MaxErrors /\ w \in server /\ pc[e] \notin {"done", "failed"}
  BY ConstantTypes DEF PInv, TypeOK, ThreadInv
<1>2. e \in Calls /\ Kind(e) = "error" /\ e[1] = w /\ e[2][2] = n
  BY <1>1, CallMembers
<1>3. pc[e] # "idle"
  BY <1>2 DEF Stuck, CallGoesOn, Ready
<1>4. pc[e] \notin {"second", "fork", "close", "ended"}
  BY <1>2 DEF Stuck, CallGoesOn, PInv, PlaceInv
<1>5. pc[e] # "wait"
  BY <1>2, WaitsForOwn, BlockedChild
<1>6. pc[e] = "read"
  BY <1>1, <1>2, <1>3, <1>4, <1>5 DEF PInv, TypeOK
<1>7. PICK d \in Calls : <<e, "out">> \in held[d] /\ child[d] = "runs"
  BY <1>2, <1>6, CallReads
<1>8. d = Call(d[1], "compile") /\ d[1] \in Workers
  BY <1>7, BlockedChild, CallTypes
<1> QED
  BY <1>1, <1>7, <1>8

(* The youngest compiler that runs waits for its error thread, and that    *)
(* would wait for a younger one.                                           *)
LEMMA NobodyRuns ==
  ASSUME WaitInv, Stuck, ~forkFailed
  PROVE  \A c \in Calls : child[c] # "runs"
<1> USE DEF WaitInv
<1>1. PICK age \in [Workers -> Nat], top \in Nat :
        Ordered(age) /\ \A w \in Workers : age[w] < top
  BY DEF AgeInv
<1> SUFFICES ASSUME NEW c \in Calls, child[c] = "runs" PROVE FALSE
  OBVIOUS
<1> DEFINE B == {w \in Workers : child[Call(w, "compile")] = "runs"}
           T == {age[w] : w \in B}
<1>2. c[1] \in B
  BY BlockedChild, CallTypes
<1>3. PICK n \in T : \A m \in T : m <= n
  <2>1. T \subseteq Nat /\ T # {} /\ \A m \in T : m < top
    BY <1>1, <1>2
  <2> QED
    BY <2>1, HasGreatest
<1>4. PICK w \in B : n = age[w]
  OBVIOUS
<1>5. /\ Call(w, "compile") \in Calls /\ child[Call(w, "compile")] = "runs"
      /\ Call(w, "compile")[1] = w
  BY CallMembers
<1>6. pc[Call(w, "compile")] = "read" /\ data[Stderr(w)] > 0
  BY <1>5, BlockedChild
<1>7. errors[w] = "calls"
  <2>1. errors[w] \notin {"none", "gone"}
    BY <1>5, <1>6 DEF ThreadInv
  <2>2. errors[w] # "reads"
    BY <1>6, ThreadReads
  <2> QED
    BY <2>1, <2>2 DEF PInv, TypeOK
<1>8. PICK u \in B, i \in 1 .. MaxErrors :
        <<Error(w, i), "out">> \in held[Call(u, "compile")]
  BY <1>7, BlockedThread
<1>9. age[w] < age[u] /\ age[u] <= age[w]
  BY <1>1, <1>3, <1>4, <1>8 DEF Ordered
<1>10. age[w] \in Nat /\ age[u] \in Nat
  BY <1>1
<1> QED
  BY <1>9, <1>10

(* If no child runs, nobody waits but for a call to be made. *)
LEMMA NobodyWaits ==
  ASSUME WaitInv, Stuck, ~forkFailed
  PROVE  \A w \in Workers : WorkerDone(w)
<1> USE DEF WaitInv
<1>1. \A c \in Calls : child[c] # "runs"
  BY NobodyRuns
<1>2. ASSUME NEW c \in Calls
      PROVE  ~Ready(c) /\ pc[c] \in {"idle", "ended", "done", "failed"}
  <2>1. ~Ready(c) /\ pc[c] \notin {"second", "fork", "close"}
    BY DEF Stuck, CallGoesOn
  <2>2. pc[c] \notin {"wait", "read"}
    BY <1>1, WaitsForOwn, CallReads
  <2> QED
    BY <2>1, <2>2 DEF PInv, TypeOK
<1> SUFFICES ASSUME NEW w \in Workers PROVE WorkerDone(w)
  OBVIOUS
<1> DEFINE c == Call(w, "compile")
           f == Call(w, "failed")
           d == Call(w, "digest")
<1>3. /\ {c, f, d} \subseteq Calls /\ c[1] = w /\ f[1] = w /\ d[1] = w
      /\ Kind(c) = "compile" /\ Kind(f) = "failed" /\ Kind(d) = "digest"
  BY CallMembers
<1>4. errors[w] \in {"none", "gone"}
  <2>1. errors[w] # "reads"
    BY <1>1, ThreadReads
  <2>2. errors[w] # "calls"
    BY <1>1, BlockedThread, CallMembers
  <2> QED
    BY <2>1, <2>2 DEF PInv, TypeOK
<1>5. pc[f] # "ended" /\ pc[d] \in {"idle", "done"}
  BY <1>2, <1>3 DEF PInv, PlaceInv
<1>6. pc[c] # "idle"
  BY <1>2, <1>3 DEF Ready
<1>7. w \in server /\ (pc[c] = "ended" \/ Returned(f)) => pc[d] = "done"
  BY <1>2, <1>3, <1>5 DEF Ready
<1>8. pc[c] # "ended"
  BY <1>3, <1>7 DEF Stuck, CallGoesOn
<1>9. w \in server /\ pc[c] = "failed" => Returned(f)
  BY <1>2, <1>3, <1>5 DEF Ready, Returned
<1>10. w \in server /\ pc[c] = "done" => pc[d] = "done"
  BY DEF ThreadInv
<1> QED
  BY <1>2, <1>3, <1>4, <1>6, <1>7, <1>8, <1>9, <1>10 DEF WorkerDone, Returned

(* The threads of subprocess.c and their children never all wait for each  *)
(* other, unless a fork fails: fork gives a child the pipes of all other   *)
(* threads, but only of those that were there before it.                   *)
THEOREM NobodyIsStuck == Spec => []NeverStuck
<1>1. WaitInv => NeverStuck
  <2> SUFFICES ASSUME WaitInv, ~forkFailed, Stuck PROVE AllDone
    BY DEF NeverStuck, Stuck
  <2> QED
    BY NobodyRuns, NobodyWaits DEF AllDone
<1> QED
  BY <1>1, WaitingInv, PTL
=============================================================================
