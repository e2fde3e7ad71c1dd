--------------------------- MODULE SubprocessProofs ---------------------------
(***************************************************************************)
(* Proofs about Vim's child processes and the pipes to them, for any       *)
(* number of workers, any amount of output and pipes of any capacity,      *)
(* whatever pipes, forks and execs fail.                                   *)
(***************************************************************************)
EXTENDS Subprocess, TLAPS

(* Which places a call of each kind comes to. *)
PlaceInv ==
  \A c \in Calls :
    /\ Kind(c) = "compile" => pc[c] # "wait"
    /\ Kind(c) # "compile" => pc[c] \notin {"second", "ended"}
    /\ Kind(c) = "digest" => pc[c] \in {"idle", "wait", "done"}

(* A child is forked while Vim has the write ends of its pipes, so that it *)
(* holds them as long as it runs; nothing is in the pipes of a call before *)
(* it has a child, and nothing is left to be written after.                *)
PipeSound(p) ==
  LET c == p[1] IN
  /\ pc[c] = "fork" \/ (pc[c] = "second" /\ p[2] = "out") => <<p, "w">> \in open
  /\ child[c] = "runs" => p \in held[c]
  /\ child[c] # "runs" => left[p] = 0
  /\ child[c] = "none" => data[p] = 0

PipeInv ==
  /\ \A c \in Calls :
       pc[c] \in {"idle", "second", "fork", "failed"} => child[c] = "none"
  /\ \A p \in Pipes : PipeSound(p)

(* While no fork has failed, a call has an unreaped child until it returns *)
(* its status.                                                             *)
StatusInv ==
  \A c \in Calls :
    /\ pc[c] \notin {"done", "failed"} \/ Kind(c) = "compile" => result[c] = -1
    /\ pc[c] = "failed" /\ Kind(c) # "compile" => result[c] = 3293
    /\ ~forkFailed /\ pc[c] \in {"close", "read", "ended", "wait"} =>
         child[c] \in {"runs", "zombie"}
    /\ ~forkFailed /\ pc[c] = "done" /\ Kind(c) # "compile" =>
         child[c] = "reaped" /\ result[c] = status[c]

(* The order of the calls of a worker, and of its error thread, which is   *)
(* in at most one call: for the chunk it has read last.                    *)
OrderInv ==
  \A w \in Workers :
    /\ pc[Call(w, "compile")] \in {"idle", "second", "fork", "close", "failed"} =>
         errors[w] = "none" /\ chunks[w] = 0
    /\ pc[Call(w, "failed")] # "idle" =>
         w \in server /\ pc[Call(w, "compile")] = "failed"
    /\ pc[Call(w, "digest")] # "idle" =>
         /\ w \in server
         /\ pc[Call(w, "compile")] \in {"ended", "done"} \/ Returned(Call(w, "failed"))
    /\ \A n \in 1 .. MaxErrors :
         pc[Error(w, n)] \notin {"idle", "done", "failed"} =>
           errors[w] = "calls" /\ chunks[w] = n

(* The chunks of a compiler's stderr: read, in the pipe, still to be       *)
(* written.                                                                *)
CountInv ==
  \A w \in Workers : chunks[w] + data[Stderr(w)] + left[Stderr(w)] <= MaxErrors

PInv == /\ TypeOK /\ PlaceInv /\ PipeInv /\ StatusInv /\ OrderInv /\ CountInv
        /\ DescriptorsAccounted /\ EndMeansAllRead

------------------------------------------------------------------------------
(* The calls of a worker and of its error thread. *)
LEMMA CallTypes ==
  ASSUME NEW c \in Calls
  PROVE  /\ c[1] \in Workers
         /\ Kind(c) \in {"compile", "failed", "digest", "error"}
         /\ Kind(c) # "error" => c = Call(c[1], Kind(c))
         /\ Kind(c) = "error" =>
              c[2][2] \in 1 .. MaxErrors /\ c = Error(c[1], c[2][2])
<1>1. PICK w \in Workers :
        \/ \E k \in {"compile", "failed", "digest"} : c = <<w, <<k, 0>>>>
        \/ \E n \in 1 .. MaxErrors : c = <<w, <<"error", n>>>>
  BY DEF Calls
<1> QED
  BY <1>1 DEF Kind, Call, Error

LEMMA CallMembers ==
  ASSUME NEW w \in Workers
  PROVE  /\ \A k \in {"compile", "failed", "digest"} :
              /\ Call(w, k) \in Calls
              /\ Call(w, k)[1] = w
              /\ Kind(Call(w, k)) = k
         /\ \A n \in 1 .. MaxErrors :
              /\ Error(w, n) \in Calls
              /\ Error(w, n)[1] = w
              /\ Error(w, n)[2][2] = n
              /\ Kind(Error(w, n)) = "error"
  BY DEF Calls, Call, Error, Kind

(* The pipes of a call, and the call of a pipe. *)
LEMMA PipesOfCall ==
  ASSUME NEW c \in Calls
  PROVE  /\ PipesOf(c) \subseteq Pipes
         /\ Kind(c) = "compile" => PipesOf(c) = {<<c, "out">>, <<c, "err">>}
         /\ Kind(c) = "digest" => PipesOf(c) = {}
         /\ Kind(c) \in {"failed", "error"} => PipesOf(c) = {<<c, "out">>}
         /\ \A p \in PipesOf(c) : p[1] = c /\ p = <<c, p[2]>> /\ p[2] \in {"out", "err"}
<1>1. PipesOf(c) \subseteq Pipes
  BY DEF Pipes
<1>2. /\ Kind(c) = "compile" => PipesOf(c) = {<<c, "out">>, <<c, "err">>}
      /\ Kind(c) = "digest" => PipesOf(c) = {}
      /\ Kind(c) \in {"failed", "error"} => PipesOf(c) = {<<c, "out">>}
  BY DEF PipesOf
<1> QED
  BY <1>1, <1>2, CallTypes

LEMMA CallOfPipe ==
  ASSUME NEW p \in Pipes
  PROVE  /\ p[1] \in Calls /\ p \in PipesOf(p[1]) /\ p = <<p[1], p[2]>>
         /\ p[2] \in {"out", "err"}
         /\ p[2] = "err" => Kind(p[1]) = "compile" /\ p = Stderr(p[1][1])
<1>1. PICK c \in Calls : p \in PipesOf(c)
  BY DEF Pipes
<1>2. p[1] = c /\ p = <<c, p[2]>> /\ p[2] \in {"out", "err"}
  BY <1>1, PipesOfCall
<1>3. p[2] = "err" => Kind(c) = "compile"
  BY <1>1, <1>2, PipesOfCall, CallTypes
<1> QED
  BY <1>1, <1>2, <1>3, CallTypes DEF Stderr

LEMMA StderrPipe ==
  ASSUME NEW w \in Workers
  PROVE  /\ Stderr(w) \in Pipes
         /\ Stderr(w) \in PipesOf(Call(w, "compile"))
         /\ Stderr(w)[1] = Call(w, "compile")
         /\ Stderr(w)[2] = "err"
         /\ <<Call(w, "compile"), "out">> \in PipesOf(Call(w, "compile"))
         /\ <<Call(w, "compile"), "out">> \in Pipes
<1>1. Call(w, "compile") \in Calls /\ Kind(Call(w, "compile")) = "compile"
  BY CallMembers
<1>2. PipesOf(Call(w, "compile")) = {<<Call(w, "compile"), "out">>, Stderr(w)}
  BY <1>1, PipesOfCall DEF Stderr
<1> QED
  BY <1>1, <1>2, PipesOfCall DEF Stderr

LEMMA OutPipe ==
  ASSUME NEW c \in Calls, Kind(c) # "digest"
  PROVE  <<c, "out">> \in PipesOf(c) /\ <<c, "out">> \in Pipes
BY CallTypes, PipesOfCall

LEMMA ConstantTypes ==
  /\ MaxWorkers \in Nat \ {0} /\ MaxOutput \in Nat /\ MaxAnswer \in {0, 1}
  /\ MaxErrors \in Nat \ {0} /\ Capacity \in Nat \ {0}
  /\ MaxServers \in 0 .. MaxWorkers
  BY SubprocessAssumption

(* The statuses of children are results. *)
LEMMA StatusZero == 0 \in Results /\ 3293 \in Results
<1>1. Status(0) = 0 /\ Status(0) \in Results
  BY DEF Status, Results, Codes
<1> QED
  BY <1>1 DEF Results

(* How much a child writes. *)
LEMMA ForkWrites ==
  ASSUME NEW c \in Calls, Fork(c)
  PROVE  /\ \E m \in Nat, n \in 0 .. MaxErrors :
              \A p \in Pipes : left'[p] = IF p[1] # c THEN left[p]
                                       ELSE IF p[2] = "err" THEN n ELSE m
         /\ \E code \in Codes : status' = [status EXCEPT ![c] = Status(code)]
         /\ left' \in [Pipes -> Nat] \/ left \notin [Pipes -> Nat]
<1>1. PICK ok \in BOOLEAN : \E f \in Writes(c, ok) :
        /\ left' = [p \in Pipes |-> IF p[1] = c THEN f[p[2]] ELSE left[p]]
        /\ status' = [status EXCEPT ![c] = Status(IF ok THEN 0 ELSE ExecFailure(c))]
  BY DEF Fork
<1>2. PICK f \in Writes(c, ok) :
        left' = [p \in Pipes |-> IF p[1] = c THEN f[p[2]] ELSE left[p]]
  BY <1>1
<1>3. PICK m \in Nat, n \in 0 .. MaxErrors : f = [out |-> m, err |-> n]
  BY ConstantTypes DEF Writes
<1>4. f["err"] = n /\ f["out"] = m /\ n \in Nat
  BY <1>3, ConstantTypes
<1>5. \A p \in Pipes : p[2] \in {"out", "err"}
  BY CallOfPipe
<1>6. \A p \in Pipes : left'[p] = IF p[1] # c THEN left[p]
                                ELSE IF p[2] = "err" THEN n ELSE m
  BY <1>2, <1>4, <1>5
<1>7. (IF ok THEN 0 ELSE ExecFailure(c)) \in Codes
  BY DEF ExecFailure, Codes
<1>8. left \in [Pipes -> Nat] => left' \in [Pipes -> Nat]
  BY <1>2, <1>4, <1>6
<1> QED
  BY <1>1, <1>6, <1>7, <1>8

(* All of it holds before anything is run. *)
LEMMA PInit == Init => PInv
<1> SUFFICES ASSUME Init PROVE PInv
  OBVIOUS
<1>1. TypeOK
  <2>1. server \subseteq Workers
    <3>1. PICK n \in 0 .. MaxServers : server = 1 .. n
      BY DEF Init
    <3> QED
      BY <3>1, ConstantTypes DEF Workers
  <2>2. status \in [Calls -> Results] /\ result \in [Calls -> Results \cup {-1}]
    BY StatusZero DEF Init
  <2>3. /\ chunks \in [Workers -> 0 .. MaxErrors]
        /\ data \in [Pipes -> 0 .. Capacity]
    BY ConstantTypes DEF Init
  <2>4. /\ held \in [Calls -> SUBSET Pipes] /\ open \subseteq Pipes \X {"r", "w"}
        /\ left \in [Pipes -> Nat]
    BY DEF Init
  <2> QED
    BY <2>1, <2>2, <2>3, <2>4 DEF Init, TypeOK
<1>2. PlaceInv
  BY DEF Init, PlaceInv
<1>3. PipeInv
  BY CallOfPipe DEF Init, PipeInv, PipeSound
<1>4. StatusInv
  BY DEF Init, StatusInv
<1>5. OrderInv
  <2>1. ASSUME NEW w \in Workers
        PROVE  /\ \A k \in {"compile", "failed", "digest"} : pc[Call(w, k)] = "idle"
               /\ \A n \in 1 .. MaxErrors : pc[Error(w, n)] = "idle"
    BY CallMembers DEF Init
  <2>2. \A w \in Workers : errors[w] = "none" /\ chunks[w] = 0
    BY DEF Init
  <2> QED
    BY <2>1, <2>2 DEF OrderInv
<1>6. DescriptorsAccounted
  BY DEF Init, DescriptorsAccounted
<1>7. EndMeansAllRead
  BY CallMembers DEF Init, EndMeansAllRead
<1>8. CountInv
  <2> SUFFICES ASSUME NEW w \in Workers
               PROVE  chunks[w] + data[Stderr(w)] + left[Stderr(w)] <= MaxErrors
    BY DEF CountInv
  <2>1. data[Stderr(w)] = 0 /\ left[Stderr(w)] = 0
    BY StderrPipe DEF Init
  <2>2. chunks[w] = 0
    BY DEF Init
  <2> QED
    BY <2>1, <2>2, ConstantTypes
<1> QED
  BY <1>1, <1>2, <1>3, <1>4, <1>5, <1>6, <1>7, <1>8 DEF PInv

------------------------------------------------------------------------------
(* The types: a pipe is written only when it has room, a child has at most *)
(* MaxErrors chunks to write.                                              *)
LEMMA NextTypeOK ==
  ASSUME PInv, [Next]_vars
  PROVE  TypeOK'
<1> USE DEF PInv
<1>1. ASSUME NEW c \in Calls, OpenPipe(c) PROVE TypeOK'
  <2>1. Ends(<<c, "out">>) \subseteq Pipes \X {"r", "w"}
    BY <1>1, OutPipe DEF OpenPipe, Ends
  <2>2. pc' \in [Calls -> {"idle", "second", "fork", "close", "read", "ended",
                          "wait", "failed", "done"}]
    BY <1>1 DEF OpenPipe, At, TypeOK
  <2> QED
    BY <1>1, <2>1, <2>2 DEF OpenPipe, kernel, TypeOK
<1>2. ASSUME NEW c \in Calls, PipeFails(c) PROVE TypeOK'
  <2>1. /\ result' \in [Calls -> Results \cup {-1}]
        /\ errors' \in [Workers -> {"none", "reads", "calls", "gone"}]
    <3>1. 3293 \in Results \cup {-1} /\ c[1] \in Workers
      BY StatusZero, CallTypes
    <3>2. result' = result \/ result' = [result EXCEPT ![c] = 3293]
      BY <1>2 DEF PipeFails
    <3>3. errors' = errors \/ errors' = [errors EXCEPT ![c[1]] = "reads"]
      BY <1>2 DEF PipeFails
    <3> QED
      BY <3>1, <3>2, <3>3 DEF TypeOK
  <2> QED
    BY <1>2, <2>1 DEF PipeFails, At, kernel, TypeOK
<1>3. ASSUME NEW c \in Calls, OpenSecond(c) PROVE TypeOK'
  <2>1. Kind(c) = "compile"
    BY <1>3 DEF OpenSecond, At, PlaceInv
  <2>2. Ends(<<c, "err">>) \subseteq Pipes \X {"r", "w"}
    BY <2>1, PipesOfCall DEF Ends
  <2> QED
    BY <1>3, <2>2 DEF OpenSecond, At, kernel, TypeOK
<1>4. ASSUME NEW c \in Calls, SecondFails(c) PROVE TypeOK'
  BY <1>4, StatusZero, PipesOfCall
     DEF SecondFails, At, kernel, Ends, ForkPoint, Inherited, TypeOK
<1>5. ASSUME NEW c \in Calls, Fork(c) PROVE TypeOK'
  <2>1. held' \in [Calls -> SUBSET Pipes]
    BY <1>5 DEF Fork, Inherited, TypeOK
  <2>2. left' \in [Pipes -> Nat]
    BY <1>5, ForkWrites DEF TypeOK
  <2>3. status' \in [Calls -> Results]
    <3>1. PICK code \in Codes : status' = [status EXCEPT ![c] = Status(code)]
      BY <1>5, ForkWrites
    <3>2. Status(code) \in Results
      BY DEF Results
    <3> QED
      BY <3>1, <3>2 DEF TypeOK
  <2>4. pc' \in [Calls -> {"idle", "second", "fork", "close", "read", "ended",
                          "wait", "failed", "done"}]
    BY <1>5 DEF Fork, ForkPoint, At, TypeOK
  <2> QED
    BY <1>5, <2>1, <2>2, <2>3, <2>4 DEF Fork, TypeOK
<1>6. ASSUME NEW c \in Calls, ForkFails(c) PROVE TypeOK'
  BY <1>6, StatusZero, PipesOfCall
     DEF ForkFails, At, kernel, Ends, ForkPoint, Inherited, TypeOK
<1>7. ASSUME NEW c \in Calls, CloseWrite(c) PROVE TypeOK'
  <2>1. errors' \in [Workers -> {"none", "reads", "calls", "gone"}]
    BY <1>7 DEF CloseWrite, TypeOK
  <2> QED
    BY <1>7, <2>1 DEF CloseWrite, At, kernel, TypeOK
<1>8. ASSUME NEW c \in Calls, ReadOutput(c) PROVE TypeOK'
  <2>1. <<c, "out">> \in Pipes /\ data[<<c, "out">>] \in 0 .. Capacity
    BY <1>8, OutPipe DEF ReadOutput, TypeOK
  <2>2. data' \in [Pipes -> 0 .. Capacity]
    BY <1>8, <2>1, ConstantTypes DEF ReadOutput, TypeOK
  <2> QED
    BY <1>8, <2>2 DEF ReadOutput, TypeOK
<1>9. ASSUME NEW c \in Calls, EndOutput(c) PROVE TypeOK'
  BY <1>9, StatusZero, PipesOfCall
     DEF EndOutput, At, kernel, Ends, ForkPoint, Inherited, TypeOK
<1>10. ASSUME NEW c \in Calls, CloseOutput(c) PROVE TypeOK'
  BY <1>10, StatusZero, PipesOfCall
     DEF CloseOutput, At, kernel, Ends, ForkPoint, Inherited, TypeOK
<1>11. ASSUME NEW c \in Calls, ReadOnce(c) PROVE TypeOK'
  <2>1. Kind(c) # "digest"
    BY <1>11 DEF ReadOnce, At, PlaceInv
  <2>2. <<c, "out">> \in Pipes /\ data[<<c, "out">>] \in 0 .. Capacity
    BY <2>1, OutPipe DEF TypeOK
  <2>3. data' \in [Pipes -> 0 .. Capacity]
    BY <1>11, <2>2, ConstantTypes DEF ReadOnce, TypeOK
  <2> QED
    BY <1>11, <2>3 DEF ReadOnce, At, TypeOK
<1>12. ASSUME NEW c \in Calls, Wait(c) PROVE TypeOK'
  <2>1. result' \in [Calls -> Results \cup {-1}]
    BY <1>12 DEF Wait, Awaited, TypeOK
  <2>2. child' \in [Calls -> {"none", "runs", "zombie", "reaped"}]
    BY <1>12 DEF Wait, TypeOK
  <2>3. errors' \in [Workers -> {"none", "reads", "calls", "gone"}]
    BY <1>12 DEF Wait, TypeOK
  <2> QED
    BY <1>12, <2>1, <2>2, <2>3 DEF Wait, At, TypeOK
<1>13. ASSUME NEW c \in Calls, Write(c) PROVE TypeOK'
  <2>1. PICK p \in PipesOf(c) : Write(c)!(p)
    BY <1>13 DEF Write
  <2>2. p \in Pipes /\ data[p] \in 0 .. Capacity /\ left[p] \in Nat
    BY PipesOfCall DEF TypeOK
  <2>3. data' \in [Pipes -> 0 .. Capacity]
    BY <2>1, <2>2, ConstantTypes DEF TypeOK
  <2>4. left' \in [Pipes -> Nat]
    BY <2>1, <2>2 DEF TypeOK
  <2> QED
    BY <2>1, <2>3, <2>4 DEF TypeOK
<1>14. ASSUME NEW c \in Calls, Exit(c) PROVE TypeOK'
  BY <1>14, StatusZero, PipesOfCall
     DEF Exit, At, kernel, Ends, ForkPoint, Inherited, TypeOK
<1>15. ASSUME NEW w \in Workers, ReadError(w) PROVE TypeOK'
  <2>1. Stderr(w) \in Pipes
    BY StderrPipe
  <2>2. data[Stderr(w)] \in 0 .. Capacity /\ left[Stderr(w)] \in Nat /\ chunks[w] \in Nat
    BY <2>1, ConstantTypes DEF TypeOK
  <2>3. data' \in [Pipes -> 0 .. Capacity]
    BY <1>15, <2>1, <2>2, ConstantTypes DEF ReadError, TypeOK
  <2>4. chunks[w] + 1 \in 0 .. MaxErrors
    BY <1>15, <2>2, ConstantTypes DEF ReadError, CountInv
  <2> QED
    BY <1>15, <2>3, <2>4 DEF ReadError, TypeOK
<1>16. ASSUME NEW w \in Workers, EndErrors(w) PROVE TypeOK'
  BY <1>16, StatusZero, PipesOfCall
     DEF EndErrors, At, kernel, Ends, ForkPoint, Inherited, TypeOK
<1>17. CASE UNCHANGED vars
  BY <1>17 DEF vars, kernel, At, kernel, Ends, ForkPoint, Inherited, TypeOK
<1> QED
  BY <1>1, <1>2, <1>3, <1>4, <1>5, <1>6, <1>7, <1>8, <1>9, <1>10, <1>11, <1>12,
     <1>13, <1>14, <1>15, <1>16, <1>17
     DEF Next, CallStep, ChildStep, ErrorStep, Finished

(* No call comes to a place that only the other kinds have. *)
LEMMA NextPlaceInv ==
  ASSUME PInv, [Next]_vars
  PROVE  PlaceInv'
<1> USE DEF PInv
<1>1. ASSUME NEW c \in Calls, OpenPipe(c) PROVE PlaceInv'
  BY <1>1 DEF OpenPipe, At, kernel, Ready, ForkPoint, TypeOK, PlaceInv
<1>2. ASSUME NEW c \in Calls, PipeFails(c) PROVE PlaceInv'
  BY <1>2 DEF PipeFails, At, kernel, Ready, ForkPoint, TypeOK, PlaceInv
<1>3. ASSUME NEW c \in Calls, OpenSecond(c) PROVE PlaceInv'
  BY <1>3 DEF OpenSecond, At, kernel, Ready, ForkPoint, TypeOK, PlaceInv
<1>4. ASSUME NEW c \in Calls, SecondFails(c) PROVE PlaceInv'
  BY <1>4 DEF SecondFails, At, kernel, Ready, ForkPoint, TypeOK, PlaceInv
<1>5. ASSUME NEW c \in Calls, Fork(c) PROVE PlaceInv'
  BY <1>5 DEF Fork, At, kernel, Ready, ForkPoint, TypeOK, PlaceInv
<1>6. ASSUME NEW c \in Calls, ForkFails(c) PROVE PlaceInv'
  BY <1>6 DEF ForkFails, At, kernel, Ready, ForkPoint, TypeOK, PlaceInv
<1>7. ASSUME NEW c \in Calls, CloseWrite(c) PROVE PlaceInv'
  BY <1>7 DEF CloseWrite, At, kernel, Ready, ForkPoint, TypeOK, PlaceInv
<1>8. ASSUME NEW c \in Calls, ReadOutput(c) PROVE PlaceInv'
  BY <1>8 DEF ReadOutput, At, kernel, Ready, ForkPoint, TypeOK, PlaceInv
<1>9. ASSUME NEW c \in Calls, EndOutput(c) PROVE PlaceInv'
  BY <1>9 DEF EndOutput, At, kernel, Ready, ForkPoint, TypeOK, PlaceInv
<1>10. ASSUME NEW c \in Calls, CloseOutput(c) PROVE PlaceInv'
  BY <1>10 DEF CloseOutput, At, kernel, Ready, ForkPoint, TypeOK, PlaceInv
<1>11. ASSUME NEW c \in Calls, ReadOnce(c) PROVE PlaceInv'
  BY <1>11 DEF ReadOnce, At, kernel, Ready, ForkPoint, TypeOK, PlaceInv
<1>12. ASSUME NEW c \in Calls, Wait(c) PROVE PlaceInv'
  BY <1>12 DEF Wait, At, kernel, Ready, ForkPoint, TypeOK, PlaceInv
<1>13. ASSUME NEW c \in Calls, Write(c) PROVE PlaceInv'
  BY <1>13 DEF Write, At, kernel, Ready, ForkPoint, TypeOK, PlaceInv
<1>14. ASSUME NEW c \in Calls, Exit(c) PROVE PlaceInv'
  BY <1>14 DEF Exit, At, kernel, Ready, ForkPoint, TypeOK, PlaceInv
<1>15. ASSUME NEW w \in Workers, ReadError(w) PROVE PlaceInv'
  BY <1>15 DEF ReadError, At, kernel, Ready, ForkPoint, TypeOK, PlaceInv
<1>16. ASSUME NEW w \in Workers, EndErrors(w) PROVE PlaceInv'
  BY <1>16 DEF EndErrors, At, kernel, Ready, ForkPoint, TypeOK, PlaceInv
<1>17. CASE UNCHANGED vars
  BY <1>17 DEF vars, kernel, At, kernel, Ready, ForkPoint, TypeOK, PlaceInv
<1> QED
  BY <1>1, <1>2, <1>3, <1>4, <1>5, <1>6, <1>7, <1>8, <1>9, <1>10, <1>11, <1>12,
     <1>13, <1>14, <1>15, <1>16, <1>17
     DEF Next, CallStep, ChildStep, ErrorStep, Finished

(* A fork gives its child the pipes of its call, and only the child's end  *)
(* takes them away.                                                        *)
LEMMA NextPipeInv ==
  ASSUME PInv, [Next]_vars
  PROVE  PipeInv'
<1> USE DEF PInv
<1>1. ASSUME NEW c \in Calls, OpenPipe(c) PROVE PipeInv'
  BY <1>1, PipesOfCall, CallOfPipe, CallTypes
     DEF OpenPipe, At, kernel, ForkPoint, Ready, Ends, Inherited, PlaceInv,
         TypeOK, PipeInv, PipeSound
<1>2. ASSUME NEW c \in Calls, PipeFails(c) PROVE PipeInv'
  BY <1>2, PipesOfCall, CallOfPipe, CallTypes
     DEF PipeFails, At, kernel, ForkPoint, Ready, Ends, Inherited, PlaceInv,
         TypeOK, PipeInv, PipeSound
<1>3. ASSUME NEW c \in Calls, OpenSecond(c) PROVE PipeInv'
  BY <1>3, PipesOfCall, CallOfPipe, CallTypes
     DEF OpenSecond, At, kernel, ForkPoint, Ready, Ends, Inherited, PlaceInv,
         TypeOK, PipeInv, PipeSound
<1>4. ASSUME NEW c \in Calls, SecondFails(c) PROVE PipeInv'
  BY <1>4, PipesOfCall, CallOfPipe, CallTypes
     DEF SecondFails, At, kernel, ForkPoint, Ready, Ends, Inherited, PlaceInv,
         TypeOK, PipeInv, PipeSound
<1>5. ASSUME NEW c \in Calls, Fork(c) PROVE PipeInv'
  BY <1>5, PipesOfCall, CallOfPipe, CallTypes
     DEF Fork, At, kernel, ForkPoint, Ready, Ends, Inherited, PlaceInv, TypeOK,
         PipeInv, PipeSound
<1>6. ASSUME NEW c \in Calls, ForkFails(c) PROVE PipeInv'
  BY <1>6, PipesOfCall, CallOfPipe, CallTypes
     DEF ForkFails, At, kernel, ForkPoint, Ready, Ends, Inherited, PlaceInv,
         TypeOK, PipeInv, PipeSound
<1>7. ASSUME NEW c \in Calls, CloseWrite(c) PROVE PipeInv'
  BY <1>7, PipesOfCall, CallOfPipe, CallTypes
     DEF CloseWrite, At, kernel, ForkPoint, Ready, Ends, Inherited, PlaceInv,
         TypeOK, PipeInv, PipeSound
<1>8. ASSUME NEW c \in Calls, ReadOutput(c) PROVE PipeInv'
  <2>1. <<c, "out">> \in Pipes
    BY <1>8, OutPipe DEF ReadOutput, At, PlaceInv
  <2>2. \A p \in Pipes : data[p] = 0 => data'[p] = 0
    BY <1>8, <2>1 DEF ReadOutput, TypeOK
  <2> QED
    BY <1>8, <2>2, CallOfPipe, CallTypes
       DEF ReadOutput, At, PlaceInv, TypeOK, PipeInv, PipeSound
<1>9. ASSUME NEW c \in Calls, EndOutput(c) PROVE PipeInv'
  BY <1>9, PipesOfCall, CallOfPipe, CallTypes
     DEF EndOutput, At, kernel, ForkPoint, Ready, Ends, Inherited, PlaceInv,
         TypeOK, PipeInv, PipeSound
<1>10. ASSUME NEW c \in Calls, CloseOutput(c) PROVE PipeInv'
  BY <1>10, PipesOfCall, CallOfPipe, CallTypes
     DEF CloseOutput, At, kernel, ForkPoint, Ready, Ends, Inherited, PlaceInv,
         TypeOK, PipeInv, PipeSound
<1>11. ASSUME NEW c \in Calls, ReadOnce(c) PROVE PipeInv'
  <2>1. <<c, "out">> \in Pipes
    BY <1>11, OutPipe DEF ReadOnce, At, PlaceInv
  <2>2. \A p \in Pipes : data[p] = 0 => data'[p] = 0
    BY <1>11, <2>1 DEF ReadOnce, TypeOK
  <2> QED
    BY <1>11, <2>2, CallOfPipe, CallTypes
       DEF ReadOnce, At, PlaceInv, TypeOK, PipeInv, PipeSound
<1>12. ASSUME NEW c \in Calls, Wait(c) PROVE PipeInv'
  BY <1>12, PipesOfCall, CallOfPipe, CallTypes
     DEF Wait, At, kernel, ForkPoint, Ready, Ends, Inherited, PlaceInv, TypeOK,
         PipeInv, PipeSound
<1>13. ASSUME NEW c \in Calls, Write(c) PROVE PipeInv'
  BY <1>13, PipesOfCall, CallOfPipe, CallTypes
     DEF Write, At, kernel, ForkPoint, Ready, Ends, Inherited, PlaceInv, TypeOK,
         PipeInv, PipeSound
<1>14. ASSUME NEW c \in Calls, Exit(c) PROVE PipeInv'
  BY <1>14, PipesOfCall, CallOfPipe, CallTypes
     DEF Exit, At, kernel, ForkPoint, Ready, Ends, Inherited, PlaceInv, TypeOK,
         PipeInv, PipeSound
<1>15. ASSUME NEW w \in Workers, ReadError(w) PROVE PipeInv'
  BY <1>15, PipesOfCall, CallOfPipe, CallTypes
     DEF ReadError, At, kernel, ForkPoint, Ready, Ends, Inherited, PlaceInv,
         TypeOK, PipeInv, PipeSound
<1>16. ASSUME NEW w \in Workers, EndErrors(w) PROVE PipeInv'
  BY <1>16, PipesOfCall, CallOfPipe, CallTypes
     DEF EndErrors, At, kernel, ForkPoint, Ready, Ends, Inherited, PlaceInv,
         TypeOK, PipeInv, PipeSound
<1>17. CASE UNCHANGED vars
  BY <1>17
     DEF vars, kernel, At, kernel, ForkPoint, Ready, Ends, Inherited, PipeInv,
         PipeSound
<1> QED
  BY <1>1, <1>2, <1>3, <1>4, <1>5, <1>6, <1>7, <1>8, <1>9, <1>10, <1>11, <1>12,
     <1>13, <1>14, <1>15, <1>16, <1>17
     DEF Next, CallStep, ChildStep, ErrorStep, Finished

(* With no fork failed, waitpid names the call's own child; with pid -1 it *)
(* may take another's, but then a fork has failed.                         *)
LEMMA NextStatusInv ==
  ASSUME PInv, [Next]_vars
  PROVE  StatusInv'
<1> USE DEF PInv
<1>1. ASSUME NEW c \in Calls, OpenPipe(c) PROVE StatusInv'
  BY <1>1, CallTypes
     DEF OpenPipe, At, kernel, ForkPoint, Ready, Awaited, PlaceInv, PipeInv,
         TypeOK, StatusInv
<1>2. ASSUME NEW c \in Calls, PipeFails(c) PROVE StatusInv'
  BY <1>2, CallTypes
     DEF PipeFails, At, kernel, ForkPoint, Ready, Awaited, PlaceInv, PipeInv,
         TypeOK, StatusInv
<1>3. ASSUME NEW c \in Calls, OpenSecond(c) PROVE StatusInv'
  BY <1>3, CallTypes
     DEF OpenSecond, At, kernel, ForkPoint, Ready, Awaited, PlaceInv, PipeInv,
         TypeOK, StatusInv
<1>4. ASSUME NEW c \in Calls, SecondFails(c) PROVE StatusInv'
  BY <1>4, CallTypes
     DEF SecondFails, At, kernel, ForkPoint, Ready, Awaited, PlaceInv, PipeInv,
         TypeOK, StatusInv
<1>5. ASSUME NEW c \in Calls, Fork(c) PROVE StatusInv'
  BY <1>5, CallTypes
     DEF Fork, At, kernel, ForkPoint, Ready, Awaited, PlaceInv, PipeInv, TypeOK,
         StatusInv
<1>6. ASSUME NEW c \in Calls, ForkFails(c) PROVE StatusInv'
  BY <1>6, CallTypes
     DEF ForkFails, At, kernel, ForkPoint, Ready, Awaited, PlaceInv, PipeInv,
         TypeOK, StatusInv
<1>7. ASSUME NEW c \in Calls, CloseWrite(c) PROVE StatusInv'
  BY <1>7, CallTypes
     DEF CloseWrite, At, kernel, ForkPoint, Ready, Awaited, PlaceInv, PipeInv,
         TypeOK, StatusInv
<1>8. ASSUME NEW c \in Calls, ReadOutput(c) PROVE StatusInv'
  BY <1>8, CallTypes
     DEF ReadOutput, At, kernel, ForkPoint, Ready, Awaited, PlaceInv, PipeInv,
         TypeOK, StatusInv
<1>9. ASSUME NEW c \in Calls, EndOutput(c) PROVE StatusInv'
  BY <1>9, CallTypes
     DEF EndOutput, At, kernel, ForkPoint, Ready, Awaited, PlaceInv, PipeInv,
         TypeOK, StatusInv
<1>10. ASSUME NEW c \in Calls, CloseOutput(c) PROVE StatusInv'
  BY <1>10, CallTypes
     DEF CloseOutput, At, kernel, ForkPoint, Ready, Awaited, PlaceInv, PipeInv,
         TypeOK, StatusInv
<1>11. ASSUME NEW c \in Calls, ReadOnce(c) PROVE StatusInv'
  BY <1>11, CallTypes
     DEF ReadOnce, At, kernel, ForkPoint, Ready, Awaited, PlaceInv, PipeInv,
         TypeOK, StatusInv
<1>12. ASSUME NEW c \in Calls, Wait(c) PROVE StatusInv'
  BY <1>12, CallTypes
     DEF Wait, At, kernel, ForkPoint, Ready, Awaited, PlaceInv, PipeInv, TypeOK,
         StatusInv
<1>13. ASSUME NEW c \in Calls, Write(c) PROVE StatusInv'
  BY <1>13, CallTypes
     DEF Write, At, kernel, ForkPoint, Ready, Awaited, PlaceInv, PipeInv,
         TypeOK, StatusInv
<1>14. ASSUME NEW c \in Calls, Exit(c) PROVE StatusInv'
  BY <1>14, CallTypes
     DEF Exit, At, kernel, ForkPoint, Ready, Awaited, PlaceInv, PipeInv, TypeOK,
         StatusInv
<1>15. ASSUME NEW w \in Workers, ReadError(w) PROVE StatusInv'
  BY <1>15, CallTypes
     DEF ReadError, At, kernel, ForkPoint, Ready, Awaited, PlaceInv, PipeInv,
         TypeOK, StatusInv
<1>16. ASSUME NEW w \in Workers, EndErrors(w) PROVE StatusInv'
  BY <1>16, CallTypes
     DEF EndErrors, At, kernel, ForkPoint, Ready, Awaited, PlaceInv, PipeInv,
         TypeOK, StatusInv
<1>17. CASE UNCHANGED vars
  BY <1>17
     DEF vars, kernel, At, kernel, ForkPoint, Ready, Awaited, PlaceInv, PipeInv,
         TypeOK, StatusInv
<1> QED
  BY <1>1, <1>2, <1>3, <1>4, <1>5, <1>6, <1>7, <1>8, <1>9, <1>10, <1>11, <1>12,
     <1>13, <1>14, <1>15, <1>16, <1>17
     DEF Next, CallStep, ChildStep, ErrorStep, Finished

(* The calls of a worker come one after the other, and so do those of its  *)
(* error thread.                                                           *)
LEMMA NextOrderInv ==
  ASSUME PInv, [Next]_vars
  PROVE  OrderInv'
<1> USE DEF PInv
<1>1. ASSUME NEW c \in Calls, OpenPipe(c) PROVE OrderInv'
  BY <1>1, CallTypes, CallMembers
     DEF OpenPipe, At, kernel, ForkPoint, Ready, Returned, PlaceInv, TypeOK,
         OrderInv
<1>2. ASSUME NEW c \in Calls, PipeFails(c) PROVE OrderInv'
  BY <1>2, CallTypes, CallMembers
     DEF PipeFails, At, kernel, ForkPoint, Ready, Returned, PlaceInv, TypeOK,
         OrderInv
<1>3. ASSUME NEW c \in Calls, OpenSecond(c) PROVE OrderInv'
  BY <1>3, CallTypes, CallMembers
     DEF OpenSecond, At, kernel, ForkPoint, Ready, Returned, PlaceInv, TypeOK,
         OrderInv
<1>4. ASSUME NEW c \in Calls, SecondFails(c) PROVE OrderInv'
  BY <1>4, CallTypes, CallMembers
     DEF SecondFails, At, kernel, ForkPoint, Ready, Returned, PlaceInv, TypeOK,
         OrderInv
<1>5. ASSUME NEW c \in Calls, Fork(c) PROVE OrderInv'
  <2>1. CASE Kind(c) = "digest"
    <3>1. /\ pc[c] = "idle" /\ pc' = [pc EXCEPT ![c] = "wait"]
          /\ c = Call(c[1], "digest") /\ c[1] \in server
          /\ pc[Call(c[1], "compile")] = "ended" \/ Returned(Call(c[1], "failed"))
      BY <1>5, <2>1, CallTypes DEF Fork, ForkPoint, At, Ready
    <3> QED
      BY <1>5, <2>1, <3>1, CallMembers DEF Fork, Returned, TypeOK, OrderInv
  <2>2. CASE Kind(c) # "digest"
    <3>1. pc[c] = "fork" /\ pc' = [pc EXCEPT ![c] = "close"]
      BY <1>5, <2>2 DEF Fork, ForkPoint, At
    <3> QED
      BY <1>5, <2>2, <3>1, CallMembers DEF Fork, Returned, TypeOK, OrderInv
  <2> QED
    BY <2>1, <2>2
<1>6. ASSUME NEW c \in Calls, ForkFails(c) PROVE OrderInv'
  <2>1. CASE Kind(c) = "digest"
    <3>1. /\ pc[c] = "idle" /\ pc' = [pc EXCEPT ![c] = "wait"]
          /\ c = Call(c[1], "digest") /\ c[1] \in server
          /\ pc[Call(c[1], "compile")] = "ended" \/ Returned(Call(c[1], "failed"))
      BY <1>6, <2>1, CallTypes DEF ForkFails, ForkPoint, At, Ready
    <3> QED
      BY <1>6, <2>1, <3>1, CallMembers DEF ForkFails, Returned, TypeOK, OrderInv
  <2>2. CASE Kind(c) # "digest"
    <3>1. pc[c] = "fork" /\ pc' = [pc EXCEPT ![c] = "close"]
      BY <1>6, <2>2 DEF ForkFails, ForkPoint, At
    <3> QED
      BY <1>6, <2>2, <3>1, CallMembers DEF ForkFails, Returned, TypeOK, OrderInv
  <2> QED
    BY <2>1, <2>2
<1>7. ASSUME NEW c \in Calls, CloseWrite(c) PROVE OrderInv'
  BY <1>7, CallTypes, CallMembers
     DEF CloseWrite, At, kernel, ForkPoint, Ready, Returned, PlaceInv, TypeOK,
         OrderInv
<1>8. ASSUME NEW c \in Calls, ReadOutput(c) PROVE OrderInv'
  BY <1>8, CallTypes, CallMembers
     DEF ReadOutput, At, kernel, ForkPoint, Ready, Returned, PlaceInv, TypeOK,
         OrderInv
<1>9. ASSUME NEW c \in Calls, EndOutput(c) PROVE OrderInv'
  BY <1>9, CallTypes, CallMembers
     DEF EndOutput, At, kernel, ForkPoint, Ready, Returned, PlaceInv, TypeOK,
         OrderInv
<1>10. ASSUME NEW c \in Calls, CloseOutput(c) PROVE OrderInv'
  BY <1>10, CallTypes, CallMembers
     DEF CloseOutput, At, kernel, ForkPoint, Ready, Returned, PlaceInv, TypeOK,
         OrderInv
<1>11. ASSUME NEW c \in Calls, ReadOnce(c) PROVE OrderInv'
  BY <1>11, CallTypes, CallMembers
     DEF ReadOnce, At, kernel, ForkPoint, Ready, Returned, PlaceInv, TypeOK,
         OrderInv
<1>12. ASSUME NEW c \in Calls, Wait(c) PROVE OrderInv'
  <2>1. /\ pc[c] = "wait" /\ pc' = [pc EXCEPT ![c] = "done"] /\ Kind(c) # "compile"
        /\ chunks' = chunks /\ server' = server
        /\ errors' = IF Kind(c) = "error"
                     THEN [errors EXCEPT ![c[1]] = "reads"] ELSE errors
    BY <1>12 DEF Wait, At, PlaceInv
  <2>2. CASE Kind(c) = "error"
    <3>1. c[1] \in Workers /\ c[2][2] \in 1 .. MaxErrors /\ c = Error(c[1], c[2][2])
      BY <2>2, CallTypes
    <3>2. errors[c[1]] = "calls" /\ chunks[c[1]] = c[2][2]
      BY <2>1, <3>1 DEF OrderInv
    <3>3. \A n \in 1 .. MaxErrors :
            n # c[2][2] => pc[Error(c[1], n)] \in {"idle", "done", "failed"}
      BY <3>1, <3>2 DEF OrderInv
    <3>4. \A n \in 1 .. MaxErrors : pc'[Error(c[1], n)] \in {"idle", "done", "failed"}
      BY <2>1, <3>1, <3>3, CallMembers DEF TypeOK
    <3>5. \A w \in Workers, k \in {"compile", "failed", "digest"} :
            pc'[Call(w, k)] = pc[Call(w, k)]
      BY <2>1, <2>2, CallMembers DEF TypeOK
    <3>6. \A w \in Workers \ {c[1]} :
            /\ errors'[w] = errors[w]
            /\ \A n \in 1 .. MaxErrors : pc'[Error(w, n)] = pc[Error(w, n)]
      BY <2>1, <2>2, CallMembers DEF TypeOK
    <3>7. pc[Call(c[1], "compile")] \notin {"idle", "second", "fork", "close", "failed"}
      BY <3>1, <3>2 DEF OrderInv
    <3> QED
      BY <2>1, <3>4, <3>5, <3>6, <3>7 DEF Returned, OrderInv
  <2>3. CASE Kind(c) # "error"
    BY <2>1, <2>3, CallMembers DEF Returned, TypeOK, OrderInv
  <2> QED
    BY <2>2, <2>3
<1>13. ASSUME NEW c \in Calls, Write(c) PROVE OrderInv'
  BY <1>13, CallTypes, CallMembers
     DEF Write, At, kernel, ForkPoint, Ready, Returned, PlaceInv, TypeOK,
         OrderInv
<1>14. ASSUME NEW c \in Calls, Exit(c) PROVE OrderInv'
  BY <1>14, CallTypes, CallMembers
     DEF Exit, At, kernel, ForkPoint, Ready, Returned, PlaceInv, TypeOK,
         OrderInv
<1>15. ASSUME NEW w \in Workers, ReadError(w) PROVE OrderInv'
  BY <1>15, CallTypes, CallMembers
     DEF ReadError, At, kernel, ForkPoint, Ready, Returned, PlaceInv, TypeOK,
         OrderInv
<1>16. ASSUME NEW w \in Workers, EndErrors(w) PROVE OrderInv'
  BY <1>16, CallTypes, CallMembers
     DEF EndErrors, At, kernel, ForkPoint, Ready, Returned, PlaceInv, TypeOK,
         OrderInv
<1>17. CASE UNCHANGED vars
  BY <1>17
     DEF vars, kernel, At, kernel, ForkPoint, Ready, Returned, PlaceInv, TypeOK,
         OrderInv
<1> QED
  BY <1>1, <1>2, <1>3, <1>4, <1>5, <1>6, <1>7, <1>8, <1>9, <1>10, <1>11, <1>12,
     <1>13, <1>14, <1>15, <1>16, <1>17
     DEF Next, CallStep, ChildStep, ErrorStep, Finished

(* Chunks of stderr move from the child to the pipe to the error thread. *)
LEMMA NextCountInv ==
  ASSUME PInv, [Next]_vars
  PROVE  CountInv'
<1> USE DEF PInv
<1>1. ASSUME NEW c \in Calls, OpenPipe(c) PROVE CountInv'
  BY <1>1 DEF OpenPipe, kernel, CountInv
<1>2. ASSUME NEW c \in Calls, PipeFails(c) PROVE CountInv'
  BY <1>2 DEF PipeFails, kernel, CountInv
<1>3. ASSUME NEW c \in Calls, OpenSecond(c) PROVE CountInv'
  BY <1>3 DEF OpenSecond, kernel, CountInv
<1>4. ASSUME NEW c \in Calls, SecondFails(c) PROVE CountInv'
  BY <1>4 DEF SecondFails, kernel, CountInv
<1>5. ASSUME NEW c \in Calls, Fork(c) PROVE CountInv'
  <2> SUFFICES ASSUME NEW w \in Workers
               PROVE  (chunks[w] + data[Stderr(w)] + left[Stderr(w)] <= MaxErrors)'
    BY DEF CountInv
  <2>1. PICK m \in Nat, n \in 0 .. MaxErrors :
          \A p \in Pipes : left'[p] = IF p[1] # c THEN left[p]
                                   ELSE IF p[2] = "err" THEN n ELSE m
    BY <1>5, ForkWrites
  <2>2. /\ Stderr(w) \in Pipes /\ Stderr(w)[1] = Call(w, "compile") /\ Stderr(w)[2] = "err"
        /\ chunks' = chunks /\ data' = data
    BY <1>5, StderrPipe DEF Fork
  <2>3. CASE c = Call(w, "compile")
    <3>1. pc[c] = "fork" /\ Kind(c) = "compile"
      BY <1>5, <2>3, CallMembers DEF Fork, ForkPoint, At
    <3>2. chunks[w] = 0 /\ data[Stderr(w)] = 0
      BY <2>2, <2>3, <3>1 DEF OrderInv, PipeInv, PipeSound
    <3>3. left'[Stderr(w)] = n
      BY <2>1, <2>2, <2>3
    <3> QED
      BY <2>2, <3>2, <3>3, ConstantTypes
  <2>4. CASE c # Call(w, "compile")
    BY <2>1, <2>2, <2>4 DEF CountInv
  <2> QED
    BY <2>3, <2>4
<1>6. ASSUME NEW c \in Calls, ForkFails(c) PROVE CountInv'
  BY <1>6 DEF ForkFails, kernel, CountInv
<1>7. ASSUME NEW c \in Calls, CloseWrite(c) PROVE CountInv'
  BY <1>7 DEF CloseWrite, kernel, CountInv
<1>8. ASSUME NEW c \in Calls, ReadOutput(c) PROVE CountInv'
  <2>1. \A w \in Workers : Stderr(w) # <<c, "out">> /\ Stderr(w) \in Pipes
    BY StderrPipe DEF Stderr
  <2>2. \A w \in Workers : data'[Stderr(w)] = data[Stderr(w)]
    BY <1>8, <2>1 DEF ReadOutput, TypeOK
  <2> QED
    BY <1>8, <2>2 DEF ReadOutput, CountInv
<1>9. ASSUME NEW c \in Calls, EndOutput(c) PROVE CountInv'
  BY <1>9 DEF EndOutput, kernel, CountInv
<1>10. ASSUME NEW c \in Calls, CloseOutput(c) PROVE CountInv'
  BY <1>10 DEF CloseOutput, kernel, CountInv
<1>11. ASSUME NEW c \in Calls, ReadOnce(c) PROVE CountInv'
  <2>1. \A w \in Workers : Stderr(w) # <<c, "out">> /\ Stderr(w) \in Pipes
    BY StderrPipe DEF Stderr
  <2>2. \A w \in Workers : data'[Stderr(w)] = data[Stderr(w)]
    BY <1>11, <2>1 DEF ReadOnce, TypeOK
  <2> QED
    BY <1>11, <2>2 DEF ReadOnce, CountInv
<1>12. ASSUME NEW c \in Calls, Wait(c) PROVE CountInv'
  BY <1>12 DEF Wait, kernel, CountInv
<1>13. ASSUME NEW c \in Calls, Write(c) PROVE CountInv'
  <2> SUFFICES ASSUME NEW w \in Workers
               PROVE  (chunks[w] + data[Stderr(w)] + left[Stderr(w)] <= MaxErrors)'
    BY DEF CountInv
  <2>1. PICK p \in PipesOf(c) : Write(c)!(p)
    BY <1>13 DEF Write
  <2>2. p \in Pipes /\ Stderr(w) \in Pipes
    BY PipesOfCall, StderrPipe
  <2>3. /\ chunks' = chunks /\ chunks[w] \in Nat
        /\ data[Stderr(w)] \in Nat /\ left[Stderr(w)] \in Nat
    BY <2>1, <2>2, ConstantTypes DEF TypeOK
  <2>4. data'[Stderr(w)] + left'[Stderr(w)] = data[Stderr(w)] + left[Stderr(w)]
    BY <2>1, <2>2, <2>3 DEF TypeOK
  <2>5. data'[Stderr(w)] \in Int /\ left'[Stderr(w)] \in Int
    BY <2>1, <2>2, <2>3 DEF TypeOK
  <2> QED
    BY <2>3, <2>4, <2>5, ConstantTypes DEF CountInv
<1>14. ASSUME NEW c \in Calls, Exit(c) PROVE CountInv'
  BY <1>14 DEF Exit, kernel, CountInv
<1>15. ASSUME NEW w \in Workers, ReadError(w) PROVE CountInv'
  <2> SUFFICES ASSUME NEW u \in Workers
               PROVE  (chunks[u] + data[Stderr(u)] + left[Stderr(u)] <= MaxErrors)'
    BY DEF CountInv
  <2>1. /\ Stderr(u) \in Pipes /\ Stderr(w) \in Pipes
        /\ Stderr(u) = Stderr(w) => u = w
    BY StderrPipe DEF Stderr, Call
  <2>2. /\ chunks[u] \in Nat /\ data[Stderr(u)] \in Nat /\ left[Stderr(u)] \in Nat
    BY <2>1, ConstantTypes DEF TypeOK
  <2>3. CASE u = w
    BY <1>15, <2>1, <2>2, <2>3, ConstantTypes DEF ReadError, TypeOK, CountInv
  <2>4. CASE u # w
    BY <1>15, <2>1, <2>2, <2>4 DEF ReadError, TypeOK, CountInv
  <2> QED
    BY <2>3, <2>4
<1>16. ASSUME NEW w \in Workers, EndErrors(w) PROVE CountInv'
  BY <1>16 DEF EndErrors, kernel, CountInv
<1>17. CASE UNCHANGED vars
  BY <1>17 DEF vars, kernel, CountInv
<1> QED
  BY <1>1, <1>2, <1>3, <1>4, <1>5, <1>6, <1>7, <1>8, <1>9, <1>10, <1>11, <1>12,
     <1>13, <1>14, <1>15, <1>16, <1>17
     DEF Next, CallStep, ChildStep, ErrorStep, Finished

(* A call that returns has closed what it opened, but for the first pipe   *)
(* of a run_process that got no second.                                    *)
LEMMA NextDescriptors ==
  ASSUME PInv, [Next]_vars
  PROVE  DescriptorsAccounted'
<1> USE DEF PInv
<1>1. ASSUME NEW c \in Calls, OpenPipe(c) PROVE DescriptorsAccounted'
  BY <1>1, PipesOfCall, CallOfPipe, CallTypes
     DEF OpenPipe, At, kernel, ForkPoint, Ready, Ends, InUse, Leaked, PlaceInv,
         TypeOK, OrderInv, DescriptorsAccounted
<1>2. ASSUME NEW c \in Calls, PipeFails(c) PROVE DescriptorsAccounted'
  BY <1>2, PipesOfCall, CallOfPipe, CallTypes
     DEF PipeFails, At, kernel, ForkPoint, Ready, Ends, InUse, Leaked, PlaceInv,
         TypeOK, OrderInv, DescriptorsAccounted
<1>3. ASSUME NEW c \in Calls, OpenSecond(c) PROVE DescriptorsAccounted'
  BY <1>3, PipesOfCall, CallOfPipe, CallTypes
     DEF OpenSecond, At, kernel, ForkPoint, Ready, Ends, InUse, Leaked,
         PlaceInv, TypeOK, OrderInv, DescriptorsAccounted
<1>4. ASSUME NEW c \in Calls, SecondFails(c) PROVE DescriptorsAccounted'
  <2>1. Kind(c) = "compile" /\ c = Call(c[1], "compile") /\ c[1] \in Workers
    BY <1>4, CallTypes DEF SecondFails, At, PlaceInv
  <2>2. errors[c[1]] = "none"
    BY <1>4, <2>1 DEF SecondFails, At, OrderInv
  <2> QED
    BY <1>4, <2>1, <2>2, CallOfPipe
       DEF SecondFails, At, kernel, InUse, Leaked, TypeOK, DescriptorsAccounted
<1>5. ASSUME NEW c \in Calls, Fork(c) PROVE DescriptorsAccounted'
  BY <1>5, PipesOfCall, CallOfPipe, CallTypes
     DEF Fork, At, kernel, ForkPoint, Ready, Ends, InUse, Leaked, PlaceInv,
         TypeOK, OrderInv, DescriptorsAccounted
<1>6. ASSUME NEW c \in Calls, ForkFails(c) PROVE DescriptorsAccounted'
  BY <1>6, PipesOfCall, CallOfPipe, CallTypes
     DEF ForkFails, At, kernel, ForkPoint, Ready, Ends, InUse, Leaked, PlaceInv,
         TypeOK, OrderInv, DescriptorsAccounted
<1>7. ASSUME NEW c \in Calls, CloseWrite(c) PROVE DescriptorsAccounted'
  BY <1>7, PipesOfCall, CallOfPipe, CallTypes
     DEF CloseWrite, At, kernel, ForkPoint, Ready, Ends, InUse, Leaked,
         PlaceInv, TypeOK, OrderInv, DescriptorsAccounted
<1>8. ASSUME NEW c \in Calls, ReadOutput(c) PROVE DescriptorsAccounted'
  BY <1>8, PipesOfCall, CallOfPipe, CallTypes
     DEF ReadOutput, At, kernel, ForkPoint, Ready, Ends, InUse, Leaked,
         PlaceInv, TypeOK, OrderInv, DescriptorsAccounted
<1>9. ASSUME NEW c \in Calls, EndOutput(c) PROVE DescriptorsAccounted'
  BY <1>9, PipesOfCall, CallOfPipe, CallTypes
     DEF EndOutput, At, kernel, ForkPoint, Ready, Ends, InUse, Leaked, PlaceInv,
         TypeOK, OrderInv, DescriptorsAccounted
<1>10. ASSUME NEW c \in Calls, CloseOutput(c) PROVE DescriptorsAccounted'
  BY <1>10, PipesOfCall, CallOfPipe, CallTypes
     DEF CloseOutput, At, kernel, ForkPoint, Ready, Ends, InUse, Leaked,
         PlaceInv, TypeOK, OrderInv, DescriptorsAccounted
<1>11. ASSUME NEW c \in Calls, ReadOnce(c) PROVE DescriptorsAccounted'
  BY <1>11, PipesOfCall, CallOfPipe, CallTypes
     DEF ReadOnce, At, kernel, ForkPoint, Ready, Ends, InUse, Leaked, PlaceInv,
         TypeOK, OrderInv, DescriptorsAccounted
<1>12. ASSUME NEW c \in Calls, Wait(c) PROVE DescriptorsAccounted'
  BY <1>12, PipesOfCall, CallOfPipe, CallTypes
     DEF Wait, At, kernel, ForkPoint, Ready, Ends, InUse, Leaked, PlaceInv,
         TypeOK, OrderInv, DescriptorsAccounted
<1>13. ASSUME NEW c \in Calls, Write(c) PROVE DescriptorsAccounted'
  BY <1>13, PipesOfCall, CallOfPipe, CallTypes
     DEF Write, At, kernel, ForkPoint, Ready, Ends, InUse, Leaked, PlaceInv,
         TypeOK, OrderInv, DescriptorsAccounted
<1>14. ASSUME NEW c \in Calls, Exit(c) PROVE DescriptorsAccounted'
  BY <1>14, PipesOfCall, CallOfPipe, CallTypes
     DEF Exit, At, kernel, ForkPoint, Ready, Ends, InUse, Leaked, PlaceInv,
         TypeOK, OrderInv, DescriptorsAccounted
<1>15. ASSUME NEW w \in Workers, ReadError(w) PROVE DescriptorsAccounted'
  BY <1>15, PipesOfCall, CallOfPipe, CallTypes
     DEF ReadError, At, kernel, ForkPoint, Ready, Ends, InUse, Leaked, PlaceInv,
         TypeOK, OrderInv, DescriptorsAccounted
<1>16. ASSUME NEW w \in Workers, EndErrors(w) PROVE DescriptorsAccounted'
  <2> SUFFICES ASSUME NEW d \in open'
               PROVE  \/ /\ InUse(d[1])'
                         /\ d[2] = "w" => pc'[d[1][1]] \in {"second", "fork", "close"}
                      \/ Leaked(d[1])'
    BY DEF DescriptorsAccounted
  <2>1. /\ d \in open /\ d # <<Stderr(w), "r">> /\ d # <<Stderr(w), "w">>
        /\ pc' = pc
    BY <1>16 DEF EndErrors, EndOfFile
  <2>2. d[1] \in Pipes /\ d[1] # Stderr(w)
    BY <2>1 DEF TypeOK
  <2>3. d[1][2] # "out" => d[1] = Stderr(d[1][1][1]) /\ d[1][1][1] # w
    BY <2>2, CallOfPipe
  <2>4. errors'[d[1][1][1]] = errors[d[1][1][1]] \/ d[1][2] = "out"
    BY <1>16, <2>2, <2>3, CallOfPipe, CallTypes DEF EndErrors, TypeOK
  <2> QED
    BY <2>1, <2>2, <2>4, CallOfPipe DEF DescriptorsAccounted, InUse, Leaked
<1>17. CASE UNCHANGED vars
  BY <1>17
     DEF vars, kernel, At, kernel, ForkPoint, Ready, Ends, InUse, Leaked,
         PlaceInv, TypeOK, OrderInv, DescriptorsAccounted
<1> QED
  BY <1>1, <1>2, <1>3, <1>4, <1>5, <1>6, <1>7, <1>8, <1>9, <1>10, <1>11, <1>12,
     <1>13, <1>14, <1>15, <1>16, <1>17
     DEF Next, CallStep, ChildStep, ErrorStep, Finished

(* A running compiler holds the write end of its output, so there is no    *)
(* end of file before its end; nor does anything get into the pipe after.  *)
LEMMA NextEnd ==
  ASSUME PInv, [Next]_vars
  PROVE  EndMeansAllRead'
<1> USE DEF PInv
<1>1. ASSUME NEW c \in Calls, OpenPipe(c) PROVE EndMeansAllRead'
  BY <1>1, CallMembers, StderrPipe
     DEF OpenPipe, At, kernel, ForkPoint, Ready, PlaceInv, PipeInv, TypeOK,
         EndMeansAllRead
<1>2. ASSUME NEW c \in Calls, PipeFails(c) PROVE EndMeansAllRead'
  BY <1>2, CallMembers, StderrPipe
     DEF PipeFails, At, kernel, ForkPoint, Ready, PlaceInv, PipeInv, TypeOK,
         EndMeansAllRead
<1>3. ASSUME NEW c \in Calls, OpenSecond(c) PROVE EndMeansAllRead'
  BY <1>3, CallMembers, StderrPipe
     DEF OpenSecond, At, kernel, ForkPoint, Ready, PlaceInv, PipeInv, TypeOK,
         EndMeansAllRead
<1>4. ASSUME NEW c \in Calls, SecondFails(c) PROVE EndMeansAllRead'
  BY <1>4, CallMembers, StderrPipe
     DEF SecondFails, At, kernel, ForkPoint, Ready, PlaceInv, PipeInv, TypeOK,
         EndMeansAllRead
<1>5. ASSUME NEW c \in Calls, Fork(c) PROVE EndMeansAllRead'
  <2> SUFFICES ASSUME NEW w \in Workers,
                      pc'[Call(w, "compile")] \in {"ended", "done"}
               PROVE  /\ child'[Call(w, "compile")] # "runs"
                      /\ left'[<<Call(w, "compile"), "out">>] = 0
                      /\ data'[<<Call(w, "compile"), "out">>] = 0
    BY DEF EndMeansAllRead
  <2> DEFINE e == Call(w, "compile")
  <2>1. e \in Calls /\ Kind(e) = "compile" /\ <<e, "out">> \in Pipes
    BY CallMembers, StderrPipe
  <2>2. e # c
    BY <1>5, <2>1 DEF Fork, ForkPoint, At, TypeOK
  <2>4. left'[<<e, "out">>] = left[<<e, "out">>]
    BY <1>5, <2>1, <2>2, ForkWrites
  <2>5. pc'[e] = pc[e] /\ child'[e] = child[e] /\ data' = data
    BY <1>5, <2>1, <2>2 DEF Fork, ForkPoint, At, TypeOK
  <2> QED
    BY <2>4, <2>5 DEF EndMeansAllRead
<1>6. ASSUME NEW c \in Calls, ForkFails(c) PROVE EndMeansAllRead'
  BY <1>6, CallMembers, StderrPipe
     DEF ForkFails, At, kernel, ForkPoint, Ready, PlaceInv, PipeInv, TypeOK,
         EndMeansAllRead
<1>7. ASSUME NEW c \in Calls, CloseWrite(c) PROVE EndMeansAllRead'
  BY <1>7, CallMembers, StderrPipe
     DEF CloseWrite, At, kernel, ForkPoint, Ready, PlaceInv, PipeInv, TypeOK,
         EndMeansAllRead
<1>8. ASSUME NEW c \in Calls, ReadOutput(c) PROVE EndMeansAllRead'
  BY <1>8, CallMembers, StderrPipe
     DEF ReadOutput, At, kernel, ForkPoint, Ready, PlaceInv, PipeInv, TypeOK,
         EndMeansAllRead
<1>9. ASSUME NEW c \in Calls, EndOutput(c) PROVE EndMeansAllRead'
  <2>1. /\ c = Call(c[1], "compile") /\ <<c, "out">> \in Pipes
        /\ EndOfFile(<<c, "out">>)
    BY <1>9, CallTypes, OutPipe DEF EndOutput
  <2>2. child[c] # "runs"
    BY <2>1 DEF EndOfFile, PipeInv, PipeSound
  <2>3. left[<<c, "out">>] = 0 /\ data[<<c, "out">>] = 0
    BY <2>1, <2>2 DEF EndOfFile, PipeInv, PipeSound
  <2>4. \A w \in Workers :
          Call(w, "compile") # c => pc'[Call(w, "compile")] = pc[Call(w, "compile")]
    BY <1>9, CallMembers DEF EndOutput, At, TypeOK
  <2> QED
    BY <1>9, <2>2, <2>3, <2>4 DEF EndOutput, kernel, EndMeansAllRead
<1>10. ASSUME NEW c \in Calls, CloseOutput(c) PROVE EndMeansAllRead'
  BY <1>10, CallMembers, StderrPipe
     DEF CloseOutput, At, kernel, ForkPoint, Ready, PlaceInv, PipeInv, TypeOK,
         EndMeansAllRead
<1>11. ASSUME NEW c \in Calls, ReadOnce(c) PROVE EndMeansAllRead'
  <2>1. Kind(c) # "compile"
    BY <1>11 DEF ReadOnce
  <2>2. \A w \in Workers : Call(w, "compile") # c /\ Call(w, "compile") \in Calls
    BY <2>1, CallMembers
  <2>3. \A w \in Workers : pc'[Call(w, "compile")] = pc[Call(w, "compile")]
    BY <1>11, <2>2 DEF ReadOnce, At, TypeOK
  <2>4. \A w \in Workers : <<Call(w, "compile"), "out">> # <<c, "out">>
    BY <2>2
  <2>5. \A w \in Workers :
          data'[<<Call(w, "compile"), "out">>] = data[<<Call(w, "compile"), "out">>]
    BY <1>11, <2>4, StderrPipe DEF ReadOnce, TypeOK
  <2> QED
    BY <1>11, <2>3, <2>5 DEF ReadOnce, EndMeansAllRead
<1>12. ASSUME NEW c \in Calls, Wait(c) PROVE EndMeansAllRead'
  BY <1>12, CallMembers, StderrPipe
     DEF Wait, At, kernel, ForkPoint, Ready, PlaceInv, PipeInv, TypeOK,
         EndMeansAllRead
<1>13. ASSUME NEW c \in Calls, Write(c) PROVE EndMeansAllRead'
  BY <1>13, CallMembers, StderrPipe
     DEF Write, At, kernel, ForkPoint, Ready, PlaceInv, PipeInv, TypeOK,
         EndMeansAllRead
<1>14. ASSUME NEW c \in Calls, Exit(c) PROVE EndMeansAllRead'
  BY <1>14, CallMembers, StderrPipe
     DEF Exit, At, kernel, ForkPoint, Ready, PlaceInv, PipeInv, TypeOK,
         EndMeansAllRead
<1>15. ASSUME NEW w \in Workers, ReadError(w) PROVE EndMeansAllRead'
  BY <1>15, CallMembers, StderrPipe
     DEF ReadError, At, kernel, ForkPoint, Ready, PlaceInv, PipeInv, TypeOK,
         EndMeansAllRead
<1>16. ASSUME NEW w \in Workers, EndErrors(w) PROVE EndMeansAllRead'
  BY <1>16, CallMembers, StderrPipe
     DEF EndErrors, At, kernel, ForkPoint, Ready, PlaceInv, PipeInv, TypeOK,
         EndMeansAllRead
<1>17. CASE UNCHANGED vars
  BY <1>17
     DEF vars, kernel, At, kernel, ForkPoint, Ready, PlaceInv, PipeInv, TypeOK,
         EndMeansAllRead
<1> QED
  BY <1>1, <1>2, <1>3, <1>4, <1>5, <1>6, <1>7, <1>8, <1>9, <1>10, <1>11, <1>12,
     <1>13, <1>14, <1>15, <1>16, <1>17
     DEF Next, CallStep, ChildStep, ErrorStep, Finished

------------------------------------------------------------------------------
(* The inductive invariant. *)
LEMMA ProcessesInv == Spec => []PInv
<1>1. PInv /\ [Next]_vars => PInv'
  BY NextTypeOK, NextPlaceInv, NextPipeInv, NextStatusInv, NextOrderInv,
     NextCountInv, NextDescriptors, NextEnd DEF PInv
<1> QED
  BY PInit, <1>1, PTL DEF Spec

(* Every variable keeps its type: no pipe of run_process, spawn_waitvp or  *)
(* spawn_wait_outvp holds more than it can, and no error thread sees more  *)
(* chunks of stderr than its compiler wrote.                               *)
THEOREM ProcessTypeCorrect == Spec => []TypeOK
BY ProcessesInv, PTL DEF PInv

(* A worker that sees the end of its compiler's output has read all of it, *)
(* from a compiler that has ended, whatever children have inherited its    *)
(* pipe and even if its fork failed.                                       *)
THEOREM EndsAreEnds == Spec => []EndMeansAllRead
BY ProcessesInv, PTL DEF PInv

(* Every descriptor that subprocess.c has open is in use, or of the first  *)
(* pipe of a run_process that got no second.                               *)
THEOREM DescriptorsAreAccounted == Spec => []DescriptorsAccounted
BY ProcessesInv, PTL DEF PInv

(* As long as no fork has failed, the spawn functions return the status of *)
(* the child they made.                                                    *)
THEOREM StatusesAreOwn == Spec => []StatusIsOwn
<1>1. PInv => StatusIsOwn
  <2> SUFFICES ASSUME PInv, ~forkFailed, NEW c \in Calls, result[c] \notin {-1, 3293}
               PROVE  child[c] = "reaped" /\ result[c] = status[c]
    BY DEF StatusIsOwn
  <2> QED
    BY DEF PInv, StatusInv
<1> QED
  BY <1>1, ProcessesInv, PTL

(* The children whose fork succeeded and that nobody has waited for when   *)
(* all is done are compilers.                                              *)
THEOREM OnlyCompilersAreLeft == Spec => []OnlyCompilersLeft
<1>1. PInv => OnlyCompilersLeft
  <2> SUFFICES ASSUME PInv, AllDone, ~forkFailed, NEW c \in Calls,
                      child[c] = "zombie", Kind(c) # "compile"
               PROVE  FALSE
    BY DEF OnlyCompilersLeft
  <2> DEFINE w == c[1]
  <2>1. pc[c] \notin {"idle", "failed", "done"}
    BY DEF PInv, PipeInv, StatusInv
  <2>2. w \in Workers /\ WorkerDone(w)
    BY CallTypes DEF AllDone
  <2>3. CASE Kind(c) = "error"
    <3>1. errors[w] = "calls"
      BY <2>1, <2>3, CallTypes DEF PInv, OrderInv
    <3> QED
      BY <2>2, <3>1 DEF WorkerDone
  <2>4. CASE Kind(c) = "digest"
    <3>1. c = Call(w, "digest")
      BY <2>4, CallTypes
    <3>2. w \in server
      BY <2>1, <2>2, <3>1 DEF PInv, OrderInv
    <3> QED
      BY <2>1, <2>2, <3>1, <3>2 DEF WorkerDone, Returned
  <2>5. CASE Kind(c) = "failed"
    <3>1. c = Call(w, "failed")
      BY <2>5, CallTypes
    <3>2. w \in server /\ pc[Call(w, "compile")] = "failed"
      BY <2>1, <2>2, <3>1 DEF PInv, OrderInv
    <3>3. pc[Call(w, "digest")] # "idle"
      BY <2>2, <3>2 DEF WorkerDone, Returned
    <3>4. Returned(c)
      BY <2>2, <3>1, <3>2, <3>3 DEF PInv, OrderInv
    <3> QED
      BY <2>1, <3>4 DEF Returned
  <2> QED
    BY <2>3, <2>4, <2>5, CallTypes
<1> QED
  BY <1>1, ProcessesInv, PTL
==============================================================================
