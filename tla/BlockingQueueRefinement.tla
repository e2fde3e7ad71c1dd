----------------------- MODULE BlockingQueueRefinement -----------------------
(***************************************************************************)
(* BlockingQueue implements FifoQueue.  The item of an add is on the queue *)
(* from the step that links its cell to the tail; the item of a take is    *)
(* off the queue from the step that reads the head.                        *)
(***************************************************************************)
EXTENDS BlockingQueueProofs, SequenceTheorems

(* The data of the cells from lo to hi, in order. *)
Segment(f, lo, hi) == [i \in 1 .. (hi + 1 - lo) |-> f[lo + i - 1]]

LEMMA SegmentProperties ==
  ASSUME NEW f, NEW lo \in Nat, NEW hi \in Nat, lo <= hi + 1
  PROVE  /\ Segment(f, lo, hi) \in Seq({f[c] : c \in lo .. hi})
         /\ Len(Segment(f, lo, hi)) = hi + 1 - lo
<1> DEFINE n == hi + 1 - lo
           S == {f[c] : c \in lo .. hi}
           g == [i \in 1 .. n |-> f[lo + i - 1]]
<1>1. n \in Nat
  OBVIOUS
<1>2. \A i \in 1 .. n : g[i] \in S
  <2> SUFFICES ASSUME NEW i \in 1 .. n PROVE f[lo + i - 1] \in S
    OBVIOUS
  <2>1. lo + i - 1 \in lo .. hi
    BY <1>1
  <2> QED
    BY <2>1
<1>3. g \in Seq(S) /\ Len(g) = n
  <2> HIDE DEF n, S
  <2> QED
    BY <1>1, <1>2, IsASeq
<1> QED
  BY <1>3 DEF Segment

(* Linking one more cell appends its item ... *)
LEMMA SegmentAppend ==
  ASSUME NEW f, NEW lo \in Nat, NEW hi \in Nat, lo <= hi + 1
  PROVE  Segment(f, lo, hi + 1) = Append(Segment(f, lo, hi), f[hi + 1])
<1> DEFINE k == hi + 1
           S == {f[c] : c \in lo .. k}
           s == Segment(f, lo, hi)
           t == Segment(f, lo, k)
           a == Append(s, f[k])
<1>1. f[k] \in S /\ {f[c] : c \in lo .. hi} \subseteq S
  OBVIOUS
<1>2. /\ s \in Seq(S) /\ Len(s) = k - lo
      /\ \A i \in 1 .. (k - lo) : s[i] = f[lo + i - 1]
  <2>1. s \in Seq({f[c] : c \in lo .. hi}) /\ Len(s) = hi + 1 - lo
    BY SegmentProperties
  <2>2. s \in Seq(S)
    <3> HIDE DEF s, S
    <3> QED
      BY <1>1, <2>1, SeqMonotonic
  <2>3. Len(s) = k - lo
    BY <2>1
  <2>4. \A i \in 1 .. (k - lo) : s[i] = f[lo + i - 1]
    BY DEF Segment
  <2> QED
    BY <2>2, <2>3, <2>4
<1>3. /\ t \in Seq(S) /\ Len(t) = k + 1 - lo
      /\ \A i \in 1 .. (k + 1 - lo) : t[i] = f[lo + i - 1]
  <2>1. k \in Nat /\ lo <= k + 1
    OBVIOUS
  <2> HIDE DEF k
  <2>2. t \in Seq(S) /\ Len(t) = k + 1 - lo
    BY <2>1, SegmentProperties
  <2>3. \A i \in 1 .. (k + 1 - lo) : t[i] = f[lo + i - 1]
    BY DEF Segment
  <2> QED
    BY <2>2, <2>3
<1> HIDE DEF s, t, S
<1>4. /\ a \in Seq(S) /\ Len(a) = Len(s) + 1
      /\ \A i \in 1 .. Len(s) : a[i] = s[i]
      /\ a[Len(s) + 1] = f[k]
  BY <1>1, <1>2, AppendProperties
<1> HIDE DEF a
<1>5. Len(a) = Len(t)
  BY <1>2, <1>3, <1>4
<1>6. ASSUME NEW i \in 1 .. Len(t) PROVE t[i] = a[i]
  <2>1. CASE i \in 1 .. Len(s)
    BY <1>2, <1>3, <1>4, <2>1
  <2>2. CASE i = Len(s) + 1
    <3>1. i \in 1 .. (k + 1 - lo) /\ lo + i - 1 = k
      BY <1>2, <2>2
    <3>2. t[i] = f[lo + i - 1]
      BY <1>3, <3>1
    <3> QED
      BY <1>4, <2>2, <3>1, <3>2
  <2> QED
    BY <1>2, <1>3, <2>1, <2>2
<1>7. t = a
  BY <1>3, <1>4, <1>5, <1>6, SeqEqual
<1> QED
  BY <1>7 DEF a, t, s

(* ... and passing over the first cell removes its item. *)
LEMMA SegmentTail ==
  ASSUME NEW f, NEW lo \in Nat, NEW hi \in Nat, lo <= hi
  PROVE  /\ Segment(f, lo, hi) # <<>>
         /\ Head(Segment(f, lo, hi)) = f[lo]
         /\ Tail(Segment(f, lo, hi)) = Segment(f, lo + 1, hi)
<1> DEFINE k == lo + 1
           S == {f[c] : c \in lo .. hi}
           s == Segment(f, lo, hi)
           t == Segment(f, k, hi)
<1>1. {f[c] : c \in k .. hi} \subseteq S
  OBVIOUS
<1>2. /\ s \in Seq(S) /\ Len(s) = hi + 1 - lo
      /\ \A i \in 1 .. (hi + 1 - lo) : s[i] = f[lo + i - 1]
  <2>1. lo <= hi + 1
    OBVIOUS
  <2>2. s \in Seq(S) /\ Len(s) = hi + 1 - lo
    BY <2>1, SegmentProperties
  <2>3. \A i \in 1 .. (hi + 1 - lo) : s[i] = f[lo + i - 1]
    BY DEF Segment
  <2> QED
    BY <2>2, <2>3
<1>3. /\ t \in Seq(S) /\ Len(t) = hi + 1 - k
      /\ \A i \in 1 .. (hi + 1 - k) : t[i] = f[k + i - 1]
  <2>1. k \in Nat /\ k <= hi + 1
    OBVIOUS
  <2>2. t \in Seq({f[c] : c \in k .. hi}) /\ Len(t) = hi + 1 - k
    <3> HIDE DEF k
    <3> QED
      BY <2>1, SegmentProperties
  <2>3. t \in Seq(S)
    <3> HIDE DEF t, S
    <3> QED
      BY <1>1, <2>2, SeqMonotonic
  <2>4. \A i \in 1 .. (hi + 1 - k) : t[i] = f[k + i - 1]
    BY DEF Segment
  <2> QED
    BY <2>2, <2>3, <2>4
<1> HIDE DEF s, t, S
<1>4. s # <<>> /\ s[1] = f[lo]
  <2>1. 1 \in 1 .. (hi + 1 - lo) /\ lo + 1 - 1 = lo
    OBVIOUS
  <2>2. Len(s) > 0
    BY <1>2, <2>1
  <2> QED
    BY <1>2, <2>1, <2>2
<1>5. /\ Tail(s) \in Seq(S) /\ Len(Tail(s)) = Len(s) - 1
      /\ \A i \in 1 .. Len(Tail(s)) : Tail(s)[i] = s[i + 1]
  BY <1>2, <1>4, HeadTailProperties
<1>6. Len(Tail(s)) = Len(t)
  BY <1>2, <1>3, <1>5
<1>7. ASSUME NEW i \in 1 .. Len(t) PROVE Tail(s)[i] = t[i]
  <2>1. i \in 1 .. (hi + 1 - k) /\ i + 1 \in 1 .. (hi + 1 - lo)
    BY <1>3
  <2>2. lo + (i + 1) - 1 = k + i - 1
    OBVIOUS
  <2> HIDE DEF k
  <2> QED
    BY <1>2, <1>3, <1>5, <1>6, <2>1, <2>2
<1>8. Tail(s) = t
  BY <1>3, <1>5, <1>6, <1>7, SeqEqual
<1>9. Head(s) = s[1]
  BY <1>2, <1>4
<1> QED
  BY <1>4, <1>8, <1>9 DEF s, t

LEMMA SegmentEmpty ==
  ASSUME NEW f, NEW hi \in Nat
  PROVE  Segment(f, hi + 1, hi) = <<>>
BY DEF Segment

------------------------------------------------------------------------------
(* The queue that the list stands for. *)

LEMMA ContentsOfList ==
  /\ contents = IF head = 0 THEN <<>> ELSE Segment(data, front, tail)
  /\ contents' = IF head' = 0 THEN <<>> ELSE Segment(data', front', tail')
BY DEF contents, Segment

(* Only the ends of the list, the data of its cells and a take that is     *)
(* about to move the head matter.                                          *)
LEMMA SameContents ==
  ASSUME TypeOK, ListInv, UNCHANGED <<head, tail>>,
         \A c \in 1 .. allocated : data'[c] = data[c],
         \A t \in Takers : pc'[t] = "take_advance" <=> pc[t] = "take_advance"
  PROVE  contents' = contents
<1>1. front' = front
  BY DEF front
<1>2. CASE head = 0
  BY <1>2 DEF contents
<1>3. CASE head # 0
  <2>1. /\ head \in Nat /\ tail \in Nat /\ allocated \in Nat
        /\ 1 <= head /\ tail <= allocated /\ front \in {head, head + 1}
    BY <1>3 DEF TypeOK, ListInv, front
  <2>2. \A i \in 1 .. (tail + 1 - front) : front + i - 1 \in 1 .. allocated
    BY <2>1
  <2>3. \A i \in 1 .. (tail + 1 - front) : data'[front + i - 1] = data[front + i - 1]
    BY <2>2
  <2> QED
    BY <1>1, <1>3, <2>3 DEF contents
<1> QED
  BY <1>2, <1>3

(* The mutex: while t is inside a critical section no other thread is. *)
LEMMA Alone ==
  ASSUME MutexInv, NEW t \in Threads, pc[t] \in Holding
  PROVE  /\ mutex = t
         /\ \A u \in Threads : u # t => pc[u] \notin Holding
BY DEF MutexInv

LEMMA InitRefines == Init => Fifo!Init
BY DEF Init, Fifo!Init, contents

LEMMA AddFirstRefines ==
  ASSUME IInv, NEW t \in Adders, AddFirst(t)
  PROVE  \E v \in Values : Fifo!Add(v)
<1> USE DEF IInv
<1>1. /\ pc[t] = "add_first" /\ t \in Threads
      /\ \A u \in Threads : u # t => pc[u] \notin Holding
  BY Alone DEF AddFirst, Holding, AddPCs, Threads
<1>2. /\ head = 0 /\ head' = allocated /\ tail' = allocated
      /\ allocated \in Nat /\ allocated > 0 /\ data' = data /\ into' = into
  BY <1>1 DEF AddFirst, ListInv, Linking, TypeOK
<1>3. \A u \in Takers : pc'[u] # "take_advance"
  BY <1>1 DEF AddFirst, Sleepers, Holding, TypeOK, Threads
<1>4. front' = allocated
  BY <1>2, <1>3 DEF front
<1>5. contents' = Segment(data, allocated, allocated)
  BY <1>2, <1>4, ContentsOfList
<1>6. PICK n \in Nat : allocated = n + 1
  <2>1. allocated - 1 \in Nat /\ allocated = (allocated - 1) + 1
    BY <1>2
  <2> QED
    BY <2>1
<1>7. data[n + 1] \in Values
  BY <1>2, <1>6 DEF DataInv
<1>8. Segment(data, n + 1, n + 1) = Append(Segment(data, n + 1, n), data[n + 1])
  BY SegmentAppend
<1>9. Segment(data, n + 1, n) = <<>>
  BY SegmentEmpty
<1>10. contents = <<>>
  BY <1>2 DEF contents
<1>11. contents' = Append(contents, data[n + 1])
  BY <1>5, <1>6, <1>8, <1>9, <1>10
<1> QED
  BY <1>2, <1>7, <1>11 DEF Fifo!Add

LEMMA AddTailRefines ==
  ASSUME IInv, NEW t \in Adders, AddTail(t)
  PROVE  \E v \in Values : Fifo!Add(v)
<1> USE DEF IInv
<1>1. /\ pc[t] = "add_tail" /\ t \in Threads
      /\ \A u \in Threads : u # t => pc[u] \notin Holding
  BY Alone DEF AddTail, Goto, Holding, AddPCs, Threads
<1>2. /\ head # 0 /\ head <= tail /\ head \in Nat /\ tail \in Nat
      /\ head' = head /\ tail' = tail + 1 /\ allocated = tail + 1
      /\ data' = data /\ into' = into
  BY <1>1 DEF AddTail, ListInv, Linking, TypeOK
<1>3. \A u \in Takers : pc[u] # "take_advance" /\ pc'[u] # "take_advance"
  BY <1>1 DEF AddTail, Goto, Holding, TypeOK, Threads
<1>4. front = head /\ front' = head
  BY <1>2, <1>3 DEF front
<1>5. contents = Segment(data, head, tail) /\ contents' = Segment(data, head, tail + 1)
  BY <1>2, <1>4, ContentsOfList
<1>6. head <= tail + 1
  BY <1>2
<1>7. Segment(data, head, tail + 1) = Append(Segment(data, head, tail), data[tail + 1])
  BY <1>2, <1>6, SegmentAppend
<1>8. data[tail + 1] \in Values
  BY <1>2 DEF DataInv
<1> QED
  BY <1>2, <1>5, <1>7, <1>8 DEF Fifo!Add

LEMMA TakeReadRefines ==
  ASSUME IInv, NEW t \in Takers, TakeRead(t)
  PROVE  Fifo!Take(t) \/ UNCHANGED Fifo!vars
<1> USE DEF IInv
<1>1. /\ pc[t] = "take_read" /\ t \in Threads
      /\ \A u \in Threads : u # t => pc[u] \notin Holding
  BY Alone DEF TakeRead, Holding, AddPCs, Threads
<1>2. UNCHANGED <<head, tail, data>>
  BY DEF TakeRead, list
<1>3. \A u \in Takers : pc[u] # "take_advance"
  BY <1>1 DEF Holding, Threads
<1>4. CASE head = 0
  <2>1. UNCHANGED <<pc, into>>
    BY <1>4 DEF TakeRead
  <2>2. contents' = contents
    BY <1>2, <1>4 DEF contents
  <2> QED
    BY <2>1, <2>2 DEF Fifo!vars
<1>5. CASE head # 0
  <2>1. /\ pc' = [pc EXCEPT ![t] = "take_advance"]
        /\ into' = [into EXCEPT ![t] = data[head]]
    BY <1>5 DEF TakeRead
  <2>2. pc'[t] = "take_advance"
    BY <1>1, <2>1 DEF TypeOK
  <2>3. front = head /\ front' = head + 1
    BY <1>2, <1>3, <2>2 DEF front
  <2>4. /\ contents = Segment(data, head, tail)
        /\ contents' = Segment(data, head + 1, tail)
    BY <1>2, <1>5, <2>3, ContentsOfList
  <2>5. /\ head \in Nat /\ tail \in Nat /\ head <= tail
    BY <1>5 DEF TypeOK, ListInv
  <2>6. /\ Segment(data, head, tail) # <<>>
        /\ Head(Segment(data, head, tail)) = data[head]
        /\ Tail(Segment(data, head, tail)) = Segment(data, head + 1, tail)
    BY <2>5, SegmentTail
  <2> QED
    BY <2>1, <2>4, <2>6 DEF Fifo!Take
<1> QED
  BY <1>4, <1>5

LEMMA TakeAdvanceRefines ==
  ASSUME IInv, NEW t \in Takers, TakeAdvance(t)
  PROVE  UNCHANGED Fifo!vars
<1> USE DEF IInv
<1>1. /\ pc[t] = "take_advance" /\ pc'[t] = "take_unlock" /\ t \in Threads
      /\ \A u \in Threads : u # t => pc[u] \notin Holding /\ pc'[u] = pc[u]
  BY Alone DEF TakeAdvance, Goto, Holding, AddPCs, Threads, TypeOK
<1>2. /\ head # 0 /\ head <= tail /\ head \in Nat /\ tail \in Nat
      /\ data' = data /\ into' = into
  BY <1>1 DEF TakeAdvance, ListInv, TypeOK
<1>3. \A u \in Takers : pc'[u] # "take_advance"
  BY <1>1 DEF Holding, Threads
<1>4. front = head + 1 /\ front' = head'
  BY <1>1, <1>3 DEF front
<1>5. contents = Segment(data, head + 1, tail)
  BY <1>2, <1>4, ContentsOfList
<1>6. CASE head = tail
  <2>1. head' = 0
    BY <1>6 DEF TakeAdvance
  <2>2. contents' = <<>>
    BY <2>1 DEF contents
  <2>3. contents = <<>>
    BY <1>2, <1>5, <1>6, SegmentEmpty
  <2> QED
    BY <1>2, <2>2, <2>3 DEF Fifo!vars
<1>7. CASE head # tail
  <2>1. head' = head + 1 /\ tail' = tail
    BY <1>2, <1>7 DEF TakeAdvance, ListInv, TypeOK, Cells
  <2>2. contents' = Segment(data, head + 1, tail)
    BY <1>2, <1>4, <2>1, ContentsOfList
  <2> QED
    BY <1>2, <1>5, <2>2 DEF Fifo!vars
<1> QED
  BY <1>6, <1>7

LEMMA StepRefines == IInv /\ [Next]_vars => [Fifo!Next]_(Fifo!vars)
<1> SUFFICES ASSUME IInv, TypeOK, ListInv, DataInv, [Next]_vars
             PROVE  Fifo!Next \/ UNCHANGED Fifo!vars
  BY DEF IInv
<1>1. ASSUME NEW t \in Adders, AddFirst(t) \/ AddTail(t)
      PROVE  Fifo!Next
  BY <1>1, AddFirstRefines, AddTailRefines DEF Fifo!Next
<1>2. ASSUME NEW t \in Takers, TakeRead(t) \/ TakeAdvance(t)
      PROVE  Fifo!Next \/ UNCHANGED Fifo!vars
  BY <1>2, TakeReadRefines, TakeAdvanceRefines DEF Fifo!Next
<1>3. ASSUME NEW t \in Adders, AddNode(t)
      PROVE  UNCHANGED Fifo!vars
  <2>1. /\ UNCHANGED <<head, tail, into>>
        /\ \A c \in 1 .. allocated : data'[c] = data[c]
    BY <1>3 DEF AddNode, TypeOK
  <2>2. \A u \in Takers : pc'[u] = "take_advance" <=> pc[u] = "take_advance"
    BY <1>3 DEF AddNode, Goto, TypeOK, Threads
  <2> QED
    BY <2>1, <2>2, SameContents DEF Fifo!vars
<1>4. ASSUME NEW t \in Takers, TakeCheck(t)
      PROVE  UNCHANGED Fifo!vars
  <2>1. UNCHANGED <<head, tail, into, data>>
    BY <1>4 DEF TakeCheck, ListInv
  <2>2. \A u \in Takers : pc'[u] = "take_advance" <=> pc[u] = "take_advance"
    BY <1>4 DEF TakeCheck, TypeOK, Threads
  <2> QED
    BY <2>1, <2>2, SameContents DEF Fifo!vars
<1>5. ASSUME NEW t \in Threads,
             \/ AddLock(t) \/ AddNext(t) \/ AddUnlock(t)
             \/ TakeLock(t) \/ TakeExpire(t) \/ TakeSpurious(t)
             \/ TakeResume(t) \/ TakeTimeout(t) \/ TakeUnlock(t) \/ TakeFree(t)
             \/ DigestLock(t) \/ DigestStep(t) \/ DigestSpurious(t)
      PROVE  UNCHANGED Fifo!vars
  <2>1. /\ UNCHANGED <<head, tail, into, data>>
        /\ pc[t] # "take_advance"
        /\ \E to : to # "take_advance" /\ pc' = [pc EXCEPT ![t] = to]
    BY <1>5
       DEF AddLock, AddNext, AddUnlock, TakeLock, TakeExpire, TakeSpurious,
           TakeResume, TakeTimeout, TakeUnlock, TakeFree, DigestLock,
           DigestStep, DigestWait, DigestExpire, DigestResume, DigestUnlock,
           DigestSpurious, Lock, Unlock, Rouse, Goto, list
  <2>2. \A u \in Takers : pc'[u] = "take_advance" <=> pc[u] = "take_advance"
    BY <2>1 DEF TypeOK, Threads
  <2> QED
    BY <2>1, <2>2, SameContents DEF Fifo!vars
<1>6. CASE UNCHANGED vars
  BY <1>6, SameContents DEF vars, list, Fifo!vars
<1> QED
  BY <1>1, <1>2, <1>3, <1>4, <1>5, <1>6 DEF Next, AddStep, TakeStep, Threads

(* Whatever the threads and their timing, even with spurious wake-ups, the *)
(* list is a first-in first-out queue that hands each item to one taker.   *)
THEOREM Implementation == Spec => ImplementsFifo
BY InitRefines, StepRefines, Invariance, PTL DEF Spec, ImplementsFifo, Fifo!Spec
==============================================================================
