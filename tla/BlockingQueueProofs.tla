------------------------- MODULE BlockingQueueProofs -------------------------
(***************************************************************************)
(* What BlockingQueue guarantees for any threads, any items and any number *)
(* of adds.                                                                *)
(***************************************************************************)
EXTENDS BlockingQueue, TLAPS

(* Exactly one thread is inside a critical section: the owner of the mutex. *)
MutexInv == \A t \in Threads : pc[t] \in Holding <=> mutex = t

(* A thread is only where its role takes it. *)
RoleInv ==
  \A t \in Threads :
    /\ pc[t] \in AddPCs => t \in Adders
    /\ pc[t] \in TakePCs => t \in Takers

(* A thread in one of these places has a new cell that is not the tail yet. *)
Linking == {"add_first", "add_next", "add_tail"}

(* The list runs through consecutive cells and ends at the newest one,     *)
(* except while an add is linking that one.                                *)
ListInv ==
  /\ head = 0 <=> tail = 0
  /\ head # 0 => head <= tail
  /\ tail <= allocated
  /\ (\A t \in Threads : pc[t] \notin Linking) => tail \in {0, allocated}
  /\ \A c \in Cells : head # 0 /\ head <= c /\ c < tail => next[c] = c + 1
  /\ tail # 0 /\ (\A t \in Threads : pc[t] # "add_tail") => next[tail] = 0
  /\ \A t \in Threads :
       /\ pc[t] = "add_node" => allocated < MaxAdds
       /\ pc[t] \in Linking =>
            allocated > 0 /\ ptr[t] = allocated /\ next[allocated] = 0
       /\ pc[t] = "add_first" => tail = 0
       /\ pc[t] \in {"add_next", "add_tail"} =>
            tail # 0 /\ allocated = tail + 1
       /\ pc[t] = "add_tail" => next[tail] = ptr[t]
       /\ pc[t] = "take_advance" => head # 0 /\ ptr[t] = head

(* A cell that has left the list for good: it is on neither the list nor   *)
(* on its way there.                                                       *)
Unlinked(c) ==
  /\ c \in 1 .. allocated
  /\ c \notin Linked
  /\ \A t \in Threads : pc[t] \in Linking => c < ptr[t]

(* The cells a take has unlinked and not yet released. *)
Garbage == {"take_unlock", "take_free"}

HeapInv ==
  /\ \A c \in freed : Unlinked(c)
  /\ \A t \in Threads : pc[t] \in Garbage =>
       /\ Unlinked(ptr[t])
       /\ ptr[t] \notin freed
       /\ \A u \in Threads : pc[u] \in Garbage /\ ptr[u] = ptr[t] => u = t
  /\ \A c \in 1 .. allocated :
       \/ c \in Linked \cup freed
       \/ \E t \in Threads : pc[t] \in Owning /\ ptr[t] = c

(* What is in a cell came from a call of add. *)
DataInv == \A c \in 1 .. allocated : data[c] \in Values

IInv == TypeOK /\ MutexInv /\ RoleInv /\ ListInv /\ HeapInv /\ DataInv
------------------------------------------------------------------------------
(* Type correctness.  The bound on the number of cells rests on the mutex: *)
(* between the test of MaxAdds and the allocation nobody else allocates.   *)

LEMMA InitInv == Init => IInv
<1> SUFFICES ASSUME Init PROVE IInv
  OBVIOUS
<1> USE BlockingQueueAssumption DEF Init
<1>1. TypeOK
  <2>1. crashed \in BOOLEAN /\ freed \subseteq Cells
    OBVIOUS
  <2>2. /\ head \in 0 .. MaxAdds /\ tail \in 0 .. MaxAdds
        /\ allocated \in 0 .. MaxAdds
        /\ next \in [Cells -> 0 .. MaxAdds]
        /\ ptr \in [Threads -> 0 .. MaxAdds]
    OBVIOUS
  <2>3. /\ mutex \in Threads \cup {NoThread}
        /\ data \in [Cells -> Values \cup {NULL}]
        /\ pc \in [Threads -> {"idle"} \cup AddPCs \cup TakePCs \cup DigestPCs]
        /\ into \in [Takers -> Values \cup {NULL}]
    OBVIOUS
  <2> QED
    BY <2>1, <2>2, <2>3 DEF TypeOK
<1>2. MutexInv
  BY DEF MutexInv, Holding, AddPCs
<1>3. RoleInv
  BY DEF RoleInv, AddPCs, TakePCs
<1>4. ListInv
  BY DEF ListInv, Linking
<1>5. HeapInv
  BY DEF HeapInv, Garbage
<1>6. DataInv
  BY DEF DataInv
<1> QED
  BY <1>1, <1>2, <1>3, <1>4, <1>5, <1>6 DEF IInv

(* Pure synchronisation: only the mutex and the thread's place change.     *)
LEMMA SyncTypeOK ==
  ASSUME TypeOK, NEW t \in Threads, NEW from,
         NEW to \in {"idle"} \cup AddPCs \cup TakePCs \cup DigestPCs,
         Lock(t, from, to) \/ Unlock(t, from, to) \/ Rouse(t, from, to)
  PROVE  TypeOK'
BY DEF TypeOK, Lock, Unlock, Rouse, Goto, list, heap

LEMMA NextTypeOK == IInv /\ [Next]_vars => TypeOK'
<1> SUFFICES ASSUME TypeOK, ListInv, HeapInv, [Next]_vars
             PROVE  TypeOK'
  BY DEF IInv
<1> USE BlockingQueueAssumption DEF Threads, AddPCs, TakePCs, DigestPCs
<1>1. ASSUME NEW t \in Adders, AddLock(t) \/ AddUnlock(t)
      PROVE  TypeOK'
  BY <1>1, SyncTypeOK DEF AddLock, AddUnlock
<1>2. ASSUME NEW t \in Adders, AddNode(t)
      PROVE  TypeOK'
  <2>1. allocated + 1 \in Cells /\ allocated' = allocated + 1
    BY <1>2 DEF AddNode, Goto, ListInv, TypeOK, Cells
  <2> QED
    BY <1>2, <2>1 DEF AddNode, Goto, TypeOK, Cells
<1>3. ASSUME NEW t \in Adders, AddFirst(t)
      PROVE  TypeOK'
  BY <1>3 DEF AddFirst, TypeOK, Sleepers, heap
<1>4. ASSUME NEW t \in Adders, AddNext(t) \/ AddTail(t)
      PROVE  TypeOK'
  BY <1>4 DEF AddNext, AddTail, Goto, TypeOK, heap
<1>5. ASSUME NEW t \in Takers,
             \/ TakeLock(t) \/ TakeExpire(t) \/ TakeSpurious(t) \/ TakeResume(t)
             \/ TakeTimeout(t) \/ TakeUnlock(t)
      PROVE  TypeOK'
  BY <1>5, SyncTypeOK
     DEF TakeLock, TakeExpire, TakeSpurious, TakeResume, TakeTimeout, TakeUnlock
<1>6. ASSUME NEW t \in Takers, TakeCheck(t)
      PROVE  TypeOK'
  BY <1>6 DEF TakeCheck, TypeOK, heap
<1>7. ASSUME NEW t \in Takers, TakeRead(t)
      PROVE  TypeOK'
  <2>1. crashed' \in BOOLEAN
    BY <1>7 DEF TakeRead, TypeOK
  <2>2. into' \in [Takers -> Values \cup {NULL}]
    BY <1>7 DEF TakeRead, TypeOK, Cells
  <2>3. /\ pc' \in [Threads -> {"idle"} \cup AddPCs \cup TakePCs \cup DigestPCs]
        /\ ptr' \in [Threads -> 0 .. MaxAdds]
    BY <1>7 DEF TakeRead, TypeOK
  <2> QED
    BY <1>7, <2>1, <2>2, <2>3 DEF TakeRead, TypeOK, list, heap
<1>8. ASSUME NEW t \in Takers, TakeAdvance(t)
      PROVE  TypeOK'
  <2>1. head \in Cells
    BY <1>8 DEF TakeAdvance, Goto, ListInv, TypeOK, Cells
  <2>2. head' \in 0 .. MaxAdds /\ tail' \in 0 .. MaxAdds
    BY <1>8, <2>1 DEF TakeAdvance, TypeOK
  <2>3. pc' \in [Threads -> {"idle"} \cup AddPCs \cup TakePCs \cup DigestPCs]
    BY <1>8 DEF TakeAdvance, Goto, TypeOK
  <2> QED
    BY <1>8, <2>2, <2>3 DEF TakeAdvance, TypeOK, heap
<1>9. ASSUME NEW t \in Takers, TakeFree(t)
      PROVE  TypeOK'
  <2>1. ptr[t] \in Cells
    BY <1>9 DEF TakeFree, Goto, HeapInv, Garbage, Unlinked, TypeOK, Cells
  <2> QED
    BY <1>9, <2>1 DEF TakeFree, Goto, TypeOK, list, Cells
<1>10. ASSUME NEW t \in Digesters, DigestLock(t) \/ DigestStep(t) \/ DigestSpurious(t)
       PROVE  TypeOK'
  BY <1>10, SyncTypeOK
     DEF DigestLock, DigestStep, DigestWait, DigestExpire, DigestResume,
         DigestUnlock, DigestSpurious
<1>11. CASE UNCHANGED vars
  BY <1>11 DEF vars, list, heap, TypeOK
<1> QED
  BY <1>1, <1>2, <1>3, <1>4, <1>5, <1>6, <1>7, <1>8, <1>9, <1>10, <1>11
     DEF Next, AddStep, TakeStep

------------------------------------------------------------------------------
(* Mutual exclusion, and every thread in its role. *)

LEMMA NextMutexInv == IInv /\ [Next]_vars => MutexInv' /\ RoleInv'
<1> SUFFICES ASSUME TypeOK, MutexInv, RoleInv, [Next]_vars
             PROVE  MutexInv' /\ RoleInv'
  BY DEF IInv
<1> USE BlockingQueueAssumption
    DEF Threads, Holding, AddPCs, TakePCs, MutexInv, RoleInv, TypeOK
<1>1. ASSUME NEW t \in Adders, AddLock(t)
      PROVE  MutexInv' /\ RoleInv'
  BY <1>1 DEF AddLock, Lock, Goto
<1>2. ASSUME NEW t \in Adders, AddNode(t)
      PROVE  MutexInv' /\ RoleInv'
  BY <1>2 DEF AddNode, Goto
<1>3. ASSUME NEW t \in Adders, AddFirst(t)
      PROVE  MutexInv' /\ RoleInv'
  BY <1>3 DEF AddFirst, Sleepers
<1>4. ASSUME NEW t \in Adders, AddNext(t) \/ AddTail(t) \/ AddUnlock(t)
      PROVE  MutexInv' /\ RoleInv'
  BY <1>4 DEF AddNext, AddTail, AddUnlock, Unlock, Goto
<1>5. ASSUME NEW t \in Takers, TakeLock(t) \/ TakeResume(t)
      PROVE  MutexInv' /\ RoleInv'
  BY <1>5 DEF TakeLock, TakeResume, Lock, Goto
<1>6. ASSUME NEW t \in Takers, TakeExpire(t) \/ TakeSpurious(t)
      PROVE  MutexInv' /\ RoleInv'
  BY <1>6 DEF TakeExpire, TakeSpurious, Rouse, Goto
<1>7. ASSUME NEW t \in Takers, TakeTimeout(t) \/ TakeUnlock(t)
      PROVE  MutexInv' /\ RoleInv'
  BY <1>7 DEF TakeTimeout, TakeUnlock, Unlock, Goto
<1>8. ASSUME NEW t \in Takers, TakeCheck(t)
      PROVE  MutexInv' /\ RoleInv'
  BY <1>8 DEF TakeCheck
<1>9. ASSUME NEW t \in Takers, TakeRead(t)
      PROVE  MutexInv' /\ RoleInv'
  BY <1>9 DEF TakeRead
<1>10. ASSUME NEW t \in Takers, TakeAdvance(t) \/ TakeFree(t)
       PROVE  MutexInv' /\ RoleInv'
  BY <1>10 DEF TakeAdvance, TakeFree, Goto
<1>11. ASSUME NEW t \in Digesters, DigestLock(t) \/ DigestResume(t)
       PROVE  MutexInv' /\ RoleInv'
  BY <1>11 DEF DigestLock, DigestResume, Lock, Goto
<1>12. ASSUME NEW t \in Digesters, DigestWait(t) \/ DigestUnlock(t)
       PROVE  MutexInv' /\ RoleInv'
  BY <1>12 DEF DigestWait, DigestUnlock, Unlock, Goto
<1>13. ASSUME NEW t \in Digesters, DigestExpire(t) \/ DigestSpurious(t)
       PROVE  MutexInv' /\ RoleInv'
  BY <1>13 DEF DigestExpire, DigestSpurious, Rouse, Goto
<1>14. CASE UNCHANGED vars
  BY <1>14 DEF vars
<1> QED
  BY <1>1, <1>2, <1>3, <1>4, <1>5, <1>6, <1>7, <1>8, <1>9, <1>10, <1>11,
     <1>12, <1>13, <1>14
     DEF Next, AddStep, TakeStep, DigestStep

------------------------------------------------------------------------------
(* The shape of the list. *)

(* Where the list invariants say something about a thread. *)
Marked == Linking \cup {"add_node", "take_advance"}

(* A step that touches neither list nor heap and moves a thread between    *)
(* unmarked places keeps the shape of the list.                            *)
LEMMA SyncListInv ==
  ASSUME TypeOK, ListInv, NEW t \in Threads,
         UNCHANGED <<head, tail, next, allocated, ptr>>,
         pc[t] \notin Marked,
         \/ pc' = pc
         \/ \E to : to \notin Marked /\ pc' = [pc EXCEPT ![t] = to]
  PROVE  ListInv'
<1>1. \A u \in Threads :
        /\ pc'[u] \in Marked \/ pc[u] \in Marked => pc'[u] = pc[u]
        /\ pc'[u] \in Linking <=> pc[u] \in Linking
        /\ pc'[u] = "add_tail" <=> pc[u] = "add_tail"
  BY DEF TypeOK, Marked, Linking
<1> QED
  BY <1>1 DEF ListInv, Marked, Linking

LEMMA NextListInv == IInv /\ [Next]_vars => ListInv'
<1> SUFFICES ASSUME IInv, TypeOK, MutexInv, RoleInv, ListInv, [Next]_vars
             PROVE  ListInv'
  BY DEF IInv
<1> USE BlockingQueueAssumption DEF Threads
<1>0. TypeOK'
  BY NextTypeOK
<1>1. ASSUME NEW t \in Adders, AddLock(t)
      PROVE  ListInv'
  BY <1>1 DEF AddLock, Lock, Goto, list, heap, TypeOK, ListInv, Linking
<1>2. ASSUME NEW t \in Adders, AddNode(t)
      PROVE  ListInv'
  <2>1. mutex = t /\ pc[t] = "add_node"
    BY <1>2 DEF AddNode, Goto, MutexInv, Holding, AddPCs
  <2>2. \A u \in Threads : u # t => pc[u] \notin Holding /\ pc'[u] = pc[u]
    BY <1>2, <2>1 DEF AddNode, Goto, MutexInv, TypeOK
  <2>3. tail \in {0, allocated} /\ allocated + 1 \in Cells
    BY <2>1, <2>2 DEF ListInv, Linking, Holding, AddPCs, TypeOK, Cells
  <2> QED
    BY <1>2, <2>1, <2>2, <2>3
       DEF AddNode, Goto, ListInv, Linking, Holding, AddPCs, TypeOK, Cells
<1>3. ASSUME NEW t \in Adders, AddFirst(t)
      PROVE  ListInv'
  <2>1. mutex = t /\ pc[t] = "add_first"
    BY <1>3 DEF AddFirst, MutexInv, Holding, AddPCs
  <2>2. \A u \in Threads : u # t => pc[u] \notin Holding
    BY <2>1 DEF MutexInv
  <2>3. /\ pc'[t] = "add_unlock"
        /\ \A u \in Threads : u # t => pc'[u] \notin Marked
    BY <1>3, <2>1, <2>2
       DEF AddFirst, Sleepers, Holding, AddPCs, Marked, Linking, TypeOK
  <2>4. /\ head' = allocated /\ tail' = allocated /\ allocated > 0
        /\ next' = next /\ allocated' = allocated /\ ptr' = ptr
        /\ allocated \in 0 .. MaxAdds
    BY <1>3, <2>1 DEF AddFirst, ListInv, Linking, heap, TypeOK
  <2>5. next[allocated] = 0
    BY <2>1 DEF ListInv, Linking
  <2> QED
    BY <2>3, <2>4, <2>5 DEF ListInv, Marked, Linking, Cells
<1>4. ASSUME NEW t \in Adders, AddNext(t)
      PROVE  ListInv'
  <2>1. mutex = t /\ pc[t] = "add_next"
    BY <1>4 DEF AddNext, Goto, MutexInv, Holding, AddPCs
  <2>2. \A u \in Threads : u # t => pc[u] \notin Holding /\ pc'[u] = pc[u]
    BY <1>4, <2>1 DEF AddNext, Goto, MutexInv, TypeOK
  <2>3. pc'[t] = "add_tail"
    BY <1>4 DEF AddNext, Goto, TypeOK
  <2>4. tail # 0 /\ allocated = tail + 1 /\ ptr[t] = allocated
    BY <2>1 DEF ListInv, Linking
  <2>5. /\ next'[tail] = ptr[t]
        /\ \A c \in Cells : c # tail => next'[c] = next[c]
    BY <1>4, <2>4 DEF AddNext, TypeOK, Cells
  <2> QED
    BY <1>4, <2>2, <2>3, <2>4, <2>5
       DEF AddNext, ListInv, Linking, Holding, AddPCs, TypeOK, heap
<1>5. ASSUME NEW t \in Adders, AddTail(t)
      PROVE  ListInv'
  <2>1. mutex = t /\ pc[t] = "add_tail"
    BY <1>5 DEF AddTail, Goto, MutexInv, Holding, AddPCs
  <2>2. \A u \in Threads : u # t => pc[u] \notin Holding /\ pc'[u] = pc[u]
    BY <1>5, <2>1 DEF AddTail, Goto, MutexInv, TypeOK
  <2>3. pc'[t] = "add_unlock"
    BY <1>5 DEF AddTail, Goto, TypeOK
  <2>4. tail # 0 /\ allocated = tail + 1 /\ ptr[t] = allocated /\ next[tail] = ptr[t]
    BY <2>1 DEF ListInv, Linking
  <2>5. /\ tail' = tail + 1 /\ head' = head /\ next' = next
        /\ allocated' = allocated /\ ptr' = ptr
    BY <1>5, <2>4 DEF AddTail, heap
  <2>6. \A u \in Threads : pc'[u] \notin Marked
    BY <2>2, <2>3 DEF Marked, Linking, Holding, AddPCs
  <2>7. /\ head # 0 /\ head <= tail /\ next[allocated] = 0
        /\ head \in Nat /\ tail \in Nat /\ allocated \in Nat
    BY <2>1, <2>4 DEF ListInv, Linking, TypeOK
  <2>8. \A c \in Cells : head <= c /\ c < tail + 1 => next[c] = c + 1
    BY <2>4, <2>7 DEF ListInv, Cells
  <2> QED
    BY <2>4, <2>5, <2>6, <2>7, <2>8 DEF ListInv, Marked, Linking
<1>6. ASSUME NEW t \in Takers, TakeCheck(t)
      PROVE  ListInv'
  BY <1>6 DEF TakeCheck, ListInv, Linking, TypeOK, heap
<1>7. ASSUME NEW t \in Takers, TakeRead(t)
      PROVE  ListInv'
  BY <1>7 DEF TakeRead, ListInv, Linking, TypeOK, heap, list
<1>8. ASSUME NEW t \in Takers, TakeAdvance(t)
      PROVE  ListInv'
  <2>1. mutex = t /\ pc[t] = "take_advance"
    BY <1>8 DEF TakeAdvance, Goto, MutexInv, Holding
  <2>2. \A u \in Threads : u # t => pc[u] \notin Holding /\ pc'[u] = pc[u]
    BY <1>8, <2>1 DEF TakeAdvance, Goto, MutexInv, TypeOK
  <2>3. pc'[t] = "take_unlock"
    BY <1>8 DEF TakeAdvance, Goto, TypeOK
  <2>4. head # 0 /\ head <= tail
    BY <2>1 DEF ListInv
  <2>5. CASE head = tail
    BY <1>8, <2>2, <2>3, <2>4, <2>5
       DEF TakeAdvance, ListInv, Linking, Holding, AddPCs, TypeOK, heap
  <2>6. CASE head # tail
    <3>1. head' = head + 1 /\ tail' = tail
      BY <1>8, <2>4, <2>6 DEF TakeAdvance, ListInv, Cells, TypeOK
    <3>2. UNCHANGED <<next, allocated, ptr>>
      BY <1>8 DEF TakeAdvance, heap
    <3>3. \A u \in Threads : pc[u] \notin Linking /\ pc'[u] \notin Marked
      BY <2>1, <2>2, <2>3 DEF Marked, Linking, Holding, AddPCs
    <3>4. tail # 0 /\ head < tail /\ head \in Nat /\ tail \in Nat
      BY <2>4, <2>6 DEF ListInv, TypeOK
    <3>5. tail = allocated /\ next[tail] = 0
      BY <3>3, <3>4 DEF ListInv, Linking
    <3>6. \A c \in Cells : head + 1 <= c /\ c < tail => next[c] = c + 1
      BY <3>4 DEF ListInv, Cells
    <3> QED
      BY <3>1, <3>2, <3>3, <3>4, <3>5, <3>6 DEF ListInv, Marked, Linking
  <2> QED
    BY <2>5, <2>6
<1>9. ASSUME NEW t \in Threads,
             \/ AddUnlock(t) \/ TakeLock(t) \/ TakeExpire(t) \/ TakeSpurious(t)
             \/ TakeResume(t) \/ TakeTimeout(t) \/ TakeUnlock(t) \/ TakeFree(t)
             \/ DigestLock(t) \/ DigestStep(t) \/ DigestSpurious(t)
      PROVE  ListInv'
  <2>1. /\ UNCHANGED <<head, tail, next, allocated, ptr>>
        /\ pc[t] \notin Marked
        /\ \E to : to \notin Marked /\ pc' = [pc EXCEPT ![t] = to]
    BY <1>9
       DEF AddUnlock, TakeLock, TakeExpire, TakeSpurious, TakeResume,
           TakeTimeout, TakeUnlock, TakeFree, DigestLock, DigestStep,
           DigestWait, DigestExpire, DigestResume, DigestUnlock,
           DigestSpurious, Lock, Unlock, Rouse, Goto, list, heap, Marked, Linking
  <2> QED
    BY <2>1, SyncListInv
<1>10. CASE UNCHANGED vars
  BY <1>10 DEF vars, list, heap, ListInv
<1> QED
  BY <1>1, <1>2, <1>3, <1>4, <1>5, <1>6, <1>7, <1>8, <1>9, <1>10
     DEF Next, AddStep, TakeStep

------------------------------------------------------------------------------
(* What becomes of the cells. *)

(* A step that neither moves an end of the list nor allocates or releases, *)
(* and that keeps the cells the threads own, keeps HeapInv.                *)
LEMMA SyncHeapInv ==
  ASSUME HeapInv, UNCHANGED <<head, tail, allocated, freed>>,
         \A u \in Threads :
           /\ pc'[u] \in Garbage <=> pc[u] \in Garbage
           /\ pc'[u] \in Linking <=> pc[u] \in Linking
           /\ pc[u] \in Owning => ptr'[u] = ptr[u]
  PROVE  HeapInv'
<1>1. \A u \in Threads :
        /\ pc[u] \in Owning <=> pc[u] \in Garbage \cup Linking
        /\ pc'[u] \in Owning <=> pc'[u] \in Garbage \cup Linking
  BY DEF Owning, Garbage, Linking
<1>2. Linked' = Linked
  BY DEF Linked
<1>3. \A c : Unlinked(c) => Unlinked(c)'
  BY <1>1, <1>2 DEF Unlinked
<1> QED
  BY <1>1, <1>2, <1>3 DEF HeapInv

LEMMA NextHeapInv == IInv /\ [Next]_vars => HeapInv'
<1> SUFFICES ASSUME TypeOK, MutexInv, RoleInv, ListInv, HeapInv, [Next]_vars
             PROVE  HeapInv'
  BY DEF IInv
<1> USE BlockingQueueAssumption DEF Threads
<1>1. ASSUME NEW t \in Adders, AddNode(t)
      PROVE  HeapInv'
  <2>1. mutex = t /\ pc[t] = "add_node"
    BY <1>1 DEF AddNode, Goto, MutexInv, Holding, AddPCs
  <2>2. \A u \in Threads : u # t =>
          pc[u] \notin Holding /\ pc'[u] = pc[u] /\ ptr'[u] = ptr[u]
    BY <1>1, <2>1 DEF AddNode, Goto, MutexInv, TypeOK
  <2>3. /\ pc'[t] \in Linking /\ ptr'[t] = allocated + 1
        /\ allocated' = allocated + 1 /\ allocated \in Nat
        /\ UNCHANGED <<head, tail, freed>>
    BY <1>1 DEF AddNode, Goto, TypeOK, Linking
  <2>4. Linked' = Linked
    BY <2>3 DEF Linked
  <2>5. \A c : Unlinked(c) => Unlinked(c)'
    BY <2>2, <2>3, <2>4 DEF Unlinked, Linking, Holding, AddPCs
  <2>6. \A u \in Threads : pc'[u] \in Garbage <=> pc[u] \in Garbage
    BY <2>1, <2>2, <2>3 DEF Garbage, Linking
  <2>7. \A u \in Threads : pc[u] \in Garbage => ptr'[u] = ptr[u]
    BY <2>1, <2>2 DEF Garbage
  <2>8. \A u \in Threads : pc[u] \in Owning => pc'[u] = pc[u] /\ ptr'[u] = ptr[u]
    BY <2>1, <2>2 DEF Owning
  <2>9. \A c \in 1 .. allocated' :
          \/ c \in Linked' \cup freed'
          \/ \E u \in Threads : pc'[u] \in Owning /\ ptr'[u] = c
    BY <2>3, <2>4, <2>8 DEF HeapInv, Linking, Owning
  <2> QED
    BY <2>3, <2>5, <2>6, <2>7, <2>9 DEF HeapInv
<1>2. ASSUME NEW t \in Adders, AddFirst(t)
      PROVE  HeapInv'
  <2>1. mutex = t /\ pc[t] = "add_first"
    BY <1>2 DEF AddFirst, MutexInv, Holding, AddPCs
  <2>2. \A u \in Threads : u # t => pc[u] \notin Holding
    BY <2>1 DEF MutexInv
  <2>3. /\ pc'[t] = "add_unlock"
        /\ \A u \in Threads : u # t =>
             pc'[u] = pc[u] \/ {pc[u], pc'[u]} \cap (Garbage \cup Linking) = {}
    BY <1>2, <2>1 DEF AddFirst, Sleepers, TypeOK, Garbage, Linking
  <2>4. /\ head' = allocated /\ tail' = allocated /\ allocated \in Nat
        /\ ptr[t] = allocated /\ allocated > 0
        /\ UNCHANGED <<allocated, freed, ptr>>
    BY <1>2, <2>1 DEF AddFirst, ListInv, Linking, heap, TypeOK
  <2>5. Linked = {} /\ Linked' = {allocated}
    BY <2>1, <2>4 DEF Linked, ListInv
  <2>6. \A u \in Threads : pc'[u] \notin Linking
    BY <2>2, <2>3 DEF Linking, Holding, AddPCs
  <2>7. \A c : Unlinked(c) => Unlinked(c)'
    BY <2>1, <2>4, <2>5, <2>6 DEF Unlinked, Linking
  <2>8. \A u \in Threads : pc'[u] \in Garbage <=> pc[u] \in Garbage
    BY <2>1, <2>3 DEF Garbage
  <2>9. \A u \in Threads : pc[u] \in Owning => pc[u] \in Garbage \/ ptr[u] = allocated
    BY <2>1, <2>2, <2>4 DEF Owning, Garbage, Holding, AddPCs
  <2>10. \A u \in Threads : pc'[u] \in Garbage => pc'[u] \in Owning
    BY DEF Owning, Garbage
  <2> QED
    BY <2>4, <2>5, <2>7, <2>8, <2>9, <2>10 DEF HeapInv
<1>3. ASSUME NEW t \in Adders, AddTail(t)
      PROVE  HeapInv'
  <2>1. mutex = t /\ pc[t] = "add_tail"
    BY <1>3 DEF AddTail, Goto, MutexInv, Holding, AddPCs
  <2>2. \A u \in Threads : u # t => pc[u] \notin Holding /\ pc'[u] = pc[u]
    BY <1>3, <2>1 DEF AddTail, Goto, MutexInv, TypeOK
  <2>3. /\ pc'[t] = "add_unlock" /\ ptr[t] = tail + 1 /\ tail' = tail + 1
        /\ head # 0 /\ head <= tail /\ tail \in Nat /\ head \in Nat
        /\ UNCHANGED <<head, allocated, freed, ptr>>
    BY <1>3, <2>1 DEF AddTail, Goto, ListInv, Linking, heap, TypeOK
  <2>4. Linked' = Linked \cup {ptr[t]}
    BY <2>3 DEF Linked
  <2>5. \A u \in Threads : pc'[u] \notin Linking
    BY <2>2, <2>3 DEF Linking, Holding, AddPCs
  <2>6. \A c : Unlinked(c) => Unlinked(c)'
    BY <2>1, <2>3, <2>4, <2>5 DEF Unlinked, Linking
  <2>7. \A u \in Threads : pc'[u] \in Garbage <=> pc[u] \in Garbage
    BY <2>1, <2>2, <2>3 DEF Garbage
  <2>8. \A u \in Threads : pc[u] \in Owning => pc'[u] \in Owning \/ u = t
    BY <2>2
  <2> QED
    BY <2>3, <2>4, <2>6, <2>7, <2>8 DEF HeapInv
<1>4. ASSUME NEW t \in Takers, TakeAdvance(t)
      PROVE  HeapInv'
  <2>1. mutex = t /\ pc[t] = "take_advance"
    BY <1>4 DEF TakeAdvance, Goto, MutexInv, Holding
  <2>2. \A u \in Threads : u # t => pc[u] \notin Holding /\ pc'[u] = pc[u]
    BY <1>4, <2>1 DEF TakeAdvance, Goto, MutexInv, TypeOK
  <2>3. /\ pc'[t] = "take_unlock" /\ ptr[t] = head
        /\ head # 0 /\ head <= tail /\ tail \in Nat /\ head \in Nat
        /\ tail <= allocated /\ allocated \in Nat
        /\ UNCHANGED <<allocated, freed, ptr>>
    BY <1>4, <2>1 DEF TakeAdvance, Goto, ListInv, heap, TypeOK
  <2>4. Linked' = Linked \ {head} /\ head \in Linked
    <3>1. CASE head = tail
      BY <1>4, <2>3, <3>1 DEF TakeAdvance, Linked
    <3>2. CASE head # tail
      <4>1. head' = head + 1 /\ tail' = tail
        BY <1>4, <2>3, <3>2 DEF TakeAdvance, ListInv, Cells, TypeOK
      <4> QED
        BY <2>3, <3>2, <4>1 DEF Linked
    <3> QED
      BY <3>1, <3>2
  <2>5. \A u \in Threads : pc'[u] \notin Linking
    BY <2>2, <2>3 DEF Linking, Holding, AddPCs
  <2>6. \A c : Unlinked(c) \/ c = head => Unlinked(c)'
    BY <2>3, <2>4, <2>5 DEF Unlinked
  <2>7. \A u \in Threads : pc'[u] \in Garbage <=> pc[u] \in Garbage \/ u = t
    BY <2>1, <2>2, <2>3 DEF Garbage
  <2>8. \A u \in Threads : pc[u] \in Garbage => ptr[u] # head
    BY <2>4 DEF HeapInv, Unlinked
  <2>9. head \notin freed /\ pc[t] \notin Garbage
    BY <2>1, <2>4 DEF HeapInv, Unlinked, Garbage
  <2>10. pc'[t] \in Owning /\ \A u \in Threads : pc[u] \in Owning => pc'[u] \in Owning
    BY <2>1, <2>2, <2>3 DEF Owning
  <2>11. \A u \in Threads : pc'[u] \in Garbage =>
           /\ Unlinked(ptr[u])'
           /\ ptr[u] \notin freed
           /\ \A w \in Threads : pc'[w] \in Garbage /\ ptr[w] = ptr[u] => w = u
    BY <2>3, <2>6, <2>7, <2>8, <2>9 DEF HeapInv
  <2>12. \A c \in 1 .. allocated :
           \/ c \in Linked' \cup freed
           \/ \E u \in Threads : pc'[u] \in Owning /\ ptr[u] = c
    BY <2>3, <2>4, <2>10 DEF HeapInv
  <2> QED
    BY <2>3, <2>6, <2>11, <2>12 DEF HeapInv
<1>5. ASSUME NEW t \in Takers, TakeFree(t)
      PROVE  HeapInv'
  <2>1. /\ pc[t] = "take_free" /\ pc'[t] = "idle"
        /\ freed' = freed \cup {ptr[t]}
        /\ UNCHANGED <<head, tail, allocated, ptr>>
        /\ \A u \in Threads : u # t => pc'[u] = pc[u]
    BY <1>5 DEF TakeFree, Goto, list, TypeOK
  <2>2. Linked' = Linked
    BY <2>1 DEF Linked
  <2>3. \A c : Unlinked(c) => Unlinked(c)'
    BY <2>1, <2>2 DEF Unlinked, Linking
  <2>4. \A u \in Threads : pc'[u] \in Garbage <=> pc[u] \in Garbage /\ u # t
    BY <2>1 DEF Garbage
  <2>5. pc[t] \in Garbage
    BY <2>1 DEF Garbage
  <2>6. \A u \in Threads : pc'[u] \in Garbage => ptr[u] # ptr[t]
    BY <2>4, <2>5 DEF HeapInv
  <2> QED
    BY <2>1, <2>2, <2>3, <2>4, <2>5, <2>6 DEF HeapInv
<1>6. ASSUME NEW t \in Takers, TakeRead(t)
      PROVE  HeapInv'
  <2>1. /\ UNCHANGED <<head, tail, allocated, freed>>
        /\ pc[t] = "take_read" /\ pc'[t] \in {"take_read", "take_advance"}
        /\ \A u \in Threads : u # t => pc'[u] = pc[u] /\ ptr'[u] = ptr[u]
    BY <1>6 DEF TakeRead, list, heap, TypeOK
  <2> QED
    BY <2>1, SyncHeapInv DEF Garbage, Linking, Owning
<1>7. ASSUME NEW t \in Takers, TakeCheck(t)
      PROVE  HeapInv'
  <2>1. /\ UNCHANGED <<head, tail, allocated, freed, ptr>>
        /\ pc[t] = "take_check" /\ pc'[t] \in {"take_read", "take_wait"}
        /\ \A u \in Threads : u # t => pc'[u] = pc[u]
    BY <1>7 DEF TakeCheck, ListInv, heap, TypeOK
  <2> QED
    BY <2>1, SyncHeapInv DEF Garbage, Linking
<1>8. ASSUME NEW t \in Adders, AddNext(t)
      PROVE  HeapInv'
  <2>1. /\ UNCHANGED <<head, tail, allocated, freed, ptr>>
        /\ pc[t] = "add_next" /\ pc'[t] = "add_tail"
        /\ \A u \in Threads : u # t => pc'[u] = pc[u]
    BY <1>8 DEF AddNext, Goto, heap, TypeOK
  <2> QED
    BY <2>1, SyncHeapInv DEF Garbage, Linking
<1>9. ASSUME NEW t \in Takers, TakeUnlock(t)
      PROVE  HeapInv'
  <2>1. /\ UNCHANGED <<head, tail, allocated, freed, ptr>>
        /\ pc[t] = "take_unlock" /\ pc'[t] = "take_free"
        /\ \A u \in Threads : u # t => pc'[u] = pc[u]
    BY <1>9 DEF TakeUnlock, Unlock, Goto, list, heap, TypeOK
  <2> QED
    BY <2>1, SyncHeapInv DEF Garbage, Linking
<1>10. ASSUME NEW t \in Threads,
             \/ AddLock(t) \/ AddUnlock(t)
             \/ TakeLock(t) \/ TakeExpire(t) \/ TakeSpurious(t)
             \/ TakeResume(t) \/ TakeTimeout(t)
             \/ DigestLock(t) \/ DigestStep(t) \/ DigestSpurious(t)
      PROVE  HeapInv'
  <2>1. /\ UNCHANGED <<head, tail, allocated, freed, ptr>>
        /\ {pc[t], pc'[t]} \cap (Garbage \cup Linking) = {}
        /\ \A u \in Threads : u # t => pc'[u] = pc[u]
    BY <1>10
       DEF AddLock, AddUnlock, TakeLock, TakeExpire, TakeSpurious,
           TakeResume, TakeTimeout, DigestLock, DigestStep,
           DigestWait, DigestExpire, DigestResume, DigestUnlock,
           DigestSpurious, Lock, Unlock, Rouse, Goto, list, heap,
           Garbage, Linking, TypeOK
  <2> QED
    BY <2>1, SyncHeapInv
<1>11. CASE UNCHANGED vars
  BY <1>11, SyncHeapInv DEF vars, list, heap
<1> QED
  BY <1>1, <1>2, <1>3, <1>4, <1>5, <1>6, <1>7, <1>8, <1>9, <1>10, <1>11
     DEF Next, AddStep, TakeStep

LEMMA NextDataInv == IInv /\ [Next]_vars => DataInv'
<1> SUFFICES ASSUME TypeOK, DataInv, ListInv, [Next]_vars
             PROVE  DataInv'
  BY DEF IInv
<1>1. ASSUME NEW t \in Adders, AddNode(t)
      PROVE  DataInv'
  <2>1. allocated + 1 \in Cells
    BY <1>1, BlockingQueueAssumption
       DEF AddNode, Goto, ListInv, TypeOK, Cells, Threads
  <2>2. PICK v \in Values : data' = [data EXCEPT ![allocated + 1] = v]
    BY <1>1 DEF AddNode
  <2>3. allocated' = allocated + 1 /\ allocated \in Nat
    BY <1>1 DEF AddNode, TypeOK
  <2>4. \A c \in 1 .. allocated + 1 : c \in 1 .. allocated \/ c = allocated + 1
    BY <2>3
  <2>5. \A c \in 1 .. allocated : data'[c] = data[c]
    BY <2>1, <2>2, <2>3 DEF TypeOK, Cells
  <2>6. data'[allocated + 1] = v
    BY <2>1, <2>2 DEF TypeOK
  <2> QED
    BY <2>2, <2>3, <2>4, <2>5, <2>6 DEF DataInv
<1>2. CASE UNCHANGED <<data, allocated>>
  BY <1>2 DEF DataInv
<1>3. ASSUME NEW t \in Threads,
             \/ AddLock(t) \/ AddFirst(t) \/ AddNext(t) \/ AddTail(t)
             \/ AddUnlock(t) \/ TakeLock(t) \/ TakeStep(t) \/ TakeSpurious(t)
             \/ DigestLock(t) \/ DigestStep(t) \/ DigestSpurious(t)
      PROVE  UNCHANGED <<data, allocated>>
  BY <1>3
     DEF AddLock, AddFirst, AddNext, AddTail, AddUnlock, TakeLock, TakeStep,
         TakeCheck, TakeExpire, TakeSpurious, TakeResume, TakeTimeout,
         TakeRead, TakeAdvance, TakeUnlock, TakeFree, DigestLock, DigestStep,
         DigestWait, DigestExpire, DigestResume, DigestUnlock,
         DigestSpurious, Lock, Unlock, Rouse, list, heap
<1> QED
  BY <1>1, <1>2, <1>3 DEF Next, AddStep, Threads, vars, list, heap

------------------------------------------------------------------------------
(* The inductive invariant holds of every behaviour, and with it the       *)
(* types, the code's own assertions and the safety of the heap, whatever   *)
(* the number of threads, even with stolen and spurious wake-ups: those    *)
(* can make a taker read a null head, but never corrupt the list.          *)

THEOREM Invariance == Spec => []IInv
<1>1. IInv /\ [Next]_vars => IInv'
  BY NextTypeOK, NextMutexInv, NextListInv, NextHeapInv, NextDataInv DEF IInv
<1> QED
  BY InitInv, <1>1, PTL DEF Spec

(* Every variable keeps its type; no more cells than MaxAdds are used. *)
THEOREM TypeCorrect == Spec => []TypeOK
BY Invariance, PTL DEF IInv

(* None of the sassert()s of blocking_queue.c ever fires. *)
THEOREM AssertsCorrect == Spec => []AssertsHold
<1>1. IInv => AssertsHold
  <2> SUFFICES ASSUME IInv, NEW t \in Threads
               PROVE  /\ pc[t] = "add_first" => head = 0
                      /\ pc[t] = "take_check" /\ head = 0 => tail = 0
                      /\ pc[t] = "take_advance" /\ head = tail => next[head] = 0
    BY DEF AssertsHold
  <2>1. pc[t] = "add_first" => head = 0
    BY DEF IInv, ListInv
  <2>2. head = 0 => tail = 0
    BY DEF IInv, ListInv
  <2>3. ASSUME pc[t] = "take_advance", head = tail
        PROVE  next[head] = 0
    <3>1. \A u \in Threads : pc[u] # "add_tail"
      BY <2>3 DEF IInv, MutexInv, Holding, AddPCs
    <3> QED
      BY <2>3, <3>1 DEF IInv, ListInv
  <2> QED
    BY <2>1, <2>2, <2>3
<1> QED
  BY Invariance, <1>1, PTL

(* No cell leaks, none is released twice, and no released cell is on the   *)
(* list, although take releases its cell after giving up the mutex.        *)
THEOREM HeapCorrect == Spec => []HeapSafe
<1>1. IInv => HeapSafe
  <2> SUFFICES ASSUME IInv
               PROVE  HeapSafe
    OBVIOUS
  <2> USE DEF IInv
  <2>1. Linked \cap freed = {}
    BY DEF HeapInv, Unlinked
  <2>2. ASSUME NEW t \in Threads, pc[t] = "take_advance"
        PROVE  ptr[t] \in Cells \ freed
    <3>1. ptr[t] = head /\ head \in Linked
      BY <2>2 DEF ListInv, Linked, TypeOK
    <3>2. head \in Cells
      BY <2>2 DEF ListInv, TypeOK, Cells
    <3> QED
      BY <2>1, <3>1, <3>2
  <2>3. ASSUME NEW t \in Threads, pc[t] \in {"take_unlock", "take_free"}
        PROVE  ptr[t] \in Cells \ freed
    <3>1. Unlinked(ptr[t]) /\ ptr[t] \notin freed
      BY <2>3 DEF HeapInv, Garbage
    <3> QED
      BY <3>1 DEF Unlinked, TypeOK, Cells
  <2>4. \A t, u \in Threads :
          pc[t] = "take_free" /\ pc[u] = "take_free" /\ ptr[t] = ptr[u] => t = u
    BY DEF HeapInv, Garbage
  <2>5. \A c \in 1 .. allocated :
          \/ c \in Linked \cup freed
          \/ \E t \in Threads : pc[t] \in Owning /\ ptr[t] = c
    BY DEF HeapInv
  <2> QED
    BY <2>1, <2>2, <2>3, <2>4, <2>5 DEF HeapSafe
<1> QED
  BY Invariance, <1>1, PTL

------------------------------------------------------------------------------
(* A Vim process has one thread that takes from its queue.  With that, and *)
(* without spurious wake-ups, the single test of the list is enough.       *)

(* A taker that was signalled, or that saw an item, still has one to read; *)
(* one that sleeps has none.                                               *)
WakeInv ==
  /\ ~crashed
  /\ \A t \in Takers :
       /\ pc[t] \in {"take_woken", "take_read"} => head # 0
       /\ pc[t] = "take_wait" => head = 0

LEMMA NextWakeInv ==
  ASSUME SpuriousWakeups = FALSE, \A t, u \in Takers : t = u
  PROVE  IInv /\ WakeInv /\ [Next]_vars => WakeInv'
<1> SUFFICES ASSUME TypeOK, ListInv, WakeInv, [Next]_vars
             PROVE  WakeInv'
  BY DEF IInv
<1> USE DEF Threads
<1>1. ASSUME NEW t \in Adders, AddFirst(t)
      PROVE  WakeInv'
  <2>1. pc[t] = "add_first" /\ head' # 0
    BY <1>1 DEF AddFirst, ListInv, Linking, TypeOK
  <2>2. \A s \in Takers : pc'[s] # "take_wait"
    BY <1>1, <2>1 DEF AddFirst, Sleepers, TypeOK
  <2>3. ~crashed'
    BY <1>1 DEF AddFirst, WakeInv
  <2> QED
    BY <2>1, <2>2, <2>3 DEF WakeInv
<1>2. ASSUME NEW t \in Takers, TakeCheck(t)
      PROVE  WakeInv'
  <2>1. ~crashed' /\ head' = head
    BY <1>2 DEF TakeCheck, WakeInv
  <2>2. \A s \in Takers : s # t => pc'[s] = pc[s]
    BY <1>2 DEF TakeCheck, TypeOK
  <2>3. \/ head # 0 /\ pc'[t] = "take_read"
        \/ head = 0 /\ pc'[t] = "take_wait"
    BY <1>2 DEF TakeCheck, TypeOK
  <2> QED
    BY <2>1, <2>2, <2>3 DEF WakeInv
<1>3. ASSUME NEW t \in Takers, TakeResume(t)
      PROVE  WakeInv'
  <2>1. ~crashed' /\ head' = head
    BY <1>3 DEF TakeResume, Lock, list, WakeInv
  <2>2. \A s \in Takers : s # t => pc'[s] = pc[s]
    BY <1>3 DEF TakeResume, Lock, Goto, TypeOK
  <2>3. \/ pc[t] = "take_woken" /\ pc'[t] = "take_read"
        \/ pc'[t] = "take_timeout"
    BY <1>3 DEF TakeResume, Lock, Goto, TypeOK
  <2> QED
    BY <2>1, <2>2, <2>3 DEF WakeInv
<1>4. ASSUME NEW t \in Takers, TakeRead(t)
      PROVE  WakeInv'
  <2>1. head # 0 /\ head' = head
    BY <1>4 DEF TakeRead, list, WakeInv
  <2>2. crashed' = crashed
    BY <1>4, <2>1 DEF TakeRead
  <2>3. pc' = [pc EXCEPT ![t] = "take_advance"]
    BY <1>4, <2>1 DEF TakeRead
  <2> QED
    BY <2>1, <2>2, <2>3 DEF WakeInv, TypeOK
<1>5. ASSUME NEW t \in Takers, TakeAdvance(t)
      PROVE  WakeInv'
  <2>1. ~crashed' /\ pc'[t] = "take_unlock"
    BY <1>5 DEF TakeAdvance, Goto, WakeInv, TypeOK
  <2> QED
    BY <2>1 DEF WakeInv
<1>6. ASSUME NEW t \in Threads,
             \/ AddLock(t) \/ AddNode(t) \/ AddNext(t) \/ AddTail(t)
             \/ AddUnlock(t) \/ TakeLock(t) \/ TakeExpire(t)
             \/ TakeTimeout(t) \/ TakeUnlock(t) \/ TakeFree(t)
             \/ DigestLock(t) \/ DigestStep(t)
      PROVE  WakeInv'
  <2>1. crashed' = crashed /\ head' = head
    BY <1>6
       DEF AddLock, AddNode, AddNext, AddTail, AddUnlock, TakeLock,
           TakeExpire, TakeTimeout, TakeUnlock, TakeFree, DigestLock,
           DigestStep, DigestWait, DigestExpire, DigestResume, DigestUnlock,
           Lock, Unlock, Rouse, list
  <2>2. \E to \in {"take_check", "take_expired", "take_free", "idle"}
                  \cup AddPCs \cup DigestPCs :
          pc' = [pc EXCEPT ![t] = to]
    BY <1>6
       DEF AddLock, AddNode, AddNext, AddTail, AddUnlock, TakeLock,
           TakeExpire, TakeTimeout, TakeUnlock, TakeFree, DigestLock,
           DigestStep, DigestWait, DigestExpire, DigestResume, DigestUnlock,
           Lock, Unlock, Rouse, Goto, AddPCs, DigestPCs
  <2>3. \A s \in Threads :
          pc'[s] \in {"take_woken", "take_read", "take_wait"} => pc'[s] = pc[s]
    BY <2>2 DEF TypeOK, AddPCs, DigestPCs
  <2> QED
    BY <2>1, <2>3 DEF WakeInv
<1>7. CASE UNCHANGED vars
  BY <1>7 DEF vars, list, WakeInv
<1>8. ASSUME NEW t \in Threads
      PROVE  ~TakeSpurious(t) /\ ~DigestSpurious(t)
  BY DEF TakeSpurious, DigestSpurious
<1> QED
  BY <1>1, <1>2, <1>3, <1>4, <1>5, <1>6, <1>7, <1>8 DEF Next, AddStep, TakeStep

LEMMA WakeAlways ==
  ASSUME SpuriousWakeups = FALSE, \A t, u \in Takers : t = u
  PROVE  Spec => []WakeInv
<1>1. Init => WakeInv
  BY DEF Init, WakeInv, Threads
<1>2. IInv /\ WakeInv /\ [Next]_vars => WakeInv'
  BY NextWakeInv
<1> QED
  BY Invariance, <1>1, <1>2, PTL DEF Spec

(* One taker and no spurious wake-up: take reads the head of a list that   *)
(* has one, although it does not look again after its sleep.               *)
THEOREM SingleTaker ==
  ASSUME SpuriousWakeups = FALSE, \A t, u \in Takers : t = u
  PROVE  Spec => []NoNullDereference
<1>1. WakeInv => NoNullDereference
  BY DEF WakeInv, NoNullDereference
<1> QED
  BY WakeAlways, <1>1, PTL

(* Then the taker never sleeps on while an item waits for it either,       *)
(* although add signals only when the list was empty.                      *)
THEOREM NobodyStranded ==
  ASSUME SpuriousWakeups = FALSE, \A t, u \in Takers : t = u
  PROVE  Spec => []NoStrandedTaker
<1>1. WakeInv => NoStrandedTaker
  BY DEF WakeInv, NoStrandedTaker, Sleepers
<1> QED
  BY WakeAlways, <1>1, PTL
==============================================================================
