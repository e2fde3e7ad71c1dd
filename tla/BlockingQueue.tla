---------------------------- MODULE BlockingQueue ----------------------------
(***************************************************************************)
(* blocking_queue_t of src/util/blocking_queue.c: a linked list guarded by *)
(* a mutex, with a condition variable on which takers sleep while the list *)
(* is empty.  Every lock, every write to the list, every sleep and every   *)
(* wake-up is a step of its own, so that the steps of other threads can    *)
(* come between them wherever the mutex does not forbid it.                *)
(*                                                                         *)
(* List cells are numbered in the order in which they are allocated and    *)
(* are never reused, so a pointer to a released cell stays recognisable.   *)
(* Cell 0 is the null pointer.                                             *)
(***************************************************************************)
EXTENDS Naturals, Sequences

CONSTANTS Adders,          \* threads that call blocking_queue_add
          Takers,          \* threads that call blocking_queue_take
          Digesters,       \* threads that call blocking_queue_wait_digest
          Values,          \* the void* pointers put on the queue
          NULL,            \* what callers preset *into with
          NoThread,        \* the owner of a mutex nobody holds
          MaxAdds,         \* bound: at most MaxAdds items are ever added
          SpuriousWakeups  \* may pthread_cond_timedwait return unsignalled?

Threads == Adders \cup Takers \cup Digesters

ASSUME BlockingQueueAssumption ==
  /\ NoThread \notin Threads
  /\ MaxAdds \in Nat
  /\ SpuriousWakeups \in BOOLEAN

VARIABLES
  mutex,      \* _m_mutex: its owner, or NoThread
  head,       \* _m_head
  tail,       \* _m_tail
  next,       \* next[c]: the next field of list cell c
  data,       \* data[c]: the data field of list cell c
  allocated,  \* cells 1 .. allocated have been allocated
  freed,      \* the cells that have been released
  pc,         \* pc[t]: where thread t is in its call; it also says who
              \* sleeps on _m_condition and on _m_digest_condition
  ptr,        \* ptr[t]: the local list_node of an add, garbage of a take
  into,       \* into[t]: the variable taker t passes as *into
  crashed     \* a null pointer was dereferenced: the process is gone

list == <<head, tail, next, data>>
heap == <<allocated, freed>>
vars == <<mutex, list, heap, pc, ptr, into, crashed>>

Cells == 1 .. MaxAdds
AddPCs == {"add_node", "add_first", "add_next", "add_tail", "add_unlock"}
TakePCs == {"take_check", "take_wait", "take_woken", "take_expired",
            "take_timeout", "take_read", "take_advance", "take_unlock",
            "take_free"}
DigestPCs == {"digest_locked", "digest_wait", "digest_woken", "digest_unlock"}

(* The places where a thread owns the mutex. *)
Holding == AddPCs \cup {"take_check", "take_timeout", "take_read",
                        "take_advance", "take_unlock", "digest_locked",
                        "digest_unlock"}

(* The threads asleep in pthread_cond_timedwait on _m_condition. *)
Sleepers == {t \in Takers : pc[t] = "take_wait"}

Init ==
  /\ mutex = NoThread
  /\ head = 0 /\ tail = 0
  /\ next = [c \in Cells |-> 0]
  /\ data = [c \in Cells |-> NULL]
  /\ allocated = 0 /\ freed = {}
  /\ pc = [t \in Threads |-> "idle"]
  /\ ptr = [t \in Threads |-> 0]
  /\ into = [t \in Takers |-> NULL]
  /\ crashed = FALSE

------------------------------------------------------------------------------
(* Steps that every call is made of. *)

Goto(t, from, to) ==
  /\ pc[t] = from
  /\ pc' = [pc EXCEPT ![t] = to]

(* pthread_mutex_lock, and the return from pthread_cond_timedwait, which   *)
(* takes the mutex again.                                                  *)
Lock(t, from, to) ==
  /\ Goto(t, from, to)
  /\ mutex = NoThread
  /\ mutex' = t
  /\ UNCHANGED <<list, heap, ptr, into, crashed>>

Unlock(t, from, to) ==
  /\ Goto(t, from, to)
  /\ mutex' = NoThread
  /\ UNCHANGED <<list, heap, ptr, into, crashed>>

(* A sleeper leaves the condition variable; it does not own the mutex yet. *)
Rouse(t, from, to) ==
  /\ Goto(t, from, to)
  /\ UNCHANGED <<mutex, list, heap, ptr, into, crashed>>

------------------------------------------------------------------------------
(* blocking_queue_add *)

AddLock(t) ==
  /\ allocated < MaxAdds
  /\ Lock(t, "idle", "add_node")

(* new_list_node, then the test of the tail. *)
AddNode(t) ==
  \E v \in Values :
    LET cell == allocated + 1 IN
    /\ Goto(t, "add_node", IF tail = 0 THEN "add_first" ELSE "add_next")
    /\ allocated' = cell
    /\ data' = [data EXCEPT ![cell] = v]
    /\ next' = [next EXCEPT ![cell] = 0]
    /\ ptr' = [ptr EXCEPT ![t] = cell]
    /\ UNCHANGED <<mutex, head, tail, freed, into, crashed>>

(* Mutant of AddFirst: the signal is forgotten. *)
AddFirstUnsignalled(t) ==
  /\ Goto(t, "add_first", "add_unlock")
  /\ head' = ptr[t]
  /\ tail' = ptr[t]
  /\ UNCHANGED <<mutex, next, data, heap, ptr, into, crashed>>

(* The list was empty: both ends become the new cell and one sleeper, if   *)
(* there is one, is signalled.                                             *)
AddFirst(t) ==
  /\ pc[t] = "add_first"
  /\ head' = ptr[t]
  /\ tail' = ptr[t]
  /\ \/ /\ Sleepers = {}
        /\ pc' = [pc EXCEPT ![t] = "add_unlock"]
     \/ \E s \in Sleepers :
          pc' = [pc EXCEPT ![t] = "add_unlock", ![s] = "take_woken"]
  /\ UNCHANGED <<mutex, next, data, heap, ptr, into, crashed>>

(* Mutant of AddNext: the new cell is linked behind the head. *)
AddNextBehindHead(t) ==
  /\ Goto(t, "add_next", "add_tail")
  /\ next' = [next EXCEPT ![head] = ptr[t]]
  /\ UNCHANGED <<mutex, head, tail, data, heap, ptr, into, crashed>>

(* The list was not empty: nobody is signalled. *)
AddNext(t) ==
  /\ Goto(t, "add_next", "add_tail")
  /\ next' = [next EXCEPT ![tail] = ptr[t]]
  /\ UNCHANGED <<mutex, head, tail, data, heap, ptr, into, crashed>>

(* Mutant of AddTail: the tail stays where it was. *)
AddTailForgotten(t) ==
  /\ Goto(t, "add_tail", "add_unlock")
  /\ UNCHANGED <<mutex, list, heap, ptr, into, crashed>>

AddTail(t) ==
  /\ Goto(t, "add_tail", "add_unlock")
  /\ tail' = ptr[t]
  /\ UNCHANGED <<mutex, head, next, data, heap, ptr, into, crashed>>

AddUnlock(t) == Unlock(t, "add_unlock", "idle")

------------------------------------------------------------------------------
(* blocking_queue_take *)

(* Mutant of TakeLock: the mutex is not taken. *)
TakeUnlocked(t) == Rouse(t, "idle", "take_check")

TakeLock(t) == Lock(t, "idle", "take_check")

(* With an empty list the tail is reset and the taker goes to sleep, which *)
(* gives up the mutex in the same step.                                    *)
TakeCheck(t) ==
  /\ pc[t] = "take_check"
  /\ \/ /\ head # 0
        /\ pc' = [pc EXCEPT ![t] = "take_read"]
        /\ UNCHANGED <<mutex, tail>>
     \/ /\ head = 0
        /\ tail' = 0
        /\ mutex' = NoThread
        /\ pc' = [pc EXCEPT ![t] = "take_wait"]
  /\ UNCHANGED <<head, next, data, heap, ptr, into, crashed>>

(* Mutant of TakeExpire: pthread_cond_wait, which has no timeout. *)
TakeNeverExpires(t) == FALSE /\ Rouse(t, "take_wait", "take_expired")

(* The time given to pthread_cond_timedwait is up. *)
TakeExpire(t) == Rouse(t, "take_wait", "take_expired")

TakeSpurious(t) ==
  /\ SpuriousWakeups
  /\ Rouse(t, "take_wait", "take_woken")

(* Mutant of TakeResume: what pthread_cond_timedwait returns is ignored. *)
TakeResumeAnyway(t) ==
  \/ Lock(t, "take_woken", "take_read")
  \/ Lock(t, "take_expired", "take_read")

(* pthread_cond_timedwait returns; the list is not looked at again. *)
TakeResume(t) ==
  \/ Lock(t, "take_woken", "take_read")
  \/ Lock(t, "take_expired", "take_timeout")

(* return BQ_TIMEOUT *)
TakeTimeout(t) == Unlock(t, "take_timeout", "idle")

(* Mutant of TakeRead: the list cell is handed out, not its data. *)
TakeReadNode(t) ==
  /\ Goto(t, "take_read", "take_advance")
  /\ head # 0
  /\ into' = [into EXCEPT ![t] = head]
  /\ ptr' = [ptr EXCEPT ![t] = head]
  /\ UNCHANGED <<mutex, list, heap, crashed>>

(* *into = head->data; garbage = head.  Without a head this is where the   *)
(* process dies.                                                           *)
TakeRead(t) ==
  /\ pc[t] = "take_read"
  /\ \/ /\ head # 0
        /\ pc' = [pc EXCEPT ![t] = "take_advance"]
        /\ into' = [into EXCEPT ![t] = data[head]]
        /\ ptr' = [ptr EXCEPT ![t] = head]
        /\ UNCHANGED crashed
     \/ /\ head = 0
        /\ crashed' = TRUE
        /\ UNCHANGED <<pc, into, ptr>>
  /\ UNCHANGED <<mutex, list, heap>>

(* Mutant of TakeAdvance: the last cell is taken like any other. *)
TakeAdvanceOnly(t) ==
  /\ Goto(t, "take_advance", "take_unlock")
  /\ head' = next[head]
  /\ UNCHANGED <<mutex, tail, next, data, heap, ptr, into, crashed>>

TakeAdvance(t) ==
  /\ Goto(t, "take_advance", "take_unlock")
  /\ IF head = tail
     THEN head' = 0 /\ tail' = 0
     ELSE head' = next[head] /\ UNCHANGED tail
  /\ UNCHANGED <<mutex, next, data, heap, ptr, into, crashed>>

TakeUnlock(t) == Unlock(t, "take_unlock", "take_free")

(* free( garbage ), after the mutex has been given up; return BQ_OK *)
TakeFree(t) ==
  /\ Goto(t, "take_free", "idle")
  /\ freed' = freed \cup {ptr[t]}
  /\ UNCHANGED <<mutex, list, allocated, ptr, into, crashed>>

------------------------------------------------------------------------------
(* blocking_queue_wait_digest.  Nothing signals _m_digest_condition, so    *)
(* only the timeout and a spurious wake-up end the sleep.                  *)

DigestLock(t) == Lock(t, "idle", "digest_locked")
DigestWait(t) == Unlock(t, "digest_locked", "digest_wait")
DigestExpire(t) == Rouse(t, "digest_wait", "digest_woken")
DigestSpurious(t) ==
  /\ SpuriousWakeups
  /\ Rouse(t, "digest_wait", "digest_woken")
DigestResume(t) == Lock(t, "digest_woken", "digest_unlock")
DigestUnlock(t) == Unlock(t, "digest_unlock", "idle")

------------------------------------------------------------------------------
(* What thread t does once it is inside a call ... *)
AddStep(t) ==
  AddNode(t) \/ AddFirst(t) \/ AddNext(t) \/ AddTail(t) \/ AddUnlock(t)
TakeStep(t) ==
  \/ TakeCheck(t) \/ TakeExpire(t) \/ TakeResume(t) \/ TakeTimeout(t)
  \/ TakeRead(t) \/ TakeAdvance(t) \/ TakeUnlock(t) \/ TakeFree(t)
DigestStep(t) ==
  DigestWait(t) \/ DigestExpire(t) \/ DigestResume(t) \/ DigestUnlock(t)

(* ... and every step of the system, until the process dies. *)
Next ==
  /\ ~crashed
  /\ \/ \E t \in Adders : AddLock(t) \/ AddStep(t)
     \/ \E t \in Takers : TakeLock(t) \/ TakeStep(t) \/ TakeSpurious(t)
     \/ \E t \in Digesters : DigestLock(t) \/ DigestStep(t) \/ DigestSpurious(t)

Spec == Init /\ [][Next]_vars

(* A thread inside a call keeps running and its timer goes off; no thread  *)
(* has to make a call.  Weak fairness is enough for the mutex because the  *)
(* number of adds is bounded, as it is in the program: a worker queues     *)
(* finitely many commands.                                                 *)
FairSpec ==
  /\ Spec
  /\ \A t \in Adders : WF_vars(~crashed /\ AddStep(t))
  /\ \A t \in Takers : WF_vars(~crashed /\ TakeStep(t))
  /\ \A t \in Digesters : WF_vars(~crashed /\ DigestStep(t))

------------------------------------------------------------------------------
(* Types. *)
TypeOK ==
  /\ mutex \in Threads \cup {NoThread}
  /\ head \in 0 .. MaxAdds
  /\ tail \in 0 .. MaxAdds
  /\ next \in [Cells -> 0 .. MaxAdds]
  /\ data \in [Cells -> Values \cup {NULL}]
  /\ allocated \in 0 .. MaxAdds
  /\ freed \subseteq Cells
  /\ pc \in [Threads -> {"idle"} \cup AddPCs \cup TakePCs \cup DigestPCs]
  /\ ptr \in [Threads -> 0 .. MaxAdds]
  /\ into \in [Takers -> Values \cup {NULL}]
  /\ crashed \in BOOLEAN

(* The cells on the list. *)
Linked == IF head = 0 THEN {} ELSE head .. tail

(* The three sassert()s of the code: an empty list has no head when an add *)
(* finds no tail, no tail when a take finds no head, and the only cell has *)
(* no successor when it is taken.                                          *)
AssertsHold ==
  \A t \in Threads :
    /\ pc[t] = "add_first" => head = 0
    /\ pc[t] = "take_check" /\ head = 0 => tail = 0
    /\ pc[t] = "take_advance" /\ head = tail => next[head] = 0

(* Where a thread's ptr is the only thing that keeps a cell from leaking.   *)
Owning == {"add_first", "add_next", "add_tail", "take_unlock", "take_free"}

(* Every cell is used, waiting to be released by one take, or released:    *)
(* none leaks, none is released twice, and the list never runs through a   *)
(* released cell although a take releases its cell without the mutex.      *)
HeapSafe ==
  /\ Linked \cap freed = {}
  /\ \A t \in Threads :
       pc[t] \in {"take_advance", "take_unlock", "take_free"} =>
         ptr[t] \in Cells \ freed
  /\ \A t, u \in Threads :
       pc[t] = "take_free" /\ pc[u] = "take_free" /\ ptr[t] = ptr[u] => t = u
  /\ \A c \in 1 .. allocated :
       \/ c \in Linked \cup freed
       \/ \E t \in Threads : pc[t] \in Owning /\ ptr[t] = c

(* take never dereferences a null head.  The code tests the list once,     *)
(* before it sleeps, so this rests on every wake-up finding an item.       *)
NoNullDereference == ~crashed

(* Nobody sleeps in take while there is something to take.                 *)
NoStrandedTaker == head # 0 => Sleepers = {}

(* A call, once made, comes back, at the latest when its time is up.       *)
CallsReturn ==
  \A t \in Threads : (pc[t] # "idle") ~> (pc[t] = "idle")

------------------------------------------------------------------------------
(* The list as a sequence.  A take removes its item when it reads it: the  *)
(* head it has yet to move is no longer part of the queue.                 *)
front == IF \E t \in Takers : pc[t] = "take_advance" THEN head + 1 ELSE head
contents ==
  IF head = 0 THEN <<>>
  ELSE [i \in 1 .. (tail + 1 - front) |-> data[front + i - 1]]

(* Items come out in the order they went in, each to one taker, and a take *)
(* that times out takes nothing.                                           *)
Fifo == INSTANCE FifoQueue WITH q <- contents
ImplementsFifo == Fifo!Spec
==============================================================================
