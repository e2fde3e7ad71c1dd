---------------------------- MODULE StreamRegex ----------------------------
(***************************************************************************)
(* The scan of a file by several regular expressions at once, of           *)
(* src/util/strbuf.c.  The file passes through a window of BufSize bytes.  *)
(* Each regex keeps an offset (rel_pointer) into the window from which it  *)
(* goes on; the regex furthest behind is run next, after the window has    *)
(* been moved to its offset.                                               *)
(*                                                                         *)
(* What a regex finds is data of the text that is scanned: its tries are   *)
(* the places where it begins to match.  A try starts at from; until the   *)
(* text is known up to min, PCRE reports a partial match.  A try that is   *)
(* ok is complete from min on and, PCRE being greedy, goes up to to if it  *)
(* can; go is the end of its last numbered group.  A try that is not ok    *)
(* turns out at min to be none (min is beyond the file if the file ends in *)
(* the middle of it).  Positions are counted in the file.                  *)
(***************************************************************************)
EXTENDS Integers

CONSTANTS NRes,    \* how many regexes there are
          BufSize, \* total_size, the bytes of the window
          Texts,   \* the files that may be scanned
          Failing  \* the regexes on which pcre_exec may fail

Regexes == 0 .. (NRes - 1)
Try == [from : Nat, min : Nat, to : Nat, go : Nat, ok : BOOLEAN]

ASSUME StreamAssumption ==
  /\ NRes \in Nat \ {0}
  /\ BufSize \in Nat \ {0}
  /\ Failing \subseteq Regexes
  /\ \A file \in Texts :
       /\ file.size \in Nat
       /\ file.tries \in [Regexes -> SUBSET Try]
       /\ \A r \in Regexes : \A t \in file.tries[r] :
            /\ t.from < t.min /\ t.min <= t.to /\ t.from < file.size
            /\ t.ok => t.to <= file.size /\ t.from <= t.go /\ t.go <= t.to
            /\ \A u \in file.tries[r] : u.from = t.from => u = t

VARIABLES
  text,        \* the file
  pos,         \* the FILE's position: how much of it has been read
  base,        \* the file position of the first byte in the window
  len,         \* how many bytes the window holds
  rel_pointer, \* rel_pointer[r]: where in the window r goes on
  smallest,    \* the regex that is run
  shift,       \* by how much this turn has moved the window
  offset,      \* where in the window the next pcre_exec begins
  pc,          \* the place in strbuf_stream_regex8
  resume,      \* history: resume[r]: the file position r goes on from
  reports,     \* history: reports[r]: what the callback was given by r
  lost         \* history: lost[r]: where r was not run because it had failed

vars == <<text, pos, base, len, rel_pointer, smallest, shift, offset, pc,
          resume, reports, lost>>

Smaller(a, b) == IF a < b THEN a ELSE b
End == base + len
Tries == text.tries[smallest]

Init ==
  /\ text \in Texts
  /\ base = 0
  /\ len = Smaller(BufSize, text.size)
  /\ pos = len
  /\ rel_pointer = [r \in Regexes |-> 0]
  /\ smallest = 0
  /\ shift = 0
  /\ offset = 0
  /\ pc = "cut"
  /\ resume = [r \in Regexes |-> 0]
  /\ reports = [r \in Regexes |-> {}]
  /\ lost = [r \in Regexes |-> {}]

------------------------------------------------------------------------------
(* Mutant of Kept: the length of the tail is not limited to the bytes that *)
(* are in the window.                                                      *)
KeptOfTotal(n) == IF n < BufSize THEN BufSize - n ELSE 0

(* strbuf_cut_offset keeps what is behind the first n bytes of the window. *)
Kept(n) == IF n < len THEN len - n ELSE 0

(* The start of a turn: unless the regex goes on at offset 0, move the     *)
(* window there and fill it from the file; an empty window ends the scan.  *)
CutOffset ==
  /\ shift' = rel_pointer[smallest]
  /\ IF shift' = 0
       THEN UNCHANGED <<base, len, pos>>
       ELSE /\ base' = base + Smaller(shift', len)
            /\ len' = Kept(shift') + Smaller(BufSize - Kept(shift'),
                                             text.size - pos)
            /\ pos' = pos + Smaller(BufSize - Kept(shift'), text.size - pos)

Cut ==
  /\ pc = "cut"
  /\ CutOffset
  /\ offset' = 0
  /\ pc' = IF shift' # 0 /\ len' = 0 THEN "done" ELSE "exec"
  /\ UNCHANGED <<text, rel_pointer, smallest, resume, reports, lost>>

------------------------------------------------------------------------------
(* pcre_exec on the window from offset on: any try that is complete in the *)
(* window beats those that are only partial, and the first one counts.     *)
Complete == {t \in Tries : t.ok /\ base + offset <= t.from /\ t.min <= End}
Partial == {t \in Tries : base + offset <= t.from /\ t.from < End
                          /\ End < t.min}
IsFirst(t, S) == t \in S /\ \A u \in S : t.from <= u.from

(* strbuf_exhaust goes on one past the last group of the match.            *)
(* Mutant of OffsetAfter: it goes on two past the group.                   *)
OffsetTwoAfter(off1, off2) == off2 + 2

OffsetAfter(off1, off2) == off2 + 1

(* One match: the callback gets it, as far as it is in the window. *)
Match ==
  /\ pc = "exec" /\ offset < len
  /\ \E t \in Complete :
       /\ IsFirst(t, Complete)
       /\ reports' = [reports EXCEPT ![smallest] =
                        @ \cup {[from |-> t.from, to |-> Smaller(t.to, End)]}]
       /\ offset' = OffsetAfter(t.from - base, Smaller(t.go, End) - base)
  /\ UNCHANGED <<text, pos, base, len, rel_pointer, smallest, shift, pc, resume,
                 lost>>

(* The regex leaves the window: its next turn begins at offset rel of it. *)
Leave(rel) ==
  /\ rel_pointer' = [rel_pointer EXCEPT ![smallest] = rel]
  /\ resume' = [resume EXCEPT ![smallest] = base + rel]
  /\ pc' = "pick"
  /\ UNCHANGED <<text, pos, base, len, smallest, shift, offset, reports>>

(* A partial match is left for a later window, but one at the very start   *)
(* of this window is taken for a loss, with all the window.                *)
(* Mutant of PartialOffset: a partial match is not kept for later.         *)
PartialLost(rel) == BufSize

(* Mutant of PartialOffset: no partial match is given up. *)
PartialKept(rel) == rel

PartialOffset(rel) == IF rel = 0 THEN BufSize ELSE rel

PartialMatch ==
  /\ pc = "exec" /\ offset < len
  /\ Complete = {}
  /\ \E t \in Partial :
       /\ IsFirst(t, Partial)
       /\ Leave(PartialOffset(t.from - base))
  /\ UNCHANGED lost

(* Mutant of NoMatch: the offset is not set when the loop ends because the *)
(* last match goes up to the end of the window.                            *)
NoMatchForgotten ==
  /\ pc = "exec"
  /\ offset < len => Complete = {} /\ Partial = {}
  /\ Leave(IF offset < len THEN BufSize ELSE rel_pointer[smallest])
  /\ UNCHANGED lost

NoMatch ==
  /\ pc = "exec"
  /\ offset < len => Complete = {} /\ Partial = {}
  /\ Leave(BufSize)
  /\ UNCHANGED lost

(* Any other result of pcre_exec, which may have found a match or given up *)
(* looking for one, costs the regex the rest of the window.                *)
ExecFails ==
  /\ smallest \in Failing
  /\ pc = "exec" /\ offset < len
  /\ Leave(BufSize)
  /\ lost' = [lost EXCEPT ![smallest] = @ \cup (base + offset) .. (End - 1)]

------------------------------------------------------------------------------
(* After a turn the offsets of the others are made relative to the window  *)
(* as it is now.  Mutant of Shifted: those at the end of it are forgotten. *)
ShiftedIfInside(r) ==
  IF r = smallest \/ rel_pointer[r] = BufSize
    THEN rel_pointer[r] ELSE rel_pointer[r] - shift

Shifted(r) == IF r = smallest THEN rel_pointer[r] ELSE rel_pointer[r] - shift

(* The regex with the smallest offset is next: the last one of them, and   *)
(* any one before the regex that has just run.                             *)
(* Mutant of IsNext: the regexes take turns whatever their offsets are.    *)
IsNextInTurn(r) == r = (smallest + 1) % NRes

IsNext(r) ==
  /\ \A i \in Regexes : Shifted(r) <= Shifted(i)
  /\ \A i \in Regexes \ {r} :
       Shifted(i) = Shifted(r) => r # smallest /\ (i = smallest \/ i < r)

Pick ==
  /\ pc = "pick"
  /\ rel_pointer' = [r \in Regexes |-> Shifted(r)]
  /\ \E r \in Regexes : IsNext(r) /\ smallest' = r
  /\ pc' = "cut"
  /\ UNCHANGED <<text, pos, base, len, shift, offset, resume, reports, lost>>

Done == pc = "done" /\ UNCHANGED vars

Next == Cut \/ Match \/ PartialMatch \/ NoMatch \/ ExecFails \/ Pick \/ Done

Spec == Init /\ [][Next]_vars

(* The scan is one loop of one thread: it goes on as long as it can. *)
FairSpec == Spec /\ WF_vars(Next)

------------------------------------------------------------------------------
TypeOK ==
  /\ pos \in 0 .. text.size
  /\ base \in Nat
  /\ len \in 0 .. BufSize
  /\ rel_pointer \in [Regexes -> 0 .. BufSize]
  /\ smallest \in Regexes
  /\ shift \in 0 .. BufSize
  /\ offset \in 0 .. (BufSize + 1)
  /\ pc \in {"cut", "exec", "pick", "done"}
  /\ resume \in [Regexes -> Nat]
  /\ reports \in [Regexes -> SUBSET [from : Nat, to : Nat]]
  /\ lost \in [Regexes -> SUBSET Nat]

(* The window is the part of the file that ends where reading it goes on,  *)
(* and it is full unless the file ends in it.                              *)
WindowInFile ==
  /\ End = pos
  /\ len < BufSize => pos = text.size

(* The offsets of all the regexes, relative to a window that each of them  *)
(* moves, still mean the place in the file where each one stopped: nothing *)
(* is scanned twice and nothing is left out between two turns.             *)
OffsetsConsistent ==
  pc = "cut" => \A r \in Regexes : base + rel_pointer[r] = resume[r]

(* No bytes that a regex has not scanned yet are dropped from the window   *)
(* by the turn of another one.                                             *)
NothingDropped == \A r \in Regexes : pc # "done" => base <= resume[r]

(* A match that touches no other place where its regex begins to match. *)
Apart(t, u) == u.from >= t.to + 1 \/ t.from >= u.to + 1
IsSeparate(r, t) == t.ok /\ \A u \in text.tries[r] \ {t} : Apart(t, u)

Reported(r, t) == \E rep \in reports[r] : rep.from = t.from

(* Whatever the ends of the windows cut through, a match that fits into    *)
(* the window and touches no other is reported once the scan is over,      *)
(* unless it begins where its own regex had failed: a failure costs no     *)
(* match in front of it, in a later window, or of another regex.           *)
SeparateMatchesFound ==
  pc = "done" =>
    \A r \in Regexes : \A t \in text.tries[r] :
      IsSeparate(r, t) /\ t.min - t.from <= BufSize =>
        Reported(r, t) \/ t.from \in lost[r]

(* A regex goes through the file once, forwards: each match it finds       *)
(* begins behind all it has reported, so no match is queued twice.         *)
ReportsForward ==
  [][Match => \E rep \in reports'[smallest] :
                \A old \in reports[smallest] : old.from < rep.from]_vars

(* No turn leaves its regex where it was: also after a partial match, a    *)
(* failure or the end of the file, the next turn of the regex begins at a  *)
(* later place in the file.  So the loop cannot go round in one place.     *)
TurnsAdvance ==
  [][pc = "exec" /\ pc' = "pick" => resume'[smallest] > resume[smallest]]_vars

(* Every scan ends, although it goes on as long as any regex has an offset *)
(* in the window that is not the end of it.                                *)
ScanEnds == <>(pc = "done")

(* "run all the matches of one regex" (strbuf.c:62): when a turn is over,  *)
(* each match in the window was reported, or a reported one covers its     *)
(* start.                                                                  *)
WindowExhausted ==
  pc = "pick" =>
    \A t \in Tries :
      t.ok /\ base <= t.from /\ t.min <= End =>
        \E rep \in reports[smallest] :
          rep.from <= t.from /\ (t.from < rep.to \/ t.from = rep.from)
=============================================================================
