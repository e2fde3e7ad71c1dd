-------------------------- MODULE StreamRegexProofs --------------------------
(***************************************************************************)
(* Proofs about the scan of a file by several regexes: the window and the  *)
(* offsets into it stay consistent, every turn of a regex advances, a      *)
(* regex reports forwards, and it reports every match that fits into the   *)
(* window, touches no other and does not begin where the regex failed, for *)
(* every text, every size of the window and every number of regexes.       *)
(***************************************************************************)
EXTENDS StreamRegex, TLAPS

(* How far a regex has come in the file: the one that is running up to     *)
(* offset in the window, the others up to where they go on.                *)
Handled(r) == IF pc = "exec" /\ r = smallest THEN base + offset ELSE resume[r]

(* Between the turns the offsets are relative to the window; during a turn *)
(* those of the others still lack the shift of this turn.                  *)
OffsetInv ==
  /\ pc = "cut" => \A r \in Regexes : /\ base + rel_pointer[r] = resume[r]
                                      /\ rel_pointer[smallest] <= rel_pointer[r]
  /\ pc \in {"exec", "pick"} =>
       \A r \in Regexes \ {smallest} : /\ base + rel_pointer[r] = resume[r] + shift
                                       /\ shift <= rel_pointer[r]
  /\ pc = "exec" => resume[smallest] = base
  /\ pc = "pick" => resume[smallest] = base + rel_pointer[smallest]
  /\ pc = "done" => \A r \in Regexes : text.size <= resume[r]

(* What has been reported lies behind, in what has been read. *)
ReportInv ==
  \A r \in Regexes : \A rep \in reports[r] :
    /\ rep.from < Handled(r)
    /\ rep.from < pos

(* Of what lies behind, each match that fits and touches no other has been *)
(* reported, or the regex failed there.                                    *)
Accounted(r, t) == Reported(r, t) \/ t.from \in lost[r]
FoundInv ==
  \A r \in Regexes : \A t \in text.tries[r] :
    /\ IsSeparate(r, t)
    /\ t.min - t.from <= BufSize
    /\ t.from < Handled(r)
    => Accounted(r, t)

ScanInv == TypeOK /\ text \in Texts /\ WindowInFile /\ OffsetInv

(* Every text is a record of a size and of the tries of each regex. *)
LEMMA TextType ==
  ASSUME text \in Texts
  PROVE  /\ text.size \in Nat
         /\ \A r \in Regexes : \A t \in text.tries[r] :
              /\ t.from \in Nat /\ t.min \in Nat /\ t.to \in Nat /\ t.go \in Nat
              /\ t.from < t.min /\ t.min <= t.to /\ t.from < text.size
              /\ t.ok => t.to <= text.size /\ t.from <= t.go /\ t.go <= t.to
              /\ \A u \in text.tries[r] : u.from = t.from => u = t
<1>1. /\ text.size \in Nat
      /\ text.tries \in [Regexes -> SUBSET Try]
      /\ \A r \in Regexes : \A t \in text.tries[r] :
           /\ t.from < t.min /\ t.min <= t.to /\ t.from < text.size
           /\ t.ok => t.to <= text.size /\ t.from <= t.go /\ t.go <= t.to
           /\ \A u \in text.tries[r] : u.from = t.from => u = t
  BY StreamAssumption
<1>2. \A r \in Regexes : \A t \in text.tries[r] : t \in Try
  BY <1>1
<1>3. \A t \in Try : t.from \in Nat /\ t.min \in Nat /\ t.to \in Nat /\ t.go \in Nat
  BY DEF Try
<1> QED
  BY <1>1, <1>2, <1>3

LEMMA ScanInit == Init => ScanInv
<1> SUFFICES ASSUME Init PROVE ScanInv
  OBVIOUS
<1>1. text.size \in Nat /\ BufSize \in Nat \ {0} /\ 0 \in Regexes
  BY TextType, StreamAssumption DEF Init, Regexes
<1>2. TypeOK
  BY <1>1 DEF Init, TypeOK, Smaller
<1>3. WindowInFile
  BY <1>1 DEF Init, WindowInFile, End, Smaller
<1>4. OffsetInv
  BY <1>1 DEF Init, OffsetInv
<1> QED
  BY <1>2, <1>3, <1>4 DEF Init, ScanInv

(* A turn begins: the window is moved, and it does not lose what another   *)
(* regex still needs.                                                      *)
LEMMA ScanCut == ScanInv /\ Cut => ScanInv'
<1> SUFFICES ASSUME ScanInv, Cut PROVE ScanInv'
  OBVIOUS
<1> DEFINE n == rel_pointer[smallest]
<1>t. /\ text.size \in Nat /\ BufSize \in Nat /\ BufSize > 0
      /\ pos \in 0 .. text.size /\ base \in Nat /\ len \in 0 .. BufSize
      /\ smallest \in Regexes /\ n \in 0 .. BufSize
      /\ base + len = pos /\ (len < BufSize => pos = text.size)
      /\ text' = text /\ text \in Texts
  BY TextType, StreamAssumption DEF ScanInv, TypeOK, WindowInFile, End, Cut
<1>s. /\ rel_pointer' = rel_pointer /\ smallest' = smallest
      /\ resume' = resume /\ reports' = reports /\ lost' = lost
      /\ shift' = n /\ offset' = 0
      /\ pc' = IF n # 0 /\ len' = 0 THEN "done" ELSE "exec"
  BY DEF Cut, CutOffset
<1>o. \A r \in Regexes : base + rel_pointer[r] = resume[r] /\ n <= rel_pointer[r]
  BY DEF ScanInv, OffsetInv, Cut
<1>u. \A r \in Regexes : rel_pointer[r] \in 0 .. BufSize
  BY DEF ScanInv, TypeOK
<1> HIDE DEF n
<1>1. CASE n = 0
  <2>1. base' = base /\ len' = len /\ pos' = pos /\ pc' = "exec"
    BY <1>1, <1>s DEF Cut, CutOffset
  <2>2. TypeOK' /\ WindowInFile'
    BY <1>t, <1>s, <2>1 DEF ScanInv, TypeOK, WindowInFile, End
  <2>3. OffsetInv'
    BY <1>1, <1>t, <1>s, <1>o, <1>u, <2>1 DEF n, OffsetInv
  <2> QED
    BY <1>t, <2>2, <2>3 DEF ScanInv
<1>2. CASE n # 0 /\ n < len
  <2> DEFINE new == Smaller(BufSize - (len - n), text.size - pos)
  <2>1. base' = base + n /\ len' = (len - n) + new /\ pos' = pos + new
    BY <1>2, <1>t, <1>s DEF Cut, CutOffset, Kept, Smaller
  <2>2. new \in Nat /\ new <= BufSize - (len - n) /\ new <= text.size - pos
        /\ (new = BufSize - (len - n) \/ new = text.size - pos)
    BY <1>2, <1>t DEF Smaller
  <2>3. pc' = "exec"
    BY <1>2, <1>t, <1>s, <2>1, <2>2
  <2> HIDE DEF new
  <2>4. base' \in Nat /\ len' \in 0 .. BufSize /\ pos' \in 0 .. text.size
        /\ base' + len' = pos' /\ (len' < BufSize => pos' = text.size)
    <3>1. len - n \in Nat /\ len - n <= BufSize /\ n \in Nat
      BY <1>2, <1>t
    <3>2. base' \in Nat /\ len' \in 0 .. BufSize /\ pos' \in 0 .. text.size
      BY <1>t, <2>1, <2>2, <3>1
    <3>3. base' + len' = pos'
      BY <1>t, <2>1, <2>2, <3>1
    <3>4. len' < BufSize => pos' = text.size
      BY <1>t, <2>1, <2>2, <3>1
    <3> QED
      BY <3>2, <3>3, <3>4
  <2>5. TypeOK' /\ WindowInFile'
    <3>1. pc' \in {"cut", "exec", "pick", "done"} /\ shift' \in 0 .. BufSize
      BY <1>t, <1>s
    <3>2. TypeOK'
      BY <1>t, <1>s, <2>4, <3>1 DEF ScanInv, TypeOK
    <3>3. WindowInFile'
      BY <1>t, <2>4 DEF WindowInFile, End
    <3> QED
      BY <3>2, <3>3
  <2>6. OffsetInv'
    BY <1>t, <1>s, <1>o, <1>u, <2>1, <2>3 DEF n, OffsetInv
  <2> QED
    BY <1>t, <2>5, <2>6 DEF ScanInv
<1>3. CASE n # 0 /\ len <= n
  <2> DEFINE new == Smaller(BufSize, text.size - pos)
  <2>1. base' = pos /\ len' = new /\ pos' = pos + new
    BY <1>3, <1>t, <1>s DEF Cut, CutOffset, Kept, Smaller
  <2>2. new \in Nat /\ new <= BufSize /\ new <= text.size - pos
        /\ (new = BufSize \/ new = text.size - pos)
    BY <1>t DEF Smaller
  <2> HIDE DEF new
  <2>3. base' \in Nat /\ len' \in 0 .. BufSize /\ pos' \in 0 .. text.size
        /\ base' + len' = pos' /\ (len' < BufSize => pos' = text.size)
    BY <1>3, <1>t, <2>1, <2>2
  <2>4. TypeOK' /\ WindowInFile'
    <3>1. pc' \in {"cut", "exec", "pick", "done"} /\ shift' \in 0 .. BufSize
      BY <1>t, <1>s
    <3>2. TypeOK'
      BY <1>t, <1>s, <2>3, <3>1 DEF ScanInv, TypeOK
    <3>3. WindowInFile'
      BY <1>t, <2>3 DEF WindowInFile, End
    <3> QED
      BY <3>2, <3>3
  <2>5. CASE len' = 0
    <3>1. pc' = "done" /\ pos = text.size
      BY <1>3, <1>t, <1>s, <2>1, <2>2, <2>5
    <3>2. \A r \in Regexes : text.size <= resume[r]
      BY <1>3, <1>t, <1>o, <1>u, <3>1
    <3> QED
      BY <1>t, <1>s, <2>4, <3>1, <3>2 DEF ScanInv, OffsetInv
  <2>6. CASE len' # 0
    <3>1. pc' = "exec" /\ n = len
      BY <1>3, <1>t, <1>s, <2>1, <2>2, <2>3, <2>6
    <3>2. OffsetInv'
      BY <1>t, <1>s, <1>o, <1>u, <2>1, <3>1 DEF n, OffsetInv
    <3> QED
      BY <1>t, <2>4, <3>2 DEF ScanInv
  <2> QED
    BY <2>5, <2>6
<1> QED
  BY <1>1, <1>2, <1>3, <1>t

(* The regex that is running leaves the window at an offset behind the     *)
(* start of it.                                                            *)
LEMMA ScanLeave ==
  ASSUME NEW rel \in 1 .. BufSize, ScanInv, pc = "exec", Leave(rel),
         lost' \in [Regexes -> SUBSET Nat]
  PROVE  ScanInv'
<1>1. smallest \in Regexes /\ base \in Nat
  BY DEF ScanInv, TypeOK
<1>2. TypeOK'
  <2>1. rel_pointer' \in [Regexes -> 0 .. BufSize] /\ resume' \in [Regexes -> Nat]
    BY <1>1, StreamAssumption DEF ScanInv, TypeOK, Leave
  <2> QED
    BY <2>1 DEF ScanInv, TypeOK, Leave
<1>3. WindowInFile'
  BY DEF ScanInv, WindowInFile, End, Leave
<1>4. OffsetInv'
  BY <1>1 DEF ScanInv, TypeOK, OffsetInv, Leave
<1> QED
  BY <1>2, <1>3, <1>4 DEF ScanInv, Leave

(* A match moves the offset, at most one behind the end of the window. *)
LEMMA ScanMatch == ScanInv /\ Match => ScanInv'
<1> SUFFICES ASSUME ScanInv, Match PROVE ScanInv'
  OBVIOUS
<1>1. PICK t \in Complete :
        /\ reports' = [reports EXCEPT ![smallest] =
                         @ \cup {[from |-> t.from, to |-> Smaller(t.to, End)]}]
        /\ offset' = OffsetAfter(t.from - base, Smaller(t.go, End) - base)
  BY DEF Match
<1>2. /\ smallest \in Regexes /\ base \in Nat /\ len \in 0 .. BufSize
      /\ offset \in Nat /\ BufSize \in Nat /\ End = base + len
      /\ text \in Texts
  BY StreamAssumption DEF ScanInv, TypeOK, End
<1>3. /\ t.from \in Nat /\ t.to \in Nat /\ t.go \in Nat /\ t.min \in Nat
      /\ t.from < t.min /\ t.from <= t.go
      /\ base + offset <= t.from /\ t.min <= End
  BY <1>2, TextType DEF Complete, Tries
<1>4. Smaller(t.go, End) \in Nat /\ Smaller(t.to, End) \in Nat
      /\ base <= Smaller(t.go, End) /\ Smaller(t.go, End) <= base + len
  BY <1>2, <1>3 DEF Smaller
<1>5. offset' \in 0 .. (BufSize + 1)
  BY <1>1, <1>2, <1>4 DEF OffsetAfter
<1>6. reports' \in [Regexes -> SUBSET [from : Nat, to : Nat]]
  BY <1>1, <1>2, <1>3, <1>4 DEF ScanInv, TypeOK
<1>7. TypeOK'
  BY <1>5, <1>6 DEF ScanInv, TypeOK, Match
<1>8. WindowInFile' /\ OffsetInv'
  BY DEF ScanInv, WindowInFile, End, OffsetInv, Match
<1> QED
  BY <1>7, <1>8 DEF ScanInv, Match

(* The offsets are made relative to the window as it is, and the smallest  *)
(* one is next.                                                            *)
LEMMA ScanPick == ScanInv /\ Pick => ScanInv'
<1> SUFFICES ASSUME ScanInv, Pick PROVE ScanInv'
  OBVIOUS
<1>1. PICK q \in Regexes : IsNext(q) /\ smallest' = q
  BY DEF Pick
<1>2. /\ rel_pointer' = [r \in Regexes |-> Shifted(r)]
      /\ pc = "pick" /\ pc' = "cut"
      /\ UNCHANGED <<text, pos, base, len, shift, offset, resume, reports, lost>>
  BY DEF Pick
<1>3. /\ smallest \in Regexes /\ base \in Nat /\ shift \in 0 .. BufSize
      /\ BufSize \in Nat /\ resume \in [Regexes -> Nat]
      /\ rel_pointer \in [Regexes -> 0 .. BufSize]
  BY StreamAssumption DEF ScanInv, TypeOK
<1>4. \A r \in Regexes : Shifted(r) \in 0 .. BufSize /\ base + Shifted(r) = resume[r]
  <2> TAKE r \in Regexes
  <2>1. CASE r = smallest
    BY <1>2, <1>3, <2>1 DEF ScanInv, OffsetInv, Shifted
  <2>2. CASE r # smallest
    BY <1>2, <1>3, <2>2 DEF ScanInv, OffsetInv, Shifted
  <2> QED
    BY <2>1, <2>2
<1>5. TypeOK'
  BY <1>1, <1>2, <1>4 DEF ScanInv, TypeOK
<1>6. WindowInFile'
  BY <1>2 DEF ScanInv, WindowInFile, End
<1>7. OffsetInv'
  BY <1>1, <1>2, <1>4 DEF OffsetInv, IsNext
<1> QED
  BY <1>2, <1>5, <1>6, <1>7 DEF ScanInv

(* The offset a partial match is kept at is behind the start of the window. *)
LEMMA PartialRange ==
  ASSUME ScanInv, NEW t \in Partial
  PROVE  /\ PartialOffset(t.from - base) \in 1 .. BufSize
         /\ t.from \in Nat /\ t.min \in Nat /\ t.from - base \in Nat
<1>1. /\ base \in Nat /\ len \in 0 .. BufSize /\ offset \in Nat
      /\ BufSize \in Nat /\ BufSize > 0 /\ t.from \in Nat /\ t.min \in Nat
      /\ base + offset <= t.from /\ t.from < base + len
  BY StreamAssumption, TextType DEF ScanInv, TypeOK, Partial, Tries, End
<1> QED
  BY <1>1 DEF PartialOffset

LEMMA ScanStep == ScanInv /\ [Next]_vars => ScanInv'
<1> SUFFICES ASSUME ScanInv, [Next]_vars PROVE ScanInv'
  OBVIOUS
<1>1. CASE Cut
  BY <1>1, ScanCut
<1>2. CASE Match
  BY <1>2, ScanMatch
<1>0. lost \in [Regexes -> SUBSET Nat]
  BY DEF ScanInv, TypeOK
<1>3. CASE PartialMatch
  BY <1>0, <1>3, ScanLeave, PartialRange DEF PartialMatch, IsFirst
<1>4. CASE NoMatch
  BY <1>0, <1>4, ScanLeave, StreamAssumption DEF NoMatch
<1>7. CASE ExecFails
  <2>1. (base + offset) .. (End - 1) \subseteq Nat
    BY DEF ScanInv, TypeOK, End
  <2>2. lost' \in [Regexes -> SUBSET Nat]
    BY <1>0, <1>7, <2>1 DEF ExecFails
  <2> QED
    BY <1>7, <2>2, ScanLeave, StreamAssumption DEF ExecFails
<1>5. CASE Pick
  BY <1>5, ScanPick
<1>6. CASE UNCHANGED vars
  BY <1>6 DEF vars, ScanInv, TypeOK, WindowInFile, End, OffsetInv
<1> QED
  BY <1>1, <1>2, <1>3, <1>4, <1>5, <1>6, <1>7 DEF Next, Done

(* The type invariant of the scan. *)
THEOREM ScanTypeCorrect == Spec => []TypeOK
<1>1. ScanInv => TypeOK
  BY DEF ScanInv
<1> QED
  BY <1>1, ScanInit, ScanStep, PTL DEF Spec

(* The window is the part of the file in front of the read position, and   *)
(* it is full unless the file ends in it (strbuf_cut_offset).              *)
THEOREM WindowIsPartOfFile == Spec => []WindowInFile
<1>1. ScanInv => WindowInFile
  BY DEF ScanInv
<1> QED
  BY <1>1, ScanInit, ScanStep, PTL DEF Spec

(* The relative offsets of all regexes stay true although each of them     *)
(* moves the window (strbuf_stream_regex8).                                *)
THEOREM OffsetsStayConsistent == Spec => []OffsetsConsistent
<1>1. ScanInv => OffsetsConsistent
  BY DEF ScanInv, OffsetInv, OffsetsConsistent
<1> QED
  BY <1>1, ScanInit, ScanStep, PTL DEF Spec

(* The turn of one regex never drops bytes that another has not scanned.   *)
THEOREM NothingIsDropped == Spec => []NothingDropped
<1>1. ScanInv => NothingDropped
  <2> SUFFICES ASSUME ScanInv, NEW r \in Regexes, pc # "done"
               PROVE  base <= resume[r]
    BY DEF NothingDropped
  <2>1. /\ base \in Nat /\ rel_pointer[r] \in Nat /\ shift \in Nat
        /\ resume[r] \in Nat /\ rel_pointer[smallest] \in Nat
        /\ pc \in {"cut", "exec", "pick"}
    BY StreamAssumption DEF ScanInv, TypeOK
  <2> QED
    BY <2>1 DEF ScanInv, OffsetInv
<1> QED
  BY <1>1, ScanInit, ScanStep, PTL DEF Spec
------------------------------------------------------------------------------
(* What a match step reports and where it goes on. *)
LEMMA MatchFacts ==
  ASSUME ScanInv, Match
  PROVE  \E t \in text.tries[smallest] :
           /\ t.ok /\ base + offset <= t.from /\ t.min <= End
           /\ \A u \in text.tries[smallest] :
                u.ok /\ base + offset <= u.from /\ u.min <= End => t.from <= u.from
           /\ reports' = [reports EXCEPT ![smallest] =
                            @ \cup {[from |-> t.from, to |-> Smaller(t.to, End)]}]
           /\ offset' = Smaller(t.go, End) - base + 1
           /\ t.from <= Smaller(t.go, End) /\ Smaller(t.go, End) <= t.to
           /\ t.min <= Smaller(t.to, End) /\ Smaller(t.to, End) <= t.to
<1>1. PICK t \in Complete :
        /\ IsFirst(t, Complete)
        /\ reports' = [reports EXCEPT ![smallest] =
                         @ \cup {[from |-> t.from, to |-> Smaller(t.to, End)]}]
        /\ offset' = OffsetAfter(t.from - base, Smaller(t.go, End) - base)
  BY DEF Match
<1>2. /\ smallest \in Regexes /\ text \in Texts /\ End \in Nat /\ base \in Nat
      /\ BufSize \in Nat
  BY StreamAssumption DEF ScanInv, TypeOK, End
<1>3. /\ t \in text.tries[smallest]
      /\ t.ok /\ base + offset <= t.from /\ t.min <= End
  BY DEF Complete, Tries
<1>4. /\ t.from \in Nat /\ t.min \in Nat /\ t.to \in Nat /\ t.go \in Nat
      /\ t.from < t.min /\ t.min <= t.to /\ t.from <= t.go /\ t.go <= t.to
  BY <1>2, <1>3, TextType
<1>5. /\ t.from <= Smaller(t.go, End) /\ Smaller(t.go, End) <= t.to
      /\ t.min <= Smaller(t.to, End) /\ Smaller(t.to, End) <= t.to
  BY <1>2, <1>3, <1>4 DEF Smaller
<1>6. \A u \in text.tries[smallest] :
        u.ok /\ base + offset <= u.from /\ u.min <= End => t.from <= u.from
  BY <1>1 DEF IsFirst, Complete, Tries
<1> QED
  BY <1>1, <1>3, <1>5, <1>6 DEF OffsetAfter

(* The beginning and the end of a turn change no regex's progress. *)
LEMMA HandledKept ==
  ASSUME ScanInv, ScanInv', Cut \/ Pick \/ UNCHANGED vars
  PROVE  /\ \A r \in Regexes : Handled(r)' = Handled(r)
         /\ UNCHANGED <<text, reports, lost>>
         /\ pos <= pos'
<1>1. CASE Cut
  <2>1. pos <= pos'
    BY <1>1, TextType, StreamAssumption
    DEF Cut, CutOffset, Kept, Smaller, ScanInv, TypeOK
  <2>2. /\ pc = "cut" /\ pc' \in {"exec", "done"} /\ smallest' = smallest
        /\ resume' = resume /\ offset' = 0
    BY <1>1 DEF Cut
  <2>3. pc' = "exec" => resume[smallest] = base' /\ base' \in Nat
    BY <2>2 DEF ScanInv, OffsetInv, TypeOK
  <2>4. \A r \in Regexes : Handled(r)' = Handled(r)
    BY <2>2, <2>3 DEF Handled
  <2> QED
    BY <1>1, <2>1, <2>4 DEF Cut
<1>2. CASE Pick
  BY <1>2 DEF Pick, Handled, ScanInv, TypeOK
<1>3. CASE UNCHANGED vars
  BY <1>3 DEF vars, Handled, ScanInv, TypeOK
<1> QED
  BY <1>1, <1>2, <1>3

(* A regex that leaves the window has come to where it goes on. *)
LEMMA HandledLeave ==
  ASSUME NEW rel, ScanInv, pc = "exec", Leave(rel)
  PROVE  /\ \A r \in Regexes \ {smallest} : Handled(r)' = Handled(r)
         /\ \A r \in Regexes : r = smallest => /\ Handled(r) = base + offset
                                             /\ Handled(r)' = base + rel
         /\ UNCHANGED <<text, reports, pos, base, len>>
<1>1. smallest \in Regexes /\ resume \in [Regexes -> Nat]
  BY DEF ScanInv, TypeOK
<1>2. pc' = "pick" /\ resume' = [resume EXCEPT ![smallest] = base + rel]
  BY DEF Leave
<1> QED
  BY <1>1, <1>2 DEF Leave, Handled

(* A match moves only the regex that runs. *)
LEMMA HandledMatch ==
  ASSUME ScanInv, Match
  PROVE  /\ \A r \in Regexes \ {smallest} : Handled(r)' = Handled(r)
                                           /\ reports'[r] = reports[r]
         /\ \A r \in Regexes : r = smallest => /\ Handled(r) = base + offset
                                             /\ Handled(r)' = base + offset'
         /\ UNCHANGED <<text, pos, lost>>
<1>1. smallest \in Regexes /\ reports \in [Regexes -> SUBSET [from : Nat, to : Nat]]
  BY DEF ScanInv, TypeOK
<1>2. pc = "exec" /\ UNCHANGED <<pc, base, smallest, resume>>
  BY DEF Match
<1> QED
  BY <1>1, <1>2 DEF Match, Handled

------------------------------------------------------------------------------
(* Matches, and steps without one, keep every report behind the progress   *)
(* of its regex.                                                           *)
LEMMA ReportMatch == ScanInv /\ ScanInv' /\ ReportInv /\ Match => ReportInv'
<1> SUFFICES ASSUME ScanInv, ScanInv', ReportInv, Match, NEW r \in Regexes,
                    NEW rep \in reports'[r]
             PROVE  rep.from < Handled(r)' /\ rep.from < pos'
  BY DEF ReportInv
<1>1. CASE r # smallest
  BY <1>1, HandledMatch DEF ReportInv
<1>2. CASE r = smallest
  <2>1. PICK t \in text.tries[smallest] :
          /\ base + offset <= t.from /\ t.min <= End
          /\ reports' = [reports EXCEPT ![smallest] =
                           @ \cup {[from |-> t.from, to |-> Smaller(t.to, End)]}]
          /\ offset' = Smaller(t.go, End) - base + 1
          /\ t.from <= Smaller(t.go, End)
    BY MatchFacts
  <2>2. /\ t.from \in Nat /\ t.min \in Nat /\ t.from < t.min /\ t.go \in Nat
        /\ End = pos /\ pos \in Nat /\ base \in Nat /\ offset \in Nat
        /\ smallest \in Regexes
        /\ reports \in [Regexes -> SUBSET [from : Nat, to : Nat]]
    BY TextType DEF ScanInv, TypeOK, WindowInFile
  <2>3. Smaller(t.go, End) \in Nat
    BY <2>2 DEF Smaller
  <2>4. Handled(r)' = Smaller(t.go, End) + 1 /\ pos' = pos /\ Handled(r) = base + offset
    BY <1>2, <2>1, <2>2, <2>3, HandledMatch
  <2>5. CASE rep \in reports[r]
    <3>1. rep.from < base + offset /\ rep.from < pos /\ rep.from \in Nat
      BY <1>2, <2>2, <2>4, <2>5 DEF ReportInv
    <3> QED
      BY <2>1, <2>2, <2>3, <2>4, <3>1
  <2>6. CASE rep = [from |-> t.from, to |-> Smaller(t.to, End)]
    BY <2>1, <2>2, <2>3, <2>4, <2>6
  <2> QED
    BY <1>2, <2>1, <2>2, <2>5, <2>6
<1> QED
  BY <1>1, <1>2

LEMMA ReportLeave ==
  ASSUME NEW rel \in Nat, ScanInv, ReportInv, pc = "exec", Leave(rel),
         offset <= rel \/ len <= rel
  PROVE  ReportInv'
<1> SUFFICES ASSUME NEW r \in Regexes, NEW rep \in reports'[r]
             PROVE  rep.from < Handled(r)' /\ rep.from < pos'
  BY DEF ReportInv
<1>1. rep \in reports[r] /\ rep.from < Handled(r) /\ rep.from < pos /\ pos' = pos
  BY HandledLeave DEF ReportInv
<1>2. CASE r # smallest
  BY <1>1, <1>2, HandledLeave
<1>3. CASE r = smallest
  <2>1. /\ rep.from \in Nat /\ base + len = pos /\ base \in Nat /\ len \in Nat
        /\ offset \in Nat
    BY <1>1, StreamAssumption DEF ScanInv, TypeOK, WindowInFile, End
  <2>2. rep.from < base + offset /\ Handled(r)' = base + rel
    BY <1>1, <1>3, HandledLeave
  <2> QED
    BY <1>1, <2>1, <2>2
<1> QED
  BY <1>2, <1>3

(* How a step that leaves the window does so. *)
LEMMA LeaveFacts ==
  ASSUME ScanInv, PartialMatch \/ NoMatch \/ ExecFails
  PROVE  \E rel \in 1 .. BufSize :
           pc = "exec" /\ Leave(rel) /\ (offset <= rel \/ len <= rel)
<1>1. len \in 0 .. BufSize /\ offset \in Nat /\ base \in Nat /\ BufSize \in Nat \ {0}
  BY StreamAssumption DEF ScanInv, TypeOK
<1>2. CASE PartialMatch
  <2>1. PICK t \in Partial : Leave(PartialOffset(t.from - base))
    BY <1>2 DEF PartialMatch, IsFirst
  <2>2. PartialOffset(t.from - base) \in 1 .. BufSize /\ t.from \in Nat
    BY PartialRange
  <2>3. base + offset <= t.from
    BY DEF Partial
  <2>4. offset <= PartialOffset(t.from - base) \/ len <= PartialOffset(t.from - base)
    BY <1>1, <2>2, <2>3 DEF PartialOffset
  <2> QED
    BY <1>2, <2>1, <2>2, <2>4 DEF PartialMatch
<1>3. CASE NoMatch \/ ExecFails
  BY <1>1, <1>3 DEF NoMatch, ExecFails
<1> QED
  BY <1>2, <1>3

LEMMA ReportStep == ScanInv /\ ScanInv' /\ ReportInv /\ [Next]_vars => ReportInv'
<1> SUFFICES ASSUME ScanInv, ScanInv', ReportInv, [Next]_vars PROVE ReportInv'
  OBVIOUS
<1>1. CASE Cut \/ Pick \/ UNCHANGED vars
  <2> SUFFICES ASSUME NEW r \in Regexes, NEW rep \in reports'[r]
               PROVE  rep.from < Handled(r)' /\ rep.from < pos'
    BY DEF ReportInv
  <2>1. rep \in reports[r] /\ Handled(r)' = Handled(r) /\ pos <= pos'
    BY <1>1, HandledKept
  <2>2. rep.from \in Nat /\ pos \in Nat /\ pos' \in Nat
    BY <2>1, TextType DEF ScanInv, TypeOK
  <2> QED
    BY <2>1, <2>2 DEF ReportInv
<1>2. CASE Match
  BY <1>2, ReportMatch
<1>3. CASE PartialMatch \/ NoMatch \/ ExecFails
  <2>1. PICK rel \in 1 .. BufSize :
          pc = "exec" /\ Leave(rel) /\ (offset <= rel \/ len <= rel)
    BY <1>3, LeaveFacts
  <2> QED
    BY <2>1, ReportLeave, StreamAssumption
<1> QED
  BY <1>1, <1>2, <1>3 DEF Next, Done

LEMMA ReportInit == Init => ReportInv
  BY DEF Init, ReportInv

(* No match is reported twice: a regex goes through the file forwards      *)
(* (strbuf_exhaust, over all the windows).                                 *)
THEOREM ReportsGoForward == Spec => ReportsForward
<1>1. ScanInv /\ ReportInv /\ [Next]_vars =>
        [Match => \E rep \in reports'[smallest] :
                    \A old \in reports[smallest] : old.from < rep.from]_vars
  <2> SUFFICES ASSUME ScanInv, ReportInv, Match
               PROVE  \E rep \in reports'[smallest] :
                        \A old \in reports[smallest] : old.from < rep.from
    OBVIOUS
  <2>1. PICK t \in text.tries[smallest] :
          /\ base + offset <= t.from
          /\ reports' = [reports EXCEPT ![smallest] =
                           @ \cup {[from |-> t.from, to |-> Smaller(t.to, End)]}]
    BY MatchFacts
  <2>2. /\ smallest \in Regexes /\ base \in Nat /\ offset \in Nat /\ t.from \in Nat
        /\ reports \in [Regexes -> SUBSET [from : Nat, to : Nat]]
    BY TextType DEF ScanInv, TypeOK
  <2>3. \A old \in reports[smallest] : old.from < base + offset /\ old.from \in Nat
    BY <2>2, HandledMatch DEF ReportInv
  <2> DEFINE new == [from |-> t.from, to |-> Smaller(t.to, End)]
  <2>4. new \in reports'[smallest] /\ new.from = t.from
    BY <2>1, <2>2
  <2>5. \A old \in reports[smallest] : old.from < t.from
    BY <2>1, <2>2, <2>3
  <2> HIDE DEF new
  <2> QED
    BY <2>4, <2>5
<1>2. ScanInv /\ ReportInv /\ [Next]_vars => ScanInv' /\ ReportInv'
  BY ScanStep, ReportStep
<1> QED
  BY <1>1, <1>2, ScanInit, ReportInit, PTL DEF Spec, ReportsForward

(* Each turn of a regex moves it on in the file, whatever ends the turn    *)
(* (strbuf_exhaust), although the window it goes on in has been moved by   *)
(* the others meanwhile (strbuf_stream_regex8).                            *)
THEOREM TurnsDoAdvance == Spec => TurnsAdvance
<1>1. ScanInv /\ [Next]_vars =>
        [pc = "exec" /\ pc' = "pick" => resume'[smallest] > resume[smallest]]_vars
  <2> SUFFICES ASSUME ScanInv, Next, pc = "exec", pc' = "pick"
               PROVE  resume'[smallest] > resume[smallest]
    BY DEF vars
  <2>1. PartialMatch \/ NoMatch \/ ExecFails
    BY DEF Next, Cut, Match, Pick, Done, vars
  <2>2. PICK rel \in 1 .. BufSize : Leave(rel)
    BY <2>1, LeaveFacts
  <2>3. /\ smallest \in Regexes /\ base \in Nat /\ resume[smallest] = base
        /\ resume \in [Regexes -> Nat] /\ BufSize \in Nat
    BY StreamAssumption DEF ScanInv, TypeOK, OffsetInv
  <2>4. resume'[smallest] = base + rel
    BY <2>2, <2>3 DEF Leave
  <2> QED
    BY <2>3, <2>4
<1> QED
  BY <1>1, ScanInit, ScanStep, PTL DEF Spec, TurnsAdvance

------------------------------------------------------------------------------
(* A match that fits into the window and begins at the start of it is      *)
(* complete in it.                                                         *)
LEMMA FitsFromStart ==
  ASSUME ScanInv, NEW r \in Regexes, NEW t \in text.tries[r],
         t.ok, t.min - t.from <= BufSize, t.from = base
  PROVE  t.min <= End
<1>1. /\ t.from \in Nat /\ t.min \in Nat /\ t.to \in Nat
      /\ t.min <= t.to /\ t.to <= text.size /\ text.size \in Nat
  BY TextType DEF ScanInv
<1>2. /\ base \in Nat /\ len \in 0 .. BufSize /\ BufSize \in Nat
      /\ End = base + len /\ (len < BufSize => End = text.size)
  BY StreamAssumption DEF ScanInv, TypeOK, WindowInFile, End
<1> QED
  BY <1>1, <1>2

(* Nothing begins behind the bytes of the window but within its size. *)
LEMMA NothingBehindWindow ==
  ASSUME ScanInv, NEW r \in Regexes, NEW t \in text.tries[r],
         t.from < base + BufSize
  PROVE  t.from < End
<1>1. t.from \in Nat /\ t.from < text.size /\ text.size \in Nat
  BY TextType DEF ScanInv
<1>2. /\ base \in Nat /\ len \in 0 .. BufSize /\ BufSize \in Nat
      /\ End = base + len /\ (len < BufSize => End = text.size)
  BY StreamAssumption DEF ScanInv, TypeOK, WindowInFile, End
<1> QED
  BY <1>1, <1>2

(* A separate match is not passed over by the match that is reported.      *)
LEMMA FoundMatch == ScanInv /\ FoundInv /\ Match => FoundInv'
<1> SUFFICES ASSUME ScanInv, FoundInv, Match PROVE FoundInv'
  OBVIOUS
<1>0. text' = text
  BY DEF Match
<1> SUFFICES ASSUME NEW r \in Regexes,
                    NEW t \in text.tries[r], IsSeparate(r, t),
                    t.min - t.from <= BufSize, t.from < Handled(r)'
             PROVE  Accounted(r, t)'
  BY <1>0 DEF FoundInv, IsSeparate, Apart
<1>1. CASE r # smallest
  BY <1>1, HandledMatch DEF FoundInv, Accounted, Reported
<1>2. CASE r = smallest
  <2>1. PICK x \in text.tries[r] :
          /\ x.ok /\ base + offset <= x.from /\ x.min <= End
          /\ \A u \in text.tries[r] :
               u.ok /\ base + offset <= u.from /\ u.min <= End => x.from <= u.from
          /\ reports' = [reports EXCEPT ![r] =
                           @ \cup {[from |-> x.from, to |-> Smaller(x.to, End)]}]
          /\ offset' = Smaller(x.go, End) - base + 1
          /\ Smaller(x.go, End) <= x.to
    BY <1>2, MatchFacts
  <2>2. /\ t.from \in Nat /\ t.min \in Nat /\ t.to \in Nat /\ t.from < t.min
        /\ x.from \in Nat /\ x.min \in Nat /\ x.to \in Nat /\ x.go \in Nat
        /\ t.min <= t.to /\ x.from < x.min
        /\ base \in Nat /\ offset \in Nat /\ End \in Nat
        /\ reports \in [Regexes -> SUBSET [from : Nat, to : Nat]]
    BY TextType, StreamAssumption DEF ScanInv, TypeOK, End
  <2>3. t.ok /\ (t = x \/ x.from >= t.to + 1 \/ t.from >= x.to + 1)
    BY <2>1 DEF IsSeparate, Apart
  <2>4. Smaller(x.go, End) \in Nat
    BY <2>2 DEF Smaller
  <2>5. Handled(r)' = Smaller(x.go, End) + 1 /\ Handled(r) = base + offset
    BY <1>2, <2>1, <2>2, <2>4, HandledMatch
  <2>6. CASE t = x
    <3>1. [from |-> x.from, to |-> Smaller(x.to, End)] \in reports'[r]
      BY <2>1, <2>2
    <3> QED
      BY <2>6, <3>1 DEF Accounted, Reported
  <2>7. CASE t.from < base + offset
    <3>1. Accounted(r, t) /\ lost' = lost
      BY <2>5, <2>7, HandledMatch DEF FoundInv
    <3> QED
      BY <2>1, <2>2, <3>1 DEF Accounted, Reported
  <2>8. CASE x.from >= t.to + 1 /\ base + offset <= t.from
    <3>1. x.min <= End
      BY <2>1
    <3>2. t.min <= End /\ ~(x.from <= t.from)
      BY <2>2, <2>8, <3>1
    <3> QED
      BY <2>1, <2>3, <2>8, <3>2
  <2>9. CASE t.from >= x.to + 1
    BY <2>1, <2>2, <2>4, <2>5, <2>9
  <2> QED
    BY <2>2, <2>3, <2>6, <2>7, <2>8, <2>9
<1> QED
  BY <1>1, <1>2

(* Nor is it passed over when the regex leaves the window: a try that is   *)
(* kept for later or given up comes first, and it would overlap.           *)
LEMMA PartialPassesNone ==
  ASSUME ScanInv, pc = "exec", PartialMatch, NEW t \in text.tries[smallest],
         IsSeparate(smallest, t), t.min - t.from <= BufSize,
         base + offset <= t.from
  PROVE  ~(t.from < (resume[smallest])')
<1> SUFFICES ASSUME t.from < (resume[smallest])' PROVE FALSE
  OBVIOUS
<1>0. /\ smallest \in Regexes /\ base \in Nat /\ offset \in Nat /\ End \in Nat
      /\ BufSize \in Nat /\ resume \in [Regexes -> Nat]
  BY StreamAssumption DEF ScanInv, TypeOK, End
<1>1. PICK x \in Partial :
        IsFirst(x, Partial) /\ Leave(PartialOffset(x.from - base))
  BY DEF PartialMatch, IsFirst
<1>2. /\ x \in text.tries[smallest] /\ base + offset <= x.from
      /\ x.from < End /\ End < x.min
  BY DEF Partial, Tries
<1>3. /\ t.from \in Nat /\ t.min \in Nat /\ t.to \in Nat /\ t.from < t.min
      /\ x.from \in Nat /\ x.min \in Nat /\ x.to \in Nat
      /\ t.min <= t.to /\ x.min <= x.to
  BY <1>0, <1>2, TextType DEF ScanInv
<1>4. t.ok /\ (t = x \/ x.from >= t.to + 1 \/ t.from >= x.to + 1)
  BY <1>2 DEF IsSeparate, Apart
<1>5. ~(t.min <= End)
  <2>1. t \notin Complete
    BY DEF PartialMatch
  <2> QED
    BY <1>4, <2>1 DEF Complete, Tries
<1>6. t = x
  <2>1. ~(x.from >= t.to + 1)
    BY <1>0, <1>2, <1>3, <1>5
  <2>2. (resume[smallest])' = base + PartialOffset(x.from - base)
    BY <1>0, <1>1 DEF Leave
  <2>3. CASE t.from >= x.to + 1
    <3>1. t.from > End /\ t.from > x.from
      BY <1>0, <1>2, <1>3, <2>3
    <3>2. CASE x.from - base = 0
      <4>1. t.from < base + BufSize
        BY <2>2, <3>2 DEF PartialOffset
      <4>2. t.from < End
        BY <1>0, <4>1, NothingBehindWindow
      <4> QED
        BY <1>0, <1>3, <3>1, <4>2
    <3>3. CASE x.from - base # 0
      <4>1. t.from < base + (x.from - base)
        BY <2>2, <3>3 DEF PartialOffset
      <4> QED
        BY <1>0, <1>3, <3>1, <4>1
    <3> QED
      BY <3>2, <3>3
  <2> QED
    BY <1>4, <2>1, <2>3
<1>7. (resume[smallest])' = base + PartialOffset(x.from - base)
  BY <1>0, <1>1 DEF Leave
<1>8. CASE x.from - base = 0
  <2>1. t.from = base
    BY <1>0, <1>3, <1>6, <1>8
  <2> QED
    BY <1>0, <1>4, <1>5, <2>1, FitsFromStart
<1>9. CASE x.from - base # 0
  BY <1>0, <1>3, <1>6, <1>7, <1>9 DEF PartialOffset
<1> QED
  BY <1>8, <1>9

LEMMA NoMatchPassesNone ==
  ASSUME ScanInv, NoMatch, NEW t \in text.tries[smallest],
         t.ok, base + offset <= t.from
  PROVE  ~(t.from < (resume[smallest])')
<1> SUFFICES ASSUME t.from < (resume[smallest])' PROVE FALSE
  OBVIOUS
<1>0. /\ smallest \in Regexes /\ base \in Nat /\ offset \in Nat /\ End = base + len
      /\ len \in Nat /\ resume \in [Regexes -> Nat]
  BY StreamAssumption DEF ScanInv, TypeOK, End
<1>1. t.from \in Nat /\ t.min \in Nat
  BY <1>0, TextType DEF ScanInv
<1>2. (resume[smallest])' = base + BufSize
  BY <1>0 DEF NoMatch, Leave
<1>3. t.from < End
  BY <1>0, <1>2, NothingBehindWindow
<1>4. offset < len
  BY <1>0, <1>1, <1>3
<1>5. t \notin Complete /\ t \notin Partial
  BY <1>4 DEF NoMatch
<1> QED
  BY <1>0, <1>1, <1>3, <1>5 DEF Complete, Partial, Tries

(* A failure passes over nothing that is not then counted as lost. *)
LEMMA FailureAccounted ==
  ASSUME ScanInv, ExecFails, NEW t \in text.tries[smallest],
         base + offset <= t.from, t.from < (resume[smallest])'
  PROVE  t.from \in lost'[smallest]
<1>0. /\ smallest \in Regexes /\ base \in Nat /\ offset \in Nat /\ End \in Nat
      /\ resume \in [Regexes -> Nat] /\ lost \in [Regexes -> SUBSET Nat]
  BY StreamAssumption DEF ScanInv, TypeOK, End
<1>1. t.from \in Nat
  BY <1>0, TextType DEF ScanInv
<1>2. (resume[smallest])' = base + BufSize
  BY <1>0 DEF ExecFails, Leave
<1>3. t.from < End
  BY <1>0, <1>2, NothingBehindWindow
<1>4. t.from \in (base + offset) .. (End - 1)
  BY <1>0, <1>1, <1>3
<1> QED
  BY <1>0, <1>4 DEF ExecFails

LEMMA FoundStep == ScanInv /\ ScanInv' /\ FoundInv /\ [Next]_vars => FoundInv'
<1> SUFFICES ASSUME ScanInv, ScanInv', FoundInv, [Next]_vars PROVE FoundInv'
  OBVIOUS
<1>1. CASE Cut \/ Pick \/ UNCHANGED vars
  BY <1>1, HandledKept DEF FoundInv, IsSeparate, Apart, Accounted, Reported
<1>2. CASE Match
  BY <1>2, FoundMatch
<1>3. CASE PartialMatch \/ NoMatch \/ ExecFails
  <2>1. PICK rel \in 1 .. BufSize : pc = "exec" /\ Leave(rel)
    BY <1>3, LeaveFacts
  <2>2. UNCHANGED <<text, reports, smallest>>
    BY <2>1 DEF Leave
  <2>3. \A r \in Regexes : lost[r] \subseteq lost'[r]
    BY <1>3 DEF PartialMatch, NoMatch, ExecFails, ScanInv, TypeOK
  <2>4. \A r \in Regexes : \A t \in text.tries[r] :
          Accounted(r, t) => Accounted(r, t)'
    BY <2>2, <2>3 DEF Accounted, Reported
  <2> SUFFICES ASSUME NEW r \in Regexes, NEW t \in text.tries[r], IsSeparate(r, t),
                      t.min - t.from <= BufSize, t.from < Handled(r)'
               PROVE  Accounted(r, t)'
    BY <2>2 DEF FoundInv, IsSeparate, Apart
  <2>5. CASE r # smallest
    BY <2>1, <2>4, <2>5, HandledLeave DEF FoundInv
  <2>6. CASE r = smallest
    <3>1. Handled(r)' = resume'[smallest] /\ Handled(r) = base + offset
      BY <2>1, <2>6 DEF Handled, Leave
    <3>2. t.from \in Nat /\ base \in Nat /\ offset \in Nat
      BY TextType DEF ScanInv, TypeOK
    <3>3. CASE t.from < base + offset
      BY <2>4, <3>1, <3>3 DEF FoundInv
    <3>4. CASE base + offset <= t.from
      <4>1. t.from < (resume[smallest])'
        BY <2>2, <2>6, <3>1
      <4>2. ExecFails
        BY <1>3, <2>1, <2>6, <3>4, <4>1, PartialPassesNone, NoMatchPassesNone DEF IsSeparate
      <4>3. t.from \in lost'[smallest]
        BY <2>6, <3>4, <4>1, <4>2, FailureAccounted
      <4> QED
        BY <2>6, <4>3 DEF Accounted
    <3> QED
      BY <3>2, <3>3, <3>4
  <2> QED
    BY <2>5, <2>6
<1> QED
  BY <1>1, <1>2, <1>3 DEF Next, Done

LEMMA FoundInit == Init => FoundInv
<1> SUFFICES ASSUME Init, NEW r \in Regexes, NEW t \in text.tries[r],
                    t.from < Handled(r)
             PROVE  FALSE
  BY DEF FoundInv
<1>1. t.from \in Nat
  BY TextType DEF Init
<1>2. Handled(r) = 0
  BY DEF Init, Handled
<1> QED
  BY <1>1, <1>2

(* Whatever the ends of the windows cut through, every match that fits     *)
(* into the window and touches no other is reported by the end of the      *)
(* scan, unless it begins where its own regex failed                       *)
(* (strbuf_stream_regex8).                                                 *)
THEOREM SeparateMatchesAreFound == Spec => []SeparateMatchesFound
<1>1. ScanInv /\ FoundInv => SeparateMatchesFound
  <2> SUFFICES ASSUME ScanInv, FoundInv, pc = "done", NEW r \in Regexes,
                      NEW t \in text.tries[r],
                      IsSeparate(r, t), t.min - t.from <= BufSize
               PROVE  Accounted(r, t)
    BY DEF SeparateMatchesFound, Accounted
  <2>1. text.size <= resume[r] /\ resume[r] \in Nat
    BY DEF ScanInv, OffsetInv, TypeOK
  <2>2. t.from \in Nat /\ t.from < text.size /\ text.size \in Nat
    BY TextType DEF ScanInv
  <2>3. t.from < Handled(r)
    BY <2>1, <2>2 DEF Handled
  <2> QED
    BY <2>3 DEF FoundInv
<1> QED
  BY <1>1, ScanInit, ScanStep, FoundInit, FoundStep, PTL DEF Spec
=============================================================================
