--------------------------- MODULE MCStreamRegex ---------------------------
(* Model values and bounds for StreamRegex. *)
EXTENDS StreamRegex

CONSTANTS Size,    \* bound: bytes of the file
          MaxTries \* bound: places where the first regex begins to match (1, 2)

Failed(size) ==
  {[from |-> f, min |-> m, to |-> m, go |-> f, ok |-> FALSE] :
     f \in 0 .. (size - 1), m \in 1 .. (size + 1)}
Exact(size) ==
  {[from |-> f, min |-> m, to |-> m, go |-> m, ok |-> TRUE] :
     f \in 0 .. (size - 1), m \in 1 .. size}
(* Matches that grow by one byte, or whose last group ends early. *)
Greedy(size) == {[t EXCEPT !.to = @ + 1, !.go = @ + 1] : t \in Exact(size - 1)}
Inner(size) == {[t EXCEPT !.go = t.from + 1] : t \in Exact(size)}

(* All tries longer than the window are alike: they are never complete.    *)
Bounded(S) == {t \in S : t.from < t.min /\ t.min - t.from <= BufSize + 1}
Few(size) == Bounded(Failed(size) \cup Exact(size))
Many(size) == Few(size) \cup Bounded(Greedy(size) \cup Inner(size))

(* The first regex has up to MaxTries tries in a file, the others one. *)
Pairs == {S \in {{t, u} : t, u \in Many(Size)} \cup {{}} :
            /\ MaxTries = 1 => \A t, u \in S : t = u
            /\ \A t, u \in S : t.from = u.from => t = u}
Singles == {{t} : t \in Few(Size)} \cup {{}}
MCTexts == {[size |-> Size, tries |-> [r \in Regexes |-> IF r = 0 THEN S ELSE T]] :
              S \in Pairs, T \in Singles}
=============================================================================
