----------------------------- MODULE TextChunks -----------------------------
(***************************************************************************)
(* How long texts are cut into overlapping excerpts, for the mission       *)
(* archive and for the pilot's retrieval.  A text is a sequence of         *)
(* letters, line breaks and full stops (with the blank after them); its    *)
(* positions are counted from 0.                                           *)
(***************************************************************************)
EXTENDS Integers, Sequences, FiniteSets

CONSTANTS
    ChunkSize,      \* characters of an excerpt at most
    ChunkOverlap    \* characters that two neighbours share

\* An overlap is less than half an excerpt: 360 of 3600 characters in the
\* archive, 280 of 2200 in the pilot's retrieval.
ASSUME ChunksAssumption ==
    /\ ChunkSize \in Nat \ {0} /\ ChunkOverlap \in Nat
    /\ ChunkOverlap < ChunkSize \div 2

\* What a text is made of.
Characters == {"letter", "line", "stop"}

Larger(a, b) == IF a > b THEN a ELSE b
Smaller(a, b) == IF a < b THEN a ELSE b

\* rfind: the last place of a mark from a position on and before another.
LastMark(text, mark, from, to) ==
    LET places == { p \in from .. to - 1 : text[p + 1] = mark }
    IN  IF places = {} THEN -1 ELSE CHOOSE p \in places : \A q \in places : q <= p

\* An excerpt ends at the last line or sentence of its second half, if any.
ArchiveEnd(text, start) ==
    LET hard == Smaller(Len(text), start + ChunkSize)
        half == start + ChunkSize \div 2
        boundary == Larger(LastMark(text, "line", half, hard),
                           LET stop == LastMark(text, "stop", half, hard)
                           IN  IF stop >= 0 THEN stop + 1 ELSE -1)
    IN  IF hard < Len(text) /\ boundary > start THEN boundary ELSE hard

\* The pilot's keeps the line break in the excerpt.
PilotEnd(text, start) ==
    LET hard == Smaller(Len(text), start + ChunkSize)
        half == start + ChunkSize \div 2
        boundary == Larger(LastMark(text, "line", half, hard),
                           LastMark(text, "stop", half, hard))
    IN  IF hard < Len(text) /\ boundary > start THEN boundary + 1 ELSE hard

\* Mutant: the next excerpt leaves a gap where it should overlap.
NextStartApart(start, end) == end + ChunkOverlap

NextStart(start, end) == Larger(start + 1, end - ChunkOverlap)

\* Where the excerpts of a text begin, given where one that starts at a
\* position ends; the length of the text stands for no excerpt.
Following(text, end, start) ==
    IF start >= Len(text) \/ end[start] >= Len(text) THEN Len(text)
    ELSE NextStart(start, end[start])

Starts(text, end) ==
    LET starts[n \in 0 .. Len(text)] ==
            IF n = 0 THEN 0 ELSE Following(text, end, starts[n - 1])
    IN  starts

\* The excerpts; those without any text are left out.
Cut(text, end) ==
    LET starts == Starts(text, end)
    IN  { [start |-> s, end |-> end[s]] : s \in
            { p \in { starts[n] : n \in 0 .. Len(text) } :
                /\ p < Len(text)
                /\ \E q \in p .. end[p] - 1 : text[q + 1] # "line" } }

ArchiveRanges(text) ==
    Cut(text, [p \in 0 .. Len(text) - 1 |-> ArchiveEnd(text, p)])

\* The pilot's text has lost the blanks around it.
PilotRanges(text) ==
    Cut(text, [p \in 0 .. Len(text) - 1 |-> PilotEnd(text, p)])

(***************************************************************************)
(* Every character is in an excerpt, no excerpt is longer than allowed,    *)
(* none begins before its predecessor, and none is inside another.         *)
(***************************************************************************)
Covers(text, ranges) ==
    /\ \A p \in 0 .. Len(text) - 1 :
        text[p + 1] # "line" => \E r \in ranges : r.start <= p /\ p < r.end
    /\ \A r \in ranges : r.start < r.end /\ r.end - r.start <= ChunkSize
    /\ \A r, s \in ranges : r.start < s.start => r.end < s.end
==============================================================================
