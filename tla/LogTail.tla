------------------------------- MODULE LogTail -------------------------------
(***************************************************************************)
(* What the log history of an instance promises: the latest Size lines, in *)
(* the order they came.                                                    *)
(***************************************************************************)
EXTENDS Integers, Sequences

CONSTANTS Size, Line

VARIABLE tail

\* The last Size elements of a sequence.
Latest(s) == IF Len(s) > Size THEN SubSeq(s, Len(s) - Size + 1, Len(s)) ELSE s

Init == tail = <<>>
Next == \E line \in Line : tail' = Latest(Append(tail, line))
Spec == Init /\ [][Next]_tail
=============================================================================
