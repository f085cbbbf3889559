-------------------------------- MODULE Cron --------------------------------
(***************************************************************************)
(* The scheduler's cron expressions (internal/master/scheduler.go).        *)
(*                                                                         *)
(* An expression is a tuple of five fields, a field a set of parts (the    *)
(* text between commas), a time the tuple of minute, hour, day of month,   *)
(* month and day of week.  A part is its parsed text:                      *)
(*   "any" for *, "step" for *slash n, "num" for n, "range" for lo-hi and  *)
(*   "stepped" for lo-hi/n; anything else is "bad".                        *)
(***************************************************************************)
EXTENDS Integers

Every == [kind |-> "any"]
Step(n) == [kind |-> "step", n |-> n]
Num(n) == [kind |-> "num", n |-> n]
Span(lo, hi) == [kind |-> "range", lo |-> lo, hi |-> hi]
Stepped(lo, hi, n) == [kind |-> "stepped", lo |-> lo, hi |-> hi, n |-> n]
Bad == [kind |-> "bad"]

\* The limits of the five fields.
Limits == << <<0, 59>>, <<0, 23>>, <<1, 31>>, <<1, 12>>, <<0, 6>> >>

\* Faulty: the upper end of a range is left out.
cronPartMatchesOpen(part, value) ==
    \/ part.kind = "any"
    \/ part.kind = "step" /\ part.n > 0 /\ value % part.n = 0
    \/ part.kind = "range" /\ part.lo <= value /\ value < part.hi
    \/ part.kind = "num" /\ part.n = value

\* lo-hi/n is caught by the test for "-", where hi/n is not a number: it
\* matches nothing, and so does everything that does not parse.
cronPartMatches(part, value) ==
    \/ part.kind = "any"
    \/ part.kind = "step" /\ part.n > 0 /\ value % part.n = 0
    \/ part.kind = "range" /\ part.lo <= value /\ value <= part.hi
    \/ part.kind = "num" /\ part.n = value

cronFieldMatches(field, value) == \E part \in field : cronPartMatches(part, value)

cronMatches(expr, time) == \A i \in 1 .. 5 : cronFieldMatches(expr[i], time[i])

-----------------------------------------------------------------------------
(* ValidateCron: the check of an expression before it is used.             *)

validateCronPart(part, lo, hi) ==
    \/ part.kind = "any"
    \/ part.kind = "step" /\ 0 < part.n /\ part.n <= hi
    \/ part.kind = "range" /\ lo <= part.lo /\ part.lo <= part.hi /\ part.hi <= hi
    \/ part.kind = "num" /\ lo <= part.n /\ part.n <= hi

validateCronField(field, lo, hi) == \A part \in field : validateCronPart(part, lo, hi)

ValidateCron(expr) == \A i \in 1 .. 5 : validateCronField(expr[i], Limits[i][1], Limits[i][2])

-----------------------------------------------------------------------------
(* What an expression means, as a set of times.                            *)

\* The values of a part in a field with the given limits; the steps of *slash n
\* count from 0, those of lo-hi/n from lo.
Values(part, limits) ==
    CASE part.kind = "any" -> limits[1] .. limits[2]
      [] part.kind = "step" -> {v \in limits[1] .. limits[2] : part.n > 0 /\ \E k \in 0 .. v : v = k * part.n}
      [] part.kind = "range" -> part.lo .. part.hi
      [] part.kind = "num" -> {part.n}
      [] part.kind = "stepped" -> {v \in part.lo .. part.hi : part.n > 0 /\ (v - part.lo) % part.n = 0}
      [] OTHER -> {}

FieldValues(expr, i) == UNION {Values(part, Limits[i]) : part \in expr[i]}

Denotes(expr, time) == \A i \in 1 .. 5 : time[i] \in FieldValues(expr, i)

HasStepped(expr) == \E i \in 1 .. 5 : \E part \in expr[i] : part.kind = "stepped"

\* A time matches an expression only if the expression denotes it, and whenever it
\* does, unless the expression has a part lo-hi/n; and one that ValidateCron accepts
\* has no such part and denotes values of each field, at least one and no others.
Means(expr, time) ==
    /\ cronMatches(expr, time) => Denotes(expr, time)
    /\ Denotes(expr, time) => cronMatches(expr, time) \/ HasStepped(expr)
    /\ ValidateCron(expr) => ~HasStepped(expr) /\ \A i \in 1 .. 5 :
          /\ FieldValues(expr, i) # {}
          /\ \A v \in FieldValues(expr, i) : Limits[i][1] <= v /\ v <= Limits[i][2]

-----------------------------------------------------------------------------
(* What texts parse to, and times.                                         *)

IsPart(part) ==
    /\ part.kind \in {"any", "step", "num", "range", "stepped", "bad"}
    /\ part.kind \in {"step", "num"} => part.n \in Int
    /\ part.kind = "range" => part.lo \in Int /\ part.hi \in Int
    /\ part.kind = "stepped" => part.lo \in Int /\ part.hi \in Int /\ part.n \in Int

IsExpression(expr) == \A i \in 1 .. 5 : expr[i] # {} /\ \A part \in expr[i] : IsPart(part)

Times == {t \in [1 .. 5 -> Nat] : \A i \in 1 .. 5 : Limits[i][1] <= t[i] /\ t[i] <= Limits[i][2]}
=============================================================================
