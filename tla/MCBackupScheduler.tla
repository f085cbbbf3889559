-------------------------- MODULE MCBackupScheduler --------------------------
(* An instance of BackupScheduler, and expressions to try Cron with.       *)
EXTENDS BackupScheduler

\* The last minute of January, a Saturday, and the next.
AroundMidnight == << <<59, 23, 31, 1, 6>>, <<0, 0, 1, 2, 0>> >>

\* "* * * * *", and "*/2 * * * 0-5", which only the second minute matches.
EveryMinute == << {Every}, {Every}, {Every}, {Every}, {Every} >>
EvenMinutes == << {Step(2)}, {Every}, {Every}, {Every}, {Span(0, 5)} >>

\* "0-58/2 * * * *", the even minutes too, which the second one is.
SteppedMinutes == << {Stepped(0, 58, 2)}, {Every}, {Every}, {Every}, {Every} >>

\* Parts of each form, some of them out of the limits of some field.
Parts == {Every, Bad} \cup {Step(n) : n \in {-1, 0, 1, 2, 3, 29, 59, 60}} \cup {Num(n) : n \in {0, 1, 6, 30, 59}}
             \cup {Span(lo, hi) : lo \in {0, 1, 31}, hi \in {0, 6, 31, 59}} \cup {Stepped(lo, hi, n) : lo \in {0, 1}, hi \in {6, 59}, n \in {0, 1, 2}}

\* Expressions with up to two parts in one field, in each place.
MCExprs == {[EveryMinute EXCEPT ![i] = {p, q}] : i \in 1 .. 5, p \in Parts, q \in Parts}
=============================================================================
