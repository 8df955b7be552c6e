-------------------------- MODULE MCResumeScheduler --------------------------
(* ResumeScheduler for TLC. *)
EXTENDS ResumeScheduler, TLC
CONSTANTS a, b

TwiceADay == [times |-> {0, 2}, zone |-> 0]
ZoneAhead == [times |-> {0}, zone |-> 1]
SwitchedOff == [times |-> {}, zone |-> 0]
FarAhead == [times |-> {0}, zone |-> 5]
FarBehind == [times |-> {0}, zone |-> 0]
SomeSchedules == {TwiceADay, ZoneAhead, SwitchedOff, FarAhead, FarBehind}

\* The user changes any of the schedules into any other.
Freely(S) == S \X S

\* A day and the next midnight in which two things go wrong.
TwoBadDays ==
  [schedules |-> {TwiceADay}, moves |-> {},
   projects |-> {a, b}, until |-> 3, troubles |-> 2, trash |-> {}]

\* More than two days, after which occurrences are forgotten, in which the user changes
\* the times and the zone.
Changes ==
  [schedules |-> {TwiceADay, ZoneAhead}, moves |-> Freely({TwiceADay, ZoneAhead}),
   projects |-> {a}, until |-> 7, troubles |-> 0, trash |-> {}]

\* A day and the next midnight in which one thing goes wrong beside the changes.
BadChanges == [Changes EXCEPT !.until = 3, !.troubles = 1]

\* A project is removed, and the schedule switched off, around a batch.
Removal ==
  [schedules |-> {TwiceADay, SwitchedOff}, moves |-> Freely({TwiceADay, SwitchedOff}),
   projects |-> {a, b}, until |-> 2, troubles |-> 1, trash |-> {a}]

\* Clocks further apart than a day: what was done under one is forgotten before its
\* day is over under the other.
FarApart ==
  [schedules |-> {FarAhead, FarBehind}, moves |-> {<<FarAhead, FarBehind>>},
   projects |-> {a}, until |-> 8, troubles |-> 0, trash |-> {}]

Several == {TwoBadDays, Changes, BadChanges, Removal, FarApart}
==============================================================================
