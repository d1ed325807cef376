---------------------------- MODULE ReminderPlan ----------------------------
(***************************************************************************)
(* The reminder engine (ragra/reminders/engine.py): which reminders exist  *)
(* for a task with this deadline, discovered at this moment.               *)
(*                                                                         *)
(* Times are minutes since a midnight UTC.  Every duration is the code's   *)
(* own.  Classroom deadlines fall on whole minutes; the half lead time of  *)
(* MIDPOINT is rounded down to one.  A plan is a set; the order of the     *)
(* returned list is PlanOrder's, in ClassroomSync.                         *)
(***************************************************************************)
EXTENDS Integers

Hour == 60
Day  == 24 * Hour

Planned(type, at) == [reminder_type |-> type, scheduled_for |-> at]

\* 08:00 on the calendar day of the deadline, in the deadline's own zone (UTC).
SameDayMorning(deadline) == (deadline \div Day) * Day + 8 * Hour

FinalHour(deadline) == Planned("FINAL_1H", deadline - Hour)

-----------------------------------------------------------------------------
(* The three cadences, by lead time. *)

\* Two days and more: the ladder of days still ahead, the morning of, the hour.
LongCadence(deadline, discovered) ==
    { p \in { Planned("T_MINUS_7D", deadline - 7 * Day),
              Planned("T_MINUS_5D", deadline - 5 * Day),
              Planned("T_MINUS_2D", deadline - 2 * Day) } :
        p.scheduled_for > discovered }
    \cup { Planned("DUE_TODAY", SameDayMorning(deadline)), FinalHour(deadline) }

\* One to two days.
MediumCadence(deadline, discovered) ==
    { p \in { Planned("T_MINUS_1D", deadline - Day) } :
        p.scheduled_for > discovered }
    \cup { Planned("FEW_HOURS", deadline - 3 * Hour), FinalHour(deadline) }

\* Less than a day.
ShortCadence(deadline, discovered) ==
    LET lead == deadline - discovered
    IN  { p \in { Planned("MIDPOINT", discovered + lead \div 2) } : lead > 2 * 5 }
        \cup { p \in { FinalHour(deadline) } : lead > Hour }

Cadence(deadline, discovered) ==
    CASE deadline - discovered >= 2 * Day -> LongCadence(deadline, discovered)
      [] deadline - discovered \in Day .. 2 * Day - 1 -> MediumCadence(deadline, discovered)
      [] OTHER -> ShortCadence(deadline, discovered)

-----------------------------------------------------------------------------
ComputeReminderPlan(deadline, discovered) ==
    IF deadline <= discovered THEN {}     \* historical backlog
    ELSE { p \in Cadence(deadline, discovered)
                 \cup { Planned("NEW_ASSIGNMENT", discovered) } :
             discovered <= p.scheduled_for /\ p.scheduled_for < deadline }
         \cup { Planned("DEADLINE_REACHED", deadline) }
=============================================================================
