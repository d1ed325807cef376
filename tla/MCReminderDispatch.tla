------------------------- MODULE MCReminderDispatch -------------------------
(* One reminder, the DEADLINE_REACHED of its task, and two processes. *)
EXTENDS ReminderDispatch

CONSTANTS r1, t1

MCTaskOf == [r \in Reminders |-> t1]
=============================================================================
