---------------------------- MODULE MCCalendarSync ----------------------------
(* Two tasks, the first of which may hold up the second. *)
EXTENDS CalendarSync

CONSTANTS a, b, s1, s2

MCTasks == {1, 2}
MCEventIds == 1..4
===============================================================================
