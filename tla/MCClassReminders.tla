--------------------------- MODULE MCClassReminders ---------------------------
(* Two start times on the first day, which a window spans, and one on the next. *)
EXTENDS ClassReminders

MCSlots == {2, 3, 5}
===============================================================================
