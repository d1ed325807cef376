--------------------------- MODULE MCClassroomSync ---------------------------
(* One assignment, for section B, and one announcement.  The legacy profile   *)
(* says A.  The due date comes and goes, or is moved by way of none.  A sync  *)
(* falls ten minutes after it, inside the grace of its last reminder, and     *)
(* more than three days after a first post.                                   *)
EXTENDS ClassroomSync

CONSTANTS a1, n1

MCStep == 4 * Day
MCHorizon == 4 * Day
MCDeadline == { 4 * Day - 10 }

MCCourse == "Databases"
MCContains == { <<"Databases (Fall)", "Databases">> }
Enrolled(section) == << [course_name |-> MCCourse, section |-> section] >>
MCLegacy == << [course_name |-> "Databases (Fall)", section |-> "A"] >>
MCProfiles == { Enrolled("B") }
MCTitle == [i \in Items |-> Text(IF i = a1 THEN {"B"} ELSE {})]
=============================================================================
