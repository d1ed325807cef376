------------------------------ MODULE Relevance ------------------------------
(***************************************************************************)
(* Does an item of a course concern this student's section?                *)
(* (ragra/relevance/engine.py, sections.py and profile.py)                 *)
(*                                                                         *)
(* A text is what the patterns find in it: [all |-> "all sections" occurs, *)
(* range |-> "Sections A-D" occurs, letters |-> those of the first         *)
(* "Section C & D"].  A profile is the sequence of the enrolled courses,   *)
(* [course_name, section], in the order they were saved.  Course names are *)
(* compared by containment either way, given as a relation.                *)
(***************************************************************************)
EXTENDS Naturals, Sequences, FiniteSetsExt

CONSTANTS
    Contains   \* pairs <<a, b>> of course names: the text of a contains b's

Text(letters) == [all |-> FALSE, range |-> FALSE, letters |-> letters]

\* A phrase that applies to all hides a range, a range hides the letters.
ExtractSections(text) ==
    [ applies_to_all |-> text.all,
      is_range       |-> text.range /\ ~text.all,
      sections       |-> IF text.all \/ text.range THEN {} ELSE text.letters ]

\* _find_course_key: the first enrolled course that matches, not the closest.
MatchingCourses(course, profile) ==
    { n \in DOMAIN profile : \/ profile[n].course_name = course
                             \/ <<course, profile[n].course_name>> \in Contains
                             \/ <<profile[n].course_name, course>> \in Contains }

\* What profile.section_labels.get gives for a course it has no label for.
NoSection == "none"

\* The section the profile gives for the course, if it gives one.  A name saved
\* twice has the section saved last (section_labels is a dictionary).
ExpectedSection(course, profile) ==
    LET hits == MatchingCourses(course, profile)
        same == { n \in hits : profile[n].course_name = profile[Min(hits)].course_name }
    IN  IF hits = {} THEN NoSection ELSE profile[Max(same)].section

IsRelevant(title, description, course, profile) ==
    LET t == ExtractSections(title)
        d == ExtractSections(description)
        mentioned == t.sections \cup d.sections
        disagree == t.sections # {} /\ d.sections # {} /\ t.sections # d.sections
        expected == ExpectedSection(course, profile)
    IN  CASE t.applies_to_all \/ d.applies_to_all -> "relevant"
          [] ~(t.applies_to_all \/ d.applies_to_all)
               /\ (t.is_range \/ d.is_range \/ disagree \/ mentioned = {}) -> "unknown"
          [] OTHER -> IF expected \in mentioned \cup {NoSection} THEN "relevant"
                      ELSE "other_section"

Decisions == {"relevant", "unknown", "other_section"}

-----------------------------------------------------------------------------
(* load_profile: the stored row; without one, the configuration of the module *)
(* for the one account that has not been linked yet, and nothing for others.  *)

NoRow == <<[course_name |-> NoSection, section |-> NoSection]>>

LoadProfile(stored, unlinked, legacy) ==
    CASE stored # NoRow -> stored
      [] stored = NoRow /\ unlinked -> legacy
      [] stored = NoRow /\ ~unlinked -> <<>>
=============================================================================
