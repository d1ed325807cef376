------------------------- MODULE ClassroomSyncProofs -------------------------
(***************************************************************************)
(* The safety properties of ClassroomSync, for any course, items, dates,   *)
(* profiles, bounds and kinds of fault.                                    *)
(***************************************************************************)
EXTENDS ClassroomSync, FiniteSetTheorems, TLAPS

-----------------------------------------------------------------------------
(* The reminder plan. *)

\* Every reminder of a plan lies between the discovery and the deadline.
LEMMA PlanInWindow ==
    ASSUME NEW d \in Int, NEW t \in Int, NEW p \in ComputeReminderPlan(d, t)
    PROVE  /\ p.scheduled_for \in Int
           /\ t <= p.scheduled_for /\ p.scheduled_for <= d
BY SMTT(60) DEF ComputeReminderPlan, Cadence, LongCadence, MediumCadence, ShortCadence, FinalHour,
       SameDayMorning, Planned, Hour, Day

\* A plan has one reminder of each type at most, and its types are known ones.
LEMMA PlanTypes ==
    ASSUME NEW d \in Int, NEW t \in Int, NEW p \in ComputeReminderPlan(d, t)
    PROVE  /\ p.reminder_type \in Types
           /\ p.reminder_type \in TaskAnchoredTypes => p.reminder_type = "NEW_ASSIGNMENT"
           /\ \A q \in ComputeReminderPlan(d, t) : q.reminder_type = p.reminder_type => q = p
BY SMTT(60) DEF ComputeReminderPlan, Cadence, LongCadence, MediumCadence, ShortCadence, FinalHour,
       SameDayMorning, Planned, Hour, Day, Types, TaskAnchoredTypes

\* A deadline still ahead is announced at once, and the moment it is reached.
LEMMA PlanAnnounces ==
    ASSUME NEW d \in Int, NEW t \in Int, t < d
    PROVE  /\ Planned("NEW_ASSIGNMENT", t) \in ComputeReminderPlan(d, t)
           /\ Planned("DEADLINE_REACHED", d) \in ComputeReminderPlan(d, t)
BY DEF ComputeReminderPlan, Planned

\* A deadline that has passed has no plan.
LEMMA PlanOverdue ==
    ASSUME NEW d \in Int, NEW t \in Int, d <= t
    PROVE  ComputeReminderPlan(d, t) = {}
BY DEF ComputeReminderPlan

\* Whatever the lead time, the boundaries of the cadences included, a deadline
\* ahead has its discovery ping, its last hour when there is more than one left,
\* and its end; nothing is planned outside the two.
THEOREM PlanCovers ==
    ASSUME NEW d \in Int, NEW t \in Int, t < d
    PROVE  /\ {Planned("NEW_ASSIGNMENT", t), Planned("DEADLINE_REACHED", d)} \subseteq ComputeReminderPlan(d, t)
           /\ d - t > Hour => FinalHour(d) \in ComputeReminderPlan(d, t)
           /\ \A p \in ComputeReminderPlan(d, t) : t <= p.scheduled_for /\ p.scheduled_for <= d
<1>1. ASSUME d - t > Hour PROVE FinalHour(d) \in ComputeReminderPlan(d, t)
  <2>1. FinalHour(d) \in Cadence(d, t)
    BY <1>1 DEF Cadence, LongCadence, MediumCadence, ShortCadence, Hour, Day
  <2>2. t <= FinalHour(d).scheduled_for /\ FinalHour(d).scheduled_for < d
    BY <1>1 DEF FinalHour, Planned, Hour
  <2>3. QED
    BY <2>1, <2>2 DEF ComputeReminderPlan
<1>2. QED
  BY <1>1, PlanAnnounces, PlanInWindow

\* Two reminders of a plan fall on one minute in two cases only: the midpoint and
\* the last hour of a two-hour lead, and the morning of a deadline at nine and
\* its last hour.
THEOREM PlanSpread ==
    ASSUME NEW d \in Int, NEW t \in Int, NEW p \in ComputeReminderPlan(d, t), NEW q \in ComputeReminderPlan(d, t),
           p # q, p.scheduled_for = q.scheduled_for
    PROVE  \/ {p.reminder_type, q.reminder_type} = {"MIDPOINT", "FINAL_1H"} /\ d - t \in 2 * Hour - 1 .. 2 * Hour
           \/ {p.reminder_type, q.reminder_type} = {"DUE_TODAY", "FINAL_1H"} /\ d - (d \div Day) * Day = 9 * Hour
<1>0. t < d
  BY DEF ComputeReminderPlan
<1>1. CASE d - t >= 2 * Day
  BY <1>0, <1>1, SMTT(60) DEF ComputeReminderPlan, Cadence, LongCadence, FinalHour, SameDayMorning, Planned, Hour, Day
<1>2. CASE d - t \in Day .. 2 * Day - 1
  BY <1>0, <1>2, SMTT(60) DEF ComputeReminderPlan, Cadence, MediumCadence, FinalHour, Planned, Hour, Day
<1>3. CASE d - t < Day
  BY <1>0, <1>3, SMTT(60) DEF ComputeReminderPlan, Cadence, ShortCadence, FinalHour, Planned, Hour, Day
<1>4. d - t < Day \/ d - t \in Day .. 2 * Day - 1 \/ d - t >= 2 * Day
  BY DEF Day, Hour
<1>5. QED
  BY <1>1, <1>2, <1>3, <1>4

-----------------------------------------------------------------------------
(* The reminders table. *)

DueDates == Deadlines \cup {NoDate}
Stored   == [status : {"PENDING", "SENT", "CANCELLED"}, scheduled_for : Int]

RowTypes == row \in [DOMAIN row -> Stored] /\ DOMAIN row \subseteq Keys

\* A row has a task among the items and a deadline among the dates.
LEMMA KeyParts ==
    ASSUME NEW k \in Keys
    PROVE  k.task \in Items /\ k.type \in Types /\ k.deadline \in DueDates
BY DEF Keys, Key, Types, TaskAnchoredTypes, DueDates

\* The rows planned for an item are its own, for its deadline or for none.
LEMMA PlanningRows ==
    ASSUME NEW i \in Items, NEW d \in DueDates, NEW t \in Int, NEW p \in Planning(i, d, t)
    PROVE  /\ p.key \in Keys /\ p.at \in Int
           /\ p.key.task = i /\ p.key.deadline \in {NoDate, d}
<1>0. d # NoDate
  BY DEF Planning
<1>1. d \in Deadlines /\ d \in Int
  BY <1>0, SyncAssumption DEF DueDates
<1>2. PICK q \in ComputeReminderPlan(d, t) :
        p = [key |-> IdempotencyKey(i, q.reminder_type, d), at |-> q.scheduled_for]
  BY <1>0 DEF Planning
<1>3. q.scheduled_for \in Int /\ q.reminder_type \in Types
      /\ (q.reminder_type \in TaskAnchoredTypes => q.reminder_type = "NEW_ASSIGNMENT")
  BY <1>1, PlanInWindow, PlanTypes
<1>4. CASE q.reminder_type = "NEW_ASSIGNMENT"
  BY <1>0, <1>2, <1>3, <1>4 DEF IdempotencyKey, TaskAnchored, Key, Keys, TaskAnchoredTypes
<1>5. CASE q.reminder_type \notin TaskAnchoredTypes
  BY <1>1, <1>2, <1>3, <1>5 DEF IdempotencyKey, TaskAnchored, Key, Keys, TaskAnchoredTypes
<1>6. QED
  BY <1>3, <1>4, <1>5

\* The rows of K are settled with status s; the others stay.
Settle(K, s) == row' = [k \in DOMAIN row |->
                          IF k \in K THEN [row[k] EXCEPT !.status = s] ELSE row[k]]

LEMMA SettleRows ==
    ASSUME RowTypes, NEW K, NEW s \in {"SENT", "CANCELLED"}, Settle(K, s)
    PROVE  /\ RowTypes' /\ DOMAIN row' = DOMAIN row
           /\ \A k \in DOMAIN row : row'[k].status = IF k \in K THEN s ELSE row[k].status
BY DEF RowTypes, Settle, Stored

LEMMA CancelSettles ==
    ASSUME NEW K, Cancel(K)
    PROVE  Settle({ k \in K \cap DOMAIN row : IsPending(k) }, "CANCELLED")
BY DEF Cancel, Settle, IsPending

\* A row is added only where there is none with its key.
LEMMA InsertRows ==
    ASSUME RowTypes, NEW k \in Keys, NEW t \in Int, InsertIfAbsent(k, t)
    PROVE  /\ RowTypes' /\ DOMAIN row' = DOMAIN row \cup {k}
           /\ \A j \in DOMAIN row : row'[j] = row[j]
BY DEF RowTypes, InsertIfAbsent, Row, Stored

-----------------------------------------------------------------------------
(* Types. *)

\* The steps at which the sync works on an item it fetched or selected.
Applying == {"judge", "feed", "countdown", "changed", "plan"}
Steps    == {"idle", "courses", "fetch", "item", "withdraw", "withdrawn", "backlog", "overdue",
             "missed", "stray", "heal", "record"} \cup Applying

Entries == [id : Items, due : DueDates, version : 0 .. MaxEdits, posted_at : Int]

CourseTypes ==
    /\ live \subseteq Items /\ due \in [Items -> DueDates] /\ posted_at \in [Items -> Int]
    /\ edits \in 0 .. MaxEdits /\ course \in {"ACTIVE", "ARCHIVED", "GONE"}
    /\ version \in [Items -> 0 .. MaxEdits] /\ \A i \in Items : version[i] <= edits

SourceTypes ==
    /\ sources \in Seq({"coursework", "announcement"}) /\ read \in Seq({"coursework", "announcement"})
    /\ pc \in {"item"} \cup Applying => sources # <<>>

PassTypes ==
    /\ pc \in Steps
    /\ batch \subseteq Entries /\ absent \subseteq Items
    /\ item \in [id : Items \cup {NoDate}, due : DueDates, version : 0 .. MaxEdits, posted_at : Int]
    /\ pc \in Applying \cup {"withdrawn", "missed"} => item.id \in Items
    /\ \A p \in plan : p.key \in Keys /\ p.at \in Int

\* What TypeOK says of the columns, apart from the rows.
ColumnTypes ==
    /\ now \in 0 .. Horizon
    /\ status \in [Items -> {"ABSENT", "OPEN"} \cup Terminal]
    /\ actual_deadline \in [Items -> DueDates]
    /\ source_updated_at \in [Items -> 0 .. MaxEdits]
    /\ created_at \in [Items -> 0 .. Horizon]
    /\ relevance \in [Items -> Decisions]
    /\ profile \in Profiles \cup {NoRow}
    /\ context \in Profiles \cup {Unavailable, <<>>, LegacyProfile}
    /\ sync_state \in {"NEVER", "RUNNING", "OK", "ERROR"}
    /\ errors \in BOOLEAN
    /\ state \in {"ABSENT", "ACTIVE", "ARCHIVED"}
    /\ closing \subseteq Items /\ doomed \subseteq Items /\ strays \subseteq Keys /\ seen \subseteq Items

TypeInv == ColumnTypes /\ CourseTypes /\ SourceTypes /\ PassTypes /\ RowTypes

LEMMA TypeCovers == TypeInv => TypeOK
<1>1. RowTypes => \A k \in DOMAIN row : row[k].status \in {"PENDING", "SENT", "CANCELLED"}
  BY DEF RowTypes, Stored
<1>2. QED
  BY <1>1 DEF TypeInv, ColumnTypes, SourceTypes, PassTypes, RowTypes, TypeOK, DueDates

LEMMA TypeInit == Init => TypeInv
<1> SUFFICES ASSUME Init PROVE TypeInv
  OBVIOUS
<1>1. RowTypes
  BY DEF Init, RowTypes
<1>2. CourseTypes
  BY SyncAssumption DEF Init, CourseTypes, DueDates
<1>3. PassTypes
  BY SyncAssumption DEF Init, SourceTypes, PassTypes, Steps, Applying, Entries, DueDates, NoItem
<1>4. ColumnTypes
  <2>1. DOMAIN row = {}
    BY DEF Init
  <2>2. now \in 0 .. Horizon /\ created_at \in [Items -> 0 .. Horizon]
        /\ source_updated_at \in [Items -> 0 .. MaxEdits]
    BY SyncAssumption DEF Init
  <2>3. context \in Profiles \cup {Unavailable, <<>>, LegacyProfile} /\ profile \in Profiles \cup {NoRow}
    BY DEF Init
  <2>4. QED
    BY <2>1, <2>2, <2>3 DEF Init, ColumnTypes, DueDates, Decisions
<1>5. SourceTypes
  BY DEF Init, SourceTypes, Applying
<1>6. QED
  BY <1>1, <1>2, <1>3, <1>4, <1>5 DEF TypeInv

\* What the teacher does.
LEMMA TeacherTypes == TypeInv /\ (TeacherStep \/ \E p \in Profiles : SaveProfile(p)) => TypeInv'
<1> SUFFICES ASSUME TypeInv, TeacherStep \/ \E p \in Profiles : SaveProfile(p) PROVE TypeInv'
  OBVIOUS
<1>0. edits \in 0 .. MaxEdits /\ MaxEdits \in Nat
  BY SyncAssumption DEF TypeInv, CourseTypes
<1>1. edits < MaxEdits /\ edits' = edits + 1
      /\ UNCHANGED <<now, taskVars, relevance, sync_state, state, row, closing, pc, loopVars, faults>>
  BY DEF TeacherStep, Post, Edit, Toggle, SetCourse, Teach, SaveProfile, dbVars, courseVars
<1>2. CourseTypes'
  <2>0. ASSUME NEW i \in Items, NEW d \in Dates(i) PROVE d \in DueDates
    BY <2>0 DEF Dates, DueDates
  <2>1. ASSUME NEW i \in Items, NEW d \in Dates(i), Post(i, d) \/ Edit(i, d) PROVE CourseTypes'
    <3>1. due' = [due EXCEPT ![i] = d] /\ d \in DueDates /\ live' \subseteq Items /\ UNCHANGED course
      BY <2>0, <2>1 DEF Post, Edit, TypeInv, CourseTypes
    <3>2. posted_at' \in [Items -> Int]
      BY SyncAssumption, <2>1 DEF Post, Edit, TypeInv, ColumnTypes, CourseTypes
    <3>3. version' \in [Items -> 0 .. MaxEdits] /\ \A j \in Items : version'[j] <= edits'
      BY <1>0, <1>1, <2>1 DEF Post, Edit, TypeInv, CourseTypes
    <3>4. due' \in [Items -> DueDates] /\ course' \in {"ACTIVE", "ARCHIVED", "GONE"} /\ edits' \in 0 .. MaxEdits
      BY <1>0, <1>1, <3>1 DEF TypeInv, CourseTypes
    <3>5. QED
      BY <3>1, <3>2, <3>3, <3>4 DEF CourseTypes
  <2>2. ASSUME NEW i \in Items, Toggle(i) PROVE CourseTypes'
    BY <1>0, <1>1, <2>2 DEF Toggle, Teach, TypeInv, CourseTypes
  <2>3. ASSUME NEW c \in {"ACTIVE", "ARCHIVED", "GONE"}, SetCourse(c) PROVE CourseTypes'
    BY <1>0, <1>1, <2>3 DEF SetCourse, Teach, TypeInv, CourseTypes
  <2>4. ASSUME NEW p \in Profiles, SaveProfile(p) PROVE CourseTypes'
    BY <1>0, <1>1, <2>4 DEF SaveProfile, TypeInv, CourseTypes
  <2>5. QED
    BY <2>1, <2>2, <2>3, <2>4 DEF TeacherStep
<1>3. profile' \in Profiles \cup {NoRow}
  BY DEF TypeInv, ColumnTypes, TeacherStep, Post, Edit, Toggle, SetCourse, Teach, SaveProfile, dbVars, courseVars
<1>4. ColumnTypes' /\ SourceTypes' /\ PassTypes' /\ RowTypes'
  BY <1>1, <1>3 DEF TypeInv, ColumnTypes, SourceTypes, PassTypes, RowTypes, taskVars, loopVars
<1>5. QED
  BY <1>2, <1>4 DEF TypeInv

\* What the other requests and stages do.
LEMMA OtherTypes ==
    ASSUME TypeInv, Advance \/ Dispatch
                    \/ \E i \in Items : Complete(i) \/ CompleteCancel(i) \/ CompleteCrash(i)
    PROVE  TypeInv'
<1>0. ColumnTypes /\ CourseTypes /\ SourceTypes /\ PassTypes /\ RowTypes
  BY DEF TypeInv
<1>1. CASE Advance
  <2>1. now' \in 0 .. Horizon
    BY <1>0, <1>1, SyncAssumption DEF Advance, ColumnTypes
  <2>2. ColumnTypes'
    BY <1>0, <1>1, <2>1 DEF Advance, ColumnTypes, dbVars, taskVars, courseVars, loopVars
  <2>3. CourseTypes' /\ SourceTypes' /\ PassTypes' /\ RowTypes'
    BY <1>0, <1>1 DEF Advance, CourseTypes, SourceTypes, PassTypes, RowTypes, sourceVars, dbVars, loopVars
  <2>4. QED
    BY <2>2, <2>3 DEF TypeInv
<1>2. CASE Dispatch
  <2>1. Settle(DueNow, "SENT")
    BY <1>2 DEF Dispatch, Settle
  <2>2. RowTypes'
    BY <1>0, <2>1, SettleRows
  <2>3. ColumnTypes'
    BY <1>0, <1>2 DEF Dispatch, ColumnTypes, taskVars, courseVars, loopVars
  <2>4. CourseTypes' /\ SourceTypes' /\ PassTypes'
    BY <1>0, <1>2 DEF Dispatch, CourseTypes, SourceTypes, PassTypes, sourceVars, loopVars
  <2>5. QED
    BY <2>2, <2>3, <2>4 DEF TypeInv
<1>3. ASSUME NEW i \in Items, Complete(i) PROVE TypeInv'
  <2>1. ColumnTypes'
    BY <1>0, <1>3 DEF Complete, ColumnTypes, Terminal, sourceVars, courseVars, loopVars
  <2>2. CourseTypes' /\ SourceTypes' /\ PassTypes' /\ RowTypes'
    BY <1>0, <1>3 DEF Complete, CourseTypes, SourceTypes, PassTypes, RowTypes, sourceVars, courseVars, loopVars
  <2>3. QED
    BY <2>1, <2>2 DEF TypeInv
<1>4. ASSUME NEW i \in Items, CompleteCancel(i) PROVE TypeInv'
  <2>1. RowTypes'
    BY <1>0, <1>4, CancelSettles, SettleRows DEF CompleteCancel, CancelPending
  <2>2. ColumnTypes'
    BY <1>0, <1>4 DEF CompleteCancel, ColumnTypes, taskVars, courseVars, loopVars
  <2>3. CourseTypes' /\ SourceTypes' /\ PassTypes'
    BY <1>0, <1>4 DEF CompleteCancel, CourseTypes, SourceTypes, PassTypes, sourceVars, loopVars
  <2>4. QED
    BY <2>1, <2>2, <2>3 DEF TypeInv
<1>5. ASSUME NEW i \in Items, CompleteCrash(i) PROVE TypeInv'
  <2>1. ColumnTypes'
    BY <1>0, <1>5 DEF CompleteCrash, ColumnTypes, taskVars, courseVars, loopVars
  <2>2. CourseTypes' /\ SourceTypes' /\ PassTypes' /\ RowTypes'
    BY <1>0, <1>5 DEF CompleteCrash, CourseTypes, SourceTypes, PassTypes, RowTypes, sourceVars, loopVars
  <2>3. QED
    BY <2>1, <2>2 DEF TypeInv
<1>6. QED
  BY <1>1, <1>2, <1>3, <1>4, <1>5

\* Reading the course, and the ends of a sync.
LEMMA ReadTypes ==
    ASSUME TypeInv, StartSync \/ ListCourses \/ ListCoursesFails \/ Fetch \/ SourceFails \/ SourceDone
                    \/ RecordResult \/ Crash
    PROVE  TypeInv'
<1>0. ColumnTypes /\ CourseTypes /\ SourceTypes /\ PassTypes /\ RowTypes
  BY DEF TypeInv
<1>1. CASE StartSync
  <2>1. context' \in Profiles \cup {Unavailable, <<>>, LegacyProfile}
    BY <1>0, <1>1 DEF StartSync, ColumnTypes, LoadProfile, Unavailable
  <2>2. ColumnTypes'
    BY <1>0, <1>1, <2>1 DEF StartSync, ColumnTypes, taskVars
  <2>3. CourseTypes' /\ SourceTypes' /\ PassTypes' /\ RowTypes'
    BY <1>0, <1>1 DEF StartSync, CourseTypes, SourceTypes, PassTypes, RowTypes, sourceVars, Steps, Applying
  <2>4. QED
    BY <2>2, <2>3 DEF TypeInv
<1>2. CASE ListCourses
  <2>1. ColumnTypes'
    BY <1>0, <1>2 DEF ListCourses, ColumnTypes, CourseTypes, taskVars, passVars
  <2>2. SourceTypes'
    <3>1. sources' = <<"coursework", "announcement">> \/ (sources' = sources /\ pc' = "backlog")
      BY <1>2 DEF ListCourses
    <3>2. <<"coursework", "announcement">> \in Seq({"coursework", "announcement"})
          /\ <<>> \in Seq({"coursework", "announcement"})
      OBVIOUS
    <3>3. pc' \in {"fetch", "backlog"} /\ read' = <<>>
      BY <1>2 DEF ListCourses
    <3>4. QED
      BY <1>0, <3>1, <3>2, <3>3 DEF SourceTypes, Applying
  <2>3. PassTypes'
    BY <1>0, <1>2 DEF ListCourses, PassTypes, Steps, Applying
  <2>4. CourseTypes' /\ RowTypes'
    BY <1>0, <1>2 DEF ListCourses, CourseTypes, RowTypes, sourceVars
  <2>5. QED
    BY <2>1, <2>2, <2>3, <2>4 DEF TypeInv
<1>3. CASE Fetch
  <2>1. Fetched(Head(sources)) \subseteq Entries
    BY <1>0 DEF Fetched, Entries, CourseTypes
  <2>2. ColumnTypes'
    BY <1>0, <1>3 DEF Fetch, ColumnTypes, dbVars, taskVars, courseVars, passVars
  <2>3. SourceTypes' /\ PassTypes'
    BY <1>0, <1>3, <2>1 DEF Fetch, SourceTypes, PassTypes, Steps, Applying
  <2>4. CourseTypes' /\ RowTypes'
    BY <1>0, <1>3 DEF Fetch, CourseTypes, RowTypes, sourceVars, dbVars
  <2>5. QED
    BY <2>2, <2>3, <2>4 DEF TypeInv
<1>4. CASE SourceFails
  <2>1. ColumnTypes'
    BY <1>0, <1>4 DEF SourceFails, ColumnTypes, dbVars, taskVars, courseVars
  <2>2. SourceTypes'
    <3>1. sources # <<>> /\ sources' = Tail(sources) /\ UNCHANGED read /\ pc' = "fetch"
      BY <1>0, <1>4 DEF SourceFails, SkipSource, SourceTypes, Applying
    <3>2. QED
      BY <1>0, <3>1 DEF SourceTypes, Applying
  <2>3. PassTypes'
    BY <1>0, <1>4 DEF SourceFails, PassTypes, Steps, Applying
  <2>4. CourseTypes' /\ RowTypes'
    BY <1>0, <1>4 DEF SourceFails, CourseTypes, RowTypes, sourceVars, dbVars
  <2>5. QED
    BY <2>1, <2>2, <2>3, <2>4 DEF TypeInv
<1>5. CASE SourceDone
  <2>1. ColumnTypes'
    BY <1>0, <1>5 DEF SourceDone, ColumnTypes, dbVars, taskVars, courseVars, passVars
  <2>2. SourceTypes'
    <3>1. sources # <<>> /\ sources' = Tail(sources) /\ read' = Append(read, Head(sources)) /\ pc' = "fetch"
      BY <1>0, <1>5 DEF SourceDone, SourceTypes, Applying
    <3>2. Head(sources) \in {"coursework", "announcement"}
      BY <1>0, <3>1 DEF SourceTypes
    <3>3. QED
      BY <1>0, <3>1, <3>2 DEF SourceTypes, Applying
  <2>3. PassTypes'
    BY <1>0, <1>5 DEF SourceDone, PassTypes, Steps, Applying
  <2>4. CourseTypes' /\ RowTypes'
    BY <1>0, <1>5 DEF SourceDone, CourseTypes, RowTypes, sourceVars, dbVars
  <2>5. QED
    BY <2>1, <2>2, <2>3, <2>4 DEF TypeInv
<1>6. CASE ListCoursesFails \/ RecordResult \/ Crash
  <2>0. EndSync /\ UNCHANGED <<sourceVars, row>>
    BY <1>6 DEF ListCoursesFails, RecordResult, Crash
  <2>1. ColumnTypes'
    BY <1>0, <1>6 DEF ListCoursesFails, RecordResult, Crash, EndSync, ColumnTypes, taskVars
  <2>2. SourceTypes'
    BY <2>0 DEF EndSync, SourceTypes, Applying
  <2>3. PassTypes'
    <3>1. NoItem \in [id : Items \cup {NoDate}, due : DueDates, version : 0 .. MaxEdits, posted_at : Int]
      BY SyncAssumption DEF NoItem, DueDates
    <3>2. QED
      BY <2>0, <3>1 DEF EndSync, PassTypes, Steps, Applying
  <2>4. CourseTypes' /\ RowTypes'
    BY <1>0, <2>0 DEF CourseTypes, RowTypes, sourceVars
  <2>5. QED
    BY <2>1, <2>2, <2>3, <2>4 DEF TypeInv
<1>7. QED
  BY <1>1, <1>2, <1>3, <1>4, <1>5, <1>6

\* What is left of an item once it has been judged.
LEMMA AfterTypes ==
    ASSUME TypeInv, pc = "judge", AfterJudging
    PROVE  /\ pc' \in {"feed", "plan", "countdown", "item"}
           /\ \A p \in plan' : p.key \in Keys /\ p.at \in Int
<1>1. item.id \in Items /\ item.due \in DueDates /\ now \in Int
  BY DEF TypeInv, PassTypes, ColumnTypes, Applying
<1>2. QED
  BY <1>1, PlanningRows DEF AfterJudging

LEMMA JudgeTypes ==
    ASSUME NEW i \in Items, NEW courses PROVE Decision(i, courses) \in Decisions
BY DEF Decision, IsRelevant, Decisions

\* Applying one item.
LEMMA ApplyTypes ==
    ASSUME TypeInv, \/ \E e \in batch : Upsert(e)
                    \/ Judge \/ JudgeFails \/ FeedAlert \/ Recount \/ AnnounceChange
                    \/ \E p \in plan : InsertPlanned(p)
    PROVE  TypeInv'
<1>0. ColumnTypes /\ CourseTypes /\ SourceTypes /\ PassTypes /\ RowTypes
  BY DEF TypeInv
<1>1. ASSUME NEW e \in batch, Upsert(e) PROVE TypeInv'
  <2>1. e \in Entries /\ e.id \in Items /\ e.due \in DueDates /\ e.version \in 0 .. MaxEdits
    BY <1>0 DEF PassTypes, Entries
  <2>2. status' \in [Items -> {"ABSENT", "OPEN"} \cup Terminal] /\ created_at' \in [Items -> 0 .. Horizon]
    BY <1>0, <1>1, <2>1 DEF Upsert, ColumnTypes, taskVars
  <2>3. actual_deadline' \in [Items -> DueDates] /\ source_updated_at' \in [Items -> 0 .. MaxEdits]
    BY <1>0, <1>1, <2>1 DEF Upsert, ColumnTypes, taskVars
  <2>4. ColumnTypes'
    BY <1>0, <1>1, <2>1, <2>2, <2>3 DEF Upsert, ColumnTypes, courseVars, passVars
  <2>5. CourseTypes' /\ RowTypes'
    BY <1>0, <1>1 DEF Upsert, CourseTypes, RowTypes, sourceVars
  <2>6. SourceTypes' /\ PassTypes'
    BY <1>0, <1>1, <2>1 DEF Upsert, SourceTypes, PassTypes, Entries, Steps, Applying
  <2>7. QED
    BY <2>4, <2>5, <2>6 DEF TypeInv
<1>2. CASE Judge \/ JudgeFails
  <2>1. pc = "judge" /\ AfterJudging
    BY <1>2 DEF Judge, JudgeFails
  <2>2. item.id \in Items
    BY <1>0, <2>1 DEF PassTypes, Applying
  <2>3. relevance' \in [Items -> Decisions]
    BY <1>0, <1>2, <2>2, JudgeTypes DEF Judge, JudgeFails, ColumnTypes, dbVars, courseVars
  <2>4. ColumnTypes'
    BY <1>0, <1>2, <2>3 DEF Judge, JudgeFails, ColumnTypes, dbVars, taskVars, courseVars, passVars
  <2>5. CourseTypes' /\ RowTypes'
    BY <1>0, <1>2 DEF Judge, JudgeFails, CourseTypes, RowTypes, sourceVars, dbVars
  <2>6. SourceTypes' /\ PassTypes'
    BY <1>0, <1>2, <2>1, <2>2, AfterTypes DEF TypeInv, Judge, JudgeFails, SourceTypes, PassTypes, Steps, Applying
  <2>7. QED
    BY <2>4, <2>5, <2>6 DEF TypeInv
<1>3. CASE FeedAlert
  <2>1. item.id \in Items /\ now \in Int
    BY <1>0, <1>3 DEF FeedAlert, PassTypes, ColumnTypes, Applying
  <2>2. Key(item.id, "NEW_POST", NoDate) \in Keys
    BY <2>1 DEF Keys, TaskAnchoredTypes
  <2>3. RowTypes'
    BY <1>0, <1>3, <2>1, <2>2, InsertRows DEF FeedAlert, RowTypes
  <2>4. ColumnTypes'
    BY <1>0, <1>3 DEF FeedAlert, ColumnTypes, taskVars, courseVars, loopVars
  <2>5. CourseTypes' /\ SourceTypes' /\ PassTypes'
    BY <1>0, <1>3 DEF FeedAlert, CourseTypes, SourceTypes, PassTypes, sourceVars, loopVars, Steps, Applying
  <2>6. QED
    BY <2>3, <2>4, <2>5 DEF TypeInv
<1>4. CASE Recount
  <2>1. RowTypes'
    BY <1>0, <1>4, CancelSettles, SettleRows DEF Recount, CancelCountdown, CancelPending
  <2>2. ColumnTypes'
    BY <1>0, <1>4 DEF Recount, ColumnTypes, taskVars, courseVars, loopVars
  <2>3. CourseTypes' /\ SourceTypes' /\ PassTypes'
    BY <1>0, <1>4 DEF Recount, CourseTypes, SourceTypes, PassTypes, sourceVars, loopVars, Steps, Applying
  <2>4. QED
    BY <2>1, <2>2, <2>3 DEF TypeInv
<1>5. CASE AnnounceChange
  <2>1. item.id \in Items /\ item.due \in DueDates /\ now \in Int
    BY <1>0, <1>5 DEF AnnounceChange, PassTypes, ColumnTypes, Applying
  <2>2. Key(item.id, "DEADLINE_CHANGED", item.due) \in Keys
    BY <2>1 DEF Keys, Types, TaskAnchoredTypes, DueDates
  <2>3. RowTypes'
    BY <1>0, <1>5, <2>1, <2>2, InsertRows DEF AnnounceChange
  <2>4. ColumnTypes'
    BY <1>0, <1>5 DEF AnnounceChange, ColumnTypes, taskVars, courseVars, passVars
  <2>5. plan' = Planning(item.id, item.due, now)
    BY <1>5 DEF AnnounceChange, Replanned
  <2>6. \A p \in plan' : p.key \in Keys /\ p.at \in Int
    BY <2>1, <2>5, PlanningRows
  <2>7. CourseTypes' /\ SourceTypes' /\ PassTypes'
    BY <1>0, <1>5, <2>6 DEF AnnounceChange, CourseTypes, SourceTypes, PassTypes, sourceVars, Steps, Applying
  <2>8. QED
    BY <2>3, <2>4, <2>7 DEF TypeInv
<1>6. ASSUME NEW p \in plan, InsertPlanned(p) PROVE TypeInv'
  <2>1. p.key \in Keys /\ p.at \in Int
    BY <1>0 DEF PassTypes
  <2>2. RowTypes'
    BY <1>0, <1>6, <2>1, InsertRows DEF InsertPlanned
  <2>3. ColumnTypes'
    BY <1>0, <1>6 DEF InsertPlanned, ColumnTypes, taskVars, courseVars, passVars
  <2>4. CourseTypes' /\ SourceTypes' /\ PassTypes'
    BY <1>0, <1>6 DEF InsertPlanned, CourseTypes, SourceTypes, PassTypes, sourceVars, Steps, Applying
  <2>5. QED
    BY <2>2, <2>3, <2>4 DEF TypeInv
<1>7. QED
  BY <1>1, <1>2, <1>3, <1>4, <1>5, <1>6

\* What disappeared, and the clean-ups.
LEMMA CleanTypes ==
    ASSUME TypeInv, \/ SelectMissing \/ \E i \in Items : Withdraw(i) \/ MarkMissed(i)
                    \/ WithdrawReminders \/ Backlog \/ MissedReminders \/ SelectStray \/ HealStray
    PROVE  TypeInv'
<1>0. ColumnTypes /\ CourseTypes /\ SourceTypes /\ PassTypes /\ RowTypes
  BY DEF TypeInv
<1>1. CASE SelectMissing
  <2>1. doomed' \subseteq Items
    BY <1>0, <1>1 DEF SelectMissing, Missing, ColumnTypes
  <2>2. ColumnTypes'
    BY <1>0, <1>1, <2>1 DEF SelectMissing, ColumnTypes, dbVars, taskVars, courseVars, passVars
  <2>3. SourceTypes'
    BY <1>0, <1>1 DEF SelectMissing, SourceTypes, Applying
  <2>4. CourseTypes' /\ PassTypes' /\ RowTypes'
    BY <1>0, <1>1 DEF SelectMissing, CourseTypes, PassTypes, RowTypes, sourceVars, dbVars, Steps, Applying
  <2>5. QED
    BY <2>2, <2>3, <2>4 DEF TypeInv
<1>2. ASSUME NEW i \in Items, Withdraw(i) \/ MarkMissed(i) PROVE TypeInv'
  <2>1. ColumnTypes'
    BY <1>0, <1>2 DEF Withdraw, MarkMissed, ColumnTypes, Terminal, courseVars, passVars
  <2>2. SourceTypes' /\ PassTypes'
    BY <1>0, <1>2 DEF Withdraw, MarkMissed, SourceTypes, PassTypes, Steps, Applying
  <2>3. CourseTypes' /\ RowTypes'
    BY <1>0, <1>2 DEF Withdraw, MarkMissed, CourseTypes, RowTypes, sourceVars
  <2>4. QED
    BY <2>1, <2>2, <2>3 DEF TypeInv
<1>3. CASE WithdrawReminders \/ MissedReminders
  <2>1. RowTypes'
    BY <1>0, <1>3, CancelSettles, SettleRows DEF WithdrawReminders, MissedReminders, CancelPending
  <2>2. ColumnTypes'
    BY <1>0, <1>3 DEF WithdrawReminders, MissedReminders, ColumnTypes, taskVars, courseVars, passVars
  <2>3. SourceTypes' /\ PassTypes'
    BY <1>0, <1>3 DEF WithdrawReminders, MissedReminders, SourceTypes, PassTypes, Steps, Applying
  <2>4. CourseTypes'
    BY <1>0, <1>3 DEF WithdrawReminders, MissedReminders, CourseTypes, sourceVars
  <2>5. QED
    BY <2>1, <2>2, <2>3, <2>4 DEF TypeInv
<1>4. CASE Backlog
  <2>1. RowTypes'
    BY <1>0, <1>4, CancelSettles, SettleRows DEF Backlog
  <2>2. doomed' \subseteq Items
    BY <1>4 DEF Backlog
  <2>3. ColumnTypes'
    BY <1>0, <1>4, <2>2 DEF Backlog, ColumnTypes, taskVars, courseVars, passVars
  <2>4. SourceTypes' /\ PassTypes'
    BY <1>0, <1>4 DEF Backlog, SourceTypes, PassTypes, Steps, Applying
  <2>5. CourseTypes'
    BY <1>0, <1>4 DEF Backlog, CourseTypes, sourceVars
  <2>6. QED
    BY <2>1, <2>3, <2>4, <2>5 DEF TypeInv
<1>5. CASE SelectStray
  <2>1. strays' \subseteq Keys
    BY <1>0, <1>5 DEF SelectStray, RowTypes
  <2>2. ColumnTypes'
    BY <1>0, <1>5, <2>1 DEF SelectStray, ColumnTypes, dbVars, taskVars, courseVars, passVars
  <2>3. SourceTypes' /\ PassTypes'
    BY <1>0, <1>5 DEF SelectStray, SourceTypes, PassTypes, Steps, Applying
  <2>4. CourseTypes' /\ RowTypes'
    BY <1>0, <1>5 DEF SelectStray, CourseTypes, RowTypes, sourceVars, dbVars
  <2>5. QED
    BY <2>2, <2>3, <2>4 DEF TypeInv
<1>6. CASE HealStray
  <2>1. Settle(strays, "CANCELLED")
    BY <1>6 DEF HealStray, Settle
  <2>2. RowTypes'
    BY <1>0, <2>1, SettleRows
  <2>3. ColumnTypes'
    BY <1>0, <1>6 DEF HealStray, ColumnTypes, taskVars, courseVars, loopVars
  <2>4. CourseTypes' /\ SourceTypes' /\ PassTypes'
    BY <1>0, <1>6 DEF HealStray, CourseTypes, SourceTypes, PassTypes, sourceVars, loopVars, Steps, Applying
  <2>5. QED
    BY <2>2, <2>3, <2>4 DEF TypeInv
<1>7. QED
  BY <1>1, <1>2, <1>3, <1>4, <1>5, <1>6

\* The sync of the check button.
LEMMA CheckTypes ==
    ASSUME TypeInv, CheckSync
    PROVE  TypeInv'
<1>0. ColumnTypes /\ CourseTypes /\ SourceTypes /\ PassTypes /\ RowTypes
  BY DEF TypeInv
<1>1. Given \subseteq Items /\ now \in Int /\ Discovered \subseteq Items /\ Refreshed \subseteq Items /\ Moved \subseteq Items
  BY <1>0 DEF Given, Discovered, Refreshed, Moved, CourseTypes, ColumnTypes
<1>2. \A p \in Inserted : p.key \in Keys /\ p.at \in Int
  <2> SUFFICES ASSUME NEW p \in Inserted PROVE p.key \in Keys /\ p.at \in Int
    OBVIOUS
  <2>1. CASE \E i \in Discovered : p = [key |-> Key(i, "NEW_POST", NoDate), at |-> now]
    BY <1>1, <2>1 DEF Keys, TaskAnchoredTypes
  <2>2. CASE \E i \in Moved : p = [key |-> Key(i, "DEADLINE_CHANGED", due[i]), at |-> now]
    <3>1. PICK i \in Moved : p = [key |-> Key(i, "DEADLINE_CHANGED", due[i]), at |-> now]
      BY <2>2
    <3>2. i \in Items /\ due[i] \in DueDates
      BY <1>0, <1>1 DEF CourseTypes
    <3>3. QED
      BY <1>1, <3>1, <3>2 DEF Keys, Types, TaskAnchoredTypes, DueDates
  <2>3. CASE \E i \in (Discovered \cap Coursework) \cup Moved : p \in Planning(i, due[i], now)
    <3>1. PICK i \in (Discovered \cap Coursework) \cup Moved : p \in Planning(i, due[i], now)
      BY <2>3
    <3>2. i \in Items /\ due[i] \in DueDates
      BY <1>0, <1>1 DEF CourseTypes
    <3>3. QED
      BY <1>1, <3>1, <3>2, PlanningRows
  <2>4. QED
    BY <2>1, <2>2, <2>3 DEF Inserted
<1>3. status' \in [Items -> {"ABSENT", "OPEN"} \cup Terminal]
  <2>1. \A i \in Items : Reconciled(i) \in {"ABSENT", "OPEN"} \cup Terminal
    BY <1>0 DEF Reconciled, ColumnTypes, Terminal
  <2>2. QED
    BY <2>1 DEF CheckSync
<1>4. actual_deadline' \in [Items -> DueDates] /\ source_updated_at' \in [Items -> 0 .. MaxEdits]
  BY <1>0 DEF CheckSync, Stamped, ColumnTypes, CourseTypes
<1>5. created_at' \in [Items -> 0 .. Horizon]
  BY <1>0 DEF CheckSync, ColumnTypes
<1>6. relevance' \in [Items -> Decisions]
  BY <1>0, JudgeTypes DEF CheckSync, ColumnTypes
<1>7. ColumnTypes'
  BY <1>0, <1>3, <1>4, <1>5, <1>6 DEF CheckSync, ColumnTypes, CourseTypes, loopVars
<1>8. RowTypes'
  <2>1. DOMAIN row' = DOMAIN row \cup { p.key : p \in Inserted }
    BY DEF CheckSync
  <2>2. DOMAIN row' \subseteq Keys
    BY <1>0, <1>2, <2>1 DEF RowTypes
  <2>3. ASSUME NEW k \in DOMAIN row' PROVE row'[k] \in Stored
    <3>1. CASE k \in DOMAIN row
      BY <1>0, <3>1 DEF CheckSync, RowTypes, Stored
    <3>2. CASE k \notin DOMAIN row
      <4>1. (CHOOSE p \in Inserted : p.key = k).at \in Int
        BY <1>2, <2>1, <3>2
      <4>2. QED
        BY <2>1, <3>2, <4>1 DEF CheckSync, Row, Stored
    <3>3. QED
      BY <3>1, <3>2
  <2>4. row' = [k \in DOMAIN row' |-> row'[k]]
    BY DEF CheckSync
  <2>5. QED
    BY <2>2, <2>3, <2>4 DEF RowTypes
<1>9. CourseTypes' /\ SourceTypes' /\ PassTypes'
  BY <1>0 DEF CheckSync, CourseTypes, SourceTypes, PassTypes, sourceVars, loopVars
<1>10. QED
  BY <1>7, <1>8, <1>9 DEF TypeInv

LEMMA TypeStep == TypeInv /\ [Next]_vars => TypeInv'
<1> SUFFICES ASSUME TypeInv, [Next]_vars PROVE TypeInv'
  OBVIOUS
<1>1. CASE SyncStep
  BY <1>1, ReadTypes, ApplyTypes, CleanTypes DEF SyncStep
<1>2. CASE FaultStep
  BY <1>2, ReadTypes, ApplyTypes, OtherTypes, CheckTypes DEF FaultStep
<1>3. CASE UNCHANGED vars
  BY <1>3 DEF vars, sourceVars, dbVars, taskVars, courseVars, loopVars, TypeInv, ColumnTypes, CourseTypes,
              SourceTypes, PassTypes, RowTypes
<1>4. QED
  BY <1>1, <1>2, <1>3, TeacherTypes, OtherTypes DEF Next

LEMMA TypeHolds == Spec => []TypeInv
BY TypeInit, TypeStep, PTL DEF Spec

\* Tasks, reminders and the sync keep their types in every interleaving; the
\* pings of a task appearing are keyed by the task alone.
THEOREM TypeCorrect == Spec => []TypeOK
BY TypeHolds, TypeCovers, PTL

-----------------------------------------------------------------------------
(* What happens to a task. *)

\* A fault that breaks a promise is remembered, and none is forgotten.
LEMMA FaultBreaks ==
    ASSUME NEW kind, Fault(kind)
    PROVE  (Unbroken' => Unbroken) /\ (kind \in Breaking => ~Unbroken')
<1>1. faults'.broken = (faults.broken \/ kind \in Breaking)
  BY DEF Fault
<1>2. QED
  BY <1>1 DEF Unbroken

\* Two syncs at once are remembered among the faults.
LEMMA CheckBreaks == CheckSync => ~Unbroken'
BY FaultBreaks DEF CheckSync, Breaking

\* So is a source given up after an upsert, or a sync that never ended.
LEMMA BreakOff == Crash \/ (SourceFails /\ pc # "fetch") => ~Unbroken'
BY FaultBreaks DEF Crash, SourceFails, Breaking

\* A task changes status in five ways, each with its guard.
LEMMA StatusMoves ==
    ASSUME TypeInv, [Next]_vars, NEW i \in Items
    PROVE  \/ status'[i] = status[i]
           \/ status[i] = "ABSENT" /\ status'[i] = "OPEN"
           \/ status'[i] = "COMPLETED"
           \/ status'[i] = "MISSED" /\ Missable(i) /\ pc = "overdue"
           \/ status'[i] = "CANCELLED" /\ pc = "withdraw" /\ i \in doomed
           \/ /\ CheckSync /\ status[i] # "COMPLETED"
              /\ status'[i] = "CANCELLED" => status[i] = "CANCELLED" \/ i \notin live
<1>0. status \in [Items -> {"ABSENT", "OPEN"} \cup Terminal] /\ batch \subseteq Entries
  BY DEF TypeInv, ColumnTypes, PassTypes
<1>1. ASSUME NEW e \in batch, Upsert(e)
      PROVE  status'[i] = status[i] \/ (status[i] = "ABSENT" /\ status'[i] = "OPEN")
  BY <1>0, <1>1 DEF Upsert, Known, taskVars, Entries
<1>2. ASSUME NEW j \in Items, Withdraw(j)
      PROVE  status'[i] = status[i] \/ (status'[i] = "CANCELLED" /\ pc = "withdraw" /\ i \in doomed)
  BY <1>0, <1>2 DEF Withdraw
<1>3. ASSUME NEW j \in Items, MarkMissed(j)
      PROVE  status'[i] = status[i] \/ (status'[i] = "MISSED" /\ Missable(i) /\ pc = "overdue")
  BY <1>0, <1>3 DEF MarkMissed
<1>4. ASSUME NEW j \in Items, Complete(j) PROVE status'[i] = status[i] \/ status'[i] = "COMPLETED"
  BY <1>0, <1>4 DEF Complete
<1>6. ASSUME CheckSync
      PROVE  \/ status'[i] = status[i]
             \/ /\ status[i] # "COMPLETED"
                /\ status'[i] = "CANCELLED" => status[i] = "CANCELLED" \/ i \notin live
  <2>1. status'[i] = Reconciled(i)
    BY <1>6 DEF CheckSync
  <2>2. QED
    BY <2>1 DEF Reconciled, Discovered, Known, NotSeen
<1>5. \/ UNCHANGED status \/ CheckSync
      \/ \E e \in batch : Upsert(e)
      \/ \E j \in Items : Withdraw(j) \/ MarkMissed(j) \/ Complete(j)
  <2>1. CASE SyncStep
    BY <2>1 DEF SyncStep, StartSync, ListCourses, Fetch, SourceDone, Judge, FeedAlert, Recount, AnnounceChange,
         InsertPlanned, SelectMissing, WithdrawReminders, Backlog, MissedReminders, SelectStray, HealStray,
         RecordResult, taskVars, dbVars
  <2>2. CASE FaultStep
    BY <2>2 DEF FaultStep, ListCoursesFails, SourceFails, JudgeFails, Crash, CompleteCrash, taskVars, dbVars
  <2>3. CASE TeacherStep
    BY <2>3 DEF TeacherStep, Post, Edit, Toggle, SetCourse, Teach, taskVars, dbVars
  <2>4. QED
    BY <2>1, <2>2, <2>3 DEF Next, Advance, Dispatch, CompleteCancel, SaveProfile, vars, taskVars, dbVars
<1>7. QED
  BY <1>1, <1>2, <1>3, <1>4, <1>5, <1>6

\* What a clean-up selects is open or missed.
LEMMA Selections ==
    ASSUME [Next]_vars, NEW i \in doomed', i \notin doomed
    PROVE  /\ status[i] \in {"OPEN", "MISSED"} /\ pc \in {"fetch", "backlog"}
           /\ pc = "fetch" => SelectMissing /\ read # <<>> /\ i \in Missing(Head(read))
<1>1. CASE SyncStep
  <2>1. CASE SelectMissing
    BY <2>1 DEF SelectMissing, Missing
  <2>2. CASE Backlog
    BY <2>2 DEF Backlog
  <2>3. SelectMissing \/ Backlog
    BY <1>1 DEF SyncStep, StartSync, ListCourses, Fetch, SourceDone, Upsert, Judge, FeedAlert, Recount, AnnounceChange,
         InsertPlanned, Withdraw, MarkMissed, WithdrawReminders, MissedReminders, SelectStray, HealStray,
         RecordResult, EndSync, loopVars
  <2>4. QED
    BY <2>1, <2>2, <2>3
<1>2. CASE FaultStep
  BY <1>2 DEF FaultStep, ListCoursesFails, SourceFails, JudgeFails, Crash, CompleteCrash, CheckSync, EndSync, loopVars
<1>3. CASE TeacherStep
  BY <1>3 DEF TeacherStep, Post, Edit, Toggle, SetCourse, Teach, loopVars
<1>4. QED
  BY <1>1, <1>2, <1>3 DEF Next, Advance, Dispatch, Complete, CompleteCancel, SaveProfile, vars, loopVars

\* A completion that arrives while a sync runs survives the deadline clean-up,
\* and the withdrawal unless its task had been selected before it.
THEOREM CompletionRespectedHolds == Spec => CompletionRespected
<1>1. ASSUME TypeInv, [Next]_vars, NEW i \in Items, status[i] = "COMPLETED"
      PROVE  /\ status'[i] \in {"COMPLETED", "CANCELLED"}
             /\ status'[i] = "CANCELLED" => i \in doomed
             /\ i \in doomed' => i \in doomed
  BY <1>1, StatusMoves, Selections DEF Missable
<1>2. TypeInv /\ [Next]_vars =>
        [\A i \in Items : status[i] = "COMPLETED" =>
           /\ status'[i] \in {"COMPLETED", "CANCELLED"}
           /\ status'[i] = "CANCELLED" => i \in doomed
           /\ i \in doomed' => i \in doomed]_vars
  BY <1>1
<1>3. QED
  BY <1>2, TypeHolds, PTL DEF Spec, CompletionRespected

-----------------------------------------------------------------------------
(* A withdrawn item is one Classroom was asked for and did not return. *)

\* What a source that was read did not give was not there: the items still to be
\* applied are accounted for, and so is every task selected for withdrawal.
AbsenceInv ==
    /\ pc \in {"withdraw", "withdrawn"} => doomed \subseteq absent
    /\ \A n \in 1 .. Len(read) : \A i \in Items : SourceOf(i) = read[n] /\ i \notin seen => i \in absent
    /\ pc \in {"item"} \cup Applying =>
         \A i \in Items : SourceOf(i) = Head(sources) /\ i \notin seen
                            => i \in absent \/ \E e \in batch : e.id = i

LEMMA AbsenceStep == TypeInv /\ AbsenceInv /\ [Next]_vars => AbsenceInv'
<1> SUFFICES ASSUME TypeInv, AbsenceInv, [Next]_vars PROVE AbsenceInv'
  OBVIOUS
<1>0. /\ sources \in Seq({"coursework", "announcement"}) /\ read \in Seq({"coursework", "announcement"})
      /\ pc \in {"item"} \cup Applying => sources # <<>>
  BY DEF TypeInv, SourceTypes
<1>1. CASE UNCHANGED <<pc, sources, read, batch, seen, absent, doomed>>
  BY <1>1 DEF AbsenceInv, SourceOf
<1>2. CASE EndSync
  BY <1>2 DEF EndSync, AbsenceInv, Applying
<1>3. CASE StartSync \/ ListCourses
  BY <1>3 DEF StartSync, ListCourses, AbsenceInv, Applying, SourceOf
<1>4. CASE Fetch
  <2>1. ASSUME NEW i \in Items, SourceOf(i) = Head(sources) PROVE i \in absent' \/ \E e \in batch' : e.id = i
    <3> DEFINE e == [id |-> i, due |-> due[i], version |-> version[i], posted_at |-> posted_at[i]]
    <3>1. i \in live => e \in batch' /\ e.id = i
      BY <1>4, <2>1 DEF Fetch, Fetched
    <3>2. i \notin live => i \in absent'
      BY <1>4, <2>1 DEF Fetch
    <3>3. QED
      BY <3>1, <3>2
  <2>2. \A n \in 1 .. Len(read) : \A i \in Items : SourceOf(i) = read[n] /\ i \notin seen => i \in absent'
    BY <1>4 DEF Fetch, AbsenceInv
  <2>3. QED
    BY <1>4, <2>1, <2>2 DEF Fetch, AbsenceInv, SourceOf
<1>5. CASE SourceFails
  BY <1>5 DEF SourceFails, SkipSource, AbsenceInv, Applying, SourceOf
<1>6. CASE SourceDone
  <2>1. sources # <<>> /\ read' = Append(read, Head(sources)) /\ UNCHANGED <<seen, absent>> /\ pc' = "fetch"
    BY <1>0, <1>6 DEF SourceDone
  <2>2. \A i \in Items : SourceOf(i) = Head(sources) /\ i \notin seen => i \in absent
    BY <1>6 DEF SourceDone, AbsenceInv
  <2>3. Len(read') = Len(read) + 1 /\ read'[Len(read) + 1] = Head(sources)
        /\ \A n \in 1 .. Len(read) : read'[n] = read[n]
    BY <1>0, <2>1
  <2>4. \A n \in 1 .. Len(read') : \A i \in Items : SourceOf(i) = read'[n] /\ i \notin seen => i \in absent
    BY <1>0, <2>2, <2>3 DEF AbsenceInv
  <2>5. QED
    BY <2>1, <2>4 DEF AbsenceInv, Applying, SourceOf
<1>7. ASSUME NEW e \in batch, Upsert(e) PROVE AbsenceInv'
  BY <1>7 DEF Upsert, AbsenceInv, Applying, SourceOf
<1>8. CASE SelectMissing
  <2>1. CASE read = <<>>
    BY <1>8, <2>1 DEF SelectMissing, AbsenceInv, Applying, SourceOf
  <2>2. CASE read # <<>>
    <3>1. Missing(Head(read)) \subseteq absent
      BY <1>0, <2>2 DEF AbsenceInv, Missing
    <3>2. Len(Tail(read)) = Len(read) - 1 /\ \A n \in 1 .. Len(Tail(read)) : Tail(read)[n] = read[n + 1]
      BY <1>0, <2>2
    <3>3. \A n \in 1 .. Len(Tail(read)) : \A i \in Items : SourceOf(i) = Tail(read)[n] /\ i \notin seen => i \in absent
      BY <1>0, <3>2 DEF AbsenceInv
    <3>4. QED
      BY <1>8, <2>2, <3>1, <3>3 DEF SelectMissing, AbsenceInv, Applying, SourceOf
  <2>3. QED
    BY <2>1, <2>2
<1>9. ASSUME NEW i \in Items, Withdraw(i) PROVE AbsenceInv'
  BY <1>9 DEF Withdraw, AbsenceInv, Applying, SourceOf
<1>10. CASE WithdrawReminders
  BY <1>10 DEF WithdrawReminders, AbsenceInv, Applying, SourceOf
<1>11. CASE \/ Judge \/ JudgeFails \/ FeedAlert \/ Recount \/ AnnounceChange
            \/ \E p \in plan : InsertPlanned(p)
  <2>1. pc \in Applying /\ pc' \in {"item"} \cup Applying /\ UNCHANGED <<sources, read, batch, seen, absent, doomed>>
    BY <1>11 DEF Judge, JudgeFails, AfterJudging, FeedAlert, Recount, AnnounceChange, InsertPlanned, loopVars, Applying
  <2>2. QED
    BY <2>1 DEF AbsenceInv, Applying, SourceOf
<1>12. CASE \/ Backlog \/ MissedReminders \/ SelectStray \/ HealStray
            \/ \E i \in Items : MarkMissed(i)
  <2>1. pc' \in {"overdue", "missed", "stray", "heal", "record"} /\ UNCHANGED <<sources, read, batch, seen, absent>>
    BY <1>12 DEF Backlog, MissedReminders, SelectStray, HealStray, MarkMissed, loopVars
  <2>2. QED
    BY <2>1 DEF AbsenceInv, Applying, SourceOf
<1>13. CASE \/ TeacherStep \/ Advance \/ Dispatch \/ CheckSync \/ UNCHANGED vars
            \/ \E i \in Items : Complete(i) \/ CompleteCancel(i) \/ CompleteCrash(i)
            \/ \E p \in Profiles : SaveProfile(p)
  BY <1>1, <1>13 DEF CheckSync, TeacherStep, Post, Edit, Toggle, SetCourse, Teach, Advance, Dispatch, vars, Complete,
       CompleteCancel, CompleteCrash, SaveProfile, loopVars
<1>14. CASE SyncStep
  BY <1>2, <1>3, <1>4, <1>6, <1>7, <1>8, <1>9, <1>10, <1>11, <1>12, <1>14 DEF SyncStep, RecordResult
<1>15. CASE FaultStep
  BY <1>2, <1>5, <1>11, <1>13, <1>15 DEF FaultStep, ListCoursesFails, Crash
<1>16. QED
  BY <1>13, <1>14, <1>15 DEF Next

\* Only what Classroom no longer returns is withdrawn, whichever source failed
\* and wherever a sync broke off.
THEOREM CancelledWasGoneHolds == Spec => CancelledWasGone
<1>1. Init => AbsenceInv
  BY DEF Init, AbsenceInv, Applying
<1>2. ASSUME TypeInv, AbsenceInv, [Next]_vars, NEW i \in Items
      PROVE  status[i] # "CANCELLED" /\ status'[i] = "CANCELLED" => i \in absent \/ i \notin live
  BY <1>2, StatusMoves DEF AbsenceInv
<1>3. TypeInv /\ AbsenceInv /\ [Next]_vars =>
        [\A i \in Items : status[i] # "CANCELLED" /\ status'[i] = "CANCELLED"
                           => i \in absent \/ i \notin live]_vars
  BY <1>2
<1>4. QED
  BY <1>1, <1>3, AbsenceStep, TypeHolds, PTL DEF Spec, CancelledWasGone

-----------------------------------------------------------------------------
(* What happens to a row. *)

\* No row is ever deleted and no breaking fault forgotten; a row becomes pending only when
\* one of three steps inserts it.
LEMMA RowMoves ==
    ASSUME TypeInv, [Next]_vars
    PROVE  /\ DOMAIN row \subseteq DOMAIN row' /\ (Unbroken' => Unbroken)
           /\ \A k \in DOMAIN row' : IsPending(k)' =>
                \/ IsPending(k)
                \/ FeedAlert /\ k = Key(item.id, "NEW_POST", NoDate)
                \/ AnnounceChange /\ k = Key(item.id, "DEADLINE_CHANGED", item.due)
                \/ \E p \in plan : InsertPlanned(p) /\ k = p.key
                \/ CheckSync
<1> DEFINE Fewer == DOMAIN row' = DOMAIN row /\ \A k \in DOMAIN row' : IsPending(k)' => IsPending(k)
           More(j) == \E t : InsertIfAbsent(j, t)
<1>1. ASSUME NEW K, NEW s \in {"SENT", "CANCELLED"}, Settle(K, s) PROVE Fewer
  BY <1>1, SettleRows DEF TypeInv, IsPending
<1>2. ASSUME NEW j, More(j)
      PROVE  DOMAIN row \subseteq DOMAIN row' /\ \A k \in DOMAIN row' : IsPending(k)' => IsPending(k) \/ k = j
  BY <1>2 DEF InsertIfAbsent, IsPending
<1>3. row' = row => Fewer
  BY DEF IsPending
<1>4. \/ row' = row \/ CheckSync
      \/ Recount \/ WithdrawReminders \/ Backlog \/ MissedReminders \/ HealStray \/ Dispatch
      \/ \E i \in Items : CompleteCancel(i)
      \/ FeedAlert \/ AnnounceChange \/ \E p \in plan : InsertPlanned(p)
  <2>1. CASE SyncStep
    BY <2>1 DEF SyncStep, StartSync, ListCourses, Fetch, SourceDone, Upsert, Judge, SelectMissing, Withdraw,
         MarkMissed, SelectStray, RecordResult, dbVars
  <2>2. CASE FaultStep
    BY <2>2 DEF FaultStep, ListCoursesFails, SourceFails, JudgeFails, Crash, CompleteCrash, dbVars
  <2>3. CASE TeacherStep
    BY <2>3 DEF TeacherStep, Post, Edit, Toggle, SetCourse, Teach, dbVars
  <2>4. QED
    BY <2>1, <2>2, <2>3 DEF Next, Advance, Complete, SaveProfile, vars, dbVars
<1>5. ASSUME Recount \/ WithdrawReminders \/ Backlog \/ MissedReminders \/ \E i \in Items : CompleteCancel(i)
      PROVE  Fewer
  <2>1. \E K : Cancel(K)
    BY <1>5 DEF Recount, CancelCountdown, WithdrawReminders, Backlog, MissedReminders, CompleteCancel, CancelPending
  <2>2. QED
    BY <1>1, <2>1, CancelSettles
<1>6. ASSUME HealStray \/ Dispatch PROVE Fewer
  <2>1. Settle(strays, "CANCELLED") \/ Settle(DueNow, "SENT")
    BY <1>6 DEF HealStray, Dispatch, Settle
  <2>2. QED
    BY <1>1, <2>1
<1>7. ASSUME FeedAlert PROVE row' = row \/ More(Key(item.id, "NEW_POST", NoDate))
  BY <1>7 DEF FeedAlert
<1>8. ASSUME AnnounceChange PROVE More(Key(item.id, "DEADLINE_CHANGED", item.due))
  BY <1>8 DEF AnnounceChange
<1>9. ASSUME NEW p \in plan, InsertPlanned(p) PROVE More(p.key)
  BY <1>9 DEF InsertPlanned
<1>10. Unbroken' => Unbroken
  <2>1. CASE \E kind : Fault(kind)
    BY <2>1, FaultBreaks
  <2>2. CASE faults' = faults
    BY <2>2 DEF Unbroken
  <2>3. CASE SyncStep
    BY <2>1, <2>2, <2>3 DEF SyncStep, StartSync, ListCourses, Fetch, SourceDone, Upsert, Judge, FeedAlert, Recount,
         AnnounceChange, InsertPlanned, SelectMissing, Withdraw, MarkMissed, WithdrawReminders, Backlog,
         MissedReminders, SelectStray, HealStray, RecordResult
  <2>4. CASE FaultStep
    BY <2>1, <2>4 DEF FaultStep, ListCoursesFails, SourceFails, JudgeFails, Crash, CompleteCrash, CheckSync
  <2>5. CASE TeacherStep
    BY <2>2, <2>5 DEF TeacherStep, Post, Edit, Toggle, SetCourse, Teach
  <2>6. QED
    BY <2>2, <2>3, <2>4, <2>5 DEF Next, Advance, Dispatch, Complete, CompleteCancel, SaveProfile, vars
<1> HIDE DEF More, Fewer
<1>11. CASE Fewer
  BY <1>10, <1>11 DEF Fewer
<1>12. CASE FeedAlert \/ AnnounceChange \/ \E p \in plan : InsertPlanned(p)
  BY <1>2, <1>3, <1>7, <1>8, <1>9, <1>10, <1>11, <1>12
<1>13. CASE CheckSync
  BY <1>10, <1>13 DEF CheckSync
<1>14. QED
  BY <1>3, <1>4, <1>5, <1>6, <1>11, <1>12, <1>13

-----------------------------------------------------------------------------
(* Every new task is announced, once. *)

Awaited(i) == status[i] = "OPEN" /\ actual_deadline[i] # NoDate /\ now < actual_deadline[i]

\* The sync in progress is about to announce the task.
Upcoming(i) ==
    /\ item.id = i /\ item.due = actual_deadline[i]
    /\ \/ pc = "judge" /\ mode \in {"created", "changed"}
       \/ pc \in {"countdown", "changed"}
       \/ pc = "plan" /\ \E p \in plan : p.key = Key(i, "NEW_ASSIGNMENT", NoDate)

AnnouncedInv ==
    Unbroken => \A i \in Coursework : Awaited(i) => Announcing(i) # {} \/ Upcoming(i)

\* A plan for a deadline ahead announces the task.
LEMMA PlanningAnnounces ==
    ASSUME NEW i \in Items, NEW d \in DueDates, NEW t \in Int, d # NoDate, t < d
    PROVE  \E p \in Planning(i, d, t) : p.key = Key(i, "NEW_ASSIGNMENT", NoDate)
<1> DEFINE q == Planned("NEW_ASSIGNMENT", t)
           p == [key |-> IdempotencyKey(i, q.reminder_type, d), at |-> q.scheduled_for]
<1>1. d \in Int
  BY SyncAssumption DEF DueDates
<1>2. q \in ComputeReminderPlan(d, t) /\ q.reminder_type = "NEW_ASSIGNMENT"
  BY <1>1, PlanAnnounces DEF Planned
<1>3. p \in Planning(i, d, t)
  BY <1>2 DEF Planning
<1>4. p.key = Key(i, "NEW_ASSIGNMENT", NoDate)
  BY <1>2 DEF IdempotencyKey, TaskAnchored
<1>5. QED
  BY <1>3, <1>4

LEMMA AnnouncedStep == TypeInv /\ AnnouncedInv /\ [Next]_vars => AnnouncedInv'
<1> SUFFICES ASSUME TypeInv, AnnouncedInv, [Next]_vars, Unbroken', NEW i \in Coursework, Awaited(i)'
             PROVE  Announcing(i)' # {} \/ Upcoming(i)'
  BY DEF AnnouncedInv
<1>0. /\ i \in Items /\ i \notin Announcements
      /\ now \in Int /\ actual_deadline[i] \in DueDates
      /\ status \in [Items -> {"ABSENT", "OPEN"} \cup Terminal] /\ actual_deadline \in [Items -> DueDates]
      /\ batch \subseteq Entries
  BY SyncAssumption DEF Items, TypeInv, ColumnTypes, PassTypes
<1>1. Unbroken /\ DOMAIN row \subseteq DOMAIN row'
  BY RowMoves
<1>2. Announcing(i) # {} => Announcing(i)' # {}
  BY <1>1 DEF Announcing
<1>3. Awaited(i) => Announcing(i) # {} \/ Upcoming(i)
  BY <1>1 DEF AnnouncedInv
<1>4. CASE UNCHANGED <<now, status, actual_deadline, item, pc, mode, plan>>
  BY <1>2, <1>3, <1>4 DEF Awaited, Upcoming, Key
<1>5. ASSUME NEW e \in batch, Upsert(e) PROVE Announcing(i)' # {} \/ Upcoming(i)'
  <2>1. ~Upcoming(i) /\ e.id \in Items /\ now' = now
    BY <1>0, <1>5 DEF Upsert, Upcoming, Entries
  <2>2. CASE UNCHANGED <<status, actual_deadline>> \/ e.id # i \/ mode' = "same"
    BY <1>0, <1>2, <1>3, <1>5, <2>1, <2>2 DEF Upsert, Awaited, taskVars
  <2>3. CASE e.id = i /\ mode' # "same"
    BY <1>0, <1>5, <2>1, <2>3 DEF Upsert, Upcoming
  <2>4. QED
    BY <2>2, <2>3
<1>6. CASE Judge \/ JudgeFails
  <2>1. pc = "judge" /\ AfterJudging /\ UNCHANGED <<now, status, actual_deadline, item, mode>>
    BY <1>6 DEF Judge, JudgeFails, dbVars, taskVars
  <2>2. Awaited(i)
    BY <2>1 DEF Awaited
  <2>3. ASSUME Upcoming(i) PROVE Upcoming(i)'
    <3>1. item.id = i /\ item.due = actual_deadline[i] /\ mode \in {"created", "changed"}
      BY <2>1, <2>3 DEF Upcoming
    <3>2. \E p \in Planning(i, item.due, now) : p.key = Key(i, "NEW_ASSIGNMENT", NoDate)
      BY <1>0, <2>2, <3>1, PlanningAnnounces DEF Awaited
    <3>3. CASE mode = "created"
      <4>1. pc' = "plan" /\ plan' = Planning(i, item.due, now)
        BY <1>0, <2>1, <3>1, <3>2, <3>3 DEF AfterJudging
      <4>2. QED
        BY <2>1, <3>1, <3>2, <4>1 DEF Upcoming, Key
    <3>4. CASE mode = "changed"
      BY <1>0, <2>1, <3>1, <3>4 DEF AfterJudging, Upcoming
    <3>5. QED
      BY <3>1, <3>3, <3>4
  <2>4. QED
    BY <1>2, <1>3, <2>2, <2>3
<1>7. CASE Recount
  BY <1>2, <1>3, <1>7 DEF Recount, Awaited, Upcoming, loopVars, taskVars
<1>8. CASE AnnounceChange
  <2>1. pc = "changed" /\ plan' = Planning(item.id, item.due, now)
        /\ UNCHANGED <<now, status, actual_deadline, item>> /\ (plan' # {} => pc' = "plan")
    BY <1>8 DEF AnnounceChange, Replanned, taskVars
  <2>2. ASSUME Upcoming(i) PROVE Upcoming(i)'
    <3>1. item.id = i /\ item.due = actual_deadline[i] /\ Awaited(i)
      BY <2>1, <2>2 DEF Upcoming, Awaited
    <3>2. \E p \in Planning(i, item.due, now) : p.key = Key(i, "NEW_ASSIGNMENT", NoDate)
      BY <1>0, <3>1, PlanningAnnounces DEF Awaited
    <3>3. QED
      BY <2>1, <3>1, <3>2 DEF Upcoming, Key
  <2>3. QED
    BY <1>2, <1>3, <2>1, <2>2 DEF Awaited
<1>9. ASSUME NEW p \in plan, InsertPlanned(p) PROVE Announcing(i)' # {} \/ Upcoming(i)'
  <2>1. pc = "plan" /\ plan' = plan \ {p} /\ (plan' # {} => pc' = "plan")
        /\ UNCHANGED <<now, status, actual_deadline, item>> /\ p.key \in DOMAIN row'
    BY <1>9 DEF InsertPlanned, InsertIfAbsent, taskVars
  <2>2. CASE p.key = Key(i, "NEW_ASSIGNMENT", NoDate)
    BY <2>1, <2>2 DEF Announcing, Key
  <2>3. CASE p.key # Key(i, "NEW_ASSIGNMENT", NoDate)
    BY <1>2, <1>3, <2>1, <2>3 DEF Awaited, Upcoming, Key
  <2>4. QED
    BY <2>2, <2>3
<1>10. CASE \/ StartSync \/ ListCourses \/ Fetch \/ SourceDone \/ FeedAlert \/ SelectMissing \/ WithdrawReminders
            \/ Backlog \/ MissedReminders \/ SelectStray \/ HealStray \/ RecordResult \/ ListCoursesFails
            \/ Advance \/ (SourceFails /\ pc = "fetch")
  <2>1. ~Upcoming(i)
    BY <1>10 DEF StartSync, ListCourses, Fetch, SourceDone, FeedAlert, SelectMissing, WithdrawReminders, Backlog,
         MissedReminders, SelectStray, HealStray, RecordResult, ListCoursesFails, Advance, Upcoming
  <2>2. UNCHANGED <<status, actual_deadline>>
    BY <1>10 DEF StartSync, ListCourses, Fetch, SourceDone, FeedAlert, SelectMissing, WithdrawReminders, Backlog,
         MissedReminders, SelectStray, HealStray, RecordResult, ListCoursesFails, Advance, SourceFails, dbVars, taskVars
  <2>3. now <= now'
    BY <1>0, <1>10, SyncAssumption DEF StartSync, ListCourses, Fetch, SourceDone, FeedAlert, SelectMissing,
         WithdrawReminders, Backlog, MissedReminders, SelectStray, HealStray, RecordResult, ListCoursesFails, Advance,
         SourceFails
  <2>4. now' \in Int /\ (actual_deadline[i] # NoDate => actual_deadline[i] \in Int)
    <3>1. ColumnTypes'
      BY TypeStep DEF TypeInv
    <3>2. now' \in 0 .. Horizon
      BY <3>1 DEF ColumnTypes
    <3>3. now' \in Int
      BY <3>2, SyncAssumption
    <3>4. actual_deadline[i] # NoDate => actual_deadline[i] \in Int
      <4>1. actual_deadline[i] # NoDate => actual_deadline[i] \in Deadlines
        BY <1>0 DEF DueDates
      <4>2. Deadlines \subseteq Int
        BY SyncAssumption
      <4>3. QED
        BY <4>1, <4>2
    <3>5. QED
      BY <3>3, <3>4
  <2>5. Awaited(i)
    BY <1>0, <2>2, <2>3, <2>4 DEF Awaited
  <2>6. QED
    BY <1>2, <1>3, <2>1, <2>5
<1>11. CASE \E j \in Items : Withdraw(j) \/ MarkMissed(j)
  <2>1. ~Upcoming(i) /\ UNCHANGED <<now, actual_deadline>> /\ status[i] = "OPEN"
    BY <1>0, <1>11 DEF Withdraw, MarkMissed, Upcoming, Awaited
  <2>2. QED
    BY <1>2, <1>3, <2>1 DEF Awaited
<1>12. CASE \E j \in Items : Complete(j)
  <2>1. UNCHANGED <<now, actual_deadline, item, pc, mode, plan>> /\ status[i] = "OPEN"
    BY <1>0, <1>12 DEF Complete, Awaited, loopVars
  <2>2. QED
    BY <1>2, <1>3, <2>1 DEF Awaited, Upcoming, Key
<1>13. CASE Crash \/ CheckSync \/ (SourceFails /\ pc # "fetch")
  BY <1>13, CheckBreaks, BreakOff
<1>14. CASE \/ TeacherStep \/ Dispatch \/ UNCHANGED vars
            \/ \E j \in Items : CompleteCancel(j) \/ CompleteCrash(j)
            \/ \E p \in Profiles : SaveProfile(p)
  BY <1>4, <1>14 DEF TeacherStep, Post, Edit, Toggle, SetCourse, Teach, Dispatch, vars, CompleteCancel,
       CompleteCrash, SaveProfile, dbVars, taskVars, loopVars
<1>15. CASE SyncStep
  BY <1>5, <1>6, <1>7, <1>8, <1>9, <1>10, <1>11, <1>15 DEF SyncStep
<1>16. CASE FaultStep
  BY <1>6, <1>10, <1>13, <1>14, <1>16 DEF FaultStep
<1>17. QED
  BY <1>10, <1>12, <1>14, <1>15, <1>16 DEF Next

\* Every newly discovered task with a deadline ahead is announced exactly once,
\* however often Classroom moves the deadline.
THEOREM AnnouncedOnceHolds == Spec => []AnnouncedOnce
<1>1. Init => AnnouncedInv
  BY DEF Init, AnnouncedInv, Awaited, Items
<1>2. TypeInv /\ AnnouncedInv => AnnouncedOnce
  <2> SUFFICES ASSUME TypeInv, AnnouncedInv, NEW i \in Coursework
               PROVE  /\ Cardinality(Announcing(i)) <= 1
                      /\ Unbroken /\ pc = "idle" /\ Awaited(i) => Announcing(i) # {}
    BY DEF AnnouncedOnce, Awaited
  <2>1. Announcing(i) \subseteq {Key(i, "NEW_ASSIGNMENT", NoDate)}
    BY DEF Announcing, TypeInv, RowTypes, Keys, Key, TaskAnchoredTypes
  <2>2. Cardinality(Announcing(i)) <= 1
    <3>1. Announcing(i) = {} \/ Announcing(i) = {Key(i, "NEW_ASSIGNMENT", NoDate)}
      BY <2>1
    <3>2. Cardinality(Announcing(i)) \in {0, 1}
      <4>1. CASE Announcing(i) = {}
        BY <4>1, FS_EmptySet
      <4>2. CASE Announcing(i) = {Key(i, "NEW_ASSIGNMENT", NoDate)}
        BY <4>2, FS_Singleton
      <4>3. QED
        BY <3>1, <4>1, <4>2
    <3>3. QED
      BY <3>2
  <2>3. QED
    BY <2>2 DEF AnnouncedInv, Upcoming
<1>3. QED
  BY <1>1, <1>2, AnnouncedStep, TypeHolds, PTL DEF Spec

-----------------------------------------------------------------------------
(* Nothing waits about a deadline that has moved, or a task that is over. *)

Over(i) == status[i] \in {"MISSED", "CANCELLED"}

\* The countdown to the old deadline is about to be withdrawn.
Recounting(i) == item.id = i /\ mode = "changed" /\ pc \in {"judge", "countdown"}

\* The reminders of the item being applied are for the deadline that is stored.
ItemCurrent ==
    /\ pc \in {"countdown", "changed", "plan"} \/ (pc = "judge" /\ mode # "same")
         => item.due = actual_deadline[item.id]
    /\ pc = "plan" => \A p \in plan : p.key.task = item.id /\ p.key.deadline \in {NoDate, item.due}

RowsCurrent == \A k \in DOMAIN row : IsPending(k) =>
                   k.deadline \in {NoDate, actual_deadline[k.task]} \/ Recounting(k.task)

RowsHealed ==
    /\ pc \in {"idle", "courses", "record"} => \A k \in DOMAIN row : IsPending(k) => ~Over(k.task)
    /\ pc = "heal" => \A k \in DOMAIN row : IsPending(k) /\ Over(k.task) => k \in strays

NewUndated == \A i \in Items : ~Known(i) => actual_deadline[i] = NoDate

StaleInv == Unbroken => ItemCurrent /\ RowsCurrent /\ RowsHealed /\ NewUndated

\* The stored deadline and the item being applied move together.
LEMMA ItemStep ==
    ASSUME TypeInv, [Next]_vars, Unbroken', ItemCurrent, NewUndated
    PROVE  ItemCurrent' /\ NewUndated'
<1>0. /\ status \in [Items -> {"ABSENT", "OPEN"} \cup Terminal] /\ actual_deadline \in [Items -> DueDates]
      /\ batch \subseteq Entries
      /\ item \in [id : Items \cup {NoDate}, due : DueDates, version : 0 .. MaxEdits, posted_at : Int]
      /\ pc \in Applying => item.id \in Items
  BY DEF TypeInv, ColumnTypes, PassTypes
<1>1. ASSUME NEW e \in batch, Upsert(e) PROVE ItemCurrent' /\ NewUndated'
  <2>1. e.id \in Items
    BY <1>0 DEF Entries
  <2>2. ItemCurrent'
    BY <1>0, <1>1, <2>1 DEF Upsert, ItemCurrent
  <2>3. NewUndated'
    BY <1>0, <1>1, <2>1 DEF Upsert, NewUndated, Known, taskVars
  <2>4. QED
    BY <2>2, <2>3
<1>2. ASSUME UNCHANGED <<status, actual_deadline>> PROVE NewUndated'
  BY <1>2 DEF NewUndated, Known
<1>3. CASE Judge \/ JudgeFails
  <2>1. pc = "judge" /\ AfterJudging /\ UNCHANGED <<status, actual_deadline, item, mode>>
    BY <1>3 DEF Judge, JudgeFails, dbVars, taskVars
  <2>2. item.id \in Items /\ item.due \in DueDates /\ now \in Int
    BY <1>0, <2>1 DEF Applying, TypeInv, ColumnTypes
  <2>3. pc' \in {"feed", "item"} \/ (mode # "same" /\ pc' \in {"countdown", "plan"})
    BY <2>1 DEF AfterJudging
  <2>4. \A p \in plan' : p.key.task = item.id /\ p.key.deadline \in {NoDate, item.due}
    BY <2>1, <2>2, PlanningRows DEF AfterJudging
  <2>5. QED
    BY <1>2, <2>1, <2>3, <2>4 DEF ItemCurrent
<1>4. CASE Recount
  BY <1>2, <1>4 DEF Recount, ItemCurrent, loopVars, taskVars
<1>5. CASE AnnounceChange
  <2>1. pc = "changed" /\ plan' = Planning(item.id, item.due, now) /\ pc' \in {"item", "plan"}
        /\ UNCHANGED <<status, actual_deadline, item>>
    BY <1>5 DEF AnnounceChange, Replanned, taskVars
  <2>2. item.id \in Items /\ item.due \in DueDates /\ now \in Int
    BY <1>0, <2>1 DEF Applying, TypeInv, ColumnTypes
  <2>3. \A p \in plan' : p.key.task = item.id /\ p.key.deadline \in {NoDate, item.due}
    BY <2>1, <2>2, PlanningRows
  <2>4. QED
    BY <1>2, <2>1, <2>3 DEF ItemCurrent
<1>6. ASSUME NEW p \in plan, InsertPlanned(p) PROVE ItemCurrent' /\ NewUndated'
  BY <1>2, <1>6 DEF InsertPlanned, ItemCurrent, taskVars
<1>7. ASSUME NEW j \in Items, Withdraw(j) \/ MarkMissed(j) PROVE ItemCurrent' /\ NewUndated'
  <2>1. pc' \in {"withdrawn", "missed"} /\ UNCHANGED actual_deadline
    BY <1>7 DEF Withdraw, MarkMissed
  <2>2. \A i \in Items : ~Known(i)' => ~Known(i)
    BY <1>0, StatusMoves, CheckBreaks DEF Known
  <2>3. QED
    BY <2>1, <2>2 DEF ItemCurrent, NewUndated
<1>8. ASSUME NEW j \in Items, Complete(j) PROVE ItemCurrent' /\ NewUndated'
  <2>1. UNCHANGED <<actual_deadline, item, pc, mode, plan>>
    BY <1>8 DEF Complete, loopVars
  <2>2. \A i \in Items : ~Known(i)' => ~Known(i)
    BY <1>0, StatusMoves, CheckBreaks DEF Known
  <2>3. QED
    BY <2>1, <2>2 DEF ItemCurrent, NewUndated
<1>9. CASE \/ StartSync \/ ListCourses \/ Fetch \/ SourceDone \/ FeedAlert \/ SelectMissing \/ WithdrawReminders
           \/ Backlog \/ MissedReminders \/ SelectStray \/ HealStray \/ RecordResult \/ ListCoursesFails
           \/ SourceFails \/ Crash
  <2>1. pc' \in {"courses", "fetch", "backlog", "item", "withdraw", "overdue", "stray", "heal", "record", "idle"}
    BY <1>9 DEF StartSync, ListCourses, Fetch, SourceDone, FeedAlert, SelectMissing, WithdrawReminders, Backlog,
         MissedReminders, SelectStray, HealStray, RecordResult, ListCoursesFails, SourceFails, Crash, EndSync
  <2>2. UNCHANGED <<status, actual_deadline>>
    BY <1>9 DEF StartSync, ListCourses, Fetch, SourceDone, FeedAlert, SelectMissing, WithdrawReminders, Backlog,
         MissedReminders, SelectStray, HealStray, RecordResult, ListCoursesFails, SourceFails, Crash, dbVars, taskVars
  <2>3. QED
    BY <1>2, <2>1, <2>2 DEF ItemCurrent
<1>10. CASE \/ TeacherStep \/ Dispatch \/ Advance \/ UNCHANGED vars
            \/ \E j \in Items : CompleteCancel(j) \/ CompleteCrash(j)
            \/ \E p \in Profiles : SaveProfile(p)
  <2>1. UNCHANGED <<status, actual_deadline, item, pc, mode, plan>>
    BY <1>10 DEF TeacherStep, Post, Edit, Toggle, SetCourse, Teach, Dispatch, Advance, vars, CompleteCancel,
         CompleteCrash, SaveProfile, dbVars, taskVars, loopVars
  <2>2. QED
    BY <1>2, <2>1 DEF ItemCurrent
<1>11. CASE SyncStep
  BY <1>1, <1>3, <1>4, <1>5, <1>6, <1>7, <1>9, <1>11 DEF SyncStep
<1>12. CASE FaultStep
  BY <1>3, <1>9, <1>10, <1>12, CheckBreaks DEF FaultStep
<1>13. QED
  BY <1>8, <1>10, <1>11, <1>12 DEF Next

\* A row that waits is for the deadline that is stored, unless the step that
\* withdraws it is next.
LEMMA CurrentStep ==
    ASSUME TypeInv, [Next]_vars, Unbroken', ItemCurrent, NewUndated, RowsCurrent
    PROVE  RowsCurrent'
<1> SUFFICES ASSUME NEW k \in DOMAIN row', IsPending(k)'
             PROVE  k.deadline \in {NoDate, actual_deadline'[k.task]} \/ Recounting(k.task)'
  BY DEF RowsCurrent, Recounting
<1>0. /\ status \in [Items -> {"ABSENT", "OPEN"} \cup Terminal] /\ actual_deadline \in [Items -> DueDates]
      /\ batch \subseteq Entries /\ RowTypes
      /\ item \in [id : Items \cup {NoDate}, due : DueDates, version : 0 .. MaxEdits, posted_at : Int]
  BY DEF TypeInv, ColumnTypes, PassTypes
<1>1. k \in Keys
  <2>1. RowTypes'
    BY TypeStep DEF TypeInv
  <2>2. QED
    BY <2>1 DEF RowTypes
<1>2. IsPending(k) => k.deadline \in {NoDate, actual_deadline[k.task]} \/ Recounting(k.task)
  BY DEF RowsCurrent, IsPending
<1>3. ASSUME NEW e \in batch, Upsert(e)
      PROVE  k.deadline \in {NoDate, actual_deadline'[k.task]} \/ Recounting(k.task)'
  <2>1. IsPending(k) /\ pc = "item"
    BY <1>3 DEF Upsert, IsPending
  <2>2. k.deadline \in {NoDate, actual_deadline[k.task]}
    BY <1>2, <2>1 DEF Recounting
  <2>3. k.task \in Items /\ e.id \in Items
    BY <1>0, <1>1, KeyParts DEF Entries
  <2>4. CASE k.task # e.id \/ UNCHANGED actual_deadline
    BY <1>0, <1>3, <2>2, <2>3, <2>4 DEF Upsert, taskVars
  <2>5. CASE k.task = e.id /\ ~Known(e.id)
    BY <2>2, <2>3, <2>5 DEF NewUndated
  <2>6. CASE k.task = e.id /\ Known(e.id) /\ ~SameAsStored(e)
    <3>1. CASE actual_deadline[e.id] # e.due
      BY <1>3, <2>6, <3>1 DEF Upsert, Recounting
    <3>2. CASE actual_deadline[e.id] = e.due
      BY <1>0, <1>3, <2>2, <2>3, <2>6, <3>2 DEF Upsert, taskVars
    <3>3. QED
      BY <3>1, <3>2
  <2>7. QED
    BY <1>3, <2>4, <2>5, <2>6 DEF Upsert, taskVars
<1>4. CASE UNCHANGED actual_deadline
  <2>1. CASE IsPending(k) /\ ~Recounting(k.task)
    BY <1>2, <1>4, <2>1
  <2>2. CASE IsPending(k) /\ Recounting(k.task)
    <3>1. CASE Judge \/ JudgeFails
      BY <2>2, <3>1 DEF Judge, JudgeFails, AfterJudging, Recounting
    <3>2. CASE Recount
      <4>1. item.id = k.task /\ Settle({ j \in DOMAIN row : j.task = item.id /\ j.type # "NEW_ASSIGNMENT" /\ IsPending(j) },
                                       "CANCELLED")
        BY <2>2, <3>2 DEF Recount, CancelCountdown, CancelPending, Cancel, Settle, Recounting
      <4>2. k \in DOMAIN row /\ row'[k].status = "PENDING"
        BY <2>2 DEF IsPending
      <4>3. k.type = "NEW_ASSIGNMENT"
        BY <1>0, <2>2, <4>1, <4>2, SettleRows
      <4>4. k.deadline = NoDate
        BY <1>1, <4>3 DEF Keys, Key, TaskAnchoredTypes
      <4>5. QED
        BY <4>4
    <3>3. CASE UNCHANGED <<item, mode, pc>>
      BY <2>2, <3>3 DEF Recounting
    <3>4. pc \in {"judge", "countdown"}
      BY <2>2 DEF Recounting
    <3>5. CASE SyncStep
      BY <3>1, <3>2, <3>4, <3>5 DEF SyncStep, StartSync, ListCourses, Fetch, SourceDone, Upsert, FeedAlert,
           AnnounceChange, InsertPlanned, SelectMissing, Withdraw, MarkMissed, WithdrawReminders, Backlog,
           MissedReminders, SelectStray, HealStray, RecordResult
    <3>6. CASE FaultStep
      BY <3>1, <3>3, <3>4, <3>6, CheckBreaks, BreakOff DEF FaultStep, ListCoursesFails, SourceFails, Crash,
           CompleteCrash, loopVars
    <3>7. QED
      BY <3>3, <3>5, <3>6 DEF Next, TeacherStep, Post, Edit, Toggle, SetCourse, Teach, Dispatch, Advance, vars,
           Complete, CompleteCancel, SaveProfile, loopVars
  <2>3. CASE ~IsPending(k)
    <3>1. CASE FeedAlert /\ k = Key(item.id, "NEW_POST", NoDate)
      BY <3>1 DEF Key
    <3>2. CASE AnnounceChange /\ k = Key(item.id, "DEADLINE_CHANGED", item.due)
      BY <1>4, <3>2 DEF AnnounceChange, ItemCurrent, Key
    <3>3. ASSUME NEW p \in plan, InsertPlanned(p), k = p.key
          PROVE  k.deadline \in {NoDate, actual_deadline'[k.task]}
      BY <1>4, <3>3 DEF InsertPlanned, ItemCurrent
    <3>4. QED
      BY <2>3, <3>1, <3>2, <3>3, RowMoves, CheckBreaks
  <2>4. QED
    BY <2>1, <2>2, <2>3
<1>5. UNCHANGED actual_deadline \/ \E e \in batch : Upsert(e)
  <2>1. CASE SyncStep
    BY <2>1 DEF SyncStep, StartSync, ListCourses, Fetch, SourceDone, Judge, FeedAlert, Recount, AnnounceChange,
         InsertPlanned, SelectMissing, Withdraw, MarkMissed, WithdrawReminders, Backlog, MissedReminders, SelectStray,
         HealStray, RecordResult, taskVars, dbVars
  <2>2. CASE FaultStep
    BY <2>2, CheckBreaks DEF FaultStep, ListCoursesFails, SourceFails, JudgeFails, Crash, CompleteCrash, taskVars, dbVars
  <2>3. CASE TeacherStep
    BY <2>3 DEF TeacherStep, Post, Edit, Toggle, SetCourse, Teach, taskVars, dbVars
  <2>4. QED
    BY <2>1, <2>2, <2>3 DEF Next, Advance, Dispatch, Complete, CompleteCancel, SaveProfile, vars, taskVars, dbVars
<1>6. QED
  BY <1>3, <1>4, <1>5

\* Once the clean-up has run, nothing waits about a task that was missed or
\* withdrawn: nobody else makes one so, and nobody else plans.
LEMMA HealedStep ==
    ASSUME TypeInv, [Next]_vars, Unbroken', RowsHealed
    PROVE  RowsHealed'
<1>0. RowTypes
  BY DEF TypeInv
<1>1. ASSUME pc \in {"idle", "courses", "record", "heal", "stray"}, NEW k \in DOMAIN row', IsPending(k)'
      PROVE  k \in DOMAIN row /\ IsPending(k) /\ k.task \in Items
  <2>1. IsPending(k)
    BY <1>1, RowMoves, CheckBreaks DEF FeedAlert, AnnounceChange, InsertPlanned
  <2>2. k \in DOMAIN row
    BY <2>1 DEF IsPending
  <2>3. QED
    BY <1>0, <2>1, <2>2, KeyParts DEF RowTypes
<1>2. ASSUME pc \in {"idle", "courses", "record", "heal", "stray"}, NEW i \in Items, Over(i)' PROVE Over(i)
  BY <1>2, StatusMoves, CheckBreaks DEF Over
<1>3. CASE HealStray
  <2>1. Settle(strays, "CANCELLED") /\ pc = "heal" /\ pc' = "record"
    BY <1>3 DEF HealStray, Settle
  <2>2. ASSUME NEW k \in DOMAIN row', IsPending(k)' PROVE ~Over(k.task)'
    <3>1. k \in DOMAIN row /\ IsPending(k) /\ k.task \in Items
      BY <1>1, <2>1, <2>2
    <3>2. k \notin strays
      BY <1>0, <2>1, <2>2, <3>1, SettleRows DEF IsPending
    <3>3. QED
      BY <1>2, <2>1, <3>1, <3>2 DEF RowsHealed
  <2>3. QED
    BY <2>1, <2>2 DEF RowsHealed, Over
<1>4. CASE SelectStray
  <2>1. \A k \in DOMAIN row : IsPending(k) /\ Over(k.task) => k \in strays'
    BY <1>4 DEF SelectStray, Over, Terminal
  <2>2. UNCHANGED <<row, status>> /\ pc' = "heal"
    BY <1>4 DEF SelectStray, dbVars, taskVars
  <2>3. QED
    BY <2>1, <2>2 DEF RowsHealed, Over, IsPending
<1>5. ASSUME pc \in {"idle", "courses", "record"}, pc' \in {"idle", "courses", "record"} PROVE RowsHealed'
  <2>1. \A k \in DOMAIN row' : IsPending(k)' => ~Over(k.task)'
    BY <1>1, <1>2, <1>5 DEF RowsHealed
  <2>2. QED
    BY <1>5, <2>1 DEF RowsHealed, Over
<1>6. ASSUME pc = "heal", pc' = "heal", UNCHANGED strays PROVE RowsHealed'
  <2>1. \A k \in DOMAIN row' : IsPending(k)' /\ Over(k.task)' => k \in strays'
    BY <1>1, <1>2, <1>6 DEF RowsHealed
  <2>2. QED
    BY <1>6, <2>1 DEF RowsHealed, Over
<1>7. \/ HealStray \/ SelectStray
      \/ pc \in {"idle", "courses", "record"} /\ pc' \in {"idle", "courses", "record"}
      \/ pc = "heal" /\ pc' = "heal" /\ UNCHANGED strays
      \/ pc' \notin {"idle", "courses", "record", "heal"}
  <2>1. CASE SyncStep
    BY <2>1 DEF SyncStep, StartSync, ListCourses, Fetch, SourceDone, Upsert, Judge, AfterJudging, FeedAlert, Recount,
         AnnounceChange, InsertPlanned, SelectMissing, Withdraw, MarkMissed, WithdrawReminders, Backlog,
         MissedReminders, RecordResult, EndSync
  <2>2. CASE FaultStep
    BY <2>2, CheckBreaks, BreakOff DEF FaultStep, ListCoursesFails, SourceFails, JudgeFails, AfterJudging, Crash,
         CompleteCrash, EndSync, loopVars
  <2>3. CASE UNCHANGED <<pc, loopVars>>
    BY <2>3 DEF loopVars
  <2>4. QED
    BY <2>1, <2>2, <2>3 DEF Next, TeacherStep, Post, Edit, Toggle, SetCourse, Teach, Advance, Dispatch, Complete,
         CompleteCancel, SaveProfile, vars
<1>8. QED
  BY <1>3, <1>4, <1>5, <1>6, <1>7 DEF RowsHealed

\* Unless a fault broke off a source or the process, nothing waits between syncs
\* about a deadline that has moved or a task that was missed or withdrawn.
THEOREM NoStaleCountdownHolds == Spec => []NoStaleCountdown
<1>1. Init => StaleInv
  BY DEF Init, StaleInv, ItemCurrent, RowsCurrent, RowsHealed, NewUndated
<1>2. TypeInv /\ StaleInv /\ [Next]_vars => StaleInv'
  <2> SUFFICES ASSUME TypeInv, StaleInv, [Next]_vars, Unbroken'
               PROVE  (ItemCurrent /\ RowsCurrent /\ RowsHealed /\ NewUndated)'
    BY DEF StaleInv
  <2>1. ItemCurrent /\ RowsCurrent /\ RowsHealed /\ NewUndated
    BY RowMoves DEF StaleInv
  <2>2. QED
    BY <2>1, ItemStep, CurrentStep, HealedStep
<1>3. StaleInv => NoStaleCountdown
  BY DEF StaleInv, RowsCurrent, RowsHealed, Recounting, Over, NoStaleCountdown
<1>4. QED
  BY <1>1, <1>2, <1>3, TypeHolds, PTL DEF Spec

=============================================================================
