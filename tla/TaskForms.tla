------------------------------ MODULE TaskForms ------------------------------
(***************************************************************************)
(* The forms of the dashboard that change tasks (ragra/web/app.py over     *)
(* ragra/db/repo.py): personal tasks, tasks made from an announcement,     *)
(* completing, cancelling, archiving, a new deadline, and the history each *)
(* leaves.  The handlers run on a thread pool, so two forms interleave     *)
(* between the reads and the commits of a handler.                         *)
(*                                                                         *)
(* A task's id orders it; announcements come from the sync and are there   *)
(* at the start.                                                           *)
(***************************************************************************)
EXTENDS Naturals, Sequences, FiniteSets

CONSTANTS
    Announcements,  \* ids of the announcements
    MaxTask,        \* bound on task ids
    MaxLog,         \* bound on history rows per task
    Dates,          \* deadlines a form may give
    Dated,          \* bound on the tasks that get deadlines
    Requests        \* threads that serve forms

Ids == 1..MaxTask
None == "NONE"

ASSUME FormsAssumption ==
    /\ MaxTask \in Nat /\ MaxLog \in Nat /\ Announcements \subseteq Ids
    /\ None \notin Dates /\ Dated \subseteq Ids

VARIABLES
    task,    \* source type, status and parent_task_id
    course,  \* whether the personal pseudo-course exists
    log,     \* task_history of the status: the new values
    due,     \* actual_deadline, and the one the history accounts for: that of its
             \* newest row or, with none, the one at the creation (history)
    made,    \* the announcement a task was made for, 0 for none (history)
    req,     \* what each thread is doing
    gone,    \* announcements the sync has selected and not yet cancelled
    odd      \* what has happened that a test would not do (history)

vars == <<task, course, log, due, made, req, gone, odd>>

\* Two changes at once, a form no current page offers, the end of the process
\* inside a handler.
Oddities == {"overlap", "old page", "crash"}

Statuses == {None, "DISCOVERED", "ACTION_REQUIRED", "PLANNED", "COMPLETED", "CANCELLED", "ARCHIVED"}
NoTask == [source |-> None, status |-> None, parent |-> 0]
Idle == [pc |-> "idle", task |-> 0, child |-> 0, saw |-> None, due |-> None]

Exists(t) == task[t].source # None
Manual(t) == task[t].source = "manual"
Quiet == gone = {} /\ \A r \in Requests : req[r].pc = "idle"

\* A thread takes a form.
Takes(r) ==
    /\ req[r].pc = "idle"
    /\ odd' = IF Quiet THEN odd ELSE odd \cup {"overlap"}

\* It is for a task, which the pages do not show once it is in a closed status.
TakesFor(r, t, closed) ==
    /\ req[r].pc = "idle" /\ Exists(t)
    /\ odd' = odd \cup (IF Quiet THEN {} ELSE {"overlap"})
                   \cup (IF task[t].status \in closed THEN {"old page"} ELSE {})

\* An id is left for one more task.
Free == { i \in Ids : ~Exists(i) }
Room == Cardinality(Free) > Cardinality({ r \in Requests : req[r].pc \in {"course", "insert"} })

\* The child of an announcement that is not cancelled.
Children(a) == { t \in Ids : task[t].parent = a /\ task[t].status # "CANCELLED" }

\* The status of a task is set and recorded in one commit.
Sets(t, s) ==
    /\ Len(log[t]) < MaxLog
    /\ task' = [task EXCEPT ![t].status = s]
    /\ log' = [log EXCEPT ![t] = Append(@, s)]

-----------------------------------------------------------------------------
\* create_manual_task looks for the personal course first.
PostTask(r) ==
    /\ Takes(r) /\ Room
    /\ req' = [req EXCEPT ![r] = [Idle EXCEPT !.pc = "course"]]
    /\ UNCHANGED <<task, course, log, due, made, gone>>

\* Regression: a second task is made for an announcement that has one.
PostAgain(r, a) ==
    /\ Takes(r) /\ Exists(a) /\ Room
    /\ req' = [req EXCEPT ![r] = [Idle EXCEPT !.pc = "course", !.task = a]]
    /\ UNCHANGED <<task, course, log, due, made, gone>>

\* create_task_from_announcement returns the child there is.
PostFromAnnouncement(r, a) ==
    /\ a \in Announcements /\ TakesFor(r, a, {"ARCHIVED", "CANCELLED"})
    /\ Children(a) = {} /\ Room
    /\ req' = [req EXCEPT ![r] = [Idle EXCEPT !.pc = "course", !.task = a]]
    /\ UNCHANGED <<task, course, log, due, made, gone>>

FindCourse(r) ==
    /\ req[r].pc = "course"
    /\ req' = [req EXCEPT ![r] = [@ EXCEPT !.pc = "insert", !.saw = IF course THEN "course" ELSE None]]
    /\ UNCHANGED <<task, course, log, due, made, gone, odd>>

\* The course if it was missing, and the task with the next id and the deadline
\* of the form, planned if the form has a personal one.
Insert(r, t, planned, d) ==
    /\ req[r].pc = "insert" /\ t \in Free /\ \A i \in Free : t <= i
    /\ d # None => t \in Dated
    /\ req[r].saw = "course" \/ ~course
    /\ course' = TRUE
    /\ task' = [task EXCEPT ![t] = [source |-> "manual", parent |-> 0,
                                    status |-> IF planned THEN "PLANNED" ELSE "ACTION_REQUIRED"]]
    /\ due' = [due EXCEPT ![t] = [now |-> d, logged |-> d]]
    /\ made' = [made EXCEPT ![t] = req[r].task]
    /\ req' = [req EXCEPT ![r] = IF @.task = 0 THEN Idle ELSE [@ EXCEPT !.pc = "link", !.child = t]]
    /\ UNCHANGED <<log, gone, odd>>

\* UNIQUE (user_id, external_id) refuses a second personal course.
InsertFails(r) ==
    /\ req[r].pc = "insert" /\ req[r].saw = None /\ course
    /\ req' = [req EXCEPT ![r] = Idle]
    /\ UNCHANGED <<task, course, log, due, made, gone, odd>>

\* The parent link is a commit of its own.
Link(r) ==
    /\ req[r].pc = "link"
    /\ task' = [task EXCEPT ![req[r].child].parent = req[r].task]
    /\ req' = [req EXCEPT ![r] = Idle]
    /\ UNCHANGED <<course, log, due, made, gone, odd>>

\* mark_completed asks for no status.
Complete(r, t) ==
    /\ TakesFor(r, t, {"COMPLETED", "CANCELLED"})
    /\ Sets(t, "COMPLETED")
    /\ UNCHANGED <<course, due, made, req, gone>>

\* cancel_task, for personal tasks only
Cancel(r, t) ==
    /\ TakesFor(r, t, {"COMPLETED", "CANCELLED"}) /\ Manual(t)
    /\ Sets(t, "CANCELLED")
    /\ UNCHANGED <<course, due, made, req, gone>>

\* archive_task takes any task, reads its status and leaves an archived one
\* alone; only the page of the announcements has its button.
Archive(r, t) ==
    /\ TakesFor(r, t, IF t \in Announcements THEN {"ARCHIVED", "CANCELLED"} ELSE Statuses)
    /\ task[t].status # "ARCHIVED"
    /\ req' = [req EXCEPT ![r] = [Idle EXCEPT !.pc = "archive", !.task = t]]
    /\ UNCHANGED <<task, course, log, due, made, gone>>

ArchiveWrite(r) ==
    /\ req[r].pc = "archive"
    /\ Sets(req[r].task, "ARCHIVED")
    /\ req' = [req EXCEPT ![r] = Idle]
    /\ UNCHANGED <<course, due, made, gone, odd>>

\* set_personal_deadline: planning is no status of the history.
SetPersonalDeadline(r, t) ==
    /\ Takes(r) /\ Exists(t) /\ task[t].status = "ACTION_REQUIRED"
    /\ task' = [task EXCEPT ![t].status = "PLANNED"]
    /\ UNCHANGED <<course, log, due, made, req, gone>>

\* update_manual_task reads the row of a personal task ...
Edit(r, t, d) ==
    /\ TakesFor(r, t, {"COMPLETED", "CANCELLED"}) /\ Manual(t) /\ t \in Dated
    /\ req' = [req EXCEPT ![r] = [Idle EXCEPT !.pc = "edit", !.task = t, !.due = d,
                                             !.saw = due[t].now]]
    /\ UNCHANGED <<task, course, log, due, made, gone>>

\* Regression: the row is compared after it was written.
EditWriteFirst(r) ==
    /\ req[r].pc = "edit"
    /\ due' = [due EXCEPT ![req[r].task].now = req[r].due]
    /\ req' = [req EXCEPT ![r] = Idle]
    /\ UNCHANGED <<task, course, log, made, gone, odd>>

\* ... and writes the new deadline, with a history row if it read another one.
\* An empty field changes nothing.
EditWrite(r) ==
    /\ req[r].pc = "edit"
    /\ due' = [due EXCEPT ![req[r].task] =
                  [now |-> req[r].due, logged |-> IF req[r].saw # req[r].due THEN req[r].due ELSE @.logged]]
    /\ req' = [req EXCEPT ![r] = Idle]
    /\ UNCHANGED <<task, course, log, made, gone, odd>>

\* The sync selects the announcements it no longer finds ...
Withdraw(missing) ==
    /\ gone = {} /\ missing # {}
    /\ \A a \in missing : task[a].status \notin {"COMPLETED", "CANCELLED"}
    /\ odd' = IF Quiet THEN odd ELSE odd \cup {"overlap"}
    /\ gone' = missing
    /\ UNCHANGED <<task, course, log, due, made, req>>

\* ... and cancels one after another, whatever its status is by then.
CancelFromSource(a) ==
    /\ a \in gone
    /\ Sets(a, "CANCELLED")
    /\ gone' = gone \ {a}
    /\ UNCHANGED <<course, due, made, req, odd>>

Crash ==
    /\ ~Quiet
    /\ odd' = odd \cup {"crash"}
    /\ req' = [r \in Requests |-> Idle] /\ gone' = {}
    /\ UNCHANGED <<task, course, log, due, made>>

-----------------------------------------------------------------------------
\* The first user has a personal course from the start, later ones do not.
Init ==
    /\ task = [t \in Ids |-> IF t \in Announcements
                             THEN [source |-> "announcement", status |-> "DISCOVERED", parent |-> 0]
                             ELSE NoTask]
    /\ course \in BOOLEAN
    /\ log = [t \in Ids |-> <<>>] /\ due = [t \in Ids |-> [now |-> None, logged |-> None]]
    /\ made = [t \in Ids |-> 0]
    /\ req = [r \in Requests |-> Idle] /\ gone = {} /\ odd = {}

Continue(r) ==
    \/ FindCourse(r) \/ Link(r) \/ ArchiveWrite(r) \/ EditWrite(r) \/ InsertFails(r)
    \/ \E t \in Ids, planned \in BOOLEAN, d \in Dates \cup {None} : Insert(r, t, planned, d)

Submit(r) ==
    \/ PostTask(r)
    \/ \E t \in Ids : \/ PostFromAnnouncement(r, t) \/ Archive(r, t)
                      \/ Complete(r, t) \/ Cancel(r, t) \/ SetPersonalDeadline(r, t)
                      \/ \E d \in Dates : Edit(r, t, d)

Next ==
    \/ Crash
    \/ \E missing \in SUBSET Announcements : Withdraw(missing)
    \/ \E a \in Announcements : CancelFromSource(a)
    \/ \E r \in Requests : Submit(r) \/ Continue(r)

Spec == Init /\ [][Next]_vars

-----------------------------------------------------------------------------
Row == [source : {None, "manual", "announcement"}, status : Statuses, parent : Ids \cup {0}]
Handler == [pc : {"idle", "course", "insert", "link", "archive", "edit"}, task : Ids \cup {0},
            child : Ids \cup {0}, saw : Dates \cup {None, "course"},
            due : Dates \cup {None}]

\* The types; and only a personal task has a parent, which is an announcement.
TypeOK ==
    /\ task \in [Ids -> Row]
    /\ \A t \in Ids : task[t].parent # 0 => Manual(t) /\ task[t].parent \in Announcements
    /\ course \in BOOLEAN /\ gone \subseteq Announcements /\ odd \subseteq Oddities
    /\ log \in [Ids -> Seq(Statuses)] /\ made \in [Ids -> Ids \cup {0}]
    /\ due \in [Ids -> [now : Dates \cup {None}, logged : Dates \cup {None}]]
    /\ req \in [Requests -> Handler]

StatusAudited == \A t \in Ids : log[t] # <<>> => log[t][Len(log[t])] = task[t].status
DeadlineAudited == \A t \in Ids : due[t].logged = due[t].now

\* The newest status row of the history names the status a task has, whatever
\* overlaps and breaks off; and its newest deadline row the deadline or, with
\* none, the deadline is the one the task was made with, as long as no two
\* changes overlap (record_history; update_manual_task compares with a row it
\* read before).
AuditCurrent == StatusAudited /\ ("overlap" \notin odd => DeadlineAudited)

\* At most one task that is not cancelled was made for an announcement, however
\* often its form is submitted, as long as forms come from current pages, one
\* handler ends before the next begins and none dies before the link
\* (create_task_from_announcement).
OneChild ==
    odd = {} => \A t, u \in Ids :
        /\ made[t] # 0 /\ made[t] = made[u]
        /\ task[t].status # "CANCELLED" /\ task[u].status # "CANCELLED"
        => t = u
=============================================================================
