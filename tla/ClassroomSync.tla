---------------------------- MODULE ClassroomSync ----------------------------
(***************************************************************************)
(* The reconciliation of one Classroom course into the tasks and reminders *)
(* tables (ragra/sync/classroom_sync.py), commit by commit, against        *)
(*                                                                         *)
(*   - a teacher who posts, edits, withdraws and republishes items, and    *)
(*     who may archive the course;                                         *)
(*   - the web requests that complete a task or save the academic profile; *)
(*   - the dispatch stage, which sends pending rows between two syncs;     *)
(*   - at most MaxFaults faults: a refused API call, a database error in   *)
(*     the middle of a source, an unreadable profile, a relevance failure, *)
(*     the end of the process, a second sync from the account page.        *)
(*                                                                         *)
(* Times are minutes.  The reminders of a deadline are ReminderPlan's, and *)
(* a row is identified by its idempotency key.  The dispatch pass is one   *)
(* step that delivers everything due: ReminderDispatch has its detail.     *)
(***************************************************************************)
EXTENDS ReminderPlan, Relevance, FiniteSets

CONSTANTS
    Coursework,       \* the items with a deadline
    Announcements,    \* announcements and materials: posts without one
    Deadlines,        \* the due dates a teacher may choose
    Step, Horizon,    \* the clock advances by Step, up to Horizon
    Course,           \* the name of the course
    Title,            \* the text of each title or post (a description mentions nothing)
    Profiles,         \* the profiles the student may save
    LegacyProfile,    \* the module's own, for the account that is not linked yet
    Unlinked,         \* is this that account?
    MaxEdits,         \* bound on the actions of the teacher and saves of the profile
    Faults,           \* which kinds of fault may happen
    MaxFaults,        \* how many
    NoDate            \* no due date

Items == Coursework \cup Announcements

ASSUME SyncAssumption ==
    /\ Coursework \cap Announcements = {}
    /\ Deadlines \subseteq Nat
    /\ NoDate \notin Nat
    /\ Step \in Nat \ {0} /\ Horizon \in Nat
    /\ MaxEdits \in Nat /\ MaxFaults \in Nat
    /\ Faults \subseteq {"api", "db", "profile", "relevance", "crash", "check"}
    /\ Unlinked \in BOOLEAN

VARIABLES
    now,
    \* Classroom
    live,      \* the items it returns
    due,       \* their due date
    version,   \* their updateTime
    posted_at, \* their creationTime
    course,    \* the courseState it returns, or "GONE" once unenrolled
    edits,     \* actions the teacher has taken, and profiles saved
    \* the database
    status, actual_deadline, source_updated_at, created_at,  \* columns of tasks
    relevance, \* the section decision stored last; "relevant" is the default
    profile,   \* user_profiles: the enrolled courses, or NoRow
    sync_state,\* status of the last sync
    state,     \* courses.state
    row,       \* reminders: idempotency key -> status and scheduled_for
    closing,   \* completion requests between their two commits
    \* the sync in progress
    pc,
    sources,   \* sources still to read, in order
    read,      \* sources it managed to read, in order
    batch,     \* items of the source, as fetched, still to apply
    item,      \* the one being applied
    mode,      \* how it differs from the stored task
    plan,      \* reminders still to insert
    seen,      \* ids of the items it was given
    absent,    \* items a successful read did not return (history)
    doomed,    \* tasks it selected and has not yet closed
    strays,    \* reminders it selected to cancel
    context,   \* the profile as loaded when the sync started, or Unavailable
    errors,    \* has a source failed in this sync?
    faults     \* how many faults there have been, and whether one broke a promise (history)

sourceVars == <<live, due, version, posted_at, course, edits>>
taskVars   == <<status, actual_deadline, source_updated_at, created_at>>
courseVars == <<relevance, profile, sync_state, state>>
dbVars     == <<taskVars, courseVars, row, closing>>
passVars   == <<context, errors>>
loopVars   == <<sources, read, batch, item, mode, plan, seen, absent, doomed,
              strays, context, errors>>
vars == <<now, sourceVars, dbVars, pc, loopVars, faults>>

Terminal == {"COMPLETED", "CANCELLED", "MISSED"}
Known(i) == status[i] # "ABSENT"
SourceOf(i) == IF i \in Coursework THEN "coursework" ELSE "announcement"
FeedWindow == 3 * Day

-----------------------------------------------------------------------------
(* The reminders table. *)

Key(i, type, d) == [task |-> i, type |-> type, deadline |-> d]

TaskAnchored == {"NEW_ASSIGNMENT"}

\* _idempotency_key
IdempotencyKey(i, type, d) == Key(i, type, IF type \in TaskAnchored THEN NoDate ELSE d)

Unavailable == NoRow

NoItem == [id |-> NoDate, due |-> NoDate, version |-> 0, posted_at |-> 0]

\* The sync is over; its local variables are forgotten.
EndSync == /\ pc' = "idle"
           /\ sources' = <<>> /\ read' = <<>>
           /\ batch' = {} /\ plan' = {} /\ seen' = {} /\ absent' = {}
           /\ doomed' = {} /\ strays' = {}
           /\ item' = NoItem /\ mode' = "same"
           /\ context' = Unavailable /\ errors' = FALSE

Row(s, t) == [status |-> s, scheduled_for |-> t]

InsertIfAbsent(k, t) ==
    row' = [j \in DOMAIN row \cup {k} |-> IF j \in DOMAIN row THEN row[j] ELSE Row("PENDING", t)]

IsPending(k) == k \in DOMAIN row /\ row[k].status = "PENDING"

\* The rows of K that are pending become CANCELLED.
Cancel(K) == row' = [k \in DOMAIN row |->
                       IF k \in K /\ IsPending(k) THEN [row[k] EXCEPT !.status = "CANCELLED"]
                       ELSE row[k]]

\* cancel_pending_reminders(except_types)
CancelPending(i, except) == Cancel({ k \in DOMAIN row : k.task = i /\ k.type \notin except })

\* What _schedule_reminders inserts at time t for deadline d.
Planning(i, d, t) ==
    IF d = NoDate THEN {}
    ELSE { [key |-> IdempotencyKey(i, p.reminder_type, d), at |-> p.scheduled_for] :
             p \in ComputeReminderPlan(d, t) }

-----------------------------------------------------------------------------
(* Reading the course. *)

\* A source may break off after its upsert, or two syncs overlap.
Breaking == {"db", "crash", "check"}

Fault(kind) == /\ kind \in Faults
               /\ faults.many < MaxFaults
               /\ faults' = [many |-> faults.many + 1,
                             broken |-> faults.broken \/ kind \in Breaking]

Unbroken == ~faults.broken

\* record_sync_start; the profile is loaded once, and a failure to load it only
\* turns the relevance decisions off.
StartSync ==
    /\ pc = "idle"
    /\ pc' = "courses"
    /\ sync_state' = "RUNNING"
    /\ \/ context' = LoadProfile(profile, Unlinked, LegacyProfile) /\ UNCHANGED faults
       \/ context' = Unavailable /\ Fault("profile")
    /\ UNCHANGED <<now, sourceVars, taskVars, relevance, profile, state, row, closing, sources,
                   read, batch, item, mode, plan, seen, absent, doomed, strays, errors>>

\* Only an ACTIVE course is read; an inactive one the database knows has its
\* state updated, one that is no longer listed is left as it is.
ListCourses ==
    /\ pc = "courses"
    /\ IF course = "ACTIVE"
       THEN /\ state' = course
            /\ sources' = <<"coursework", "announcement">>
            /\ pc' = "fetch"
       ELSE /\ state' = IF course = "GONE" \/ state = "ABSENT" THEN state ELSE course
            /\ pc' = "backlog"
            /\ UNCHANGED sources
    /\ read' = <<>> /\ seen' = {}
    /\ UNCHANGED <<now, sourceVars, taskVars, relevance, profile, sync_state, row, closing,
                   passVars, batch, item, mode, plan, doomed, strays, faults, absent>>

\* An exception outside the loop over the sources ends the sync.
ListCoursesFails ==
    /\ pc = "courses"
    /\ Fault("api")
    /\ EndSync
    /\ sync_state' = "ERROR"
    /\ UNCHANGED <<now, sourceVars, taskVars, relevance, profile, state, row, closing>>

Fetched(src) ==
    { [id |-> i, due |-> due[i], version |-> version[i], posted_at |-> posted_at[i]] :
        i \in { j \in live : SourceOf(j) = src } }

Fetch ==
    /\ pc = "fetch" /\ sources # <<>>
    /\ batch' = Fetched(Head(sources))
    /\ absent' = absent \cup { i \in Items \ live : SourceOf(i) = Head(sources) }
    /\ pc' = "item"
    /\ UNCHANGED <<now, sourceVars, dbVars, passVars, sources, read, item, mode, plan, seen,
                   doomed, strays, faults>>

\* Regression: a source that could not be read counts as one that is empty.
SkipSourceAsEmpty ==
    /\ sources' = Tail(sources)
    /\ read' = Append(read, Head(sources))

SkipSource ==
    /\ sources' = Tail(sources)
    /\ UNCHANGED read

\* The call is refused, or the database raises while an item is applied: the
\* rest of this source is given up, the next one is read all the same.
SourceFails ==
    /\ \/ pc = "fetch" /\ sources # <<>> /\ Fault("api")
       \/ pc \in {"item", "judge", "feed", "countdown", "changed", "plan"} /\ Fault("db")
    /\ SkipSource
    /\ pc' = "fetch"
    /\ batch' = {} /\ plan' = {}
    /\ errors' = TRUE
    /\ UNCHANGED <<now, sourceVars, dbVars, context, item, mode, seen, doomed, strays, absent>>

SourceDone ==
    /\ pc = "item" /\ batch = {}
    /\ sources' = Tail(sources)
    /\ read' = Append(read, Head(sources))
    /\ pc' = "fetch"
    /\ UNCHANGED <<now, sourceVars, dbVars, passVars, batch, item, mode, plan, seen, doomed,
                   strays, faults, absent>>

-----------------------------------------------------------------------------
(* _apply_upsert, one commit at a time. *)

SameAsStored(e) == source_updated_at[e.id] = e.version

\* upsert_task_from_source: creates, skips an item whose updateTime is the
\* stored one, or updates.
Upsert(e) ==
    LET i == e.id IN
    /\ pc = "item" /\ e \in batch
    /\ batch' = batch \ {e}
    /\ item' = e
    /\ seen' = seen \cup {i}
    /\ pc' = "judge"
    /\ \/ /\ ~Known(i)
          /\ status' = [status EXCEPT ![i] = "OPEN"]
          /\ created_at' = [created_at EXCEPT ![i] = now]
          /\ actual_deadline' = [actual_deadline EXCEPT ![i] = e.due]
          /\ source_updated_at' = [source_updated_at EXCEPT ![i] = e.version]
          /\ mode' = "created"
       \/ /\ Known(i) /\ SameAsStored(e)
          /\ mode' = "same"
          /\ UNCHANGED taskVars
       \/ /\ Known(i) /\ ~SameAsStored(e)
          /\ mode' = IF actual_deadline[i] # e.due THEN "changed" ELSE "same"
          /\ actual_deadline' = [actual_deadline EXCEPT ![i] = e.due]
          /\ source_updated_at' = [source_updated_at EXCEPT ![i] = e.version]
          /\ UNCHANGED <<status, created_at>>
    /\ UNCHANGED <<now, sourceVars, courseVars, row, closing, passVars, sources, read, plan,
                   doomed, strays, faults, absent>>

\* What is left to do for the item once its relevance has been looked at.
AfterJudging ==
    LET i == item.id
        first == Planning(i, item.due, now)
    IN  /\ plan' = IF mode = "created" /\ i \in Coursework THEN first ELSE {}
        /\ pc' = CASE mode = "created" /\ i \in Announcements -> "feed"
                   [] mode = "created" /\ i \in Coursework /\ first # {} -> "plan"
                   [] mode = "changed" -> "countdown"
                   [] OTHER -> "item"

\* Coursework is judged by its title, a post by its text, which is both.
Decision(i, courses) ==
    IsRelevant(Title[i], IF i \in Coursework THEN Text({}) ELSE Title[i], Course, courses)

\* Regression: only an item that is new or changed is judged.
JudgedWhenChanged == mode # "same"

Judged == context # Unavailable

\* _evaluate_relevance: on every sync, with the profile loaded at its start.
Judge ==
    /\ pc = "judge"
    /\ relevance' = IF Judged THEN [relevance EXCEPT ![item.id] = Decision(item.id, context)]
                    ELSE relevance
    /\ AfterJudging
    /\ UNCHANGED <<now, sourceVars, taskVars, profile, sync_state, state, row, closing, passVars,
                   sources, read, batch, item, mode, seen, doomed, strays, faults, absent>>

\* A failed evaluation is a warning; the item goes on with what is stored.
JudgeFails ==
    /\ pc = "judge"
    /\ Judged
    /\ Fault("relevance")
    /\ AfterJudging
    /\ UNCHANGED <<now, sourceVars, dbVars, passVars, sources, read, batch, item, mode, seen,
                   doomed, strays, absent>>

\* _queue_feed_alert: an old post is backlog, not news.
FeedAlert ==
    /\ pc = "feed"
    /\ IF now - item.posted_at > FeedWindow
       THEN UNCHANGED row
       ELSE InsertIfAbsent(Key(item.id, "NEW_POST", NoDate), now)
    /\ pc' = "item"
    /\ UNCHANGED <<now, sourceVars, taskVars, courseVars, closing, loopVars, faults>>

\* Regression: the old countdown is left.
CancelCountdownNever(i) == UNCHANGED row

CancelCountdown(i) == CancelPending(i, {"NEW_ASSIGNMENT"})

\* The countdown to the old deadline is withdrawn ...
Recount ==
    /\ pc = "countdown"
    /\ CancelCountdown(item.id)
    /\ pc' = "changed"
    /\ UNCHANGED <<now, sourceVars, taskVars, courseVars, closing, loopVars, faults>>

\* Regression: a task that changes is not new, so its appearance is not planned.
ReplannedQuietly(i, d, t) ==
    { p \in Planning(i, d, t) : p.key.type # "NEW_ASSIGNMENT" }

\* The whole plan again: a task that had no deadline has not been announced yet.
Replanned(i, d, t) == Planning(i, d, t)

\* ... the change announced, and the new deadline's reminders planned.
AnnounceChange ==
    LET i == item.id
        fresh == Replanned(i, item.due, now)
    IN  /\ pc = "changed"
        /\ InsertIfAbsent(Key(i, "DEADLINE_CHANGED", item.due), now)
        /\ plan' = fresh
        /\ pc' = IF fresh = {} THEN "item" ELSE "plan"
        /\ UNCHANGED <<now, sourceVars, taskVars, courseVars, closing, passVars, sources, read,
                       batch, item, mode, seen, doomed, strays, faults, absent>>

PlanOrder == << "NEW_ASSIGNMENT", "T_MINUS_7D", "T_MINUS_5D", "T_MINUS_2D", "DUE_TODAY",
                "T_MINUS_1D", "FEW_HOURS", "MIDPOINT", "FINAL_1H", "DEADLINE_REACHED" >>

Before(p, q) == \E m, n \in DOMAIN PlanOrder :
                    m < n /\ PlanOrder[m] = p.key.type /\ PlanOrder[n] = q.key.type

\* _schedule_reminders: one commit per reminder, in the order of the plan.
InsertPlanned(p) ==
    /\ pc = "plan" /\ p \in plan
    /\ \A q \in plan : ~Before(q, p)
    /\ InsertIfAbsent(p.key, p.at)
    /\ plan' = plan \ {p}
    /\ pc' = IF plan' = {} THEN "item" ELSE "plan"
    /\ UNCHANGED <<now, sourceVars, taskVars, courseVars, closing, passVars, sources, read,
                   batch, item, mode, seen, doomed, strays, faults, absent>>

-----------------------------------------------------------------------------
(* After the sources: what disappeared, and the clean-ups. *)

Missing(src) == { i \in Items : /\ SourceOf(i) = src
                                /\ status[i] \in {"OPEN", "MISSED"}
                                /\ i \notin seen }

\* cancel_tasks_missing_from_source selects the tasks of one readable source.
SelectMissing ==
    /\ pc = "fetch" /\ sources = <<>>
    /\ IF read = <<>>
       THEN /\ pc' = "backlog" /\ UNCHANGED <<read, doomed>>
       ELSE /\ doomed' = Missing(Head(read))
            /\ read' = Tail(read)
            /\ pc' = IF doomed' = {} THEN "fetch" ELSE "withdraw"
    /\ UNCHANGED <<now, sourceVars, dbVars, passVars, sources, batch, item, mode, plan, seen,
                   strays, faults, absent>>

\* cancel_task_from_source has no guard on the status.
Withdraw(i) ==
    /\ pc = "withdraw" /\ i \in doomed
    /\ status' = [status EXCEPT ![i] = "CANCELLED"]
    /\ item' = [item EXCEPT !.id = i]
    /\ pc' = "withdrawn"
    /\ UNCHANGED <<now, sourceVars, actual_deadline, source_updated_at, created_at, courseVars,
                   row, closing, passVars, sources, read, batch, mode, plan, seen, doomed,
                   strays, faults, absent>>

WithdrawReminders ==
    /\ pc = "withdrawn"
    /\ CancelPending(item.id, {})
    /\ doomed' = doomed \ {item.id}
    /\ pc' = IF doomed' = {} THEN "fetch" ELSE "withdraw"
    /\ UNCHANGED <<now, sourceVars, taskVars, courseVars, closing, passVars, sources, read,
                   batch, item, mode, plan, seen, strays, faults, absent>>

Overdue(i) == actual_deadline[i] # NoDate /\ actual_deadline[i] < now

\* cancel_backlog_reminders_for_already_overdue_tasks: tasks whose deadline was
\* past when they were discovered.
Backlog ==
    LET old == { i \in Items : /\ status[i] \in {"OPEN", "MISSED"}
                               /\ actual_deadline[i] # NoDate
                               /\ actual_deadline[i] <= created_at[i] }
    IN  /\ pc = "backlog"
        /\ Cancel({ k \in DOMAIN row : k.task \in old })
        /\ doomed' = { i \in Items : status[i] = "OPEN" /\ Overdue(i) }
        /\ pc' = IF doomed' = {} THEN "stray" ELSE "overdue"
        /\ UNCHANGED <<now, sourceVars, taskVars, courseVars, closing, passVars, sources, read,
                       batch, item, mode, plan, seen, strays, faults, absent>>

\* Regression: the guard in mark_missed's WHERE clause is dropped.
MissableAlways(i) == TRUE

Missable(i) == status[i] \notin {"COMPLETED", "CANCELLED"}

\* mark_missed of one selected task, guarded in the UPDATE itself ...
MarkMissed(i) ==
    /\ pc = "overdue" /\ i \in doomed
    /\ status' = IF Missable(i) THEN [status EXCEPT ![i] = "MISSED"] ELSE status
    /\ item' = [item EXCEPT !.id = i]
    /\ pc' = "missed"
    /\ UNCHANGED <<now, sourceVars, actual_deadline, source_updated_at, created_at, courseVars,
                   row, closing, passVars, sources, read, batch, mode, plan, seen, doomed,
                   strays, faults, absent>>

\* ... and then its reminders, all of them.
MissedReminders ==
    /\ pc = "missed"
    /\ CancelPending(item.id, {})
    /\ doomed' = doomed \ {item.id}
    /\ pc' = IF doomed' = {} THEN "stray" ELSE "overdue"
    /\ UNCHANGED <<now, sourceVars, taskVars, courseVars, closing, passVars, sources, read,
                   batch, item, mode, plan, seen, strays, faults, absent>>

\* cancel_stray_reminders_for_terminal_tasks: the rows are selected ...
SelectStray ==
    /\ pc = "stray"
    /\ strays' = { k \in DOMAIN row : IsPending(k) /\ status[k.task] \in Terminal }
    /\ pc' = "heal"
    /\ UNCHANGED <<now, sourceVars, dbVars, passVars, sources, read, batch, item, mode, plan,
                   seen, doomed, faults, absent>>

\* ... and updated by id.
HealStray ==
    /\ pc = "heal"
    /\ row' = [k \in DOMAIN row |->
                 IF k \in strays THEN [row[k] EXCEPT !.status = "CANCELLED"] ELSE row[k]]
    /\ pc' = "record"
    /\ UNCHANGED <<now, sourceVars, taskVars, courseVars, closing, loopVars, faults>>

\* record_sync_error if a source failed, record_sync_success otherwise.
RecordResult ==
    /\ pc = "record"
    /\ sync_state' = IF errors THEN "ERROR" ELSE "OK"
    /\ EndSync
    /\ UNCHANGED <<now, sourceVars, taskVars, relevance, profile, state, row, closing, faults>>

\* The process ends, which leaves the state RUNNING, or the database raises
\* outside the loop over the sources.
Crash ==
    /\ pc # "idle"
    /\ Fault("crash")
    /\ EndSync
    /\ sync_state' \in {"RUNNING", "ERROR"}
    /\ UNCHANGED <<now, sourceVars, taskVars, relevance, profile, state, row, closing>>

-----------------------------------------------------------------------------
(* The "check" button of the account page syncs beside the tick: here its     *)
(* whole sync, with no fault of its own, falls between two commits of the     *)
(* other one.                                                                 *)

Given   == IF course = "ACTIVE" THEN live ELSE {}
NotSeen == IF course = "ACTIVE" THEN Items \ live ELSE {}

Discovered == { i \in Given : ~Known(i) }
Refreshed  == { i \in Given : Known(i) /\ source_updated_at[i] # version[i] }
Moved      == { i \in Refreshed : actual_deadline[i] # due[i] }

Stamped(old, new) == [i \in Items |-> IF i \in Discovered \cup Refreshed THEN new[i] ELSE old[i]]

\* What it announces and plans.
Inserted ==
    { [key |-> Key(i, "NEW_POST", NoDate), at |-> now] :
        i \in { j \in Discovered \cap Announcements : now - posted_at[j] <= FeedWindow } }
    \cup { [key |-> Key(i, "DEADLINE_CHANGED", due[i]), at |-> now] : i \in Moved }
    \cup UNION { Planning(i, due[i], now) : i \in (Discovered \cap Coursework) \cup Moved }

\* A task after the upserts, the withdrawal and the deadline clean-up.
Reconciled(i) ==
    LET deadline == Stamped(actual_deadline, due)[i]
    IN  CASE i \in NotSeen /\ status[i] \in {"OPEN", "MISSED"} -> "CANCELLED"
          [] i \in Discovered \/ status[i] = "OPEN" ->
                IF deadline # NoDate /\ deadline < now THEN "MISSED" ELSE "OPEN"
          [] OTHER -> status[i]

\* Its reminders after the old countdown went, and the clean-ups.
Silenced(k) ==
    LET i == k.task
        deadline == Stamped(actual_deadline, due)[i]
    IN  \/ status'[i] \in Terminal
        \/ /\ deadline # NoDate
           /\ deadline <= IF i \in Discovered THEN now ELSE created_at[i]

CheckSync ==
    /\ pc # "idle"
    /\ Fault("check")
    /\ status' = [i \in Items |-> Reconciled(i)]
    /\ actual_deadline' = Stamped(actual_deadline, due)
    /\ source_updated_at' = Stamped(source_updated_at, version)
    /\ created_at' = [i \in Items |-> IF i \in Discovered THEN now ELSE created_at[i]]
    /\ relevance' = [i \in Items |->
                        IF i \in Given THEN Decision(i, LoadProfile(profile, Unlinked, LegacyProfile))
                        ELSE relevance[i]]
    /\ row' = [k \in DOMAIN row \cup { p.key : p \in Inserted } |->
                 IF k \in DOMAIN row
                 THEN IF IsPending(k) /\ (Silenced(k) \/ (k.task \in Moved /\ k.type # "NEW_ASSIGNMENT"))
                      THEN [row[k] EXCEPT !.status = "CANCELLED"] ELSE row[k]
                 ELSE Row(IF Silenced(k) THEN "CANCELLED" ELSE "PENDING",
                          (CHOOSE p \in Inserted : p.key = k).at)]
    /\ state' = IF course = "GONE" \/ (course # "ACTIVE" /\ state = "ABSENT") THEN state ELSE course
    /\ sync_state' = "OK"
    /\ UNCHANGED <<now, sourceVars, profile, closing, pc, loopVars>>

-----------------------------------------------------------------------------
(* Everybody else. *)

\* The web's completion, in its two commits.
Complete(i) ==
    /\ Known(i) /\ status[i] # "COMPLETED" /\ i \notin closing
    /\ status' = [status EXCEPT ![i] = "COMPLETED"]
    /\ closing' = closing \cup {i}
    /\ UNCHANGED <<now, sourceVars, actual_deadline, source_updated_at, created_at, courseVars,
                   row, pc, loopVars, faults>>

CompleteCancel(i) ==
    /\ i \in closing
    /\ CancelPending(i, {})
    /\ closing' = closing \ {i}
    /\ UNCHANGED <<now, sourceVars, taskVars, courseVars, pc, loopVars, faults>>

CompleteCrash(i) ==
    /\ i \in closing
    /\ Fault("crash")
    /\ closing' = closing \ {i}
    /\ UNCHANGED <<now, sourceVars, taskVars, courseVars, row, pc, loopVars>>

\* What due_pending_reminders would select now.
DueNow == { k \in DOMAIN row :
              /\ IsPending(k) /\ row[k].scheduled_for <= now
              /\ \/ status[k.task] = "OPEN"
                 \/ k.type = "DEADLINE_REACHED" /\ status[k.task] = "MISSED"
              /\ k.type = "DEADLINE_REACHED" => row[k].scheduled_for + 30 >= now
              /\ state = "ACTIVE"
              /\ relevance[k.task] # "other_section" }

\* The dispatch stage: between two syncs of the tick, or beside one of the button.
Dispatch ==
    /\ DueNow # {}
    /\ row' = [k \in DOMAIN row |->
                 IF k \in DueNow THEN [row[k] EXCEPT !.status = "SENT"] ELSE row[k]]
    /\ UNCHANGED <<now, sourceVars, taskVars, courseVars, closing, pc, loopVars, faults>>

Teach == /\ edits < MaxEdits
         /\ edits' = edits + 1
         /\ UNCHANGED <<now, dbVars, pc, loopVars, faults>>

Dates(i) == IF i \in Coursework THEN Deadlines \cup {NoDate} ELSE {NoDate}

Post(i, d) ==
    /\ Teach
    /\ version[i] = 0
    /\ live' = live \cup {i}
    /\ due' = [due EXCEPT ![i] = d]
    /\ version' = [version EXCEPT ![i] = 1]
    /\ posted_at' = [posted_at EXCEPT ![i] = now]
    /\ UNCHANGED course

Edit(i, d) ==
    /\ Teach
    /\ i \in live
    /\ due' = [due EXCEPT ![i] = d]
    /\ version' = [version EXCEPT ![i] = @ + 1]
    /\ UNCHANGED <<live, posted_at, course>>

\* Withdrawn, or published again as it was.
Toggle(i) ==
    /\ Teach
    /\ version[i] > 0
    /\ live' = IF i \in live THEN live \ {i} ELSE live \cup {i}
    /\ UNCHANGED <<due, version, posted_at, course>>

\* save_profile replaces the row.
SaveProfile(p) ==
    /\ edits < MaxEdits
    /\ edits' = edits + 1
    /\ p # profile
    /\ profile' = p
    /\ UNCHANGED <<now, live, due, version, posted_at, course, taskVars, relevance, sync_state,
                   state, row, closing, pc, loopVars, faults>>

SetCourse(c) ==
    /\ Teach
    /\ course # c
    /\ course' = c
    /\ UNCHANGED <<live, due, version, posted_at>>

\* A sync takes seconds: the clock moves between two of them.
Advance ==
    /\ pc = "idle"
    /\ now + Step <= Horizon
    /\ now' = now + Step
    /\ UNCHANGED <<sourceVars, dbVars, pc, loopVars, faults>>

-----------------------------------------------------------------------------
Init ==
    /\ now = 0
    /\ live = {} /\ course = "ACTIVE" /\ edits = 0
    /\ due = [i \in Items |-> NoDate]
    /\ version = [i \in Items |-> 0]
    /\ posted_at = [i \in Items |-> 0]
    /\ status = [i \in Items |-> "ABSENT"]
    /\ actual_deadline = [i \in Items |-> NoDate]
    /\ source_updated_at = [i \in Items |-> 0]
    /\ created_at = [i \in Items |-> 0]
    /\ relevance = [i \in Items |-> "relevant"]
    /\ profile = NoRow /\ sync_state = "NEVER"
    /\ state = "ABSENT"
    /\ row = <<>>
    /\ closing = {}
    /\ pc = "idle" /\ sources = <<>> /\ read = <<>>
    /\ batch = {} /\ plan = {} /\ seen = {} /\ absent = {} /\ doomed = {} /\ strays = {}
    /\ item = NoItem /\ mode = "same"
    /\ context = Unavailable /\ errors = FALSE
    /\ faults = [many |-> 0, broken |-> FALSE]

SyncStep ==
    \/ StartSync \/ ListCourses \/ Fetch \/ SourceDone
    \/ \E e \in batch : Upsert(e)
    \/ Judge \/ FeedAlert \/ Recount \/ AnnounceChange
    \/ \E p \in plan : InsertPlanned(p)
    \/ SelectMissing
    \/ \E i \in Items : Withdraw(i) \/ MarkMissed(i)
    \/ WithdrawReminders \/ Backlog \/ MissedReminders \/ SelectStray \/ HealStray
    \/ RecordResult

FaultStep ==
    \/ ListCoursesFails \/ SourceFails \/ JudgeFails \/ Crash \/ CheckSync
    \/ \E i \in Items : CompleteCrash(i)

TeacherStep ==
    \/ \E i \in Items : \E d \in Dates(i) : Post(i, d) \/ Edit(i, d)
    \/ \E i \in Items : Toggle(i)
    \/ \E c \in {"ACTIVE", "ARCHIVED", "GONE"} : SetCourse(c)

Next ==
    \/ SyncStep \/ FaultStep \/ TeacherStep \/ Advance \/ Dispatch
    \/ \E i \in Items : Complete(i) \/ CompleteCancel(i)
    \/ \E p \in Profiles : SaveProfile(p)

Spec == Init /\ [][Next]_vars

\* The tick starts a sync again and again and each runs to its end, unless a
\* fault stops it; faults are finitely many.  Nobody else has to do anything.
FairSpec == Spec /\ WF_vars(SyncStep)

-----------------------------------------------------------------------------
(* Properties. *)

Types == { "NEW_ASSIGNMENT", "T_MINUS_7D", "T_MINUS_5D", "T_MINUS_2D", "T_MINUS_1D",
           "DUE_TODAY", "FEW_HOURS", "FINAL_1H", "MIDPOINT", "DEADLINE_REACHED",
           "DEADLINE_CHANGED", "NEW_POST" }

TaskAnchoredTypes == { "NEW_ASSIGNMENT", "NEW_POST" }

Keys == { Key(i, t, d) : i \in Items, t \in Types \ TaskAnchoredTypes, d \in Deadlines \cup {NoDate} }
        \cup { Key(i, t, NoDate) : i \in Items, t \in TaskAnchoredTypes }

\* The type of every column and of the state of the sync.  The two pings of a
\* task appearing are keyed by the task alone, in every interleaving.
TypeOK ==
    /\ now \in 0 .. Horizon
    /\ status \in [Items -> {"ABSENT", "OPEN"} \cup Terminal]
    /\ actual_deadline \in [Items -> Deadlines \cup {NoDate}]
    /\ source_updated_at \in [Items -> 0 .. MaxEdits]
    /\ created_at \in [Items -> 0 .. Horizon]
    /\ relevance \in [Items -> Decisions]
    /\ profile \in Profiles \cup {NoRow}
    /\ context \in Profiles \cup {Unavailable, <<>>, LegacyProfile}
    /\ sync_state \in {"NEVER", "RUNNING", "OK", "ERROR"}
    /\ errors \in BOOLEAN
    /\ state \in {"ABSENT", "ACTIVE", "ARCHIVED"}
    /\ DOMAIN row \subseteq Keys
    /\ \A k \in DOMAIN row : row[k].status \in {"PENDING", "SENT", "CANCELLED"}
    /\ closing \subseteq Items
    /\ \A p \in plan : p.key \in Keys
    /\ doomed \subseteq Items /\ strays \subseteq Keys
    /\ seen \subseteq Items

Announcing(i) == { k \in DOMAIN row : k.task = i /\ k.type = "NEW_ASSIGNMENT" }

\* "Every newly discovered ACTIONABLE task gets exactly one NEW_ASSIGNMENT
\* reminder", however often its deadline moves: between syncs, an open task whose
\* deadline lies ahead has been announced, and never twice.  (A database error
\* or a crash right after the upsert does lose the ping: the task is not new again.)
AnnouncedOnce ==
    \A i \in Coursework :
        /\ Cardinality(Announcing(i)) <= 1
        /\ Unbroken /\ pc = "idle" /\ status[i] = "OPEN" /\ actual_deadline[i] # NoDate
             /\ now < actual_deadline[i] => Announcing(i) # {}

\* Between syncs nothing waits to be sent about a deadline the task no longer
\* has, or about a task that was withdrawn, and of a missed one only that its
\* deadline was reached - unless a fault fell between the two commits of a
\* change: the stored updateTime then hides it from the next sync.  Two syncs at
\* once may do as much: the older fetch overwrites the newer.
NoStaleCountdown ==
    Unbroken /\ pc = "idle" => \A k \in DOMAIN row :
        IsPending(k) => /\ status[k.task] # "CANCELLED"
                        /\ status[k.task] = "MISSED" => k.type = "DEADLINE_REACHED"
                        /\ k.deadline \in {NoDate, actual_deadline[k.task]}

\* A task is CANCELLED only because Classroom, when that sync asked it, did not
\* return the item: a source that could not be read never cancels anything.
CancelledWasGone ==
    [][\A i \in Items :
         status[i] # "CANCELLED" /\ status'[i] = "CANCELLED" => i \in absent \/ i \notin live]_vars

\* A completion reported while a sync runs: the deadline clean-up never turns the
\* task into a missed one, and the withdrawal takes it only if it had already
\* been selected - no clean-up selects a task that is completed.
CompletionRespected ==
    [][\A i \in Items : status[i] = "COMPLETED" =>
         /\ status'[i] \in {"COMPLETED", "CANCELLED"}
         /\ status'[i] = "CANCELLED" => i \in doomed
         /\ i \in doomed' => i \in doomed]_vars

\* Once the teacher and the student have stopped and the faults are over, the
\* tasks of an active course come to mirror it for good: every item is stored
\* with its due date and judged by the profile now saved, no task of a withdrawn
\* item is open, and no failure is shown any more (classroom_sync.py).
Mirrors(i) ==
    IF i \in live
    THEN /\ Known(i) /\ actual_deadline[i] = due[i]
         /\ relevance[i] = Decision(i, LoadProfile(profile, Unlinked, LegacyProfile))
    ELSE status[i] # "OPEN"

EventuallyReconciled ==
    <>[](course = "ACTIVE" => /\ \A i \in Items : Mirrors(i)
                              /\ sync_state # "ERROR")

-----------------------------------------------------------------------------
(* What a comment of the code says and the code does not do. *)

\* "When Classroom moves the deadline the old ones are cancelled and a fresh set
\* is created": between syncs, a task still to be done whose deadline lies ahead
\* has the last reminder of that deadline waiting.
CountdownPlanned ==
    Unbroken /\ pc = "idle" =>
        \A i \in Coursework :
            status[i] = "OPEN" /\ actual_deadline[i] # NoDate /\ now < actual_deadline[i]
              => IsPending(Key(i, "DEADLINE_REACHED", actual_deadline[i]))

\* '"Deadline reached" fires at the moment a task turns MISSED, so it must still
\* go out then' (repo.py): no clean-up cancels it while due_pending_reminders
\* would select it.  The clean-ups of the sync that finds the task missed do.
DeadlineReachedGoesOut ==
    [][\A k \in DOMAIN row : k.type = "DEADLINE_REACHED" /\ k \in DueNow
                                => row'[k].status # "CANCELLED" \/ status[k.task] # "MISSED"]_vars
=============================================================================
