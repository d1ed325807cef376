---------------------------- MODULE CalendarSync ----------------------------
(***************************************************************************)
(* One account's deadlines in its Google calendar                          *)
(* (ragra/sync/calendar_sync.py, calendar_events in ragra/db/repo.py): the *)
(* reconciliation task by task, each a look at the database, a call of the *)
(* Calendar API and a commit, against tasks that change, calls that fail,  *)
(* events the person removes, crashes and overlapping runs.                *)
(*                                                                         *)
(* Tasks are their ids.  A deadline is a name; an event carries the        *)
(* deadline of its last body.                                              *)
(***************************************************************************)
EXTENDS Naturals, FiniteSets

CONSTANTS
    Tasks,      \* ids of the account's tasks
    Deadlines,  \* actual deadlines
    NoDeadline,
    EventIds,   \* ids Google may give to an event
    Syncs,      \* processes that run the calendar stage
    MaxEdits,   \* bound on the changes of tasks
    Faults      \* what may go wrong

ASSUME CalendarAssumption ==
    /\ Tasks \subseteq Nat /\ IsFiniteSet(Tasks) /\ 0 \notin Tasks
    /\ EventIds \subseteq Nat /\ IsFiniteSet(EventIds) /\ 0 \notin EventIds
    /\ NoDeadline \notin Deadlines
    /\ Faults \subseteq {"api", "person", "crash"}
    /\ MaxEdits \in Nat

VARIABLES
    task,     \* status and actual_deadline of each task
    remote,   \* the events Ragra created that are in the calendar
    records,  \* calendar_events: per task, the event ids stored
    sync,     \* what each process is doing
    edits,    \* changes of tasks so far
    changed,  \* tasks touched since a pass began (history)
    crashed,  \* whether a process has died, bound: once
    removed,  \* whether the person has removed an event (history)
    lost      \* tasks whose new event was never recorded (history)

vars == <<task, remote, records, sync, edits, changed, crashed, removed, lost>>
mishaps == <<crashed, removed, lost>>

Event(e, t, d) == [id |-> e, task |-> t, deadline |-> d]
Live(t) == { v \in remote : v.task = t }
Gone(e) == \A v \in remote : v.id # e

Idle == [pc |-> "idle", todo |-> {}, task |-> 0, deadline |-> NoDeadline, event |-> 0]

InUse == { v.id : v \in remote } \cup UNION { records[t] : t \in Tasks }
            \cup { sync[p].event : p \in Syncs }

\* The first of a set of ids, if there is one.
First(ids) == { i \in ids : \A j \in ids : i <= j }

-----------------------------------------------------------------------------
\* sync_all_task_events: the tasks with a deadline or with a stored event.
Start(p) ==
    /\ sync[p].pc = "idle"
    /\ sync' = [sync EXCEPT ![p] = [Idle EXCEPT !.pc = "next",
                  !.todo = { t \in Tasks : task[t].deadline # NoDeadline \/ records[t] # {} }]]
    /\ changed' = {}
    /\ UNCHANGED <<task, remote, records, edits, mishaps>>

\* Regression: an event is removed only with its deadline.
HasDeadline(t) == task[t].deadline # NoDeadline

ShouldHaveEvent(t) == task[t].deadline # NoDeadline /\ task[t].status = "open"

\* The event stored for a task, 0 for none.
Known(t) == IF records[t] = {} THEN {0} ELSE First(records[t])

Decision(t, e) ==
    IF ShouldHaveEvent(t) THEN IF e = 0 THEN "create" ELSE "update"
    ELSE IF e = 0 THEN "next" ELSE "delete"

Taken(s, t, e) == [s EXCEPT !.todo = s.todo \ {t}, !.task = t, !.deadline = task[t].deadline, !.event = e,
                            !.pc = Decision(t, e)]

\* Regression: the stored event id is not looked up.
LookBlind(p) ==
    /\ sync[p].pc = "next"
    /\ \E t \in First(sync[p].todo) :
          sync' = [sync EXCEPT ![p] = Taken(@, t, 0)]
    /\ UNCHANGED <<task, remote, records, edits, changed, mishaps>>

\* sync_task_event reads the task and its stored event, and decides.
Look(p) ==
    /\ sync[p].pc = "next"
    /\ \E t \in First(sync[p].todo) : \E e \in Known(t) : sync' = [sync EXCEPT ![p] = Taken(@, t, e)]
    /\ UNCHANGED <<task, remote, records, edits, changed, mishaps>>

Create(p) ==
    /\ sync[p].pc = "create"
    /\ \E e \in First(EventIds \ InUse) :
          /\ remote' = remote \cup {Event(e, sync[p].task, sync[p].deadline)}
          /\ sync' = [sync EXCEPT ![p] = [@ EXCEPT !.pc = "record", !.event = e]]
    /\ UNCHANGED <<task, records, edits, changed, mishaps>>

Update(p) ==
    /\ sync[p].pc = "update" /\ ~Gone(sync[p].event)
    /\ remote' = { IF v.id = sync[p].event THEN [v EXCEPT !.deadline = sync[p].deadline] ELSE v
                   : v \in remote }
    /\ sync' = [sync EXCEPT ![p].pc = "record"]
    /\ UNCHANGED <<task, records, edits, changed, mishaps>>

\* delete_event takes an event that is gone already for deleted.
Delete(p) ==
    /\ sync[p].pc = "delete"
    /\ remote' = { v \in remote : v.id # sync[p].event }
    /\ sync' = [sync EXCEPT ![p].pc = "forget"]
    /\ UNCHANGED <<task, records, edits, changed, mishaps>>

Calling(p) == sync[p].pc \in {"create", "update", "delete"}

\* The API refuses: the exception ends the stage, with every later task.
\* An update of an event that is gone always is refused.
CallFails(p) ==
    /\ \/ "api" \in Faults /\ Calling(p)
       \/ sync[p].pc = "update" /\ Gone(sync[p].event)
    /\ sync' = [sync EXCEPT ![p] = Idle]
    /\ UNCHANGED <<task, remote, records, edits, changed, mishaps>>

\* record_calendar_event: a stored event id is only touched.
Record(p) ==
    /\ sync[p].pc = "record"
    /\ records' = IF \E t \in Tasks : sync[p].event \in records[t] THEN records
                  ELSE [records EXCEPT ![sync[p].task] = @ \cup {sync[p].event}]
    /\ sync' = [sync EXCEPT ![p] = [@ EXCEPT !.pc = "next", !.event = 0]]
    /\ UNCHANGED <<task, remote, edits, changed, mishaps>>

\* delete_calendar_event_record, by task
Forget(p) ==
    /\ sync[p].pc = "forget"
    /\ records' = [records EXCEPT ![sync[p].task] = {}]
    /\ sync' = [sync EXCEPT ![p] = [@ EXCEPT !.pc = "next", !.event = 0]]
    /\ UNCHANGED <<task, remote, edits, changed, mishaps>>

End(p) ==
    /\ sync[p].pc = "next" /\ sync[p].todo = {}
    /\ sync' = [sync EXCEPT ![p] = Idle]
    /\ UNCHANGED <<task, remote, records, edits, changed, mishaps>>

Crash(p) ==
    /\ "crash" \in Faults /\ ~crashed /\ sync[p].pc # "idle"
    /\ crashed' = TRUE
    /\ lost' = IF sync[p].pc = "record" /\ sync[p].event \notin records[sync[p].task]
               THEN lost \cup {sync[p].task} ELSE lost
    /\ sync' = [sync EXCEPT ![p] = Idle]
    /\ UNCHANGED <<task, remote, records, edits, changed, removed>>

-----------------------------------------------------------------------------
\* A task is completed, or cancelled by its source; neither is undone.
Close(t) ==
    /\ task[t].status = "open"
    /\ task' = [task EXCEPT ![t].status = "closed"]
    /\ changed' = changed \cup {t}
    /\ UNCHANGED <<remote, records, sync, edits, mishaps>>

\* Classroom gives the task another deadline, or none.
Reschedule(t, d) ==
    /\ edits < MaxEdits /\ edits' = edits + 1
    /\ task[t].deadline # d
    /\ task' = [task EXCEPT ![t].deadline = d]
    /\ changed' = changed \cup {t}
    /\ UNCHANGED <<remote, records, sync, mishaps>>

\* The person removes an event from the calendar.
PersonRemoves(v) ==
    /\ "person" \in Faults
    /\ remote' = remote \ {v}
    /\ changed' = changed \cup {v.task}
    /\ removed' = TRUE
    /\ UNCHANGED <<task, records, sync, edits, crashed, lost>>

Init ==
    /\ task \in [Tasks -> [status : {"open"}, deadline : Deadlines \cup {NoDeadline}]]
    /\ remote = {} /\ records = [t \in Tasks |-> {}]
    /\ sync = [p \in Syncs |-> Idle]
    /\ edits = 0 /\ changed = {}
    /\ crashed = FALSE /\ removed = FALSE /\ lost = {}

Call(p) == Create(p) \/ Update(p) \/ Delete(p)
Step(p) == Start(p) \/ Look(p) \/ Call(p) \/ CallFails(p) \/ Record(p) \/ Forget(p) \/ End(p)

World ==
    \/ \E t \in Tasks : Close(t)
    \/ \E t \in Tasks, d \in Deadlines \cup {NoDeadline} : Reschedule(t, d)
    \/ \E v \in remote : PersonRemoves(v)

Next == World \/ \E p \in Syncs : Step(p) \/ Crash(p)

Spec == Init /\ [][Next]_vars

\* Every tick runs the stage again, and a call made for a task in tick after
\* tick is answered once.
FairSpec ==
    /\ Spec
    /\ \A p \in Syncs :
          /\ WF_vars(Step(p))
          /\ \A t \in Tasks : SF_vars(sync[p].task = t /\ Call(p))

-----------------------------------------------------------------------------
Pass == [pc : {"idle", "next", "create", "update", "delete", "record", "forget"}, todo : SUBSET Tasks,
         task : Tasks \cup {0}, deadline : Deadlines \cup {NoDeadline}, event : EventIds \cup {0}]

\* The types; a pass at work is at a task, and an event is made for a deadline.
TypeOK ==
    /\ task \in [Tasks -> [status : {"open", "closed"}, deadline : Deadlines \cup {NoDeadline}]]
    /\ remote \subseteq [id : EventIds, task : Tasks, deadline : Deadlines]
    /\ records \in [Tasks -> SUBSET EventIds] /\ sync \in [Syncs -> Pass]
    /\ changed \subseteq Tasks /\ lost \subseteq Tasks /\ edits \in 0..MaxEdits
    /\ {crashed, removed} \subseteq BOOLEAN
    /\ \A p \in Syncs : /\ sync[p].pc \notin {"idle", "next"} => sync[p].task \in Tasks
                        /\ sync[p].pc \in {"create", "update"} => sync[p].deadline \in Deadlines
                        /\ sync[p].pc \in {"update", "delete", "record", "forget"} => sync[p].event \in EventIds

\* The tick thread is alone, nobody runs the calendar stage by hand beside it.
OnePass == \A p \in Syncs, q \in Syncs : p = q

\* A task has at most one event in the calendar, with one pass at a time and
\* unless the process died between the answer of the API and the record
\* (calendar_sync.py, sync_task_event).
NoDuplicateEvent == OnePass => \A v \in remote, w \in remote : v.task = w.task /\ v.task \notin lost => v = w

\* Where a pass ends, the calendar shows every task it did not change under
\* as the task is: its deadline if it is open and has one, nothing otherwise.
PassReconciles ==
    OnePass => \A p \in Syncs : sync[p].pc = "next" /\ sync[p].todo = {} =>
        \A t \in Tasks \ (changed \cup lost) :
            { v.deadline : v \in Live(t) }
                = IF task[t].status = "closed" THEN {} ELSE {task[t].deadline} \ {NoDeadline}

\* The event of a task that is done with leaves the calendar, whatever calls
\* fail and wherever a process dies, as long as nobody removes an event by hand:
\* the update of one that is gone is refused and ends every later pass too.
ClosedRemoved ==
    OnePass => \A t \in Tasks : task[t].status = "closed" ~> (Live(t) = {} \/ t \in lost \/ removed)
=============================================================================
