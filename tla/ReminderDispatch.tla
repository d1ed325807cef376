-------------------------- MODULE ReminderDispatch --------------------------
(***************************************************************************)
(* The reminders table and everything that writes it while the app runs:   *)
(*                                                                         *)
(*   - the processes that run the tick or one of its stages by hand        *)
(*     (ragra/cli.py).  Each is either in its sync stage, which queues and *)
(*     cancels reminders, or in a dispatch pass over the rows it fetched   *)
(*     (ragra/reminders/dispatch.py);                                      *)
(*   - the web requests that complete a task (ragra/web/app.py);           *)
(*   - the clock, and, at most MaxCrashes times, the end of a process or   *)
(*     an exception at any point of what it does.                          *)
(*                                                                         *)
(* One action is one commit of the database or one call of the providers.  *)
(* Times are minutes.  received, rounds, posted and unsure are history     *)
(* variables: what the outside world has seen of a reminder, and the rows  *)
(* whose columns may not tell it: two passes held them at once, or a pass  *)
(* ended between a delivery round and the commit of its outcome.           *)
(***************************************************************************)
EXTENDS Naturals, FiniteSets

CONSTANTS
    Reminders,       \* rows of the reminders table, by idempotency key
    Tasks,
    TaskOf,          \* the task each reminder is about
    DeadlineAlerts,  \* the reminders of type DEADLINE_REACHED
    Appearances,     \* the reminders of type NEW_ASSIGNMENT
    Procs,           \* processes that may run a dispatch pass
    Hosted,          \* those of them that run the tick for ever
    Providers,       \* delivery channels an account may configure
    MaxAttempts,     \* MAX_ATTEMPTS
    RetryDelay,      \* RETRY_DELAY
    Grace,           \* how late a DEADLINE_REACHED may still go out
    ScheduleTimes,   \* scheduled_for of the reminders the sync stage inserts
    Step, Horizon,   \* the clock advances by Step, up to Horizon
    MaxCrashes,      \* how often a process may end in the middle of its work
    None             \* no current row

ASSUME DispatchAssumption ==
    /\ TaskOf \in [Reminders -> Tasks]
    /\ DeadlineAlerts \subseteq Reminders /\ Appearances \subseteq Reminders
    /\ Hosted \subseteq Procs
    /\ MaxAttempts \in Nat \ {0}
    /\ RetryDelay \in Nat /\ Grace \in Nat
    /\ ScheduleTimes \subseteq Nat
    /\ Step \in Nat \ {0} /\ Horizon \in Nat
    /\ MaxCrashes \in Nat
    /\ None \notin Reminders \cup Tasks /\ Reminders \cap Tasks = {}

VARIABLES
    now,        \* minutes since the start
    status, scheduled_for, attempt_count, next_retry_at,  \* columns of reminders
    task,       \* tasks.status; every non-terminal status is "OPEN"
    muted,      \* tasks whose course is archived or that are for another section
    configured, \* the providers the account has configured
    pc,         \* what each process is doing
    at,         \* the `now` of its dispatch pass
    via,        \* the providers its pass was built with
    todo,       \* rows it has selected and not yet dealt with
    seen,       \* attempt_count of each row as the pass fetched it
    job,        \* the row (dispatch) or task (sync) it is working on
    closing,    \* tasks whose completion request is between its two commits
    received,   \* how often each provider has delivered each reminder
    rounds,     \* how many delivery rounds each reminder has had
    posted,     \* how often each reminder was added to the in-app thread
    unsure,     \* the rows whose columns may not tell what was delivered
    crashes     \* how often a process or a request has ended half-way

rowVars   == <<status, scheduled_for, attempt_count, next_retry_at>>
procVars  == <<pc, at, via, todo, seen, job>>
worldVars == <<received, rounds, posted, unsure, crashes>>
vars == <<now, rowVars, task, muted, configured, procVars, closing, worldVars>>

Statuses     == {"ABSENT", "PENDING", "SENT", "FAILED", "CANCELLED"}
TaskStatuses == {"OPEN", "COMPLETED", "CANCELLED", "MISSED"}

NoAttempts == [r \in Reminders |-> 0]

-----------------------------------------------------------------------------
(* due_pending_reminders: what a pass that starts at time t selects.  A     *)
(* next_retry_at that was never set is 0, which is always past.             *)

\* Regression: every row whose time has come, whatever its status.
ScheduledAnyStatus(r, t) == /\ status[r] # "ABSENT"
                            /\ scheduled_for[r] <= t

Scheduled(r, t) == /\ status[r] = "PENDING"
                   /\ scheduled_for[r] <= t

\* Regression: the backoff of a failed attempt is not consulted.
BackedOffIgnored(r, t) == FALSE

BackedOff(r, t) == next_retry_at[r] > t

\* Regression: the status of the task is left to the writers of the table.
TaskAllowsAlways(r) == TRUE

TaskAllows(r) == \/ task[TaskOf[r]] = "OPEN"
                 \/ r \in DeadlineAlerts /\ task[TaskOf[r]] = "MISSED"

Stale(r, t) == r \in DeadlineAlerts /\ scheduled_for[r] + Grace < t

Due(r, t) == /\ Scheduled(r, t)
             /\ ~BackedOff(r, t)
             /\ TaskAllows(r)
             /\ ~Stale(r, t)
             /\ TaskOf[r] \notin muted

-----------------------------------------------------------------------------
(* The dispatch pass. *)

\* A process goes back to its idle state, with nothing in hand.
Idle(p) == /\ pc'   = [pc EXCEPT ![p] = "idle"]
           /\ at'   = [at EXCEPT ![p] = 0]
           /\ via'  = [via EXCEPT ![p] = {}]
           /\ todo' = [todo EXCEPT ![p] = {}]
           /\ seen' = [seen EXCEPT ![p] = NoAttempts]
           /\ job'  = [job EXCEPT ![p] = None]

\* A row a dispatch pass is holding.
InHand(r) == \E p \in Procs : r \in todo[p] /\ pc[p] # "healing"

\* The pass reads the clock, builds the providers and fetches its rows.  With
\* no provider, or nothing due, it would end without having changed anything.
StartPass(p) ==
    LET due == { r \in Reminders : Due(r, now) }
    IN  /\ pc[p] = "idle"
        /\ configured # {}
        /\ due # {}
        /\ pc'   = [pc EXCEPT ![p] = "loop"]
        /\ at'   = [at EXCEPT ![p] = now]
        /\ via'  = [via EXCEPT ![p] = configured]
        /\ todo' = [todo EXCEPT ![p] = due]
        /\ seen' = [seen EXCEPT ![p] = [r \in Reminders |->
                        IF r \in due THEN attempt_count[r] ELSE 0]]
        /\ unsure' = unsure \cup { r \in due : InHand(r) }
        /\ UNCHANGED <<now, rowVars, task, muted, configured, job, closing,
                       received, rounds, posted, crashes>>

\* ORDER BY scheduled_for.
Earliest(p, r) ==
    /\ r \in todo[p]
    /\ \A q \in todo[p] : scheduled_for[r] <= scheduled_for[q]

\* send_to_all_providers: every provider is tried, ok is the set that delivered.
Send(p, r, ok) ==
    /\ pc[p] = "loop"
    /\ Earliest(p, r)
    /\ ok \subseteq via[p]
    /\ job' = [job EXCEPT ![p] = r]
    /\ received' = [received EXCEPT ![r] =
                      [v \in Providers |-> received[r][v] + (IF v \in ok THEN 1 ELSE 0)]]
    /\ rounds' = [rounds EXCEPT ![r] = @ + 1]
    /\ pc' = [pc EXCEPT ![p] = IF ok = {} THEN "undelivered" ELSE "delivered"]
    /\ UNCHANGED <<now, rowVars, task, muted, configured, at, via, todo, seen, closing,
                   posted, unsure, crashes>>

\* Regression: only the retry columns are written after a delivery.
MarkSentForgotten(p) ==
    /\ pc[p] = "delivered"
    /\ pc' = [pc EXCEPT ![p] = "post"]
    /\ UNCHANGED <<now, rowVars, task, muted, configured, at, via, todo, seen, job,
                   closing, worldVars>>

\* mark_reminder_sent: whatever the status has become since the fetch.
MarkSent(p) ==
    /\ pc[p] = "delivered"
    /\ status' = [status EXCEPT ![job[p]] = "SENT"]
    /\ pc' = [pc EXCEPT ![p] = "post"]
    /\ UNCHANGED <<now, scheduled_for, attempt_count, next_retry_at, task, muted, configured,
                   at, via, todo, seen, job, closing, worldVars>>

\* add_chat_message: the alert also lands in the in-app thread.
Post(p) ==
    /\ pc[p] = "post"
    /\ posted' = [posted EXCEPT ![job[p]] = @ + 1]
    /\ todo' = [todo EXCEPT ![p] = @ \ {job[p]}]
    /\ pc' = [pc EXCEPT ![p] = "loop"]
    /\ job' = [job EXCEPT ![p] = None]
    /\ UNCHANGED <<now, rowVars, task, muted, configured, at, via, seen, closing,
                   received, rounds, unsure, crashes>>

Attempt(p) == seen[p][job[p]] + 1

\* Regression: the comparison against the budget is off by one.
ExhaustedLate(p) == Attempt(p) > MaxAttempts

Exhausted(p) == Attempt(p) >= MaxAttempts

\* mark_reminder_for_retry or mark_reminder_failed, from the attempt_count and
\* the `now` of the fetch.
RecordFailure(p) ==
    /\ pc[p] = "undelivered"
    /\ attempt_count' = [attempt_count EXCEPT ![job[p]] = Attempt(p)]
    /\ IF Exhausted(p)
       THEN /\ status' = [status EXCEPT ![job[p]] = "FAILED"]
            /\ UNCHANGED next_retry_at
       ELSE /\ next_retry_at' = [next_retry_at EXCEPT ![job[p]] = at[p] + RetryDelay]
            /\ UNCHANGED status
    /\ todo' = [todo EXCEPT ![p] = @ \ {job[p]}]
    /\ pc' = [pc EXCEPT ![p] = "loop"]
    /\ job' = [job EXCEPT ![p] = None]
    /\ UNCHANGED <<now, scheduled_for, task, muted, configured, at, via, seen, closing, worldVars>>

EndPass(p) ==
    /\ pc[p] = "loop"
    /\ todo[p] = {}
    /\ Idle(p)
    /\ UNCHANGED <<now, rowVars, task, muted, configured, closing, worldVars>>

-----------------------------------------------------------------------------
(* The sync stage of the same processes, and the web. *)

\* cancel_pending_reminders of one task, but for the types the caller keeps.
CancelPending(t, kept) ==
    /\ status' = [r \in Reminders |->
                    IF TaskOf[r] = t /\ status[r] = "PENDING" /\ r \notin kept
                    THEN "CANCELLED" ELSE status[r]]
    /\ UNCHANGED <<scheduled_for, attempt_count, next_retry_at>>

Insert(r, t) ==
    /\ status' = [status EXCEPT ![r] = "PENDING"]
    /\ scheduled_for' = [scheduled_for EXCEPT ![r] = t]
    /\ attempt_count' = [attempt_count EXCEPT ![r] = 0]
    /\ next_retry_at' = [next_retry_at EXCEPT ![r] = 0]

\* Regression: INSERT OR REPLACE in the place of INSERT OR IGNORE.
QueueReplacing(p, r, t) ==
    /\ pc[p] = "idle"
    /\ t >= now
    /\ Insert(r, t)
    /\ UNCHANGED <<now, task, muted, configured, procVars, closing, worldVars>>

\* insert_reminder_if_absent: a key that exists, in any status, is left alone.
Queue(p, r, t) ==
    /\ pc[p] = "idle"
    /\ status[r] = "ABSENT"
    /\ t >= now
    /\ Insert(r, t)
    /\ UNCHANGED <<now, task, muted, configured, procVars, closing, worldVars>>

\* cancel_tasks_missing_from_source and mark_overdue_tasks_as_missed: the task
\* is closed in one commit, its pending reminders cancelled in the next.
SyncClose(p, t, s) ==
    /\ pc[p] = "idle"
    /\ \/ s = "CANCELLED" /\ task[t] \in {"OPEN", "MISSED"}
       \/ s = "MISSED" /\ task[t] = "OPEN"
    /\ task' = [task EXCEPT ![t] = s]
    /\ pc' = [pc EXCEPT ![p] = "closing"]
    /\ job' = [job EXCEPT ![p] = t]
    /\ UNCHANGED <<now, rowVars, muted, configured, at, via, todo, seen, closing, worldVars>>

SyncCancel(p) ==
    /\ pc[p] = "closing"
    /\ CancelPending(job[p], {})
    /\ Idle(p)
    /\ UNCHANGED <<now, task, muted, configured, closing, worldVars>>

\* A deadline has moved: the countdown goes and the appearance stays, whatever
\* the task's status.  Or the task was found past its deadline
\* (cancel_backlog_reminders): everything goes, and it may have been closed since
\* the clean-up selected it.
SyncWithdraw(p, t, kept) ==
    /\ pc[p] = "idle"
    /\ CancelPending(t, kept)
    /\ UNCHANGED <<now, task, muted, configured, procVars, closing, worldVars>>

\* Regression: the clean-up finds nothing.
StrayNone == {}

\* cancel_stray_reminders_for_terminal_tasks: selects the rows, then updates
\* them by id, whatever their status is by then.
Stray == { r \in Reminders : status[r] = "PENDING" /\ task[TaskOf[r]] # "OPEN" }

HealSelect(p) ==
    /\ pc[p] = "idle"
    /\ Stray # {}
    /\ pc' = [pc EXCEPT ![p] = "healing"]
    /\ todo' = [todo EXCEPT ![p] = Stray]
    /\ UNCHANGED <<now, rowVars, task, muted, configured, at, via, seen, job, closing, worldVars>>

HealCancel(p) ==
    /\ pc[p] = "healing"
    /\ status' = [r \in Reminders |-> IF r \in todo[p] THEN "CANCELLED" ELSE status[r]]
    /\ UNCHANGED <<scheduled_for, attempt_count, next_retry_at>>
    /\ Idle(p)
    /\ UNCHANGED <<now, task, muted, configured, closing, worldVars>>

\* update_course_state_if_known / upsert_course and set_task_relevance.
Mute(p, t) ==
    /\ pc[p] = "idle"
    /\ muted' = IF t \in muted THEN muted \ {t} ELSE muted \cup {t}
    /\ UNCHANGED <<now, rowVars, task, configured, procVars, closing, worldVars>>

\* POST /tasks/{id}/complete: mark_completed, whatever the status ...
Complete(t) ==
    /\ t \notin closing
    /\ task[t] # "COMPLETED"
    /\ task' = [task EXCEPT ![t] = "COMPLETED"]
    /\ closing' = closing \cup {t}
    /\ UNCHANGED <<now, rowVars, muted, configured, procVars, worldVars>>

\* ... and then cancel_pending_reminders.
CompleteCancel(t) ==
    /\ t \in closing
    /\ CancelPending(t, {})
    /\ closing' = closing \ {t}
    /\ UNCHANGED <<now, task, muted, configured, procVars, worldVars>>

\* The account's preferences page.
Configure(vs) ==
    /\ configured' = vs
    /\ configured' # configured
    /\ UNCHANGED <<now, rowVars, task, muted, procVars, closing, worldVars>>

Advance ==
    /\ now + Step <= Horizon
    /\ now' = now + Step
    /\ UNCHANGED <<rowVars, task, muted, configured, procVars, closing, worldVars>>

\* The process is killed, or an exception ends its stage: what it had selected
\* is forgotten, what it committed stays.
Crash(p) ==
    /\ pc[p] # "idle"
    /\ crashes < MaxCrashes
    /\ crashes' = crashes + 1
    /\ unsure' = IF pc[p] \in {"delivered", "undelivered"} THEN unsure \cup {job[p]} ELSE unsure
    /\ Idle(p)
    /\ UNCHANGED <<now, rowVars, task, muted, configured, closing, received, rounds, posted>>

\* The same for a completion request.
CrashRequest(t) ==
    /\ t \in closing
    /\ crashes < MaxCrashes
    /\ crashes' = crashes + 1
    /\ closing' = closing \ {t}
    /\ UNCHANGED <<now, rowVars, task, muted, configured, procVars, received, rounds, posted, unsure>>

-----------------------------------------------------------------------------
Init ==
    /\ now = 0
    /\ status = [r \in Reminders |-> "ABSENT"]
    /\ scheduled_for = [r \in Reminders |-> 0]
    /\ attempt_count = [r \in Reminders |-> 0]
    /\ next_retry_at = [r \in Reminders |-> 0]
    /\ task = [t \in Tasks |-> "OPEN"]
    /\ muted = {}
    /\ configured = {}
    /\ pc = [p \in Procs |-> "idle"]
    /\ at = [p \in Procs |-> 0]
    /\ via = [p \in Procs |-> {}]
    /\ todo = [p \in Procs |-> {}]
    /\ seen = [p \in Procs |-> NoAttempts]
    /\ job = [p \in Procs |-> None]
    /\ closing = {}
    /\ received = [r \in Reminders |-> [v \in Providers |-> 0]]
    /\ rounds = [r \in Reminders |-> 0]
    /\ posted = [r \in Reminders |-> 0]
    /\ unsure = {}
    /\ crashes = 0

PassStep(p) ==
    \/ StartPass(p)
    \/ \E r \in Reminders, ok \in SUBSET Providers : Send(p, r, ok)
    \/ MarkSent(p)
    \/ Post(p)
    \/ RecordFailure(p)
    \/ EndPass(p)

SyncStep(p) ==
    \/ \E r \in Reminders, t \in ScheduleTimes : Queue(p, r, t)
    \/ \E t \in Tasks, s \in {"CANCELLED", "MISSED"} : SyncClose(p, t, s)
    \/ SyncCancel(p)
    \/ \E t \in Tasks : SyncWithdraw(p, t, Appearances) \/ SyncWithdraw(p, t, {})
    \/ HealSelect(p)
    \/ HealCancel(p)
    \/ \E t \in Tasks : Mute(p, t)

WebStep ==
    \/ \E t \in Tasks : Complete(t) \/ CompleteCancel(t) \/ CrashRequest(t)
    \/ \E vs \in SUBSET Providers : Configure(vs)

Next ==
    \/ \E p \in Procs : PassStep(p) \/ SyncStep(p) \/ Crash(p)
    \/ WebStep
    \/ Advance

Spec == Init /\ [][Next]_vars

\* The hosted tick runs for ever, a request that has begun ends, time passes, and
\* the Classroom sync of the account keeps getting as far as its last clean-up.
\* A command started by hand may hang anywhere, and nobody has to queue, close,
\* mute or configure anything.
Fairness ==
    /\ \A p \in Hosted : /\ WF_vars(PassStep(p))
                         /\ WF_vars(SyncCancel(p) \/ HealCancel(p))
                         /\ SF_vars(HealSelect(p))
    /\ \A t \in Tasks : WF_vars(CompleteCancel(t))
    /\ WF_vars(Advance)

FairSpec == Spec /\ Fairness

-----------------------------------------------------------------------------
(* Properties. *)

\* The type of every variable.  attempt_count never exceeds the budget, in any
\* interleaving: a pass writes what it fetched from a PENDING row, plus one.
TypeOK ==
    /\ now \in Nat
    /\ status \in [Reminders -> Statuses]
    /\ scheduled_for \in [Reminders -> Nat]
    /\ attempt_count \in [Reminders -> 0 .. MaxAttempts]
    /\ next_retry_at \in [Reminders -> Nat]
    /\ task \in [Tasks -> TaskStatuses]
    /\ muted \subseteq Tasks
    /\ configured \subseteq Providers
    /\ pc \in [Procs -> {"idle", "loop", "delivered", "undelivered", "post", "closing", "healing"}]
    /\ at \in [Procs -> Nat]
    /\ via \in [Procs -> SUBSET Providers]
    /\ todo \in [Procs -> SUBSET Reminders]
    /\ seen \in [Procs -> [Reminders -> 0 .. MaxAttempts - 1]]
    /\ job \in [Procs -> Reminders \cup Tasks \cup {None}]
    /\ closing \subseteq Tasks
    /\ received \in [Reminders -> [Providers -> Nat]]
    /\ rounds \in [Reminders -> Nat]
    /\ posted \in [Reminders -> Nat]
    /\ unsure \subseteq Reminders
    /\ crashes \in 0 .. MaxCrashes

Sure == Reminders \ unsure

\* "Re-running the scheduler can never resend one that already went out": no
\* provider delivers a reminder twice, and it enters the thread at most once,
\* unless two passes held it at once or one ended between the delivery and its
\* commit.  Nothing else, no crash elsewhere and no late clean-up, repeats one.
AtMostOnce ==
    \A r \in Sure : /\ \A v \in Providers : received[r][v] <= 1
                    /\ posted[r] <= 1

\* "It gets up to MAX_ATTEMPTS tries": counted where it matters, in rounds over
\* the providers rather than in the attempt_count column.
BoundedRetry == \A r \in Sure : rounds[r] <= MaxAttempts

Delivered(r) == \E v \in Providers : received[r][v] > 0

\* The stored outcome is what happened: SENT was delivered, FAILED used the whole
\* budget without one delivery, and the thread shows delivered alerts only.
TruthfulOutcome ==
    \A r \in Sure :
        /\ status[r] = "SENT" => Delivered(r)
        /\ status[r] = "FAILED" => ~Delivered(r) /\ rounds[r] = MaxAttempts
        /\ posted[r] > 0 => Delivered(r)

\* A row some process has selected but not yet dealt with.
Claimed(r) == \E p \in Procs : r \in todo[p]

\* An outcome is final: only a pass that had selected the row before it settled
\* can overtake SENT, FAILED or CANCELLED, and nothing returns to PENDING
\* (repo.py, mark_reminder_sent, mark_reminder_failed, cancel_stray).
OutcomeFinal ==
    [][\A r \in Reminders :
         LET old == status[r]
             new == status'[r]
         IN  /\ old \in {"SENT", "FAILED", "CANCELLED"} /\ ~Claimed(r) => new = old
             /\ new = "PENDING" => old \in {"ABSENT", "PENDING"}]_vars

\* Two rounds of the same reminder belong to passes that began at least
\* RETRY_DELAY apart: the backoff is honoured by every pass.
RetriesSpaced ==
    [][\A r \in Sure, p \in Procs :
         rounds'[r] > rounds[r] /\ rounds[r] > 0 /\ job'[p] = r =>
             /\ at[p] >= next_retry_at[r]
             /\ next_retry_at[r] >= RetryDelay]_vars

\* A closed task allows only its own "deadline reached", once it is MISSED.
Closed(r) == task[TaskOf[r]] # "OPEN" /\ ~(r \in DeadlineAlerts /\ task[TaskOf[r]] = "MISSED")

\* Once a task is closed, a reminder that no pass is holding is never sent again:
\* no later pass picks it up, even where the cancellation of the pending rows was
\* lost to a crash.
QuietOnceClosed ==
    [][\A r \in Reminders :
         Closed(r) /\ ~InHand(r) => received'[r] = received[r] /\ ~InHand(r)']_vars

\* What keeps a reminder waiting: nobody to send it through, a muted task, the
\* end of the modelled time, or a "deadline reached" that went stale on a task
\* nobody has marked MISSED.
Excused(r) ==
    \/ configured = {}
    \/ TaskOf[r] \in muted
    \/ scheduled_for[r] > Horizon
    \/ next_retry_at[r] > Horizon
    \/ Stale(r, now) /\ task[TaskOf[r]] = "OPEN"

\* Every queued reminder is eventually sent, given up or cancelled: no row stays
\* in the PENDING pool for ever, whatever the interleaving.
EventuallySettled ==
    \A r \in Reminders :
        status[r] = "PENDING" ~> (status[r] # "PENDING" \/ Excused(r))

-----------------------------------------------------------------------------
(* What the table promises, abstractly.  A withdrawn reminder is one that is  *)
(* CANCELLED and that no dispatch pass still holds.                           *)

Phase(r) ==
    CASE r \in unsure -> "unsure"
      [] r \in Sure /\ status[r] = "ABSENT" -> "none"
      [] r \in Sure /\ Delivered(r) -> "delivered"
      [] r \in Sure /\ ~Delivered(r) /\ rounds[r] >= MaxAttempts -> "failed"
      [] r \in Sure /\ ~Delivered(r) /\ rounds[r] < MaxAttempts
            /\ status[r] = "CANCELLED" /\ ~InHand(r) -> "withdrawn"
      [] OTHER -> "waiting"

Tries(r) == IF r \in unsure THEN 0 ELSE rounds[r]

Abstract == INSTANCE OneShotAlert
    WITH Alerts <- Reminders, Limit <- MaxAttempts,
         phase <- [r \in Reminders |-> Phase(r)],
         tries <- [r \in Reminders |-> Tries(r)]

\* Every step of the table is a step of the abstract alert or a stutter.
ImplementsOneShot == Abstract!Spec
=============================================================================
