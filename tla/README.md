# Ragra in TLA+

Ragra is an academic reminder service: it reads a student's Google Classroom
and the university's timetable sheet, keeps tasks and classes in one SQLite
file, and sends reminders by email, Telegram, WhatsApp or Hermes. The modules
here model its stateful parts commit by commit and call by call, TLC checks them
on small instances, and TLAPS proves every safety property that the runs check
for all values of the constants. `PROJECT.json` lists runs, mutants, the map from
definitions to source lines, hazards and theorems. Paths below are relative to
`src/ragra/`.

    tlc -workers 2 -config Dispatch.cfg MCReminderDispatch
    tlapm ReminderDispatchProofs.tla

## 1. The system

### Who runs

* **The tick.** `cmd_serve_hosted` (cli.py:659) starts one daemon thread that
  calls `cmd_tick` every `RAGRA_TICK_INTERVAL_SECONDS`. A tick opens the database
  (which migrates it), prunes old rows, and for every account runs five stages in
  order: Classroom sync, calendar sync, reminder dispatch with the in-app repeats,
  timetable sync, class reminders. It records each stage's health and may send an
  alert about it.
* **The web server.** FastAPI's handlers are synchronous, so they run on a thread
  pool: any number at once, each with its own SQLite connection, beside the tick.
* **Ad-hoc CLI runs.** `ragra sync`, `ragra tick` and the others run the same
  stages from another process (db/connection.py:54 names the three). One button
  of the account page does the same from inside the web server: the Classroom
  check refreshes the account's Google credential (web/app.py:675) and ends in a
  whole `sync_classroom` (web/app.py:750).

All of them meet in one SQLite file in WAL mode. Isolation is that of a
statement: almost every function of `db/repo.py` commits by itself, and the usual
pattern is *select, work (perhaps over the network), update by id*. So the atomic
step in every module is one commit, or one call to an outside service, and
everything a handler remembers between two of them is explicit state.

### Inventory

| Component | State | Operations | Meets | What makes it correct |
|---|---|---|---|---|
| Reminder engine (`reminders/engine.py`) | none | compute a plan of reminders from deadline and discovery time | called by the sync | nothing in the past or after the deadline, an announcement, an end |
| Relevance and profile (`relevance/`) | `user_profiles`, `tasks.relevance` | judge an item by the sections its text mentions and the student's own | called by the sync, read by dispatch | only what is certainly another section's is silent |
| Reminder dispatch (`reminders/dispatch.py`) | `reminders` | select due rows, send, mark sent / retry / failed | cancelled by sync and forms | at most once, bounded spaced tries, truthful outcome, silence about closed tasks |
| Classroom sync (`sync/classroom_sync.py`) | `courses`, `tasks`, `reminders` | upsert, judge, announce, plan, cancel what vanished, mark overdue, heal | Classroom, dispatch, forms | mirrors the course, announces once, never cancels on a failed read |
| Tick and self-alert (`cli.py`, `health.py`) | `pipeline_health` | stage by stage, streaks, alert | all stages, account deletion | one account or stage never harms another; told once per outage |
| Timetable sync and class reminders (`sync/timetable_sync.py`, `reminders/class_reminders.py`) | `timetable_events`, `class_reminders` | scrape, upsert by place, cancel missing; expire, claim, send | the sheet | timetable = sheet, each class told once and in time |
| Calendar sync (`sync/calendar_sync.py`) | `calendar_events`, Google Calendar | create, update, delete, record | tasks | one event per open task with a deadline |
| Google authorization (`adapters/user_clients.py`, `web/google_reconnect.py`, `adapters/credential_health.py`) | `google_credentials`, token file, `credential_health`, reconnect states | load, refresh, adopt, reconnect, verdict | Google, the tick, the check button | a rotated token reaches the store unless named losses catch it, an attempt is used once, the verdict recovers |
| Migrations (`db/connection.py`, `db/migrator.py`) | the schema, `schema_migrations` | create, add column, rebuild | every process at start | opened means migrated; no rows lost |
| Task forms (`web/app.py`, `db/repo.py`) | `tasks`, `task_history` | create, complete, cancel, archive, edit, make a task of an announcement | sync | one task per announcement, a true history |
| Sign-in and sessions (`web/auth.py`, `web/sessions.py`, `accounts.py`) | `users`, `user_profiles`, `sessions`, `oauth_states` | begin, callback, adopt the old account, sign out, delete | Google | a session is its person's; the owner keeps the history; limits |
| Telegram and preferences (`web/telegram.py`, `notifications/preferences.py`) | `notification_preferences`, `telegram_link_codes` | link, disconnect, save the form, send | dispatch | alerts only reach a chat the account linked |
| In-app thread (`reminders/nags.py`) | `chat_messages` | post, trim, repeat, Received, clear, ask | dispatch, the forms' welcome | Received ends a chain, repeats keep their distance from the last stage's clock and go on until then |

Parsing, rendering, wording, configuration, encryption and the CLI's own
commands keep no state of interest and are listed as not modelled in
`PROJECT.json`.

### What is hard here

1. *Select, then work, then write.* Due reminders, vanished tasks, overdue
   tasks, stray reminders, link codes, states, forms: what was read may be stale
   when it is used.
2. *Commits without a transaction around them.* A completion is two, a changed
   deadline three or more, a calendar event a remote call and one. The process
   can end between any two.
3. *Outside calls that half succeed*: one source of a course, one tab of the
   sheet, one channel of several, a refresh whose new token cannot be stored.
4. *Long histories*: a deadline that moves, goes and comes back; an outage that
   ends and begins again; a tick retried for ever.
5. *Scripts that are not transactions*: `executescript` commits as it goes.

## 2. Modules

Each component has one module (state, `Init`, an action per commit or call,
`Next`, properties; `ChatThread`, `ClassReminders` and `Migrations`, which share a proof
module with another, prefix these names, as in `ThreadInit` and `ClassSpec`), an MC module with the instance's definitions, and a
`.cfg`. Definitions marked *Regression* are the mutated forms used to show that
a property depends on the code; no specification uses them.

| Module | Models | Notes on the correspondence |
|---|---|---|
| `OneShotAlert` | what a reminder promises | abstract: raised, tried at most `Limit` times, then delivered, failed or withdrawn, each final |
| `ReminderDispatch` | the sync stage's insertions and cancellations, `dispatch_due_reminders`, the reminder functions of `repo.py`, the completion handler, the clean-ups; `SyncWithdraw` is what a moved deadline or a task found overdue takes from a task that stays open | any number of processes, each in its sync stage or in a pass; `todo`, `seen`, `at`, `via` are a pass's stale copies of rows, attempt counts, clock and providers; `closing` is a completion between its commits; `unsure` are the rows two passes held at once or a crash caught between delivery and commit. Refines `OneShotAlert` under `Phase` |
| `ReminderPlan` | `compute_reminder_plan` | a pure operator in minutes; MIDPOINT is rounded to a minute |
| `Relevance` | `is_relevant`, `extract_sections`, `_find_course_key`, `load_profile` | pure operators over what the patterns find in a text; containment of course names is a relation given as a constant |
| `ClassroomSync` | `sync_classroom` for one course, `_apply_upsert`, the four clean-ups, completion, saving the profile; dispatch, and the check button's second sync, as one step each | `pc` walks through the code in its order; `batch` is what was fetched, `doomed` and `strays` what a clean-up selected, `context` the profile loaded at the start; `absent` remembers what Classroom did not return. Announcements stand for materials too: they take the same path |
| `ChatThread` | `add_chat_message`, `run_nags`, `due_nags`, `bump_nag`, Received, Received all, clear, the questions and greetings, the form's welcome | the thread is a sequence in the order of ids; `nag` is `next_nag_at` in minutes left; a repeat and its new clock are two commits. `stage` and `lag` say which stage is at work and how long ago it read its clock: the dispatch stage and `run_nags` each read one and count with it however long they take |
| `PipelineHealth` | `cmd_tick`, `_tick_one_user`, `record_result`, `check_and_alert`, `delete_user` | why a stage fails is `down`; `Poisoned` accounts raise outside every stage |
| `ClassReminders` | `sync_timetable`, `run_class_reminders` | events are keyed by place (`occurrence_index`), claims by place and day |
| `CalendarSync` | `sync_all_task_events`, `sync_task_event` | create and record are two steps; a refused call ends the pass |
| `GoogleCredentials` | `_resolve_client`, refresh, store, adoption, reconnect, verdicts | a consent is a grant, a rotation a new version of it; a client is a tick or a check button, and its process may end anywhere |
| `Migrations` | `connect` with `schema.sql` and the legacy columns, `apply_pending_migrations`, scripts that create, add a column or rebuild a table | statement by statement; `Columns` reads the table's columns, the ALTER comes later; `exposed` marks tables whose script was cut short, or ran while another process prepared the file, whatever that one did |
| `TaskForms` | the task handlers and `record_history`, the withdrawal of announcements by the sync | `odd` records overlap, stale pages and crashes; `log` has the new values of the status rows; `due` pairs the deadline with the one its newest history row names or, with none, the one it was created with; `gone` is what the withdrawal selected |
| `SignIn` | states, exchange, `resolve_user`, sessions, `delete_account` | a callback is a thread's sequence of statements |
| `TelegramLink` | codes, connect, disconnect, the form's Telegram half, sending | `form` and `pass` hold the stale row and chat |

The modules meet through what they share: `ClassroomSync` takes its plans from
`ReminderPlan` and its verdicts from `Relevance`, and has a whole dispatch as one
step; `ReminderDispatch` has the
sync's cancellation and healing as steps; `CalendarSync` and `TaskForms` have
tasks change under them as sync and forms change them. Each component's
environment is thus an over-approximation of the others rather than their
product, which TLC could not enumerate.

## 3. Runs

| Run | Instance | Shows |
|---|---|---|
| `dispatch` | 1 reminder (DEADLINE_REACHED), 2 processes that may both sync and dispatch, 1 channel, 2 tries, 45 minutes in steps of 15, 1 crash | `AtMostOnce`, `TruthfulOutcome`, `RetriesSpaced`, `QuietOnceClosed`, `OutcomeFinal`, `EventuallySettled`, and `ImplementsOneShot`: the table implements the abstract alert |
| `sync` | 1 assignment of section B, 1 announcement, 1 due date (or none), a profile that says A and one that says B, 2 edits by teacher or student, one fault of any of six kinds (API, database, profile, relevance, crash, a second sync), two syncs four days apart | `AnnouncedOnce`, `NoStaleCountdown`, `CancelledWasGone`, `CompletionRespected`, `EventuallyReconciled` |
| `sync_lost_countdown` | 1 assignment, 1 due date, 3 edits, no fault | expected violation of `CountdownPlanned`, section 5 |
| `health` | 2 accounts (1 poisoned), 2 components, threshold 2, 1 crash | `AlertOnce`, `Rearmed`, `OutageReported` |
| `classes` | 3 slots on two days, 2 edits of the sheet, failed scrapes and stores, crashes | `TimetableMirrors`, `AnnouncedOnce`, `NoneMissed` |
| `calendar` | 2 tasks, 2 deadlines, 4 events, API failures, removal by hand, 1 crash | `NoDuplicateEvent`, `PassReconciles`, `ClosedRemoved` |
| `credentials` | 3 grants, 1 rotation each, 1 tick, 1 check button, 2 callbacks, 1 attempt, network failures, and one write, answer or process lost | `AttemptOnce`, `RotationKept`, `ComesBack` |
| `migrate` | 2 processes, 1 table with legacy columns, 4 scripts (column, create, rebuild of a table of each kind), 1 crash | `OpenIsMigrated`, `DataKept`, `Usable` |
| `forms` | 1 announcement and 2 personal tasks (1 of them with deadlines), 1 date or none, 2 history rows each, 2 threads (symmetric), the withdrawal, crashes | `OneChild`, `AuditCurrent` |
| `signin` | owner, 1 listed and 2 other people, limit 2, 3 ids, 2 threads, 2 attempts, 3 days | `OwnSession`, `OwnerKeepsHistory`, `NotOverfull`, `SessionsEnd` |
| `telegram` | 2 accounts, 2 chats (symmetric), 3 codes, 1 background task | `AsLinked`, `SentToLinked`, `LatestOnly` |
| `thread` | 2 alerts, a thread of 3 messages, 1 repeat per pass, an interval of 2 and a rest of 1 between ticks, stages that take 0 to 2, 1 broken-off tick | `OneLateRepeat`, `RepeatsSpaced`, `RepeatedWhileArmed` |

**Why the bounds are enough.** Every hazard here takes two actors on one row, or
one actor and its own later run; each instance has two of whatever the property
compares (processes, chats, accounts, threads, attempts, slots, alerts) and
enough time for a second pass. `dispatch` has one row because no step of the code
relates two rows of the table but the order they are sent in, and the theorems of
section 7 hold for any number. Its two tries and a 15-minute backoff over 45
minutes are a budget used to its end and room for a round too many. In `sync` the
second sync falls ten minutes after the due date, inside the 30-minute
grace of DEADLINE_REACHED, and the first four days before it: both sides of every
comparison with the clock. A deadline moves from a date to none and back, which
takes the code's path of a move from one date to another; that no number of moves
announces a task twice is a theorem (section 7). In `thread` a tick serves one of two due alerts and an
interval has two ticks: as many alerts as the limit can serve, as sixty are with
the code's twenty, two minutes and five. A stage may take as long as the interval,
so that a repeat can fall into the tick that posted its alert. Three messages stand
for its two hundred. `MaxAttempts`,
`Horizon`, `MaxEdits`, `MaxFaults`, `MaxCrashes`, `MaxBroken`, `MaxLag`, `Dated`, `MaxTask`, `MaxLog`, `MaxCode`,
`MaxId`, `MaxGrants`, `MaxVersion`, `EventIds`, `Keep` and `Limit` name the caps;
history counters stop at two, which is enough to tell once from twice.

**Deadlock** is checked except in `sync`, `sync_lost_countdown` and `forms`,
where a bound (the end of the modelled time, the number of history rows)
may leave nothing enabled.

**Conditions in properties.** Several properties hold only in part, and say so:
`OneTick` and `OnePass` (one process that records health, and one that syncs the
calendar: true of the hosted service, whose web server does neither, and not of a
hand-started CLI run beside it), `unsure`, `Unbroken`, `unmarked`, `markLost`, `lost`,
`atRisk`, `exposed`, `rearranged`, `odd`, `torn` and `overlapped` (history
variables naming exactly the fault, crash or overlap after which the code gives
no promise). `ChatThread` has one tick by its shape. Section 6 lists what happens then.

## 4. Fairness

Liveness is checked under weak fairness of the steps of a process that the
code's scheduler keeps running: the tick thread loops for ever
(`cmd_serve_hosted`), and a request that was begun is finished. In
`GoogleCredentials` these are the ticks and the callbacks: nobody has to press a
check button, and a check may stop anywhere. A command started
by hand beside it may hang anywhere (`Hosted` in `ReminderDispatch` names the
processes that do not). Strong fairness
is used only where an outside service is tried at every tick and, tried for ever,
answers once: the refresh of a credential, the calendar call for a task, one
delivery of a health alert, and the Classroom sync getting as far as its last
clean-up. Nobody is assumed to press a button, and no fault is assumed to happen
or to stop except where its number is bounded: `EventuallyReconciled` is about
what follows the last fault and the last edit.

## 5. Disagreements between code and comments

**The countdown of a date that returns.** Reminders are inserted with
`INSERT OR IGNORE` (db/repo.py:1209), and their key contains the deadline. When a
due date is removed and set again, or moved and moved back, the rows of its first
countdown are still in the table, CANCELLED by the change, and their keys keep the
new ones out: the task is open, its deadline lies ahead, and nothing is left to
remind of it. The comment at sync/classroom_sync.py:439 says that "when Classroom
moves the deadline the old ones are cancelled and a fresh set is created". Run
`sync_lost_countdown` finds the trace.

**"Deadline reached" of a task that turns MISSED.** The comment at
db/repo.py:1249-1250 says that "Deadline reached" "fires at the moment a task turns
MISSED, so it must still go out then", and `due_pending_reminders` lets it through. But each tick runs the Classroom stage before the reminders stage
(cli.py:451-454), and that stage, at the end of a sync, marks the task MISSED and
cancels *all* its pending reminders (`mark_overdue_tasks_as_missed`,
repo.py:879-881), and what escaped goes with the stray clean-up
(`cancel_stray_reminders_for_terminal_tasks`, repo.py:1166-1190, whose own
docstring says that a MISSED task "must never carry a PENDING reminder"). So where
the sync works, the reminder is withdrawn before the dispatch that would have sent
it; it goes out only where the sync fails or the deadline falls between a tick's
sync and its dispatch. The two comments contradict one another and the code follows
the second.
`NoStaleCountdown` therefore does not say that such a row is stale: it
allows a pending DEADLINE_REACHED of a MISSED task, and forbids every other one. What
the first comment promises is stated as `DeadlineReachedGoesOut` in `ClassroomSync`,
which no run checks; as the only PROPERTY of `Sync.cfg` it is violated, by a trace of
`MarkMissed` followed by `MissedReminders`.

## 6. Behaviour outside the stated conditions

Met while modelling, and kept out of the properties by a named condition. Each
can be seen by dropping that condition (or giving `Ticks`, `Syncs` a second
member).

| Where | What the code does | Condition |
|---|---|---|
| dispatch.py:133-138 | a crash after delivery and before `mark_reminder_sent`, or a second dispatcher holding the same row, sends again; the later of two writes decides the outcome | `unsure` |
| repo.py:1187 | the stray clean-up updates by id alone, so a row sent in between becomes CANCELLED, though the docstring at repo.py:1175 says SENT history is "never touched" | `unsure`, two processes |
| repo.py:926-937 | a completion committed after the withdrawal has selected its task is overwritten with CANCELLED, though "history is never erased by a source-side removal" | `i \in doomed` in `CompletionRespected` |
| app.py:750 | the check button's sync beside the tick's: the older fetch overwrites a newer deadline, and its withdrawal takes a task the other sync has just created, which then stays CANCELLED although Classroom always returned it. The handler's docstring says "nothing is stored" (app.py:652), which is true neither of this sync nor of the refreshed credential (app.py:675) | `Unbroken`; `CancelledWasGone` allows what some fetch did not return |
| repo.py:878, classroom_sync.py:348 | a withdrawn item that is published again stays CANCELLED; a deadline extended after the task was MISSED has its new countdown cancelled by the same sync and stays MISSED | `Mirrors` asks for the date, not the status |
| classroom_sync.py:351 | the alert DEADLINE_CHANGED is keyed by the new date: moving to the same date a second time is not announced | `CountdownPlanned`, section 5 |
| classroom_sync.py:251 | a process that ends inside a sync leaves `sync_state` RUNNING until the next one | `EventuallyReconciled` is about ERROR only |
| engine.py:31 | of two enrolled courses whose names contain one another, both may be judged by the section of the first | none: the operator is as the code |
| class_reminders.py:69 | a class struck out after its claim is announced all the same, though "a cancelled class must never produce a reminder": the strike is looked at when the class is claimed, not when it is announced | none: `Send` in `ClassReminders` has no guard on the timetable, as in the code |
| nags.py:5-6 | "it never stops by itself": an alert whose thread grows by 200 messages is trimmed away, with its repeats. A pass takes the 20 oldest due alerts: the newest wait for ever once there are more than 20 per pass of an interval (60 with the default tick of two minutes) | `Armed` asks that the alert is in the thread; the instance has as many alerts as an interval serves |
| app.py:1570 | the welcome of the notification form is an alert without a clock, though nags.py:3 says every alert has one | `Armed` |
| app.py:1707 | the edit form cannot clear a deadline: an empty field changes nothing; a manual task with a deadline gets no reminders, though repo.py:557 speaks of their scheduling | as the code |
| repo.py:621 | two overlapping edits of one task each compare with the row they read: the history may miss the last change | `odd` |
| classroom_sync.py:343, repo.py:459 | the upsert has already committed the new `updateTime`: if the rest of the item breaks off, the next sync takes it for unchanged, and the old countdown stays or the announcement is lost | `Unbroken` |
| health.py:113-128 | a crash between delivery and mark sends the alert again; two ticks may mark or clear each other's streak | `unmarked`, `OneTick` |
| timetable_sync.py:139 | a class added, removed or moved shifts the places of later ones: claims made for a place now belong to another class | `rearranged` |
| calendar_sync.py:83 | an event created and not recorded stays and is created again; two passes create two | `lost`, `OnePass` |
| calendar_sync.py:89 | an event removed by hand makes the update fail and ends every later pass at that task | `removed` |
| user_clients.py:58-84 | a rotated token is lost when its store fails, when Google's answer does not arrive, or when the process ends between the refresh and the store | `atRisk` |
| user_clients.py:76, app.py:675 | the check button refreshes in the web server beside the tick: with both holding one grant, the second meets a token that was rotated away, and the verdict may say so until the next tick, or stores the older one last, which stays dead until a reconnect | `atRisk` |
| nags.py:10, 32, dispatch.py:142, cli.py:319 | "the real gap is the interval rounded up to the next tick": `next_nag_at` counts from the clock the stage read before its sends, and `run_nags` reads its own, so a repeat may follow its alert sooner than the interval, by as long as the dispatch had been sending; with a long dispatch even in the same tick | `RepeatsSpaced` counts from that clock |
| nags.py:34-43 | two ticks at once may fetch the same due alert: both repeat it, and after a Received two late repeats may come | one tick in `ChatThread` |
| migrator.py:130 | a rebuild killed between DROP and RENAME, or run beside another process that prepares the file, can lose the table's rows or never complete, though the docstring at migrator.py:85 puts each migration "inside its own transaction". The condition is wider than the loss: it also covers a second process that does no harm and a script that can be run again | `exposed` |
| repo.py:728-748 | two copies of a form at once, or a crash before the link, make two tasks of one announcement | `odd` |
| repo.py:676-697, 823-839, 886-902 | archiving takes any task of the account by its id, though only the announcements' page has the button; completing and cancelling ask for no status, so a stale page records a change that was none; the old value of an archive row is the one read before | none: no property speaks of the old values of a history |
| auth.py:365 | two sign-ups at the limit both pass the count, though auth.py:102 calls it a limit | `overlapped` |
| app.py:1545-1560 | saving the notification form over a connect or disconnect brings an old chat back | `overlapped` |
| repo.py:1790 | one link code used from two chats at once links the later one | `overlapped` |

## 7. Proofs

Proofs are in modules of their own, beside the components. All assume only the
named ASSUME of the component, and where it says so a condition as above.
`TickProofs` and `StoreProofs` extend several components, which share no name:
each of their theorems is about one of them.

| Module | Theorems | Inductive invariant and why it is needed |
|---|---|---|
| `ReminderDispatchProofs` | `TypeCorrect`, `AtMostOnceHolds`, `BoundedRetryHolds`, `TruthfulOutcomeHolds`, `OutcomeFinalHolds`, `QuietOnceClosedHolds`, `RetriesSpacedHolds`, and the refinement `ImplementsOneShotHolds`, for any number of processes and crashes | none is inductive: the invariant ties a row to the pass holding it. `RowInv`: a PENDING row not in hand was never delivered and had as many rounds as `attempt_count` says. `HeldInv`: a row in hand carries the count it was fetched with, and the one being recorded had one round more. `AloneInv`: a row that is not `unsure` is held by one process. `BackoffInv` adds, for the spacing of rounds, that a row with a failed round carries a backoff of RETRY_DELAY and its pass began after it. The refinement goes step by step: those that send, record or queue nothing withdraw alerts or lose track of them (`UndisturbedMoves`), a round is `Try`, an insertion `Raise` |
| `ClassroomSyncProofs` | `TypeCorrect`, `CompletionRespectedHolds`, `CancelledWasGoneHolds`, `AnnouncedOnceHolds`, `NoStaleCountdownHolds`; of the plan, `PlanCovers` and `PlanSpread` | `AbsenceInv`: what the withdrawal selected, a successful read of this sync did not return. `AnnouncedInv`: a task whose plan is being inserted has its announcement in the plan or in the table, which rests on `PlanAnnounces` and on the order of insertion. `StaleInv`: while a changed deadline is being worked through, pending rows of the old one are confined to the item in hand and to the steps before `Recount`, and the clean-up's selection covers every pending row of a closed task; the clock stands still during a sync |
| `TelegramLinkProofs` | `TypeCorrect`, `SentToLinkedHolds`, `AsLinkedHolds`, `LatestOnlyHolds` | `SentInv`: every chat in any *copy* of a row (table, form, pass) was linked by that account. `LinkInv`: a stored code is the latest of its account, and, without overlap, one request is served and the form still holds the row it read |
| `TaskFormsProofs` | `TypeCorrect`, `AuditCurrentHolds`, `OneChildHolds` | `AuditInv`: what a handler or the withdrawal holds exists, and a history knows closed statuses only. `EditInv` and `ChildInv` add that, without oddities, one handler is in the middle and what it read is still so |
| `SignInProofs` | `TypeCorrect`, `OwnSessionHolds`, `OwnerKeepsHistoryHolds`, `NotOverfullHolds`, `SessionsEndHolds` | `SignInv`: what a callback knows at each pc (that it is the owner's, that the profile is stored, whose account it found) survives the other callbacks and deletions, as ids are never reused. `Seats`: without overlap, the count that admitted somebody still holds |
| `StoreProofs`, of `GoogleCredentials` | `TypeCorrect`, `AttemptOnceHolds`, `RotationKeptHolds` | an attempt with a state has not been exchanged, and one callback carries it; `KeptInv`: the credential a client works with is the version Google accepts, or its grant is dead or `atRisk`; a grant in the hands of two clients, or in the store beside an adoption of it, is `atRisk`; and a callback brings a grant nobody else has. With the last two, a write of one client can only replace a credential of its own grant by the newest, or one of another grant by one that is whole |
| `StoreProofs`, of `Migrations` | `MigrationsTypeCorrect`, `DataKeptHolds`, `OpenIsMigratedHolds` | `MigInv`. `Ordering`: a process stands at the first script that was pending when it looked, and the ones before it are recorded. `Alone`: whoever exchanges a table nothing has exposed prepares the file alone, at a version not recorded, so no other statement falls into the exchange (`Undisturbed`). `Half` and `Copied`: what the exchange has done so far is on the side, and nobody else's rows are. `Effect` and `OldColumns`: what is recorded is in effect or being exchanged, and a table comes back with every version so far (`RenameDone`), which is where the order of the versions is needed |
| `TickProofs`, of `PipelineHealth` | `TypeCorrect`, `AlertOnceHolds`, `RearmedHolds` | `AlertInv`: an outage that was told is marked or about to be by the one tick, and what is about to be marked is past the threshold |
| `TickProofs`, of `ChatThread` | `ThreadTypeCorrect`, `OneLateRepeatHolds`, `RepeatsSpacedHolds` | `ThreadInv`. `Shape`: an alert has one message of its own in the thread. `Fetching`: a pass has no alert twice before it, nor the one just repeated. `Stopped`: of a stopped alert nothing is unacknowledged but one repeat, of a pass that no longer has it before it. `Spaced`: what is left until an alert's next repeat and the time since the clock of the stage that posted its last message make an interval, and an alert a pass holds has an interval behind it; `Repeated`: a repeat not pushed out yet is as old as its pass's clock. They rest on what the fetch returns (`DueFetched`): a list of distinct alerts that want a repeat, which takes the ranks of a finite set (`Ranks`) |
| `TickProofs`, of `ClassReminders` | `ClassTypeCorrect`, `TimetableMirrorsHolds`, `AnnouncedOnceHolds`, `NoneMissedHolds` | `ClassInv`. `Scraped` and `Mirror`: what was read is what the sheet shows on the tabs read so far, and what was stored is in its place in the order of the cells (`OrderedCells`). `Placed`: until the classes are arranged anew, the time of a place is the same in the sheet, in what was read, in the events and in the claims; a class struck out keeps its place (`StrikeKeepsPlaces`). `Owed` and `Rows`: a class of the window is claimed or on the list, a pending claim is on the list. `HeardOf`: a class that was heard of has one claim, and it is spent |
| `CalendarSyncProofs` | `TypeCorrect`, `NoDuplicateEventHolds`, `PassReconcilesHolds` | `MapInv`: every event of a task in the calendar is recorded or about to be, a task has one record at most, and a pass creates only where there is none (`Kept`) and works on an event of its own task (`OwnEvent`). `ReconcileInv`: what the pass has behind it is shown as the task is, and the call it is about to make will show the task it is at (`DealtWith`); no recorded event is of another task, even one whose own record was lost |

`PlanSpread` answers what the cadence does at its boundaries: for every deadline
and time of discovery, two reminders of one plan fall on the same minute in two
cases only, the midpoint and the last hour of a two-hour lead, and the morning
and the last hour of a deadline at nine in the morning.

`NoneMissedHolds`, `OutcomeFinalHolds`, `PassReconcilesHolds`, `RepeatsSpacedHolds`
and the others about steps are proved from the same invariants: what a step may
do follows from the state it starts in.

Model-checked only: liveness (`EventuallySettled`, `EventuallyReconciled`,
`OutageReported`, `ClosedRemoved`, `ComesBack`, `Usable`, `RepeatedWhileArmed`),
which rests on ENABLED and fairness. The violations of section 5 are
traces of one instance.

## 8. Plan

Done: the core (reminders and their sync, with the relevance of what it reads),
every other stage of the tick, the in-app thread, the web components that share
state with them, and the theorems of section 7. What is left, in order:

1. **Class day**: a class struck out or moved after its reminder was claimed.
2. **Two ticks**: `PipelineHealth` and `ChatThread` with an ad-hoc run beside the
   hosted one, as `ReminderDispatch` and `GoogleCredentials` have them.
3. **Deletion across components**: forms and Telegram requests of an account
   that is being deleted; WhatsApp's number as a second channel.

## 9. Left out, and why

* Text: messages, titles, descriptions, rendering, the assistant's answers.
* Parsing: spreadsheet cells, enrollment matching, the patterns that find a
  section in a text. What they return is a choice of the environment, or a
  constant.
* Encryption, PKCE, cookies and CSRF: secrets are unguessable names here.
* SQLite itself: a commit is atomic and durable; a busy database is a fault.
* A refresh by Google's own library in the middle of a sync, once a client was
  built from a credential that was still valid: what it gets is not stored, and if
  Google rotates the token then, the stored one is dead, as in the losses of
  section 6.
* Titles and descriptions of a manual task, `set_task_relevance` by hand, and the
  expiry by time of OAuth and reconnect states (they may be purged at any
  moment).
* Teacher, person, Google and the operating system are external actions: they
  may do at any time what their services allow.
