----------------------- MODULE ReminderDispatchProofs -----------------------
(***************************************************************************)
(* Proofs about ReminderDispatch, for every number of reminders, tasks,    *)
(* providers and (where stated) processes.                                 *)
(***************************************************************************)
EXTENDS ReminderDispatch, TLAPS

(* TypeOK is inductive together with two facts: a row that may still be     *)
(* fetched has budget left, and a process that works on a row or a task     *)
(* holds one.                                                               *)
Budget == \A r \in Reminders : status[r] = "PENDING" => attempt_count[r] < MaxAttempts

JobOK == \A p \in Procs :
    /\ pc[p] \in {"delivered", "undelivered", "post"} => job[p] \in Reminders
    /\ pc[p] = "closing" => job[p] \in Tasks

TypeInv == TypeOK /\ Budget /\ JobOK

\* Every action preserves the inductive type invariant, in any interleaving.
LEMMA TypeStep == TypeInv /\ [Next]_vars => TypeInv'
<1> SUFFICES ASSUME TypeInv, [Next]_vars PROVE TypeInv'
  OBVIOUS
<1> USE DispatchAssumption DEF TypeInv, TypeOK, Budget, JobOK, Statuses, TaskStatuses, rowVars
<1>1. ASSUME NEW p \in Procs, StartPass(p) PROVE TypeInv'
  <2> DEFINE due == { r \in Reminders : Due(r, now) }
  <2>1. \A r \in due : attempt_count[r] \in 0 .. MaxAttempts - 1
    BY DEF Due, Scheduled
  <2>2. seen' \in [Procs -> [Reminders -> 0 .. MaxAttempts - 1]]
    BY <1>1, <2>1 DEF StartPass
  <2>3. unsure' \subseteq Reminders
    BY <1>1 DEF StartPass
  <2>4. QED
    BY <1>1, <2>2, <2>3 DEF StartPass
<1>2. ASSUME NEW p \in Procs, NEW r \in Reminders, NEW ok \in SUBSET Providers, Send(p, r, ok)
      PROVE TypeInv'
  BY <1>2 DEF Send
<1>3. ASSUME NEW p \in Procs, MarkSent(p) PROVE TypeInv'
  BY <1>3 DEF MarkSent, worldVars
<1>4. ASSUME NEW p \in Procs, Post(p) PROVE TypeInv'
  BY <1>4 DEF Post
<1>5. ASSUME NEW p \in Procs, RecordFailure(p) PROVE TypeInv'
  <2>1. job[p] \in Reminders /\ Attempt(p) \in 0 .. MaxAttempts
    BY <1>5 DEF RecordFailure, Attempt
  <2>2. status' \in [Reminders -> Statuses] /\ next_retry_at' \in [Reminders -> Nat]
    <3>1. at[p] + RetryDelay \in Nat
      OBVIOUS
    <3>2. CASE Exhausted(p)
      <4>1. status' = [status EXCEPT ![job[p]] = "FAILED"] /\ next_retry_at' = next_retry_at
        BY <1>5, <3>2 DEF RecordFailure
      <4>2. QED
        BY <2>1, <4>1
    <3>3. CASE ~Exhausted(p)
      <4>1. status' = status /\ next_retry_at' = [next_retry_at EXCEPT ![job[p]] = at[p] + RetryDelay]
        BY <1>5, <3>3 DEF RecordFailure
      <4>2. QED
        BY <2>1, <3>1, <4>1
    <3>4. QED
      BY <3>2, <3>3
  <2>3. attempt_count' \in [Reminders -> 0 .. MaxAttempts]
    BY <1>5, <2>1 DEF RecordFailure
  <2>4. Budget'
    BY <1>5, <2>1 DEF RecordFailure, Exhausted
  <2>5. JobOK'
    BY <1>5, <2>1 DEF RecordFailure
  <2>6. TypeOK'
    BY <1>5, <2>1, <2>2, <2>3 DEF RecordFailure, worldVars
  <2>7. QED
    BY <2>4, <2>5, <2>6
<1>6. ASSUME NEW p \in Procs, EndPass(p) PROVE TypeInv'
  BY <1>6 DEF EndPass, Idle, NoAttempts, worldVars
<1>7. ASSUME NEW p \in Procs, NEW r \in Reminders, NEW t \in ScheduleTimes, Queue(p, r, t)
      PROVE TypeInv'
  BY <1>7 DEF Queue, Insert, procVars, worldVars
<1>8. ASSUME NEW p \in Procs, NEW t \in Tasks, NEW s \in {"CANCELLED", "MISSED"}, SyncClose(p, t, s)
      PROVE TypeInv'
  BY <1>8 DEF SyncClose, worldVars
<1>9. ASSUME NEW p \in Procs, SyncCancel(p) PROVE TypeInv'
  BY <1>9 DEF SyncCancel, CancelPending, Idle, NoAttempts, worldVars
<1>9a. ASSUME NEW p \in Procs, NEW t \in Tasks, NEW kept, SyncWithdraw(p, t, kept) PROVE TypeInv'
  BY <1>9a DEF SyncWithdraw, CancelPending, procVars, worldVars
<1>10. ASSUME NEW p \in Procs, HealSelect(p) PROVE TypeInv'
  BY <1>10 DEF HealSelect, Stray, worldVars
<1>11. ASSUME NEW p \in Procs, HealCancel(p) PROVE TypeInv'
  BY <1>11 DEF HealCancel, Idle, NoAttempts, worldVars
<1>12. ASSUME NEW p \in Procs, NEW t \in Tasks, Mute(p, t) PROVE TypeInv'
  BY <1>12 DEF Mute, procVars, worldVars
<1>13. ASSUME NEW p \in Procs, Crash(p) PROVE TypeInv'
  <2>1. pc[p] \in {"delivered", "undelivered"} => job[p] \in Reminders
    OBVIOUS
  <2>2. crashes' \in 0 .. MaxCrashes /\ unsure' \subseteq Reminders
    BY <1>13, <2>1 DEF Crash
  <2>3. QED
    BY <1>13, <2>2 DEF Crash, Idle, NoAttempts
<1>14. ASSUME NEW t \in Tasks, Complete(t) PROVE TypeInv'
  BY <1>14 DEF Complete, procVars, worldVars
<1>15. ASSUME NEW t \in Tasks, CompleteCancel(t) PROVE TypeInv'
  BY <1>15 DEF CompleteCancel, CancelPending, procVars, worldVars
<1>16. ASSUME NEW t \in Tasks, CrashRequest(t) PROVE TypeInv'
  <2>1. crashes' \in 0 .. MaxCrashes
    BY <1>16 DEF CrashRequest
  <2>2. QED
    BY <1>16, <2>1 DEF CrashRequest, procVars
<1>17. ASSUME NEW vs \in SUBSET Providers, Configure(vs) PROVE TypeInv'
  BY <1>17 DEF Configure, procVars, worldVars
<1>18. CASE Advance
  BY <1>18 DEF Advance, procVars, worldVars
<1>19. CASE UNCHANGED vars
  BY <1>19 DEF vars, procVars, worldVars
<1> HIDE DEF TypeInv, TypeOK, Budget, JobOK, Statuses, TaskStatuses, rowVars
<1>20. QED
  BY <1>1, <1>2, <1>3, <1>4, <1>5, <1>6, <1>7, <1>8, <1>9, <1>9a, <1>10, <1>11, <1>12,
     <1>13, <1>14, <1>15, <1>16, <1>17, <1>18, <1>19
     DEF Next, PassStep, SyncStep, WebStep

LEMMA TypeInit == Init => TypeInv
  BY DispatchAssumption DEF Init, TypeInv, TypeOK, Budget, JobOK, Statuses,
     TaskStatuses, NoAttempts

\* Every variable keeps its type; in particular attempt_count never exceeds
\* MAX_ATTEMPTS, with any number of dispatching processes and any crash.
THEOREM TypeCorrect == Spec => []TypeOK
<1>1. TypeInv => TypeOK
  BY DEF TypeInv
<1>2. QED
  BY TypeInit, TypeStep, <1>1, PTL DEF Spec

-----------------------------------------------------------------------------
(* Any number of dispatching processes, any number of crashes.  The invariant *)
(* speaks of the rows in Sure: at most one pass holds such a row, the row's    *)
(* columns agree with what the world has seen of it except while that pass     *)
(* stands between a delivery and its commit, and the row is as the pass        *)
(* fetched it.                                                                 *)

InPass(p) == pc[p] \in {"loop", "delivered", "undelivered", "post"}

Holds(p, r) == InPass(p) /\ r \in todo[p]

Sending(r) == \E p \in Procs : pc[p] = "delivered" /\ job[p] = r
Failing(r) == \E p \in Procs : pc[p] = "undelivered" /\ job[p] = r

Withdrawable(r) == status[r] \in {"PENDING", "CANCELLED"}

\* What the columns of a row say about it.
RowAt(r) ==
    /\ \A v \in Providers : received[r][v] <= 1
    /\ Delivered(r) => status[r] \in {"SENT", "CANCELLED"} \/ Sending(r)
    /\ status[r] = "SENT" => Delivered(r)
    /\ status[r] = "FAILED" => ~Delivered(r) /\ attempt_count[r] = MaxAttempts
    /\ status[r] = "ABSENT" => attempt_count[r] = 0
    /\ rounds[r] = IF Delivered(r) \/ Failing(r) THEN attempt_count[r] + 1 ELSE attempt_count[r]
    /\ Delivered(r) \/ Failing(r) => attempt_count[r] < MaxAttempts
    /\ posted[r] <= 1
    /\ posted[r] > 0 => Delivered(r)

\* What a pass knows of a row it holds.
HeldAt(p, r) ==
    /\ seen[p][r] = attempt_count[r] /\ attempt_count[r] < MaxAttempts
    /\ r # job[p] => Withdrawable(r) /\ ~Delivered(r)
    /\ r = job[p] /\ pc[p] = "delivered" => Withdrawable(r) /\ Delivered(r) /\ posted[r] = 0
    /\ r = job[p] /\ pc[p] = "undelivered" => Withdrawable(r) /\ ~Delivered(r)
    /\ r = job[p] /\ pc[p] = "post" =>
         status[r] \in {"SENT", "CANCELLED"} /\ Delivered(r) /\ posted[r] = 0

RowInv == \A r \in Sure : RowAt(r)

HeldInv == \A p \in Procs, r \in Sure : Holds(p, r) => HeldAt(p, r)

\* No two passes hold a row of Sure.
AloneInv == \A p, q \in Procs, r \in Sure : Holds(p, r) /\ Holds(q, r) => p = q

\* What each process has in hand fits where it stands.
StandsAt(p) ==
    /\ pc[p] \in {"delivered", "undelivered", "post"} => job[p] \in todo[p]
    /\ pc[p] \in {"idle", "loop", "healing"} => job[p] = None
    /\ pc[p] \in {"idle", "closing"} => todo[p] = {}
    /\ pc[p] = "healing" => \A r \in todo[p] : status[r] # "ABSENT"
    /\ InPass(p) => \A r \in todo[p] : status[r] # "ABSENT"

StandInv == \A p \in Procs : StandsAt(p)

IInv == TypeInv /\ RowInv /\ HeldInv /\ AloneInv /\ StandInv

\* Whether a reminder was delivered depends on received alone.
LEMMA DeliveredStable ==
    ASSUME UNCHANGED received
    PROVE  \A r : Delivered(r)' <=> Delivered(r)
  BY DEF Delivered

\* A step of process p that concerns another row than r leaves who is sending r.
LEMMA SendingElsewhere ==
    ASSUME NEW p \in Procs, NEW r,
           \A q \in Procs : q # p => pc'[q] = pc[q] /\ job'[q] = job[q],
           job[p] # r \/ pc[p] \notin {"delivered", "undelivered"},
           job'[p] # r \/ pc'[p] \notin {"delivered", "undelivered"}
    PROVE  (Sending(r)' <=> Sending(r)) /\ (Failing(r)' <=> Failing(r))
  BY DEF Sending, Failing

\* Of a row of Sure that p holds, only p can be sending it.
LEMMA SendingHere ==
    ASSUME NEW p \in Procs, NEW r \in Sure, StandInv, AloneInv, Holds(p, r),
           \A q \in Procs : q # p => pc'[q] = pc[q] /\ job'[q] = job[q]
    PROVE  /\ Sending(r) <=> pc[p] = "delivered" /\ job[p] = r
           /\ Failing(r) <=> pc[p] = "undelivered" /\ job[p] = r
           /\ Sending(r)' <=> pc'[p] = "delivered" /\ job'[p] = r
           /\ Failing(r)' <=> pc'[p] = "undelivered" /\ job'[p] = r
<1>1. ASSUME NEW q \in Procs, pc[q] \in {"delivered", "undelivered"}, job[q] = r PROVE q = p
  <2>1. Holds(q, r)
    BY <1>1 DEF StandInv, StandsAt, Holds, InPass
  <2>2. QED
    BY <2>1 DEF AloneInv
<1>2. QED
  BY <1>1 DEF Sending, Failing

\* A step in which process q stands still, or is outside a pass afterwards and has
\* forgotten a row it was sending only where that row is no longer in Sure.
Leaves(q) ==
    \/ pc'[q] = pc[q] /\ todo'[q] = todo[q] /\ seen'[q] = seen[q] /\ job'[q] = job[q] /\ at'[q] = at[q]
    \/ /\ pc'[q] \notin {"loop", "delivered", "undelivered", "post"}
       /\ StandsAt(q)'
       /\ pc[q] \in {"delivered", "undelivered"} => job[q] \in unsure'

\* A step that at most cancels rows.
AtMostCancels ==
    /\ UNCHANGED <<received, rounds, posted, attempt_count, next_retry_at>>
    /\ unsure \subseteq unsure'
    /\ \A r \in Reminders : \/ status'[r] = status[r]
                            \/ status[r] # "ABSENT" /\ status'[r] = "CANCELLED"

\* Such steps preserve the invariant.
LEMMA LeaveStep ==
    ASSUME TypeOK, RowInv, HeldInv, AloneInv, StandInv,
           AtMostCancels, \A q \in Procs : Leaves(q)
    PROVE  RowInv' /\ HeldInv' /\ AloneInv' /\ StandInv'
<1>1. \A r : Delivered(r)' <=> Delivered(r)
  BY DeliveredStable DEF AtMostCancels
<1>2. \A r \in Sure' : r \in Sure /\ r \in Reminders
  BY DEF Sure, AtMostCancels
<1>3. \A r \in Sure' : (Sending(r)' <=> Sending(r)) /\ (Failing(r)' <=> Failing(r))
  BY DEF Sending, Failing, Sure, Leaves
<1>4. RowInv'
  <2> SUFFICES ASSUME NEW r \in Sure' PROVE RowAt(r)'
    BY DEF RowInv
  <2>1. RowAt(r) /\ r \in Reminders
    BY <1>2 DEF RowInv
  <2>2. QED
    BY <2>1, <1>1, <1>3 DEF RowAt, AtMostCancels
<1>5. \A q \in Procs, r \in Reminders : Holds(q, r)' =>
         Holds(q, r) /\ pc'[q] = pc[q] /\ seen'[q] = seen[q] /\ job'[q] = job[q]
  BY DEF Holds, InPass, Leaves
<1>6. HeldInv'
  <2> SUFFICES ASSUME NEW q \in Procs, NEW r \in Sure', Holds(q, r)' PROVE HeldAt(q, r)'
    BY DEF HeldInv
  <2>1. HeldAt(q, r) /\ r \in Reminders
    BY <1>2, <1>5 DEF HeldInv
  <2>2. QED
    BY <2>1, <1>1, <1>5 DEF HeldAt, Withdrawable, AtMostCancels
<1>7. AloneInv'
  BY <1>2, <1>5 DEF AloneInv
<1>8. StandInv'
  <2> SUFFICES ASSUME NEW q \in Procs PROVE StandsAt(q)'
    BY DEF StandInv
  <2>1. CASE pc'[q] = pc[q] /\ todo'[q] = todo[q] /\ seen'[q] = seen[q] /\ job'[q] = job[q] /\ at'[q] = at[q]
    <3>1. StandsAt(q) /\ todo[q] \subseteq Reminders
      BY DEF StandInv, TypeOK
    <3>2. \A r \in todo[q] : status[r] # "ABSENT" => status'[r] # "ABSENT"
      BY <3>1 DEF AtMostCancels
    <3>3. QED
      BY <2>1, <3>1, <3>2 DEF StandsAt, InPass
  <2>2. QED
    BY <2>1 DEF Leaves
<1>9. QED
  BY <1>4, <1>6, <1>7, <1>8

\* The rows a step takes out of Sure were in the hands of a pass.
NewlyUnsure == unsure' \subseteq unsure \cup { r \in Reminders : InHand(r) }

Undisturbed == AtMostCancels /\ (\A q \in Procs : Leaves(q)) /\ NewlyUnsure

\* The steps in which no row is sent, recorded or queued.
LeavingStep ==
    \/ \E p \in Procs :
          \/ EndPass(p) \/ SyncCancel(p) \/ HealCancel(p) \/ HealSelect(p) \/ Crash(p)
          \/ \E t \in Tasks : SyncWithdraw(p, t, Appearances) \/ SyncWithdraw(p, t, {})
          \/ \E t \in Tasks : Mute(p, t) \/ \E s \in {"CANCELLED", "MISSED"} : SyncClose(p, t, s)
    \/ WebStep
    \/ Advance
    \/ UNCHANGED vars

LEMMA Leaving ==
    ASSUME IInv, LeavingStep
    PROVE  Undisturbed
<1>0. TypeInv /\ TypeOK /\ JobOK /\ StandInv
  BY DEF IInv, TypeInv
<1>1. ASSUME NEW p \in Procs, EndPass(p) PROVE Undisturbed
  <2>1. /\ pc[p] = "loop" /\ pc'[p] = "idle" /\ todo'[p] = {} /\ job'[p] = None
        /\ \A q \in Procs : q # p =>
              pc'[q] = pc[q] /\ todo'[q] = todo[q] /\ seen'[q] = seen[q] /\ job'[q] = job[q] /\ at'[q] = at[q]
        /\ UNCHANGED <<rowVars, received, rounds, posted, unsure>>
    BY <1>1, <1>0 DEF EndPass, Idle, TypeOK, worldVars
  <2>2. StandsAt(p)'
    BY <2>1 DEF InPass, StandsAt
  <2>3. AtMostCancels
    BY <2>1 DEF AtMostCancels, rowVars
  <2>4. \A q \in Procs : Leaves(q)
    BY <2>1, <2>2 DEF Leaves
  <2>5. QED
    BY <2>1, <2>3, <2>4 DEF Undisturbed, NewlyUnsure
<1>2. ASSUME NEW p \in Procs, NEW t \in Tasks, NEW s \in {"CANCELLED", "MISSED"}, SyncClose(p, t, s)
      PROVE Undisturbed
  <2>1. /\ pc[p] = "idle" /\ pc'[p] = "closing" /\ todo'[p] = todo[p]
        /\ \A q \in Procs : q # p =>
              pc'[q] = pc[q] /\ todo'[q] = todo[q] /\ seen'[q] = seen[q] /\ job'[q] = job[q] /\ at'[q] = at[q]
        /\ UNCHANGED <<rowVars, received, rounds, posted, unsure>>
    BY <1>2, <1>0 DEF SyncClose, TypeOK, worldVars
  <2>2. StandsAt(p)'
    BY <2>1, <1>0 DEF InPass, StandsAt, StandInv
  <2>3. AtMostCancels
    BY <2>1 DEF AtMostCancels, rowVars
  <2>4. \A q \in Procs : Leaves(q)
    BY <2>1, <2>2 DEF Leaves
  <2>5. QED
    BY <2>1, <2>3, <2>4 DEF Undisturbed, NewlyUnsure
<1>3. ASSUME NEW p \in Procs, SyncCancel(p) \/ HealCancel(p)
      PROVE Undisturbed
  <2>1. /\ pc[p] \in {"closing", "healing"} /\ pc'[p] = "idle" /\ todo'[p] = {} /\ job'[p] = None
        /\ \A q \in Procs : q # p =>
              pc'[q] = pc[q] /\ todo'[q] = todo[q] /\ seen'[q] = seen[q] /\ job'[q] = job[q] /\ at'[q] = at[q]
        /\ UNCHANGED <<attempt_count, next_retry_at, received, rounds, posted, unsure>>
    BY <1>3, <1>0 DEF SyncCancel, HealCancel, CancelPending, Idle, TypeOK, worldVars
  <2>2. StandsAt(p)'
    BY <2>1 DEF InPass, StandsAt
  <2>3. \A r \in Reminders : \/ status'[r] = status[r]
                             \/ status[r] # "ABSENT" /\ status'[r] = "CANCELLED"
    <3>1. CASE SyncCancel(p)
      BY <3>1 DEF SyncCancel, CancelPending
    <3>2. CASE HealCancel(p)
      <4>1. \A r \in todo[p] : status[r] # "ABSENT"
        BY <3>2, <1>0 DEF HealCancel, StandInv, StandsAt
      <4>2. QED
        BY <3>2, <4>1 DEF HealCancel
    <3>3. QED
      BY <1>3, <3>1, <3>2
  <2>4. AtMostCancels
    BY <2>1, <2>3 DEF AtMostCancels
  <2>5. \A q \in Procs : Leaves(q)
    BY <2>1, <2>2 DEF Leaves
  <2>6. QED
    BY <2>1, <2>4, <2>5 DEF Undisturbed, NewlyUnsure
<1>4. ASSUME NEW p \in Procs, HealSelect(p) PROVE Undisturbed
  <2>1. /\ pc[p] = "idle" /\ pc'[p] = "healing" /\ todo'[p] = Stray /\ job'[p] = None
        /\ \A q \in Procs : q # p =>
              pc'[q] = pc[q] /\ todo'[q] = todo[q] /\ seen'[q] = seen[q] /\ job'[q] = job[q] /\ at'[q] = at[q]
        /\ UNCHANGED <<rowVars, received, rounds, posted, unsure>>
    BY <1>4, <1>0 DEF HealSelect, TypeOK, worldVars, StandInv, StandsAt
  <2>2. StandsAt(p)'
    BY <2>1 DEF InPass, StandsAt, Stray, rowVars
  <2>3. AtMostCancels
    BY <2>1 DEF AtMostCancels, rowVars
  <2>4. \A q \in Procs : Leaves(q)
    BY <2>1, <2>2 DEF Leaves
  <2>5. QED
    BY <2>1, <2>3, <2>4 DEF Undisturbed, NewlyUnsure
<1>5. ASSUME NEW p \in Procs, Crash(p) PROVE Undisturbed
  <2>1. /\ pc'[p] = "idle" /\ todo'[p] = {} /\ job'[p] = None
        /\ \A q \in Procs : q # p =>
              pc'[q] = pc[q] /\ todo'[q] = todo[q] /\ seen'[q] = seen[q] /\ job'[q] = job[q] /\ at'[q] = at[q]
        /\ UNCHANGED <<rowVars, received, rounds, posted>>
        /\ unsure \subseteq unsure'
        /\ pc[p] \in {"delivered", "undelivered"} => job[p] \in unsure'
    BY <1>5, <1>0 DEF Crash, Idle, TypeOK
  <2>2. StandsAt(p)'
    BY <2>1 DEF InPass, StandsAt
  <2>3. AtMostCancels
    BY <2>1 DEF AtMostCancels, rowVars
  <2>4. \A q \in Procs : Leaves(q)
    BY <2>1, <2>2 DEF Leaves
  <2>5. NewlyUnsure
    <3>1. pc[p] \in {"delivered", "undelivered"} => job[p] \in Reminders /\ InHand(job[p])
      BY <1>0 DEF JobOK, StandInv, StandsAt, InHand
    <3>2. QED
      BY <1>5, <3>1 DEF Crash, NewlyUnsure
  <2>6. QED
    BY <2>3, <2>4, <2>5 DEF Undisturbed
<1>6. CASE \/ \E p \in Procs, t \in Tasks : Mute(p, t)
           \/ WebStep \/ Advance \/ UNCHANGED vars
  <2>1. UNCHANGED <<procVars, received, rounds, posted, attempt_count, next_retry_at, unsure>>
    BY <1>6 DEF Mute, WebStep, Complete, CompleteCancel, CrashRequest, Configure, Advance, CancelPending, rowVars,
         worldVars, vars
  <2>2. status' = status \/ \E t \in Tasks : CompleteCancel(t)
    BY <1>6 DEF Mute, WebStep, Complete, CrashRequest, Configure, Advance, rowVars, vars
  <2>3. QED
    BY <2>1, <2>2 DEF Undisturbed, AtMostCancels, Leaves, NewlyUnsure, procVars, CompleteCancel, CancelPending
<1>7. ASSUME NEW p \in Procs, NEW t \in Tasks, NEW kept, SyncWithdraw(p, t, kept) PROVE Undisturbed
  <2>1. UNCHANGED <<procVars, received, rounds, posted, attempt_count, next_retry_at, unsure>>
    BY <1>7 DEF SyncWithdraw, CancelPending, worldVars
  <2>2. QED
    BY <1>7, <2>1 DEF Undisturbed, AtMostCancels, Leaves, NewlyUnsure, procVars, SyncWithdraw, CancelPending
<1>8. QED
  BY <1>1, <1>2, <1>3, <1>4, <1>5, <1>6, <1>7 DEF LeavingStep

\* Every action preserves the invariant, with any number of dispatchers and any
\* crash.
LEMMA IInvStep == IInv /\ [Next]_vars => IInv'
<1> SUFFICES ASSUME IInv, [Next]_vars PROVE RowInv' /\ HeldInv' /\ AloneInv' /\ StandInv'
  BY TypeStep DEF IInv
<1>a. TypeInv /\ TypeOK /\ JobOK /\ Budget /\ RowInv /\ HeldInv /\ AloneInv /\ StandInv
  BY DEF IInv, TypeInv
<1>b. TypeInv' /\ TypeOK'
  BY <1>a, TypeStep DEF TypeInv
<1>c. DispatchAssumption
  BY DispatchAssumption
<1>1. ASSUME NEW p \in Procs, StartPass(p) PROVE RowInv' /\ HeldInv' /\ AloneInv' /\ StandInv'
  <2> DEFINE due == { r \in Reminders : Due(r, now) }
  <2>1. /\ pc[p] = "idle" /\ pc'[p] = "loop" /\ todo'[p] = due /\ job'[p] = None
        /\ todo[p] = {}
        /\ \A r \in due : seen'[p][r] = attempt_count[r]
        /\ \A q \in Procs : q # p =>
              pc'[q] = pc[q] /\ job'[q] = job[q] /\ todo'[q] = todo[q] /\ seen'[q] = seen[q]
        /\ unsure' = unsure \cup { r \in due : InHand(r) }
        /\ UNCHANGED <<rowVars, received, rounds, posted>>
    BY <1>1, <1>a DEF StartPass, TypeOK, StandInv, StandsAt
  <2>2. \A r \in due : r \in Reminders /\ status[r] = "PENDING" /\ attempt_count[r] < MaxAttempts
    BY <1>a DEF Due, Scheduled, Budget
  <2>3. \A r : Delivered(r)' <=> Delivered(r)
    BY <2>1, DeliveredStable
  <2>4. \A r : (Sending(r)' <=> Sending(r)) /\ (Failing(r)' <=> Failing(r))
    BY <2>1, SendingElsewhere
  <2>5. \A r \in Sure' : r \in Sure /\ r \in Reminders
    BY <2>1 DEF Sure
  <2>6. ASSUME NEW r \in Sure', r \in due
        PROVE  /\ \A q \in Procs : q # p => ~Holds(q, r)
               /\ ~Delivered(r)
    <3>1. ~InHand(r)
      BY <2>1, <2>6 DEF Sure
    <3>2. \A q \in Procs : ~Holds(q, r)
      BY <3>1 DEF InHand, Holds, InPass
    <3>3. ~Sending(r)
      BY <3>2, <1>a DEF Sending, Holds, InPass, StandInv, StandsAt
    <3>4. ~Delivered(r)
      BY <2>2, <2>5, <2>6, <3>3, <1>a DEF RowInv, RowAt
    <3>5. QED
      BY <3>2, <3>4
  <2> HIDE DEF due
  <2>7. RowInv'
    <3> SUFFICES ASSUME NEW r \in Sure' PROVE RowAt(r)'
      BY DEF RowInv
    <3>1. RowAt(r)
      BY <2>5, <1>a DEF RowInv
    <3>2. QED
      BY <3>1, <2>1, <2>3, <2>4 DEF RowAt, rowVars
  <2>8. HeldInv'
    <3> SUFFICES ASSUME NEW q \in Procs, NEW r \in Sure', Holds(q, r)' PROVE HeldAt(q, r)'
      BY DEF HeldInv
    <3>1. CASE q = p
      <4>1. r \in due
        BY <3>1, <2>1 DEF Holds
      <4>2. QED
        BY <3>1, <4>1, <2>1, <2>2, <2>3, <2>6 DEF HeldAt, Withdrawable, rowVars
    <3>2. CASE q # p
      <4>1. Holds(q, r) /\ HeldAt(q, r)
        BY <3>2, <2>1, <2>5, <1>a DEF Holds, InPass, HeldInv
      <4>2. QED
        BY <3>2, <4>1, <2>1, <2>3 DEF HeldAt, Withdrawable, rowVars
    <3>3. QED
      BY <3>1, <3>2
  <2>9. AloneInv'
    <3> SUFFICES ASSUME NEW q \in Procs, NEW o \in Procs, NEW r \in Sure',
                        Holds(q, r)', Holds(o, r)', q # o
                 PROVE  FALSE
      BY DEF AloneInv
    <3>1. CASE q # p /\ o # p
      <4>1. Holds(q, r) /\ Holds(o, r)
        BY <3>1, <2>1 DEF Holds, InPass
      <4>2. QED
        BY <4>1, <2>5, <1>a DEF AloneInv
    <3>2. ASSUME NEW x \in Procs, x # p, Holds(x, r)', Holds(p, r)' PROVE FALSE
      <4>1. r \in due /\ Holds(x, r)
        BY <3>2, <2>1 DEF Holds, InPass
      <4>2. QED
        BY <4>1, <3>2, <2>6
    <3>3. QED
      BY <3>1, <3>2
  <2>10. StandInv'
    <3> SUFFICES ASSUME NEW q \in Procs PROVE StandsAt(q)'
      BY DEF StandInv
    <3>1. StandsAt(q)
      BY <1>a DEF StandInv
    <3>2. CASE q = p
      BY <3>2, <2>1, <2>2 DEF StandsAt, InPass, rowVars
    <3>3. CASE q # p
      BY <3>1, <3>3, <2>1 DEF StandsAt, InPass, rowVars
    <3>4. QED
      BY <3>2, <3>3
  <2>11. QED
    BY <2>7, <2>8, <2>9, <2>10
<1>2. ASSUME NEW p \in Procs, NEW r \in Reminders, NEW ok \in SUBSET Providers, Send(p, r, ok)
      PROVE RowInv' /\ HeldInv' /\ AloneInv' /\ StandInv'
  <2>1. /\ pc[p] = "loop" /\ r \in todo[p]
        /\ pc'[p] = IF ok = {} THEN "undelivered" ELSE "delivered"
        /\ job'[p] = r /\ job[p] = None
        /\ \A q \in Procs : q # p => pc'[q] = pc[q] /\ job'[q] = job[q]
        /\ UNCHANGED <<rowVars, todo, seen, posted, unsure>>
    BY <1>2, <1>a DEF Send, Earliest, TypeOK, StandInv, StandsAt
  <2>2. /\ \A q \in Reminders : q # r => received'[q] = received[q] /\ rounds'[q] = rounds[q]
        /\ rounds'[r] = rounds[r] + 1
        /\ \A v \in Providers : received'[r][v] = received[r][v] + (IF v \in ok THEN 1 ELSE 0)
    BY <1>2, <1>a DEF Send, TypeOK
  <2>3. \A q \in Reminders : q # r => (Delivered(q)' <=> Delivered(q))
    BY <2>2 DEF Delivered
  <2>4. Sure' = Sure /\ Sure \subseteq Reminders
    BY <2>1 DEF Sure
  <2>5. Holds(p, r) /\ (\A q \in Procs : \A x : Holds(q, x)' <=> Holds(q, x))
    BY <2>1 DEF Holds, InPass
  <2>6. ASSUME r \in Sure
        PROVE  /\ Withdrawable(r) /\ ~Delivered(r) /\ attempt_count[r] < MaxAttempts
               /\ seen[p][r] = attempt_count[r]
               /\ \A v \in Providers : received[r][v] = 0
               /\ Delivered(r)' <=> ok # {}
               /\ ~Sending(r) /\ ~Failing(r)
               /\ Sending(r)' <=> ok # {}
               /\ Failing(r)' <=> ok = {}
               /\ posted[r] = 0
    <3>1. HeldAt(p, r) /\ r # None /\ RowAt(r)
      BY <2>5, <2>6, <1>a, <1>c DEF HeldInv, DispatchAssumption, RowInv
    <3>2. Withdrawable(r) /\ ~Delivered(r) /\ attempt_count[r] < MaxAttempts
          /\ seen[p][r] = attempt_count[r]
      BY <3>1, <2>1 DEF HeldAt
    <3>3. \A v \in Providers : received[r][v] = 0
      BY <3>2, <1>a DEF Delivered, TypeOK
    <3>4. Delivered(r)' <=> ok # {}
      BY <2>2, <3>3 DEF Delivered
    <3>5. /\ ~Sending(r) /\ ~Failing(r)
          /\ Sending(r)' <=> ok # {}
          /\ Failing(r)' <=> ok = {}
      BY <2>1, <2>5, <2>6, <1>a, SendingHere
    <3>6. posted[r] = 0
      BY <3>1, <3>2, <1>a DEF RowAt, TypeOK
    <3>7. QED
      BY <3>2, <3>3, <3>4, <3>5, <3>6
  <2>7. RowInv'
    <3> SUFFICES ASSUME NEW x \in Sure PROVE RowAt(x)'
      BY <2>4 DEF RowInv
    <3>1. RowAt(x) /\ x \in Reminders
      BY <2>4, <1>a DEF RowInv
    <3>2. CASE x = r
      <4>1. r \in Sure
        BY <3>2
      <4>2. \A v \in Providers : received'[r][v] <= 1
        BY <2>2, <2>6, <4>1
      <4>3. rounds'[r] = attempt_count[r] + 1
        BY <2>2, <2>6, <3>1, <3>2, <4>1 DEF RowAt
      <4>4. status[r] \notin {"SENT", "FAILED"} /\ (status[r] = "ABSENT" => attempt_count[r] = 0)
        BY <2>6, <4>1 DEF Withdrawable
      <4>5. QED
        BY <2>1, <2>6, <3>2, <4>1, <4>2, <4>3, <4>4 DEF RowAt, rowVars
    <3>3. CASE x # r
      <4>1. (Sending(x)' <=> Sending(x)) /\ (Failing(x)' <=> Failing(x))
        BY <2>1, <3>3, SendingElsewhere
      <4>2. QED
        BY <2>1, <2>2, <2>3, <3>1, <3>3, <4>1 DEF RowAt, rowVars
    <3>4. QED
      BY <3>2, <3>3
  <2>8. HeldInv'
    <3> SUFFICES ASSUME NEW q \in Procs, NEW x \in Sure, Holds(q, x) PROVE HeldAt(q, x)'
      BY <2>4, <2>5 DEF HeldInv
    <3>1. HeldAt(q, x) /\ x \in Reminders
      BY <2>4, <1>a DEF HeldInv
    <3>2. CASE q = p /\ x = r
      BY <3>2, <2>1, <2>6 DEF HeldAt, rowVars, Withdrawable
    <3>3. CASE q = p /\ x # r
      <4>1. x # None
        BY <3>1, <1>c DEF DispatchAssumption
      <4>2. QED
        BY <3>1, <3>3, <4>1, <2>1, <2>3 DEF HeldAt, rowVars, Withdrawable
    <3>4. CASE q # p
      <4>1. x # r
        BY <3>4, <2>5, <1>a DEF AloneInv
      <4>2. QED
        BY <3>1, <3>4, <4>1, <2>1, <2>3 DEF HeldAt, rowVars, Withdrawable
    <3>5. QED
      BY <3>2, <3>3, <3>4
  <2>9. AloneInv'
    BY <2>4, <2>5, <1>a DEF AloneInv
  <2>10. StandInv'
    BY <2>1, <1>a DEF StandInv, StandsAt, InPass, rowVars
  <2>11. QED
    BY <2>7, <2>8, <2>9, <2>10
<1>3. ASSUME NEW p \in Procs, MarkSent(p) PROVE RowInv' /\ HeldInv' /\ AloneInv' /\ StandInv'
  <2>0. PICK r \in Reminders : r = job[p]
    BY <1>a, <1>3 DEF JobOK, MarkSent, Post, RecordFailure
  <2>1. /\ pc[p] = "delivered" /\ pc'[p] = "post" /\ r \in Reminders /\ r \in todo[p]
        /\ status'[r] = "SENT"
        /\ \A q \in Reminders : q # r => status'[q] = status[q]
        /\ \A q \in Procs : q # p => pc'[q] = pc[q] /\ job'[q] = job[q]
        /\ UNCHANGED <<job, todo, seen, attempt_count, received, rounds, posted, unsure>>
    BY <1>3, <1>a, <2>0 DEF MarkSent, TypeOK, JobOK, worldVars, StandInv, StandsAt
  <2>2. job'[p] = r
    BY <2>0, <2>1
  <2>3. \A q : Delivered(q)' <=> Delivered(q)
    BY <2>0, <2>1, DeliveredStable
  <2>4. Sure' = Sure /\ Sure \subseteq Reminders
    BY <2>0, <2>1 DEF Sure
  <2>5. Holds(p, r) /\ (\A q \in Procs : \A x : Holds(q, x)' <=> Holds(q, x))
    BY <2>0, <2>1 DEF Holds, InPass
  <2>6. ASSUME r \in Sure
        PROVE  /\ Delivered(r) /\ posted[r] = 0 /\ RowAt(r) /\ HeldAt(p, r)
               /\ ~Failing(r) /\ ~Sending(r)' /\ ~Failing(r)'
    <3>1. HeldAt(p, r) /\ RowAt(r)
      BY <2>5, <2>6, <1>a DEF HeldInv, RowInv
    <3>2. Delivered(r) /\ posted[r] = 0
      BY <3>1, <2>0, <2>1 DEF HeldAt
    <3>3. ~Failing(r) /\ ~Sending(r)' /\ ~Failing(r)'
      <4>1. /\ Failing(r) <=> pc[p] = "undelivered" /\ job[p] = r
            /\ Sending(r)' <=> pc'[p] = "delivered" /\ job'[p] = r
            /\ Failing(r)' <=> pc'[p] = "undelivered" /\ job'[p] = r
        <5>1. \A q \in Procs : q # p => pc'[q] = pc[q] /\ job'[q] = job[q]
          BY <2>0, <2>1
        <5>2. QED
          BY <5>1, <2>5, <2>6, <1>a, SendingHere
      <4>2. QED
        BY <4>1, <2>0, <2>1
    <3>4. QED
      BY <3>1, <3>2, <3>3
  <2>7. RowInv'
    <3> SUFFICES ASSUME NEW x \in Sure PROVE RowAt(x)'
      BY <2>4 DEF RowInv
    <3>1. RowAt(x) /\ x \in Reminders
      BY <2>4, <1>a DEF RowInv
    <3>2. CASE x = r
      BY <2>0, <2>1, <2>3, <2>6, <3>1, <3>2 DEF RowAt
    <3>3. CASE x # r
      <4>1. (Sending(x)' <=> Sending(x)) /\ (Failing(x)' <=> Failing(x))
        BY <2>0, <2>1, <2>2, <3>3, SendingElsewhere
      <4>2. QED
        BY <2>0, <2>1, <2>3, <3>1, <3>3, <4>1 DEF RowAt
    <3>4. QED
      BY <3>2, <3>3
  <2>8. HeldInv'
    <3> SUFFICES ASSUME NEW q \in Procs, NEW x \in Sure, Holds(q, x) PROVE HeldAt(q, x)'
      BY <2>4, <2>5 DEF HeldInv
    <3>1. HeldAt(q, x) /\ x \in Reminders
      BY <2>4, <1>a DEF HeldInv
    <3>2. CASE q = p /\ x = r
      BY <3>1, <3>2, <2>0, <2>1, <2>2, <2>3, <2>6 DEF HeldAt, Withdrawable
    <3>3. CASE q = p /\ x # r
      BY <3>1, <3>3, <2>0, <2>1, <2>2, <2>3 DEF HeldAt, Withdrawable
    <3>4. CASE q # p
      <4>1. x # r
        BY <3>4, <2>5, <1>a DEF AloneInv
      <4>2. QED
        BY <3>1, <3>4, <4>1, <2>0, <2>1, <2>3 DEF HeldAt, Withdrawable
    <3>5. QED
      BY <3>2, <3>3, <3>4
  <2>9. AloneInv'
    BY <2>4, <2>5, <1>a DEF AloneInv
  <2>10. StandInv'
    <3>1. \A q \in Procs : todo[q] \subseteq Reminders
      BY <1>a DEF TypeOK
    <3>2. QED
      BY <2>0, <2>1, <2>2, <3>1, <1>a DEF StandInv, StandsAt, InPass
  <2>11. QED
    BY <2>7, <2>8, <2>9, <2>10
<1>4. ASSUME NEW p \in Procs, Post(p) PROVE RowInv' /\ HeldInv' /\ AloneInv' /\ StandInv'
  <2>0. PICK r \in Reminders : r = job[p]
    BY <1>a, <1>4 DEF JobOK, MarkSent, Post, RecordFailure
  <2>1. /\ pc[p] = "post" /\ pc'[p] = "loop" /\ r \in Reminders /\ r \in todo[p] /\ job'[p] = None
        /\ posted'[r] = posted[r] + 1
        /\ \A q \in Reminders : q # r => posted'[q] = posted[q]
        /\ todo'[p] = todo[p] \ {r}
        /\ \A q \in Procs : q # p => pc'[q] = pc[q] /\ job'[q] = job[q] /\ todo'[q] = todo[q]
        /\ UNCHANGED <<seen, rowVars, received, rounds, unsure>>
    BY <1>4, <1>a, <2>0 DEF Post, TypeOK, JobOK, StandInv, StandsAt
  <2>2. \A q : Delivered(q)' <=> Delivered(q)
    BY <2>0, <2>1, DeliveredStable
  <2>3. \A x : (Sending(x)' <=> Sending(x)) /\ (Failing(x)' <=> Failing(x))
    BY <2>0, <2>1, SendingElsewhere
  <2>4. Sure' = Sure /\ Sure \subseteq Reminders
    BY <2>0, <2>1 DEF Sure
  <2>5. Holds(p, r) /\ (\A q \in Procs : \A x : Holds(q, x)' => Holds(q, x) /\ (q = p => x # r))
    BY <2>0, <2>1 DEF Holds, InPass
  <2>6. r \in Sure => Delivered(r) /\ posted[r] = 0
    BY <2>0, <2>1, <2>5, <1>a DEF HeldInv, HeldAt
  <2>7. RowInv'
    <3> SUFFICES ASSUME NEW x \in Sure PROVE RowAt(x)'
      BY <2>4 DEF RowInv
    <3>1. RowAt(x) /\ x \in Reminders
      BY <2>4, <1>a DEF RowInv
    <3>2. QED
      BY <3>1, <2>0, <2>1, <2>2, <2>3, <2>6 DEF RowAt, rowVars
  <2>8. HeldInv'
    <3> SUFFICES ASSUME NEW q \in Procs, NEW x \in Sure, Holds(q, x)' PROVE HeldAt(q, x)'
      BY <2>4 DEF HeldInv
    <3>1. Holds(q, x) /\ HeldAt(q, x) /\ x \in Reminders
      BY <2>4, <2>5, <1>a DEF HeldInv
    <3>2. x # r /\ x # None
      BY <2>5, <3>1, <1>a, <1>c DEF AloneInv, DispatchAssumption
    <3>3. CASE q = p
      BY <3>1, <3>2, <3>3, <2>0, <2>1, <2>2 DEF HeldAt, Withdrawable, rowVars
    <3>4. CASE q # p
      BY <3>1, <3>2, <3>4, <2>0, <2>1, <2>2 DEF HeldAt, Withdrawable, rowVars
    <3>5. QED
      BY <3>3, <3>4
  <2>9. AloneInv'
    BY <2>4, <2>5, <1>a DEF AloneInv
  <2>10. StandInv'
    BY <2>0, <2>1, <1>a DEF StandInv, StandsAt, InPass, rowVars
  <2>11. QED
    BY <2>7, <2>8, <2>9, <2>10
<1>5. ASSUME NEW p \in Procs, RecordFailure(p) PROVE RowInv' /\ HeldInv' /\ AloneInv' /\ StandInv'
  <2>0. PICK r \in Reminders : r = job[p]
    BY <1>a, <1>5 DEF JobOK, MarkSent, Post, RecordFailure
  <2>1. /\ pc[p] = "undelivered" /\ pc'[p] = "loop" /\ r \in Reminders /\ r \in todo[p]
        /\ job'[p] = None
        /\ attempt_count'[r] = Attempt(p)
        /\ \A q \in Reminders : q # r => attempt_count'[q] = attempt_count[q]
        /\ todo'[p] = todo[p] \ {r}
        /\ \A q \in Procs : q # p => pc'[q] = pc[q] /\ job'[q] = job[q] /\ todo'[q] = todo[q]
        /\ UNCHANGED <<seen, received, rounds, posted, unsure>>
    BY <1>5, <1>a, <2>0 DEF RecordFailure, TypeOK, JobOK, StandInv, StandsAt, worldVars
  <2>2. /\ status'[r] = IF Exhausted(p) THEN "FAILED" ELSE status[r]
        /\ \A q \in Reminders : q # r => status'[q] = status[q]
    <3>1. CASE Exhausted(p)
      <4>1. status' = [status EXCEPT ![r] = "FAILED"]
        BY <1>5, <3>1, <2>0 DEF RecordFailure
      <4>2. QED
        BY <4>1, <3>1, <2>0, <2>1, <1>a, <2>0 DEF TypeOK
    <3>2. CASE ~Exhausted(p)
      <4>1. status' = status
        BY <1>5, <3>2 DEF RecordFailure
      <4>2. QED
        BY <4>1, <3>2
    <3>3. QED
      BY <3>1, <3>2
  <2>3. \A q : Delivered(q)' <=> Delivered(q)
    BY <2>0, <2>1, DeliveredStable
  <2>4. Sure' = Sure /\ Sure \subseteq Reminders
    BY <2>0, <2>1 DEF Sure
  <2>5. Holds(p, r) /\ (\A q \in Procs : \A x : Holds(q, x)' => Holds(q, x) /\ (q = p => x # r))
    BY <2>0, <2>1 DEF Holds, InPass
  <2>6. ASSUME r \in Sure
        PROVE  /\ ~Delivered(r) /\ Withdrawable(r) /\ RowAt(r)
               /\ Attempt(p) = attempt_count[r] + 1 /\ attempt_count[r] < MaxAttempts
               /\ Exhausted(p) => attempt_count[r] + 1 = MaxAttempts
               /\ Failing(r) /\ ~Sending(r) /\ ~Sending(r)' /\ ~Failing(r)'
    <3>1. HeldAt(p, r) /\ RowAt(r)
      BY <2>5, <2>6, <1>a DEF HeldInv, RowInv
    <3>2. ~Delivered(r) /\ Withdrawable(r)
      BY <3>1, <2>0, <2>1 DEF HeldAt
    <3>3. Attempt(p) = attempt_count[r] + 1 /\ attempt_count[r] < MaxAttempts
      BY <3>1, <2>0 DEF HeldAt, Attempt
    <3>4. Exhausted(p) => attempt_count[r] + 1 = MaxAttempts
      <4>1. attempt_count[r] \in Nat /\ MaxAttempts \in Nat
        BY <2>0, <2>1, <1>a, <1>c DEF TypeOK, DispatchAssumption
      <4>2. QED
        BY <3>3, <4>1 DEF Exhausted
    <3>5. Failing(r) /\ ~Sending(r) /\ ~Sending(r)' /\ ~Failing(r)'
      <4>1. /\ Sending(r) <=> pc[p] = "delivered" /\ job[p] = r
            /\ Failing(r) <=> pc[p] = "undelivered" /\ job[p] = r
            /\ Sending(r)' <=> pc'[p] = "delivered" /\ job'[p] = r
            /\ Failing(r)' <=> pc'[p] = "undelivered" /\ job'[p] = r
        <5>1. \A q \in Procs : q # p => pc'[q] = pc[q] /\ job'[q] = job[q]
          BY <2>0, <2>1
        <5>2. QED
          BY <5>1, <2>5, <2>6, <1>a, SendingHere
      <4>2. QED
        BY <4>1, <2>0, <2>1
    <3>6. QED
      BY <3>1, <3>2, <3>3, <3>4, <3>5
  <2>7. RowInv'
    <3> SUFFICES ASSUME NEW x \in Sure PROVE RowAt(x)'
      BY <2>4 DEF RowInv
    <3>1. RowAt(x) /\ x \in Reminders
      BY <2>4, <1>a DEF RowInv
    <3>2. CASE x = r
      <4>1. r \in Sure
        BY <3>2
      <4>2. attempt_count'[r] = attempt_count[r] + 1 /\ rounds'[r] = attempt_count[r] + 1
        BY <2>0, <2>1, <2>6, <4>1 DEF RowAt
      <4>3. ~Delivered(r)' /\ ~Sending(r)' /\ ~Failing(r)'
        BY <2>3, <2>6, <4>1
      <4>4. \/ status'[r] \in {"PENDING", "CANCELLED"}
            \/ status'[r] = "FAILED" /\ attempt_count'[r] = MaxAttempts
        <5>1. CASE Exhausted(p)
          BY <5>1, <2>2, <2>6, <4>1, <4>2
        <5>2. CASE ~Exhausted(p)
          BY <5>2, <2>2, <2>6, <4>1 DEF Withdrawable
        <5>3. QED
          BY <5>1, <5>2
      <4>5. /\ \A v \in Providers : received'[r][v] <= 1
            /\ posted'[r] <= 1 /\ (posted'[r] > 0 => Delivered(r)')
        BY <2>0, <2>1, <2>3, <2>6, <4>1 DEF RowAt
      <4>6. QED
        BY <3>2, <4>2, <4>3, <4>4, <4>5 DEF RowAt
    <3>3. CASE x # r
      <4>1. (Sending(x)' <=> Sending(x)) /\ (Failing(x)' <=> Failing(x))
        BY <2>0, <2>1, <3>3, SendingElsewhere
      <4>2. QED
        BY <3>1, <3>3, <4>1, <2>0, <2>1, <2>2, <2>3 DEF RowAt
    <3>4. QED
      BY <3>2, <3>3
  <2>8. HeldInv'
    <3> SUFFICES ASSUME NEW q \in Procs, NEW x \in Sure, Holds(q, x)' PROVE HeldAt(q, x)'
      BY <2>4 DEF HeldInv
    <3>1. Holds(q, x) /\ HeldAt(q, x) /\ x \in Reminders
      BY <2>4, <2>5, <1>a DEF HeldInv
    <3>2. x # r /\ x # None
      BY <2>5, <3>1, <1>a, <1>c DEF AloneInv, DispatchAssumption
    <3>3. attempt_count'[x] = attempt_count[x] /\ status'[x] = status[x]
      BY <3>1, <3>2, <2>0, <2>1, <2>2
    <3>4. CASE q = p
      BY <3>1, <3>2, <3>3, <3>4, <2>0, <2>1, <2>3 DEF HeldAt, Withdrawable
    <3>5. CASE q # p
      BY <3>1, <3>2, <3>3, <3>5, <2>0, <2>1, <2>3 DEF HeldAt, Withdrawable
    <3>6. QED
      BY <3>4, <3>5
  <2>9. AloneInv'
    BY <2>4, <2>5, <1>a DEF AloneInv
  <2>10. StandInv'
    <3>1. \A q \in Procs : todo[q] \subseteq Reminders
      BY <1>a DEF TypeOK
    <3>2. \A x \in Reminders : status[x] # "ABSENT" => status'[x] # "ABSENT"
      BY <2>2
    <3>3. \A q \in Procs : StandsAt(q)
      BY <1>a DEF StandInv
    <3>4. \A q \in Procs : StandsAt(q)'
      BY <2>0, <2>1, <3>1, <3>2, <3>3 DEF StandsAt, InPass
    <3>5. QED
      BY <3>4 DEF StandInv
  <2>11. QED
    BY <2>7, <2>8, <2>9, <2>10
<1>6. ASSUME NEW p \in Procs, NEW r \in Reminders, NEW t \in ScheduleTimes, Queue(p, r, t)
      PROVE RowInv' /\ HeldInv' /\ AloneInv' /\ StandInv'
  <2>1. /\ status[r] = "ABSENT" /\ status'[r] = "PENDING" /\ attempt_count'[r] = 0
        /\ \A q \in Reminders : q # r => status'[q] = status[q] /\ attempt_count'[q] = attempt_count[q]
        /\ UNCHANGED <<procVars, received, rounds, posted, unsure>>
    BY <1>6, <1>a DEF Queue, Insert, TypeOK, worldVars
  <2>2. \A q : Delivered(q)' <=> Delivered(q)
    BY <2>1, DeliveredStable
  <2>3. \A x : (Sending(x)' <=> Sending(x)) /\ (Failing(x)' <=> Failing(x))
    BY <2>1 DEF Sending, Failing, procVars
  <2>4. Sure' = Sure /\ Sure \subseteq Reminders
    BY <2>1 DEF Sure
  <2>5. \A q \in Procs : r \notin todo[q]
    BY <2>1, <1>a DEF StandInv, StandsAt, InPass, TypeOK
  <2>6. ~Sending(r)
    BY <2>5, <1>a DEF Sending, StandInv, StandsAt
  <2>7. RowInv'
    <3> SUFFICES ASSUME NEW x \in Sure PROVE RowAt(x)'
      BY <2>4 DEF RowInv
    <3>1. RowAt(x) /\ x \in Reminders
      BY <2>4, <1>a DEF RowInv
    <3>2. CASE x = r
      BY <3>1, <3>2, <2>1, <2>2, <2>3, <2>6 DEF RowAt
    <3>3. CASE x # r
      BY <3>1, <3>3, <2>1, <2>2, <2>3 DEF RowAt
    <3>4. QED
      BY <3>2, <3>3
  <2>8. HeldInv'
    <3> SUFFICES ASSUME NEW q \in Procs, NEW x \in Sure, Holds(q, x)' PROVE HeldAt(q, x)'
      BY <2>4 DEF HeldInv
    <3>1. Holds(q, x) /\ HeldAt(q, x) /\ x \in Reminders /\ x # r
      BY <2>1, <2>4, <2>5, <1>a DEF HeldInv, Holds, InPass, procVars
    <3>2. QED
      BY <3>1, <2>1, <2>2 DEF HeldAt, Withdrawable, procVars
  <2>9. AloneInv'
    BY <2>1, <2>4, <1>a DEF AloneInv, Holds, InPass, procVars
  <2>10. StandInv'
    <3>1. \A q \in Procs : todo[q] \subseteq Reminders
      BY <1>a DEF TypeOK
    <3>2. \A x \in Reminders : status[x] # "ABSENT" => status'[x] # "ABSENT"
      BY <2>1
    <3>3. QED
      BY <2>1, <3>1, <3>2, <1>a DEF StandInv, StandsAt, InPass, procVars
  <2>11. QED
    BY <2>7, <2>8, <2>9, <2>10
<1>7. CASE LeavingStep
  BY <1>7, <1>a, Leaving, LeaveStep DEF Undisturbed
<1>8. QED
  BY <1>1, <1>2, <1>3, <1>4, <1>5, <1>6, <1>7 DEF Next, PassStep, SyncStep, LeavingStep

LEMMA IInvInit == Init => IInv
<1> SUFFICES ASSUME Init PROVE RowInv /\ HeldInv /\ AloneInv /\ StandInv
  BY TypeInit DEF IInv
<1>1. \A r \in Reminders : ~Delivered(r) /\ ~Sending(r) /\ ~Failing(r)
  BY DEF Init, Delivered, Sending, Failing
<1>2. \A p \in Procs, r \in Reminders : ~Holds(p, r)
  BY DEF Init, Holds
<1>3. QED
  BY <1>1, <1>2, DispatchAssumption
     DEF Init, RowInv, RowAt, HeldInv, AloneInv, StandInv, StandsAt, InPass, Sure, DispatchAssumption

LEMMA IInvHolds == Spec => []IInv
  BY IInvInit, IInvStep, PTL DEF Spec

\* "Re-running the scheduler can never resend one that already went out": no
\* provider delivers a reminder twice and the thread shows it at most once, with
\* any number of dispatchers, unless two passes held it at once or one ended
\* between the delivery and the commit of its outcome.
THEOREM AtMostOnceHolds == Spec => []AtMostOnce
<1>1. IInv => AtMostOnce
  BY DEF IInv, RowInv, RowAt, AtMostOnce
<1>2. QED
  BY <1>1, IInvHolds, PTL

\* Such a reminder has at most MAX_ATTEMPTS delivery rounds, for any budget.
THEOREM BoundedRetryHolds == Spec => []BoundedRetry
<1>1. IInv => BoundedRetry
  <2> SUFFICES ASSUME IInv, NEW r \in Sure PROVE rounds[r] <= MaxAttempts
    BY DEF BoundedRetry
  <2>1. /\ attempt_count[r] \in 0 .. MaxAttempts
        /\ rounds[r] = IF Delivered(r) \/ Failing(r) THEN attempt_count[r] + 1 ELSE attempt_count[r]
        /\ Delivered(r) \/ Failing(r) => attempt_count[r] < MaxAttempts
    BY DEF IInv, TypeInv, TypeOK, RowInv, RowAt, Sure
  <2>2. QED
    BY <2>1, DispatchAssumption DEF DispatchAssumption
<1>2. QED
  BY <1>1, IInvHolds, PTL

\* The stored outcome is what happened: SENT rows were delivered, FAILED rows
\* had their whole budget and no delivery, the thread shows delivered alerts.
THEOREM TruthfulOutcomeHolds == Spec => []TruthfulOutcome
<1>1. IInv => TruthfulOutcome
  <2> SUFFICES ASSUME IInv, NEW r \in Sure
               PROVE  /\ status[r] = "SENT" => Delivered(r)
                      /\ status[r] = "FAILED" => ~Delivered(r) /\ rounds[r] = MaxAttempts
                      /\ posted[r] > 0 => Delivered(r)
    BY DEF TruthfulOutcome
  <2>1. RowAt(r)
    BY DEF IInv, RowInv
  <2>2. status[r] = "FAILED" => ~Failing(r)
    BY <2>1, DispatchAssumption DEF RowAt, DispatchAssumption
  <2>3. QED
    BY <2>1, <2>2 DEF RowAt
<1>2. QED
  BY <1>1, IInvHolds, PTL

-----------------------------------------------------------------------------
(* What a step may do to an outcome, and to a row nobody holds. *)

\* The status of a row moves from the queue, from PENDING, or under a process that
\* had selected the row.
LEMMA StatusMoves ==
    ASSUME IInv, [Next]_vars, NEW r \in Reminders
    PROVE  \/ status'[r] = status[r]
           \/ status[r] = "ABSENT" /\ status'[r] = "PENDING"
           \/ status[r] = "PENDING" /\ status'[r] = "CANCELLED"
           \/ Claimed(r) /\ status'[r] \in {"SENT", "FAILED", "CANCELLED"}
<1> DEFINE Moves == \/ status'[r] = status[r]
                    \/ status[r] = "ABSENT" /\ status'[r] = "PENDING"
                    \/ status[r] = "PENDING" /\ status'[r] = "CANCELLED"
                    \/ Claimed(r) /\ status'[r] \in {"SENT", "FAILED", "CANCELLED"}
<1>a. TypeOK /\ StandInv
  BY DEF IInv, TypeInv
<1>1. ASSUME NEW p \in Procs, MarkSent(p) \/ RecordFailure(p) PROVE Moves
  <2>1. job[p] \in todo[p]
    BY <1>1, <1>a DEF MarkSent, RecordFailure, StandInv, StandsAt
  <2>2. \/ status' = status
        \/ status' = [status EXCEPT ![job[p]] = "SENT"]
        \/ status' = [status EXCEPT ![job[p]] = "FAILED"]
    BY <1>1 DEF MarkSent, RecordFailure
  <2>3. CASE r = job[p]
    BY <2>1, <2>2, <2>3, <1>a DEF Claimed, TypeOK
  <2>4. CASE r # job[p]
    BY <2>2, <2>4, <1>a DEF TypeOK
  <2>5. QED
    BY <2>3, <2>4
<1>2. ASSUME NEW p \in Procs, NEW q \in Reminders, NEW t \in ScheduleTimes, Queue(p, q, t) PROVE Moves
  BY <1>2, <1>a DEF Queue, Insert, TypeOK
<1>3. ASSUME NEW p \in Procs, SyncCancel(p) PROVE Moves
  BY <1>3 DEF SyncCancel, CancelPending
<1>4. ASSUME NEW t \in Tasks, CompleteCancel(t) PROVE Moves
  BY <1>4 DEF CompleteCancel, CancelPending
<1>4a. ASSUME NEW p \in Procs, NEW t \in Tasks, NEW kept, SyncWithdraw(p, t, kept) PROVE Moves
  BY <1>4a DEF SyncWithdraw, CancelPending
<1>5. ASSUME NEW p \in Procs, HealCancel(p) PROVE Moves
  BY <1>5 DEF HealCancel, Claimed
<1>6. ASSUME NEW p \in Procs,
             \/ StartPass(p) \/ Post(p) \/ EndPass(p) \/ HealSelect(p) \/ Crash(p)
             \/ \E q \in Reminders, ok \in SUBSET Providers : Send(p, q, ok)
             \/ \E t \in Tasks, s \in {"CANCELLED", "MISSED"} : SyncClose(p, t, s)
             \/ \E t \in Tasks : Mute(p, t)
      PROVE  Moves
  BY <1>6 DEF StartPass, Post, EndPass, HealSelect, Crash, Send, SyncClose, Mute, rowVars
<1>7. CASE \/ \E t \in Tasks : Complete(t) \/ CrashRequest(t)
           \/ \E vs \in SUBSET Providers : Configure(vs)
           \/ Advance \/ UNCHANGED vars
  BY <1>7 DEF Complete, CrashRequest, Configure, Advance, vars, rowVars
<1>8. QED
  BY <1>1, <1>2, <1>3, <1>4, <1>4a, <1>5, <1>6, <1>7 DEF Next, PassStep, SyncStep, WebStep

\* An outcome is final: SENT, FAILED and CANCELLED are overtaken only by a process
\* that had selected the row before, and nothing returns to PENDING.
THEOREM OutcomeFinalHolds == Spec => OutcomeFinal
<1>1. IInv /\ [Next]_vars =>
        [\A r \in Reminders :
           LET old == status[r]
               new == status'[r]
           IN  /\ old \in {"SENT", "FAILED", "CANCELLED"} /\ ~Claimed(r) => new = old
               /\ new = "PENDING" => old \in {"ABSENT", "PENDING"}]_vars
  <2> SUFFICES ASSUME IInv, [Next]_vars, NEW r \in Reminders
               PROVE  /\ status[r] \in {"SENT", "FAILED", "CANCELLED"} /\ ~Claimed(r)
                            => status'[r] = status[r]
                      /\ status'[r] = "PENDING" => status[r] \in {"ABSENT", "PENDING"}
    OBVIOUS
  <2>1. QED
    BY StatusMoves
<1>2. QED
  BY <1>1, IInvHolds, PTL DEF Spec, OutcomeFinal

\* A row comes into the hands of a pass only when that pass begins and the row is
\* due, and is sent only from those hands.
LEMMA HandsMove ==
    ASSUME IInv, [Next]_vars, NEW r \in Reminders
    PROVE  /\ InHand(r)' => InHand(r) \/ Due(r, now)
           /\ received'[r] # received[r] => InHand(r)
<1>a. TypeOK /\ StandInv
  BY DEF IInv, TypeInv
<1>1. ASSUME NEW p \in Procs, StartPass(p)
      PROVE  (InHand(r)' => InHand(r) \/ Due(r, now)) /\ received'[r] = received[r]
  <2>1. /\ \A q \in Procs : q # p => pc'[q] = pc[q] /\ todo'[q] = todo[q]
        /\ \A x \in todo'[p] : Due(x, now)
        /\ UNCHANGED received
    BY <1>1, <1>a DEF StartPass, TypeOK
  <2>2. QED
    BY <2>1 DEF InHand
<1>2. ASSUME NEW p \in Procs, NEW x \in Reminders, NEW ok \in SUBSET Providers, Send(p, x, ok)
      PROVE  (InHand(r)' => InHand(r)) /\ (received'[r] # received[r] => InHand(r))
  <2>1. /\ pc[p] = "loop" /\ x \in todo[p]
        /\ todo' = todo /\ \A q \in Procs : q # p => pc'[q] = pc[q]
        /\ r # x => received'[r] = received[r]
    BY <1>2, <1>a DEF Send, Earliest, TypeOK
  <2>2. QED
    BY <2>1 DEF InHand
<1>3. ASSUME NEW p \in Procs, MarkSent(p) \/ Post(p) \/ RecordFailure(p)
      PROVE  (InHand(r)' => InHand(r)) /\ received'[r] = received[r]
  <2>1. /\ pc[p] # "healing" /\ todo'[p] \subseteq todo[p]
        /\ \A q \in Procs : q # p => pc'[q] = pc[q] /\ todo'[q] = todo[q]
        /\ UNCHANGED received
    BY <1>3, <1>a DEF MarkSent, Post, RecordFailure, TypeOK, worldVars
  <2>2. QED
    BY <2>1 DEF InHand
<1>4. ASSUME NEW p \in Procs, EndPass(p) \/ SyncCancel(p) \/ HealCancel(p) \/ Crash(p)
      PROVE  (InHand(r)' => InHand(r)) /\ received'[r] = received[r]
  <2>1. /\ todo'[p] = {}
        /\ \A q \in Procs : q # p => pc'[q] = pc[q] /\ todo'[q] = todo[q]
        /\ UNCHANGED received
    BY <1>4, <1>a DEF EndPass, SyncCancel, HealCancel, Crash, Idle, TypeOK, worldVars
  <2>2. QED
    BY <2>1 DEF InHand
<1>5. ASSUME NEW p \in Procs, HealSelect(p)
      PROVE  (InHand(r)' => InHand(r)) /\ received'[r] = received[r]
  <2>1. /\ pc'[p] = "healing"
        /\ \A q \in Procs : q # p => pc'[q] = pc[q] /\ todo'[q] = todo[q]
        /\ UNCHANGED received
    BY <1>5, <1>a DEF HealSelect, TypeOK, worldVars
  <2>2. QED
    BY <2>1 DEF InHand
<1>6. ASSUME NEW p \in Procs, NEW t \in Tasks, NEW s \in {"CANCELLED", "MISSED"}, SyncClose(p, t, s)
      PROVE  (InHand(r)' => InHand(r)) /\ received'[r] = received[r]
  <2>1. /\ pc[p] = "idle" /\ todo' = todo
        /\ \A q \in Procs : q # p => pc'[q] = pc[q]
        /\ UNCHANGED received
    BY <1>6, <1>a DEF SyncClose, TypeOK, worldVars
  <2>2. QED
    BY <2>1 DEF InHand
<1>7. CASE \/ \E p \in Procs : \/ \E x \in Reminders, t \in ScheduleTimes : Queue(p, x, t)
                               \/ \E t \in Tasks : \/ SyncWithdraw(p, t, Appearances)
                                                   \/ SyncWithdraw(p, t, {})
                                                   \/ Mute(p, t)
           \/ WebStep \/ Advance \/ UNCHANGED vars
  <2>1. UNCHANGED <<pc, todo, received>>
    BY <1>7 DEF Queue, SyncWithdraw, Mute, WebStep, Complete, CompleteCancel, CrashRequest, Configure, Advance,
         procVars, worldVars, vars
  <2>2. QED
    BY <2>1 DEF InHand
<1>8. QED
  BY <1>1, <1>2, <1>3, <1>4, <1>5, <1>6, <1>7 DEF Next, PassStep, SyncStep

\* A reminder of a closed task that no pass is holding is never sent again, and no
\* later pass picks it up, even where the cancellation was lost to a crash.
THEOREM QuietOnceClosedHolds == Spec => QuietOnceClosed
<1>1. IInv /\ [Next]_vars =>
        [\A r \in Reminders :
           Closed(r) /\ ~InHand(r) => received'[r] = received[r] /\ ~InHand(r)']_vars
  <2> SUFFICES ASSUME IInv, [Next]_vars, NEW r \in Reminders, Closed(r), ~InHand(r)
               PROVE  received'[r] = received[r] /\ ~InHand(r)'
    OBVIOUS
  <2>1. ~Due(r, now)
    BY DEF Closed, Due, TaskAllows
  <2>2. QED
    BY <2>1, HandsMove
<1>2. QED
  BY <1>1, IInvHolds, PTL DEF Spec, QuietOnceClosed

-----------------------------------------------------------------------------
(* The backoff.  A row of Sure that has failed a round waits RETRY_DELAY from *)
(* some pass, and the pass that holds it began after that wait.               *)

BackoffInv ==
    /\ \A r \in Sure : attempt_count[r] \in 1 .. MaxAttempts - 1 => next_retry_at[r] >= RetryDelay
    /\ \A p \in Procs, r \in Sure : Holds(p, r) => next_retry_at[r] <= at[p]

LEMMA BackoffStep == IInv /\ BackoffInv /\ [Next]_vars => BackoffInv'
<1> SUFFICES ASSUME IInv, BackoffInv, [Next]_vars PROVE BackoffInv'
  OBVIOUS
<1>a. TypeOK /\ JobOK /\ AloneInv /\ StandInv /\ DispatchAssumption
  BY DispatchAssumption DEF IInv, TypeInv
<1>1. ASSUME NEW p \in Procs, StartPass(p) PROVE BackoffInv'
  <2>1. /\ at'[p] = now /\ \A x \in todo'[p] : Due(x, now)
        /\ \A q \in Procs : q # p => pc'[q] = pc[q] /\ todo'[q] = todo[q] /\ at'[q] = at[q]
        /\ UNCHANGED rowVars
        /\ Sure' \subseteq Sure
    BY <1>1, <1>a DEF StartPass, TypeOK, Sure
  <2>2. \A x \in Sure : Due(x, now) => next_retry_at[x] <= now
    BY <1>a DEF Due, BackedOff, TypeOK, Sure
  <2>3. QED
    BY <2>1, <2>2 DEF BackoffInv, Holds, InPass, rowVars
<1>2. ASSUME NEW p \in Procs,
             \/ MarkSent(p) \/ Post(p)
             \/ \E r \in Reminders, ok \in SUBSET Providers : Send(p, r, ok)
      PROVE  BackoffInv'
  <2>1. /\ UNCHANGED <<attempt_count, next_retry_at, at, unsure>>
        /\ InPass(p)
        /\ todo'[p] \subseteq todo[p]
        /\ \A q \in Procs : q # p => pc'[q] = pc[q] /\ todo'[q] = todo[q]
    BY <1>2, <1>a DEF MarkSent, Post, Send, TypeOK, rowVars, worldVars, InPass
  <2>2. Sure' = Sure
    BY <2>1 DEF Sure
  <2>3. QED
    BY <2>1, <2>2 DEF BackoffInv, Holds, InPass
<1>3. ASSUME NEW p \in Procs, RecordFailure(p) PROVE BackoffInv'
  <2>0. PICK r \in Reminders : r = job[p]
    BY <1>a, <1>3 DEF JobOK, RecordFailure
  <2>1. /\ pc[p] = "undelivered" /\ r \in todo[p] /\ todo'[p] = todo[p] \ {r}
        /\ attempt_count'[r] = Attempt(p)
        /\ \A x \in Reminders : x # r => attempt_count'[x] = attempt_count[x]
        /\ \A q \in Procs : q # p => pc'[q] = pc[q] /\ todo'[q] = todo[q]
        /\ UNCHANGED <<at, unsure>>
    BY <1>3, <1>a, <2>0 DEF RecordFailure, TypeOK, StandInv, StandsAt, worldVars
  <2>2. Exhausted(p) \/ next_retry_at'[r] = at[p] + RetryDelay
    BY <1>3, <1>a, <2>0 DEF RecordFailure, TypeOK
  <2>3. \A x \in Reminders : x # r => next_retry_at'[x] = next_retry_at[x]
    BY <1>3, <1>a, <2>0 DEF RecordFailure, TypeOK
  <2>4. Sure' = Sure /\ Sure \subseteq Reminders
    BY <2>1 DEF Sure
  <2>5. ASSUME NEW x \in Sure, attempt_count'[x] \in 1 .. MaxAttempts - 1
        PROVE  next_retry_at'[x] >= RetryDelay
    <3>1. CASE x = r
      <4>1. at[p] \in Nat /\ RetryDelay \in Nat /\ MaxAttempts \in Nat
        BY <1>a DEF TypeOK, DispatchAssumption
      <4>2. ~Exhausted(p)
        BY <2>1, <2>5, <3>1, <4>1 DEF Exhausted
      <4>3. QED
        BY <2>2, <3>1, <4>1, <4>2
    <3>2. CASE x # r
      BY <2>1, <2>3, <2>4, <2>5, <3>2 DEF BackoffInv
    <3>3. QED
      BY <3>1, <3>2
  <2>6. ASSUME NEW q \in Procs, NEW x \in Sure, Holds(q, x)'
        PROVE  next_retry_at'[x] <= at'[q]
    <3>1. Holds(q, x) /\ (q = p => x # r)
      BY <2>1, <2>6 DEF Holds, InPass
    <3>2. x # r
      BY <2>1, <3>1, <1>a DEF AloneInv, Holds, InPass
    <3>3. QED
      BY <2>1, <2>3, <2>4, <3>1, <3>2 DEF BackoffInv
  <2>7. QED
    BY <2>4, <2>5, <2>6 DEF BackoffInv
<1>4. ASSUME NEW p \in Procs, NEW r \in Reminders, NEW t \in ScheduleTimes, Queue(p, r, t)
      PROVE  BackoffInv'
  <2>1. /\ status[r] = "ABSENT" /\ attempt_count'[r] = 0
        /\ \A x \in Reminders : x # r =>
              attempt_count'[x] = attempt_count[x] /\ next_retry_at'[x] = next_retry_at[x]
        /\ UNCHANGED <<pc, todo, at, unsure>>
    BY <1>4, <1>a DEF Queue, Insert, TypeOK, procVars, worldVars
  <2>2. Sure' = Sure /\ Sure \subseteq Reminders
    BY <2>1 DEF Sure
  <2>3. \A q \in Procs : ~Holds(q, r)
    BY <2>1, <1>a DEF StandInv, StandsAt, Holds
  <2>4. QED
    BY <2>1, <2>2, <2>3 DEF BackoffInv, Holds, InPass
<1>5. CASE LeavingStep
  <2>1. Undisturbed
    BY <1>5, Leaving
  <2>2. Sure' \subseteq Sure
    BY <2>1 DEF Undisturbed, AtMostCancels, Sure
  <2>3. \A q \in Procs, r \in Sure' : Holds(q, r)' => Holds(q, r) /\ at'[q] = at[q]
    BY <2>1 DEF Undisturbed, Leaves, Holds, InPass
  <2>4. QED
    BY <2>1, <2>2, <2>3 DEF Undisturbed, AtMostCancels, BackoffInv
<1>6. QED
  BY <1>1, <1>2, <1>3, <1>4, <1>5 DEF Next, PassStep, SyncStep, LeavingStep

LEMMA BackoffHolds == Spec => [](IInv /\ BackoffInv)
<1>1. Init => BackoffInv
  BY DEF Init, BackoffInv, Holds, InPass, Sure
<1>2. QED
  BY <1>1, IInvInit, IInvStep, BackoffStep, PTL DEF Spec

\* Two rounds of the same reminder belong to passes that began RETRY_DELAY apart:
\* every pass honours the backoff, whichever process recorded the failure.
THEOREM RetriesSpacedHolds == Spec => RetriesSpaced
<1>1. ASSUME IInv, BackoffInv, NEW p \in Procs, NEW r \in Sure,
             NEW q \in Procs, NEW x \in Reminders, NEW ok \in SUBSET Providers, Send(q, x, ok),
             rounds'[r] > rounds[r], rounds[r] > 0, job'[p] = r
      PROVE  at[p] >= next_retry_at[r] /\ next_retry_at[r] >= RetryDelay
  <2>a. TypeOK /\ JobOK /\ RowInv /\ HeldInv /\ AloneInv /\ StandInv /\ DispatchAssumption
    BY <1>1, DispatchAssumption DEF IInv, TypeInv
  <2>b. r \in Reminders /\ r # None /\ r \notin Tasks
    BY <2>a DEF Sure, DispatchAssumption
  <2>1. /\ pc[q] = "loop" /\ x \in todo[q] /\ job[q] = None
        /\ \A o \in Procs : o # q => job'[o] = job[o]
        /\ \A y \in Reminders : y # x => rounds'[y] = rounds[y]
    BY <1>1, <2>a DEF Send, Earliest, TypeOK, StandInv, StandsAt
  <2>2. x = r /\ Holds(q, r)
    <3>1. rounds[r] \in Nat
      BY <2>a, <2>b DEF TypeOK
    <3>2. x = r
      BY <1>1, <2>1, <2>b, <3>1
    <3>3. QED
      BY <2>1, <3>2 DEF Holds, InPass
  <2>3. ASSUME NEW o \in Procs, job[o] = r PROVE FALSE
    <3>1. pc[o] \in {"delivered", "undelivered", "post"}
      BY <2>3, <2>a, <2>b DEF TypeOK, JobOK, StandInv, StandsAt
    <3>2. Holds(o, r)
      BY <2>3, <3>1, <2>a DEF StandInv, StandsAt, Holds, InPass
    <3>3. o = q
      BY <3>2, <2>2, <2>a DEF AloneInv
    <3>4. QED
      BY <3>1, <3>3, <2>1
  <2>4. p = q
    BY <1>1, <2>1, <2>3
  <2>5. HeldAt(q, r) /\ RowAt(r) /\ r # job[q]
    BY <2>2, <2>3, <2>a DEF HeldInv, RowInv
  <2>6. ~Delivered(r) /\ ~Failing(r)
    BY <2>3, <2>5 DEF HeldAt, Failing
  <2>7. attempt_count[r] > 0 /\ attempt_count[r] < MaxAttempts
    BY <1>1, <2>5, <2>6 DEF HeldAt, RowAt
  <2>8. attempt_count[r] \in 1 .. MaxAttempts - 1
    <3>1. attempt_count[r] \in 0 .. MaxAttempts /\ MaxAttempts \in Nat
      BY <2>a, <2>b DEF TypeOK, DispatchAssumption
    <3>2. QED
      BY <2>7, <3>1
  <2>9. next_retry_at[r] \in Nat /\ at[p] \in Nat
    BY <2>a, <2>b DEF TypeOK
  <2>10. QED
    BY <1>1, <2>2, <2>4, <2>8, <2>9 DEF BackoffInv
<1>2. ASSUME IInv, [Next]_vars,
             ~ \E q \in Procs, x \in Reminders, ok \in SUBSET Providers : Send(q, x, ok)
      PROVE  rounds' = rounds
  BY <1>2 DEF Next, PassStep, SyncStep, WebStep, StartPass, MarkSent, Post, RecordFailure, EndPass,
     Queue, SyncClose, SyncCancel, SyncWithdraw, HealSelect, HealCancel, Mute, Complete, CompleteCancel, Configure,
     Advance, Crash, CrashRequest, vars, worldVars
<1>3. IInv /\ BackoffInv /\ [Next]_vars =>
        [\A r \in Sure, p \in Procs :
           rounds'[r] > rounds[r] /\ rounds[r] > 0 /\ job'[p] = r =>
               /\ at[p] >= next_retry_at[r]
               /\ next_retry_at[r] >= RetryDelay]_vars
  <2> SUFFICES ASSUME IInv, BackoffInv, [Next]_vars, NEW r \in Sure, NEW p \in Procs,
                      rounds'[r] > rounds[r], rounds[r] > 0, job'[p] = r
               PROVE  at[p] >= next_retry_at[r] /\ next_retry_at[r] >= RetryDelay
    OBVIOUS
  <2>1. rounds[r] \in Nat
    BY DEF IInv, TypeInv, TypeOK, Sure
  <2>2. rounds' # rounds
    BY <2>1
  <2>3. QED
    BY <1>1, <1>2, <2>2
<1>4. QED
  BY <1>3, BackoffHolds, PTL DEF Spec, RetriesSpaced

-----------------------------------------------------------------------------
(* The table implements the abstract alert.  A step of the table raises one    *)
(* alert, tries one, or moves each alert by itself.                            *)

\* What a step that neither raises nor tries an alert does to alert r.
MovesByItself(r) ==
    \/ Phase(r)' = Phase(r) /\ Tries(r)' = Tries(r)
    \/ Phase(r) = "waiting" /\ Phase(r)' = "withdrawn" /\ Tries(r)' = Tries(r)
    \/ Phase(r) \in {"waiting", "delivered", "failed"} /\ Phase(r)' = "unsure" /\ Tries(r)' = 0

LEMMA DropOrStutter ==
    ASSUME \A r \in Reminders : MovesByItself(r)
    PROVE  [Abstract!Next]_(Abstract!vars)
<1> DEFINE L == { r \in Reminders : Phase(r)' = "unsure" /\ Phase(r) # "unsure" }
           W == { r \in Reminders : Phase(r)' = "withdrawn" /\ Phase(r) = "waiting" }
<1>1. CASE W \cup L = {}
  <2>1. \A r \in Reminders : Phase(r)' = Phase(r) /\ Tries(r)' = Tries(r)
    BY <1>1 DEF MovesByItself
  <2>2. UNCHANGED Abstract!vars
    BY <2>1 DEF Abstract!vars
  <2>3. QED
    BY <2>2
<1>2. CASE W \cup L # {}
  <2>1. Abstract!Drop(W, L)
    <3>1. /\ \A r \in W : r \in Reminders /\ Phase(r) = "waiting"
          /\ \A r \in L : r \in Reminders /\ Phase(r) \in {"waiting", "delivered", "failed"}
      BY DEF MovesByItself
    <3>2. \A r \in Reminders :
             /\ Phase(r)' = IF r \in L THEN "unsure" ELSE IF r \in W THEN "withdrawn" ELSE Phase(r)
             /\ Tries(r)' = IF r \in L THEN 0 ELSE Tries(r)
      BY DEF MovesByItself
    <3> HIDE DEF W, L
    <3>3. QED
      BY <1>2, <3>1, <3>2 DEF Abstract!Drop
  <2>2. W \in SUBSET Reminders /\ L \in SUBSET Reminders
    OBVIOUS
  <2> HIDE DEF W, L
  <2>3. QED
    BY <2>1, <2>2 DEF Abstract!Next
<1>3. QED
  BY <1>1, <1>2

\* An alert of whose row nothing changes that its phase depends on.
LEMMA PhaseKept ==
    ASSUME NEW r \in Reminders,
           r \in unsure' <=> r \in unsure,
           Delivered(r)' <=> Delivered(r), InHand(r)' <=> InHand(r),
           status'[r] = status[r], rounds'[r] = rounds[r]
    PROVE  Phase(r)' = Phase(r) /\ Tries(r)' = Tries(r)
  BY DEF Phase, Tries, Sure

\* A row in the hands of a pass is in the table.
LEMMA InHandPresent ==
    ASSUME TypeOK, StandInv, NEW r, InHand(r)
    PROVE  status[r] # "ABSENT" /\ \E p \in Procs : Holds(p, r)
  BY DEF TypeOK, StandInv, StandsAt, InHand, InPass, Holds

\* A row taken out of Sure while a pass has it in hand.
LEMMA TrackLost ==
    ASSUME IInv, NEW r \in Sure, r \in unsure', InHand(r)
    PROVE  MovesByItself(r)
<1>1. status[r] # "ABSENT"
  BY InHandPresent DEF IInv, TypeInv
<1>2. Phase(r) \in {"waiting", "delivered", "failed"}
  BY <1>1 DEF Phase, Sure
<1>3. Phase(r)' = "unsure" /\ Tries(r)' = 0
  BY DEF Phase, Tries, Sure
<1>4. QED
  BY <1>2, <1>3 DEF MovesByItself

\* The steps in which no row is sent, recorded or queued at most withdraw alerts or
\* lose track of those in hand.
LEMMA UndisturbedMoves ==
    ASSUME IInv, IInv', Undisturbed, NEW r \in Reminders
    PROVE  MovesByItself(r)
<1>a. TypeOK /\ StandInv /\ TypeOK' /\ StandInv'
  BY DEF IInv, TypeInv
<1>1. CASE r \in unsure
  <2>1. r \in unsure'
    BY <1>1 DEF Undisturbed, AtMostCancels
  <2>2. QED
    BY <1>1, <2>1 DEF MovesByItself, Phase, Tries, Sure
<1>2. CASE r \in Sure /\ r \in unsure'
  <2>1. InHand(r)
    BY <1>2 DEF Undisturbed, NewlyUnsure, Sure
  <2>2. QED
    BY <1>2, <2>1, TrackLost
<1>3. CASE r \in Sure /\ r \notin unsure'
  <2>1. Delivered(r)' <=> Delivered(r)
    BY DeliveredStable DEF Undisturbed, AtMostCancels
  <2>2. InHand(r)' => InHand(r)
    BY <1>a DEF InHand, Undisturbed, Leaves, TypeOK, StandsAt
  <2>3. /\ rounds'[r] = rounds[r]
        /\ \/ status'[r] = status[r]
           \/ status[r] # "ABSENT" /\ status'[r] = "CANCELLED"
    BY DEF Undisturbed, AtMostCancels
  <2>4. Tries(r)' = Tries(r)
    BY <1>3, <2>3 DEF Tries, Sure
  <2>5. \/ Phase(r)' = Phase(r)
        \/ Phase(r) = "waiting" /\ Phase(r)' = "withdrawn"
    <3>1. status[r] = "ABSENT" => ~Delivered(r) /\ ~(rounds[r] >= MaxAttempts)
      <4>1. status[r] = "ABSENT" => ~InHand(r)
        BY <1>a, InHandPresent
      <4>2. status[r] = "ABSENT" => ~Sending(r) /\ ~Failing(r)
        BY <4>1, <1>a DEF Sending, Failing, StandInv, StandsAt, InHand
      <4>3. RowAt(r)
        BY <1>3 DEF IInv, RowInv
      <4>4. QED
        BY <4>2, <4>3, DispatchAssumption DEF RowAt, DispatchAssumption
    <3>2. rounds[r] < MaxAttempts <=> ~(rounds[r] >= MaxAttempts)
      BY <1>a, DispatchAssumption DEF TypeOK, DispatchAssumption
    <3>3. QED
      BY <1>3, <2>1, <2>2, <2>3, <3>1, <3>2 DEF Phase, Sure
  <2>6. QED
    BY <2>4, <2>5 DEF MovesByItself
<1>4. QED
  BY <1>1, <1>2, <1>3 DEF Sure

LEMMA RefinesInit == Init => Abstract!Init
<1>1. ASSUME Init PROVE \A r \in Reminders : Phase(r) = "none" /\ Tries(r) = 0
  BY <1>1, DispatchAssumption DEF Init, Phase, Tries, Sure, Delivered, DispatchAssumption
<1>2. QED
  BY <1>1 DEF Abstract!Init

LEMMA RefinesNext == IInv /\ [Next]_vars => [Abstract!Next]_(Abstract!vars)
<1> SUFFICES ASSUME IInv, [Next]_vars PROVE [Abstract!Next]_(Abstract!vars)
  OBVIOUS
<1>a. /\ TypeOK /\ JobOK /\ RowInv /\ HeldInv /\ AloneInv /\ StandInv
      /\ DispatchAssumption /\ IInv'
  BY IInvStep, DispatchAssumption DEF IInv, TypeInv
<1>1. ASSUME NEW p \in Procs, StartPass(p), NEW r \in Reminders PROVE MovesByItself(r)
  <2>1. /\ \A x \in todo'[p] : Due(x, now)
        /\ pc[p] = "idle" /\ pc'[p] = "loop" /\ todo[p] = {}
        /\ \A q \in Procs : q # p => pc'[q] = pc[q] /\ todo'[q] = todo[q]
        /\ unsure \subseteq unsure'
        /\ r \in unsure' => r \in unsure \/ InHand(r)
        /\ UNCHANGED <<rowVars, received, rounds>>
    BY <1>1, <1>a DEF StartPass, TypeOK, StandInv, StandsAt
  <2>2. CASE r \in unsure
    BY <2>1, <2>2 DEF MovesByItself, Phase, Tries, Sure
  <2>3. CASE r \in Sure /\ r \in unsure'
    BY <2>1, <2>3, TrackLost DEF Sure
  <2>4. CASE r \in Sure /\ r \notin unsure'
    <3>1. (Delivered(r)' <=> Delivered(r)) /\ UNCHANGED <<status, rounds>>
      BY <2>1, DeliveredStable DEF rowVars
    <3>2. CASE r \in todo'[p]
      <4>1. status[r] = "PENDING"
        BY <2>1, <3>2 DEF Due, Scheduled
      <4>2. Phase(r)' = Phase(r) /\ Tries(r)' = Tries(r)
        BY <2>4, <3>1, <4>1 DEF Phase, Tries, Sure
      <4>3. QED
        BY <4>2 DEF MovesByItself
    <3>3. CASE r \notin todo'[p]
      <4>1. InHand(r)' <=> InHand(r)
        BY <2>1, <3>3 DEF InHand
      <4>2. QED
        BY <2>4, <3>1, <4>1, PhaseKept DEF MovesByItself, Sure
    <3>4. QED
      BY <3>2, <3>3
  <2>5. QED
    BY <2>2, <2>3, <2>4 DEF Sure
<1>2. ASSUME NEW p \in Procs, NEW x \in Reminders, NEW ok \in SUBSET Providers, Send(p, x, ok)
      PROVE  [Abstract!Next]_(Abstract!vars)
  <2>1. /\ pc[p] = "loop" /\ x \in todo[p] /\ job[p] = None
        /\ pc'[p] # "healing"
        /\ \A q \in Procs : q # p => pc'[q] = pc[q]
        /\ UNCHANGED <<status, todo, unsure>>
    BY <1>2, <1>a DEF Send, Earliest, TypeOK, StandInv, StandsAt, rowVars
  <2>2. /\ \A r \in Reminders : r # x => received'[r] = received[r] /\ rounds'[r] = rounds[r]
        /\ rounds'[x] = rounds[x] + 1
        /\ \A v \in Providers : received'[x][v] = received[x][v] + (IF v \in ok THEN 1 ELSE 0)
    BY <1>2, <1>a DEF Send, TypeOK
  <2>3. \A r \in Reminders : InHand(r)' <=> InHand(r)
    BY <2>1 DEF InHand
  <2>4. ASSUME NEW r \in Reminders, r # x \/ x \in unsure
        PROVE  Phase(r)' = Phase(r) /\ Tries(r)' = Tries(r)
    <3>1. CASE r \in unsure
      BY <2>1, <3>1 DEF Phase, Tries
    <3>2. CASE r \notin unsure
      <4>1. r # x
        BY <2>4, <3>2
      <4>2. Delivered(r)' <=> Delivered(r)
        BY <2>2, <4>1 DEF Delivered
      <4>3. QED
        BY <2>1, <2>2, <2>3, <4>1, <4>2, PhaseKept
    <3>3. QED
      BY <3>1, <3>2
  <2>5. CASE x \in unsure
    <3>1. \A r \in Reminders : MovesByItself(r)
      BY <2>4, <2>5 DEF MovesByItself
    <3>2. QED
      BY <3>1, DropOrStutter
  <2>6. CASE x \in Sure
    <3>1. x # None /\ Holds(p, x) /\ InHand(x)
      BY <2>1, <1>a DEF DispatchAssumption, Holds, InPass, InHand
    <3>2. HeldAt(p, x) /\ RowAt(x)
      BY <2>6, <3>1, <1>a DEF HeldInv, RowInv
    <3>3. Withdrawable(x) /\ ~Delivered(x) /\ attempt_count[x] < MaxAttempts
      BY <2>1, <3>1, <3>2 DEF HeldAt
    <3>4. ~Failing(x)
      BY <2>1, <2>6, <3>1, <1>a DEF Failing, AloneInv, StandInv, StandsAt, Holds, InPass
    <3>5. rounds[x] = attempt_count[x] /\ rounds[x] \in Nat /\ MaxAttempts \in Nat
      BY <3>2, <3>3, <3>4, <1>a DEF RowAt, TypeOK, DispatchAssumption
    <3>6. Phase(x) = "waiting" /\ Tries(x) = rounds[x] /\ Tries(x)' = rounds[x] + 1
      BY <2>1, <2>2, <2>6, <3>1, <3>3, <3>5 DEF Phase, Tries, Sure, Withdrawable
    <3>7. Phase(x)' = "delivered" \/ Phase(x)' = IF Tries(x) + 1 = MaxAttempts THEN "failed" ELSE "waiting"
      <4>1. CASE Delivered(x)'
        BY <2>1, <2>6, <3>3, <4>1 DEF Phase, Sure, Withdrawable
      <4>2. CASE ~Delivered(x)'
        <5>1. InHand(x)' /\ x \in Sure' /\ Withdrawable(x)'
          BY <2>1, <2>3, <2>6, <3>1, <3>3 DEF Sure, Withdrawable
        <5>2. rounds'[x] >= MaxAttempts <=> Tries(x) + 1 = MaxAttempts
          BY <2>2, <3>3, <3>5, <3>6
        <5>3. CASE Tries(x) + 1 = MaxAttempts
          BY <4>2, <5>1, <5>2, <5>3 DEF Phase, Sure, Withdrawable
        <5>4. CASE Tries(x) + 1 # MaxAttempts
          BY <4>2, <5>1, <5>2, <5>4 DEF Phase, Sure, Withdrawable
        <5>5. QED
          BY <5>3, <5>4
      <4>3. QED
        BY <4>1, <4>2
    <3>8. Abstract!Try(x)
      BY <2>4, <3>3, <3>5, <3>6, <3>7 DEF Abstract!Try
    <3>9. QED
      BY <3>8 DEF Abstract!Next
  <2>7. QED
    BY <2>5, <2>6 DEF Sure
<1>3. ASSUME NEW p \in Procs, MarkSent(p), NEW r \in Reminders PROVE MovesByItself(r)
  <2>1. /\ pc[p] = "delivered" /\ pc'[p] = "post" /\ job[p] \in todo[p] /\ job[p] \in Reminders
        /\ status'[job[p]] = "SENT"
        /\ \A x \in Reminders : x # job[p] => status'[x] = status[x]
        /\ \A q \in Procs : q # p => pc'[q] = pc[q]
        /\ UNCHANGED <<todo, received, rounds, unsure>>
    BY <1>3, <1>a DEF MarkSent, TypeOK, JobOK, StandInv, StandsAt, worldVars
  <2>2. (Delivered(r)' <=> Delivered(r)) /\ (InHand(r)' <=> InHand(r))
    BY <2>1, DeliveredStable DEF InHand
  <2>3. CASE r # job[p]
    BY <2>1, <2>2, <2>3, PhaseKept DEF MovesByItself
  <2>4. CASE r = job[p] /\ r \in unsure
    BY <2>1, <2>4 DEF MovesByItself, Phase, Tries, Sure
  <2>5. CASE r = job[p] /\ r \in Sure
    <3>1. Delivered(r) /\ status[r] # "ABSENT"
      BY <2>1, <2>5, <1>a DEF HeldInv, HeldAt, Holds, InPass, Withdrawable
    <3>2. Phase(r) = "delivered" /\ Phase(r)' = "delivered" /\ Tries(r)' = Tries(r)
      BY <2>1, <2>2, <2>5, <3>1 DEF Phase, Tries, Sure
    <3>3. QED
      BY <3>2 DEF MovesByItself
  <2>6. QED
    BY <2>3, <2>4, <2>5 DEF Sure
<1>4. ASSUME NEW p \in Procs, Post(p), NEW r \in Reminders PROVE MovesByItself(r)
  <2>1. /\ pc[p] = "post" /\ pc'[p] = "loop" /\ job[p] \in todo[p]
        /\ todo'[p] = todo[p] \ {job[p]}
        /\ \A q \in Procs : q # p => pc'[q] = pc[q] /\ todo'[q] = todo[q]
        /\ UNCHANGED <<status, received, rounds, unsure>>
    BY <1>4, <1>a DEF Post, TypeOK, StandInv, StandsAt, rowVars
  <2>2. Delivered(r)' <=> Delivered(r)
    BY <2>1, DeliveredStable
  <2>3. CASE r # job[p]
    <3>1. InHand(r)' <=> InHand(r)
      BY <2>1, <2>3 DEF InHand
    <3>2. QED
      BY <2>1, <2>2, <3>1, PhaseKept DEF MovesByItself
  <2>4. CASE r = job[p] /\ r \in unsure
    BY <2>1, <2>4 DEF MovesByItself, Phase, Tries, Sure
  <2>5. CASE r = job[p] /\ r \in Sure
    <3>1. Delivered(r) /\ status[r] # "ABSENT"
      BY <2>1, <2>5, <1>a DEF HeldInv, HeldAt, Holds, InPass
    <3>2. Phase(r) = "delivered" /\ Phase(r)' = "delivered" /\ Tries(r)' = Tries(r)
      BY <2>1, <2>2, <2>5, <3>1 DEF Phase, Tries, Sure
    <3>3. QED
      BY <3>2 DEF MovesByItself
  <2>6. QED
    BY <2>3, <2>4, <2>5 DEF Sure
<1>5. ASSUME NEW p \in Procs, RecordFailure(p), NEW r \in Reminders PROVE MovesByItself(r)
  <2>1. /\ pc[p] = "undelivered" /\ pc'[p] = "loop" /\ job[p] \in todo[p] /\ job[p] \in Reminders
        /\ todo'[p] = todo[p] \ {job[p]}
        /\ \A q \in Procs : q # p => pc'[q] = pc[q] /\ todo'[q] = todo[q]
        /\ UNCHANGED <<received, rounds, unsure>>
    BY <1>5, <1>a DEF RecordFailure, TypeOK, JobOK, StandInv, StandsAt, worldVars
  <2>2. /\ \A x \in Reminders : x # job[p] => status'[x] = status[x]
        /\ Exhausted(p) => status'[job[p]] = "FAILED"
        /\ ~Exhausted(p) => status' = status
    BY <1>5, <2>1, <1>a DEF RecordFailure, TypeOK
  <2>3. Delivered(r)' <=> Delivered(r)
    BY <2>1, DeliveredStable
  <2>4. CASE r # job[p]
    <3>1. InHand(r)' <=> InHand(r)
      BY <2>1, <2>4 DEF InHand
    <3>2. QED
      BY <2>1, <2>2, <2>3, <2>4, <3>1, PhaseKept DEF MovesByItself
  <2>5. CASE r = job[p] /\ r \in unsure
    BY <2>1, <2>5 DEF MovesByItself, Phase, Tries, Sure
  <2>6. CASE r = job[p] /\ r \in Sure
    <3>1. HeldAt(p, r) /\ RowAt(r) /\ Failing(r) /\ InHand(r)
      BY <2>1, <2>6, <1>a DEF HeldInv, RowInv, Holds, InPass, Failing, InHand
    <3>2. Withdrawable(r) /\ ~Delivered(r) /\ rounds[r] = attempt_count[r] + 1 /\ Attempt(p) = rounds[r]
      BY <2>1, <2>6, <3>1 DEF HeldAt, RowAt, Attempt
    <3>3. Tries(r)' = Tries(r)
      BY <2>1 DEF Tries
    <3>4. CASE Exhausted(p)
      <4>1. rounds[r] >= MaxAttempts
        BY <3>2, <3>4 DEF Exhausted
      <4>2. rounds[r] < MaxAttempts <=> FALSE
        BY <4>1, <1>a DEF TypeOK, DispatchAssumption
      <4>3. Phase(r) = "failed" /\ Phase(r)' = "failed"
        BY <2>1, <2>2, <2>3, <2>6, <3>2, <3>4, <4>1, <4>2 DEF Phase, Sure, Withdrawable
      <4>4. QED
        BY <3>3, <4>3 DEF MovesByItself
    <3>5. CASE ~Exhausted(p)
      <4>1. ~(rounds[r] >= MaxAttempts)
        BY <3>2, <3>5 DEF Exhausted
      <4>2. Phase(r) = "waiting"
        BY <2>6, <3>1, <3>2, <4>1 DEF Phase, Sure, Withdrawable
      <4>3. Phase(r)' \in {"waiting", "withdrawn"}
        BY <2>1, <2>2, <2>3, <2>6, <3>2, <3>5, <4>1 DEF Phase, Sure, Withdrawable
      <4>4. QED
        BY <3>3, <4>2, <4>3 DEF MovesByItself
    <3>6. QED
      BY <3>4, <3>5
  <2>7. QED
    BY <2>4, <2>5, <2>6 DEF Sure
<1>6. ASSUME NEW p \in Procs, NEW x \in Reminders, NEW t \in ScheduleTimes, Queue(p, x, t)
      PROVE  [Abstract!Next]_(Abstract!vars)
  <2>1. /\ status[x] = "ABSENT" /\ status'[x] = "PENDING"
        /\ \A r \in Reminders : r # x => status'[r] = status[r]
        /\ UNCHANGED <<pc, todo, received, rounds, unsure>>
    BY <1>6, <1>a DEF Queue, Insert, TypeOK, procVars, worldVars
  <2>2. \A r \in Reminders : (Delivered(r)' <=> Delivered(r)) /\ (InHand(r)' <=> InHand(r))
    BY <2>1, DeliveredStable DEF InHand
  <2>3. ASSUME NEW r \in Reminders, r # x \/ x \in unsure
        PROVE  Phase(r)' = Phase(r) /\ Tries(r)' = Tries(r)
    <3>1. CASE r \in unsure
      BY <2>1, <3>1 DEF Phase, Tries
    <3>2. CASE r \notin unsure
      BY <2>1, <2>2, <2>3, <3>2, PhaseKept
    <3>3. QED
      BY <3>1, <3>2
  <2>4. CASE x \in unsure
    <3>1. \A r \in Reminders : MovesByItself(r)
      BY <2>3, <2>4 DEF MovesByItself
    <3>2. QED
      BY <3>1, DropOrStutter
  <2>5. CASE x \in Sure
    <3>1. RowAt(x) /\ ~InHand(x)
      BY <2>1, <2>5, <1>a, InHandPresent DEF RowInv
    <3>2. ~Sending(x) /\ ~Failing(x)
      BY <3>1, <1>a DEF Sending, Failing, StandInv, StandsAt, InHand
    <3>3. ~Delivered(x) /\ rounds[x] = 0
      BY <2>1, <3>1, <3>2 DEF RowAt
    <3>4. rounds[x] < MaxAttempts /\ ~(rounds[x] >= MaxAttempts)
      BY <3>3, <1>a DEF DispatchAssumption
    <3>5. Phase(x) = "none" /\ Phase(x)' = "waiting" /\ Tries(x)' = Tries(x)
      BY <2>1, <2>2, <2>5, <3>3, <3>4 DEF Phase, Tries, Sure
    <3>6. Abstract!Raise(x)
      BY <2>3, <3>5 DEF Abstract!Raise
    <3>7. QED
      BY <3>6 DEF Abstract!Next
  <2>6. QED
    BY <2>4, <2>5 DEF Sure
<1>7. CASE LeavingStep
  <2>1. Undisturbed
    BY <1>7, Leaving
  <2>2. \A r \in Reminders : MovesByItself(r)
    BY <2>1, <1>a, UndisturbedMoves
  <2>3. QED
    BY <2>2, DropOrStutter
<1>8. CASE \E p \in Procs : StartPass(p) \/ MarkSent(p) \/ Post(p) \/ RecordFailure(p)
  <2>1. \A r \in Reminders : MovesByItself(r)
    BY <1>1, <1>3, <1>4, <1>5, <1>8
  <2>2. QED
    BY <2>1, DropOrStutter
<1>9. QED
  BY <1>2, <1>6, <1>7, <1>8 DEF Next, PassStep, SyncStep, LeavingStep

\* The table keeps the promise of OneShotAlert: with any number of dispatchers and
\* any crash, each of its steps raises, tries or drops an alert, or changes none.
THEOREM ImplementsOneShotHolds == Spec => ImplementsOneShot
  BY RefinesInit, RefinesNext, IInvHolds, PTL DEF Spec, ImplementsOneShot, Abstract!Spec
=============================================================================
