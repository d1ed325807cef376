--------------------------- MODULE TaskFormsProofs ---------------------------
(***************************************************************************)
(* Proofs about TaskForms, for any announcements, threads and bounds.      *)
(***************************************************************************)
EXTENDS TaskForms, SequenceTheorems, TLAPS

Closing == {"COMPLETED", "CANCELLED", "ARCHIVED"}

\* What a handler holds between its commits.
Handles(q) ==
    /\ q.pc \in {"course", "insert", "link"} => q.task \in Announcements \cup {0}
    /\ q.pc = "link" => q.task \in Announcements /\ q.child \in Ids /\ Manual(q.child)
    /\ q.pc = "archive" => q.task \in Ids /\ Exists(q.task)
    /\ q.pc = "edit" => q.task \in Ids /\ q.due \in Dates

Handling == \A r \in Requests : Handles(req[r])

\* The history of a task begins with the task and knows closed statuses only.
Recorded ==
    \A t \in Ids : /\ ~Exists(t) => log[t] = <<>>
                   /\ \A i \in DOMAIN log[t] : log[t][i] \in Closing

Present == \A a \in Announcements : task[a].source = "announcement"

AuditInv == TypeOK /\ Handling /\ Recorded /\ Present /\ StatusAudited

LEMMA IdFacts == 0 \notin Ids /\ 0 \notin Announcements /\ Announcements \subseteq Ids
BY FormsAssumption DEF FormsAssumption, Ids

\* A step that only moves a handler on.
LEMMA HandlerMoves ==
    ASSUME AuditInv, NEW r \in Requests, NEW q \in Handler, Handles(q), req' = [req EXCEPT ![r] = q],
           UNCHANGED <<task, log, due, made, gone>>, course' \in BOOLEAN, odd' \subseteq Oddities
    PROVE  AuditInv'
<1>1. TypeOK'
  BY DEF AuditInv, TypeOK, Manual
<1>2. Handling'
  BY DEF AuditInv, TypeOK, Handling, Handles, Manual, Exists
<1>3. QED
  BY <1>1, <1>2 DEF AuditInv, Recorded, Present, StatusAudited, Exists

\* A row is added to the history of t, with the status it gets.
LEMMA SetsRecords ==
    ASSUME AuditInv, NEW t \in Ids, Exists(t), NEW s \in Closing, Sets(t, s)
    PROVE  /\ task' \in [Ids -> Row] /\ log' \in [Ids -> Seq(Statuses)]
           /\ \A u \in Ids : task'[u].source = task[u].source /\ task'[u].parent = task[u].parent
           /\ Recorded' /\ StatusAudited'
<1>1. s \in Statuses
  BY DEF Closing, Statuses
<1>2. task' = [task EXCEPT ![t] = [task[t] EXCEPT !.status = s]] /\ task \in [Ids -> Row]
  BY DEF AuditInv, TypeOK, Sets
<1>3. log' = [log EXCEPT ![t] = Append(log[t], s)] /\ log \in [Ids -> Seq(Statuses)]
  BY DEF AuditInv, TypeOK, Sets
<1>4. task' \in [Ids -> Row]
  BY <1>1, <1>2 DEF Row
<1>5. log' \in [Ids -> Seq(Statuses)]
  BY <1>1, <1>3
<1>6. /\ Len(log'[t]) = Len(log[t]) + 1 /\ log'[t][Len(log'[t])] = s /\ log'[t] # <<>>
      /\ \A i \in DOMAIN log'[t] : log'[t][i] = s \/ (i \in DOMAIN log[t] /\ log'[t][i] = log[t][i])
  <2>1. log[t] \in Seq(Statuses) /\ log'[t] \in Seq(Statuses) /\ log'[t] = Append(log[t], s)
    BY <1>3, <1>5
  <2>2. /\ Len(log'[t]) = Len(log[t]) + 1 /\ log'[t][Len(log[t]) + 1] = s
        /\ \A i \in 1..Len(log[t]) : log'[t][i] = log[t][i]
    BY <1>1, <2>1, AppendProperties
  <2>3. /\ DOMAIN log'[t] = 1..Len(log'[t]) /\ DOMAIN log[t] = 1..Len(log[t])
        /\ Len(log[t]) \in Nat /\ log'[t] # <<>>
    BY <1>1, <2>1, AppendProperties
  <2>4. ASSUME NEW i \in DOMAIN log'[t]
        PROVE  log'[t][i] = s \/ (i \in DOMAIN log[t] /\ log'[t][i] = log[t][i])
    <3>1. i \in 1..Len(log[t]) \/ i = Len(log[t]) + 1
      BY <2>2, <2>3
    <3>2. QED
      BY <2>2, <2>3, <3>1
  <2>5. QED
    BY <2>2, <2>3, <2>4
<1>7. task'[t].status = s
  BY <1>1, <1>2 DEF Row
<1>8. \A u \in Ids : u # t => log'[u] = log[u] /\ task'[u] = task[u]
  BY <1>2, <1>3
<1>9. \A u \in Ids : task'[u].source = task[u].source /\ task'[u].parent = task[u].parent
  BY <1>2, <1>8 DEF Row
<1>10. Recorded'
  <2>1. \A u \in Ids : u # t => /\ ~Exists(u)' => log'[u] = <<>>
                               /\ \A i \in DOMAIN log'[u] : log'[u][i] \in Closing
    BY <1>8, <1>9 DEF AuditInv, Recorded, Exists
  <2>2. Exists(t)' /\ \A i \in DOMAIN log'[t] : log'[t][i] \in Closing
    BY <1>1, <1>6, <1>9 DEF AuditInv, Recorded, Exists
  <2>3. QED
    BY <2>1, <2>2 DEF Recorded
<1>11. StatusAudited'
  BY <1>1, <1>6, <1>7, <1>8 DEF AuditInv, StatusAudited
<1>12. QED
  BY <1>4, <1>5, <1>9, <1>10, <1>11

\* A step that closes t and may end the handler r.
LEMMA CloseStep ==
    ASSUME AuditInv, NEW t \in Ids, Exists(t), NEW s \in Closing, Sets(t, s),
           UNCHANGED <<course, due, made>>, gone' \subseteq Announcements, odd' \subseteq Oddities,
           req' \in [Requests -> Handler], \A r \in Requests : req'[r] = req[r] \/ req'[r] = Idle
    PROVE  AuditInv'
<1>1. /\ task' \in [Ids -> Row] /\ log' \in [Ids -> Seq(Statuses)]
      /\ \A u \in Ids : task'[u].source = task[u].source /\ task'[u].parent = task[u].parent
      /\ Recorded' /\ StatusAudited'
  BY SetsRecords
<1>2. TypeOK'
  BY <1>1 DEF AuditInv, TypeOK, Manual
<1>3. Handling'
  <2>1. Handles(Idle)'
    BY DEF Handles, Idle
  <2>2. ASSUME NEW q \in Handler, Handles(q) PROVE Handles(q)'
    <3>1. \A u \in Ids : (Manual(u) => Manual(u)') /\ (Exists(u) => Exists(u)')
      BY <1>1 DEF Manual, Exists
    <3>2. QED
      BY <2>2, <3>1 DEF Handles
  <2>3. \A r \in Requests : req[r] \in Handler /\ Handles(req[r])
    BY DEF AuditInv, TypeOK, Handling
  <2>4. QED
    BY <2>1, <2>2, <2>3 DEF Handling
<1>4. Present'
  BY <1>1, IdFacts DEF AuditInv, Present
<1>5. QED
  BY <1>1, <1>2, <1>3, <1>4 DEF AuditInv

LEMMA AuditInit == Init => AuditInv
<1> SUFFICES ASSUME Init PROVE AuditInv
  OBVIOUS
<1>1. task \in [Ids -> Row] /\ \A t \in Ids : task[t].parent = 0
  BY DEF Init, NoTask, Row, Statuses
<1>2. log \in [Ids -> Seq(Statuses)] /\ \A t \in Ids : log[t] = <<>>
  BY DEF Init
<1>3. req \in [Requests -> Handler] /\ \A r \in Requests : req[r].pc = "idle"
  BY DEF Init, Idle, Handler, Statuses
<1>4. course \in BOOLEAN /\ gone \subseteq Announcements /\ odd \subseteq Oddities /\ made \in [Ids -> Ids \cup {0}]
      /\ due \in [Ids -> [now : Dates \cup {None}, logged : Dates \cup {None}]]
  BY DEF Init
<1>5. Present
  BY IdFacts DEF Init, Present
<1>6. QED
  BY <1>1, <1>2, <1>3, <1>4, <1>5 DEF AuditInv, TypeOK, Handling, Handles, Recorded, StatusAudited

\* Every step keeps the history in line with the tasks.
LEMMA AuditStep == AuditInv /\ [Next]_vars => AuditInv'
<1> SUFFICES ASSUME AuditInv, [Next]_vars PROVE AuditInv'
  OBVIOUS
<1>0. /\ course \in BOOLEAN /\ gone \subseteq Announcements /\ odd \subseteq Oddities /\ req \in [Requests -> Handler]
      /\ task \in [Ids -> Row] /\ Idle \in Handler /\ None \in Statuses
  BY DEF AuditInv, TypeOK, Idle, Handler, Statuses
<1>1. ASSUME NEW r \in Requests, NEW a \in Ids, PostFromAnnouncement(r, a) PROVE AuditInv'
  <2> DEFINE q == [Idle EXCEPT !.pc = "course", !.task = a]
  <2>1. q \in Handler /\ Handles(q)
    BY <1>1 DEF PostFromAnnouncement, Idle, Handler, Handles, Statuses
  <2>2. req' = [req EXCEPT ![r] = q] /\ UNCHANGED <<task, course, log, due, made, gone>> /\ odd' \subseteq Oddities
    BY <1>0, <1>1 DEF PostFromAnnouncement, TakesFor, Oddities
  <2>3. QED
    BY <1>0, <2>1, <2>2, HandlerMoves
<1>2. ASSUME NEW r \in Requests, PostTask(r) PROVE AuditInv'
  <2> DEFINE q == [Idle EXCEPT !.pc = "course"]
  <2>1. q \in Handler /\ Handles(q)
    BY DEF Idle, Handler, Handles, Statuses
  <2>2. req' = [req EXCEPT ![r] = q] /\ UNCHANGED <<task, course, log, due, made, gone>> /\ odd' \subseteq Oddities
    BY <1>0, <1>2 DEF PostTask, Takes, Oddities
  <2>3. QED
    BY <1>0, <2>1, <2>2, HandlerMoves
<1>3. ASSUME NEW r \in Requests, FindCourse(r) PROVE AuditInv'
  <2> DEFINE q == [req[r] EXCEPT !.pc = "insert", !.saw = IF course THEN "course" ELSE None]
  <2>1. q \in Handler /\ Handles(q)
    BY <1>0, <1>3 DEF FindCourse, AuditInv, Handling, Handles, Handler
  <2>2. req' = [req EXCEPT ![r] = q] /\ UNCHANGED <<task, course, log, due, made, gone, odd>>
    BY <1>3 DEF FindCourse
  <2>3. QED
    BY <1>0, <2>1, <2>2, HandlerMoves
<1>4. ASSUME NEW r \in Requests, NEW t \in Ids, NEW planned \in BOOLEAN, NEW d \in Dates \cup {None},
             Insert(r, t, planned, d)
      PROVE  AuditInv'
  <2> DEFINE row == [source |-> "manual", parent |-> 0,
                     status |-> IF planned THEN "PLANNED" ELSE "ACTION_REQUIRED"]
             q   == IF req[r].task = 0 THEN Idle ELSE [req[r] EXCEPT !.pc = "link", !.child = t]
  <2>1. ~Exists(t)
    BY <1>4 DEF Insert, Free
  <2>2. t \notin Announcements /\ log[t] = <<>>
    BY <2>1 DEF AuditInv, Present, Recorded, Exists, None
  <2>3. row \in Row /\ row.source = "manual" /\ row.parent = 0 /\ row.source # None
    BY DEF Row, Statuses, None
  <2>4. /\ task' = [task EXCEPT ![t] = row] /\ req' = [req EXCEPT ![r] = q] /\ course' = TRUE
        /\ made' = [made EXCEPT ![t] = req[r].task] /\ due' = [due EXCEPT ![t] = [now |-> d, logged |-> d]]
        /\ UNCHANGED <<log, gone, odd>> /\ req[r].pc = "insert"
    BY <1>4 DEF Insert
  <2>5. q \in Handler
    BY <1>0 DEF Handler, Idle
  <2> HIDE DEF row
  <2>6. task'[t] = row /\ \A u \in Ids : u # t => task'[u] = task[u]
    BY <1>0, <2>4
  <2>7. Handles(req[r])'
    <3>1. req'[r] = q
      BY <1>0, <2>4
    <3>2. req[r].task \in Announcements \cup {0}
      BY <2>4 DEF AuditInv, Handling, Handles
    <3>3. QED
      BY <1>0, <2>3, <2>6, <3>1, <3>2 DEF Handles, Handler, Manual, Idle
  <2>8. Handling'
    <3>1. \A p \in Requests : p # r => Handles(req[p])'
      BY <1>0, <2>3, <2>4, <2>6 DEF AuditInv, Handling, Handles, Manual, Exists
    <3>2. QED
      BY <2>7, <3>1 DEF Handling
  <2>9. TypeOK'
    BY <1>0, <2>3, <2>4, <2>5, <2>6 DEF AuditInv, TypeOK, Handler, Manual
  <2>10. Recorded' /\ Present' /\ StatusAudited'
    BY <2>2, <2>3, <2>4, <2>6, IdFacts DEF AuditInv, Recorded, Present, StatusAudited, Exists
  <2>11. QED
    BY <2>8, <2>9, <2>10 DEF AuditInv
<1>5. ASSUME NEW r \in Requests, InsertFails(r) PROVE AuditInv'
  BY <1>0, <1>5, HandlerMoves DEF InsertFails, Handles, Idle
<1>6. ASSUME NEW r \in Requests, Link(r) PROVE AuditInv'
  <2> DEFINE c == req[r].child
             a == req[r].task
  <2>1. c \in Ids /\ a \in Announcements /\ a \in Ids /\ Manual(c)
    BY <1>6, IdFacts DEF Link, AuditInv, Handling, Handles
  <2>2. /\ task' = [task EXCEPT ![c] = [task[c] EXCEPT !.parent = a]] /\ req' = [req EXCEPT ![r] = Idle]
        /\ UNCHANGED <<course, log, due, made, gone, odd>>
    BY <1>6 DEF Link
  <2> HIDE DEF c, a
  <2>3. /\ task' \in [Ids -> Row] /\ task'[c].parent = a
        /\ \A u \in Ids : task'[u].source = task[u].source /\ task'[u].status = task[u].status
        /\ \A u \in Ids : u # c => task'[u] = task[u]
    BY <1>0, <2>1, <2>2 DEF Row
  <2>4. TypeOK'
    BY <1>0, <2>1, <2>2, <2>3 DEF AuditInv, TypeOK, Manual
  <2>5. Handling'
    BY <1>0, <2>2, <2>3 DEF AuditInv, Handling, Handles, Manual, Exists, Idle
  <2>6. Recorded' /\ Present' /\ StatusAudited'
    BY <2>2, <2>3, IdFacts DEF AuditInv, Recorded, Present, StatusAudited, Exists
  <2>7. QED
    BY <2>4, <2>5, <2>6 DEF AuditInv
<1>7. ASSUME NEW r \in Requests, NEW t \in Ids, Complete(r, t) \/ Cancel(r, t) PROVE AuditInv'
  <2>1. PICK s \in Closing : Sets(t, s)
    BY <1>7 DEF Complete, Cancel, Closing
  <2>2. Exists(t) /\ UNCHANGED <<course, due, made, req, gone>> /\ odd' \subseteq Oddities
    BY <1>0, <1>7 DEF Complete, Cancel, TakesFor, Oddities
  <2>3. QED
    BY <1>0, <2>1, <2>2, CloseStep
<1>8. ASSUME NEW a \in Announcements, CancelFromSource(a) PROVE AuditInv'
  <2>1. /\ Exists(a) /\ Sets(a, "CANCELLED") /\ UNCHANGED <<course, due, made, req, odd>>
        /\ gone' \subseteq Announcements
    BY <1>0, <1>8 DEF CancelFromSource, AuditInv, Present, Exists, None
  <2>2. QED
    BY <1>0, <2>1, CloseStep, IdFacts DEF Closing
<1>17. ASSUME NEW missing \in SUBSET Announcements, Withdraw(missing) PROVE AuditInv'
  <2>1. gone' \subseteq Announcements /\ UNCHANGED <<task, course, log, due, made, req>> /\ odd' \subseteq Oddities
    BY <1>0, <1>17 DEF Withdraw, Oddities
  <2>2. QED
    BY <1>0, <2>1 DEF AuditInv, TypeOK, Handling, Handles, Recorded, Present, StatusAudited, Exists, Manual
<1>9. ASSUME NEW r \in Requests, NEW t \in Ids, Archive(r, t) PROVE AuditInv'
  <2> DEFINE q == [Idle EXCEPT !.pc = "archive", !.task = t]
  <2>1. q \in Handler /\ Handles(q)
    BY <1>9 DEF Archive, TakesFor, Idle, Handler, Handles
  <2>2. req' = [req EXCEPT ![r] = q] /\ UNCHANGED <<task, course, log, due, made, gone>> /\ odd' \subseteq Oddities
    BY <1>0, <1>9 DEF Archive, TakesFor, Oddities
  <2>3. QED
    BY <1>0, <2>1, <2>2, HandlerMoves
<1>10. ASSUME NEW r \in Requests, ArchiveWrite(r) PROVE AuditInv'
  <2>1. req[r].task \in Ids /\ Exists(req[r].task)
    BY <1>10 DEF ArchiveWrite, AuditInv, Handling, Handles
  <2>2. Sets(req[r].task, "ARCHIVED") /\ UNCHANGED <<course, due, made, gone, odd>>
    BY <1>10 DEF ArchiveWrite
  <2>3. req' \in [Requests -> Handler] /\ \A q \in Requests : req'[q] = req[q] \/ req'[q] = Idle
    BY <1>0, <1>10 DEF ArchiveWrite
  <2>4. QED
    BY <1>0, <2>1, <2>2, <2>3, CloseStep DEF Closing
<1>11. ASSUME NEW r \in Requests, NEW t \in Ids, SetPersonalDeadline(r, t) PROVE AuditInv'
  <2>1. task[t].status = "ACTION_REQUIRED" /\ Exists(t)
    BY <1>11 DEF SetPersonalDeadline, Takes
  <2>2. log[t] = <<>>
    <3> SUFFICES ASSUME log[t] # <<>> PROVE FALSE
      OBVIOUS
    <3>1. log[t] \in Seq(Statuses) /\ Len(log[t]) \in DOMAIN log[t]
      BY DEF AuditInv, TypeOK
    <3>2. log[t][Len(log[t])] \in Closing
      BY <3>1 DEF AuditInv, Recorded
    <3>3. log[t][Len(log[t])] = task[t].status
      BY DEF AuditInv, StatusAudited
    <3>4. QED
      BY <2>1, <3>2, <3>3 DEF Closing
  <2>3. /\ task' = [task EXCEPT ![t] = [task[t] EXCEPT !.status = "PLANNED"]]
        /\ UNCHANGED <<course, log, due, made, req, gone>> /\ odd' \subseteq Oddities
    BY <1>0, <1>11 DEF SetPersonalDeadline, Takes, Oddities
  <2>4. /\ task' \in [Ids -> Row] /\ \A u \in Ids : u # t => task'[u] = task[u]
        /\ \A u \in Ids : task'[u].source = task[u].source /\ task'[u].parent = task[u].parent
    BY <1>0, <2>3 DEF Row, Statuses
  <2>5. TypeOK' /\ Handling'
    <3>1. TypeOK'
      BY <2>3, <2>4 DEF AuditInv, TypeOK, Manual
    <3>2. \A u \in Ids : (Manual(u) => Manual(u)') /\ (Exists(u) => Exists(u)')
      BY <2>4 DEF Manual, Exists
    <3>3. Handling'
      BY <2>3, <3>2 DEF AuditInv, Handling, Handles
    <3>4. QED
      BY <3>1, <3>3
  <2>6. Recorded' /\ Present' /\ StatusAudited'
    BY <2>2, <2>3, <2>4, IdFacts DEF AuditInv, Recorded, Present, StatusAudited, Exists
  <2>7. QED
    BY <2>5, <2>6 DEF AuditInv
<1>15. ASSUME NEW r \in Requests, NEW t \in Ids, NEW d \in Dates, Edit(r, t, d) PROVE AuditInv'
  <2> DEFINE q == [Idle EXCEPT !.pc = "edit", !.task = t, !.due = d, !.saw = due[t].now]
  <2>1. q \in Handler /\ Handles(q)
    BY <1>15 DEF Edit, Idle, Handler, Handles, AuditInv, TypeOK, Statuses, None
  <2>2. req' = [req EXCEPT ![r] = q] /\ UNCHANGED <<task, course, log, due, made, gone>> /\ odd' \subseteq Oddities
    BY <1>0, <1>15 DEF Edit, TakesFor, Oddities
  <2>3. QED
    BY <1>0, <2>1, <2>2, HandlerMoves
<1>16. ASSUME NEW r \in Requests, EditWrite(r) PROVE AuditInv'
  <2>1. req[r].task \in Ids /\ req[r].due \in Dates
    BY <1>16 DEF EditWrite, AuditInv, Handling, Handles
  <2>2. due' \in [Ids -> [now : Dates \cup {None}, logged : Dates \cup {None}]]
    BY <1>16, <2>1 DEF EditWrite, AuditInv, TypeOK
  <2>3. req' = [req EXCEPT ![r] = Idle] /\ UNCHANGED <<task, course, log, made, gone, odd>>
    BY <1>16 DEF EditWrite
  <2>4. TypeOK'
    BY <1>0, <2>2, <2>3 DEF AuditInv, TypeOK, Manual
  <2>5. QED
    BY <1>0, <2>3, <2>4 DEF AuditInv, Handling, Handles, Idle, Recorded, Present, StatusAudited, Exists, Manual
<1>12. CASE Crash
  <2>1. req' = [r \in Requests |-> Idle] /\ gone' = {} /\ UNCHANGED <<task, course, log, due, made>> /\ odd' \subseteq Oddities
    BY <1>0, <1>12 DEF Crash, Oddities
  <2>2. QED
    BY <1>0, <2>1 DEF AuditInv, TypeOK, Handling, Handles, Recorded, Present, StatusAudited, Exists, Manual, Idle
<1>13. CASE UNCHANGED vars
  BY <1>13 DEF vars, AuditInv, TypeOK, Handling, Handles, Recorded, Present, StatusAudited, Exists, Manual
<1>14. QED
  BY <1>1, <1>2, <1>3, <1>4, <1>5, <1>6, <1>7, <1>8, <1>9, <1>10, <1>11, <1>12, <1>13, <1>15, <1>16, <1>17
     DEF Next, Submit, Continue

LEMMA AuditInvHolds == Spec => []AuditInv
BY AuditInit, AuditStep, PTL DEF Spec

\* Tasks, history and handlers always have their shape; only a personal task
\* has a parent, and it is an announcement.
THEOREM TypeCorrect == Spec => []TypeOK
<1>1. AuditInv => TypeOK
  BY DEF AuditInv
<1>2. QED
  BY <1>1, AuditInvHolds, PTL

-----------------------------------------------------------------------------
(* One form at a time.                                                     *)

OneHandler == \A p, q \in Requests : req[p].pc # "idle" /\ req[q].pc # "idle" => p = q

\* Oddities are never forgotten, and a form taken without one finds every
\* thread idle and its task open.
LEMMA OddGrows == [Next]_vars => odd \subseteq odd'
<1> SUFFICES ASSUME [Next]_vars PROVE odd \subseteq odd'
  OBVIOUS
<1>1. ASSUME NEW r \in Requests, Submit(r) PROVE odd \subseteq odd'
  BY <1>1 DEF Submit, PostTask, PostFromAnnouncement, Archive, Complete, Cancel, SetPersonalDeadline, Edit, Takes,
     TakesFor
<1>2. ASSUME NEW r \in Requests, Continue(r) PROVE odd \subseteq odd'
  BY <1>2 DEF Continue, EditWrite, FindCourse, Link, ArchiveWrite, InsertFails, Insert
<1>3. ASSUME NEW missing \in SUBSET Announcements, Withdraw(missing) PROVE odd \subseteq odd'
  BY <1>3 DEF Withdraw
<1>4. ASSUME NEW a \in Announcements, CancelFromSource(a) PROVE odd \subseteq odd'
  BY <1>4 DEF CancelFromSource
<1>5. CASE Crash \/ UNCHANGED vars
  BY <1>5 DEF Crash, vars
<1>6. QED
  BY <1>1, <1>2, <1>3, <1>4, <1>5 DEF Next

LEMMA Calm ==
    ASSUME NEW r \in Requests, NEW t \in Ids, NEW closed, odd' \subseteq {"crash"}
    PROVE  /\ Takes(r) => Quiet
           /\ TakesFor(r, t, closed) => Quiet /\ task[t].status \notin closed
<1>1. Takes(r) => Quiet
  BY DEF Takes
<1>2. TakesFor(r, t, closed) => Quiet /\ task[t].status \notin closed
  <2> SUFFICES ASSUME TakesFor(r, t, closed) PROVE Quiet /\ task[t].status \notin closed
    OBVIOUS
  <2>1. "overlap" \notin odd' /\ "old page" \notin odd'
    OBVIOUS
  <2>2. Quiet
    BY <2>1 DEF TakesFor
  <2>3. task[t].status \notin closed
    BY <2>1 DEF TakesFor
  <2>4. QED
    BY <2>2, <2>3
<1>3. QED
  BY <1>1, <1>2

-----------------------------------------------------------------------------
(* The deadline in the history.                                            *)

\* A handler about to write a deadline still knows the one the row has.
Editing == \A r \in Requests : req[r].pc = "edit" => req[r].saw = due[req[r].task].now

EditInv == AuditInv /\ ("overlap" \notin odd => OneHandler /\ Editing /\ DeadlineAudited)

LEMMA EditStep == EditInv /\ [Next]_vars => EditInv'
<1> SUFFICES ASSUME EditInv, [Next]_vars, "overlap" \notin odd'
             PROVE  OneHandler' /\ Editing' /\ DeadlineAudited'
  BY AuditStep DEF EditInv
<1>0. /\ AuditInv /\ OneHandler /\ Editing /\ DeadlineAudited
      /\ req \in [Requests -> Handler]
      /\ due \in [Ids -> [now : Dates \cup {None}, logged : Dates \cup {None}]]
  BY OddGrows DEF EditInv, AuditInv, TypeOK
<1>1. ASSUME NEW r \in Requests, NEW q, \A p \in Requests : p # r => req[p].pc = "idle",
             q.pc = "edit" => q.saw = due[q.task].now, req' = [req EXCEPT ![r] = q], UNCHANGED due
      PROVE  OneHandler' /\ Editing' /\ DeadlineAudited'
  BY <1>0, <1>1 DEF OneHandler, Editing, DeadlineAudited
<1>2. ASSUME NEW r \in Requests, NEW t \in Ids, NEW closed, Takes(r) \/ TakesFor(r, t, closed)
      PROVE  \A p \in Requests : req[p].pc = "idle"
  BY <1>2 DEF Takes, TakesFor, Quiet
<1>3. ASSUME NEW r \in Requests, req[r].pc # "idle"
      PROVE  \A p \in Requests : p # r => req[p].pc = "idle"
  BY <1>0, <1>3 DEF OneHandler
<1>4. ASSUME NEW r \in Requests, PostTask(r) PROVE OneHandler' /\ Editing' /\ DeadlineAudited'
  <2>1. \A p \in Requests : req[p].pc = "idle"
    BY <1>4 DEF PostTask, Takes, Quiet
  <2>2. QED
    BY <1>1, <1>4, <2>1 DEF PostTask, Idle
<1>5. ASSUME NEW r \in Requests, NEW t \in Ids, PostFromAnnouncement(r, t) \/ Archive(r, t)
      PROVE  OneHandler' /\ Editing' /\ DeadlineAudited'
  <2>1. \A p \in Requests : req[p].pc = "idle"
    BY <1>2, <1>5 DEF PostFromAnnouncement, Archive
  <2>2. QED
    BY <1>1, <1>5, <2>1 DEF PostFromAnnouncement, Archive, Idle
<1>6. ASSUME NEW r \in Requests, NEW t \in Ids, NEW d \in Dates, Edit(r, t, d)
      PROVE  OneHandler' /\ Editing' /\ DeadlineAudited'
  <2>1. \A p \in Requests : req[p].pc = "idle"
    BY <1>2, <1>6 DEF Edit
  <2>2. QED
    BY <1>1, <1>6, <2>1 DEF Edit, Idle
<1>7. ASSUME NEW r \in Requests, FindCourse(r) \/ InsertFails(r) \/ Link(r) \/ ArchiveWrite(r)
      PROVE  OneHandler' /\ Editing' /\ DeadlineAudited'
  <2>1. req[r].pc \notin {"idle", "edit"} /\ UNCHANGED due
    BY <1>7 DEF FindCourse, InsertFails, Link, ArchiveWrite
  <2>2. PICK q : req' = [req EXCEPT ![r] = q] /\ q.pc # "edit"
    <3>1. CASE FindCourse(r)
      <4> DEFINE q == [req[r] EXCEPT !.pc = "insert", !.saw = IF course THEN "course" ELSE None]
      <4>1. req' = [req EXCEPT ![r] = q]
        BY <3>1 DEF FindCourse
      <4>2. req[r] \in Handler
        BY <1>0
      <4>3. q.pc = "insert"
        BY <4>2 DEF Handler
      <4> HIDE DEF q
      <4>4. QED
        BY <4>1, <4>3, Zenon
    <3>2. CASE InsertFails(r) \/ Link(r) \/ ArchiveWrite(r)
      BY <3>2 DEF InsertFails, Link, ArchiveWrite, Idle
    <3>3. QED
      BY <1>7, <3>1, <3>2
  <2>3. QED
    BY <1>1, <1>3, <2>1, <2>2
<1>8. ASSUME NEW r \in Requests, NEW t \in Ids, NEW planned \in BOOLEAN, NEW d \in Dates \cup {None},
             Insert(r, t, planned, d)
      PROVE  OneHandler' /\ Editing' /\ DeadlineAudited'
  <2>1. /\ \A p \in Requests : p # r => req'[p] = req[p] /\ req[p].pc = "idle"
        /\ req'[r].pc \in {"idle", "link"}
    BY <1>0, <1>8 DEF Insert, Idle, Handler, OneHandler
  <2>2. DeadlineAudited'
    BY <1>0, <1>8 DEF Insert, DeadlineAudited
  <2>3. QED
    BY <2>1, <2>2 DEF OneHandler, Editing
<1>9. ASSUME NEW r \in Requests, EditWrite(r) PROVE OneHandler' /\ Editing' /\ DeadlineAudited'
  <2>1. \A p \in Requests : req'[p].pc = "idle"
    BY <1>0, <1>3, <1>9 DEF EditWrite, Idle
  <2>2. req[r].task \in Ids /\ req[r].saw = due[req[r].task].now
        /\ due[req[r].task].logged = due[req[r].task].now
    BY <1>0, <1>9 DEF EditWrite, Editing, AuditInv, Handling, Handles, DeadlineAudited
  <2>3. DeadlineAudited'
    BY <1>0, <1>9, <2>2 DEF EditWrite, DeadlineAudited
  <2>4. QED
    BY <2>1, <2>3 DEF OneHandler, Editing
<1>10. CASE /\ UNCHANGED <<req, due>>
  BY <1>0, <1>10 DEF OneHandler, Editing, DeadlineAudited
<1>11. CASE Crash
  BY <1>0, <1>11 DEF Crash, Idle, OneHandler, Editing, DeadlineAudited
<1>12. ASSUME NEW r \in Requests, NEW t \in Ids, Complete(r, t) \/ Cancel(r, t) \/ SetPersonalDeadline(r, t)
       PROVE  UNCHANGED <<req, due>>
  BY <1>12 DEF Complete, Cancel, SetPersonalDeadline
<1>13. ASSUME NEW a \in Announcements, CancelFromSource(a) PROVE UNCHANGED <<req, due>>
  BY <1>13 DEF CancelFromSource
<1>16. ASSUME NEW missing \in SUBSET Announcements, Withdraw(missing) PROVE UNCHANGED <<req, due>>
  BY <1>16 DEF Withdraw
<1>14. CASE UNCHANGED vars
  BY <1>10, <1>14 DEF vars
<1>15. QED
  BY <1>4, <1>5, <1>6, <1>7, <1>8, <1>9, <1>10, <1>11, <1>12, <1>13, <1>14, <1>16
     DEF Next, Submit, Continue

\* The newest status row of a task's history has the status the task has,
\* whatever overlaps and wherever the process ends; and the newest deadline row
\* the deadline or, with none, the creation, as long as no two changes overlap.
THEOREM AuditCurrentHolds == Spec => []AuditCurrent
<1>1. Init => EditInv
  <2> SUFFICES ASSUME Init PROVE OneHandler /\ Editing /\ DeadlineAudited
    BY AuditInit DEF EditInv
  <2>1. /\ \A r \in Requests : req[r].pc = "idle"
        /\ \A t \in Ids : due[t] = [now |-> None, logged |-> None]
    BY DEF Init, Idle
  <2>2. QED
    BY <2>1 DEF OneHandler, Editing, DeadlineAudited
<1>2. EditInv => AuditCurrent
  BY DEF EditInv, AuditInv, AuditCurrent
<1>3. QED
  BY <1>1, <1>2, EditStep, PTL DEF Spec

-----------------------------------------------------------------------------
(* One task per announcement.                                              *)

\* A task made for an announcement is linked to it, or the only handler is
\* about to link it; a handler that has found no child still finds none; and
\* pages archive announcements only.
Linked ==
    /\ \A t \in Ids : made[t] # 0 /\ task[t].status # "CANCELLED" =>
           \/ task[t].parent = made[t]
           \/ \E r \in Requests : req[r].pc = "link" /\ req[r].child = t
    /\ \A r \in Requests : req[r].pc = "link" => made[req[r].child] = req[r].task
    /\ \A r \in Requests : req[r].pc \in {"course", "insert"} /\ req[r].task # 0 =>
           \A t \in Ids : made[t] = req[r].task => task[t].status = "CANCELLED"
    /\ \A r \in Requests : req[r].pc = "archive" => req[r].task \in Announcements

Single ==
    \A t, u \in Ids :
        /\ made[t] # 0 /\ made[t] = made[u]
        /\ task[t].status # "CANCELLED" /\ task[u].status # "CANCELLED"
        => t = u

ForTasks == \A a \in Announcements : made[a] = 0

ChildInv == AuditInv /\ ForTasks /\ (odd = {} => OneHandler /\ Linked /\ Single)

\* A change of one status that cancels nothing twice leaves the links alone.
LEMMA StatusStep ==
    ASSUME AuditInv, OneHandler, Linked, Single, NEW t \in Ids, NEW s,
           task' = [task EXCEPT ![t].status = s], UNCHANGED <<made>>,
           task[t].status # "CANCELLED" \/ made[t] = 0,
           \A r \in Requests : req'[r] = req[r] \/ (req'[r].pc = "idle" /\ req[r].pc = "archive")
    PROVE  OneHandler' /\ Linked' /\ Single'
<1>1. /\ task'[t].parent = task[t].parent /\ task'[t].status = s
      /\ \A u \in Ids : u # t => task'[u] = task[u]
  BY DEF AuditInv, TypeOK, Row
<1>2. \A u \in Ids : /\ task'[u].parent = task[u].parent
                     /\ made[u] # 0 /\ task'[u].status # "CANCELLED" => task[u].status # "CANCELLED"
  BY <1>1
<1>3. OneHandler'
  BY DEF OneHandler
<1>4. Single'
  BY <1>2 DEF Single
<1>5. Linked'
  BY <1>1, <1>2 DEF Linked
<1>6. QED
  BY <1>3, <1>4, <1>5

LEMMA ChildStep == ChildInv /\ [Next]_vars => ChildInv'
<1> SUFFICES ASSUME ChildInv, [Next]_vars PROVE ForTasks' /\ (odd' = {} => OneHandler' /\ Linked' /\ Single')
  BY AuditStep DEF ChildInv
<1>0. AuditInv /\ ForTasks /\ req \in [Requests -> Handler] /\ task \in [Ids -> Row] /\ made \in [Ids -> Ids \cup {0}]
  BY DEF ChildInv, AuditInv, TypeOK
<1>1. ForTasks'
  <2>1. ASSUME NEW r \in Requests, NEW t \in Ids, NEW planned \in BOOLEAN, NEW d \in Dates \cup {None},
               Insert(r, t, planned, d)
        PROVE  ForTasks'
    <3>1. t \notin Announcements
      BY <1>0, <2>1 DEF Insert, Free, AuditInv, Present, Exists, None
    <3>2. QED
      BY <1>0, <2>1, <3>1, IdFacts DEF Insert, ForTasks
  <2>2. CASE UNCHANGED made
    BY <1>0, <2>2 DEF ForTasks
  <2>3. QED
    BY <2>1, <2>2 DEF Next, Submit, Continue, vars, Crash, Withdraw, CancelFromSource, PostTask, PostFromAnnouncement, Archive,
       Complete, Cancel, SetPersonalDeadline, Edit, EditWrite, FindCourse, Link, ArchiveWrite, InsertFails, Sets
<1> SUFFICES ASSUME odd' = {} PROVE OneHandler' /\ Linked' /\ Single'
  BY <1>1
<1>2. OneHandler /\ Linked /\ Single /\ odd' \subseteq {"crash"}
  BY OddGrows DEF ChildInv
<1>3. ASSUME NEW r \in Requests, PostTask(r) PROVE OneHandler' /\ Linked' /\ Single'
  <2>1. Quiet
    BY <1>2, <1>3 DEF PostTask, Takes
  <2>2. QED
    BY <1>0, <1>2, <1>3, <2>1 DEF PostTask, Idle, Quiet, OneHandler, Linked, Single
<1>4. ASSUME NEW r \in Requests, NEW a \in Ids, PostFromAnnouncement(r, a) PROVE OneHandler' /\ Linked' /\ Single'
  <2>1. Quiet
    BY <1>2, <1>4, Calm DEF PostFromAnnouncement
  <2>2. \A t \in Ids : made[t] = a => task[t].status = "CANCELLED"
    BY <1>2, <1>4, <2>1, IdFacts DEF PostFromAnnouncement, Children, Quiet, Linked
  <2>3. QED
    BY <1>0, <1>2, <1>4, <2>1, <2>2 DEF PostFromAnnouncement, Idle, Quiet, OneHandler, Linked, Single
<1>5. ASSUME NEW r \in Requests, NEW t \in Ids, Archive(r, t) PROVE OneHandler' /\ Linked' /\ Single'
  <2>1. Quiet
    BY <1>2, <1>5, Calm DEF Archive
  <2>2. t \in Announcements
    <3> SUFFICES ASSUME t \notin Announcements PROVE FALSE
      OBVIOUS
    <3>1. TakesFor(r, t, Statuses)
      BY <1>5 DEF Archive
    <3>2. task[t].status \notin Statuses
      BY <1>2, <3>1, Calm
    <3>3. QED
      BY <1>0, <3>2 DEF Row
  <2>3. QED
    BY <1>0, <1>2, <1>5, <2>1, <2>2 DEF Archive, Idle, Quiet, OneHandler, Linked, Single
<1>6. ASSUME NEW r \in Requests, FindCourse(r) PROVE OneHandler' /\ Linked' /\ Single'
  BY <1>0, <1>2, <1>6 DEF FindCourse, Handler, OneHandler, Linked, Single
<1>7. ASSUME NEW r \in Requests, InsertFails(r) PROVE OneHandler' /\ Linked' /\ Single'
  BY <1>0, <1>2, <1>7 DEF InsertFails, Idle, OneHandler, Linked, Single
<1>8. ASSUME NEW r \in Requests, NEW t \in Ids, NEW planned \in BOOLEAN, NEW d \in Dates \cup {None},
             Insert(r, t, planned, d)
      PROVE  OneHandler' /\ Linked' /\ Single'
  <2>1. /\ \A p \in Requests : p # r => req'[p] = req[p] /\ req[p].pc = "idle"
        /\ req[r].task = 0 => req'[r].pc = "idle"
        /\ req[r].task # 0 => req'[r].pc = "link" /\ req'[r].child = t /\ req'[r].task = req[r].task
        /\ made'[t] = req[r].task /\ \A u \in Ids : u # t => made'[u] = made[u] /\ task'[u] = task[u]
        /\ req[r].pc = "insert"
    BY <1>0, <1>2, <1>8 DEF Insert, Idle, OneHandler, Handler
  <2>2. OneHandler'
    BY <2>1 DEF OneHandler
  <2>3. Single'
    BY <1>2, <2>1 DEF Linked, Single
  <2>4. Linked'
    BY <1>2, <2>1 DEF Linked
  <2>5. QED
    BY <2>2, <2>3, <2>4
<1>9. ASSUME NEW r \in Requests, Link(r) PROVE OneHandler' /\ Linked' /\ Single'
  <2>1. /\ req[r].child \in Ids /\ req[r].pc = "link" /\ \A p \in Requests : req'[p].pc = "idle"
        /\ \A p \in Requests : req[p].pc # "idle" => p = r
    BY <1>0, <1>2, <1>9 DEF Link, AuditInv, Handling, Handles, Idle, OneHandler
  <2>2. /\ task'[req[r].child].parent = req[r].task
        /\ \A u \in Ids : task'[u].status = task[u].status
        /\ \A u \in Ids : u # req[r].child => task'[u] = task[u]
        /\ made' = made
    BY <1>0, <1>9, <2>1 DEF Link, Row
  <2>3. QED
    BY <1>2, <2>1, <2>2 DEF OneHandler, Linked, Single
<1>10. ASSUME NEW r \in Requests, NEW t \in Ids, Complete(r, t) \/ Cancel(r, t) \/ SetPersonalDeadline(r, t)
       PROVE  OneHandler' /\ Linked' /\ Single'
  <2>1. task[t].status # "CANCELLED" /\ UNCHANGED <<req, made>>
    BY <1>2, <1>10, Calm DEF Complete, Cancel, SetPersonalDeadline
  <2>2. \E s \in Statuses : task' = [task EXCEPT ![t].status = s]
    BY <1>10 DEF Complete, Cancel, SetPersonalDeadline, Sets, Statuses
  <2>3. QED
    BY <1>0, <1>2, <2>1, <2>2, StatusStep
<1>18. ASSUME NEW missing \in SUBSET Announcements, Withdraw(missing)
       PROVE  OneHandler' /\ Linked' /\ Single'
  BY <1>2, <1>18 DEF Withdraw, OneHandler, Linked, Single
<1>11. ASSUME NEW a \in Announcements, CancelFromSource(a) PROVE OneHandler' /\ Linked' /\ Single'
  <2>1. a \in Ids /\ made[a] = 0 /\ UNCHANGED <<req, made>> /\ task' = [task EXCEPT ![a].status = "CANCELLED"]
    BY <1>0, <1>11, IdFacts DEF CancelFromSource, Sets, ForTasks
  <2>2. QED
    BY <1>0, <1>2, <2>1, StatusStep
<1>12. ASSUME NEW r \in Requests, ArchiveWrite(r) PROVE OneHandler' /\ Linked' /\ Single'
  <2>1. req[r].task \in Ids /\ made[req[r].task] = 0
    BY <1>0, <1>2, <1>12, IdFacts DEF ArchiveWrite, Linked, ForTasks
  <2>2. /\ task' = [task EXCEPT ![req[r].task].status = "ARCHIVED"] /\ made' = made
        /\ \A p \in Requests : req'[p] = req[p] \/ (req'[p].pc = "idle" /\ req[p].pc = "archive")
    BY <1>0, <1>12 DEF ArchiveWrite, Sets, Idle
  <2>3. QED
    BY <1>0, <1>2, <2>1, <2>2, StatusStep
<1>13. CASE UNCHANGED vars
  BY <1>2, <1>13 DEF vars, OneHandler, Linked, Single
<1>16. ASSUME NEW r \in Requests, NEW t \in Ids, NEW d \in Dates, Edit(r, t, d)
       PROVE  OneHandler' /\ Linked' /\ Single'
  <2>1. Quiet
    BY <1>2, <1>16, Calm DEF Edit
  <2>2. QED
    BY <1>0, <1>2, <1>16, <2>1 DEF Edit, Idle, Quiet, OneHandler, Linked, Single
<1>17. ASSUME NEW r \in Requests, EditWrite(r) PROVE OneHandler' /\ Linked' /\ Single'
  BY <1>0, <1>2, <1>17 DEF EditWrite, Idle, OneHandler, Linked, Single
<1>14. ~Crash
  BY DEF Crash
<1>15. QED
  BY <1>3, <1>4, <1>5, <1>6, <1>7, <1>8, <1>9, <1>10, <1>11, <1>12, <1>13, <1>14, <1>16, <1>17, <1>18
     DEF Next, Submit, Continue

\* As long as forms come from current pages, one at a time, and no handler
\* dies, an announcement has one task at most that is not cancelled, however
\* often its form is submitted.
THEOREM OneChildHolds == Spec => []OneChild
<1>1. Init => ChildInv
  <2> SUFFICES ASSUME Init PROVE ForTasks /\ OneHandler /\ Linked /\ Single
    BY AuditInit DEF ChildInv
  <2>1. /\ \A r \in Requests : req[r].pc = "idle"
        /\ \A t \in Ids : made[t] = 0
    BY DEF Init, Idle
  <2>2. QED
    BY <2>1, IdFacts DEF ForTasks, OneHandler, Linked, Single
<1>2. ChildInv => OneChild
  BY DEF ChildInv, Single, OneChild
<1>3. QED
  BY <1>1, <1>2, ChildStep, PTL DEF Spec
=============================================================================
