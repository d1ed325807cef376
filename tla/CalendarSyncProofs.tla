-------------------------- MODULE CalendarSyncProofs --------------------------
(***************************************************************************)
(* Proofs about CalendarSync, for any tasks, deadlines and events.         *)
(***************************************************************************)
EXTENDS CalendarSync, TLAPS

LEMMA TypeInit == Init => TypeOK
<1> SUFFICES ASSUME Init PROVE TypeOK
  OBVIOUS
<1>1. sync \in [Syncs -> Pass] /\ \A p \in Syncs : sync[p].pc = "idle"
  BY DEF Init, Idle, Pass
<1>2. task \in [Tasks -> [status : {"open", "closed"}, deadline : Deadlines \cup {NoDeadline}]]
  BY DEF Init
<1>3. edits \in 0..MaxEdits
  BY CalendarAssumption DEF Init, CalendarAssumption
<1>4. QED
  BY <1>1, <1>2, <1>3 DEF Init, TypeOK

\* Where a pass may be.
Sound(s) ==
    /\ s \in Pass
    /\ s.pc \notin {"idle", "next"} => s.task \in Tasks
    /\ s.pc \in {"create", "update"} => s.deadline \in Deadlines
    /\ s.pc \in {"update", "delete", "record", "forget"} => s.event \in EventIds

\* A step of a pass, which leaves the tasks alone.
LEMMA PassType ==
    ASSUME TypeOK, NEW p \in Syncs, NEW s, Sound(s), sync' = [sync EXCEPT ![p] = s], UNCHANGED <<task, edits, removed>>,
           remote' \subseteq [id : EventIds, task : Tasks, deadline : Deadlines],
           records' \in [Tasks -> SUBSET EventIds], changed' \subseteq Tasks, lost' \subseteq Tasks, crashed' \in BOOLEAN
    PROVE  TypeOK'
<1>1. sync' \in [Syncs -> Pass] /\ \A q \in Syncs : sync'[q] = s \/ sync'[q] = sync[q]
  BY DEF TypeOK, Sound
<1>2. \A q \in Syncs : Sound(sync'[q])
  BY <1>1 DEF TypeOK, Sound
<1>3. QED
  BY <1>1, <1>2 DEF TypeOK, Sound

LEMMA StepType == ASSUME TypeOK, NEW p \in Syncs, Step(p) \/ Crash(p) PROVE TypeOK'
<1>0. /\ Sound(sync[p]) /\ Sound(Idle) /\ sync[p].todo \subseteq Tasks
      /\ remote \subseteq [id : EventIds, task : Tasks, deadline : Deadlines]
      /\ records \in [Tasks -> SUBSET EventIds] /\ changed \subseteq Tasks /\ lost \subseteq Tasks /\ crashed \in BOOLEAN
  BY DEF TypeOK, Sound, Idle, Pass
<1>1. CASE Start(p)
  <2> DEFINE s == [Idle EXCEPT !.pc = "next", !.todo = { t \in Tasks : task[t].deadline # NoDeadline \/ records[t] # {} }]
  <2>1. Sound(s)
    BY <1>0 DEF Sound, Pass, Idle
  <2>2. sync' = [sync EXCEPT ![p] = s]
    BY <1>1 DEF Start
  <2> HIDE DEF s
  <2>3. QED
    BY <1>0, <1>1, <2>1, <2>2, PassType DEF Start, mishaps
<1>2. CASE Look(p)
  <2>0. PICK t \in First(sync[p].todo) : \E e \in Known(t) : sync' = [sync EXCEPT ![p] = Taken(sync[p], t, e)]
    BY <1>2 DEF Look
  <2>1. PICK e \in Known(t) : sync' = [sync EXCEPT ![p] = Taken(sync[p], t, e)]
    BY <2>0
  <2>2. t \in Tasks /\ e \in EventIds \cup {0} /\ task[t].deadline \in Deadlines \cup {NoDeadline}
    BY <1>0 DEF First, Known, TypeOK
  <2>3. /\ Decision(t, e) \in {"create", "update", "next", "delete"}
        /\ Decision(t, e) \in {"create", "update"} => task[t].deadline \in Deadlines
        /\ Decision(t, e) \in {"update", "delete"} => e \in EventIds
    BY <2>2 DEF ShouldHaveEvent, Decision
  <2>4. Sound(Taken(sync[p], t, e))
    BY <1>0, <2>2, <2>3 DEF Sound, Pass, Taken
  <2>5. QED
    BY <1>0, <1>2, <2>1, <2>4, PassType DEF Look, mishaps
<1>3. CASE Create(p)
  <2>1. PICK e \in First(EventIds \ InUse) :
          /\ remote' = remote \cup {Event(e, sync[p].task, sync[p].deadline)}
          /\ sync' = [sync EXCEPT ![p] = [@ EXCEPT !.pc = "record", !.event = e]]
    BY <1>3 DEF Create
  <2>2. e \in EventIds /\ sync[p].task \in Tasks /\ sync[p].deadline \in Deadlines
    BY <1>0, <1>3 DEF First, Create, Sound
  <2> DEFINE s == [sync[p] EXCEPT !.pc = "record", !.event = e]
  <2>3. Sound(s)
    BY <1>0, <2>2 DEF Sound, Pass
  <2>4. sync' = [sync EXCEPT ![p] = s]
    BY <2>1
  <2>5. remote' \subseteq [id : EventIds, task : Tasks, deadline : Deadlines]
    BY <1>0, <2>1, <2>2 DEF Event
  <2> HIDE DEF s
  <2>6. QED
    BY <1>0, <1>3, <2>3, <2>4, <2>5, PassType DEF Create, mishaps
<1>4. CASE Update(p) \/ Delete(p)
  <2>1. PICK pc \in {"record", "forget"} : sync' = [sync EXCEPT ![p].pc = pc]
    BY <1>4 DEF Update, Delete
  <2> DEFINE s == [sync[p] EXCEPT !.pc = pc]
  <2>2. Sound(s)
    BY <1>0, <1>4 DEF Sound, Pass, Update, Delete
  <2>3. remote' \subseteq [id : EventIds, task : Tasks, deadline : Deadlines]
    <3>1. CASE Update(p)
      <4>1. sync[p].deadline \in Deadlines
        BY <1>0, <3>1 DEF Update, Sound
      <4>2. \A v \in remote : [v EXCEPT !.deadline = sync[p].deadline] \in [id : EventIds, task : Tasks, deadline : Deadlines]
        BY <1>0, <4>1
      <4>3. QED
        BY <1>0, <3>1, <4>2 DEF Update
    <3>2. CASE Delete(p)
      BY <1>0, <3>2 DEF Delete
    <3>3. QED
      BY <1>4, <3>1, <3>2
  <2> HIDE DEF s
  <2>4. sync' = [sync EXCEPT ![p] = s] /\ UNCHANGED <<task, records, edits, changed, crashed, removed, lost>>
    BY <1>4, <2>1 DEF Update, Delete, mishaps, s
  <2>5. QED
    BY <1>0, <2>2, <2>3, <2>4, PassType
<1>5. CASE CallFails(p) \/ End(p)
  BY <1>0, <1>5, PassType DEF CallFails, End, mishaps
<1>6. CASE Record(p) \/ Forget(p)
  <2> DEFINE s == [sync[p] EXCEPT !.pc = "next", !.event = 0]
  <2>1. Sound(s)
    BY <1>0 DEF Sound, Pass
  <2>2. records' \in [Tasks -> SUBSET EventIds]
    BY <1>0, <1>6 DEF Record, Forget, Sound
  <2> HIDE DEF s
  <2>3. sync' = [sync EXCEPT ![p] = s] /\ UNCHANGED <<task, remote, edits, changed, crashed, removed, lost>>
    BY <1>6 DEF Record, Forget, mishaps, s
  <2>4. QED
    BY <1>0, <2>1, <2>2, <2>3, PassType
<1>7. CASE Crash(p)
  <2>1. lost' \subseteq Tasks /\ crashed' \in BOOLEAN
    BY <1>0, <1>7 DEF Crash, Sound
  <2>2. QED
    BY <1>0, <1>7, <2>1, PassType DEF Crash
<1>8. QED
  BY <1>1, <1>2, <1>3, <1>4, <1>5, <1>6, <1>7 DEF Step, Call

LEMMA TypeStep == ASSUME TypeOK, [Next]_vars PROVE TypeOK'
<1>1. ASSUME NEW t \in Tasks, Close(t) PROVE TypeOK'
  BY <1>1 DEF Close, TypeOK, mishaps
<1>2. ASSUME NEW t \in Tasks, NEW d \in Deadlines \cup {NoDeadline}, Reschedule(t, d) PROVE TypeOK'
  <2>1. edits' \in 0..MaxEdits
    BY <1>2, CalendarAssumption DEF Reschedule, TypeOK, CalendarAssumption
  <2>2. QED
    BY <1>2, <2>1 DEF Reschedule, TypeOK, mishaps
<1>3. ASSUME NEW v \in remote, PersonRemoves(v) PROVE TypeOK'
  BY <1>3 DEF PersonRemoves, TypeOK
<1>4. CASE UNCHANGED vars
  BY <1>4 DEF vars, mishaps, TypeOK
<1>5. QED
  BY <1>1, <1>2, <1>3, <1>4, StepType DEF Next, World

\* Every state is well typed; a pass that makes or moves an event has a deadline
\* for it (sync_task_event).
THEOREM TypeCorrect == Spec => []TypeOK
BY TypeInit, TypeStep, PTL DEF Spec

-----------------------------------------------------------------------------
\* What ties the calendar to the records of a task: its events are recorded or
\* about to be, it has one record at most, an event is only made where there is
\* none, and a record is only dropped when no event is left.
Kept(t) ==
    /\ \A v \in Live(t) : \/ v.id \in records[t]
                          \/ \E p \in Syncs : sync[p].pc = "record" /\ sync[p].task = t /\ sync[p].event = v.id
    /\ \A e, f \in records[t] : e = f
    /\ \A p \in Syncs : sync[p].task = t =>
          /\ sync[p].pc = "record" => records[t] \subseteq {sync[p].event}
          /\ sync[p].pc = "create" => records[t] = {}
          /\ sync[p].pc = "forget" => Live(t) = {}

\* The pass works on an event of its task.
OwnEvent(p) ==
    /\ sync[p].pc \in {"update", "delete"} => sync[p].event \in records[sync[p].task]
    /\ sync[p].pc = "record" => \A u \in Tasks : sync[p].event \in records[u] => u = sync[p].task

MapInv ==
    /\ \A v, w \in remote : v.id = w.id => v = w
    /\ \A t, u \in Tasks : t # u => records[t] \cap records[u] = {}
    /\ OnePass => /\ \A p \in Syncs : OwnEvent(p)
                  /\ \A t \in Tasks \ lost : Kept(t)

LEMMA MapInit == Init => MapInv
BY DEF Init, MapInv, OwnEvent, Kept, Live, Idle

\* A step of a pass that changes neither the calendar nor the records.
LEMMA PassMoves ==
    ASSUME TypeOK, MapInv, NEW p \in Syncs, NEW s \in Pass, sync' = [sync EXCEPT ![p] = s],
           UNCHANGED <<remote, records>>, lost \subseteq lost',
           \A v \in remote : sync[p].pc = "record" /\ sync[p].task = v.task /\ v.task \notin lost' =>
                                sync[p].event # v.id \/ v.id \in records[v.task],
           s.pc \notin {"record", "forget"},
           s.pc \in {"update", "delete"} => s.event \in records[s.task],
           s.pc = "create" => records[s.task] = {}
    PROVE  MapInv'
<1> SUFFICES ASSUME OnePass PROVE (\A q \in Syncs : OwnEvent(q)') /\ \A t \in Tasks \ lost' : Kept(t)'
  BY DEF MapInv, OnePass
<1>1. sync'[p] = s /\ \A q \in Syncs : q = p
  BY DEF TypeOK, OnePass
<1>2. \A q \in Syncs : OwnEvent(q)'
  BY <1>1 DEF OwnEvent
<1>3. ASSUME NEW t \in Tasks \ lost' PROVE Kept(t)'
  <2>1. Kept(t) /\ \A v \in Live(t) : v \in remote /\ v.task = t
    BY DEF MapInv, Live
  <2>2. ASSUME NEW v \in Live(t) PROVE v.id \in records[t]
    BY <1>1, <2>1 DEF Kept
  <2>3. QED
    BY <1>1, <2>1, <2>2 DEF Kept, Live
<1>4. QED
  BY <1>2, <1>3

LEMMA MapStep == ASSUME TypeOK, MapInv, [Next]_vars PROVE MapInv'
<1>0. ASSUME NEW p \in Syncs
      PROVE  /\ Sound(sync[p]) /\ Sound(Idle) /\ sync[p] \in Pass /\ Idle \in Pass /\ Idle.pc = "idle"
             /\ sync[p].todo \subseteq Tasks
             /\ OnePass => \A q \in Syncs : q = p
             /\ OnePass => OwnEvent(p)
  BY DEF TypeOK, MapInv, OnePass, Sound, Pass, Idle
<1>1. ASSUME NEW p \in Syncs, Start(p) \/ CallFails(p) \/ End(p) PROVE MapInv'
  <2>1. /\ UNCHANGED <<remote, records, lost>> /\ sync[p].pc # "record"
        /\ \E s \in Pass : sync' = [sync EXCEPT ![p] = s] /\ s.pc \in {"idle", "next"}
    <3>1. [Idle EXCEPT !.pc = "next", !.todo = { t \in Tasks : task[t].deadline # NoDeadline \/ records[t] # {} }] \in Pass
      BY <1>0 DEF Pass
    <3>2. CASE Start(p)
      BY <3>1, <3>2 DEF Start, mishaps, Idle
    <3>3. CASE CallFails(p) \/ End(p)
      BY <1>0, <3>3 DEF CallFails, Calling, End, mishaps
    <3>4. QED
      BY <1>1, <3>2, <3>3
  <2>2. QED
    BY <2>1, PassMoves
<1>2. ASSUME NEW p \in Syncs, Look(p) PROVE MapInv'
  <2>0. PICK t \in First(sync[p].todo) : \E e \in Known(t) : sync' = [sync EXCEPT ![p] = Taken(sync[p], t, e)]
    BY <1>2 DEF Look
  <2>1. PICK e \in Known(t) : sync' = [sync EXCEPT ![p] = Taken(sync[p], t, e)]
    BY <2>0
  <2>2. t \in Tasks /\ e \in EventIds \cup {0} /\ task[t].deadline \in Deadlines \cup {NoDeadline}
        /\ (e # 0 => e \in records[t]) /\ (e = 0 => records[t] = {})
    <3>1. t \in Tasks /\ records[t] \subseteq EventIds /\ 0 \notin EventIds
      BY <1>0, CalendarAssumption DEF First, TypeOK, CalendarAssumption
    <3>2. task[t].deadline \in Deadlines \cup {NoDeadline}
      BY <3>1 DEF TypeOK
    <3>3. CASE records[t] = {}
      BY <3>1, <3>2, <3>3 DEF Known
    <3>4. CASE records[t] # {}
      BY <3>1, <3>2, <3>4 DEF Known, First
    <3>5. QED
      BY <3>3, <3>4
  <2>3. /\ Decision(t, e) \in {"create", "update", "next", "delete"}
        /\ Decision(t, e) = "create" => e = 0
        /\ Decision(t, e) \in {"update", "delete"} => e # 0
    BY DEF Decision
  <2> DEFINE s == Taken(sync[p], t, e)
  <2>4. s \in Pass /\ s.pc = Decision(t, e) /\ s.event = e /\ s.task = t
    BY <1>0, <2>2, <2>3 DEF Pass, Taken
  <2>5. UNCHANGED <<remote, records, lost>> /\ sync[p].pc = "next" /\ sync' = [sync EXCEPT ![p] = s]
    BY <1>2, <2>1 DEF Look, mishaps
  <2> HIDE DEF s
  <2>6. QED
    BY <2>2, <2>3, <2>4, <2>5, PassMoves
<1>3. ASSUME NEW p \in Syncs, Create(p) PROVE MapInv'
  <2>1. PICK e \in First(EventIds \ InUse) :
          /\ remote' = remote \cup {Event(e, sync[p].task, sync[p].deadline)}
          /\ sync' = [sync EXCEPT ![p] = [@ EXCEPT !.pc = "record", !.event = e]]
    BY <1>3 DEF Create
  <2>2. PICK v : v = Event(e, sync[p].task, sync[p].deadline)
    OBVIOUS
  <2>3. PICK t : t = sync[p].task
    OBVIOUS
  <2>4. /\ v.id = e /\ v.task = t /\ (\A w \in remote : w.id # e) /\ (\A u \in Tasks : e \notin records[u])
        /\ remote' = remote \cup {v} /\ UNCHANGED <<records, lost>> /\ sync[p].pc = "create" /\ t \in Tasks
    BY <1>0, <1>3, <2>1, <2>2, <2>3 DEF Event, First, InUse, Create, mishaps, Sound
  <2>5. sync'[p].pc = "record" /\ sync'[p].event = e /\ sync'[p].task = t
    BY <1>0, <2>1, <2>3 DEF TypeOK, Pass
  <2> SUFFICES ASSUME OnePass PROVE (\A q \in Syncs : OwnEvent(q)') /\ \A u \in Tasks \ lost' : Kept(u)'
    BY <2>4 DEF MapInv, OnePass
  <2>6. \A q \in Syncs : OwnEvent(q)'
    BY <1>0, <2>4, <2>5 DEF OwnEvent
  <2>7. ASSUME NEW u \in Tasks \ lost' PROVE Kept(u)'
    <3>1. Kept(u)
      BY <2>4 DEF MapInv
    <3>2. ASSUME NEW w \in Live(u)' PROVE w.id \in records[u] \/ (sync'[p].task = u /\ sync'[p].event = w.id)
      BY <1>0, <2>4, <2>5, <3>1 DEF Kept, Live
    <3>3. t = u => records[u] = {}
      BY <2>3, <2>4, <3>1 DEF Kept
    <3>4. QED
      BY <1>0, <2>4, <2>5, <3>1, <3>2, <3>3 DEF Kept
  <2>8. QED
    BY <2>6, <2>7
<1>4. ASSUME NEW p \in Syncs, Update(p) PROVE MapInv'
  <2>1. /\ sync[p].pc = "update" /\ UNCHANGED <<records, lost>>
        /\ remote' = { IF v.id = sync[p].event THEN [v EXCEPT !.deadline = sync[p].deadline] ELSE v : v \in remote }
        /\ sync'[p].pc = "record" /\ sync'[p].task = sync[p].task /\ sync'[p].event = sync[p].event
    BY <1>0, <1>4 DEF Update, mishaps, TypeOK, Pass
  <2>2. \A w \in remote' : \E v \in remote : /\ w.id = v.id /\ w.task = v.task
                                             /\ w = IF v.id = sync[p].event THEN [v EXCEPT !.deadline = sync[p].deadline] ELSE v
    <3>1. \A v \in remote : v \in [id : EventIds, task : Tasks, deadline : Deadlines]
      BY DEF TypeOK
    <3>2. QED
      BY <2>1, <3>1
  <2>3. \A v, w \in remote' : v.id = w.id => v = w
    BY <2>2 DEF MapInv
  <2> SUFFICES ASSUME OnePass PROVE (\A q \in Syncs : OwnEvent(q)') /\ \A u \in Tasks \ lost' : Kept(u)'
    BY <2>1, <2>3 DEF MapInv, OnePass
  <2>4. sync[p].event \in records[sync[p].task] /\ sync[p].task \in Tasks
    BY <1>0, <2>1 DEF OwnEvent, Sound
  <2>5. \A q \in Syncs : OwnEvent(q)'
    BY <1>0, <2>1, <2>4 DEF OwnEvent, MapInv
  <2>6. ASSUME NEW u \in Tasks \ lost' PROVE Kept(u)'
    <3>1. Kept(u)
      BY <2>1 DEF MapInv
    <3>2. ASSUME NEW w \in Live(u)' PROVE w.id \in records[u]
      <4>1. PICK v \in remote : w.id = v.id /\ w.task = v.task
        BY <2>2 DEF Live
      <4>2. QED
        BY <1>0, <2>1, <3>1, <4>1 DEF Kept, Live
    <3>3. sync[p].task = u => records[u] \subseteq {sync[p].event}
      BY <2>4, <3>1 DEF Kept
    <3>4. QED
      BY <1>0, <2>1, <3>1, <3>2, <3>3 DEF Kept
  <2>7. QED
    BY <2>5, <2>6
<1>5. ASSUME NEW p \in Syncs, Delete(p) PROVE MapInv'
  <2>1. /\ sync[p].pc = "delete" /\ UNCHANGED <<records, lost>>
        /\ remote' = { v \in remote : v.id # sync[p].event }
        /\ sync'[p].pc = "forget" /\ sync'[p].task = sync[p].task
    BY <1>0, <1>5 DEF Delete, mishaps, TypeOK, Pass
  <2> SUFFICES ASSUME OnePass PROVE (\A q \in Syncs : OwnEvent(q)') /\ \A u \in Tasks \ lost' : Kept(u)'
    BY <2>1 DEF MapInv, OnePass
  <2>2. sync[p].event \in records[sync[p].task] /\ sync[p].task \in Tasks
    BY <1>0, <2>1 DEF OwnEvent, Sound
  <2>3. \A q \in Syncs : OwnEvent(q)'
    BY <1>0, <2>1 DEF OwnEvent
  <2>4. ASSUME NEW u \in Tasks \ lost' PROVE Kept(u)'
    <3>1. Kept(u)
      BY <2>1 DEF MapInv
    <3>2. \A w \in Live(u)' : w \in Live(u) /\ w.id \in records[u] /\ w.id # sync[p].event
      BY <1>0, <2>1, <3>1 DEF Kept, Live
    <3>3. sync[p].task = u => Live(u)' = {}
      BY <2>2, <3>1, <3>2 DEF Kept
    <3>4. QED
      BY <1>0, <2>1, <3>1, <3>2, <3>3 DEF Kept
  <2>5. QED
    BY <2>3, <2>4
<1>6. ASSUME NEW p \in Syncs, Record(p) PROVE MapInv'
  <2>1. /\ sync[p].pc = "record" /\ UNCHANGED <<remote, lost>> /\ sync'[p].pc = "next"
        /\ sync[p].task \in Tasks
    BY <1>0, <1>6 DEF Record, mishaps, TypeOK, Sound
  <2>2. CASE \E t \in Tasks : sync[p].event \in records[t]
    <3>1. records' = records
      BY <1>6, <2>2 DEF Record
    <3> SUFFICES ASSUME OnePass PROVE (\A q \in Syncs : OwnEvent(q)') /\ \A u \in Tasks \ lost' : Kept(u)'
      BY <2>1, <3>1 DEF MapInv, OnePass
    <3>2. sync[p].event \in records[sync[p].task]
      BY <1>0, <2>1, <2>2 DEF OwnEvent
    <3>3. QED
      BY <1>0, <2>1, <3>1, <3>2 DEF OwnEvent, Kept, MapInv, Live
  <2>3. CASE \A t \in Tasks : sync[p].event \notin records[t]
    <3>1. records' = [records EXCEPT ![sync[p].task] = @ \cup {sync[p].event}]
      BY <1>6, <2>3 DEF Record
    <3>2. \A u \in Tasks : records'[u] = IF u = sync[p].task THEN records[u] \cup {sync[p].event} ELSE records[u]
      BY <3>1 DEF TypeOK
    <3>3. \A t, u \in Tasks : t # u => records'[t] \cap records'[u] = {}
      <4> SUFFICES ASSUME NEW t \in Tasks, NEW u \in Tasks, t # u, NEW e \in records'[t], e \in records'[u] PROVE FALSE
        OBVIOUS
      <4>1. e \in records[t] \/ (t = sync[p].task /\ e = sync[p].event)
        BY <3>2
      <4>2. e \in records[u] \/ (u = sync[p].task /\ e = sync[p].event)
        BY <3>2
      <4>3. QED
        BY <2>3, <4>1, <4>2 DEF MapInv
    <3> SUFFICES ASSUME OnePass PROVE (\A q \in Syncs : OwnEvent(q)') /\ \A u \in Tasks \ lost' : Kept(u)'
      BY <2>1, <3>3 DEF MapInv, OnePass
    <3>4. \A q \in Syncs : OwnEvent(q)'
      BY <1>0, <2>1 DEF OwnEvent
    <3>5. ASSUME NEW u \in Tasks \ lost' PROVE Kept(u)'
      <4>1. Kept(u)
        BY <2>1 DEF MapInv
      <4>2. records[u] \subseteq records'[u] /\ (u = sync[p].task => records'[u] \subseteq {sync[p].event})
            /\ (u = sync[p].task => sync[p].event \in records'[u]) /\ (u # sync[p].task => records'[u] = records[u])
        <5>1. u = sync[p].task => records[u] \subseteq {sync[p].event}
          BY <2>1, <4>1 DEF Kept
        <5>2. records'[u] = IF u = sync[p].task THEN records[u] \cup {sync[p].event} ELSE records[u]
          BY <3>2
        <5>3. QED
          BY <5>1, <5>2
      <4>3. \A e, f \in records'[u] : e = f
        BY <4>1, <4>2 DEF Kept
      <4>4. \A w \in Live(u)' : w.id \in records'[u]
        BY <1>0, <2>1, <4>1, <4>2 DEF Kept, Live
      <4>5. QED
        BY <1>0, <2>1, <4>3, <4>4 DEF Kept
    <3>6. QED
      BY <3>4, <3>5
  <2>4. QED
    BY <2>2, <2>3
<1>7. ASSUME NEW p \in Syncs, Forget(p) PROVE MapInv'
  <2>1. /\ sync[p].pc = "forget" /\ UNCHANGED <<remote, lost>> /\ sync'[p].pc = "next" /\ sync[p].task \in Tasks
        /\ \A u \in Tasks : records'[u] = IF u = sync[p].task THEN {} ELSE records[u]
    BY <1>0, <1>7 DEF Forget, mishaps, TypeOK, Sound
  <2>2. \A t, u \in Tasks : t # u => records'[t] \cap records'[u] = {}
    BY <2>1 DEF MapInv
  <2> SUFFICES ASSUME OnePass PROVE (\A q \in Syncs : OwnEvent(q)') /\ \A u \in Tasks \ lost' : Kept(u)'
    BY <2>1, <2>2 DEF MapInv, OnePass
  <2>3. \A q \in Syncs : OwnEvent(q)'
    BY <1>0, <2>1 DEF OwnEvent
  <2>4. ASSUME NEW u \in Tasks \ lost' PROVE Kept(u)'
    <3>1. Kept(u)
      BY <2>1 DEF MapInv
    <3>2. QED
      BY <1>0, <2>1, <3>1 DEF Kept, Live
  <2>5. QED
    BY <2>3, <2>4
<1>8. ASSUME NEW p \in Syncs, Crash(p) PROVE MapInv'
  <2>1. /\ UNCHANGED <<remote, records>> /\ sync' = [sync EXCEPT ![p] = Idle] /\ lost \subseteq lost'
        /\ sync[p].pc = "record" /\ sync[p].event \notin records[sync[p].task] => sync[p].task \in lost'
    BY <1>8 DEF Crash
  <2>2. QED
    BY <1>0, <2>1, PassMoves
<1>9. CASE UNCHANGED <<records, sync, lost>> /\ remote' \subseteq remote
  <2>1. \A t : Live(t)' \subseteq Live(t)
    BY <1>9 DEF Live
  <2>2. ASSUME NEW t, Kept(t) PROVE Kept(t)'
    BY <1>9, <2>1, <2>2 DEF Kept
  <2>3. QED
    BY <1>9, <2>2 DEF MapInv, OwnEvent, OnePass
<1>10. CASE World \/ UNCHANGED vars
  BY <1>9, <1>10 DEF World, Close, Reschedule, PersonRemoves, vars, mishaps
<1>11. QED
  BY <1>1, <1>2, <1>3, <1>4, <1>5, <1>6, <1>7, <1>8, <1>10 DEF Next, Step, Call

\* A task never has two events in the calendar while the stage runs alone and no
\* process died with an event unrecorded, for any number of tasks, whatever calls
\* fail and whatever the person removes (sync_task_event).
THEOREM NoDuplicateEventHolds == Spec => []NoDuplicateEvent
<1>1. TypeOK /\ MapInv => NoDuplicateEvent
  <2> SUFFICES ASSUME TypeOK, MapInv, OnePass, NEW v \in remote, NEW w \in remote, v.task = w.task, v.task \notin lost
               PROVE  v = w
    BY DEF NoDuplicateEvent
  <2>1. v.task \in Tasks /\ Kept(v.task) /\ v \in Live(v.task) /\ w \in Live(v.task)
    BY DEF TypeOK, MapInv, Live
  <2>2. v.id = w.id
    BY <2>1 DEF Kept, OnePass
  <2>3. QED
    BY <2>2 DEF MapInv
<1>2. QED
  BY <1>1, MapInit, MapStep, TypeCorrect, PTL DEF Spec

-----------------------------------------------------------------------------
(* What a pass has dealt with is as the task is.                             *)

Wanted(t) == IF task[t].status = "closed" THEN {} ELSE {task[t].deadline} \ {NoDeadline}
Shown(t) == { v.deadline : v \in Live(t) }

\* A recorded event, and the one the pass is about to record, is of its task, also
\* where track of another task's event was lost: an id is never given twice.
RecordedOwn ==
    \A v \in remote : /\ \A t \in Tasks : v.id \in records[t] => v.task = t
                      /\ \A p \in Syncs : sync[p].pc = "record" /\ sync[p].event = v.id => v.task = sync[p].task

AtCall(p, t) == sync[p].pc \in {"create", "update", "delete"} /\ sync[p].task = t

\* A task the pass has behind it is shown as it is, and the one it is at will be.
DealtWith(p, t) ==
    /\ AtCall(p, t) => Wanted(t) = IF sync[p].pc = "delete" THEN {} ELSE {sync[p].deadline}
    /\ ~AtCall(p, t) => Shown(t) = Wanted(t)

ReconcileInv ==
    OnePass => /\ RecordedOwn
               /\ \A p \in Syncs : sync[p].pc # "idle" =>
                     \A t \in Tasks \ (changed \cup lost) : t \notin sync[p].todo => DealtWith(p, t)

LEMMA ShownStays == ASSUME NEW t, Live(t)' = Live(t) PROVE Shown(t)' = Shown(t)
BY DEF Shown

LEMMA NothingShown == ASSUME NEW t, Live(t) = {} PROVE Shown(t) = {}
BY DEF Shown

LEMMA ReconcileStep == ASSUME TypeOK, MapInv, ReconcileInv, [Next]_vars PROVE ReconcileInv'
<1> SUFFICES ASSUME OnePass
             PROVE  /\ RecordedOwn'
                    /\ \A p \in Syncs : sync'[p].pc # "idle" =>
                          \A t \in Tasks \ (changed' \cup lost') : t \notin sync'[p].todo => DealtWith(p, t)'
  BY DEF ReconcileInv, OnePass
<1> DEFINE Goal == /\ RecordedOwn'
                   /\ \A p \in Syncs : sync'[p].pc # "idle" =>
                         \A t \in Tasks \ (changed' \cup lost') : t \notin sync'[p].todo => DealtWith(p, t)'
<1>a. RecordedOwn /\ \A t \in Tasks \ lost : Kept(t)
  BY DEF ReconcileInv, MapInv
<1>0. ASSUME NEW p \in Syncs
      PROVE  /\ Sound(sync[p]) /\ sync[p] \in Pass /\ sync[p].todo \subseteq Tasks
             /\ \A q \in Syncs : q = p
             /\ OwnEvent(p)
             /\ sync[p].pc # "idle" =>
                   \A t \in Tasks \ (changed \cup lost) : t \notin sync[p].todo => DealtWith(p, t)
  BY DEF TypeOK, MapInv, OnePass, Sound, Pass, ReconcileInv
<1>b. ASSUME NEW p \in Syncs, NEW t \in Tasks \ lost, sync[p].pc # "record", records[t] = {} PROVE Live(t) = {}
  BY <1>a, <1>b, <1>0 DEF Kept
<1>1. ASSUME NEW p \in Syncs, Start(p) PROVE Goal
  <2>1. /\ UNCHANGED <<task, remote, records, lost>> /\ sync[p].pc = "idle" /\ sync'[p].pc = "next"
        /\ sync'[p].todo = { t \in Tasks : task[t].deadline # NoDeadline \/ records[t] # {} }
    BY <1>1 DEF Start, mishaps, TypeOK, Idle
  <2>2. ASSUME NEW t \in Tasks \ lost, t \notin sync'[p].todo PROVE Shown(t)' = Wanted(t)'
    <3>1. task[t].deadline = NoDeadline /\ records[t] = {}
      BY <2>1, <2>2
    <3>2. Live(t) = {} /\ Live(t)' = {}
      BY <1>b, <2>1, <3>1 DEF Live
    <3>3. QED
      BY <2>1, <3>1, <3>2 DEF Shown, Wanted
  <2>3. QED
    BY <1>0, <1>a, <2>1, <2>2 DEF RecordedOwn, DealtWith, AtCall
<1>2. ASSUME NEW p \in Syncs, Look(p) PROVE Goal
  <2>0. PICK t \in First(sync[p].todo) : \E e \in Known(t) : sync' = [sync EXCEPT ![p] = Taken(sync[p], t, e)]
    BY <1>2 DEF Look
  <2>1. PICK e \in Known(t) : sync' = [sync EXCEPT ![p] = Taken(sync[p], t, e)]
    BY <2>0
  <2>2. /\ UNCHANGED <<task, remote, records, changed, lost>> /\ sync[p].pc = "next" /\ t \in sync[p].todo /\ t \in Tasks
        /\ sync'[p].pc = Decision(t, e) /\ sync'[p].todo = sync[p].todo \ {t} /\ sync'[p].task = t
        /\ sync'[p].deadline = task[t].deadline
    BY <1>0, <1>2, <2>1 DEF Look, mishaps, TypeOK, Taken, Pass, First
  <2>3. RecordedOwn'
    BY <1>0, <1>a, <2>2 DEF RecordedOwn, Decision
  <2>4. ASSUME NEW u \in Tasks \ (changed \cup lost), u \notin sync'[p].todo PROVE DealtWith(p, u)'
    <3>1. Shown(u)' = Shown(u) /\ Wanted(u)' = Wanted(u)
      BY <2>2 DEF Shown, Live, Wanted
    <3>2. CASE u # t
      BY <1>0, <2>2, <2>4, <3>1, <3>2 DEF DealtWith, AtCall
    <3>3. CASE u = t /\ Decision(t, e) = "next"
      <4>1. ~ShouldHaveEvent(t) /\ e = 0
        BY <3>3 DEF Decision
      <4>2. records[t] = {}
        BY <1>0, <2>2, <4>1, CalendarAssumption DEF Known, First, TypeOK, CalendarAssumption
      <4>3. Shown(t) = {}
        BY <1>b, <2>2, <2>4, <3>3, <4>2, NothingShown
      <4>4. Wanted(t) = {}
        BY <2>2, <4>1 DEF Wanted, ShouldHaveEvent, TypeOK
      <4>5. QED
        BY <2>2, <3>1, <3>3, <4>3, <4>4 DEF DealtWith, AtCall
    <3>4. CASE u = t /\ Decision(t, e) # "next"
      <4>1. Decision(t, e) = "delete" => ~ShouldHaveEvent(t)
        BY DEF Decision
      <4>2. Decision(t, e) # "delete" => ShouldHaveEvent(t)
        BY <3>4 DEF Decision
      <4>3. Wanted(t) = IF Decision(t, e) = "delete" THEN {} ELSE {task[t].deadline}
        BY <2>2, <4>1, <4>2 DEF Wanted, ShouldHaveEvent, TypeOK
      <4>4. Decision(t, e) \in {"create", "update", "delete"}
        BY <3>4 DEF Decision
      <4>5. QED
        BY <2>2, <3>1, <3>4, <4>3, <4>4 DEF DealtWith, AtCall
    <3>5. QED
      BY <3>2, <3>3, <3>4
  <2>5. QED
    BY <1>0, <2>2, <2>3, <2>4
<1>3. ASSUME NEW p \in Syncs, Create(p) PROVE Goal
  <2>1. PICK e \in First(EventIds \ InUse) :
          /\ remote' = remote \cup {Event(e, sync[p].task, sync[p].deadline)}
          /\ sync' = [sync EXCEPT ![p] = [@ EXCEPT !.pc = "record", !.event = e]]
    BY <1>3 DEF Create
  <2>2. PICK v : v = Event(e, sync[p].task, sync[p].deadline)
    OBVIOUS
  <2>3. /\ v.id = e /\ v.task = sync[p].task /\ v.deadline = sync[p].deadline
        /\ (\A w \in remote : w.id # e) /\ (\A u \in Tasks : e \notin records[u])
        /\ remote' = remote \cup {v} /\ UNCHANGED <<task, records, changed, lost>>
        /\ sync[p].pc = "create" /\ sync[p].task \in Tasks
    BY <1>0, <1>3, <2>1, <2>2 DEF Event, First, InUse, Create, mishaps, Sound
  <2>4. /\ sync'[p].pc = "record" /\ sync'[p].event = e /\ sync'[p].task = sync[p].task
        /\ sync'[p].todo = sync[p].todo
    BY <1>0, <2>1 DEF TypeOK, Pass
  <2>5. RecordedOwn'
    BY <1>0, <1>a, <2>3, <2>4 DEF RecordedOwn
  <2>6. ASSUME NEW u \in Tasks \ (changed \cup lost), u \notin sync[p].todo PROVE Shown(u)' = Wanted(u)'
    <3>1. DealtWith(p, u) /\ Wanted(u)' = Wanted(u)
      BY <1>0, <2>3, <2>6 DEF Wanted
    <3>2. CASE u = sync[p].task
      <4>1. Live(u) = {}
        BY <1>a, <1>b, <2>3, <2>6, <3>2 DEF Kept
      <4>2. Live(u)' = {v}
        BY <2>3, <3>2, <4>1 DEF Live
      <4>3. Shown(u)' = {sync[p].deadline}
        BY <2>3, <4>2 DEF Shown
      <4>4. QED
        BY <2>3, <3>1, <3>2, <4>3 DEF DealtWith, AtCall
    <3>3. CASE u # sync[p].task
      <4>1. Live(u)' = Live(u)
        BY <2>3, <3>3 DEF Live
      <4>2. QED
        BY <3>1, <3>3, <4>1, ShownStays DEF DealtWith, AtCall
    <3>4. QED
      BY <3>2, <3>3
  <2>7. QED
    BY <1>0, <2>3, <2>4, <2>5, <2>6 DEF DealtWith, AtCall
<1>4. ASSUME NEW p \in Syncs, Update(p) PROVE Goal
  <2>1. /\ sync[p].pc = "update" /\ UNCHANGED <<task, records, changed, lost>> /\ ~Gone(sync[p].event)
        /\ remote' = { IF v.id = sync[p].event THEN [v EXCEPT !.deadline = sync[p].deadline] ELSE v : v \in remote }
        /\ sync'[p].pc = "record" /\ sync'[p].task = sync[p].task /\ sync'[p].event = sync[p].event
        /\ sync'[p].todo = sync[p].todo
    BY <1>0, <1>4 DEF Update, mishaps, TypeOK, Pass
  <2>2. sync[p].event \in records[sync[p].task] /\ sync[p].task \in Tasks
    BY <1>0, <2>1 DEF OwnEvent, Sound
  <2>3. PICK o \in remote : o.id = sync[p].event
    BY <2>1 DEF Gone
  <2>4. o.task = sync[p].task /\ \A v \in remote : v.id = sync[p].event => v = o
    BY <1>a, <2>2, <2>3 DEF RecordedOwn, MapInv
  <2>5. PICK n : n = [o EXCEPT !.deadline = sync[p].deadline]
    OBVIOUS
  <2>6. n.id = o.id /\ n.task = o.task /\ n.deadline = sync[p].deadline
    BY <2>3, <2>5 DEF TypeOK
  <2>7. remote' = (remote \ {o}) \cup {n}
    BY <2>1, <2>3, <2>4, <2>5
  <2>8. RecordedOwn'
    BY <1>0, <1>a, <2>1, <2>2, <2>3, <2>4, <2>6, <2>7 DEF RecordedOwn
  <2>9. ASSUME NEW u \in Tasks \ (changed \cup lost), u \notin sync[p].todo PROVE Shown(u)' = Wanted(u)'
    <3>1. DealtWith(p, u) /\ Wanted(u)' = Wanted(u)
      BY <1>0, <2>1, <2>9 DEF Wanted
    <3>2. CASE u = sync[p].task
      <4>1. \A v \in Live(u) : v = o
        <5>1. Kept(u) /\ \A e \in records[u] : e = sync[p].event
          BY <1>a, <2>2, <2>9, <3>2 DEF Kept
        <5>2. \A v \in Live(u) : v.id \in records[u] /\ v \in remote
          BY <1>0, <2>1, <5>1 DEF Kept, Live
        <5>3. QED
          BY <2>4, <5>1, <5>2
      <4>2. Live(u)' = {n}
        BY <2>4, <2>6, <2>7, <3>2, <4>1 DEF Live
      <4>3. Shown(u)' = {sync[p].deadline}
        BY <2>6, <4>2 DEF Shown
      <4>4. QED
        BY <2>1, <3>1, <3>2, <4>3 DEF DealtWith, AtCall
    <3>3. CASE u # sync[p].task
      <4>1. Live(u)' = Live(u)
        BY <2>4, <2>6, <2>7, <3>3 DEF Live
      <4>2. QED
        BY <3>1, <3>3, <4>1, ShownStays DEF DealtWith, AtCall
    <3>4. QED
      BY <3>2, <3>3
  <2>10. QED
    BY <1>0, <2>1, <2>8, <2>9 DEF DealtWith, AtCall
<1>5. ASSUME NEW p \in Syncs, Delete(p) PROVE Goal
  <2>1. /\ sync[p].pc = "delete" /\ UNCHANGED <<task, records, changed, lost>>
        /\ remote' = { v \in remote : v.id # sync[p].event }
        /\ sync'[p].pc = "forget" /\ sync'[p].task = sync[p].task /\ sync'[p].todo = sync[p].todo
    BY <1>0, <1>5 DEF Delete, mishaps, TypeOK, Pass
  <2>2. sync[p].event \in records[sync[p].task] /\ sync[p].task \in Tasks
    BY <1>0, <2>1 DEF OwnEvent, Sound
  <2>3. \A v \in remote : v.id = sync[p].event => v.task = sync[p].task
    BY <1>a, <2>2 DEF RecordedOwn
  <2>4. RecordedOwn'
    BY <1>0, <1>a, <2>1 DEF RecordedOwn
  <2>5. ASSUME NEW u \in Tasks \ (changed \cup lost), u \notin sync[p].todo PROVE Shown(u)' = Wanted(u)'
    <3>1. DealtWith(p, u) /\ Wanted(u)' = Wanted(u)
      BY <1>0, <2>1, <2>5 DEF Wanted
    <3>2. CASE u = sync[p].task
      <4>1. \A v \in Live(u) : v.id = sync[p].event
        BY <1>0, <1>a, <2>1, <2>2, <2>5, <3>2 DEF Kept
      <4>2. Live(u)' = {}
        BY <2>1, <4>1 DEF Live
      <4>3. Shown(u)' = {}
        BY <4>2 DEF Shown
      <4>4. QED
        BY <2>1, <3>1, <3>2, <4>3 DEF DealtWith, AtCall
    <3>3. CASE u # sync[p].task
      <4>1. Live(u)' = Live(u)
        BY <2>1, <2>3, <3>3 DEF Live
      <4>2. QED
        BY <3>1, <3>3, <4>1, ShownStays DEF DealtWith, AtCall
    <3>4. QED
      BY <3>2, <3>3
  <2>6. QED
    BY <1>0, <2>1, <2>4, <2>5 DEF DealtWith, AtCall
<1>6. ASSUME NEW p \in Syncs, Record(p) \/ Forget(p) PROVE Goal
  <2>1. /\ sync[p].pc \in {"record", "forget"} /\ UNCHANGED <<task, remote, changed, lost>>
        /\ sync'[p].pc = "next" /\ sync'[p].todo = sync[p].todo
        /\ \A u \in Tasks : \A e \in records'[u] :
              e \in records[u] \/ (sync[p].pc = "record" /\ u = sync[p].task /\ e = sync[p].event)
    <3>1. CASE Record(p)
      <4>1. \/ records' = records
            \/ records' = [records EXCEPT ![sync[p].task] = @ \cup {sync[p].event}]
        BY <3>1 DEF Record
      <4>2. \A u \in Tasks : records'[u] = records[u] \/ (u = sync[p].task /\ records'[u] = records[u] \cup {sync[p].event})
        BY <4>1 DEF TypeOK
      <4>3. QED
        BY <1>0, <3>1, <4>2 DEF Record, mishaps, TypeOK, Pass
    <3>2. CASE Forget(p)
      <4>1. \A u \in Tasks : records'[u] \subseteq records[u]
        BY <3>2 DEF Forget, TypeOK
      <4>2. QED
        BY <1>0, <3>2, <4>1 DEF Forget, mishaps, TypeOK, Pass
    <3>3. QED
      BY <1>6, <3>1, <3>2
  <2>2. RecordedOwn'
    BY <1>0, <1>a, <2>1 DEF RecordedOwn
  <2>3. ASSUME NEW u \in Tasks \ (changed \cup lost), u \notin sync[p].todo PROVE DealtWith(p, u)'
    <3>1. Shown(u)' = Shown(u) /\ Wanted(u)' = Wanted(u) /\ DealtWith(p, u)
      BY <1>0, <2>1, <2>3 DEF Shown, Live, Wanted
    <3>2. QED
      BY <2>1, <3>1 DEF DealtWith, AtCall
  <2>4. QED
    BY <1>0, <2>1, <2>2, <2>3
<1>7. ASSUME NEW p \in Syncs, CallFails(p) \/ End(p) \/ Crash(p) PROVE Goal
  <2>1. sync'[p].pc = "idle" /\ UNCHANGED <<remote, records>>
    BY <1>7 DEF CallFails, End, Crash, TypeOK, Idle
  <2>2. QED
    BY <1>0, <1>a, <2>1 DEF RecordedOwn
<1>8. CASE World \/ UNCHANGED vars
  <2>1. /\ UNCHANGED <<records, sync, lost>> /\ changed \subseteq changed' /\ remote' \subseteq remote
        /\ \A v \in remote \ remote' : v.task \in changed'
        /\ \A t \in Tasks : t \in changed' \/ task'[t] = task[t]
    BY <1>8 DEF World, Close, Reschedule, PersonRemoves, vars, mishaps, TypeOK
  <2>2. RecordedOwn'
    BY <1>a, <2>1 DEF RecordedOwn
  <2>3. ASSUME NEW p \in Syncs, sync[p].pc # "idle", NEW t \in Tasks \ (changed' \cup lost), t \notin sync[p].todo
        PROVE  DealtWith(p, t)'
    <3>1. DealtWith(p, t) /\ Live(t)' = Live(t) /\ Wanted(t)' = Wanted(t)
      BY <1>0, <2>1, <2>3 DEF Live, Wanted
    <3>2. Shown(t)' = Shown(t)
      BY <3>1, ShownStays
    <3>3. QED
      BY <2>1, <3>1, <3>2 DEF DealtWith, AtCall
  <2>4. QED
    BY <2>1, <2>2, <2>3
<1>9. QED
  BY <1>1, <1>2, <1>3, <1>4, <1>5, <1>6, <1>7, <1>8 DEF Next, Step, Call

\* Where a pass ends, the calendar shows every task it did not change under and
\* lost no event of as the task is, for any number of tasks and events
\* (sync_all_task_events).
THEOREM PassReconcilesHolds == Spec => []PassReconciles
<1>1. Init => ReconcileInv
  BY DEF Init, ReconcileInv, RecordedOwn, Idle
<1>2. ReconcileInv => PassReconciles
  <2> SUFFICES ASSUME ReconcileInv, OnePass, NEW p \in Syncs, sync[p].pc = "next", sync[p].todo = {},
                      NEW t \in Tasks \ (changed \cup lost)
               PROVE  Shown(t) = Wanted(t)
    BY DEF PassReconciles, Shown, Wanted
  <2>1. DealtWith(p, t)
    BY DEF ReconcileInv
  <2>2. QED
    BY <2>1 DEF DealtWith, AtCall
<1>3. QED
  BY <1>1, <1>2, ReconcileStep, MapInit, MapStep, TypeCorrect, PTL DEF Spec
=============================================================================
