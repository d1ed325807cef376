------------------------------ MODULE TickProofs ------------------------------
(***************************************************************************)
(* Proofs about what an unattended tick does: PipelineHealth, the tick and *)
(* its self-alert, for any accounts, components and threshold; ChatThread, *)
(* the alerts in the app and their repeats, for any of their bounds; and   *)
(* ClassReminders, the timetable and its announcements, for any slots,     *)
(* edits and faults.  Each theorem is about one of the three, whose        *)
(* constants and variables are its own.                                    *)
(***************************************************************************)
EXTENDS PipelineHealth, ChatThread, ClassReminders, Integers, Functions, TLAPS, FiniteSetTheorems, SequenceTheorems

\* The constants and the two values a tick starts from are well typed.
LEMMA Constants ==
    /\ Threshold \in Nat /\ Threshold >= 1 /\ Components \in Seq(Parts) /\ Idle \in Work /\ Absent \in Row
    /\ \A todo \in SUBSET Accounts : Between(todo) \in Work /\ Between(todo).pc = "between"
<1>1. Threshold \in Nat /\ Threshold >= 1 /\ Components \in Seq(STRING)
  BY HealthAssumption DEF HealthAssumption
<1>2. Components \in Seq(Parts)
  BY <1>1 DEF Parts, ToSet
<1>3. Idle \in Work /\ Absent \in Row
  BY <1>1 DEF Idle, Work, Absent, Row
<1>4. \A todo \in SUBSET Accounts : Between(todo) \in Work /\ Between(todo).pc = "between"
  <2> SUFFICES ASSUME NEW todo \in SUBSET Accounts PROVE Between(todo) \in Work /\ Between(todo).pc = "between"
    OBVIOUS
  <2>1. QED
    BY <1>3 DEF Work, Between
<1>5. QED
  BY <1>1, <1>2, <1>3, <1>4

\* What a row is after a stage: stored, and rid of its alert by a success.
LEMMA RecordedRow ==
    ASSUME NEW row \in Row, NEW ok \in BOOLEAN
    PROVE  /\ Recorded(row, ok) \in Row /\ Recorded(row, ok).stored
           /\ ok => ~Recorded(row, ok).alerted
           /\ ~ok => Recorded(row, ok).alerted = row.alerted /\ Recorded(row, ok).failures > 0
           /\ row.failures <= Recorded(row, ok).failures \/ ok
BY Constants DEF Recorded, Stored, Row, Upto

\* The tick starts well typed.
LEMMA TypeInit == Init => TypeOK
<1> SUFFICES ASSUME Init PROVE TypeOK
  OBVIOUS
<1>1. health \in [Accounts -> [Parts -> Row]] /\ \A u \in Accounts, c \in Parts : health[u][c] = Absent
  BY Constants DEF Init
<1>2. told \in [Accounts -> [Parts -> 0..2]]
  <2>1. told = [u \in Accounts |-> [c \in Parts |-> 0]] /\ 0 \in 0..2
    BY DEF Init
  <2>2. QED
    BY <2>1
<1>3. tick \in [Ticks -> Work] /\ \A p \in Ticks : tick[p].pc = "idle"
  BY Constants DEF Init, Idle
<1>4. users = Accounts /\ down \subseteq Accounts \X Parts /\ unmarked \subseteq Accounts
  BY DEF Init
<1>5. crashes \in 0..MaxCrashes
  BY HealthAssumption DEF Init, HealthAssumption
<1>6. QED
  BY <1>1, <1>2, <1>3, <1>4, <1>5 DEF TypeOK

\* A step that only moves a tick on.
LEMMA TickMoves ==
    ASSUME TypeOK, NEW p \in Ticks, NEW t \in Work, t.pc \in {"stages", "mark"} => t.user \in Accounts,
           tick' = [tick EXCEPT ![p] = t], UNCHANGED <<users, health, down, told>>,
           crashes' \in 0..MaxCrashes, unmarked' \subseteq Accounts
    PROVE  TypeOK'
<1>1. tick' \in [Ticks -> Work] /\ \A r \in Ticks : tick'[r] = t \/ tick'[r] = tick[r]
  BY DEF TypeOK
<1>2. QED
  BY <1>1 DEF TypeOK

\* Every step of a tick keeps the types, the rows of a deleted account included.
LEMMA StepType == ASSUME TypeOK, NEW p \in Ticks, Step(p) \/ Crash(p) PROVE TypeOK'
<1> DEFINE u == tick[p].user
<1>0. /\ tick[p] \in Work /\ (tick[p].pc \in {"stages", "mark"} => u \in Accounts)
      /\ users \subseteq Accounts /\ crashes \in 0..MaxCrashes /\ unmarked \subseteq Accounts
      /\ tick[p].todo \subseteq Accounts /\ MaxCrashes \in Nat
  BY HealthAssumption DEF TypeOK, Work, HealthAssumption
<1>1. CASE StartTick(p)
  BY <1>0, <1>1, TickMoves, Constants DEF StartTick, crashVars
<1>2. CASE NextUser(p)
  <2>1. PICK v \in tick[p].todo :
          tick' = [tick EXCEPT ![p] = [Idle EXCEPT !.pc = "stages", !.todo = tick[p].todo \ {v}, !.user = v, !.left = Components]]
    BY <1>2 DEF NextUser
  <2> DEFINE t == [Idle EXCEPT !.pc = "stages", !.todo = tick[p].todo \ {v}, !.user = v, !.left = Components]
  <2>2. t \in Work /\ t.user \in Accounts
    BY <1>0, Constants DEF Work, Idle
  <2> HIDE DEF t
  <2>3. tick' = [tick EXCEPT ![p] = t]
    BY <2>1 DEF t
  <2>4. QED
    BY <1>0, <1>2, <2>2, <2>3, TickMoves DEF NextUser, crashVars
<1>3. ASSUME NEW ok \in BOOLEAN, Stage(p, ok) PROVE TypeOK'
  <2> DEFINE c == Head(tick[p].left)
  <2>1. u \in users /\ u \in Accounts /\ tick[p].left \in Seq(Parts) /\ tick[p].left # <<>> /\ tick[p].pc = "stages"
    BY <1>0, <1>3 DEF Stage, Work
  <2>2. c \in Parts /\ Tail(tick[p].left) \in Seq(Parts)
    BY <2>1
  <2>3. Recorded(health[u][c], ok) \in Row /\ Recorded(health[u][c], ok).stored
    BY <2>1, <2>2, RecordedRow DEF TypeOK
  <2>4. /\ health' \in [Accounts -> [Parts -> Row]]
        /\ \A v \in Accounts, d \in Parts : health'[v][d] = health[v][d] \/ (v = u /\ d = c /\ health'[v][d].stored)
    <3> DEFINE h == Recorded(health[u][c], ok)
    <3>1. h \in Row /\ h.stored /\ health' = [health EXCEPT ![u][c] = h]
      BY <1>3, <2>3 DEF Stage
    <3>2. health \in [Accounts -> [Parts -> Row]]
      BY DEF TypeOK
    <3> HIDE DEF h, c, u
    <3>3. health'[u] = [health[u] EXCEPT ![c] = h] /\ \A v \in Accounts : v # u => health'[v] = health[v]
      BY <2>1, <3>1, <3>2
    <3>4. health[u] \in [Parts -> Row] /\ health'[u] \in [Parts -> Row]
      BY <2>1, <2>2, <3>1, <3>2, <3>3
    <3>5. \A d \in Parts : health'[u][d] = health[u][d] \/ (d = c /\ health'[u][d].stored)
      <4>1. health'[u][c] = h /\ \A d \in Parts : d # c => health'[u][d] = health[u][d]
        BY <2>2, <3>3, <3>4
      <4>2. QED
        BY <3>1, <4>1
    <3>6. health' \in [Accounts -> [Parts -> Row]]
      BY <2>1, <3>1, <3>2, <3>3, <3>4
    <3>7. ASSUME NEW v \in Accounts, NEW d \in Parts
          PROVE  health'[v][d] = health[v][d] \/ (v = u /\ d = c /\ health'[v][d].stored)
      BY <3>3, <3>5
    <3>8. QED
      BY <3>6, <3>7
  <2>5. told' \in [Accounts -> [Parts -> 0..2]]
    BY <1>3, <2>1, <2>2 DEF Stage, TypeOK
  <2> HIDE DEF c
  <2>6. /\ tick' \in [Ticks -> Work]
        /\ \A q \in Ticks : tick'[q].pc = tick[q].pc /\ tick'[q].user = tick[q].user
    <3> DEFINE t == [tick[p] EXCEPT !.left = Tail(tick[p].left)]
    <3>1. t \in Work /\ t.pc = tick[p].pc /\ t.user = tick[p].user
      BY <1>0, <2>2 DEF Work
    <3>2. tick' = [tick EXCEPT ![p] = t]
      BY <1>3 DEF Stage
    <3> HIDE DEF t
    <3>3. QED
      BY <3>1, <3>2 DEF TypeOK
  <2>7. UNCHANGED <<users, down, crashes, unmarked>>
    BY <1>3 DEF Stage, crashVars
  <2>8. QED
    <3>1. \A v \in Accounts, d \in Parts : /\ ~health'[v][d].stored => health'[v][d] = Absent
                                           /\ v \notin users' => ~health'[v][d].stored
      BY <2>1, <2>4, <2>7 DEF TypeOK
    <3>2. \A r \in Ticks : tick'[r].pc \in {"stages", "mark"} => tick'[r].user \in Accounts
      BY <2>6 DEF TypeOK
    <3>3. QED
      BY <2>4, <2>5, <2>6, <2>7, <3>1, <3>2 DEF TypeOK
<1>4. ASSUME NEW delivered \in BOOLEAN, CheckAlert(p, delivered) PROVE TypeOK'
  <2> DEFINE t == IF delivered THEN [tick[p] EXCEPT !.pc = "mark", !.rows = Worth(u)] ELSE Between(tick[p].todo)
  <2>1. t \in Work /\ u \in Accounts /\ (t.pc = "mark" => t.user = u) /\ t.pc \in {"mark", "between"}
    BY <1>0, <1>4, Constants DEF CheckAlert, Worth, Work
  <2>2. tick' = [tick EXCEPT ![p] = t]
    BY <1>4 DEF CheckAlert
  <2> HIDE DEF t
  <2>3. tick' \in [Ticks -> Work] /\ \A r \in Ticks : tick'[r].pc \in {"stages", "mark"} => tick'[r].user \in Accounts
    BY <2>1, <2>2 DEF TypeOK
  <2>4. told' \in [Accounts -> [Parts -> 0..2]]
    <3>1. \A n \in 0..2 : Upto(2, n + 1) \in 0..2
      BY DEF Upto
    <3>2. CASE delivered
      <4> DEFINE row == [d \in Parts |-> IF d \in Worth(u) THEN Upto(2, told[u][d] + 1) ELSE told[u][d]]
      <4>1. row \in [Parts -> 0..2]
        BY <2>1, <3>1 DEF TypeOK
      <4>2. told' = [told EXCEPT ![u] = row]
        BY <1>4, <3>2 DEF CheckAlert
      <4> HIDE DEF row
      <4>3. QED
        BY <4>1, <4>2 DEF TypeOK
    <3>3. CASE ~delivered
      BY <1>4, <3>3 DEF CheckAlert, TypeOK
    <3>4. QED
      BY <3>2, <3>3
  <2>5. UNCHANGED <<users, health, down, crashes, unmarked>>
    BY <1>4 DEF CheckAlert, crashVars
  <2>6. QED
    BY <2>3, <2>4, <2>5 DEF TypeOK
<1>5. CASE Mark(p)
  <2> DEFINE row == [d \in Parts |-> IF d \in tick[p].rows /\ health[u][d].stored
                                     THEN [health[u][d] EXCEPT !.alerted = TRUE] ELSE health[u][d]]
  <2>1. u \in Accounts /\ health' = [health EXCEPT ![u] = row] /\ tick' = [tick EXCEPT ![p] = Between(tick[p].todo)]
    BY <1>0, <1>5 DEF Mark
  <2>2. /\ row \in [Parts -> Row]
        /\ \A d \in Parts : row[d] = health[u][d] \/ (row[d].stored /\ health[u][d].stored)
    <3>1. ASSUME NEW d \in Parts
          PROVE  row[d] \in Row /\ (row[d] = health[u][d] \/ (row[d].stored /\ health[u][d].stored))
      <4>1. health[u][d] \in Row
        BY <2>1 DEF TypeOK
      <4>2. [health[u][d] EXCEPT !.alerted = TRUE] \in Row
            /\ [health[u][d] EXCEPT !.alerted = TRUE].stored = health[u][d].stored
        BY <4>1 DEF Row
      <4>3. row[d] = IF d \in tick[p].rows /\ health[u][d].stored
                     THEN [health[u][d] EXCEPT !.alerted = TRUE] ELSE health[u][d]
        OBVIOUS
      <4> HIDE DEF row
      <4>4. CASE d \in tick[p].rows /\ health[u][d].stored
        BY <4>2, <4>3, <4>4
      <4>5. CASE ~(d \in tick[p].rows /\ health[u][d].stored)
        BY <4>1, <4>3, <4>5
      <4>6. QED
        BY <4>4, <4>5
    <3>2. QED
      BY <3>1
  <2> HIDE DEF row
  <2>3. /\ health' \in [Accounts -> [Parts -> Row]]
        /\ \A v \in Accounts, d \in Parts : health'[v][d] = health[v][d] \/ (health'[v][d].stored /\ health[v][d].stored)
    <3>1. health'[u] = row /\ \A v \in Accounts : v # u => health'[v] = health[v]
      BY <2>1 DEF TypeOK
    <3>2. health' \in [Accounts -> [Parts -> Row]]
      BY <2>1, <2>2 DEF TypeOK
    <3>3. ASSUME NEW v \in Accounts, NEW d \in Parts
          PROVE  health'[v][d] = health[v][d] \/ (health'[v][d].stored /\ health[v][d].stored)
      <4>1. CASE v = u
        BY <2>2, <3>1, <4>1
      <4>2. CASE v # u
        BY <3>1, <4>2
      <4>3. QED
        BY <4>1, <4>2
    <3>4. QED
      BY <3>2, <3>3
  <2>4. tick' \in [Ticks -> Work] /\ \A r \in Ticks : tick'[r].pc \in {"stages", "mark"} => tick'[r].user \in Accounts
    BY <1>0, <2>1, Constants DEF TypeOK
  <2>5. UNCHANGED <<users, down, told, crashes, unmarked>>
    BY <1>5 DEF Mark, crashVars
  <2>6. QED
    BY <2>3, <2>4, <2>5 DEF TypeOK
<1>6. CASE UserFails(p)
  BY <1>0, <1>6, TickMoves, Constants DEF UserFails, crashVars
<1>7. CASE EndTick(p)
  BY <1>0, <1>7, TickMoves, Constants DEF EndTick, crashVars, Idle
<1>8. CASE Crash(p)
  <2>1. crashes' \in 0..MaxCrashes /\ unmarked' \subseteq Accounts
    BY <1>0, <1>8 DEF Crash
  <2>2. QED
    BY <1>0, <1>8, <2>1, TickMoves, Constants DEF Crash, Idle
<1>9. QED
  BY <1>1, <1>2, <1>3, <1>4, <1>5, <1>6, <1>7, <1>8 DEF Step

\* Every step of the system keeps them.
LEMMA TypeStep == ASSUME TypeOK, [Next]_vars PROVE TypeOK'
<1>1. ASSUME NEW u \in Accounts, Delete(u) PROVE TypeOK'
  <2>1. /\ health' \in [Accounts -> [Parts -> Row]]
        /\ \A v \in Accounts, c \in Parts : health'[v][c] = IF v = u THEN Absent ELSE health[v][c]
    BY <1>1, Constants DEF Delete, TypeOK
  <2>2. told' \in [Accounts -> [Parts -> 0..2]]
    <3>1. [c \in Parts |-> 0] \in [Parts -> 0..2]
      OBVIOUS
    <3>2. QED
      BY <1>1, <3>1 DEF Delete, TypeOK
  <2>3. users' = users \ {u} /\ UNCHANGED <<down, tick, crashes, unmarked>>
    BY <1>1 DEF Delete, crashVars
  <2>4. QED
    BY <2>1, <2>2, <2>3 DEF TypeOK, Absent
<1>2. ASSUME NEW u \in Accounts, NEW c \in Parts, Break(u, c) \/ Repair(u, c) PROVE TypeOK'
  BY <1>2 DEF Break, Repair, TypeOK, crashVars
<1>3. CASE UNCHANGED vars
  BY <1>3 DEF vars, crashVars, TypeOK
<1>4. QED
  BY <1>1, <1>2, <1>3, StepType DEF Next, World

\* Every state is well typed, and a health row never outlives its account
\* (the cascade of delete_user).
THEOREM TypeCorrect == Spec => []TypeOK
BY TypeInit, TypeStep, PTL DEF Spec

-----------------------------------------------------------------------------
\* What a delivered alert leaves behind: the mark of its row, or the tick that
\* is about to mark it, which selected it among the rows past the threshold.
Marking(p, u, c) == tick[p].pc = "mark" /\ tick[p].user = u /\ c \in tick[p].rows

AlertOK(u, c) ==
    /\ health[u][c].failures = 0 => ~health[u][c].alerted
    /\ told[u][c] > 0 => health[u][c].stored
    /\ u \notin unmarked => /\ told[u][c] <= 1
                            /\ told[u][c] > 0 => health[u][c].alerted \/ \E p \in Ticks : Marking(p, u, c)
    /\ \A p \in Ticks : Marking(p, u, c) /\ health[u][c].stored => health[u][c].failures >= Threshold

AlertInv == OneTick => \A u \in Accounts, c \in Parts : AlertOK(u, c)

\* No step leaves an outage that was told neither marked nor about to be.
LEMMA AlertStep == ASSUME TypeOK, AlertInv, [Next]_vars PROVE AlertInv'
<1> SUFFICES ASSUME OneTick, NEW u \in Accounts, NEW c \in Parts PROVE AlertOK(u, c)'
  BY DEF AlertInv, OneTick
<1>0. /\ AlertOK(u, c) /\ health[u][c] \in Row /\ told[u][c] \in 0..2
      /\ ~health[u][c].stored => health[u][c] = Absent
      /\ \A p, r \in Ticks : p = r
  BY DEF AlertInv, OneTick, TypeOK
<1>1. ASSUME health'[u][c] = health[u][c], told'[u][c] = told[u][c], unmarked' = unmarked,
             \A p \in Ticks : Marking(p, u, c)' <=> Marking(p, u, c)
      PROVE  AlertOK(u, c)'
  BY <1>0, <1>1 DEF AlertOK
<1>2. CASE UNCHANGED <<health, told, unmarked, tick>>
  BY <1>1, <1>2 DEF Marking
<1>3. ASSUME NEW p \in Ticks, StartTick(p) \/ NextUser(p) \/ EndTick(p) \/ UserFails(p) PROVE AlertOK(u, c)'
  <2>1. UNCHANGED <<health, told, unmarked>> /\ tick[p].pc # "mark"
    BY <1>3 DEF StartTick, NextUser, EndTick, UserFails, crashVars
  <2>2. tick'[p].pc # "mark"
    <3>1. tick \in [Ticks -> Work]
      BY DEF TypeOK
    <3>2. CASE StartTick(p) \/ EndTick(p) \/ UserFails(p)
      <4>1. users \in SUBSET Accounts /\ tick[p].todo \in SUBSET Accounts /\ Idle.pc = "idle"
        BY <3>1 DEF TypeOK, Work, Idle
      <4>2. tick'[p] \in {Between(users), Between(tick[p].todo), Idle}
        BY <3>1, <3>2 DEF StartTick, EndTick, UserFails
      <4>3. QED
        BY <4>1, <4>2, Constants
    <3>3. CASE NextUser(p)
      <4>1. \E v \in tick[p].todo : tick'[p].pc = "stages"
        BY <3>1, <3>3 DEF NextUser, Idle
      <4>2. QED
        BY <4>1
    <3>4. QED
      BY <1>3, <3>2, <3>3
  <2>3. QED
    BY <1>0, <1>1, <2>1, <2>2 DEF Marking
<1>4. ASSUME NEW p \in Ticks, NEW ok \in BOOLEAN, Stage(p, ok) PROVE AlertOK(u, c)'
  <2> DEFINE v == tick[p].user
             d == Head(tick[p].left)
  <2>1. tick[p].pc = "stages" /\ tick'[p].pc = "stages" /\ v \in Accounts /\ unmarked' = unmarked
    BY <1>4 DEF Stage, TypeOK, Work, crashVars
  <2>2. \A r \in Ticks : ~Marking(r, u, c) /\ ~Marking(r, u, c)'
    BY <1>0, <2>1 DEF Marking
  <2>3. d \in Parts
    BY <1>4 DEF Stage, TypeOK, Work
  <2>4. health' = [health EXCEPT ![v][d] = Recorded(health[v][d], ok)]
        /\ told' = [told EXCEPT ![v][d] = IF ok THEN 0 ELSE @]
    BY <1>4 DEF Stage
  <2> HIDE DEF v, d
  <2>5. CASE v = u /\ d = c
    <3>1. health'[u][c] = Recorded(health[u][c], ok) /\ told'[u][c] = IF ok THEN 0 ELSE told[u][c]
      BY <2>1, <2>3, <2>4, <2>5 DEF TypeOK
    <3>2. QED
      BY <1>0, <2>1, <2>2, <3>1, RecordedRow DEF AlertOK, Row
  <2>6. CASE ~(v = u /\ d = c)
    <3>1. health'[u][c] = health[u][c] /\ told'[u][c] = told[u][c]
      BY <2>1, <2>3, <2>4, <2>6 DEF TypeOK
    <3>2. QED
      BY <1>1, <2>1, <2>2, <3>1
  <2>7. QED
    BY <2>5, <2>6
<1>5. ASSUME NEW p \in Ticks, NEW delivered \in BOOLEAN, CheckAlert(p, delivered) PROVE AlertOK(u, c)'
  <2> DEFINE v == tick[p].user
  <2>1. tick[p].pc = "stages" /\ v \in Accounts /\ health' = health /\ unmarked' = unmarked
    BY <1>5 DEF CheckAlert, TypeOK, crashVars
  <2>2. \A r \in Ticks : ~Marking(r, u, c)
    BY <1>0, <2>1 DEF Marking
  <2>3. CASE delivered /\ v = u /\ c \in Worth(u)
    <3>1. told'[u][c] = Upto(2, told[u][c] + 1)
      BY <1>5, <2>1, <2>3 DEF CheckAlert, TypeOK
    <3>2. Marking(p, u, c)'
      BY <1>5, <2>3 DEF CheckAlert, TypeOK, Work, Marking
    <3>3. health[u][c].failures >= Threshold /\ ~health[u][c].alerted /\ health[u][c].stored
      BY <1>0, <2>3, Constants DEF Worth, Absent
    <3>4. u \notin unmarked => told'[u][c] = 1
      BY <1>0, <2>2, <3>1, <3>3 DEF AlertOK, Upto
    <3>5. QED
      BY <1>0, <2>1, <3>2, <3>3, <3>4 DEF AlertOK
  <2>4. CASE delivered /\ ~(v = u /\ c \in Worth(u))
    <3>1. told'[u][c] = told[u][c]
      BY <1>5, <2>1, <2>4 DEF CheckAlert, TypeOK
    <3>2. tick'[p].user = v /\ tick'[p].rows = Worth(v)
      BY <1>5, <2>4 DEF CheckAlert, TypeOK, Work
    <3>3. ~Marking(p, u, c)'
      BY <2>4, <3>2 DEF Marking
    <3>4. QED
      BY <1>0, <1>1, <2>1, <2>2, <3>1, <3>3
  <2>5. CASE ~delivered
    <3>1. told' = told /\ tick'[p].pc = "between"
      BY <1>5, <2>5 DEF CheckAlert, TypeOK, Between, Idle
    <3>2. QED
      BY <1>0, <1>1, <2>1, <2>2, <3>1 DEF Marking
  <2>6. QED
    BY <2>3, <2>4, <2>5
<1>6. ASSUME NEW p \in Ticks, Mark(p) PROVE AlertOK(u, c)'
  <2>1. /\ tick[p].pc = "mark" /\ tick[p].user \in Accounts /\ UNCHANGED <<told, unmarked>>
        /\ tick' = [tick EXCEPT ![p] = Between(tick[p].todo)]
    BY <1>6 DEF Mark, TypeOK, crashVars
  <2>2. \A r \in Ticks : ~Marking(r, u, c)'
    BY <1>0, <2>1 DEF Marking, Between, Idle, TypeOK
  <2>3. CASE Marking(p, u, c) /\ health[u][c].stored
    <3>1. health'[u][c] = [health[u][c] EXCEPT !.alerted = TRUE]
      BY <1>6, <2>1, <2>3 DEF Mark, TypeOK, Marking
    <3>2. health'[u][c].alerted /\ health'[u][c].stored /\ health'[u][c].failures = health[u][c].failures
      BY <1>0, <2>3, <3>1 DEF Row
    <3>3. QED
      BY <1>0, <2>1, <2>2, <2>3, <3>2, Constants DEF AlertOK
  <2>4. CASE ~(Marking(p, u, c) /\ health[u][c].stored)
    <3>1. health'[u][c] = health[u][c]
      BY <1>6, <2>1, <2>4 DEF Mark, TypeOK, Marking
    <3>2. QED
      BY <1>0, <2>1, <2>2, <2>4, <3>1 DEF AlertOK
  <2>5. QED
    BY <2>3, <2>4
<1>7. ASSUME NEW p \in Ticks, Crash(p) PROVE AlertOK(u, c)'
  <2>1. /\ UNCHANGED <<health, told>> /\ tick'[p].pc = "idle"
        /\ unmarked' = IF tick[p].pc = "mark" THEN unmarked \cup {tick[p].user} ELSE unmarked
    BY <1>7 DEF Crash, TypeOK, Idle
  <2>2. u \notin unmarked' => \A r \in Ticks : ~Marking(r, u, c)
    BY <1>0, <2>1 DEF Marking
  <2>3. QED
    BY <1>0, <2>1, <2>2 DEF AlertOK, Marking
<1>8. ASSUME NEW v \in Accounts, Delete(v) PROVE AlertOK(u, c)'
  <2>1. UNCHANGED <<tick, unmarked>>
    BY <1>8 DEF Delete, crashVars
  <2>2. CASE v = u
    <3>1. health'[u][c] = Absent /\ told'[u][c] = 0
      BY <1>8, <2>2 DEF Delete, TypeOK
    <3>2. QED
      BY <3>1 DEF AlertOK, Absent
  <2>3. CASE v # u
    <3>1. health'[u][c] = health[u][c] /\ told'[u][c] = told[u][c]
      BY <1>8, <2>3 DEF Delete, TypeOK
    <3>2. QED
      BY <1>1, <2>1, <3>1 DEF Marking
  <2>4. QED
    BY <2>2, <2>3
<1>9. ASSUME NEW v \in Accounts, NEW d \in Parts, Break(v, d) \/ Repair(v, d) PROVE AlertOK(u, c)'
  BY <1>2, <1>9 DEF Break, Repair, crashVars
<1>10. QED
  BY <1>2, <1>3, <1>4, <1>5, <1>6, <1>7, <1>8, <1>9 DEF Next, World, Step, vars, crashVars

\* At the start nobody was told of anything.
LEMMA AlertInit == Init => AlertInv
<1> SUFFICES ASSUME Init, NEW u \in Accounts, NEW c \in Parts PROVE AlertOK(u, c)
  BY DEF AlertInv
<1>1. health[u][c] = Absent /\ told[u][c] = 0 /\ \A p \in Ticks : tick[p].pc = "idle"
  BY DEF Init, Idle
<1>2. QED
  BY <1>1 DEF AlertOK, Absent, Marking

\* The two together.
LEMMA AlertInvAlways == Spec => []AlertInv
BY AlertInit, AlertStep, TypeCorrect, PTL DEF Spec

\* One outage, one alert, for any number of accounts, components and failures:
\* a delivered alert is marked before its row can be selected again, or the
\* process died in between (check_and_alert).
THEOREM AlertOnceHolds == Spec => []AlertOnce
<1>1. AlertInv => AlertOnce
  BY DEF AlertInv, AlertOK, AlertOnce
<1>2. QED
  BY <1>1, AlertInvAlways, PTL

\* The alert of a component that is well again is cleared, so that its next
\* outage can be reported (record_result).
THEOREM RearmedHolds == Spec => []Rearmed
<1>1. AlertInv => Rearmed
  BY DEF AlertInv, AlertOK, Rearmed
<1>2. QED
  BY <1>1, AlertInvAlways, PTL

-----------------------------------------------------------------------------
\* The rank of an element of S, when f orders S.
Rank(c, S, f) == Cardinality({ d \in S : f[d] <= f[c] })

\* Where no two elements have the same value, ranks number S from 1 to its
\* cardinality, in the order of the values.
LEMMA Ranks ==
    ASSUME NEW S, IsFiniteSet(S), NEW f \in [S -> Nat], \A c, d \in S : f[c] = f[d] => c = d
    PROVE  /\ \A c \in S : Rank(c, S, f) \in 1..Cardinality(S)
           /\ \A c, d \in S : f[c] < f[d] => Rank(c, S, f) < Rank(d, S, f)
           /\ \A k \in 1..Cardinality(S) : \E c \in S : Rank(c, S, f) = k
<1> DEFINE upto(c) == { d \in S : f[d] <= f[c] }
<1>1. Cardinality(S) \in Nat
  BY FS_CardinalityType
<1>2. ASSUME NEW c \in S PROVE IsFiniteSet(upto(c)) /\ Rank(c, S, f) \in 1..Cardinality(S)
  <2>1. upto(c) \in SUBSET S /\ c \in upto(c)
    OBVIOUS
  <2>2. IsFiniteSet(upto(c)) /\ Cardinality(upto(c)) <= Cardinality(S)
    BY <2>1, FS_Subset
  <2>3. Cardinality(upto(c)) \in Nat /\ Cardinality(upto(c)) # 0
    BY <2>1, <2>2, FS_CardinalityType, FS_EmptySet
  <2>4. QED
    BY <1>1, <2>2, <2>3 DEF Rank
<1>3. ASSUME NEW c \in S, NEW d \in S, f[c] < f[d] PROVE Rank(c, S, f) < Rank(d, S, f)
  <2>1. upto(c) \in SUBSET upto(d) /\ d \in upto(d) /\ d \notin upto(c)
    BY <1>3
  <2>2. IsFiniteSet(upto(d)) /\ IsFiniteSet(upto(c))
    BY <1>2
  <2>3. /\ Cardinality(upto(c)) <= Cardinality(upto(d))
        /\ Cardinality(upto(d)) # Cardinality(upto(c))
    BY <2>1, <2>2, FS_Subset
  <2>4. Cardinality(upto(c)) \in Nat /\ Cardinality(upto(d)) \in Nat
    BY <2>2, FS_CardinalityType
  <2>5. QED
    BY <2>3, <2>4 DEF Rank
<1>4. ASSUME NEW k \in 1..Cardinality(S) PROVE \E c \in S : Rank(c, S, f) = k
  <2> DEFINE rank == [c \in S |-> Rank(c, S, f)]
             T == 1..Cardinality(S)
  <2>1. rank \in [S -> T]
    BY <1>2
  <2>2. ASSUME NEW c \in S, NEW d \in S, rank[c] = rank[d] PROVE c = d
    <3>1. Rank(c, S, f) = Rank(d, S, f) /\ f[c] \in Nat /\ f[d] \in Nat
      BY <2>2
    <3>2. Rank(c, S, f) \in 1..Cardinality(S)
      BY <1>2
    <3>3. ~(f[c] < f[d]) /\ ~(f[d] < f[c])
      BY <1>1, <1>3, <3>1, <3>2
    <3>4. QED
      BY <3>1, <3>3
  <2>3. rank \in Injection(S, T)
    BY <2>1, <2>2 DEF Injection, IsInjective
  <2>4. IsFiniteSet(T) /\ Cardinality(T) = Cardinality(S)
    BY <1>1, FS_Interval
  <2> HIDE DEF rank, T
  <2>5. rank \in Surjection(S, T)
    BY <2>3, <2>4, FS_Injection
  <2>6. PICK c \in S : rank[c] = k
    BY <2>5 DEF Surjection, T
  <2>7. QED
    BY <2>6 DEF rank
<1>5. QED
  BY <1>2, <1>3, <1>4

-----------------------------------------------------------------------------
Messages == [role : {"alert", "repeat", "user", "bot"}, of : Alerts \cup {Nobody}, acked : BOOLEAN]

\* A new message comes last, and pushes the oldest out of a full thread.
LEMMA Added ==
    ASSUME thread \in Seq(Messages), Len(thread) <= Keep,
           NEW m \in Messages, Add(m)
    PROVE  /\ thread' \in Seq(Messages) /\ Len(thread') <= Keep /\ Len(thread') >= 1
           /\ \E gone \in {0, 1} :
                 /\ Len(thread') = Len(thread) + 1 - gone
                 /\ \A n \in 1..Len(thread') :
                       thread'[n] = IF n = Len(thread') THEN m ELSE thread[n + gone]
<1> DEFINE s == Append(thread, m)
           first == IF Len(s) > Keep THEN Len(s) - Keep + 1 ELSE 1
<1>1. Keep \in Nat /\ Keep >= 1 /\ Len(thread) \in Nat
  BY LenProperties, ThreadAssumption DEF ThreadAssumption
<1>2. /\ s \in Seq(Messages) /\ Len(s) = Len(thread) + 1
      /\ \A n \in 1..Len(thread) : s[n] = thread[n]
      /\ s[Len(thread) + 1] = m
  BY AppendProperties
<1>3. thread' = SubSeq(s, first, Len(s))
  BY DEF Add, Newest
<1>4. first = (IF Len(thread) = Keep THEN 2 ELSE 1) /\ Len(s) \in Nat
  BY <1>1, <1>2
<1> HIDE DEF first, s
<1>5. \A i \in first..Len(s) : s[i] \in Messages
  BY <1>1, <1>2, <1>4, ElementOfSeq
<1>6. /\ thread' \in Seq(Messages)
      /\ Len(thread') = IF first <= Len(s) THEN Len(s) - first + 1 ELSE 0
      /\ \A i \in 1..Len(s) - first + 1 : thread'[i] = s[first + i - 1]
  <2>1. first \in Int /\ Len(s) \in Int
    BY <1>4
  <2>2. QED
    BY <1>3, <1>5, <2>1, SubSeqProperties
<1>7. CASE Len(thread) = Keep
  <2>1. Len(thread') = Len(thread) /\ \A n \in 1..Len(thread') : thread'[n] = s[n + 1]
    BY <1>1, <1>2, <1>4, <1>6, <1>7
  <2>2. \A n \in 1..Len(thread') : thread'[n] = IF n = Len(thread') THEN m ELSE thread[n + 1]
    BY <1>1, <1>2, <2>1
  <2>3. QED
    BY <1>1, <1>6, <1>7, <2>1, <2>2
<1>8. CASE Len(thread) # Keep
  <2>1. Len(thread') = Len(thread) + 1 /\ \A n \in 1..Len(thread') : thread'[n] = s[n]
    BY <1>1, <1>2, <1>4, <1>6, <1>8
  <2>2. \A n \in 1..Len(thread') : thread'[n] = IF n = Len(thread') THEN m ELSE thread[n + 0]
    BY <1>1, <1>2, <2>1
  <2>3. QED
    BY <1>1, <1>6, <1>8, <2>1, <2>2
<1>9. QED
  BY <1>7, <1>8

-----------------------------------------------------------------------------
\* What the pass fetches: alerts that are due, each of them once.
Fetched(s) ==
    /\ s \in Seq(Alerts) /\ Len(s) <= Limit
    /\ \A i, j \in 1..Len(s) : s[i] = s[j] => i = j
    /\ \A i \in 1..Len(s) : \E n \in 1..Len(thread) :
          thread[n].of = s[i] /\ WantsRepeat(thread[n])

\* The messages about an alert are alerts, and the first of them its root.
Shape ==
    /\ \A n \in 1..Len(thread) : thread[n].of \in Alerts <=> IsAlert(thread[n])
    /\ \A m, n \in 1..Len(thread) :
          thread[m].role = "alert" /\ thread[n].role = "alert" /\ thread[m].of = thread[n].of => m = n

\* The fetch takes the alerts that want a repeat, oldest first and as many as
\* the limit allows (due_nags).
LEMMA DueFetched ==
    ASSUME thread \in Seq(Messages), Shape
    PROVE  Fetched(Due)
<1> DEFINE wanted   == { n \in DOMAIN thread : WantsRepeat(thread[n]) }
           place(n) == Cardinality({ m \in wanted : m <= n })
           oldest   == { n \in wanted : place(n) <= Limit }
           id       == [n \in oldest |-> n]
           nth(k)   == CHOOSE n \in oldest : place(n) = k
           s        == Due
<1>1. DOMAIN thread = 1..Len(thread) /\ Len(thread) \in Nat /\ Limit \in Nat
  BY LenProperties, ThreadAssumption DEF ThreadAssumption
<1>2. s = [k \in 1..Cardinality(oldest) |-> thread[nth(k)].of]
  BY DEF Due
<1>3. IsFiniteSet(wanted) /\ wanted \in SUBSET (1..Len(thread))
  <2>1. IsFiniteSet(1..Len(thread))
    BY <1>1, FS_Interval
  <2>2. QED
    BY <1>1, <2>1, FS_Subset
<1>4. IsFiniteSet(oldest) /\ oldest \in SUBSET Nat
  <2>1. oldest \in SUBSET wanted
    OBVIOUS
  <2>2. IsFiniteSet(oldest)
    BY <1>3, <2>1, FS_Subset
  <2>3. \A n \in oldest : n \in Nat
    BY <1>1
  <2>4. QED
    BY <2>2, <2>3
<1>5. ASSUME NEW n \in oldest PROVE Rank(n, oldest, id) = place(n)
  <2>1. ASSUME NEW m \in wanted, m <= n PROVE m \in oldest
    <3>1. { i \in wanted : i <= m } \in SUBSET { i \in wanted : i <= n }
      BY <1>1, <1>3, <2>1
    <3>2. IsFiniteSet({ i \in wanted : i <= n }) /\ IsFiniteSet({ i \in wanted : i <= m })
      BY <1>3, FS_Subset
    <3>3. place(m) <= place(n) /\ place(m) \in Nat /\ place(n) \in Nat
      BY <3>1, <3>2, FS_Subset, FS_CardinalityType
    <3>4. place(n) <= Limit
      OBVIOUS
    <3>5. place(m) <= Limit
      BY <1>1, <3>3, <3>4
    <3>6. QED
      BY <3>5
  <2>2. { d \in oldest : id[d] <= id[n] } = { m \in wanted : m <= n }
    BY <2>1
  <2>3. QED
    BY <2>2 DEF Rank
<1>6. ASSUME NEW k \in 1..Cardinality(oldest) PROVE nth(k) \in oldest /\ place(nth(k)) = k
  <2>1. \A k1 \in 1..Cardinality(oldest) : \E c \in oldest : Rank(c, oldest, id) = k1
    <3>1. id \in [oldest -> Nat] /\ \A c, d \in oldest : id[c] = id[d] => c = d
      BY <1>4
    <3> HIDE DEF id, oldest
    <3>2. QED
      BY <1>4, <3>1, Ranks
  <2>2. \E n \in oldest : place(n) = k
    BY <1>5, <2>1
  <2> HIDE DEF oldest, place
  <2>3. QED
    BY <2>2
<1>7. Cardinality(oldest) \in Nat /\ Cardinality(oldest) <= Limit
  <2>1. Cardinality(oldest) \in Nat
    BY <1>4, FS_CardinalityType
  <2>2. CASE Cardinality(oldest) >= 1
    <3>1. \A n \in oldest : place(n) <= Limit
      OBVIOUS
    <3> HIDE DEF oldest, place, nth
    <3>2. Cardinality(oldest) \in 1..Cardinality(oldest)
      BY <2>1, <2>2
    <3>3. nth(Cardinality(oldest)) \in oldest /\ place(nth(Cardinality(oldest))) = Cardinality(oldest)
      BY <1>6, <3>2
    <3>4. QED
      BY <2>1, <3>1, <3>3
  <2>3. CASE ~(Cardinality(oldest) >= 1)
    BY <1>1, <2>1, <2>3
  <2>4. QED
    BY <2>2, <2>3
<1>8. \A k \in 1..Cardinality(oldest) :
         /\ nth(k) \in 1..Len(thread) /\ WantsRepeat(thread[nth(k)])
         /\ thread[nth(k)].of \in Alerts /\ thread[nth(k)].role = "alert"
  <2>1. \A n \in oldest : /\ n \in 1..Len(thread) /\ WantsRepeat(thread[n])
                          /\ thread[n].of \in Alerts /\ thread[n].role = "alert"
    BY DEF Shape, WantsRepeat, IsAlert
  <2> HIDE DEF oldest, nth
  <2>2. QED
    BY <1>6, <2>1
<1> HIDE DEF oldest, nth, place, s
<1>9. s \in Seq(Alerts) /\ Len(s) = Cardinality(oldest)
  BY <1>2, <1>7, <1>8
<1>10. ASSUME NEW i \in 1..Len(s), NEW j \in 1..Len(s), s[i] = s[j] PROVE i = j
  <2>1. nth(i) = nth(j)
    BY <1>2, <1>8, <1>9, <1>10 DEF Shape
  <2>2. QED
    BY <1>6, <1>9, <2>1
<1>11. \A i \in 1..Len(s) : \E n \in 1..Len(thread) : thread[n].of = s[i] /\ WantsRepeat(thread[n])
  BY <1>2, <1>8, <1>9
<1>12. QED
  BY <1>7, <1>9, <1>10, <1>11 DEF Fetched, s

-----------------------------------------------------------------------------
\* What the assumption says of each constant.
LEMMA ThreadConstants ==
    /\ Keep \in Nat /\ Keep >= 1 /\ Limit \in Nat /\ Interval \in Nat /\ Interval >= 1
    /\ Gap \in Nat /\ MaxLag \in Nat /\ MaxBroken \in Nat /\ Never \notin Nat /\ Nobody \notin Alerts
BY ThreadAssumption DEF ThreadAssumption

\* The messages that are added: an alert, a repeat or neither.
LEMMA Worded ==
    /\ \A a \in Alerts, role \in {"alert", "repeat"} :
          /\ Message(role, a) \in Messages
          /\ Message(role, a).of = a /\ Message(role, a).role = role
          /\ IsAlert(Message(role, a)) /\ ~Message(role, a).acked
    /\ \A role \in {"user", "bot"} :
          /\ Message(role, Nobody) \in Messages
          /\ Message(role, Nobody).of \notin Alerts
          /\ ~IsAlert(Message(role, Nobody))
BY ThreadConstants DEF Message, IsAlert, Messages

\* What minutes do to the times of an alert: they meet no sooner than before.
LEMMA Elapsed ==
    ASSUME ThreadTypeOK, NEW minutes \in Nat, Elapse(minutes)
    PROVE  /\ nag' \in [Alerts -> 0..Interval \cup {Never}] /\ since' \in [Alerts -> 0..Interval]
           /\ \A a \in Alerts :
                 /\ nag'[a] = Never <=> nag[a] = Never
                 /\ nag[a] # Never /\ nag[a] + since[a] >= Interval => nag'[a] + since'[a] >= Interval
                 /\ since[a] = Interval => since'[a] = Interval
                 /\ \A m \in Nat : since[a] >= Capped(m) => since'[a] >= Capped(m + minutes)
<1>1. /\ nag' = [a \in Alerts |-> IF nag[a] = Never THEN Never ELSE Minus(nag[a], minutes)]
      /\ since' = [a \in Alerts |-> Capped(since[a] + minutes)]
  BY DEF Elapse
<1>2. ASSUME NEW a \in Alerts
      PROVE  /\ nag'[a] \in 0..Interval \cup {Never} /\ since'[a] \in 0..Interval
             /\ nag'[a] = Never <=> nag[a] = Never
             /\ nag[a] # Never /\ nag[a] + since[a] >= Interval => nag'[a] + since'[a] >= Interval
             /\ since[a] = Interval => since'[a] = Interval
             /\ \A m \in Nat : since[a] >= Capped(m) => since'[a] >= Capped(m + minutes)
  <2>1. since[a] \in 0..Interval /\ nag[a] \in 0..Interval \cup {Never}
    BY DEF ThreadTypeOK
  <2>2. since'[a] = Capped(since[a] + minutes) /\ nag'[a] = IF nag[a] = Never THEN Never ELSE Minus(nag[a], minutes)
    BY <1>1
  <2>3. /\ since'[a] \in 0..Interval
        /\ since[a] = Interval => since'[a] = Interval
        /\ \A m \in Nat : since[a] >= Capped(m) => since'[a] >= Capped(m + minutes)
    BY <2>1, <2>2, ThreadConstants DEF Capped
  <2>4. CASE nag[a] = Never
    BY <2>2, <2>3, <2>4
  <2>5. CASE nag[a] # Never
    <3>1. nag[a] \in 0..Interval
      BY <2>1, <2>5
    <3>2. nag'[a] = Minus(nag[a], minutes)
      BY <2>2, <2>5
    <3>3. nag'[a] \in 0..Interval
      BY <3>1, <3>2, ThreadConstants DEF Minus
    <3>4. nag'[a] # Never
      BY <3>3, ThreadConstants
    <3>5. nag[a] + since[a] >= Interval => nag'[a] + since'[a] >= Interval
      BY <2>1, <2>2, <3>1, <3>2, ThreadConstants DEF Minus, Capped
    <3>6. QED
      BY <2>3, <2>5, <3>3, <3>4, <3>5
  <2>6. QED
    BY <2>4, <2>5
<1>3. QED
  BY <1>1, <1>2

\* The next repeat of an alert that the stage at work posts: a number of minutes.
LEMMA NextNagType ==
    ASSUME ThreadTypeOK
    PROVE  NextNag \in 0..Interval /\ Capped(lag) \in 0..Interval /\ NextNag + Capped(lag) >= Interval
BY ThreadConstants DEF ThreadTypeOK, NextNag, Minus, Capped

\* What the Received buttons leave: the same messages, some of them acknowledged.
LEMMA Acknowledged ==
    ASSUME ThreadTypeOK, NEW ns \in SUBSET (1..Len(thread)), Acknowledge(ns)
    PROVE  /\ thread' \in Seq(Messages) /\ Len(thread') = Len(thread)
           /\ \A n \in 1..Len(thread) :
                 /\ thread'[n].of = thread[n].of /\ thread'[n].role = thread[n].role
                 /\ thread'[n].acked <=> thread[n].acked \/ n \in ns
           /\ \A a \in Alerts : nag'[a] \in {nag[a], Never}
           /\ nag' \in [Alerts -> 0..Interval \cup {Never}]
           /\ stopped' = stopped \cup { thread[n].of : n \in ns }
           /\ UNCHANGED <<stage, lag, due, bumping, asked, broken, torn, since>>
<1> DEFINE unread == { n \in ns : ~thread[n].acked }
           seen(n) == IF n \in unread THEN [thread[n] EXCEPT !.acked = TRUE] ELSE thread[n]
<1>1. thread \in Seq(Messages) /\ DOMAIN thread = 1..Len(thread) /\ Len(thread) \in Nat
  BY LenProperties DEF ThreadTypeOK, Messages
<1>2. thread' = [n \in DOMAIN thread |-> seen(n)]
  BY DEF Acknowledge
<1>3. ASSUME NEW n \in 1..Len(thread)
      PROVE  /\ seen(n) \in Messages /\ seen(n).of = thread[n].of /\ seen(n).role = thread[n].role
             /\ seen(n).acked <=> thread[n].acked \/ n \in ns
  <2>1. thread[n] \in Messages
    BY <1>1, ElementOfSeq
  <2>2. CASE n \in unread
    BY <2>1, <2>2 DEF Messages
  <2>3. CASE n \notin unread
    BY <2>1, <2>3
  <2>4. QED
    BY <2>2, <2>3
<1> HIDE DEF seen
<1>4. thread' \in Seq(Messages) /\ Len(thread') = Len(thread) /\ \A n \in 1..Len(thread) : thread'[n] = seen(n)
  <2>1. thread' = [n \in 1..Len(thread) |-> seen(n)]
    BY <1>1, <1>2
  <2>2. QED
    BY <1>1, <1>3, <2>1
<1>5. /\ \A a \in Alerts : nag'[a] \in {nag[a], Never}
      /\ nag' \in [Alerts -> 0..Interval \cup {Never}]
  <2>1. nag' = [a \in Alerts |-> IF unread \cap Root(a) # {} THEN Never ELSE nag[a]]
    BY DEF Acknowledge
  <2>2. nag \in [Alerts -> 0..Interval \cup {Never}]
    BY DEF ThreadTypeOK
  <2> HIDE DEF unread
  <2>3. QED
    BY <2>1, <2>2
<1>6. /\ stopped' = stopped \cup { thread[n].of : n \in ns }
      /\ UNCHANGED <<stage, lag, due, bumping, asked, broken, torn, since>>
  BY DEF Acknowledge, passVars
<1>7. QED
  BY <1>3, <1>4, <1>5, <1>6

\* The messages a Received names are alerts, with everything else about them.
LEMMA Named ==
    ASSUME ThreadTypeOK, Shape,
           ReceivedAll \/ \E n \in DOMAIN thread : Received(n)
    PROVE  \E ns \in SUBSET (1..Len(thread)) :
              /\ Acknowledge(ns)
              /\ \A n \in ns : /\ thread[n].of \in Alerts
                               /\ \A m \in 1..Len(thread) : thread[m].of = thread[n].of => m \in ns
<1>1. DOMAIN thread = 1..Len(thread) /\ \A n \in 1..Len(thread) : thread[n].of \in Alerts <=> IsAlert(thread[n])
  BY LenProperties DEF ThreadTypeOK, Shape
<1>2. CASE ReceivedAll
  <2> DEFINE alerts == { n \in DOMAIN thread : IsAlert(thread[n]) }
  <2>1. Acknowledge(alerts) /\ alerts \in SUBSET (1..Len(thread))
    BY <1>1, <1>2 DEF ReceivedAll
  <2>2. \A n \in alerts : /\ thread[n].of \in Alerts
                          /\ \A m \in 1..Len(thread) : thread[m].of = thread[n].of => m \in alerts
    BY <1>1
  <2> HIDE DEF alerts
  <2>3. QED
    BY <2>1, <2>2
<1>3. ASSUME NEW k \in DOMAIN thread, Received(k)
      PROVE  \E ns \in SUBSET (1..Len(thread)) :
                /\ Acknowledge(ns)
                /\ \A n \in ns : /\ thread[n].of \in Alerts
                                 /\ \A m \in 1..Len(thread) : thread[m].of = thread[n].of => m \in ns
  <2> DEFINE chain == { n \in DOMAIN thread : thread[n].of = thread[k].of }
  <2>1. Acknowledge(chain) /\ chain \in SUBSET (1..Len(thread)) /\ IsAlert(thread[k])
    BY <1>1, <1>3 DEF Received, Chain, About
  <2>2. \A n \in chain : /\ thread[n].of \in Alerts
                         /\ \A m \in 1..Len(thread) : thread[m].of = thread[n].of => m \in chain
    BY <1>1, <2>1
  <2> HIDE DEF chain
  <2>3. QED
    BY <2>1, <2>2
<1>4. QED
  BY <1>2, <1>3

-----------------------------------------------------------------------------
\* The thread starts empty and well typed.
LEMMA ThreadTypeInit == ASSUME ThreadInit PROVE ThreadTypeOK
<1>1. Len(<<>>) = 0 /\ 0 \in 0..Interval /\ 0 \in 0..MaxLag
  BY ThreadConstants
<1>2. QED
  BY <1>1, ThreadConstants DEF ThreadInit, ThreadTypeOK

\* Every step keeps the types, and the thread within _CHAT_KEEP.
LEMMA ThreadTypeStep ==
    ASSUME ThreadTypeOK, Shape, [ThreadNext]_threadVars
    PROVE  ThreadTypeOK'
<1>0. /\ thread \in Seq(Messages) /\ Len(thread) <= Keep /\ nag \in [Alerts -> 0..Interval \cup {Never}]
      /\ due \in Seq(Alerts) /\ Len(due) <= Limit /\ Len(due) \in Nat
      /\ bumping \in Alerts \cup {Nobody} /\ asked \subseteq {"greet", "answer"}
      /\ broken \in 0..MaxBroken /\ stopped \subseteq Alerts /\ torn \subseteq Alerts
      /\ since \in [Alerts -> 0..Interval]
      /\ stage \in {"rest", "dispatch", "repeats"} /\ lag \in 0..MaxLag
      /\ 0 \in 0..Interval /\ 0 \in 0..MaxLag
      /\ NextNag \in 0..Interval /\ Capped(lag) \in 0..Interval
  BY ThreadConstants, LenProperties, NextNagType DEF ThreadTypeOK, Messages
<1>1. ASSUME NEW a \in Alerts, NEW clock \in {NextNag, Never}, Raise(a, clock) PROVE ThreadTypeOK'
  <2>1. thread' \in Seq(Messages) /\ Len(thread') <= Keep
    BY <1>0, <1>1, Added, Worded DEF Raise
  <2>2. nag' \in [Alerts -> 0..Interval \cup {Never}] /\ since' \in [Alerts -> 0..Interval]
    BY <1>0, <1>1 DEF Raise
  <2>3. stopped' \subseteq Alerts /\ torn' \subseteq Alerts /\ UNCHANGED <<stage, lag, due, bumping, asked, broken>>
    BY <1>0, <1>1 DEF Raise, passVars
  <2>4. QED
    BY <1>0, <2>1, <2>2, <2>3 DEF ThreadTypeOK, Messages
<1>2. CASE StartPass
  <2>1. due' = Due /\ UNCHANGED <<thread, nag, bumping, asked, broken, stopped, torn, since>>
    BY <1>2 DEF StartPass, historyVars
  <2>2. due' \in Seq(Alerts) /\ Len(due') <= Limit
    BY <1>0, <2>1, DueFetched DEF Fetched
  <2>3. stage' = "repeats" /\ lag' = 0
    BY <1>2 DEF StartPass
  <2>4. QED
    BY <1>0, <2>1, <2>2, <2>3 DEF ThreadTypeOK, Messages
<1>12. ASSUME NEW minutes \in Nat, Elapse(minutes), lag' \in 0..MaxLag, stage' \in {"dispatch", stage},
              UNCHANGED <<thread, due, bumping, asked, broken, stopped, torn>>
       PROVE  ThreadTypeOK'
  <2>1. nag' \in [Alerts -> 0..Interval \cup {Never}] /\ since' \in [Alerts -> 0..Interval]
    BY <1>12, Elapsed
  <2>2. QED
    BY <1>0, <1>12, <2>1 DEF ThreadTypeOK, Messages
<1>13. CASE BeginDispatch
  BY <1>0, <1>12, <1>13, ThreadConstants DEF BeginDispatch
<1>14. CASE Wait
  BY <1>0, <1>12, <1>14, ThreadConstants DEF Wait
<1>15. CASE EndRepeats
  <2>1. stage' = "rest" /\ lag' = 0 /\ UNCHANGED <<thread, nag, due, bumping, asked, broken, stopped, torn, since>>
    BY <1>15 DEF EndRepeats, historyVars
  <2>2. QED
    BY <1>0, <2>1 DEF ThreadTypeOK, Messages
<1>3. CASE Repeat
  <2>1. Head(due) \in Alerts /\ Tail(due) \in Seq(Alerts) /\ Len(Tail(due)) = Len(due) - 1
    BY <1>0, <1>3, HeadTailProperties DEF Repeat
  <2>2. thread' \in Seq(Messages) /\ Len(thread') <= Keep
    BY <1>0, <1>3, <2>1, Added, Worded DEF Repeat
  <2>3. since' \in [Alerts -> 0..Interval] /\ due' \in Seq(Alerts) /\ bumping' \in Alerts
    BY <1>0, <1>3, <2>1 DEF Repeat
  <2>4. due' = Tail(due) /\ UNCHANGED <<nag, stage, lag, asked, broken, stopped, torn>>
    BY <1>3 DEF Repeat
  <2>5. Len(due') <= Limit
    BY <1>0, <2>1, <2>4, ThreadConstants
  <2>6. QED
    BY <1>0, <2>2, <2>3, <2>4, <2>5 DEF ThreadTypeOK, Messages
<1>4. CASE Bump
  <2>1. nag' \in [Alerts -> 0..Interval \cup {Never}]
    BY <1>0, <1>4 DEF Bump
  <2>2. /\ bumping' = Nobody /\ torn' \subseteq Alerts
        /\ UNCHANGED <<thread, stage, lag, due, asked, broken, stopped, since>>
    BY <1>0, <1>4 DEF Bump
  <2>3. QED
    BY <1>0, <2>1, <2>2 DEF ThreadTypeOK, Messages
<1>5. CASE BreakOff
  <2>1. broken' \in 0..MaxBroken /\ torn' \subseteq Alerts
    BY <1>0, <1>5, ThreadConstants DEF BreakOff
  <2>2. /\ due' = <<>> /\ bumping' = Nobody /\ stage' = "rest" /\ lag' = 0
        /\ UNCHANGED <<thread, nag, asked, stopped, since>>
    BY <1>5 DEF BreakOff
  <2>3. due' \in Seq(Alerts) /\ Len(due') <= Limit
    BY <2>2, ThreadConstants
  <2>4. QED
    BY <1>0, <2>1, <2>2, <2>3 DEF ThreadTypeOK, Messages
<1>6. CASE Visit
  <2>1. /\ asked' \subseteq {"greet", "answer"}
        /\ UNCHANGED <<thread, nag, stage, lag, due, bumping, broken, stopped, torn, since>>
    BY <1>0, <1>6 DEF Visit, passVars, historyVars
  <2>2. QED
    BY <1>0, <2>1 DEF ThreadTypeOK, Messages
<1>7. ASSUME Ask \/ \E request \in {"greet", "answer"} : Respond(request) PROVE ThreadTypeOK'
  <2>1. \E role \in {"user", "bot"} : Add(Message(role, Nobody))
    BY <1>7 DEF Ask, Respond
  <2>2. thread' \in Seq(Messages) /\ Len(thread') <= Keep
    BY <1>0, <2>1, Added, Worded
  <2>3. /\ asked' \subseteq {"greet", "answer"}
        /\ UNCHANGED <<nag, stage, lag, due, bumping, broken, stopped, torn, since>>
    BY <1>0, <1>7 DEF Ask, Respond, passVars, historyVars
  <2>4. QED
    BY <1>0, <2>2, <2>3 DEF ThreadTypeOK, Messages
<1>8. ASSUME ReceivedAll \/ \E n \in DOMAIN thread : Received(n) PROVE ThreadTypeOK'
  <2>1. PICK ns \in SUBSET (1..Len(thread)) : Acknowledge(ns) /\ \A n \in ns : thread[n].of \in Alerts
    BY <1>8, Named
  <2>2. /\ thread' \in Seq(Messages) /\ Len(thread') = Len(thread)
        /\ nag' \in [Alerts -> 0..Interval \cup {Never}]
        /\ stopped' = stopped \cup { thread[n].of : n \in ns }
        /\ UNCHANGED <<stage, lag, due, bumping, asked, broken, torn, since>>
    BY <2>1, Acknowledged
  <2>3. stopped' \subseteq Alerts
    BY <1>0, <2>1, <2>2
  <2>4. QED
    BY <1>0, <2>2, <2>3 DEF ThreadTypeOK, Messages
<1>9. CASE Clear
  <2>1. /\ thread' = <<>> /\ stopped' \subseteq Alerts
        /\ UNCHANGED <<nag, stage, lag, due, bumping, asked, broken, torn, since>>
    BY <1>0, <1>9 DEF Clear, passVars
  <2>2. thread' \in Seq(Messages) /\ Len(thread') <= Keep
    BY <2>1, ThreadConstants
  <2>3. QED
    BY <1>0, <2>1, <2>2 DEF ThreadTypeOK, Messages
<1>10. CASE UNCHANGED threadVars
  BY <1>10 DEF threadVars, passVars, historyVars, ThreadTypeOK
<1>11. QED
  BY <1>1, <1>2, <1>3, <1>4, <1>5, <1>6, <1>7, <1>8, <1>9, <1>10, <1>13, <1>14,
     <1>15 DEF ThreadNext, Pass, Post, Welcome

-----------------------------------------------------------------------------
\* A message added at the end, with the oldest ones trimmed, keeps the shape, if
\* the thread has nothing about the alert it raises.
LEMMA ShapeAdded ==
    ASSUME ThreadTypeOK, Shape, NEW m \in Messages, Add(m),
           m.of \in Alerts <=> IsAlert(m),
           m.role = "alert" => \A n \in 1..Len(thread) : thread[n].of # m.of
    PROVE  Shape'
<1>1. thread \in Seq(Messages) /\ Len(thread) <= Keep /\ Len(thread) \in Nat
  BY LenProperties DEF ThreadTypeOK, Messages
<1>2. PICK gone \in {0, 1} :
         /\ Len(thread') = Len(thread) + 1 - gone
         /\ \A n \in 1..Len(thread') : thread'[n] = IF n = Len(thread') THEN m ELSE thread[n + gone]
  BY <1>1, Added
<1>3. \A n \in 1..Len(thread') : n # Len(thread') => n + gone \in 1..Len(thread) /\ thread'[n] = thread[n + gone]
  BY <1>1, <1>2
<1>4. Len(thread') \in Nat /\ \A n \in 1..Len(thread') : n = Len(thread') => thread'[n] = m
  BY <1>1, <1>2
<1>5. ASSUME NEW n \in 1..Len(thread') PROVE thread'[n].of \in Alerts <=> IsAlert(thread'[n])
  BY <1>3, <1>4 DEF Shape
<1>6. ASSUME NEW i \in 1..Len(thread'), NEW j \in 1..Len(thread'),
             thread'[i].role = "alert", thread'[j].role = "alert", thread'[i].of = thread'[j].of
      PROVE  i = j
  <2>1. CASE i # Len(thread') /\ j # Len(thread')
    <3>1. i + gone = j + gone
      BY <1>3, <1>6, <2>1 DEF Shape
    <3>2. QED
      BY <1>4, <3>1
  <2>2. CASE i = Len(thread') \/ j = Len(thread')
    BY <1>3, <1>4, <1>6, <2>2
  <2>3. QED
    BY <2>1, <2>2
<1>7. QED
  BY <1>5, <1>6 DEF Shape, IsAlert

\* Every step does.
LEMMA ShapeStep ==
    ASSUME ThreadTypeOK, Shape, [ThreadNext]_threadVars
    PROVE  Shape'
<1>0. thread \in Seq(Messages) /\ DOMAIN thread = 1..Len(thread) /\ due \in Seq(Alerts)
  BY LenProperties DEF ThreadTypeOK, Messages
<1>1. ASSUME NEW a \in Alerts, NEW clock \in {NextNag, Never}, Raise(a, clock) PROVE Shape'
  <2>1. Add(Message("alert", a)) /\ \A n \in 1..Len(thread) : thread[n].of # a
    BY <1>0, <1>1 DEF Raise, About
  <2>2. QED
    BY <2>1, Worded, ShapeAdded
<1>2. CASE Repeat
  <2>1. Add(Message("repeat", Head(due))) /\ Head(due) \in Alerts
    BY <1>0, <1>2, HeadTailProperties DEF Repeat
  <2>2. QED
    BY <2>1, Worded, ShapeAdded
<1>3. ASSUME Ask \/ \E request \in {"greet", "answer"} : Respond(request) PROVE Shape'
  <2>1. PICK role \in {"user", "bot"} : Add(Message(role, Nobody))
    BY <1>3 DEF Ask, Respond
  <2>2. Message(role, Nobody).role = role
    BY DEF Message
  <2>3. QED
    BY <2>1, <2>2, Worded, ShapeAdded
<1>4. ASSUME ReceivedAll \/ \E n \in DOMAIN thread : Received(n) PROVE Shape'
  <2>1. PICK ns \in SUBSET (1..Len(thread)) : Acknowledge(ns)
    BY <1>4, Named
  <2>2. /\ Len(thread') = Len(thread)
        /\ \A n \in 1..Len(thread) : thread'[n].of = thread[n].of /\ thread'[n].role = thread[n].role
    BY <2>1, Acknowledged
  <2>3. QED
    BY <2>2 DEF Shape, IsAlert
<1>5. CASE Clear
  <2>1. thread' = <<>>
    BY <1>5 DEF Clear
  <2>2. QED
    BY <2>1 DEF Shape
<1>6. CASE UNCHANGED thread
  BY <1>6 DEF Shape, IsAlert
<1>7. QED
  <2>1. BeginDispatch \/ Wait \/ StartPass \/ Bump \/ EndRepeats \/ BreakOff \/ Visit => UNCHANGED thread
    BY DEF BeginDispatch, Wait, StartPass, Bump, EndRepeats, BreakOff, Visit
  <2>2. UNCHANGED threadVars => UNCHANGED thread
    BY DEF threadVars
  <2>3. QED
    BY <1>1, <1>2, <1>3, <1>4, <1>5, <1>6, <2>1, <2>2 DEF ThreadNext, Pass, Post, Welcome

-----------------------------------------------------------------------------
InDue(a) == \E i \in 1..Len(due) : due[i] = a

\* A pass has each alert once before it: none twice, and not the one it has
\* just repeated; and nothing remains of it when it is over.
Fetching ==
    /\ stage # "repeats" => due = <<>> /\ bumping = Nobody
    /\ \A i, j \in 1..Len(due) : due[i] = due[j] => i = j
    /\ bumping = Nobody \/ ~InDue(bumping)

\* What the head of the fetched alerts leaves behind.
LEMMA HeadGone ==
    ASSUME ThreadTypeOK, Fetching, Repeat
    PROVE  /\ bumping' = Head(due) /\ Head(due) \in Alerts /\ bumping = Nobody
           /\ Add(Message("repeat", Head(due)))
           /\ InDue(Head(due)) /\ ~InDue(bumping)'
           /\ \A i, j \in 1..Len(due') : due'[i] = due'[j] => i = j
           /\ \A a : InDue(a)' => InDue(a)
<1>1. due \in Seq(Alerts) /\ due # <<>> /\ due' = Tail(due) /\ bumping' = Head(due) /\ bumping = Nobody
      /\ Add(Message("repeat", Head(due)))
  BY DEF ThreadTypeOK, Repeat
<1>2. /\ Head(due) \in Alerts /\ Len(due) \in Nat /\ Len(due) >= 1 /\ Head(due) = due[1]
      /\ Len(due') = Len(due) - 1 /\ \A i \in 1..Len(due') : due'[i] = due[i + 1]
  BY <1>1, HeadTailProperties, EmptySeq, LenProperties
<1>3. \A i \in 1..Len(due') : i + 1 \in 1..Len(due) /\ i + 1 # 1
  BY <1>2
<1>4. InDue(Head(due)) /\ ~InDue(bumping)'
  BY <1>1, <1>2, <1>3 DEF InDue, Fetching
<1>5. \A i, j \in 1..Len(due') : due'[i] = due'[j] => i = j
  <2> SUFFICES ASSUME NEW i \in 1..Len(due'), NEW j \in 1..Len(due'), due'[i] = due'[j] PROVE i = j
    OBVIOUS
  <2>1. i + 1 = j + 1
    BY <1>2, <1>3 DEF Fetching
  <2>2. QED
    BY <1>2, <2>1
<1>6. \A a : InDue(a)' => InDue(a)
  BY <1>2, <1>3 DEF InDue
<1>7. QED
  BY <1>1, <1>2, <1>4, <1>5, <1>6

\* Only the tick takes alerts up or lets go of them.
LEMMA DueKept ==
    ASSUME [ThreadNext]_threadVars, ~Pass, ~BreakOff
    PROVE  UNCHANGED <<stage, due, bumping>>
BY DEF ThreadNext, Wait, Post, Welcome, Raise, Visit, Ask, Respond, ReceivedAll,
       Received, Acknowledge, Clear, threadVars, passVars

\* What a pass still has to repeat stays due while it works.
LEMMA FetchingStep ==
    ASSUME ThreadTypeOK, Shape, Fetching, [ThreadNext]_threadVars
    PROVE  Fetching'
<1>1. CASE StartPass
  <2>1. due' = Due /\ bumping' = Nobody /\ stage' = "repeats" /\ thread \in Seq(Messages)
    BY <1>1 DEF StartPass, Fetching, ThreadTypeOK, Messages
  <2>2. QED
    BY <2>1, DueFetched DEF Fetched, Fetching
<1>2. CASE Repeat
  <2>1. bumping' = Head(due) /\ ~InDue(bumping)' /\ \A i, j \in 1..Len(due') : due'[i] = due'[j] => i = j
    BY <1>2, HeadGone
  <2>2. stage' = "repeats"
    BY <1>2 DEF Repeat, Fetching
  <2>3. QED
    BY <2>1, <2>2 DEF Fetching, InDue
<1>3. CASE Bump
  BY <1>3 DEF Bump, Fetching, InDue
<1>7. CASE BeginDispatch \/ EndRepeats
  <2>1. due = <<>> /\ bumping = Nobody /\ UNCHANGED <<due, bumping>>
    BY <1>7 DEF BeginDispatch, EndRepeats, Fetching
  <2>2. QED
    BY <2>1 DEF Fetching, InDue
<1>4. CASE BreakOff
  <2>1. due' = <<>> /\ bumping' = Nobody
    BY <1>4 DEF BreakOff
  <2>2. QED
    BY <2>1 DEF Fetching, InDue
<1>5. CASE UNCHANGED <<stage, due, bumping>>
  BY <1>5 DEF Fetching, InDue
<1>6. QED
  BY <1>1, <1>2, <1>3, <1>4, <1>5, <1>7, DueKept DEF Pass

-----------------------------------------------------------------------------
\* Nothing that is said about an alert is still unacknowledged ...
Silent(a) == \A n \in 1..Len(thread) : thread[n].of = a => thread[n].acked

\* ... but one repeat: that of a pass which had fetched the alert before it was
\* received, and has not got it before it any more.
Quiet(a) ==
    /\ InDue(a) => Silent(a)
    /\ \A m, n \in 1..Len(thread) : /\ thread[m].of = a /\ ~thread[m].acked
                                    /\ thread[n].of = a /\ ~thread[n].acked
                                    => m = n
    /\ \A n \in 1..Len(thread) : thread[n].of = a /\ ~thread[n].acked => thread[n].role # "alert"

Stopped == \A a \in stopped : Quiet(a)

\* A message about something else does not disturb the quiet.
LEMMA QuietAdded ==
    ASSUME ThreadTypeOK, NEW m \in Messages, Add(m), NEW a \in Alerts, Quiet(a),
           \/ m.of # a
           \/ m.role # "alert" /\ Silent(a) /\ ~InDue(a)',
           InDue(a)' => InDue(a)
    PROVE  Quiet(a)'
<1>1. thread \in Seq(Messages) /\ Len(thread) <= Keep /\ Len(thread) \in Nat
  BY LenProperties DEF ThreadTypeOK, Messages
<1>2. PICK gone \in {0, 1} :
         /\ Len(thread') = Len(thread) + 1 - gone
         /\ \A n \in 1..Len(thread') : thread'[n] = IF n = Len(thread') THEN m ELSE thread[n + gone]
  BY <1>1, Added
<1>3. \A n \in 1..Len(thread') : n # Len(thread') => n + gone \in 1..Len(thread) /\ thread'[n] = thread[n + gone]
  BY <1>1, <1>2
<1>4. Len(thread') \in Nat /\ \A n \in 1..Len(thread') : n = Len(thread') => thread'[n] = m
  BY <1>1, <1>2
<1>5. CASE m.of # a
  <2>1. ASSUME NEW n \in 1..Len(thread'), thread'[n].of = a
        PROVE  n + gone \in 1..Len(thread) /\ thread'[n] = thread[n + gone]
    BY <1>3, <1>4, <1>5, <2>1
  <2>2. InDue(a)' => Silent(a)'
    BY <2>1 DEF Quiet, Silent
  <2>3. ASSUME NEW i \in 1..Len(thread'), NEW j \in 1..Len(thread'),
               thread'[i].of = a, ~thread'[i].acked, thread'[j].of = a, ~thread'[j].acked
        PROVE  i = j
    <3>1. i + gone = j + gone
      BY <2>1, <2>3 DEF Quiet
    <3>2. QED
      BY <1>4, <3>1
  <2>4. ASSUME NEW n \in 1..Len(thread'), thread'[n].of = a, ~thread'[n].acked PROVE thread'[n].role # "alert"
    BY <2>1, <2>4 DEF Quiet
  <2>5. QED
    BY <2>2, <2>3, <2>4 DEF Quiet
<1>6. CASE m.role # "alert" /\ Silent(a) /\ ~InDue(a)'
  <2>1. ASSUME NEW n \in 1..Len(thread'), thread'[n].of = a, ~thread'[n].acked
        PROVE  n = Len(thread') /\ thread'[n] = m
    BY <1>3, <1>4, <1>6, <2>1 DEF Silent
  <2>2. QED
    BY <1>6, <2>1 DEF Quiet
<1>7. QED
  BY <1>5, <1>6

\* Every step keeps what is stopped quiet.
LEMMA StoppedStep ==
    ASSUME ThreadTypeOK, Shape, Fetching, Stopped, [ThreadNext]_threadVars
    PROVE  Stopped'
<1>0. /\ thread \in Seq(Messages) /\ DOMAIN thread = 1..Len(thread) /\ Len(thread) \in Nat
      /\ stopped \subseteq Alerts /\ due \in Seq(Alerts)
  BY LenProperties DEF ThreadTypeOK, Messages
<1>1. ASSUME NEW b \in Alerts, NEW clock \in {NextNag, Never}, Raise(b, clock) PROVE Stopped'
  <2>1. Add(Message("alert", b)) /\ stopped' = stopped \ {b} /\ due' = due
    BY <1>1 DEF Raise, passVars
  <2>2. ASSUME NEW a \in stopped' PROVE Quiet(a)'
    <3>1. a \in Alerts /\ a # b /\ Quiet(a) /\ (InDue(a)' => InDue(a))
      BY <1>0, <2>1, <2>2 DEF Stopped, InDue
    <3>2. QED
      BY <2>1, <3>1, Worded, QuietAdded
  <2>3. QED
    BY <2>2 DEF Stopped
<1>2. CASE StartPass
  <2>1. due' = Due /\ UNCHANGED <<thread, stopped>>
    BY <1>2 DEF StartPass, historyVars
  <2>2. ASSUME NEW a \in stopped PROVE ~InDue(a)'
    <3>1. SUFFICES ASSUME NEW i \in 1..Len(due'), due'[i] = a PROVE FALSE
      BY DEF InDue
    <3>2. \E n \in 1..Len(thread) : thread[n].of = a /\ WantsRepeat(thread[n])
      BY <1>0, <2>1, <3>1, DueFetched DEF Fetched
    <3>3. QED
      BY <3>2 DEF WantsRepeat, Stopped, Quiet
  <2>3. QED
    BY <2>1, <2>2 DEF Stopped, Quiet
<1>3. CASE Repeat
  <2>1. /\ Head(due) \in Alerts /\ bumping' = Head(due) /\ Add(Message("repeat", Head(due)))
        /\ InDue(Head(due)) /\ ~InDue(bumping)' /\ \A a : InDue(a)' => InDue(a)
    BY <1>3, HeadGone
  <2>2. stopped' = stopped
    BY <1>3 DEF Repeat
  <2>3. ASSUME NEW a \in stopped' PROVE Quiet(a)'
    <3>1. a \in Alerts /\ Quiet(a)
      BY <1>0, <2>2, <2>3 DEF Stopped
    <3>2. CASE a # Head(due)
      BY <2>1, <3>1, <3>2, Worded, QuietAdded
    <3>3. CASE a = Head(due)
      <4>1. Silent(a) /\ ~InDue(a)'
        BY <2>1, <3>1, <3>3 DEF Quiet, InDue
      <4>2. Message("repeat", Head(due)) \in Messages /\ Message("repeat", Head(due)).role # "alert"
        BY <2>1, Worded
      <4>3. QED
        BY <2>1, <3>1, <4>1, <4>2, QuietAdded
    <3>4. QED
      BY <3>2, <3>3
  <2>4. QED
    BY <2>3 DEF Stopped
<1>4. ASSUME \/ BeginDispatch \/ Wait \/ Bump \/ EndRepeats
             \/ BreakOff \/ Visit \/ UNCHANGED threadVars
      PROVE  Stopped'
  <2>1. UNCHANGED <<thread, stopped>> /\ (due' = due \/ due' = <<>>)
    BY <1>4 DEF BeginDispatch, Wait, Bump, EndRepeats, BreakOff, Visit, threadVars, passVars, historyVars
  <2>2. \A a : InDue(a)' => InDue(a)
    BY <2>1 DEF InDue
  <2>3. QED
    BY <2>1, <2>2 DEF Stopped, Quiet, Silent
<1>5. ASSUME Ask \/ \E request \in {"greet", "answer"} : Respond(request) PROVE Stopped'
  <2>1. PICK role \in {"user", "bot"} : Add(Message(role, Nobody))
    BY <1>5 DEF Ask, Respond
  <2>2. UNCHANGED <<due, stopped>>
    BY <1>5 DEF Ask, Respond, passVars, historyVars
  <2>3. ASSUME NEW a \in stopped' PROVE Quiet(a)'
    <3>1. a \in Alerts /\ Quiet(a) /\ (InDue(a)' => InDue(a))
      BY <1>0, <2>2, <2>3 DEF Stopped, InDue
    <3>2. Message(role, Nobody) \in Messages /\ Message(role, Nobody).of # a
      BY <3>1, Worded
    <3>3. QED
      BY <2>1, <3>1, <3>2, QuietAdded
  <2>4. QED
    BY <2>3 DEF Stopped
<1>6. ASSUME ReceivedAll \/ \E n \in DOMAIN thread : Received(n) PROVE Stopped'
  <2>1. PICK ns \in SUBSET (1..Len(thread)) :
           /\ Acknowledge(ns)
           /\ \A n \in ns : /\ thread[n].of \in Alerts
                            /\ \A m \in 1..Len(thread) : thread[m].of = thread[n].of => m \in ns
    BY <1>6, Named
  <2>2. /\ Len(thread') = Len(thread)
        /\ \A n \in 1..Len(thread) : /\ thread'[n].of = thread[n].of /\ thread'[n].role = thread[n].role
                                     /\ thread'[n].acked <=> thread[n].acked \/ n \in ns
        /\ stopped' = stopped \cup { thread[n].of : n \in ns } /\ due' = due
    BY <2>1, Acknowledged
  <2>3. ASSUME NEW a \in stopped' PROVE Quiet(a)'
    <3>1. CASE a \in stopped
      <4>1. Quiet(a) /\ (InDue(a)' => InDue(a))
        BY <2>2, <3>1 DEF Stopped, InDue
      <4>2. QED
        BY <2>2, <4>1 DEF Quiet, Silent
    <3>2. CASE a \notin stopped
      <4>1. PICK k \in ns : a = thread[k].of
        BY <2>2, <2>3, <3>2
      <4>2. \A n \in 1..Len(thread') : thread'[n].of = a => thread'[n].acked
        BY <2>1, <2>2, <4>1
      <4>3. QED
        BY <4>2 DEF Quiet, Silent
    <3>3. QED
      BY <3>1, <3>2
  <2>4. QED
    BY <2>3 DEF Stopped
<1>7. CASE Clear
  <2>1. thread' = <<>>
    BY <1>7 DEF Clear
  <2>2. QED
    BY <2>1 DEF Stopped, Quiet, Silent
<1>8. QED
  BY <1>1, <1>2, <1>3, <1>4, <1>5, <1>6, <1>7 DEF ThreadNext, Pass, Post, Welcome

-----------------------------------------------------------------------------
Rooted(a) == \E n \in 1..Len(thread) : thread[n].of = a /\ thread[n].role = "alert"

\* The next repeat of an alert is an interval after the clock of its last message,
\* unless a pass ended before it set it.
OnTime(a) ==
    /\ InDue(a) => since[a] = Interval
    /\ Rooted(a) /\ nag[a] # Never /\ a # bumping => nag[a] + since[a] >= Interval

Spaced == \A a \in Alerts \ torn : OnTime(a)

\* A repeat that is not pushed out yet is as old as the pass, at least by its clock.
Repeated == bumping # Nobody => since[bumping] >= Capped(lag)

\* A message that raises no alert brings none into the thread.
LEMMA RootedAdded ==
    ASSUME ThreadTypeOK, NEW m \in Messages, Add(m), NEW a \in Alerts,
           m.of # a \/ m.role # "alert"
    PROVE  Rooted(a)' => Rooted(a)
<1>1. thread \in Seq(Messages) /\ Len(thread) <= Keep /\ Len(thread) \in Nat
  BY LenProperties DEF ThreadTypeOK, Messages
<1>2. PICK gone \in {0, 1} :
         /\ Len(thread') = Len(thread) + 1 - gone
         /\ \A n \in 1..Len(thread') : thread'[n] = IF n = Len(thread') THEN m ELSE thread[n + gone]
  BY <1>1, Added
<1>3. \A n \in 1..Len(thread') : n # Len(thread') => n + gone \in 1..Len(thread) /\ thread'[n] = thread[n + gone]
  BY <1>1, <1>2
<1>4. Len(thread') \in Nat /\ \A n \in 1..Len(thread') : n = Len(thread') => thread'[n] = m
  BY <1>1, <1>2
<1>5. QED
  BY <1>3, <1>4 DEF Rooted

\* Every step keeps the clock of an alert and the time since its last message an
\* interval together.
LEMMA SpacedStep ==
    ASSUME ThreadTypeOK, Shape, Fetching, Repeated, Spaced, [ThreadNext]_threadVars
    PROVE  Spaced'
<1>0. /\ thread \in Seq(Messages) /\ DOMAIN thread = 1..Len(thread) /\ Len(thread) \in Nat
      /\ nag \in [Alerts -> 0..Interval \cup {Never}] /\ since \in [Alerts -> 0..Interval]
      /\ due \in Seq(Alerts) /\ bumping \in Alerts \cup {Nobody} /\ torn \subseteq Alerts
  BY LenProperties DEF ThreadTypeOK, Messages
<1>1. ASSUME NEW b \in Alerts, NEW clock \in {NextNag, Never}, Raise(b, clock) PROVE Spaced'
  <2>1. /\ Add(Message("alert", b)) /\ torn' = torn \ {b} /\ due' = due /\ bumping' = bumping
        /\ nag' = [nag EXCEPT ![b] = clock] /\ since' = [since EXCEPT ![b] = Capped(lag)]
        /\ ~InDue(b) /\ b # bumping /\ lag' = lag
    <3>1. DOMAIN due = 1..Len(due)
      BY <1>0, LenProperties
    <3>2. QED
      BY <1>1, <3>1 DEF Raise, passVars, Range, InDue
  <2>2. ASSUME NEW a \in Alerts \ torn' PROVE OnTime(a)'
    <3>1. CASE a = b
      <4>1. ~InDue(a)' /\ nag'[a] = clock /\ since'[a] = Capped(lag) /\ a # bumping'
        BY <1>0, <2>1, <3>1 DEF InDue
      <4>2. nag'[a] # Never => nag'[a] + since'[a] >= Interval
        BY <4>1, NextNagType
      <4>3. QED
        BY <4>1, <4>2 DEF OnTime
    <3>2. CASE a # b
      <4>1. OnTime(a) /\ nag'[a] = nag[a] /\ since'[a] = since[a] /\ (InDue(a)' => InDue(a))
        BY <1>0, <2>1, <2>2, <3>2 DEF Spaced, InDue
      <4>2. Rooted(a)' => Rooted(a)
        BY <2>1, <2>2, <3>2, Worded, RootedAdded
      <4>3. QED
        BY <2>1, <4>1, <4>2 DEF OnTime
    <3>3. QED
      BY <3>1, <3>2
  <2>3. QED
    BY <2>2 DEF Spaced
<1>2. CASE StartPass
  <2>1. due' = Due /\ bumping = Nobody /\ UNCHANGED <<thread, bumping, nag, since, torn>>
    BY <1>2 DEF StartPass, Fetching, historyVars
  <2>2. ASSUME NEW a \in Alerts \ torn' PROVE OnTime(a)'
    <3>1. OnTime(a) /\ (Rooted(a)' => Rooted(a)) /\ a # bumping
      BY <2>1, <2>2, ThreadConstants DEF Spaced, Rooted
    <3>2. nag[a] \in 0..Interval \cup {Never} /\ since[a] \in 0..Interval
      BY <1>0, <2>1, <2>2
    <3>3. InDue(a)' => since'[a] = Interval
      <4>1. SUFFICES ASSUME NEW i \in 1..Len(due'), due'[i] = a PROVE since'[a] = Interval
        BY DEF InDue
      <4>2. \E n \in 1..Len(thread) : thread[n].of = a /\ WantsRepeat(thread[n])
        BY <1>0, <2>1, <4>1, DueFetched DEF Fetched
      <4>3. Rooted(a) /\ nag[a] = 0
        BY <4>2 DEF Rooted, WantsRepeat
      <4>4. nag[a] # Never /\ nag[a] + since[a] >= Interval
        BY <3>1, <4>3, ThreadConstants DEF OnTime
      <4>5. QED
        BY <2>1, <3>2, <4>3, <4>4, ThreadConstants
    <3>4. QED
      BY <2>1, <3>1, <3>3 DEF OnTime
  <2>3. QED
    BY <2>2 DEF Spaced
<1>11. ASSUME NEW minutes \in Nat, Elapse(minutes), UNCHANGED <<thread, due, bumping, torn>>
       PROVE  Spaced'
  <2>1. ASSUME NEW a \in Alerts \ torn' PROVE OnTime(a)'
    <3>1. OnTime(a) /\ (Rooted(a)' => Rooted(a)) /\ (InDue(a)' => InDue(a))
      BY <1>11, <2>1 DEF Spaced, Rooted, InDue
    <3>2. /\ nag'[a] = Never <=> nag[a] = Never
          /\ nag[a] # Never /\ nag[a] + since[a] >= Interval => nag'[a] + since'[a] >= Interval
          /\ since[a] = Interval => since'[a] = Interval
      BY <1>11, <2>1, Elapsed
    <3>3. QED
      BY <1>11, <3>1, <3>2 DEF OnTime
  <2>2. QED
    BY <2>1 DEF Spaced
<1>12. CASE BeginDispatch
  BY <1>11, <1>12, ThreadConstants DEF BeginDispatch
<1>13. CASE Wait
  BY <1>11, <1>13 DEF Wait
<1>14. CASE EndRepeats
  <2>1. bumping = Nobody /\ UNCHANGED <<thread, nag, due, bumping, torn, since>>
    BY <1>14 DEF EndRepeats, historyVars
  <2>2. QED
    BY <2>1, ThreadConstants DEF Spaced, OnTime, InDue, Rooted
<1>3. CASE Repeat
  <2>1. /\ Head(due) \in Alerts /\ bumping' = Head(due) /\ bumping = Nobody
        /\ Add(Message("repeat", Head(due)))
        /\ ~InDue(bumping)' /\ \A a : InDue(a)' => InDue(a)
    BY <1>3, HeadGone
  <2>2. since' = [since EXCEPT ![Head(due)] = Capped(lag)] /\ UNCHANGED <<nag, torn>>
    BY <1>3 DEF Repeat
  <2>3. ASSUME NEW a \in Alerts \ torn' PROVE OnTime(a)'
    <3>1. CASE a = Head(due)
      <4>1. ~InDue(a)' /\ a = bumping'
        BY <2>1, <3>1 DEF InDue
      <4>2. QED
        BY <4>1 DEF OnTime
    <3>2. CASE a # Head(due)
      <4>1. OnTime(a) /\ since'[a] = since[a] /\ nag'[a] = nag[a] /\ a # bumping /\ (InDue(a)' => InDue(a))
        BY <1>0, <2>1, <2>2, <2>3, <3>2, ThreadConstants DEF Spaced
      <4>2. Rooted(a)' => Rooted(a)
        BY <2>1, <2>3, <3>2, Worded, RootedAdded
      <4>3. QED
        BY <4>1, <4>2 DEF OnTime
    <3>3. QED
      BY <3>1, <3>2
  <2>4. QED
    BY <2>3 DEF Spaced
<1>4. CASE Bump
  <2>1. /\ bumping # Nobody /\ bumping' = Nobody /\ torn' = torn \ {bumping} /\ UNCHANGED <<thread, due, since>>
        /\ nag' = IF Root(bumping) = {} THEN nag ELSE [nag EXCEPT ![bumping] = NextNag]
    BY <1>4 DEF Bump
  <2>2. ASSUME NEW a \in Alerts \ torn' PROVE OnTime(a)'
    <3>1. /\ since'[a] = since[a] /\ since[a] \in 0..Interval
          /\ (Rooted(a)' => Rooted(a)) /\ (InDue(a)' => InDue(a))
      BY <1>0, <2>1, <2>2 DEF Rooted, InDue
    <3>2. CASE a = bumping
      <4>1. ~InDue(a)
        BY <2>1, <3>2 DEF Fetching
      <4>2. Rooted(a) => nag'[a] = NextNag
        <5>1. Rooted(a) => Root(a) # {}
          BY <1>0 DEF Rooted, Root, About
        <5>2. QED
          BY <1>0, <2>1, <3>2, <5>1
      <4>3. since[a] >= Capped(lag)
        BY <2>1, <3>2 DEF Repeated
      <4>4. Rooted(a)' => nag'[a] + since'[a] >= Interval
        BY <3>1, <4>2, <4>3, NextNagType, ThreadConstants
      <4>5. QED
        BY <3>1, <4>1, <4>4 DEF OnTime
    <3>3. CASE a # bumping
      <4>1. OnTime(a) /\ nag'[a] = nag[a]
        BY <1>0, <2>1, <2>2, <3>3 DEF Spaced
      <4>2. QED
        BY <3>1, <3>3, <4>1 DEF OnTime
    <3>4. QED
      BY <3>2, <3>3
  <2>3. QED
    BY <2>2 DEF Spaced
<1>5. CASE BreakOff
  <2>1. /\ torn' = torn \cup ({bumping} \ {Nobody}) /\ due' = <<>> /\ bumping' = Nobody
        /\ UNCHANGED <<thread, nag, since>>
    BY <1>5 DEF BreakOff
  <2>2. ASSUME NEW a \in Alerts \ torn' PROVE OnTime(a)'
    <3>1. OnTime(a) /\ a # bumping /\ ~InDue(a)' /\ (Rooted(a)' => Rooted(a))
      BY <2>1, <2>2, ThreadConstants DEF Spaced, InDue, Rooted
    <3>2. QED
      BY <2>1, <3>1 DEF OnTime
  <2>3. QED
    BY <2>2 DEF Spaced
<1>6. ASSUME Ask \/ \E request \in {"greet", "answer"} : Respond(request) PROVE Spaced'
  <2>1. PICK role \in {"user", "bot"} : Add(Message(role, Nobody))
    BY <1>6 DEF Ask, Respond
  <2>2. UNCHANGED <<due, bumping, torn, nag, since>>
    BY <1>6 DEF Ask, Respond, passVars, historyVars
  <2>3. ASSUME NEW a \in Alerts \ torn' PROVE OnTime(a)'
    <3>1. OnTime(a) /\ (InDue(a)' => InDue(a))
      BY <2>2, <2>3 DEF Spaced, InDue
    <3>2. Message(role, Nobody) \in Messages /\ Message(role, Nobody).of # a
      BY <2>3, Worded
    <3>3. Rooted(a)' => Rooted(a)
      BY <2>1, <2>3, <3>2, RootedAdded
    <3>4. QED
      BY <2>2, <3>1, <3>3 DEF OnTime
  <2>4. QED
    BY <2>3 DEF Spaced
<1>7. ASSUME ReceivedAll \/ \E n \in DOMAIN thread : Received(n) PROVE Spaced'
  <2>1. PICK ns \in SUBSET (1..Len(thread)) : Acknowledge(ns)
    BY <1>7, Named
  <2>2. /\ Len(thread') = Len(thread)
        /\ \A n \in 1..Len(thread) : thread'[n].of = thread[n].of /\ thread'[n].role = thread[n].role
        /\ \A a \in Alerts : nag'[a] \in {nag[a], Never}
        /\ UNCHANGED <<due, bumping, torn, since>>
    BY <2>1, Acknowledged
  <2>3. ASSUME NEW a \in Alerts \ torn' PROVE OnTime(a)'
    <3>1. OnTime(a) /\ (InDue(a)' => InDue(a)) /\ (Rooted(a)' => Rooted(a))
      BY <2>2, <2>3 DEF Spaced, InDue, Rooted
    <3>2. QED
      BY <2>2, <2>3, <3>1 DEF OnTime
  <2>4. QED
    BY <2>3 DEF Spaced
<1>8. CASE Clear
  <2>1. thread' = <<>> /\ UNCHANGED <<nag, due, bumping, torn, since>>
    BY <1>8 DEF Clear, passVars
  <2>2. QED
    BY <2>1 DEF Spaced, OnTime, InDue, Rooted
<1>9. ASSUME Visit \/ UNCHANGED threadVars PROVE Spaced'
  <2>1. UNCHANGED <<thread, nag, due, bumping, torn, since>>
    BY <1>9 DEF Visit, threadVars, passVars, historyVars
  <2>2. QED
    BY <2>1 DEF Spaced, OnTime, InDue, Rooted
<1>10. QED
  BY <1>1, <1>2, <1>3, <1>4, <1>5, <1>6, <1>7, <1>8, <1>9, <1>12, <1>13, <1>14
     DEF ThreadNext, Pass, Post, Welcome

\* Every step keeps the age of the repeat that the pass has not pushed out.
LEMMA RepeatedStep ==
    ASSUME ThreadTypeOK, Fetching, Repeated, [ThreadNext]_threadVars
    PROVE  Repeated'
<1>0. /\ since \in [Alerts -> 0..Interval] /\ bumping \in Alerts \cup {Nobody} /\ lag \in Nat
      /\ Capped(lag) \in 0..Interval
  BY ThreadConstants, NextNagType DEF ThreadTypeOK
<1>1. CASE bumping' = Nobody
  BY <1>1 DEF Repeated
<1>2. CASE bumping' = bumping /\ lag' = lag /\ since'[bumping] = since[bumping]
  BY <1>2 DEF Repeated, Capped
<1>3. ASSUME NEW a \in Alerts, NEW clock, Raise(a, clock) PROVE Repeated'
  <2>1. a # bumping /\ bumping' = bumping /\ lag' = lag /\ since' = [since EXCEPT ![a] = Capped(lag)]
    BY <1>3 DEF Raise, passVars
  <2>2. bumping # Nobody => since'[bumping] = since[bumping]
    BY <1>0, <2>1
  <2>3. QED
    BY <1>1, <1>2, <2>1, <2>2
<1>4. CASE Repeat
  <2>1. bumping' = Head(due) /\ Head(due) \in Alerts
    BY <1>4, HeadGone
  <2>2. since'[Head(due)] = Capped(lag) /\ lag' = lag
    BY <1>0, <1>4, <2>1 DEF Repeat
  <2>3. QED
    BY <1>0, <2>1, <2>2 DEF Repeated, Capped
<1>5. CASE Wait
  <2>1. Elapse(1) /\ lag' = lag + 1 /\ bumping' = bumping
    BY <1>5 DEF Wait
  <2>2. \A a \in Alerts : since[a] >= Capped(lag) => since'[a] >= Capped(lag + 1)
    BY <1>0, <2>1, Elapsed
  <2>3. bumping # Nobody => since'[bumping] >= Capped(lag + 1)
    BY <1>0, <2>2 DEF Repeated
  <2>4. QED
    BY <2>1, <2>3 DEF Repeated, Capped
<1>6. ASSUME BeginDispatch \/ StartPass \/ Bump \/ EndRepeats \/ BreakOff PROVE bumping' = Nobody
  BY <1>6 DEF BeginDispatch, StartPass, Bump, EndRepeats, BreakOff, Fetching
<1>7. ASSUME \/ Visit \/ Ask \/ ReceivedAll \/ Clear \/ UNCHANGED threadVars
             \/ \E request \in {"greet", "answer"} : Respond(request)
             \/ \E n \in DOMAIN thread : Received(n)
      PROVE  bumping' = bumping /\ lag' = lag /\ since' = since
  BY <1>7 DEF Visit, Ask, ReceivedAll, Clear, Respond, Received, Acknowledge, threadVars, passVars, historyVars
<1>8. QED
  BY <1>1, <1>2, <1>3, <1>4, <1>5, <1>6, <1>7 DEF ThreadNext, Pass, Post, Welcome

-----------------------------------------------------------------------------
ThreadInv == ThreadTypeOK /\ Shape /\ Fetching /\ Stopped /\ Repeated /\ Spaced

\* The invariant of the thread holds in every state.
LEMMA ThreadInvAlways == ThreadSpec => []ThreadInv
<1>1. ThreadInit => ThreadInv
  <2> SUFFICES ASSUME ThreadInit PROVE ThreadInv
    OBVIOUS
  <2>1. thread = <<>> /\ due = <<>> /\ bumping = Nobody /\ stopped = {}
    BY DEF ThreadInit
  <2>2. Shape /\ Fetching /\ Stopped /\ Repeated /\ Spaced
    BY <2>1 DEF Shape, Fetching, Stopped, Repeated, Spaced, OnTime, InDue, Rooted
  <2>3. QED
    BY <2>2, ThreadTypeInit DEF ThreadInv
<1>2. ThreadInv /\ [ThreadNext]_threadVars => ThreadInv'
  BY ThreadTypeStep, ShapeStep, FetchingStep, StoppedStep, RepeatedStep, SpacedStep DEF ThreadInv
<1>3. QED
  BY <1>1, <1>2, PTL DEF ThreadSpec

\* The thread and everything the pass holds are well typed, and the thread
\* never exceeds _CHAT_KEEP, for any alerts, limit and interval
\* (add_chat_message).
THEOREM ThreadTypeCorrect == ThreadSpec => []ThreadTypeOK
<1>1. ThreadInv => ThreadTypeOK
  BY DEF ThreadInv
<1>2. QED
  BY <1>1, ThreadInvAlways, PTL

\* Received or cleared, an alert is heard of once more at most, for any number
\* of alerts and any limit (ack_chat_message, due_nags, bump_nag).
THEOREM OneLateRepeatHolds == ThreadSpec => []OneLateRepeat
<1>1. ThreadInv => OneLateRepeat
  <2> SUFFICES ASSUME ThreadInv, NEW a \in stopped
               PROVE  Cardinality({ n \in About(a) : ~thread[n].acked }) <= 1
    BY DEF OneLateRepeat
  <2> DEFINE late == { n \in About(a) : ~thread[n].acked }
  <2>1. DOMAIN thread = 1..Len(thread)
    BY LenProperties DEF ThreadInv, ThreadTypeOK
  <2>2. \A m, n \in late : m = n
    BY <2>1 DEF About, ThreadInv, Stopped, Quiet
  <2> HIDE DEF late
  <2>3. CASE late = {}
    <3>1. Cardinality(late) = 0
      BY <2>3, FS_EmptySet
    <3>2. QED
      BY <3>1 DEF late
  <2>4. CASE late # {}
    <3>1. PICK n : n \in late
      BY <2>4
    <3>2. late = {n}
      BY <2>2, <3>1
    <3>3. Cardinality(late) = 1
      BY <3>2, FS_Singleton
    <3>4. QED
      BY <3>3 DEF late
  <2>5. QED
    BY <2>3, <2>4
<1>2. QED
  BY <1>1, ThreadInvAlways, PTL

\* A repeat comes an interval after the clock of the stage that posted the last
\* message about its alert, for any interval, any time between two ticks and
\* however long a stage takes (dispatch_due_reminders, run_nags).
THEOREM RepeatsSpacedHolds == ThreadSpec => RepeatsSpaced
<1>1. ThreadInv /\ [ThreadNext]_threadVars =>
        [\A a \in Alerts \ torn : bumping' = a /\ bumping # a => since[a] >= Interval]_threadVars
  <2> SUFFICES ASSUME ThreadInv, [ThreadNext]_threadVars, NEW a \in Alerts \ torn, bumping' = a, bumping # a
               PROVE  since[a] >= Interval
    OBVIOUS
  <2>1. Repeat
    <3>1. a # Nobody /\ bumping' # bumping
      BY ThreadConstants
    <3>2. ~BeginDispatch /\ ~StartPass /\ ~Bump /\ ~EndRepeats /\ ~BreakOff
      BY <3>1 DEF BeginDispatch, StartPass, Bump, EndRepeats, BreakOff
    <3>3. QED
      BY <3>1, <3>2, DueKept DEF Pass
  <2>2. InDue(a)
    BY <2>1, HeadGone DEF ThreadInv
  <2>3. since[a] = Interval
    BY <2>2 DEF ThreadInv, Spaced, OnTime
  <2>4. QED
    BY <2>3, ThreadConstants
<1>2. QED
  BY <1>1, ThreadInvAlways, PTL DEF ThreadSpec, RepeatsSpaced

-----------------------------------------------------------------------------
\* What the assumption says of each constant.
LEMMA ClassConstants ==
    /\ Slots \subseteq Nat /\ IsFiniteSet(Slots) /\ DayLength \in Nat /\ DayLength >= 1
    /\ Lookahead \in Nat /\ Horizon \in Nat /\ MaxEdits \in Nat
    /\ Cardinality(Slots) \in Nat /\ Places = 1..Cardinality(Slots)
    /\ \A t \in Nat : Day(t) \in Nat
<1>1. /\ Slots \subseteq Nat /\ IsFiniteSet(Slots) /\ DayLength \in Nat /\ DayLength >= 1
      /\ Lookahead \in Nat /\ Horizon \in Nat /\ MaxEdits \in Nat
  BY ClassAssumption DEF ClassAssumption
<1>2. Cardinality(Slots) \in Nat /\ Places = 1..Cardinality(Slots)
  BY <1>1, FS_CardinalityType DEF Places
<1>3. \A t \in Nat : Day(t) \in Nat
  BY <1>1 DEF Day
<1>4. QED
  BY <1>1, <1>2, <1>3

\* At most one class a slot.
Single(S) == \A c, d \in S : c.slot = d.slot => c = d
SlotsOf(S) == { c.slot : c \in S }

\* There are as many classes as slots with a class.
LEMMA SlotsCount ==
    ASSUME NEW S \in SUBSET Cells, Single(S)
    PROVE  IsFiniteSet(S) /\ Cardinality(S) = Cardinality(SlotsOf(S)) /\ Cardinality(S) \in 0..Cardinality(Slots)
<1> DEFINE f == [c \in S |-> c.slot]
<1>1. \A c \in S : c.slot \in Slots
  BY DEF Cells
<1>2. f \in Injection(S, Slots)
  BY <1>1 DEF Single, Injection, IsInjective
<1>3. IsFiniteSet(S) /\ Cardinality(S) <= Cardinality(Slots)
  BY <1>2, ClassConstants, FS_Injection
<1>4. f \in Surjection(S, SlotsOf(S)) /\ f \in Injection(S, SlotsOf(S))
  BY DEF Single, Injection, IsInjective, Surjection, SlotsOf
<1>5. Cardinality(SlotsOf(S)) = Cardinality(S)
  <2> HIDE DEF f
  <2>1. QED
    BY <1>3, <1>4, FS_Surjection
<1>6. QED
  BY <1>3, <1>5, ClassConstants, FS_CardinalityType

\* The place of a class among others is a matter of their slots.
LEMMA PlaceOfSlot ==
    ASSUME NEW S \in SUBSET Cells, Single(S), NEW c \in S
    PROVE  Place(c, S) = Cardinality({ s \in SlotsOf(S) : s <= c.slot })
<1> DEFINE T == { d \in S : d.slot <= c.slot }
<1>1. T \in SUBSET Cells /\ Single(T)
  BY DEF Single
<1>2. SlotsOf(T) = { s \in SlotsOf(S) : s <= c.slot }
  BY DEF SlotsOf
<1>3. Place(c, S) = Cardinality(T)
  BY ClassConstants DEF Place
<1> HIDE DEF T
<1>4. QED
  BY <1>1, <1>2, <1>3, SlotsCount

\* Ordered numbers the classes without a gap, and gives each its place.
LEMMA OrderedCells ==
    ASSUME NEW S \in SUBSET Cells, Single(S)
    PROVE  /\ \A n \in 1..Cardinality(S) : /\ Ordered(S)[n] \in S
                                           /\ Place(Ordered(S)[n], S) = n
           /\ \A c \in S : /\ Place(c, S) \in 1..Cardinality(S)
                           /\ Ordered(S)[Place(c, S)] = c
<1> DEFINE f == [c \in S |-> c.slot]
           nth(n) == CHOOSE c \in S : Place(c, S) = n
<1>1. f \in [S -> Nat] /\ \A c, d \in S : f[c] = f[d] => c = d
  BY ClassConstants DEF Cells, Single
<1>2. \A c \in S : Rank(c, S, f) = Place(c, S)
  <2> SUFFICES ASSUME NEW c \in S PROVE Rank(c, S, f) = Place(c, S)
    OBVIOUS
  <2>1. { d \in S : f[d] <= f[c] } = { d \in S : d.slot <= c.slot }
    OBVIOUS
  <2>2. QED
    BY <2>1, ClassConstants DEF Rank, Place
<1> HIDE DEF f
<1>3. /\ \A c \in S : Rank(c, S, f) \in 1..Cardinality(S)
      /\ \A c, d \in S : f[c] < f[d] => Rank(c, S, f) < Rank(d, S, f)
      /\ \A k \in 1..Cardinality(S) : \E c \in S : Rank(c, S, f) = k
  BY <1>1, SlotsCount, Ranks
<1>4. ASSUME NEW c \in S, NEW d \in S, Place(c, S) = Place(d, S) PROVE c = d
  <2>1. Rank(c, S, f) = Rank(d, S, f) /\ f[c] \in Nat /\ f[d] \in Nat
    BY <1>1, <1>2, <1>4
  <2>2. Rank(c, S, f) \in 1..Cardinality(S) /\ Cardinality(S) \in Nat
    BY <1>3, SlotsCount
  <2>3. ~(f[c] < f[d]) /\ ~(f[d] < f[c])
    BY <1>3, <2>1, <2>2
  <2>4. f[c] = f[d]
    BY <2>1, <2>3
  <2>5. QED
    BY <1>1, <2>4
<1>5. Ordered(S) = [n \in 1..Cardinality(S) |-> nth(n)]
  BY DEF Ordered
<1>6. ASSUME NEW n \in 1..Cardinality(S) PROVE nth(n) \in S /\ Place(nth(n), S) = n
  <2>1. \E c \in S : Place(c, S) = n
    BY <1>2, <1>3
  <2>2. QED
    BY <2>1
<1> HIDE DEF nth
<1>7. \A n \in 1..Cardinality(S) : Ordered(S)[n] = nth(n)
  BY <1>5
<1>8. \A c \in S : Place(c, S) \in 1..Cardinality(S)
  BY <1>2, <1>3
<1>9. \A c \in S : nth(Place(c, S)) = c
  BY <1>4, <1>6, <1>8
<1>10. QED
  BY <1>6, <1>7, <1>8, <1>9

\* Two arrangements of the same slots have the same slot at the same place.
LEMMA SameSlots ==
    ASSUME NEW S \in SUBSET Cells, Single(S),
           NEW T \in SUBSET Cells, Single(T), SlotsOf(S) = SlotsOf(T)
    PROVE  /\ Cardinality(S) = Cardinality(T)
           /\ \A n \in 1..Cardinality(S) : Ordered(S)[n].slot = Ordered(T)[n].slot
<1>1. Cardinality(S) = Cardinality(T)
  BY SlotsCount
<1>2. ASSUME NEW n \in 1..Cardinality(S) PROVE Ordered(S)[n].slot = Ordered(T)[n].slot
  <2> DEFINE c == Ordered(S)[n]
  <2>1. c \in S /\ Place(c, S) = n
    BY OrderedCells
  <2> HIDE DEF c
  <2>2. PICK d \in T : d.slot = c.slot
    BY <2>1 DEF SlotsOf
  <2>3. Place(d, T) = n
    BY <2>1, <2>2, PlaceOfSlot
  <2>4. Ordered(T)[n] = d
    BY <2>3, OrderedCells
  <2>5. QED
    BY <2>2, <2>4 DEF c
<1>3. QED
  BY <1>1, <1>2

-----------------------------------------------------------------------------
\* A finite set of numbers has a least element.
LEMMA Least ==
    ASSUME NEW S \in SUBSET Nat, IsFiniteSet(S), S # {}
    PROVE  \E x \in S : \A y \in S : x <= y
<1> DEFINE id == [x \in S |-> x]
<1>1. Cardinality(S) \in Nat /\ Cardinality(S) # 0
  BY FS_CardinalityType, FS_EmptySet
<1>2. PICK x \in S : Rank(x, S, id) = 1
  <2>1. id \in [S -> Nat] /\ \A c, d \in S : id[c] = id[d] => c = d
    OBVIOUS
  <2>2. 1 \in 1..Cardinality(S)
    BY <1>1
  <2> HIDE DEF id
  <2>3. \A k \in 1..Cardinality(S) : \E c \in S : Rank(c, S, id) = k
    BY <2>1, Ranks
  <2>4. QED
    BY <2>2, <2>3
<1> DEFINE T == { y \in S : y <= x }
<1>3. Cardinality(T) = 1 /\ x \in T
  <2>1. { d \in S : id[d] <= id[x] } = T
    OBVIOUS
  <2>2. x \in T
    OBVIOUS
  <2> HIDE DEF id, T
  <2>3. QED
    BY <1>2, <2>1, <2>2 DEF Rank
<1>4. IsFiniteSet(T)
  BY FS_Subset
<1> HIDE DEF T
<1>5. \A y \in T : y = x
  BY <1>3, <1>4, FS_Singleton
<1>6. QED
  BY <1>5 DEF T

\* The first of some days is one of them.
LEMMA FirstDay ==
    ASSUME NEW S \in SUBSET Days, S # {}
    PROVE  Min(S) \in S
<1> DEFINE f == [s \in Slots |-> Day(s)]
<1>1. f \in Surjection(Slots, Days)
  BY DEF Surjection, Days
<1> HIDE DEF f
<1>2. IsFiniteSet(Days)
  BY <1>1, ClassConstants, FS_Surjection
<1>3. IsFiniteSet(S) /\ S \in SUBSET Nat
  <2>1. IsFiniteSet(S)
    BY <1>2, FS_Subset
  <2>2. Days \subseteq Nat
    BY ClassConstants DEF Days
  <2>3. QED
    BY <2>1, <2>2
<1>4. \E x \in S : \A y \in S : x <= y
  BY <1>3, Least
<1>5. QED
  BY <1>4 DEF Min

\* What a pass holds when a stage begins.
LEMMA Stages ==
    /\ \A pc : /\ Enter(pc).pc = pc /\ Enter(pc).tabs = {} /\ Enter(pc).grid = {}
               /\ Enter(pc).next = 1 /\ Enter(pc).todo = {} /\ Enter(pc).row = <<>>
               /\ Enter(pc).worked = TRUE
    /\ AtRest = Enter("idle")
    /\ \A things : \A pc \in {"idle", "read", "expire", "claim", "send"} :
          Enter(pc) \in Passes(things)
<1>1. \A things : AtRest \in Passes(things)
  BY DEF AtRest, Passes
<1>2. /\ AtRest.pc = "idle" /\ AtRest.tabs = {} /\ AtRest.grid = {} /\ AtRest.next = 1
      /\ AtRest.todo = {} /\ AtRest.row = <<>> /\ AtRest.worked = TRUE
  BY DEF AtRest
<1>3. \A pc : /\ Enter(pc).pc = pc /\ Enter(pc).tabs = {} /\ Enter(pc).grid = {}
              /\ Enter(pc).next = 1 /\ Enter(pc).todo = {} /\ Enter(pc).row = <<>>
              /\ Enter(pc).worked = TRUE
  BY <1>1, <1>2 DEF Enter, Passes
<1>4. AtRest = Enter("idle")
  BY <1>1, <1>2 DEF Enter, Passes
<1>5. \A things : \A pc \in {"idle", "read", "expire", "claim", "send"} :
         Enter(pc) \in Passes(things)
  BY <1>1 DEF Enter, Passes
<1>6. QED
  BY <1>3, <1>4, <1>5

\* The timetable starts empty and well typed.
LEMMA ClassTypeInit == ASSUME ClassInit PROVE ClassTypeOK
<1>1. now = 0 /\ edits = 0 /\ 0 \in 0..Horizon /\ 0 \in 0..MaxEdits
  BY ClassConstants DEF ClassInit
<1>2. sheet \subseteq Cells /\ \A c, d \in sheet : c.slot = d.slot => c = d
  <2>1. PICK shown \in SUBSET Slots : sheet = { Class(s, FALSE) : s \in shown }
    BY DEF ClassInit
  <2>2. \A s \in Slots : Class(s, FALSE) \in Cells /\ Class(s, FALSE).slot = s
    BY DEF Class, Cells
  <2>3. \A c \in sheet : c \in Cells /\ c = Class(c.slot, FALSE)
    BY <2>1, <2>2
  <2>4. QED
    BY <2>3
<1>3. events \in [Places -> Cells \cup {None}]
  BY DEF ClassInit
<1>4. reminders \in [Keys -> [slot : Slots \cup {0}, status : {"NONE", "PENDING", "SENT", "FAILED"}]]
  BY DEF ClassInit, Unclaimed, Reminder
<1>5. pass \in Passes(IF pass.pc = "claim" THEN Places ELSE Keys)
  BY Stages DEF ClassInit
<1>6. heard \in [Slots -> 0..2] /\ {fresh, rearranged, markLost} \subseteq BOOLEAN
  <2>1. fresh = FALSE /\ rearranged = FALSE /\ markLost = FALSE /\ heard = [s \in Slots |-> 0]
    BY DEF ClassInit
  <2>2. heard \in [Slots -> 0..2]
    BY <2>1
  <2>3. QED
    BY <2>1, <2>2
<1>7. QED
  BY <1>1, <1>2, <1>3, <1>4, <1>5, <1>6 DEF ClassTypeOK

\* What a step that only moves the pass leaves well typed.
LEMMA PassMoves ==
    ASSUME ClassTypeOK, UNCHANGED <<now, sheet, edits, events, reminders, heard, rearranged>>,
           fresh' \in BOOLEAN, markLost' \in BOOLEAN,
           pass' \in Passes(IF pass'.pc = "claim" THEN Places ELSE Keys)
    PROVE  ClassTypeOK'
BY DEF ClassTypeOK

\* What a reconciliation has read: one class a slot, on the tabs it has read.
Scraped ==
    /\ Single(pass.grid)
    /\ \A c \in pass.grid : Day(c.slot) \notin pass.tabs
    /\ pass.next > 1 => pass.tabs = {}
    /\ pass.next <= Cardinality(pass.grid) + 1

\* One statement of the reconciliation stores the class of one place.
LEMMA StoreStep ==
    ASSUME ClassTypeOK, Scraped, StoreNext
    PROVE  /\ pass.next \in 1..Cardinality(pass.grid) /\ pass.next \in Places
           /\ Ordered(pass.grid)[pass.next] \in pass.grid
           /\ events' = [events EXCEPT ![pass.next] = Ordered(pass.grid)[pass.next]]
           /\ pass.pc = "read" /\ pass.tabs = {} /\ pass' = [pass EXCEPT !.next = pass.next + 1]
           /\ UNCHANGED <<now, sheet, edits, reminders, heard, fresh, rearranged, markLost>>
<1>1. pass.next \in Nat \ {0} /\ pass.grid \in SUBSET Cells /\ Single(pass.grid)
  BY DEF ClassTypeOK, Passes, Scraped
<1>2. pass.next <= Cardinality(pass.grid) /\ Cardinality(pass.grid) \in 0..Cardinality(Slots)
  <2>1. pass.next <= Cardinality(pass.grid)
    BY DEF StoreNext
  <2>2. Cardinality(pass.grid) \in 0..Cardinality(Slots)
    BY <1>1, SlotsCount
  <2>3. QED
    BY <2>1, <2>2, ClassConstants
<1>3. pass.next \in 1..Cardinality(pass.grid) /\ pass.next \in 1..Cardinality(Slots)
  <2> DEFINE many == Cardinality(pass.grid)
             most == Cardinality(Slots)
  <2>1. pass.next \in Nat \ {0} /\ pass.next <= many /\ many \in 0..most /\ most \in Nat
    BY <1>1, <1>2, ClassConstants
  <2> HIDE DEF many, most
  <2>2. pass.next \in 1..many /\ pass.next \in 1..most
    BY <2>1
  <2>3. QED
    BY <2>2 DEF many, most
<1>4. Ordered(pass.grid)[pass.next] \in pass.grid
  BY <1>1, <1>3, OrderedCells
<1>5. QED
  BY <1>3, <1>4, ClassConstants DEF StoreNext, upsets

\* Every step keeps the types.
LEMMA ClassTypeStep ==
    ASSUME ClassTypeOK, Scraped, [ClassNext]_classVars
    PROVE  ClassTypeOK'
<1>0. /\ now \in 0..Horizon /\ edits \in 0..MaxEdits
      /\ sheet \subseteq Cells /\ Single(sheet)
      /\ events \in [Places -> Cells \cup {None}]
      /\ reminders \in [Keys -> [slot : Slots \cup {0}, status : {"NONE", "PENDING", "SENT", "FAILED"}]]
      /\ pass \in Passes(IF pass.pc = "claim" THEN Places ELSE Keys)
      /\ heard \in [Slots -> 0..2]
      /\ fresh \in BOOLEAN /\ rearranged \in BOOLEAN /\ markLost \in BOOLEAN
  BY DEF ClassTypeOK, Single
<1>1. CASE Edit
  <2>1. edits' \in 0..MaxEdits /\ UNCHANGED <<now, events, reminders, pass, heard, markLost>> /\ fresh' = FALSE
        /\ rearranged' \in BOOLEAN
    <3>1. edits' \in 0..MaxEdits
      BY <1>0, <1>1, ClassConstants DEF Edit
    <3>2. rearranged' = rearranged \/ rearranged' = TRUE
      BY <1>1 DEF Edit
    <3>3. UNCHANGED <<now, events, reminders, pass, heard, markLost>> /\ fresh' = FALSE
      BY <1>1 DEF Edit
    <3>4. QED
      BY <1>0, <3>1, <3>2, <3>3
  <2>2. sheet' \subseteq Cells /\ \A c, d \in sheet' : c.slot = d.slot => c = d
    <3>1. CASE Strike
      <4>1. PICK c \in sheet : sheet' = (sheet \ {c}) \cup {Class(c.slot, ~c.off)}
        BY <3>1 DEF Strike
      <4>2. c.slot \in Slots /\ c.off \in BOOLEAN
        BY <1>0 DEF Cells
      <4>3. Class(c.slot, ~c.off) \in Cells /\ Class(c.slot, ~c.off).slot = c.slot
        BY <4>2 DEF Cells, Class
      <4>4. QED
        BY <1>0, <4>1, <4>3 DEF Single
    <3>2. CASE Rearrange
      <4>1. CASE \E c \in sheet : sheet' = sheet \ {c}
        BY <1>0, <4>1 DEF Single
      <4>2. ASSUME NEW s \in Slots \ { c.slot : c \in sheet },
                   \/ sheet' = sheet \cup {Class(s, FALSE)}
                   \/ \E c \in sheet : sheet' = (sheet \ {c}) \cup {Class(s, c.off)}
            PROVE  sheet' \subseteq Cells /\ \A c, d \in sheet' : c.slot = d.slot => c = d
        <5>1. PICK off \in BOOLEAN : /\ sheet' \subseteq sheet \cup {Class(s, off)}
          <6>1. \A c \in sheet : c.off \in BOOLEAN
            BY <1>0 DEF Cells
          <6>2. QED
            BY <4>2, <6>1
        <5>2. Class(s, off) \in Cells /\ Class(s, off).slot = s
          BY DEF Cells, Class
        <5>3. \A c \in sheet : c.slot # s
          BY <4>2
        <5>4. QED
          BY <1>0, <5>1, <5>2, <5>3 DEF Single
      <4>3. QED
        BY <3>2, <4>1, <4>2 DEF Rearrange
    <3>3. QED
      BY <1>1, <3>1, <3>2 DEF Edit
  <2>3. QED
    BY <1>0, <2>1, <2>2 DEF ClassTypeOK
<1>2. CASE Advance
  <2>1. now' \in 0..Horizon /\ UNCHANGED <<sheet, edits, events, reminders, pass, heard, fresh, rearranged, markLost>>
    BY <1>0, <1>2, ClassConstants DEF Advance, upsets
  <2>2. QED
    BY <1>0, <2>1 DEF ClassTypeOK, Single
<1>3. CASE StartSync
  <2>1. pass' = [Enter("read") EXCEPT !.tabs = Days]
    BY <1>3 DEF StartSync
  <2>2. Enter("read") \in Passes(Keys) /\ Enter("read").pc = "read"
    BY Stages
  <2>3. pass' \in Passes(Keys) /\ pass'.pc = "read"
    BY <2>1, <2>2 DEF Passes
  <2>4. QED
    BY <1>0, <1>3, <2>3, PassMoves DEF StartSync, upsets
<1>4. CASE ReadTab
  <2> DEFINE d == Min(pass.tabs)
  <2>1. pass' = [pass EXCEPT !.tabs = pass.tabs \ {d},
                             !.grid = pass.grid \cup { c \in sheet : Day(c.slot) = d }]
        /\ pass.pc = "read"
    BY <1>4 DEF ReadTab
  <2> HIDE DEF d
  <2>2. pass' \in Passes(Keys) /\ pass'.pc = "read"
    <3>1. pass \in Passes(Keys)
      BY <1>0, <2>1
    <3>2. pass.grid \cup { c \in sheet : Day(c.slot) = d } \in SUBSET Cells
          /\ pass.tabs \ {d} \in SUBSET Days
      BY <1>0, <3>1 DEF Passes
    <3>3. QED
      BY <2>1, <3>1, <3>2 DEF Passes
  <2>3. QED
    BY <1>0, <1>4, <2>2, PassMoves DEF ReadTab, upsets
<1>5. CASE StoreNext
  <2>1. pass' \in Passes(Keys) /\ pass'.pc = "read"
    <3>1. pass \in Passes(Keys) /\ pass' = [pass EXCEPT !.next = pass.next + 1] /\ pass.pc = "read"
      BY <1>0, <1>5, StoreStep
    <3>2. pass.next + 1 \in Nat \ {0}
      BY <3>1 DEF Passes
    <3>3. QED
      BY <3>1, <3>2 DEF Passes
  <2>2. events' \in [Places -> Cells \cup {None}]
    <3>1. pass.grid \in SUBSET Cells
      BY <1>0 DEF Passes
    <3>2. QED
      BY <1>0, <1>5, <3>1, StoreStep
  <2>3. UNCHANGED <<now, sheet, edits, reminders, heard, fresh, rearranged, markLost>>
    BY <1>5, StoreStep
  <2>4. QED
    BY <1>0, <2>1, <2>2, <2>3 DEF ClassTypeOK, Single
<1>6. CASE CancelMissing
  <2>1. pass' \in Passes(Keys) /\ pass'.pc = "expire"
    BY <1>6, Stages DEF CancelMissing
  <2>2. events' \in [Places -> Cells \cup {None}]
    <3>1. events' = [n \in Places |-> IF n >= pass.next THEN [events[n] EXCEPT !.off = TRUE] ELSE events[n]]
      BY <1>6 DEF CancelMissing
    <3>2. ASSUME NEW n \in Places PROVE [events[n] EXCEPT !.off = TRUE] \in Cells \cup {None}
      <4>1. CASE events[n] \in Cells
        BY <4>1 DEF Cells
      <4>2. CASE events[n] = None
        <5>1. None \in [slot : {0}, off : {TRUE}]
          BY DEF None
        <5>2. [None EXCEPT !.off = TRUE] = None
          BY <5>1
        <5>3. QED
          BY <4>2, <5>2
      <4>3. QED
        BY <1>0, <4>1, <4>2
    <3>3. QED
      BY <1>0, <3>1, <3>2
  <2>3. UNCHANGED <<now, sheet, edits, reminders, heard, fresh, rearranged, markLost>>
    BY <1>6 DEF CancelMissing, upsets
  <2>4. QED
    BY <1>0, <2>1, <2>2, <2>3 DEF ClassTypeOK, Single
<1>7. ASSUME BadScrape \/ StoreFails PROVE ClassTypeOK'
  <2>1. pass' = Enter("expire") /\ fresh' = FALSE
        /\ UNCHANGED <<now, sheet, edits, events, reminders, heard, rearranged, markLost>>
    BY <1>7 DEF BadScrape, StoreFails, upsets
  <2>2. pass' \in Passes(Keys) /\ pass'.pc = "expire"
    BY <2>1, Stages
  <2>3. QED
    BY <1>0, <2>1, <2>2, PassMoves
<1>8. CASE Expire
  <2>1. pass' \in Passes(Places) /\ pass'.pc = "claim"
    <3>1. pass' = [Enter("claim") EXCEPT !.todo = Soon]
      BY <1>8 DEF Expire
    <3>2. Soon \in SUBSET Places /\ Enter("claim") \in Passes(Places)
          /\ Enter("claim").pc = "claim"
      BY Stages DEF Soon
    <3>3. QED
      BY <3>1, <3>2 DEF Passes
  <2>2. reminders' \in [Keys -> [slot : Slots \cup {0}, status : {"NONE", "PENDING", "SENT", "FAILED"}]]
    BY <1>0, <1>8 DEF Expire
  <2>3. UNCHANGED <<now, sheet, edits, events, heard, fresh, rearranged, markLost>>
    BY <1>8 DEF Expire, upsets
  <2>4. QED
    BY <1>0, <2>1, <2>2, <2>3 DEF ClassTypeOK, Single
<1>9. CASE Claim
  <2>1. PICK n \in pass.todo :
           /\ reminders' = [reminders EXCEPT ![<<n, Day(events[n].slot)>>] =
                              IF reminders[<<n, Day(events[n].slot)>>] = Unclaimed
                              THEN Reminder(events[n].slot, "PENDING")
                              ELSE reminders[<<n, Day(events[n].slot)>>]]
           /\ pass' = [pass EXCEPT !.todo = pass.todo \ {n}]
    BY <1>9 DEF Claim
  <2>2. pass.pc = "claim" /\ pass \in Passes(Places)
    BY <1>0, <1>9 DEF Claim
  <2>3. pass' \in Passes(Places) /\ pass'.pc = "claim" /\ n \in Places
    BY <2>1, <2>2 DEF Passes
  <2>4. reminders' \in [Keys -> [slot : Slots \cup {0}, status : {"NONE", "PENDING", "SENT", "FAILED"}]]
    <3>1. events[n].slot \in Slots \cup {0}
      BY <1>0, <2>3 DEF Cells, None
    <3>2. Reminder(events[n].slot, "PENDING")
             \in [slot : Slots \cup {0}, status : {"NONE", "PENDING", "SENT", "FAILED"}]
      BY <3>1 DEF Reminder
    <3>3. QED
      BY <1>0, <2>1, <3>2
  <2>5. UNCHANGED <<now, sheet, edits, events, heard, fresh, rearranged, markLost>>
    BY <1>9 DEF Claim, upsets
  <2>6. QED
    BY <1>0, <2>3, <2>4, <2>5 DEF ClassTypeOK, Single
<1>10. CASE StartDispatch
  <2>1. pass' = [Enter("send") EXCEPT !.todo = { k \in Keys : reminders[k].status = "PENDING" }]
    BY <1>10 DEF StartDispatch
  <2>2. Enter("send") \in Passes(Keys) /\ Enter("send").pc = "send"
    BY Stages
  <2>3. pass' \in Passes(Keys) /\ pass'.pc = "send"
    BY <2>1, <2>2 DEF Passes
  <2>4. QED
    BY <1>0, <1>10, <2>3, PassMoves DEF StartDispatch, upsets
<1>11. ASSUME NEW k \in Keys, TooLate(k) \/ NotSent(k) \/ Send(k) PROVE ClassTypeOK'
  <2>1. pass \in Passes(Keys) /\ pass.pc = "send"
    BY <1>0, <1>11 DEF TooLate, NotSent, Send
  <2>2. \/ pass' = [pass EXCEPT !.todo = pass.todo \ {k}]
        \/ pass' = [pass EXCEPT !.todo = pass.todo \ {k}, !.worked = FALSE]
        \/ pass' = [pass EXCEPT !.pc = "mark", !.row = k]
    BY <1>11 DEF TooLate, NotSent, Send
  <2>3. pass' \in Passes(Keys) /\ pass'.pc # "claim"
    <3>1. CASE pass' = [pass EXCEPT !.todo = pass.todo \ {k}]
      BY <2>1, <3>1 DEF Passes
    <3>2. CASE pass' = [pass EXCEPT !.todo = pass.todo \ {k}, !.worked = FALSE]
      BY <2>1, <3>2 DEF Passes
    <3>3. CASE pass' = [pass EXCEPT !.pc = "mark", !.row = k]
      BY <2>1, <3>3 DEF Passes
    <3>4. QED
      BY <2>2, <3>1, <3>2, <3>3
  <2>4. reminders' \in [Keys -> [slot : Slots \cup {0}, status : {"NONE", "PENDING", "SENT", "FAILED"}]]
    BY <1>0, <1>11 DEF TooLate, NotSent, Send
  <2>5. heard' \in [Slots -> 0..2]
    BY <1>0, <1>11 DEF TooLate, NotSent, Send
  <2>6. UNCHANGED <<now, sheet, edits, events, fresh, rearranged, markLost>>
    BY <1>11 DEF TooLate, NotSent, Send, upsets
  <2>7. QED
    BY <1>0, <2>3, <2>4, <2>5, <2>6 DEF ClassTypeOK, Single
<1>12. CASE MarkSent
  <2>1. pass \in Passes(Keys)
        /\ pass' = [pass EXCEPT !.pc = "send", !.todo = pass.todo \ {pass.row}, !.row = <<>>]
    BY <1>0, <1>12 DEF MarkSent
  <2>2. pass' \in Passes(Keys) /\ pass'.pc = "send"
    BY <2>1 DEF Passes
  <2>3. reminders' \in [Keys -> [slot : Slots \cup {0}, status : {"NONE", "PENDING", "SENT", "FAILED"}]]
    BY <1>0, <1>12 DEF MarkSent
  <2>4. UNCHANGED <<now, sheet, edits, events, heard, fresh, rearranged, markLost>>
    BY <1>12 DEF MarkSent, upsets
  <2>5. QED
    BY <1>0, <2>2, <2>3, <2>4 DEF ClassTypeOK, Single
<1>13. ASSUME EndPass \/ PassDies PROVE ClassTypeOK'
  <2>1. pass' = AtRest /\ fresh' \in BOOLEAN /\ markLost' \in BOOLEAN
        /\ UNCHANGED <<now, sheet, edits, events, reminders, heard, rearranged>>
    BY <1>0, <1>13 DEF EndPass, PassDies, upsets
  <2>2. pass' \in Passes(Keys) /\ pass'.pc = "idle"
    BY <2>1, Stages
  <2>3. QED
    BY <2>1, <2>2, PassMoves
<1>14. CASE UNCHANGED classVars
  BY <1>14 DEF classVars, ClassTypeOK
<1>15. QED
  BY <1>1, <1>2, <1>3, <1>4, <1>5, <1>6, <1>7, <1>8, <1>9, <1>10, <1>11, <1>12, <1>13, <1>14
     DEF ClassNext, Sync, Announce, Dispatch

-----------------------------------------------------------------------------
\* A step that reads and stores nothing leaves the timetable as it is, and is
\* no part of a reconciliation any more.
LEMMA GoesOn ==
    ASSUME ClassTypeOK, BadScrape \/ StoreFails \/ Announce \/ PassDies
    PROVE  /\ UNCHANGED <<now, sheet, edits, events, rearranged>> /\ pass'.pc # "read"
           /\ fresh' => fresh /\ pass.pc # "read"
           /\ \/ pass'.tabs = pass.tabs /\ pass'.grid = pass.grid /\ pass'.next = pass.next
              \/ pass'.tabs = {} /\ pass'.grid = {} /\ pass'.next = 1
<1>0. fresh \in BOOLEAN /\ pass \in Passes(IF pass.pc = "claim" THEN Places ELSE Keys)
  BY DEF ClassTypeOK
<1>1. UNCHANGED <<now, sheet, edits, events, rearranged>>
  BY DEF BadScrape, StoreFails, Announce, PassDies, Expire, Claim,
         StartDispatch, Dispatch, TooLate, NotSent, Send, MarkSent,
         EndPass, upsets
<1>2. CASE BadScrape \/ StoreFails
  BY <1>1, <1>2, Stages DEF BadScrape, StoreFails
<1>3. CASE Expire
  <2>1. pass.pc = "expire" /\ pass' = [Enter("claim") EXCEPT !.todo = Soon] /\ fresh' = fresh
    BY <1>3 DEF Expire
  <2>2. Enter("claim") \in Passes(Places) /\ Enter("claim").pc = "claim"
        /\ Enter("claim").tabs = {} /\ Enter("claim").grid = {} /\ Enter("claim").next = 1
    BY Stages
  <2>3. pass'.pc = "claim" /\ pass'.tabs = {} /\ pass'.grid = {} /\ pass'.next = 1
    BY <2>1, <2>2 DEF Passes
  <2>4. QED
    BY <1>1, <2>1, <2>3
<1>4. CASE StartDispatch
  <2>1. pass' = [Enter("send") EXCEPT !.todo = { k \in Keys : reminders[k].status = "PENDING" }]
        /\ pass.pc = "claim" /\ fresh' = fresh
    BY <1>4 DEF StartDispatch
  <2>2. Enter("send") \in Passes(Keys) /\ Enter("send").pc = "send"
        /\ Enter("send").tabs = {} /\ Enter("send").grid = {} /\ Enter("send").next = 1
    BY Stages
  <2>3. pass'.pc = "send" /\ pass'.tabs = {} /\ pass'.grid = {} /\ pass'.next = 1
    BY <2>1, <2>2 DEF Passes
  <2>4. QED
    BY <1>1, <2>1, <2>3
<1>5. CASE EndPass \/ PassDies
  <2>1. pass' = AtRest
    BY <1>5 DEF EndPass, PassDies
  <2>2. AtRest.pc = "idle" /\ AtRest.tabs = {} /\ AtRest.grid = {} /\ AtRest.next = 1
    BY Stages
  <2>3. fresh' => fresh /\ pass.pc # "read"
    BY <1>0, <1>5 DEF EndPass, PassDies
  <2>4. QED
    BY <1>1, <2>1, <2>2, <2>3
<1>6. CASE Claim
  BY <1>0, <1>1, <1>6 DEF Claim, Passes
<1>7. ASSUME NEW k \in Keys, TooLate(k) \/ NotSent(k) \/ Send(k)
      PROVE  /\ pass.pc = "send" /\ pass'.pc # "read" /\ fresh' = fresh
             /\ pass'.tabs = pass.tabs /\ pass'.grid = pass.grid /\ pass'.next = pass.next
  BY <1>0, <1>7 DEF TooLate, NotSent, Send, Passes
<1>8. CASE MarkSent
  BY <1>0, <1>1, <1>8 DEF MarkSent, Passes
<1>9. QED
  BY <1>1, <1>2, <1>3, <1>4, <1>5, <1>6, <1>7, <1>8 DEF Announce, Dispatch

\* What a reconciliation does at its begin, with a tab and at its end.
LEMMA Syncing ==
    ASSUME ClassTypeOK
    PROVE  /\ StartSync =>
                /\ pass'.pc = "read" /\ pass'.tabs = Days /\ pass'.grid = {} /\ pass'.next = 1
                /\ UNCHANGED <<now, sheet, edits, events, reminders, heard, rearranged, markLost>>
           /\ ReadTab =>
                /\ pass.pc = "read" /\ pass'.pc = "read" /\ pass.tabs # {} /\ pass'.next = pass.next
                /\ \E d \in pass.tabs :
                      /\ pass'.tabs = pass.tabs \ {d}
                      /\ pass'.grid = pass.grid \cup { c \in sheet : Day(c.slot) = d }
                /\ UNCHANGED <<now, sheet, edits, events, reminders, heard, fresh, rearranged, markLost>>
           /\ CancelMissing =>
                /\ pass.pc = "read" /\ pass.tabs = {} /\ pass.next > Cardinality(pass.grid)
                /\ pass'.pc = "expire" /\ pass'.tabs = {} /\ pass'.grid = {} /\ pass'.next = 1
                /\ events' = [n \in Places |-> IF n >= pass.next THEN [events[n] EXCEPT !.off = TRUE]
                                               ELSE events[n]]
                /\ UNCHANGED <<now, sheet, edits, reminders, heard, fresh, rearranged, markLost>>
<1>1. ASSUME StartSync
      PROVE  /\ pass'.pc = "read" /\ pass'.tabs = Days /\ pass'.grid = {} /\ pass'.next = 1
             /\ UNCHANGED <<now, sheet, edits, events, reminders, heard, rearranged, markLost>>
  <2>1. Enter("read") \in Passes(Keys) /\ Enter("read").pc = "read"
        /\ Enter("read").grid = {} /\ Enter("read").next = 1
    BY Stages
  <2>2. QED
    BY <1>1, <2>1 DEF StartSync, Passes, upsets
<1>2. ASSUME ReadTab
      PROVE  /\ pass.pc = "read" /\ pass'.pc = "read" /\ pass.tabs # {} /\ pass'.next = pass.next
             /\ \E d \in pass.tabs :
                   /\ pass'.tabs = pass.tabs \ {d}
                   /\ pass'.grid = pass.grid \cup { c \in sheet : Day(c.slot) = d }
             /\ UNCHANGED <<now, sheet, edits, events, reminders, heard, fresh, rearranged, markLost>>
  <2> DEFINE d == Min(pass.tabs)
  <2>1. pass.pc = "read" /\ pass.tabs # {} /\ pass \in Passes(Keys)
        /\ pass' = [pass EXCEPT !.tabs = pass.tabs \ {d},
                                !.grid = pass.grid \cup { c \in sheet : Day(c.slot) = d }]
        /\ UNCHANGED <<now, sheet, edits, events, reminders, heard, fresh, rearranged, markLost>>
    BY <1>2 DEF ReadTab, ClassTypeOK, upsets
  <2>2. d \in pass.tabs
    <3>1. pass.tabs \in SUBSET Days
      BY <2>1 DEF Passes
    <3>2. QED
      BY <2>1, <3>1, FirstDay
  <2> HIDE DEF d
  <2>3. /\ pass'.pc = "read" /\ pass'.next = pass.next /\ pass'.tabs = pass.tabs \ {d}
        /\ pass'.grid = pass.grid \cup { c \in sheet : Day(c.slot) = d }
    BY <2>1 DEF Passes
  <2>4. QED
    BY <2>1, <2>2, <2>3
<1>3. ASSUME CancelMissing
      PROVE  /\ pass.pc = "read" /\ pass.tabs = {} /\ pass.next > Cardinality(pass.grid)
             /\ pass'.pc = "expire" /\ pass'.tabs = {} /\ pass'.grid = {} /\ pass'.next = 1
             /\ events' = [n \in Places |-> IF n >= pass.next THEN [events[n] EXCEPT !.off = TRUE]
                                            ELSE events[n]]
             /\ UNCHANGED <<now, sheet, edits, reminders, heard, fresh, rearranged, markLost>>
  BY <1>3, Stages, ClassConstants DEF CancelMissing, upsets
<1>4. QED
  BY <1>1, <1>2, <1>3

\* The steps, in the order of the following proofs.
LEMMA Kinds ==
    ASSUME [ClassNext]_classVars
    PROVE  \/ Edit
           \/ Advance \/ UNCHANGED classVars
           \/ StartSync
           \/ ReadTab
           \/ StoreNext
           \/ CancelMissing
           \/ BadScrape \/ StoreFails \/ Announce \/ PassDies
BY DEF ClassNext, Sync

\* Every step keeps what was read one class a slot, on the tabs that were read.
LEMMA ScrapedStep ==
    ASSUME ClassTypeOK, Scraped, [ClassNext]_classVars
    PROVE  Scraped'
<1>0. /\ sheet \subseteq Cells /\ Single(sheet) /\ pass.grid \in SUBSET Cells
      /\ pass.next \in Nat \ {0}
  BY DEF ClassTypeOK, Passes, Single
<1>1. ASSUME pass'.tabs = pass.tabs, pass'.grid = pass.grid, pass'.next = pass.next PROVE Scraped'
  BY <1>1 DEF Scraped, Single
<1>2. ASSUME pass'.grid = {}, pass'.next = 1 PROVE Scraped'
  <2>1. Cardinality({}) = 0
    BY FS_EmptySet
  <2>2. QED
    BY <1>2, <2>1 DEF Scraped, Single
<1>3. CASE Edit \/ Advance \/ UNCHANGED classVars
  BY <1>1, <1>3 DEF Edit, Advance, classVars
<1>4. CASE StartSync \/ CancelMissing
  BY <1>2, <1>4, Syncing
<1>5. CASE ReadTab
  <2>1. PICK d \in pass.tabs : /\ pass'.tabs = pass.tabs \ {d}
                               /\ pass'.grid = pass.grid \cup { c \in sheet : Day(c.slot) = d }
    BY <1>5, Syncing
  <2>2. pass'.next = pass.next /\ pass.tabs # {} /\ pass.next = 1
    BY <1>0, <1>5, Syncing DEF Scraped
  <2>3. Single(pass'.grid)
    BY <1>0, <2>1 DEF Single, Scraped
  <2>4. \A c \in pass'.grid : Day(c.slot) \notin pass'.tabs
    BY <2>1 DEF Scraped
  <2>5. pass'.next <= Cardinality(pass'.grid) + 1
    <3>1. pass'.grid \in SUBSET Cells
      BY <1>0, <2>1
    <3>2. Cardinality(pass'.grid) \in 0..Cardinality(Slots)
      BY <2>3, <3>1, SlotsCount
    <3>3. QED
      BY <2>2, <3>2, ClassConstants
  <2>6. QED
    BY <2>2, <2>3, <2>4, <2>5 DEF Scraped, Single
<1>6. CASE StoreNext
  <2>1. pass.next \in 1..Cardinality(pass.grid) /\ pass.tabs = {} /\ pass' = [pass EXCEPT !.next = pass.next + 1]
    BY <1>6, StoreStep
  <2>2. pass'.tabs = {} /\ pass'.grid = pass.grid /\ pass'.next = pass.next + 1
    BY <2>1 DEF ClassTypeOK, Passes
  <2>3. Cardinality(pass.grid) \in 0..Cardinality(Slots)
    BY <1>0, SlotsCount DEF Scraped
  <2>4. pass'.next <= Cardinality(pass'.grid) + 1
    BY <2>1, <2>2, <2>3, ClassConstants
  <2>5. QED
    BY <2>2, <2>4 DEF Scraped, Single
<1>7. CASE BadScrape \/ StoreFails \/ Announce \/ PassDies
  BY <1>1, <1>2, <1>7, GoesOn
<1>8. QED
  BY <1>3, <1>4, <1>5, <1>6, <1>7, Kinds

-----------------------------------------------------------------------------
\* While the sheet stays as the last reconciliation has read it: what has been
\* read is what the sheet shows on those tabs, and what has been stored is in
\* its place.
Mirror == fresh =>
    IF pass.pc = "read"
    THEN /\ pass.grid = { c \in sheet : Day(c.slot) \notin pass.tabs }
         /\ \A n \in 1..pass.next - 1 : events[n] = Ordered(pass.grid)[n]
    ELSE \A n \in Places : IF n <= Cardinality(sheet) THEN events[n] = Ordered(sheet)[n]
                           ELSE events[n].off

\* Every step keeps what was read, and what was stored, as the sheet shows it.
LEMMA MirrorStep ==
    ASSUME ClassTypeOK, Scraped, Mirror, [ClassNext]_classVars
    PROVE  Mirror'
<1>0. /\ sheet \subseteq Cells /\ Single(sheet) /\ pass.grid \in SUBSET Cells
      /\ pass.next \in Nat \ {0} /\ events \in [Places -> Cells \cup {None}]
  BY DEF ClassTypeOK, Passes, Single
<1>1. CASE Edit
  BY <1>1 DEF Edit, Mirror
<1>2. CASE Advance \/ UNCHANGED classVars
  BY <1>2 DEF Advance, classVars, Mirror
<1>3. CASE StartSync
  <2>1. /\ pass'.pc = "read" /\ pass'.tabs = Days /\ pass'.grid = {} /\ pass'.next = 1
        /\ UNCHANGED <<sheet, events>>
    BY <1>3, Syncing
  <2>2. { c \in sheet : Day(c.slot) \notin Days } = {}
    BY <1>0 DEF Cells, Days
  <2>3. 1..pass'.next - 1 = {}
    BY <2>1
  <2>4. QED
    BY <2>1, <2>2, <2>3 DEF Mirror
<1>4. CASE ReadTab
  <2>1. PICK d \in pass.tabs : /\ pass'.tabs = pass.tabs \ {d}
                               /\ pass'.grid = pass.grid \cup { c \in sheet : Day(c.slot) = d }
    BY <1>4, Syncing
  <2>2. pass.pc = "read" /\ pass'.pc = "read" /\ pass'.next = pass.next /\ pass.tabs # {}
        /\ UNCHANGED <<sheet, events, fresh>>
    BY <1>4, Syncing
  <2>3. 1..pass'.next - 1 = {}
    BY <1>0, <2>2 DEF Scraped
  <2>4. fresh => pass'.grid = { c \in sheet : Day(c.slot) \notin pass'.tabs }
    BY <2>1, <2>2 DEF Mirror
  <2>5. QED
    BY <2>2, <2>3, <2>4 DEF Mirror
<1>5. CASE StoreNext
  <2>1. /\ pass.next \in Places /\ pass.pc = "read" /\ pass.tabs = {}
        /\ events' = [events EXCEPT ![pass.next] = Ordered(pass.grid)[pass.next]]
        /\ pass' = [pass EXCEPT !.next = pass.next + 1] /\ UNCHANGED <<sheet, fresh>>
    BY <1>5, StoreStep
  <2>2. pass'.tabs = pass.tabs /\ pass'.grid = pass.grid /\ pass'.next = pass.next + 1 /\ pass'.pc = "read"
    BY <2>1 DEF ClassTypeOK, Passes
  <2>3. ASSUME fresh, NEW n \in 1..pass'.next - 1 PROVE events'[n] = Ordered(pass.grid)[n]
    <3>1. n = pass.next \/ (n \in 1..pass.next - 1 /\ n # pass.next)
      BY <1>0, <2>2
    <3>2. CASE n = pass.next
      BY <1>0, <2>1, <3>2
    <3>3. CASE n \in 1..pass.next - 1 /\ n # pass.next
      <4>1. events[n] = Ordered(pass.grid)[n]
        BY <2>1, <2>3, <3>3 DEF Mirror
      <4>2. events'[n] = events[n]
        <5>1. n \in Places
          <6>1. pass.next \in 1..Cardinality(Slots) /\ Cardinality(Slots) \in Nat /\ n \in 1..pass.next - 1
            BY <2>1, <3>3, ClassConstants
          <6>2. n \in 1..Cardinality(Slots)
            BY <6>1
          <6>3. QED
            BY <6>2, ClassConstants
        <5>2. QED
          BY <1>0, <2>1, <3>3, <5>1
      <4>3. QED
        BY <4>1, <4>2
    <3>4. QED
      BY <3>1, <3>2, <3>3
  <2>4. QED
    BY <2>1, <2>2, <2>3 DEF Mirror
<1>6. CASE CancelMissing
  <2>1. /\ pass.pc = "read" /\ pass.tabs = {} /\ pass.next > Cardinality(pass.grid) /\ pass'.pc = "expire"
        /\ events' = [n \in Places |-> IF n >= pass.next THEN [events[n] EXCEPT !.off = TRUE]
                                       ELSE events[n]]
        /\ UNCHANGED <<sheet, fresh>>
    BY <1>6, Syncing
  <2>2. SUFFICES ASSUME fresh, NEW n \in Places
                 PROVE  IF n <= Cardinality(sheet) THEN events'[n] = Ordered(sheet)[n] ELSE events'[n].off
    BY <2>1 DEF Mirror
  <2>3. pass.grid = sheet /\ \A m \in 1..pass.next - 1 : events[m] = Ordered(sheet)[m]
    BY <2>1, <2>2 DEF Mirror
  <2>4. Cardinality(sheet) \in Nat /\ pass.next = Cardinality(sheet) + 1 /\ n \in Nat /\ n >= 1
    <3>1. Cardinality(sheet) \in 0..Cardinality(Slots)
      BY <1>0, SlotsCount
    <3>2. pass.next <= Cardinality(sheet) + 1 /\ pass.next > Cardinality(sheet)
      BY <2>1, <2>3 DEF Scraped
    <3>3. n \in 1..Cardinality(Slots) /\ Cardinality(Slots) \in Nat
      BY <2>2, ClassConstants
    <3> DEFINE many == Cardinality(sheet)
               most == Cardinality(Slots)
    <3>4. many \in 0..most /\ pass.next <= many + 1 /\ pass.next > many /\ n \in 1..most /\ most \in Nat
      BY <3>1, <3>2, <3>3
    <3> HIDE DEF many, most
    <3>5. many \in Nat /\ pass.next = many + 1 /\ n \in Nat /\ n >= 1
      BY <1>0, <3>4
    <3>6. QED
      BY <3>5 DEF many
  <2>5. CASE n <= Cardinality(sheet)
    <3>1. ~(n >= pass.next) /\ n \in 1..pass.next - 1
      BY <2>4, <2>5
    <3>2. QED
      BY <2>1, <2>3, <2>5, <3>1
  <2>6. CASE ~(n <= Cardinality(sheet))
    <3>1. n >= pass.next
      BY <2>4, <2>6
    <3>2. events'[n] = [events[n] EXCEPT !.off = TRUE]
      BY <2>1, <3>1
    <3>3. events[n] \in [slot : Slots \cup {0}, off : BOOLEAN]
      <4>1. None \in [slot : Slots \cup {0}, off : BOOLEAN]
        BY DEF None
      <4>2. QED
        BY <1>0, <4>1 DEF Cells
    <3>4. events'[n].off
      BY <3>2, <3>3
    <3>5. QED
      BY <2>6, <3>4
  <2>7. QED
    BY <2>5, <2>6
<1>7. CASE BadScrape \/ StoreFails \/ Announce \/ PassDies
  <2>1. UNCHANGED <<sheet, events>> /\ pass'.pc # "read" /\ (fresh' => fresh /\ pass.pc # "read")
    BY <1>7, GoesOn
  <2>2. QED
    BY <2>1 DEF Mirror
<1>8. QED
  BY <1>1, <1>2, <1>3, <1>4, <1>5, <1>6, <1>7, Kinds

-----------------------------------------------------------------------------
\* The slot of the nth class of the sheet; the name of the reminder of a class.
SlotAt(n) == Ordered(sheet)[n].slot
Key(n) == <<n, Day(events[n].slot)>>

\* What a pass still owes, and what the rows say of the announcements.
Owed ==
    /\ pass.pc = "claim" =>
         /\ pass.todo \subseteq Soon
         /\ \A n \in Soon : n \in pass.todo \/ reminders[Key(n)].status # "NONE"
    /\ pass.pc \in {"send", "mark"} =>
         /\ \A n \in Soon : reminders[Key(n)].status # "NONE"
         /\ pass.todo \subseteq Keys
         /\ \A k \in pass.todo : reminders[k].status = "PENDING"
         /\ pass.worked => \A k \in Keys : reminders[k].status = "PENDING" => k \in pass.todo
    /\ pass.pc = "mark" => pass.row \in pass.todo /\ heard[reminders[pass.row].slot] > 0

Rows ==
    \A k \in Keys :
       /\ reminders[k].status = "NONE" => reminders[k] = Unclaimed
       /\ reminders[k].status # "NONE" => reminders[k].slot \in Slots
       /\ reminders[k].status = "SENT" => heard[reminders[k].slot] > 0
       /\ reminders[k].status = "FAILED" => reminders[k].slot <= now

\* A class in the window has a time, and a name.
LEMMA SoonKeys ==
    ASSUME ClassTypeOK, NEW n \in Soon
    PROVE  events[n].slot \in Slots /\ Key(n) \in Keys /\ ~events[n].off /\ n \in Places
<1>1. n \in Places /\ ~events[n].off /\ events[n] \in Cells \cup {None}
  BY DEF Soon, ClassTypeOK
<1>2. None.off = TRUE
  BY DEF None
<1>3. events[n].slot \in Slots
  BY <1>1, <1>2 DEF Cells
<1>4. QED
  BY <1>1, <1>3 DEF Key, Keys, Days

\* The type of a reminder.
ReminderRow == [slot : Slots \cup {0}, status : {"NONE", "PENDING", "SENT", "FAILED"}]

\* Every reminder but one is as it was.
LEMMA OneRow ==
    ASSUME ClassTypeOK, NEW r \in Keys, NEW row,
           reminders' = [reminders EXCEPT ![r] = row]
    PROVE  /\ reminders'[r] = row
           /\ \A k \in Keys : k # r => reminders'[k] = reminders[k]
BY DEF ClassTypeOK

\* Every step keeps what is owed on the list of the pass until it is claimed, and
\* what is claimed until it is sent.
LEMMA OwedStep ==
    ASSUME ClassTypeOK, Owed, Rows, [ClassNext]_classVars
    PROVE  Owed' /\ Rows'
<1>0. /\ now \in Nat /\ pass \in Passes(IF pass.pc = "claim" THEN Places ELSE Keys)
      /\ reminders \in [Keys -> ReminderRow] /\ heard \in [Slots -> 0..2] /\ Slots \subseteq Nat
  BY ClassConstants DEF ClassTypeOK, ReminderRow
<1>1. ASSUME UNCHANGED <<now, events, reminders, pass, heard>> PROVE Owed' /\ Rows'
  BY <1>1 DEF Owed, Rows, Key, Soon
<1>2. CASE Edit \/ UNCHANGED classVars
  BY <1>1, <1>2 DEF Edit, classVars
<1>3. CASE Advance
  <2>1. pass.pc = "idle" /\ now' = now + 1 /\ UNCHANGED <<events, reminders, pass, heard>>
    BY <1>3 DEF Advance
  <2>2. \A k \in Keys : reminders[k].slot <= now => reminders[k].slot <= now'
    <3>1. \A k \in Keys : reminders[k].slot \in Slots \cup {0}
      BY <1>0 DEF ReminderRow
    <3>2. \A k \in Keys : reminders[k].slot \in Nat
      <4>1. \A t \in Slots \cup {0} : t \in Nat
        BY <1>0
      <4>2. QED
        BY <3>1, <4>1
    <3>3. QED
      BY <1>0, <2>1, <3>2
  <2>3. QED
    BY <2>1, <2>2 DEF Owed, Rows
<1>4. CASE StartSync \/ ReadTab \/ StoreNext \/ CancelMissing
           \/ BadScrape \/ StoreFails \/ EndPass \/ PassDies
  <2>1. pass'.pc \in {"idle", "read", "expire"} /\ UNCHANGED <<now, reminders, heard>>
    BY <1>0, <1>4, Syncing, Stages
       DEF StoreNext, BadScrape, StoreFails, EndPass, PassDies, Passes
  <2>2. QED
    BY <2>1 DEF Owed, Rows
<1>5. CASE Expire
  <2>1. /\ pass' = [Enter("claim") EXCEPT !.todo = Soon] /\ UNCHANGED <<now, events, heard>>
        /\ reminders' = [k \in Keys |-> IF Stale(reminders[k])
                                        THEN [reminders[k] EXCEPT !.status = "FAILED"]
                                        ELSE reminders[k]]
    BY <1>5 DEF Expire
  <2>2. pass'.pc = "claim" /\ pass'.todo = Soon
    <3>1. Enter("claim") \in Passes(Places) /\ Enter("claim").pc = "claim"
      BY Stages
    <3>2. QED
      BY <2>1, <3>1 DEF Passes
  <2>3. Owed'
    BY <2>1, <2>2 DEF Owed, Soon
  <2>4. ASSUME NEW k \in Keys
        PROVE  /\ reminders'[k].status = "NONE" => reminders'[k] = Unclaimed
               /\ reminders'[k].status # "NONE" => reminders'[k].slot \in Slots
               /\ reminders'[k].status = "SENT" => heard[reminders'[k].slot] > 0
               /\ reminders'[k].status = "FAILED" => reminders'[k].slot <= now
    <3>1. CASE Stale(reminders[k])
      <4>1. reminders[k] \in ReminderRow /\ reminders'[k] = [reminders[k] EXCEPT !.status = "FAILED"]
        BY <1>0, <2>1, <3>1
      <4>2. reminders'[k].status = "FAILED" /\ reminders'[k].slot = reminders[k].slot
        BY <4>1 DEF ReminderRow
      <4>3. QED
        BY <3>1, <4>2 DEF Rows, Stale
    <3>2. CASE ~Stale(reminders[k])
      BY <2>1, <3>2 DEF Rows
    <3>3. QED
      BY <3>1, <3>2
  <2>5. QED
    BY <2>1, <2>3, <2>4 DEF Rows
<1>6. CASE Claim
  <2>1. PICK n \in pass.todo :
           /\ reminders' = [reminders EXCEPT ![Key(n)] = IF reminders[Key(n)] = Unclaimed
                                                         THEN Reminder(events[n].slot, "PENDING")
                                                         ELSE reminders[Key(n)]]
           /\ pass' = [pass EXCEPT !.todo = pass.todo \ {n}]
    BY <1>6 DEF Claim, Key
  <2>2. pass.pc = "claim" /\ UNCHANGED <<now, events, heard>>
    BY <1>6 DEF Claim
  <2>3. pass'.pc = "claim" /\ pass'.todo = pass.todo \ {n}
    BY <1>0, <2>1, <2>2 DEF Passes
  <2>4. n \in Soon /\ Key(n) \in Keys /\ events[n].slot \in Slots
    BY <2>2, SoonKeys DEF Owed
  <2>5. /\ reminders'[Key(n)] = IF reminders[Key(n)] = Unclaimed
                                THEN Reminder(events[n].slot, "PENDING") ELSE reminders[Key(n)]
        /\ \A k \in Keys : k # Key(n) => reminders'[k] = reminders[k]
    <3> DEFINE row == IF reminders[Key(n)] = Unclaimed
                      THEN Reminder(events[n].slot, "PENDING") ELSE reminders[Key(n)]
    <3>1. reminders' = [reminders EXCEPT ![Key(n)] = row]
      BY <2>1
    <3> HIDE DEF row
    <3>2. reminders'[Key(n)] = row /\ \A k \in Keys : k # Key(n) => reminders'[k] = reminders[k]
      BY <2>4, <3>1, OneRow
    <3>3. QED
      BY <3>2 DEF row
  <2>6. Reminder(events[n].slot, "PENDING").status = "PENDING"
        /\ Reminder(events[n].slot, "PENDING").slot = events[n].slot
    BY DEF Reminder
  <2>7. reminders'[Key(n)].status # "NONE"
    BY <2>4, <2>5, <2>6 DEF Rows
  <2>8. \A k \in Keys : reminders[k].status # "NONE" => reminders'[k].status # "NONE"
    BY <2>5, <2>7
  <2>9. Owed'
    <3>1. \A m \in Soon : m \in pass'.todo \/ reminders'[Key(m)].status # "NONE"
      <4>1. ASSUME NEW m \in Soon PROVE m \in pass'.todo \/ reminders'[Key(m)].status # "NONE"
        <5>1. Key(m) \in Keys
          BY SoonKeys
        <5>2. m = n \/ m \in pass'.todo \/ reminders[Key(m)].status # "NONE"
          BY <2>2, <2>3 DEF Owed
        <5>3. QED
          BY <2>7, <2>8, <5>1, <5>2
      <4>2. QED
        BY <4>1
    <3>2. pass'.todo \subseteq Soon
      BY <2>2, <2>3 DEF Owed
    <3>3. Soon' = Soon /\ \A m : Key(m)' = <<m, Day(events[m].slot)>>
      BY <2>2 DEF Soon, Key
    <3>4. QED
      BY <2>3, <3>1, <3>2, <3>3 DEF Owed, Key
  <2>10. Rows'
    <3>1. ASSUME NEW k \in Keys
          PROVE  /\ reminders'[k].status = "NONE" => reminders'[k] = Unclaimed
                 /\ reminders'[k].status # "NONE" => reminders'[k].slot \in Slots
                 /\ reminders'[k].status = "SENT" => heard[reminders'[k].slot] > 0
                 /\ reminders'[k].status = "FAILED" => reminders'[k].slot <= now
      <4>1. CASE reminders'[k] = reminders[k]
        BY <4>1 DEF Rows
      <4>2. CASE reminders'[k] = Reminder(events[n].slot, "PENDING")
        BY <2>4, <2>6, <4>2
      <4>3. QED
        BY <2>5, <4>1, <4>2
    <3>2. QED
      BY <2>2, <3>1 DEF Rows
  <2>11. QED
    BY <2>9, <2>10
<1>7. CASE StartDispatch
  <2>1. /\ pass.pc = "claim" /\ pass.todo = {} /\ UNCHANGED <<now, events, reminders, heard>>
        /\ pass' = [Enter("send") EXCEPT !.todo = { k \in Keys : reminders[k].status = "PENDING" }]
    BY <1>7 DEF StartDispatch
  <2>2. pass'.pc = "send" /\ pass'.todo = { k \in Keys : reminders[k].status = "PENDING" }
    <3>1. Enter("send") \in Passes(Keys) /\ Enter("send").pc = "send"
      BY Stages
    <3>2. QED
      BY <2>1, <3>1 DEF Passes
  <2>3. \A n \in Soon : reminders[Key(n)].status # "NONE"
    BY <2>1 DEF Owed
  <2>4. Owed'
    BY <2>1, <2>2, <2>3 DEF Owed, Soon, Key
  <2>5. Rows'
    BY <2>1 DEF Rows
  <2>6. QED
    BY <2>4, <2>5
<1>8. ASSUME NEW r \in Keys, TooLate(r) PROVE Owed' /\ Rows'
  <2>1. /\ pass.pc = "send" /\ r \in pass.todo /\ reminders[r].slot <= now
        /\ reminders' = [reminders EXCEPT ![r] = [reminders[r] EXCEPT !.status = "FAILED"]]
        /\ pass' = [pass EXCEPT !.todo = pass.todo \ {r}] /\ UNCHANGED <<now, events, heard>>
    BY <1>8 DEF TooLate, First
  <2>2. pass'.pc = "send" /\ pass'.todo = pass.todo \ {r} /\ pass'.worked = pass.worked
    BY <1>0, <2>1 DEF Passes
  <2>3. /\ reminders'[r] = [reminders[r] EXCEPT !.status = "FAILED"]
        /\ \A k \in Keys : k # r => reminders'[k] = reminders[k]
    BY <2>1, OneRow
  <2>4. reminders'[r].status = "FAILED" /\ reminders'[r].slot = reminders[r].slot
    BY <1>0, <2>3 DEF ReminderRow
  <2>5. reminders[r].status = "PENDING"
    BY <2>1 DEF Owed
  <2>6. \A n \in Soon : reminders'[Key(n)].status # "NONE"
    <3>1. \A n \in Soon : Key(n) \in Keys /\ reminders[Key(n)].status # "NONE"
      BY <2>1, SoonKeys DEF Owed
    <3>2. QED
      BY <2>3, <2>4, <3>1
  <2>7. Owed'
    <3>1. pass'.todo \subseteq Keys /\ \A k \in pass'.todo : reminders'[k].status = "PENDING"
      BY <2>1, <2>2, <2>3 DEF Owed
    <3>2. pass'.worked => \A k \in Keys : reminders'[k].status = "PENDING" => k \in pass'.todo
      BY <2>1, <2>2, <2>3, <2>4 DEF Owed
    <3>3. Soon' = Soon /\ \A m : Key(m)' = <<m, Day(events[m].slot)>>
      BY <2>1 DEF Soon, Key
    <3>4. QED
      BY <2>2, <2>6, <3>1, <3>2, <3>3 DEF Owed, Key
  <2>8. Rows'
    BY <2>1, <2>3, <2>4, <2>5 DEF Rows
  <2>9. QED
    BY <2>7, <2>8
<1>9. ASSUME NEW r \in Keys, NotSent(r) PROVE Owed' /\ Rows'
  <2>1. /\ pass.pc = "send" /\ pass' = [pass EXCEPT !.todo = pass.todo \ {r}, !.worked = FALSE]
        /\ UNCHANGED <<now, events, reminders, heard>>
    BY <1>9 DEF NotSent
  <2>2. pass'.pc = "send" /\ pass'.todo = pass.todo \ {r} /\ ~pass'.worked
    BY <1>0, <2>1 DEF Passes
  <2>3. Rows'
    BY <2>1 DEF Rows
  <2>4. QED
    BY <2>1, <2>2, <2>3 DEF Owed, Soon, Key
<1>10. ASSUME NEW r \in Keys, Send(r) PROVE Owed' /\ Rows'
  <2>1. /\ pass.pc = "send" /\ r \in pass.todo /\ pass' = [pass EXCEPT !.pc = "mark", !.row = r]
        /\ heard' = [heard EXCEPT ![reminders[r].slot] =
                       IF heard[reminders[r].slot] < 2 THEN heard[reminders[r].slot] + 1
                       ELSE heard[reminders[r].slot]]
        /\ UNCHANGED <<now, events, reminders>>
    BY <1>10 DEF Send, First
  <2>2. pass'.pc = "mark" /\ pass'.todo = pass.todo /\ pass'.worked = pass.worked /\ pass'.row = r
    BY <1>0, <2>1 DEF Passes
  <2>3. reminders[r].status = "PENDING" /\ reminders[r].slot \in Slots
    BY <2>1 DEF Owed, Rows
  <2>4. heard'[reminders[r].slot] > 0 /\ \A s \in Slots : heard[s] > 0 => heard'[s] > 0
    BY <1>0, <2>1, <2>3
  <2>5. Owed'
    BY <2>1, <2>2, <2>4 DEF Owed, Soon, Key
  <2>6. Rows'
    BY <2>1, <2>4 DEF Rows
  <2>7. QED
    BY <2>5, <2>6
<1>11. CASE MarkSent
  <2> DEFINE r == pass.row
  <2>1. /\ pass.pc = "mark" /\ r \in pass.todo /\ r \in Keys /\ heard[reminders[r].slot] > 0
        /\ reminders' = [reminders EXCEPT ![r] = [reminders[r] EXCEPT !.status = "SENT"]]
        /\ pass' = [pass EXCEPT !.pc = "send", !.todo = pass.todo \ {r}, !.row = <<>>]
        /\ UNCHANGED <<now, events, heard>>
    BY <1>11 DEF MarkSent, Owed
  <2> HIDE DEF r
  <2>2. pass'.pc = "send" /\ pass'.todo = pass.todo \ {r} /\ pass'.worked = pass.worked
    BY <1>0, <2>1 DEF Passes
  <2>3. /\ reminders'[r] = [reminders[r] EXCEPT !.status = "SENT"]
        /\ \A k \in Keys : k # r => reminders'[k] = reminders[k]
    BY <2>1, OneRow
  <2>4. reminders'[r].status = "SENT" /\ reminders'[r].slot = reminders[r].slot
    BY <1>0, <2>1, <2>3 DEF ReminderRow
  <2>5. reminders[r].status = "PENDING"
    BY <2>1 DEF Owed
  <2>6. \A n \in Soon : reminders'[Key(n)].status # "NONE"
    <3>1. \A n \in Soon : Key(n) \in Keys /\ reminders[Key(n)].status # "NONE"
      BY <2>1, SoonKeys DEF Owed
    <3>2. QED
      BY <2>3, <2>4, <3>1
  <2>7. Owed'
    <3>1. pass'.todo \subseteq Keys /\ \A k \in pass'.todo : reminders'[k].status = "PENDING"
      BY <2>1, <2>2, <2>3 DEF Owed
    <3>2. pass'.worked => \A k \in Keys : reminders'[k].status = "PENDING" => k \in pass'.todo
      BY <2>1, <2>2, <2>3, <2>4 DEF Owed
    <3>3. Soon' = Soon /\ \A m : Key(m)' = <<m, Day(events[m].slot)>>
      BY <2>1 DEF Soon, Key
    <3>4. QED
      BY <2>2, <2>6, <3>1, <3>2, <3>3 DEF Owed, Key
  <2>8. Rows'
    BY <2>1, <2>3, <2>4, <2>5 DEF Rows
  <2>9. QED
    BY <2>7, <2>8
<1>12. QED
  BY <1>2, <1>3, <1>4, <1>5, <1>6, <1>7, <1>8, <1>9, <1>10, <1>11, Kinds DEF Announce, Dispatch

-----------------------------------------------------------------------------
\* As long as the course's classes keep their places: what has been read, what
\* is stored and what is claimed agree with the sheet on the time of each place.
Placed == ~rearranged =>
    /\ pass.pc = "read" => SlotsOf(pass.grid) = { s \in SlotsOf(sheet) : Day(s) \notin pass.tabs }
    /\ \A n \in Places : ~events[n].off => n <= Cardinality(sheet) /\ events[n].slot = SlotAt(n)
    /\ \A k \in Keys : reminders[k].status # "NONE" =>
          k[1] <= Cardinality(sheet) /\ reminders[k].slot = SlotAt(k[1]) /\ k[2] = Day(SlotAt(k[1]))

\* No step but a claim claims anything, or moves what is claimed.
LEMMA RowsStay ==
    ASSUME ClassTypeOK, Owed, [ClassNext]_classVars, ~Claim,
           NEW k \in Keys
    PROVE  /\ reminders'[k].slot = reminders[k].slot
           /\ reminders'[k].status # "NONE" => reminders[k].status # "NONE"
           /\ reminders[k].status = "SENT" => reminders'[k].status = "SENT"
<1>0. reminders \in [Keys -> ReminderRow]
  BY DEF ClassTypeOK, ReminderRow
<1>1. CASE reminders'[k] = reminders[k]
  BY <1>1
<1>2. ASSUME reminders[k].status = "PENDING",
             \E st \in {"FAILED", "SENT"} : reminders'[k] = [reminders[k] EXCEPT !.status = st]
      PROVE  /\ reminders'[k].slot = reminders[k].slot
             /\ reminders'[k].status # "NONE" => reminders[k].status # "NONE"
             /\ reminders[k].status = "SENT" => reminders'[k].status = "SENT"
  <2>1. reminders[k] \in ReminderRow
    BY <1>0
  <2>2. reminders'[k].slot = reminders[k].slot
    BY <1>2, <2>1 DEF ReminderRow
  <2>3. QED
    BY <1>2, <2>2
<1>3. CASE Edit \/ Advance \/ UNCHANGED classVars
  BY <1>1, <1>3 DEF Edit, Advance, classVars
<1>4. CASE StartSync \/ ReadTab \/ StoreNext \/ CancelMissing
           \/ BadScrape \/ StoreFails \/ EndPass \/ PassDies \/ StartDispatch
  BY <1>1, <1>4 DEF StartSync, ReadTab, StoreNext, CancelMissing,
     BadScrape, StoreFails, EndPass, PassDies, StartDispatch
<1>5. CASE Expire
  <2>1. reminders'[k] = IF Stale(reminders[k]) THEN [reminders[k] EXCEPT !.status = "FAILED"]
                        ELSE reminders[k]
    BY <1>5 DEF Expire
  <2>2. QED
    BY <1>1, <1>2, <2>1 DEF Stale
<1>6. ASSUME NEW r \in Keys, TooLate(r) \/ NotSent(r) \/ Send(r)
      PROVE  /\ reminders'[k].slot = reminders[k].slot
             /\ reminders'[k].status # "NONE" => reminders[k].status # "NONE"
             /\ reminders[k].status = "SENT" => reminders'[k].status = "SENT"
  <2>1. CASE TooLate(r)
    <3>1. reminders' = [reminders EXCEPT ![r] = [reminders[r] EXCEPT !.status = "FAILED"]]
      BY <2>1 DEF TooLate
    <3>2. reminders[r].status = "PENDING"
      BY <2>1 DEF TooLate, First, Owed
    <3>3. QED
      BY <1>1, <1>2, <3>1, <3>2, OneRow
  <2>2. CASE NotSent(r) \/ Send(r)
    BY <1>1, <2>2 DEF NotSent, Send
  <2>3. QED
    BY <1>6, <2>1, <2>2
<1>7. CASE MarkSent
  <2>1. pass.row \in Keys /\ reminders[pass.row].status = "PENDING"
        /\ reminders' = [reminders EXCEPT ![pass.row] = [reminders[pass.row] EXCEPT !.status = "SENT"]]
    BY <1>7 DEF MarkSent, Owed
  <2>2. QED
    BY <1>1, <1>2, <2>1, OneRow
<1>8. QED
  BY <1>3, <1>4, <1>5, <1>6, <1>7, Kinds DEF Announce, Dispatch

\* A class struck out, or restored, keeps every place.
LEMMA StrikeKeepsPlaces ==
    ASSUME ClassTypeOK, ClassTypeOK', Strike
    PROVE  /\ SlotsOf(sheet') = SlotsOf(sheet) /\ Cardinality(sheet') = Cardinality(sheet)
           /\ \A n \in 1..Cardinality(sheet) : SlotAt(n)' = SlotAt(n)
<1>1. PICK c \in sheet : sheet' = (sheet \ {c}) \cup {Class(c.slot, ~c.off)}
  BY DEF Strike
<1>2. Class(c.slot, ~c.off).slot = c.slot
  BY DEF Class
<1>3. SlotsOf(sheet') = SlotsOf(sheet)
  BY <1>1, <1>2 DEF SlotsOf
<1>4. sheet \in SUBSET Cells /\ Single(sheet) /\ sheet' \in SUBSET Cells /\ Single(sheet')
  BY DEF ClassTypeOK, Single
<1>5. /\ Cardinality(sheet') = Cardinality(sheet)
      /\ \A n \in 1..Cardinality(sheet) : Ordered(sheet')[n].slot = Ordered(sheet)[n].slot
  BY <1>3, <1>4, SameSlots
<1>6. QED
  BY <1>3, <1>5 DEF SlotAt

\* A claim is about the class its place has, until the course is arranged anew.
LEMMA PlacedStep ==
    ASSUME ClassTypeOK, ClassTypeOK', Scraped, Owed, Placed,
           [ClassNext]_classVars
    PROVE  Placed'
<1>0. /\ sheet \in SUBSET Cells /\ Single(sheet) /\ pass.grid \in SUBSET Cells
      /\ events \in [Places -> Cells \cup {None}]
      /\ rearranged \in BOOLEAN /\ rearranged' \in BOOLEAN
  BY DEF ClassTypeOK, Passes, Single
<1>1. SUFFICES ASSUME ~rearranged'
               PROVE  /\ pass'.pc = "read" =>
                           SlotsOf(pass'.grid) = { s \in SlotsOf(sheet') : Day(s) \notin pass'.tabs }
                      /\ \A n \in Places : ~events'[n].off =>
                           n <= Cardinality(sheet') /\ events'[n].slot = SlotAt(n)'
                      /\ \A k \in Keys : reminders'[k].status # "NONE" =>
                           /\ k[1] <= Cardinality(sheet') /\ reminders'[k].slot = SlotAt(k[1])'
                           /\ k[2] = Day(SlotAt(k[1])')
  BY DEF Placed, SlotAt
<1>2. ~rearranged
  BY <1>0, <1>1 DEF ClassNext, classVars, Edit, Advance, Sync, StartSync,
     ReadTab, BadScrape, StoreNext, StoreFails, CancelMissing,
     Announce, Expire, Claim, StartDispatch, Dispatch, TooLate,
     NotSent, Send, MarkSent, EndPass, PassDies, upsets
<1>3. /\ pass.pc = "read" => SlotsOf(pass.grid) = { s \in SlotsOf(sheet) : Day(s) \notin pass.tabs }
      /\ \A n \in Places : ~events[n].off => n <= Cardinality(sheet) /\ events[n].slot = SlotAt(n)
      /\ \A k \in Keys : reminders[k].status # "NONE" =>
            k[1] <= Cardinality(sheet) /\ reminders[k].slot = SlotAt(k[1]) /\ k[2] = Day(SlotAt(k[1]))
  BY <1>2 DEF Placed
\* The reminders follow the sheet wherever the sheet keeps its places.
<1>4. ASSUME ~Claim, Cardinality(sheet') = Cardinality(sheet),
             \A n \in 1..Cardinality(sheet) : SlotAt(n)' = SlotAt(n)
      PROVE  \A k \in Keys : reminders'[k].status # "NONE" =>
                /\ k[1] <= Cardinality(sheet') /\ reminders'[k].slot = SlotAt(k[1])'
                /\ k[2] = Day(SlotAt(k[1])')
  <2> SUFFICES ASSUME NEW k \in Keys, reminders'[k].status # "NONE"
               PROVE  /\ k[1] <= Cardinality(sheet') /\ reminders'[k].slot = SlotAt(k[1])'
                      /\ k[2] = Day(SlotAt(k[1])')
    OBVIOUS
  <2>1. reminders'[k].slot = reminders[k].slot /\ reminders[k].status # "NONE"
    BY <1>4, RowsStay
  <2>2. k[1] \in 1..Cardinality(sheet)
    <3>1. k[1] <= Cardinality(sheet) /\ k[1] \in 1..Cardinality(Slots)
      BY <1>3, <2>1, ClassConstants DEF Keys
    <3>2. Cardinality(sheet) \in 0..Cardinality(Slots) /\ Cardinality(Slots) \in Nat
      BY <1>0, SlotsCount, ClassConstants
    <3> DEFINE many == Cardinality(sheet)
               most == Cardinality(Slots)
    <3>3. k[1] <= many /\ k[1] \in 1..most /\ many \in 0..most /\ most \in Nat
      BY <3>1, <3>2
    <3> HIDE DEF many, most
    <3>4. k[1] \in 1..many
      BY <3>3
    <3>5. QED
      BY <3>4 DEF many
  <2>3. SlotAt(k[1])' = SlotAt(k[1])
    BY <1>4, <2>2
  <2>4. QED
    BY <1>3, <1>4, <2>1, <2>3
\* What is on in the timetable stays where the sheet has it.
<1>5. ASSUME Cardinality(sheet') = Cardinality(sheet), \A n \in 1..Cardinality(sheet) : SlotAt(n)' = SlotAt(n),
             NEW n \in Places, events'[n] = events[n], ~events'[n].off
      PROVE  n <= Cardinality(sheet') /\ events'[n].slot = SlotAt(n)'
  <2>1. n <= Cardinality(sheet) /\ events[n].slot = SlotAt(n)
    BY <1>3, <1>5
  <2>2. n \in 1..Cardinality(sheet)
    <3>1. n \in 1..Cardinality(Slots) /\ Cardinality(sheet) \in 0..Cardinality(Slots) /\ Cardinality(Slots) \in Nat
      BY <1>0, SlotsCount, ClassConstants
    <3> DEFINE many == Cardinality(sheet)
               most == Cardinality(Slots)
    <3>2. n <= many /\ n \in 1..most /\ many \in 0..most /\ most \in Nat
      BY <2>1, <3>1
    <3> HIDE DEF many, most
    <3>3. n \in 1..many
      BY <3>2
    <3>4. QED
      BY <3>3 DEF many
  <2>3. QED
    BY <1>5, <2>1, <2>2
<1>6. ASSUME UNCHANGED sheet
      PROVE  Cardinality(sheet') = Cardinality(sheet) /\ \A n \in 1..Cardinality(sheet) : SlotAt(n)' = SlotAt(n)
  BY <1>6 DEF SlotAt
<1>7. CASE Edit
  <2>1. Strike /\ UNCHANGED <<events, reminders, pass>> /\ ~Claim
    <3>1. Strike /\ UNCHANGED <<events, reminders, pass>> /\ edits' = edits + 1
      BY <1>1, <1>7 DEF Edit
    <3>2. edits \in Nat
      BY ClassConstants DEF ClassTypeOK
    <3>3. QED
      BY <3>1, <3>2 DEF Claim
  <2>2. /\ SlotsOf(sheet') = SlotsOf(sheet) /\ Cardinality(sheet') = Cardinality(sheet)
        /\ \A n \in 1..Cardinality(sheet) : SlotAt(n)' = SlotAt(n)
    BY <2>1, StrikeKeepsPlaces
  <2>3. QED
    BY <1>3, <1>4, <1>5, <2>1, <2>2
<1>8. CASE Advance \/ UNCHANGED classVars
  <2>1. UNCHANGED <<sheet, events, reminders, pass>>
    BY <1>8 DEF Advance, classVars
  <2>2. QED
    BY <1>3, <2>1 DEF SlotAt
<1>9. CASE StartSync
  <2>1. /\ pass'.pc = "read" /\ pass'.tabs = Days /\ pass'.grid = {} /\ UNCHANGED <<sheet, events, reminders>>
    BY <1>9, Syncing
  <2>2. SlotsOf(pass'.grid) = {}
    BY <2>1 DEF SlotsOf
  <2>3. { s \in SlotsOf(sheet') : Day(s) \notin pass'.tabs } = {}
    <3>1. \A c \in sheet : c.slot \in Slots /\ Day(c.slot) \in Days
      BY <1>0 DEF Cells, Days
    <3>2. \A s \in SlotsOf(sheet) : Day(s) \in Days
      BY <3>1 DEF SlotsOf
    <3>3. SlotsOf(sheet') = SlotsOf(sheet)
      BY <2>1
    <3>4. QED
      BY <2>1, <3>2, <3>3
  <2>4. QED
    BY <1>3, <2>1, <2>2, <2>3 DEF SlotAt
<1>10. CASE ReadTab
  <2>1. PICK d \in pass.tabs : /\ pass'.tabs = pass.tabs \ {d}
                               /\ pass'.grid = pass.grid \cup { c \in sheet : Day(c.slot) = d }
    BY <1>10, Syncing
  <2>2. pass.pc = "read" /\ UNCHANGED <<sheet, events, reminders>>
    BY <1>10, Syncing
  <2>3. SlotsOf(pass'.grid) = SlotsOf(pass.grid) \cup { s \in SlotsOf(sheet) : Day(s) = d }
    BY <2>1 DEF SlotsOf
  <2>4. SlotsOf(pass'.grid) = { s \in SlotsOf(sheet') : Day(s) \notin pass'.tabs }
    BY <1>3, <2>1, <2>2, <2>3
  <2>5. QED
    BY <1>3, <2>2, <2>4 DEF SlotAt
<1>11. CASE StoreNext
  <2>1. /\ pass.next \in 1..Cardinality(pass.grid) /\ pass.next \in Places /\ pass.pc = "read" /\ pass.tabs = {}
        /\ events' = [events EXCEPT ![pass.next] = Ordered(pass.grid)[pass.next]]
        /\ pass' = [pass EXCEPT !.next = pass.next + 1] /\ UNCHANGED <<sheet, reminders>>
    BY <1>11, StoreStep
  <2>2. pass'.tabs = pass.tabs /\ pass'.grid = pass.grid
    BY <2>1 DEF ClassTypeOK, Passes
  <2>3. SlotsOf(pass.grid) = SlotsOf(sheet)
    BY <1>3, <2>1
  <2>4. /\ Cardinality(pass.grid) = Cardinality(sheet)
        /\ Ordered(pass.grid)[pass.next].slot = SlotAt(pass.next)
    BY <1>0, <2>1, <2>3, SameSlots DEF Scraped, SlotAt
  <2>5. ASSUME NEW n \in Places, ~events'[n].off
        PROVE  n <= Cardinality(sheet') /\ events'[n].slot = SlotAt(n)'
    <3>1. CASE n = pass.next
      <4>1. events'[n] = Ordered(pass.grid)[n] /\ SlotAt(n)' = SlotAt(n)
        BY <1>0, <2>1, <3>1 DEF SlotAt
      <4>2. n <= Cardinality(sheet')
        BY <2>1, <2>4, <3>1
      <4>3. QED
        BY <2>4, <3>1, <4>1, <4>2
    <3>2. CASE n # pass.next
      <4>1. events'[n] = events[n]
        BY <1>0, <2>1, <3>2
      <4>2. QED
        BY <1>5, <1>6, <2>1, <2>5, <4>1
    <3>3. QED
      BY <3>1, <3>2
  <2>6. QED
    BY <1>3, <2>1, <2>2, <2>5 DEF SlotAt
<1>12. CASE CancelMissing
  <2>1. /\ pass'.pc = "expire" /\ UNCHANGED <<sheet, reminders>>
        /\ events' = [n \in Places |-> IF n >= pass.next THEN [events[n] EXCEPT !.off = TRUE]
                                       ELSE events[n]]
    BY <1>12, Syncing
  <2>2. ASSUME NEW n \in Places, ~events'[n].off
        PROVE  events'[n] = events[n]
    <3>1. CASE n >= pass.next
      <4>1. events'[n] = [events[n] EXCEPT !.off = TRUE]
        BY <2>1, <3>1
      <4>2. events[n] \in [slot : Slots \cup {0}, off : BOOLEAN]
        <5>1. None \in [slot : Slots \cup {0}, off : BOOLEAN]
          BY DEF None
        <5>2. QED
          BY <1>0, <5>1 DEF Cells
      <4>3. QED
        BY <2>2, <4>1, <4>2
    <3>2. CASE ~(n >= pass.next)
      BY <2>1, <3>2
    <3>3. QED
      BY <3>1, <3>2
  <2>3. QED
    BY <1>3, <1>5, <1>6, <2>1, <2>2 DEF SlotAt
<1>13. CASE BadScrape \/ StoreFails \/ Announce \/ PassDies
  <2>1. UNCHANGED <<sheet, events>> /\ pass'.pc # "read"
    BY <1>13, GoesOn
  <2>2. \A k \in Keys : reminders'[k].status # "NONE" =>
           /\ k[1] <= Cardinality(sheet') /\ reminders'[k].slot = SlotAt(k[1])'
           /\ k[2] = Day(SlotAt(k[1])')
    <3>1. CASE Claim
      <4>1. PICK n \in pass.todo :
               reminders' = [reminders EXCEPT ![Key(n)] = IF reminders[Key(n)] = Unclaimed
                                                          THEN Reminder(events[n].slot, "PENDING")
                                                          ELSE reminders[Key(n)]]
        BY <3>1 DEF Claim, Key
      <4>2. n \in Soon
        BY <3>1 DEF Claim, Owed
      <4>3. Key(n) \in Keys /\ n \in Places /\ ~events[n].off
        BY <4>2, SoonKeys
      <4>4. n <= Cardinality(sheet) /\ events[n].slot = SlotAt(n)
        BY <1>3, <4>3
      <4> DEFINE row == IF reminders[Key(n)] = Unclaimed
                        THEN Reminder(events[n].slot, "PENDING") ELSE reminders[Key(n)]
      <4>5. reminders' = [reminders EXCEPT ![Key(n)] = row]
        BY <4>1
      <4>6. row = reminders[Key(n)] \/ row.slot = events[n].slot
        BY DEF Reminder
      <4> HIDE DEF row
      <4>7. reminders'[Key(n)] = row /\ \A k \in Keys : k # Key(n) => reminders'[k] = reminders[k]
        BY <4>3, <4>5, OneRow
      <4>8. Key(n)[1] = n /\ Key(n)[2] = Day(events[n].slot)
        BY DEF Key
      <4> SUFFICES ASSUME NEW k \in Keys, reminders'[k].status # "NONE"
                   PROVE  /\ k[1] <= Cardinality(sheet) /\ reminders'[k].slot = SlotAt(k[1])
                          /\ k[2] = Day(SlotAt(k[1]))
        BY <2>1 DEF SlotAt
      <4>9. CASE reminders'[k] = reminders[k]
        BY <1>3, <4>9
      <4>10. CASE k = Key(n) /\ reminders'[k].slot = events[n].slot
        BY <4>4, <4>8, <4>10
      <4>11. QED
        BY <4>6, <4>7, <4>9, <4>10
    <3>2. CASE ~Claim
      BY <1>4, <1>6, <2>1, <3>2
    <3>3. QED
      BY <3>1, <3>2
  <2>3. QED
    BY <1>3, <2>1, <2>2 DEF SlotAt
<1>14. QED
  BY <1>7, <1>8, <1>9, <1>10, <1>11, <1>12, <1>13, Kinds

-----------------------------------------------------------------------------
\* As long as places are kept and marks are made: a class heard of was heard
\* of once, and a reminder shows it, or is about to.
Shown(s) == \E k \in Keys : /\ reminders[k].slot = s
                            /\ reminders[k].status = "SENT" \/ (pass.pc = "mark" /\ pass.row = k)

HeardOf == ~rearranged /\ ~markLost => \A s \in Slots : heard[s] <= 1 /\ (heard[s] > 0 => Shown(s))

\* One reminder a time.
LEMMA OneReminder ==
    ASSUME ClassTypeOK, Placed, ~rearranged,
           NEW j \in Keys, NEW k \in Keys,
           reminders[j].status # "NONE", reminders[k].status # "NONE", reminders[j].slot = reminders[k].slot
    PROVE  j = k
<1>1. sheet \in SUBSET Cells /\ Single(sheet)
  BY DEF ClassTypeOK, Single
<1>2. /\ j[1] <= Cardinality(sheet) /\ reminders[j].slot = SlotAt(j[1]) /\ j[2] = Day(SlotAt(j[1]))
      /\ k[1] <= Cardinality(sheet) /\ reminders[k].slot = SlotAt(k[1]) /\ k[2] = Day(SlotAt(k[1]))
  BY DEF Placed
<1>3. j[1] \in 1..Cardinality(sheet) /\ k[1] \in 1..Cardinality(sheet)
  <2>1. /\ j[1] \in 1..Cardinality(Slots) /\ k[1] \in 1..Cardinality(Slots)
        /\ Cardinality(sheet) \in 0..Cardinality(Slots) /\ Cardinality(Slots) \in Nat
    BY <1>1, SlotsCount, ClassConstants DEF Keys
  <2> DEFINE many == Cardinality(sheet)
             most == Cardinality(Slots)
  <2>2. /\ j[1] <= many /\ k[1] <= many /\ j[1] \in 1..most /\ k[1] \in 1..most
        /\ many \in 0..most /\ most \in Nat
    BY <1>2, <2>1
  <2> HIDE DEF many, most
  <2>3. j[1] \in 1..many /\ k[1] \in 1..many
    BY <2>2
  <2>4. QED
    BY <2>3 DEF many
<1>4. j[1] = k[1]
  <2> DEFINE c == Ordered(sheet)[j[1]]
             d == Ordered(sheet)[k[1]]
  <2>1. c \in sheet /\ Place(c, sheet) = j[1] /\ d \in sheet /\ Place(d, sheet) = k[1]
    BY <1>1, <1>3, OrderedCells
  <2>2. c.slot = d.slot
    BY <1>2 DEF SlotAt
  <2> HIDE DEF c, d
  <2>3. c = d
    BY <1>1, <2>1, <2>2 DEF Single
  <2>4. QED
    BY <2>1, <2>3
<1>5. j[2] = k[2]
  BY <1>2, <1>4
<1>6. QED
  BY <1>4, <1>5 DEF Keys

\* Every step keeps a class that was heard of claimed and spent.
LEMMA HeardStep ==
    ASSUME ClassTypeOK, Owed, Rows, Placed, HeardOf, [ClassNext]_classVars,
           ClassTypeOK'
    PROVE  HeardOf'
<1>0. /\ pass \in Passes(IF pass.pc = "claim" THEN Places ELSE Keys)
      /\ reminders \in [Keys -> ReminderRow] /\ heard \in [Slots -> 0..2]
      /\ rearranged \in BOOLEAN /\ rearranged' \in BOOLEAN /\ markLost \in BOOLEAN /\ markLost' \in BOOLEAN
  BY DEF ClassTypeOK, ReminderRow
<1>1. SUFFICES ASSUME ~rearranged', ~markLost'
               PROVE  \A s \in Slots : heard'[s] <= 1 /\ (heard'[s] > 0 => Shown(s)')
  BY DEF HeardOf
<1>2. ~rearranged /\ ~markLost /\ (PassDies => pass.pc # "mark")
  BY <1>0, <1>1 DEF ClassNext, classVars, Edit, Advance, Sync, StartSync,
     ReadTab, BadScrape, StoreNext, StoreFails, CancelMissing,
     Announce, Expire, Claim, StartDispatch, Dispatch, TooLate,
     NotSent, Send, MarkSent, EndPass, PassDies, upsets
<1>3. \A s \in Slots : heard[s] <= 1 /\ (heard[s] > 0 => Shown(s))
  BY <1>2 DEF HeardOf
\* A step that neither sends nor marks.
<1>4. ASSUME UNCHANGED heard, pass.pc # "mark" \/ UNCHANGED pass,
             \A k \in Keys : reminders[k].status = "SENT" \/ UNCHANGED reminders =>
                reminders'[k].slot = reminders[k].slot /\ reminders'[k].status = reminders[k].status,
             pass.pc = "mark" => UNCHANGED reminders
      PROVE  \A s \in Slots : heard'[s] <= 1 /\ (heard'[s] > 0 => Shown(s)')
  <2> SUFFICES ASSUME NEW s \in Slots, heard[s] > 0 PROVE Shown(s)'
    BY <1>3, <1>4
  <2>1. PICK k \in Keys : /\ reminders[k].slot = s
                          /\ reminders[k].status = "SENT" \/ (pass.pc = "mark" /\ pass.row = k)
    BY <1>3 DEF Shown
  <2>2. reminders'[k].slot = s /\ (reminders'[k].status = "SENT" \/ (pass'.pc = "mark" /\ pass'.row = k))
    BY <1>4, <2>1
  <2>3. QED
    BY <2>2 DEF Shown
<1>5. CASE Edit \/ Advance \/ UNCHANGED classVars
  BY <1>4, <1>5 DEF Edit, Advance, classVars
<1>6. CASE StartSync \/ ReadTab \/ StoreNext \/ CancelMissing
           \/ BadScrape \/ StoreFails \/ EndPass \/ PassDies \/ StartDispatch
  <2>1. UNCHANGED <<heard, reminders>> /\ pass.pc # "mark"
    BY <1>2, <1>6 DEF StartSync, ReadTab, StoreNext, CancelMissing,
       BadScrape, StoreFails, EndPass, PassDies, StartDispatch
  <2>2. QED
    BY <1>4, <2>1
<1>7. CASE Expire
  <2>1. UNCHANGED heard /\ pass.pc # "mark"
        /\ reminders' = [k \in Keys |-> IF Stale(reminders[k])
                                        THEN [reminders[k] EXCEPT !.status = "FAILED"]
                                        ELSE reminders[k]]
    BY <1>7 DEF Expire
  <2>2. \A k \in Keys : reminders[k].status = "SENT" => reminders'[k] = reminders[k]
    BY <2>1 DEF Stale
  <2>3. QED
    BY <1>4, <2>1, <2>2
<1>8. CASE Claim
  <2>1. PICK n \in pass.todo :
           reminders' = [reminders EXCEPT ![Key(n)] = IF reminders[Key(n)] = Unclaimed
                                                      THEN Reminder(events[n].slot, "PENDING")
                                                      ELSE reminders[Key(n)]]
    BY <1>8 DEF Claim, Key
  <2>2. n \in Soon /\ UNCHANGED heard /\ pass.pc # "mark"
    BY <1>8 DEF Claim, Owed
  <2>3. Key(n) \in Keys
    BY <2>2, SoonKeys
  <2> DEFINE row == IF reminders[Key(n)] = Unclaimed
                    THEN Reminder(events[n].slot, "PENDING") ELSE reminders[Key(n)]
  <2>4. reminders[Key(n)].status = "SENT" => row = reminders[Key(n)]
    BY DEF Unclaimed, Reminder
  <2>5. reminders' = [reminders EXCEPT ![Key(n)] = row]
    BY <2>1
  <2> HIDE DEF row
  <2>6. \A k \in Keys : reminders[k].status = "SENT" => reminders'[k] = reminders[k]
    BY <2>3, <2>4, <2>5, OneRow
  <2>7. QED
    BY <1>4, <2>2, <2>6
<1>9. ASSUME NEW r \in Keys, TooLate(r) \/ NotSent(r)
      PROVE  \A s \in Slots : heard'[s] <= 1 /\ (heard'[s] > 0 => Shown(s)')
  <2>1. UNCHANGED heard /\ pass.pc = "send"
    BY <1>9 DEF TooLate, NotSent
  <2>2. CASE TooLate(r)
    <3>1. reminders[r].status = "PENDING"
          /\ reminders' = [reminders EXCEPT ![r] = [reminders[r] EXCEPT !.status = "FAILED"]]
      BY <2>2 DEF TooLate, First, Owed
    <3>2. \A k \in Keys : reminders[k].status = "SENT" => reminders'[k] = reminders[k]
      BY <3>1, OneRow
    <3>3. QED
      BY <1>4, <2>1, <3>2
  <2>3. CASE NotSent(r)
    <3>1. UNCHANGED reminders
      BY <2>3 DEF NotSent
    <3>2. QED
      BY <1>4, <2>1, <3>1
  <2>4. QED
    BY <1>9, <2>2, <2>3
<1>10. ASSUME NEW r \in Keys, Send(r)
       PROVE  \A s \in Slots : heard'[s] <= 1 /\ (heard'[s] > 0 => Shown(s)')
  <2>1. /\ pass.pc = "send" /\ r \in pass.todo /\ pass' = [pass EXCEPT !.pc = "mark", !.row = r]
        /\ heard' = [heard EXCEPT ![reminders[r].slot] =
                       IF heard[reminders[r].slot] < 2 THEN heard[reminders[r].slot] + 1
                       ELSE heard[reminders[r].slot]]
        /\ UNCHANGED reminders
    BY <1>10 DEF Send, First
  <2>2. pass'.pc = "mark" /\ pass'.row = r
    BY <1>0, <2>1 DEF Passes
  <2>3. reminders[r].status = "PENDING" /\ reminders[r].slot \in Slots
    BY <2>1 DEF Owed, Rows
  <2>4. ~(heard[reminders[r].slot] > 0)
    <3> SUFFICES ASSUME heard[reminders[r].slot] > 0 PROVE FALSE
      OBVIOUS
    <3>1. Shown(reminders[r].slot)
      BY <1>3, <2>3
    <3>2. PICK k \in Keys : reminders[k].slot = reminders[r].slot /\ reminders[k].status = "SENT"
      BY <2>1, <3>1 DEF Shown
    <3>3. k = r
      BY <1>2, <2>3, <3>2, OneReminder
    <3>4. QED
      BY <2>3, <3>2, <3>3
  <2>5. heard'[reminders[r].slot] = 1 /\ \A s \in Slots : s # reminders[r].slot => heard'[s] = heard[s]
    <3>1. heard[reminders[r].slot] = 0
      <4> DEFINE times == heard[reminders[r].slot]
      <4>1. times \in 0..2 /\ ~(times > 0)
        BY <1>0, <2>3, <2>4
      <4> HIDE DEF times
      <4>2. times = 0
        BY <4>1
      <4>3. QED
        BY <4>2 DEF times
    <3>2. QED
      BY <1>0, <2>1, <2>3, <3>1
  <2>6. ASSUME NEW s \in Slots PROVE heard'[s] <= 1 /\ (heard'[s] > 0 => Shown(s)')
    <3>1. CASE s = reminders[r].slot
      <4>1. Shown(s)'
        BY <2>1, <2>2, <3>1 DEF Shown
      <4>2. QED
        BY <2>5, <3>1, <4>1
    <3>2. CASE s # reminders[r].slot
      <4>1. ASSUME heard[s] > 0 PROVE Shown(s)'
        <5>1. PICK k \in Keys : reminders[k].slot = s /\ reminders[k].status = "SENT"
          BY <1>3, <2>1, <4>1 DEF Shown
        <5>2. QED
          BY <2>1, <5>1 DEF Shown
      <4>2. QED
        BY <1>3, <2>5, <3>2, <4>1
    <3>3. QED
      BY <3>1, <3>2
  <2>7. QED
    BY <2>6
<1>11. CASE MarkSent
  <2> DEFINE r == pass.row
  <2>1. /\ pass.pc = "mark" /\ r \in Keys /\ UNCHANGED heard
        /\ reminders' = [reminders EXCEPT ![r] = [reminders[r] EXCEPT !.status = "SENT"]]
    BY <1>11 DEF MarkSent, Owed
  <2> HIDE DEF r
  <2>2. /\ reminders'[r] = [reminders[r] EXCEPT !.status = "SENT"]
        /\ \A k \in Keys : k # r => reminders'[k] = reminders[k]
    BY <2>1, OneRow
  <2>3. reminders'[r].status = "SENT" /\ reminders'[r].slot = reminders[r].slot
    BY <1>0, <2>1, <2>2 DEF ReminderRow
  <2>4. ASSUME NEW s \in Slots, heard[s] > 0 PROVE Shown(s)'
    <3>1. PICK k \in Keys : /\ reminders[k].slot = s
                            /\ reminders[k].status = "SENT" \/ (pass.pc = "mark" /\ pass.row = k)
      BY <1>3, <2>4 DEF Shown
    <3>2. reminders'[k].slot = s /\ reminders'[k].status = "SENT"
      BY <2>2, <2>3, <3>1 DEF r
    <3>3. QED
      BY <3>2 DEF Shown
  <2>5. QED
    BY <1>3, <2>1, <2>4
<1>12. QED
  BY <1>5, <1>6, <1>7, <1>8, <1>9, <1>10, <1>11, Kinds DEF Announce, Dispatch

-----------------------------------------------------------------------------
ClassInv == ClassTypeOK /\ Scraped /\ Mirror /\ Owed /\ Rows /\ Placed /\ HeardOf

\* The invariant holds of the empty timetable.
LEMMA ClassInvInit == ASSUME ClassInit PROVE ClassInv
<1>1. ClassTypeOK
  BY ClassTypeInit
<1>2. /\ pass.pc = "idle" /\ pass.tabs = {} /\ pass.grid = {} /\ pass.next = 1
      /\ fresh = FALSE /\ events = [n \in Places |-> None]
      /\ reminders = [k \in Keys |-> Unclaimed] /\ heard = [s \in Slots |-> 0]
  BY Stages DEF ClassInit
<1>3. Scraped
  <2>1. Cardinality({}) = 0
    BY FS_EmptySet
  <2>2. QED
    BY <1>2, <2>1 DEF Scraped, Single
<1>4. \A n \in Places : events[n].off
  BY <1>2 DEF None
<1>5. \A k \in Keys : reminders[k].status = "NONE" /\ reminders[k] = Unclaimed
  BY <1>2 DEF Unclaimed, Reminder
<1>6. Mirror /\ Owed /\ Rows
  BY <1>2, <1>5 DEF Mirror, Owed, Rows
<1>7. Placed
  BY <1>2, <1>4, <1>5 DEF Placed
<1>8. HeardOf
  BY <1>2 DEF HeardOf
<1>9. QED
  BY <1>1, <1>3, <1>6, <1>7, <1>8 DEF ClassInv

\* Every step keeps it.
LEMMA ClassInvStep == ASSUME ClassInv, [ClassNext]_classVars PROVE ClassInv'
<1>1. ClassTypeOK'
  BY ClassTypeStep DEF ClassInv
<1>2. Scraped' /\ Mirror' /\ Owed' /\ Rows'
  BY ScrapedStep, MirrorStep, OwedStep DEF ClassInv
<1>3. Placed' /\ HeardOf'
  BY <1>1, PlacedStep, HeardStep DEF ClassInv
<1>4. QED
  BY <1>1, <1>2, <1>3 DEF ClassInv

\* It holds in every state.
LEMMA ClassInvAlways == ClassSpec => []ClassInv
<1>1. ClassInit => ClassInv
  BY ClassInvInit
<1>2. ClassInv /\ [ClassNext]_classVars => ClassInv'
  BY ClassInvStep
<1>3. QED
  BY <1>1, <1>2, PTL DEF ClassSpec

\* Every variable keeps its type, and the sheet shows one class a slot at most.
THEOREM ClassTypeCorrect == ClassSpec => []ClassTypeOK
<1>1. ClassInv => ClassTypeOK
  BY DEF ClassInv
<1>2. QED
  BY <1>1, ClassInvAlways, PTL

\* After a reconciliation of a sheet nobody edited meanwhile, the timetable has
\* exactly the sheet's classes, in order (timetable_sync.py, sync_timetable).
THEOREM TimetableMirrorsHolds ==
    ClassSpec => []TimetableMirrors
<1>1. ASSUME ClassInv PROVE TimetableMirrors
  <2> SUFFICES ASSUME fresh, pass.pc # "read"
               PROVE  /\ { c \in { events[n] : n \in Places } : ~c.off } = { c \in sheet : ~c.off }
                      /\ \A n \in 1..Cardinality(sheet) : events[n] = Ordered(sheet)[n]
    BY DEF TimetableMirrors
  <2>1. \A n \in Places : IF n <= Cardinality(sheet) THEN events[n] = Ordered(sheet)[n]
                          ELSE events[n].off
    BY <1>1 DEF ClassInv, Mirror
  <2>2. sheet \in SUBSET Cells /\ Single(sheet)
    BY <1>1 DEF ClassInv, ClassTypeOK, Single
  <2>3. /\ \A n \in 1..Cardinality(sheet) : n \in Places /\ n <= Cardinality(sheet)
        /\ \A n \in Places : n <= Cardinality(sheet) => n \in 1..Cardinality(sheet)
    <3> DEFINE many == Cardinality(sheet)
               most == Cardinality(Slots)
    <3>1. many \in 0..most /\ most \in Nat /\ Places = 1..most
      BY <2>2, SlotsCount, ClassConstants
    <3> HIDE DEF many, most
    <3>2. /\ \A n \in 1..many : n \in 1..most /\ n <= many
          /\ \A n \in 1..most : n <= many => n \in 1..many
      BY <3>1
    <3>3. QED
      BY <3>1, <3>2 DEF many, most
  <2>4. \A n \in 1..Cardinality(sheet) : events[n] = Ordered(sheet)[n]
    BY <2>1, <2>3
  <2>5. \A c \in sheet : \E n \in Places : events[n] = c
    <3>1. \A c \in sheet : /\ Place(c, sheet) \in 1..Cardinality(sheet)
                           /\ Ordered(sheet)[Place(c, sheet)] = c
      BY <2>2, OrderedCells
    <3>2. QED
      BY <2>3, <2>4, <3>1
  <2>6. \A n \in Places : ~events[n].off => events[n] \in sheet
    <3>1. \A n \in 1..Cardinality(sheet) : Ordered(sheet)[n] \in sheet
      BY <2>2, OrderedCells
    <3>2. QED
      BY <2>1, <2>3, <3>1
  <2>7. { c \in { events[n] : n \in Places } : ~c.off } = { c \in sheet : ~c.off }
    BY <2>5, <2>6
  <2>8. QED
    BY <2>4, <2>7, ClassConstants
<1>2. QED
  BY <1>1, ClassInvAlways, PTL

\* Nobody hears of a class twice, whatever fails, unless a process died between
\* a send and its mark or the course was arranged anew (dispatch_class_reminders).
THEOREM AnnouncedOnceHolds == ClassSpec => []AnnouncedOnce
<1>1. ClassInv => AnnouncedOnce
  BY DEF ClassInv, HeardOf, AnnouncedOnce
<1>2. QED
  BY <1>1, ClassInvAlways, PTL

\* A pass whose messages are delivered leaves no class of the window
\* unannounced (schedule_class_reminders, dispatch_class_reminders).
THEOREM NoneMissedHolds == ClassSpec => NoneMissed
<1>1. ASSUME ClassInv, EndPass, pass.worked, ~rearranged, NEW n \in Soon, events[n].slot > now
      PROVE  heard[events[n].slot] > 0
  <2>1. pass.pc = "send" /\ pass.todo = {}
    BY <1>1 DEF EndPass
  <2>2. Key(n) \in Keys /\ events[n].slot \in Slots /\ ~events[n].off /\ n \in Places
    BY <1>1, SoonKeys DEF ClassInv
  <2>3. reminders[Key(n)].status # "NONE" /\ reminders[Key(n)].status # "PENDING"
    BY <1>1, <2>1, <2>2 DEF ClassInv, Owed
  <2>4. reminders[Key(n)].status \in {"SENT", "FAILED"}
    <3>1. reminders[Key(n)] \in ReminderRow
      BY <1>1, <2>2 DEF ClassInv, ClassTypeOK, ReminderRow
    <3>2. QED
      BY <2>3, <3>1 DEF ReminderRow
  <2>5. reminders[Key(n)].slot = events[n].slot
    <3>1. events[n].slot = SlotAt(n) /\ reminders[Key(n)].slot = SlotAt(Key(n)[1])
      BY <1>1, <2>2, <2>3 DEF ClassInv, Placed
    <3>2. Key(n)[1] = n
      BY DEF Key
    <3>3. QED
      BY <3>1, <3>2
  <2>6. reminders[Key(n)].status # "FAILED"
    <3>1. now \in Nat /\ events[n].slot \in Nat
      <4>1. now \in 0..Horizon
        BY <1>1 DEF ClassInv, ClassTypeOK
      <4>2. now \in Nat
        BY <4>1, ClassConstants
      <4>3. events[n].slot \in Nat
        BY <2>2, ClassConstants
      <4>4. QED
        BY <4>2, <4>3
    <3>2. ~(events[n].slot <= now)
      BY <1>1, <3>1
    <3>3. QED
      BY <1>1, <2>2, <2>5, <3>2 DEF ClassInv, Rows
  <2>7. QED
    BY <1>1, <2>2, <2>4, <2>5, <2>6 DEF ClassInv, Rows
<1>2. ClassInv /\ [ClassNext]_classVars =>
        [EndPass /\ pass.worked /\ ~rearranged =>
           \A n \in Soon : events[n].slot > now => heard[events[n].slot] > 0]_classVars
  BY <1>1
<1>3. QED
  BY <1>2, ClassInvAlways, PTL DEF ClassSpec, NoneMissed
=============================================================================
