--------------------------- MODULE PipelineHealth ---------------------------
(***************************************************************************)
(* The unattended tick over all accounts and its self-alert                *)
(* (ragra/cli.py cmd_tick and _tick_one_user, ragra/health.py): what one   *)
(* failing stage or one failing account does to the rest, and when the     *)
(* owner of a broken component is told.                                    *)
(*                                                                         *)
(* Accounts are their ids, visited in that order.  Why a stage fails is    *)
(* left to `down`; what it does is in the other modules.  A streak counts  *)
(* up to Threshold only: the code compares it with nothing larger.         *)
(***************************************************************************)
EXTENDS Naturals, FiniteSets, Sequences, SequencesExt

CONSTANTS
    Accounts,    \* ids of users
    Components,  \* TICK_COMPONENTS, in order
    Threshold,   \* FAILURE_ALERT_THRESHOLD
    Poisoned,    \* accounts whose run may raise outside every stage
    Ticks,       \* the processes that run a tick
    MaxCrashes   \* bound on the processes that die

ASSUME HealthAssumption ==
    /\ Accounts \subseteq Nat /\ IsFiniteSet(Accounts) /\ 0 \notin Accounts
    /\ Poisoned \subseteq Accounts
    /\ Components \in Seq(STRING)
    /\ Threshold \in Nat \ {0}
    /\ MaxCrashes \in Nat

Parts == ToSet(Components)

VARIABLES
    users,    \* accounts that exist
    health,   \* pipeline_health: a row, or Absent, per account and component
    down,     \* account and component pairs that cannot succeed
    tick,     \* what each process is doing
    told,     \* alerts delivered during the present streak, at most 2 (history)
    crashes,  \* processes that died, in number
    unmarked  \* accounts whose alert went out and was never marked (history)

vars == <<users, health, down, tick, told, crashes, unmarked>>
crashVars == <<crashes, unmarked>>

Absent == [failures |-> 0, alerted |-> FALSE, stored |-> FALSE]
Stored(n, alerted) == [failures |-> n, alerted |-> alerted, stored |-> TRUE]

Idle == [pc |-> "idle", todo |-> {}, user |-> 0, left |-> <<>>, rows |-> {}]
Between(todo) == [Idle EXCEPT !.pc = "between", !.todo = todo]

Upto(bound, n) == IF n < bound THEN n ELSE bound

-----------------------------------------------------------------------------
\* cmd_tick enumerates the accounts once.
StartTick(p) ==
    /\ tick[p].pc = "idle"
    /\ tick' = [tick EXCEPT ![p] = Between(users)]
    /\ UNCHANGED <<users, health, down, told, crashVars>>

NextUser(p) ==
    LET todo == tick[p].todo
    IN  /\ tick[p].pc = "between"
        /\ \E u \in todo :
              /\ \A y \in todo : u <= y
              /\ tick' = [tick EXCEPT ![p] = [Idle EXCEPT !.pc = "stages", !.todo = todo \ {u},
                                                          !.user = u, !.left = Components]]
        /\ UNCHANGED <<users, health, down, told, crashVars>>

\* Regression: a success forgets the failures and keeps the alert.
RecordedKeepAlert(row, ok) ==
    IF ok THEN Stored(0, row.alerted) ELSE Stored(Upto(Threshold, row.failures + 1), row.alerted)

\* record_result
Recorded(row, ok) ==
    IF ok THEN Stored(0, FALSE) ELSE Stored(Upto(Threshold, row.failures + 1), row.alerted)

\* A stage runs, returns an error or raises, and its result is recorded.
Stage(p, ok) ==
    LET u == tick[p].user
        c == Head(tick[p].left)
    IN  /\ tick[p].pc = "stages" /\ tick[p].left # <<>>
        /\ u \in users
        /\ ok => <<u, c>> \notin down
        /\ health' = [health EXCEPT ![u][c] = Recorded(@, ok)]
        /\ told' = [told EXCEPT ![u][c] = IF ok THEN 0 ELSE @]
        /\ tick' = [tick EXCEPT ![p].left = Tail(@)]
        /\ UNCHANGED <<users, down, crashVars>>

\* Regression: a component is worth an alert whether or not one was sent.
WorthAlways(u) == { c \in Parts : health[u][c].failures >= Threshold }

\* The rows check_and_alert selects.
Worth(u) == { c \in Parts : /\ health[u][c].failures >= Threshold
                            /\ ~health[u][c].alerted }

\* check_and_alert up to the send: one message for all the rows.  With no
\* provider, or no delivery, nothing is marked.
CheckAlert(p, delivered) ==
    LET u == tick[p].user
    IN  /\ tick[p].pc = "stages" /\ tick[p].left = <<>>
        /\ u \in users
        /\ delivered => Worth(u) # {}
        /\ told' = IF delivered
                   THEN [told EXCEPT ![u] = [c \in Parts |-> IF c \in Worth(u)
                                                             THEN Upto(2, @[c] + 1) ELSE @[c]]]
                   ELSE told
        /\ tick' = [tick EXCEPT ![p] = IF delivered
                                       THEN [@ EXCEPT !.pc = "mark", !.rows = Worth(u)]
                                       ELSE Between(@.todo)]
        /\ UNCHANGED <<users, health, down, crashVars>>

\* ... and its last commit: the selected rows that still exist are marked.
Mark(p) ==
    LET u == tick[p].user
    IN  /\ tick[p].pc = "mark"
        /\ health' = [health EXCEPT ![u] =
               [c \in Parts |-> IF c \in tick[p].rows /\ @[c].stored
                                THEN [@[c] EXCEPT !.alerted = TRUE] ELSE @[c]]]
        /\ tick' = [tick EXCEPT ![p] = Between(@.todo)]
        /\ UNCHANGED <<users, down, told, crashVars>>

\* Regression: an exception ends the tick.
UserFailsAll(p) ==
    /\ tick[p].pc = "stages"
    /\ tick[p].user \in Poisoned \/ tick[p].user \notin users
    /\ tick' = [tick EXCEPT ![p] = Idle]
    /\ UNCHANGED <<users, health, down, told, crashVars>>

\* An exception outside every stage - the account's rows cannot be recorded,
\* because it has been deleted or they are damaged - reaches the loop over the
\* accounts and ends this account's run.
UserFails(p) ==
    /\ tick[p].pc = "stages"
    /\ tick[p].user \in Poisoned \/ tick[p].user \notin users
    /\ tick' = [tick EXCEPT ![p] = Between(@.todo)]
    /\ UNCHANGED <<users, health, down, told, crashVars>>

EndTick(p) ==
    /\ tick[p].pc = "between" /\ tick[p].todo = {}
    /\ tick' = [tick EXCEPT ![p] = Idle]
    /\ UNCHANGED <<users, health, down, told, crashVars>>

Crash(p) ==
    /\ crashes < MaxCrashes /\ tick[p].pc # "idle"
    /\ crashes' = crashes + 1
    /\ unmarked' = IF tick[p].pc = "mark" THEN unmarked \cup {tick[p].user} ELSE unmarked
    /\ tick' = [tick EXCEPT ![p] = Idle]
    /\ UNCHANGED <<users, health, down, told>>

-----------------------------------------------------------------------------
\* delete_user: the account's health rows go with it.  Ids are never reused.
Delete(u) ==
    /\ u \in users
    /\ users' = users \ {u}
    /\ health' = [health EXCEPT ![u] = [c \in Parts |-> Absent]]
    /\ told' = [told EXCEPT ![u] = [c \in Parts |-> 0]]
    /\ UNCHANGED <<down, tick, crashVars>>

\* Something a component of an account needs stops working, or works again.
Break(u, c) ==
    /\ <<u, c>> \notin down /\ down' = down \cup {<<u, c>>}
    /\ UNCHANGED <<users, health, tick, told, crashVars>>

Repair(u, c) ==
    /\ <<u, c>> \in down /\ down' = down \ {<<u, c>>}
    /\ UNCHANGED <<users, health, tick, told, crashVars>>

Init ==
    /\ users = Accounts
    /\ health = [u \in Accounts |-> [c \in Parts |-> Absent]]
    /\ down = {}
    /\ tick = [p \in Ticks |-> Idle]
    /\ told = [u \in Accounts |-> [c \in Parts |-> 0]]
    /\ crashes = 0 /\ unmarked = {}

Step(p) ==
    \/ StartTick(p) \/ NextUser(p) \/ EndTick(p)
    \/ \E ok \in BOOLEAN : Stage(p, ok)
    \/ \E delivered \in BOOLEAN : CheckAlert(p, delivered)
    \/ Mark(p) \/ UserFails(p)

World ==
    \/ \E u \in Accounts : Delete(u)
    \/ \E u \in Accounts, c \in Parts : Break(u, c) \/ Repair(u, c)

Next == World \/ \E p \in Ticks : Step(p) \/ Crash(p)

Spec == Init /\ [][Next]_vars

\* A tick runs on, the next one is started, and of the alerts that are tried
\* again and again for a sound account one is delivered.
FairSpec ==
    /\ Spec
    /\ \A p \in Ticks :
          /\ WF_vars(Step(p))
          /\ \A u \in Accounts \ Poisoned : SF_vars(tick[p].user = u /\ CheckAlert(p, TRUE))

-----------------------------------------------------------------------------
Row == [failures : 0..Threshold, alerted : BOOLEAN, stored : BOOLEAN]
Work == [pc : {"idle", "between", "stages", "mark"}, todo : SUBSET Accounts,
         user : Accounts \cup {0}, left : Seq(Parts), rows : SUBSET Parts]

\* The types; and no health row outlives its account.
TypeOK ==
    /\ users \subseteq Accounts /\ health \in [Accounts -> [Parts -> Row]]
    /\ down \subseteq Accounts \X Parts
    /\ tick \in [Ticks -> Work]
    /\ \A p \in Ticks : tick[p].pc \in {"stages", "mark"} => tick[p].user \in Accounts
    /\ told \in [Accounts -> [Parts -> 0..2]]
    /\ crashes \in 0..MaxCrashes /\ unmarked \subseteq Accounts
    /\ \A u \in Accounts, c \in Parts : /\ ~health[u][c].stored => health[u][c] = Absent
                                        /\ u \notin users => ~health[u][c].stored

\* The tick thread is alone, nobody runs the tick by hand beside it.
OneTick == \A p \in Ticks, r \in Ticks : p = r

\* During one outage of a component its owner is told at most once by a tick
\* that runs alone, unless the process died between the delivery and its mark
\* (health.py, check_and_alert).
AlertOnce == OneTick => \A u \in Accounts \ unmarked, c \in Parts : told[u][c] <= 1

\* A component that is well has no alert standing, so that its next outage is
\* reported; again as long as no second tick marks what the first has cleared.
Rearmed == OneTick => \A u \in Accounts, c \in Parts : health[u][c].failures = 0 => ~health[u][c].alerted

\* An outage that lasts is reported to its owner, whatever happens to the
\* other accounts of the tick.
OutageReported ==
    \A u \in Accounts \ Poisoned, c \in Parts :
        (u \in users /\ <<u, c>> \in down)
            ~> (told[u][c] > 0 \/ <<u, c>> \notin down \/ u \notin users)
=============================================================================
