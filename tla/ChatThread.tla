----------------------------- MODULE ChatThread -----------------------------
(***************************************************************************)
(* One account's in-app thread and the repeats of its alerts               *)
(* (ragra/reminders/nags.py, chat_messages in ragra/db/repo.py): the       *)
(* tick's repeat pass, commit by commit, against the person's questions,   *)
(* the Received buttons and the clearing of the thread.                    *)
(*                                                                         *)
(* The thread is a sequence in the order of the messages' ids, which are   *)
(* never used again.  An alert is a name; a "repeat" is an alert message   *)
(* that carries another's name in the place of repeat_of.  A name is taken *)
(* again once nothing in the thread bears it.  nag is next_nag_at, as the  *)
(* minutes left until then.  The dispatch stage and run_nags each read the *)
(* clock once, when they begin, and count with it however long they take.  *)
(***************************************************************************)
EXTENDS Naturals, FiniteSets, Sequences, Functions

CONSTANTS
    Alerts,     \* the alerts that may be posted
    Keep,       \* _CHAT_KEEP
    Limit,      \* the limit run_nags gives due_nags
    Interval,   \* NAG_INTERVAL
    Gap,        \* time between two ticks
    MaxLag,     \* bound on the minutes a stage takes
    MaxBroken,  \* bound on the ticks that end half-way
    Never,      \* next_nag_at is NULL
    Nobody      \* the subject of a message that is no alert

ASSUME ThreadAssumption ==
    /\ Nobody \notin Alerts
    /\ Keep \in Nat \ {0} /\ Limit \in Nat \ {0}
    /\ Interval \in Nat \ {0} /\ Gap \in Nat \ {0}
    /\ MaxLag \in Nat /\ MaxBroken \in Nat
    /\ Never \notin Nat

VARIABLES
    thread,   \* chat_messages, oldest first
    nag,      \* per alert, minutes until its next_nag_at
    stage,    \* what the tick does
    lag,      \* minutes since its stage read the clock
    due,      \* the alerts the pass fetched and has not repeated yet
    bumping,  \* the alert it has repeated and not yet pushed out
    asked,    \* the web requests that still owe the thread a bot message
    broken,   \* ticks that ended half-way
    stopped,  \* alerts received or cleared since they were posted (history)
    torn,     \* alerts repeated by a pass that ended before it pushed them out (history)
    since     \* per alert, minutes since the clock of the stage that posted its last
              \* message, capped (history)

passVars    == <<stage, lag, due, bumping>>
historyVars == <<broken, stopped, torn, since>>
threadVars  == <<thread, nag, passVars, asked, historyVars>>

Message(role, of) == [role |-> role, of |-> of, acked |-> FALSE]
IsAlert(m) == m.role \in {"alert", "repeat"}

About(a)  == { n \in DOMAIN thread : thread[n].of = a }
Root(a)   == { n \in About(a) : thread[n].role = "alert" }
Armed(a)  == nag[a] # Never /\ \E n \in Root(a) : ~thread[n].acked

\* add_chat_message: append, and keep the newest.
Newest(s) == SubSeq(s, IF Len(s) > Keep THEN Len(s) - Keep + 1 ELSE 1, Len(s))

Add(m) == thread' = Newest(Append(thread, m))

-----------------------------------------------------------------------------
(* The tick: its dispatch stage, and run_nags at the end of it. *)

Minus(n, m) == IF n > m THEN n - m ELSE 0
Capped(n)   == IF n > Interval THEN Interval ELSE n

\* Minutes go by: every next_nag_at comes nearer.
Elapse(minutes) ==
    /\ nag' = [a \in Alerts |-> IF nag[a] = Never THEN Never ELSE Minus(nag[a], minutes)]
    /\ since' = [a \in Alerts |-> Capped(since[a] + minutes)]

\* NAG_INTERVAL after the clock of the stage (next_nag_at), from now.
NextNag == Minus(Interval, lag)

\* A tick is due, and its dispatch stage reads the clock.
BeginDispatch ==
    /\ stage = "rest"
    /\ Elapse(Gap)
    /\ stage' = "dispatch" /\ lag' = 0
    /\ UNCHANGED <<thread, due, bumping, asked, broken, stopped, torn>>

\* A send or a write takes its time.
Wait ==
    /\ stage # "rest" /\ lag < MaxLag
    /\ Elapse(1)
    /\ lag' = lag + 1
    /\ UNCHANGED <<thread, stage, due, bumping, asked, broken, stopped, torn>>

\* A new alert, with its clock running or without one.
Raise(a, clock) ==
    /\ About(a) = {} /\ a \notin Range(due) /\ a # bumping
    /\ Add(Message("alert", a))
    /\ nag' = [nag EXCEPT ![a] = clock]
    /\ since' = [since EXCEPT ![a] = Capped(lag)]
    /\ stopped' = stopped \ {a}
    /\ torn' = torn \ {a}
    /\ UNCHANGED <<passVars, asked, broken>>

\* dispatch_due_reminders posts what it has delivered.
Post(a) == stage = "dispatch" /\ Raise(a, NextNag)

\* The notification form posts its welcome, as an alert that is never repeated.
Welcome(a) == Raise(a, Never)

\* Regression: next_nag_at alone decides, which the pass sets again after a
\* Received that came in the middle of it.
WantsRepeatByClock(m) == m.role = "alert" /\ nag[m.of] = 0

\* Regression: an alert that has a repeat in the thread is not repeated again.
WantsRepeatOnce(m) == /\ m.role = "alert" /\ ~m.acked /\ nag[m.of] = 0
                      /\ Message("repeat", m.of) \notin Range(thread)

\* The WHERE of due_nags.
WantsRepeat(m) == m.role = "alert" /\ ~m.acked /\ nag[m.of] = 0

\* due_nags: the oldest Limit of them, in the order of the thread.
Due ==
    LET wanted   == { n \in DOMAIN thread : WantsRepeat(thread[n]) }
        place(n) == Cardinality({ m \in wanted : m <= n })
        oldest   == { n \in wanted : place(n) <= Limit }
    IN  [k \in 1..Cardinality(oldest) |-> thread[CHOOSE n \in oldest : place(n) = k].of]

\* run_nags reads the clock again and fetches what is due.
StartPass ==
    /\ stage = "dispatch"
    /\ due' = Due
    /\ stage' = "repeats" /\ lag' = 0
    /\ UNCHANGED <<thread, nag, bumping, asked, historyVars>>

\* It posts a repeat of the next alert it fetched ...
Repeat ==
    /\ due # <<>> /\ bumping = Nobody
    /\ Add(Message("repeat", Head(due)))
    /\ bumping' = Head(due)
    /\ due' = Tail(due)
    /\ since' = [since EXCEPT ![Head(due)] = Capped(lag)]
    /\ UNCHANGED <<nag, stage, lag, asked, broken, stopped, torn>>

\* Regression: the next repeat is not pushed out.
BumpNothing ==
    /\ bumping # Nobody
    /\ bumping' = Nobody
    /\ UNCHANGED <<thread, nag, stage, lag, due, asked, historyVars>>

\* ... and bump_nag pushes its next repeat out, whether it is still there, still
\* unacknowledged, or not.
Bump ==
    /\ bumping # Nobody
    /\ nag' = IF Root(bumping) = {} THEN nag ELSE [nag EXCEPT ![bumping] = NextNag]
    /\ bumping' = Nobody
    /\ torn' = torn \ {bumping}
    /\ UNCHANGED <<thread, stage, lag, due, asked, broken, stopped, since>>

EndRepeats ==
    /\ stage = "repeats" /\ due = <<>> /\ bumping = Nobody
    /\ stage' = "rest" /\ lag' = 0
    /\ UNCHANGED <<thread, nag, due, bumping, asked, historyVars>>

\* The process ends, or the stage swallows an exception of dispatch_due_reminders
\* or of run_nags.
BreakOff ==
    /\ stage # "rest"
    /\ broken < MaxBroken
    /\ broken' = broken + 1
    /\ torn' = torn \cup ({bumping} \ {Nobody})
    /\ due' = <<>> /\ bumping' = Nobody
    /\ stage' = "rest" /\ lag' = 0
    /\ UNCHANGED <<thread, nag, asked, stopped, since>>

-----------------------------------------------------------------------------
(* The person. *)

\* chat_page and the home page find the thread empty ...
Visit ==
    /\ thread = <<>> /\ "greet" \notin asked
    /\ asked' = asked \cup {"greet"}
    /\ UNCHANGED <<thread, nag, passVars, historyVars>>

\* ... chat_send stores the question ...
Ask ==
    /\ "answer" \notin asked
    /\ Add(Message("user", Nobody))
    /\ asked' = asked \cup {"answer"}
    /\ UNCHANGED <<nag, passVars, historyVars>>

\* ... and each of them adds the bot's message later.
Respond(request) ==
    /\ request \in asked
    /\ Add(Message("bot", Nobody))
    /\ asked' = asked \ {request}
    /\ UNCHANGED <<nag, passVars, historyVars>>

Acknowledge(ns) ==
    LET fresh == { n \in ns : ~thread[n].acked }
    IN  /\ thread' = [n \in DOMAIN thread |->
                        IF n \in fresh THEN [thread[n] EXCEPT !.acked = TRUE] ELSE thread[n]]
        /\ nag' = [a \in Alerts |-> IF fresh \cap Root(a) # {} THEN Never ELSE nag[a]]
        /\ stopped' = stopped \cup { thread[n].of : n \in ns }
        /\ UNCHANGED <<passVars, asked, broken, torn, since>>

\* The alert that message n is or repeats, and all its repeats.
Chain(n) == About(thread[n].of)

\* ack_chat_message.
Received(n) ==
    /\ IsAlert(thread[n])
    /\ Acknowledge(Chain(n))

\* ack_all_chat_alerts.
ReceivedAll ==
    LET alerts == { n \in DOMAIN thread : IsAlert(thread[n]) }
    IN  alerts # {} /\ Acknowledge(alerts)

\* clear_chat.
Clear ==
    /\ thread # <<>>
    /\ thread' = <<>>
    /\ stopped' = stopped \cup { a \in Alerts : About(a) # {} }
    /\ UNCHANGED <<nag, passVars, asked, broken, torn, since>>

-----------------------------------------------------------------------------
ThreadInit ==
    /\ thread = <<>>
    /\ nag = [a \in Alerts |-> Never]
    /\ stage = "rest" /\ lag = 0
    /\ due = <<>> /\ bumping = Nobody
    /\ asked = {}
    /\ broken = 0
    /\ stopped = {} /\ torn = {}
    /\ since = [a \in Alerts |-> 0]

Pass == BeginDispatch \/ StartPass \/ Repeat \/ Bump \/ EndRepeats

ThreadNext ==
    \/ \E a \in Alerts : Post(a) \/ Welcome(a)
    \/ Pass \/ Wait \/ BreakOff
    \/ Visit \/ Ask \/ ReceivedAll \/ Clear
    \/ \E request \in {"greet", "answer"} : Respond(request)
    \/ \E n \in DOMAIN thread : Received(n)

ThreadSpec == ThreadInit /\ [][ThreadNext]_threadVars

\* The tick goes on for ever; the person need not do anything.
FairThreadSpec == ThreadSpec /\ WF_threadVars(Pass)

-----------------------------------------------------------------------------
(* Properties. *)

\* The type of every variable; the thread never exceeds _CHAT_KEEP.
ThreadTypeOK ==
    /\ thread \in Seq([role : {"alert", "repeat", "user", "bot"},
                       of : Alerts \cup {Nobody}, acked : BOOLEAN])
    /\ Len(thread) <= Keep
    /\ nag \in [Alerts -> 0 .. Interval \cup {Never}]
    /\ stage \in {"rest", "dispatch", "repeats"} /\ lag \in 0 .. MaxLag
    /\ due \in Seq(Alerts) /\ Len(due) <= Limit
    /\ bumping \in Alerts \cup {Nobody}
    /\ asked \subseteq {"greet", "answer"}
    /\ broken \in 0 .. MaxBroken
    /\ stopped \subseteq Alerts
    /\ torn \subseteq Alerts
    /\ since \in [Alerts -> 0 .. Interval]

\* Received, on an alert or on any of its repeats, or clearing the thread, stops
\* the whole chain: at most the one repeat of a pass that had already fetched the
\* alert still arrives (ack_chat_message, due_nags, bump_nag).
OneLateRepeat ==
    \A a \in stopped : Cardinality({ n \in About(a) : ~thread[n].acked }) <= 1

\* A repeat comes at least NAG_INTERVAL after the clock of the stage that posted
\* the last message about its alert, though the repeat and its next_nag_at are
\* two commits: after the message itself it comes sooner by as long as that stage
\* had been at work.  Only an alert whose last pass ended between the two commits
\* is excepted (dispatch_due_reminders, run_nags).
RepeatsSpaced ==
    [][\A a \in Alerts \ torn :
         bumping' = a /\ bumping # a => since[a] >= Interval]_threadVars

\* An alert that nobody received is repeated again and again for as long as it is
\* in the thread: neither the conversation, nor the limit of a pass, nor a pass
\* that ends half-way holds it up.
RepeatedWhileArmed ==
    \A a \in Alerts : (Armed(a) /\ bumping # a) ~> (~Armed(a) \/ bumping = a)
=============================================================================
