--------------------------- MODULE ClassReminders ---------------------------
(***************************************************************************)
(* One account's classes of one enrolled course during a week: the sheet   *)
(* the university edits, the timetable reconciled from it                  *)
(* (ragra/sync/timetable_sync.py) and the announcements of classes that    *)
(* start soon (ragra/reminders/class_reminders.py), commit by commit.      *)
(*                                                                         *)
(* Times are whole units of the week; a class is shown by the sheet at a   *)
(* slot, on the tab of its day, and may be struck out.  The timetable      *)
(* names a class by its place among the course's classes (the external id  *)
(* ends with occurrence_index); a reminder is named by that class and the  *)
(* date.  A pass is short against the unit of time.                        *)
(***************************************************************************)
EXTENDS Naturals, FiniteSets, Sequences, FiniteSetsExt

CONSTANTS
    Slots,      \* times at which a class may start
    DayLength,  \* units in a day
    Lookahead,  \* LOOKAHEAD
    Horizon,    \* last moment looked at
    Edits,      \* kinds of edit of the sheet
    MaxEdits,   \* bound on their number
    Faults      \* faults the run allows

ASSUME ClassAssumption ==
    /\ Slots \subseteq Nat /\ IsFiniteSet(Slots)
    /\ DayLength \in Nat \ {0} /\ Lookahead \in Nat /\ Horizon \in Nat
    /\ Edits \subseteq {"strike", "rearrange"} /\ MaxEdits \in Nat
    /\ Faults \subseteq {"scrape", "store", "crash"}

VARIABLES
    now,
    sheet,      \* the classes the sheet shows, at most one a slot
    edits,      \* edits made so far
    events,     \* timetable_events, by place
    reminders,  \* class_reminders, by place and day
    pass,       \* what the tick is doing
    heard,      \* announcements of each start time, at most 2 (history)
    fresh,      \* the timetable was reconciled from the sheet as it is now (history)
    rearranged, \* the course's classes have been arranged anew (history)
    markLost    \* a process died between a send and its mark (history)

classVars == <<now, sheet, edits, events, reminders, pass, heard, fresh, rearranged, markLost>>
upsets    == <<rearranged, markLost>>

Day(t) == t \div DayLength
Days   == { Day(s) : s \in Slots }
Places == 1..Cardinality(Slots)
Keys   == Places \X Days

Class(s, off)   == [slot |-> s, off |-> off]
None            == [slot |-> 0, off |-> TRUE]
Reminder(s, st) == [slot |-> s, status |-> st]
Unclaimed       == Reminder(0, "NONE")

\* grid: cells read so far; todo: what the present stage has left
AtRest == [pc |-> "idle", tabs |-> {}, grid |-> {}, next |-> 1, todo |-> {}, row |-> <<>>,
           worked |-> TRUE]
Enter(pc) == [AtRest EXCEPT !.pc = pc]

\* The cells in the order of the week.
Place(c, cells) == Cardinality({ d \in cells : d.slot <= c.slot })
Ordered(cells)  == [n \in 1..Cardinality(cells) |-> CHOOSE c \in cells : Place(c, cells) = n]

-----------------------------------------------------------------------------
\* The sheet is edited: a class is struck out or restored, or the course's
\* classes are arranged anew.
Strike ==
    /\ "strike" \in Edits
    /\ \E c \in sheet : sheet' = (sheet \ {c}) \cup {Class(c.slot, ~c.off)}

Rearrange ==
    /\ "rearrange" \in Edits
    /\ \/ \E c \in sheet : sheet' = sheet \ {c}
       \/ \E s \in Slots \ { c.slot : c \in sheet } :
             \/ sheet' = sheet \cup {Class(s, FALSE)}
             \/ \E c \in sheet : sheet' = (sheet \ {c}) \cup {Class(s, c.off)}

Edit ==
    /\ edits < MaxEdits /\ edits' = edits + 1
    /\ \/ Strike /\ UNCHANGED rearranged
       \/ Rearrange /\ rearranged' = TRUE
    /\ fresh' = FALSE
    /\ UNCHANGED <<now, events, reminders, pass, heard, markLost>>

\* Time passes between two ticks.
Advance ==
    /\ pass.pc = "idle" /\ now < Horizon
    /\ now' = now + 1
    /\ UNCHANGED <<sheet, edits, events, reminders, pass, heard, fresh, upsets>>

-----------------------------------------------------------------------------
\* sync_timetable: the tabs are fetched one after another.
StartSync ==
    /\ pass.pc = "idle"
    /\ pass' = [Enter("read") EXCEPT !.tabs = Days]
    /\ fresh' = TRUE
    /\ UNCHANGED <<now, sheet, edits, events, reminders, heard, upsets>>

ReadTab ==
    /\ pass.pc = "read" /\ pass.tabs # {}
    /\ LET d == Min(pass.tabs)
       IN  pass' = [pass EXCEPT !.tabs = @ \ {d},
                                !.grid = @ \cup { c \in sheet : Day(c.slot) = d }]
    /\ UNCHANGED <<now, sheet, edits, events, reminders, heard, fresh, upsets>>

\* A tab cannot be read or makes no sense: nothing is stored.
BadScrape ==
    /\ "scrape" \in Faults
    /\ pass.pc = "read"
    /\ pass' = Enter("expire")
    /\ fresh' = FALSE
    /\ UNCHANGED <<now, sheet, edits, events, reminders, heard, upsets>>

\* Regression: classes keep the order in which they are stored.
StoreNewOnly ==
    /\ pass.pc = "read" /\ pass.tabs = {}
    /\ pass.next <= Cardinality(pass.grid)
    /\ events' = [events EXCEPT ![pass.next] =
                    IF @ = None THEN Ordered(pass.grid)[pass.next]
                    ELSE [@ EXCEPT !.off = Ordered(pass.grid)[pass.next].off]]
    /\ pass' = [pass EXCEPT !.next = @ + 1]
    /\ UNCHANGED <<now, sheet, edits, reminders, heard, fresh, upsets>>

\* upsert_timetable_event for the next class, in the order of the week.
StoreNext ==
    /\ pass.pc = "read" /\ pass.tabs = {}
    /\ pass.next <= Cardinality(pass.grid)
    /\ events' = [events EXCEPT ![pass.next] = Ordered(pass.grid)[pass.next]]
    /\ pass' = [pass EXCEPT !.next = @ + 1]
    /\ UNCHANGED <<now, sheet, edits, reminders, heard, fresh, upsets>>

\* A commit fails, and with it the stage.
StoreFails ==
    /\ "store" \in Faults
    /\ pass.pc = "read" /\ pass.tabs = {}
    /\ pass' = Enter("expire")
    /\ fresh' = FALSE
    /\ UNCHANGED <<now, sheet, edits, events, reminders, heard, upsets>>

\* cancel_timetable_events_missing_from_source
CancelMissing ==
    /\ pass.pc = "read" /\ pass.tabs = {}
    /\ pass.next > Cardinality(pass.grid)
    /\ events' = [n \in Places |-> IF n >= pass.next THEN [events[n] EXCEPT !.off = TRUE]
                                   ELSE events[n]]
    /\ pass' = Enter("expire")
    /\ UNCHANGED <<now, sheet, edits, reminders, heard, fresh, upsets>>

-----------------------------------------------------------------------------
\* Regression: a reminder whose delivery has failed before is given up.
StaleFailed(r) == r.status = "PENDING" /\ r.slot <= now + 1

\* A pending reminder whose class has started.
Stale(r) == r.status = "PENDING" /\ r.slot <= now

\* The classes schedule_class_reminders claims: they start in the window and
\* are not struck out.
Soon == { n \in Places : /\ ~events[n].off
                         /\ now <= events[n].slot /\ events[n].slot <= now + Lookahead }

\* run_class_reminders: stale reminders expire, and the coming classes are
\* expanded from the timetable ...
Expire ==
    /\ pass.pc = "expire"
    /\ reminders' = [k \in Keys |-> IF Stale(reminders[k])
                                    THEN [reminders[k] EXCEPT !.status = "FAILED"]
                                    ELSE reminders[k]]
    /\ pass' = [Enter("claim") EXCEPT !.todo = Soon]
    /\ UNCHANGED <<now, sheet, edits, events, heard, fresh, upsets>>

\* Regression: a claim replaces what was claimed before.
ClaimAnew ==
    /\ pass.pc = "claim"
    /\ \E n \in pass.todo :
          LET k == <<n, Day(events[n].slot)>>
          IN  /\ \A o \in pass.todo : events[n].slot <= events[o].slot
              /\ reminders' = [reminders EXCEPT ![k] = Reminder(events[n].slot, "PENDING")]
              /\ pass' = [pass EXCEPT !.todo = @ \ {n}]
    /\ UNCHANGED <<now, sheet, edits, events, heard, fresh, upsets>>

\* ... and claimed one by one, each class once a day
\* (insert_class_reminder_if_absent).
Claim ==
    /\ pass.pc = "claim"
    /\ \E n \in pass.todo :
          LET k == <<n, Day(events[n].slot)>>
          IN  /\ \A o \in pass.todo : events[n].slot <= events[o].slot
              /\ reminders' = [reminders EXCEPT ![k] =
                                 IF @ = Unclaimed THEN Reminder(events[n].slot, "PENDING") ELSE @]
              /\ pass' = [pass EXCEPT !.todo = @ \ {n}]
    /\ UNCHANGED <<now, sheet, edits, events, heard, fresh, upsets>>

\* dispatch_class_reminders selects what is pending.
StartDispatch ==
    /\ pass.pc = "claim" /\ pass.todo = {}
    /\ pass' = [Enter("send") EXCEPT !.todo = { k \in Keys : reminders[k].status = "PENDING" }]
    /\ UNCHANGED <<now, sheet, edits, events, reminders, heard, fresh, upsets>>

First(k) == k \in pass.todo /\ \A o \in pass.todo : reminders[k].slot <= reminders[o].slot

\* The class begins this very moment: its reminder expires.
TooLate(k) ==
    /\ pass.pc = "send" /\ First(k)
    /\ reminders[k].slot <= now
    /\ reminders' = [reminders EXCEPT ![k].status = "FAILED"]
    /\ pass' = [pass EXCEPT !.todo = @ \ {k}]
    /\ UNCHANGED <<now, sheet, edits, events, heard, fresh, upsets>>

\* No provider, or none delivered: it stays pending.
NotSent(k) ==
    /\ pass.pc = "send" /\ First(k)
    /\ reminders[k].slot > now
    /\ pass' = [pass EXCEPT !.todo = @ \ {k}, !.worked = FALSE]
    /\ UNCHANGED <<now, sheet, edits, events, reminders, heard, fresh, upsets>>

\* The message names the time the reminder was scheduled for.
Send(k) ==
    /\ pass.pc = "send" /\ First(k)
    /\ reminders[k].slot > now
    /\ heard' = [heard EXCEPT ![reminders[k].slot] = IF @ < 2 THEN @ + 1 ELSE @]
    /\ pass' = [pass EXCEPT !.pc = "mark", !.row = k]
    /\ UNCHANGED <<now, sheet, edits, events, reminders, fresh, upsets>>

\* mark_class_reminder_sent
MarkSent ==
    /\ pass.pc = "mark"
    /\ reminders' = [reminders EXCEPT ![pass.row].status = "SENT"]
    /\ pass' = [pass EXCEPT !.pc = "send", !.todo = @ \ {pass.row}, !.row = <<>>]
    /\ UNCHANGED <<now, sheet, edits, events, heard, fresh, upsets>>

EndPass ==
    /\ pass.pc = "send" /\ pass.todo = {}
    /\ pass' = AtRest
    /\ UNCHANGED <<now, sheet, edits, events, reminders, heard, fresh, upsets>>

\* The process dies; the next tick starts over.
PassDies ==
    /\ "crash" \in Faults
    /\ pass.pc # "idle"
    /\ pass' = AtRest
    /\ fresh' = (fresh /\ pass.pc # "read")
    /\ markLost' = (markLost \/ pass.pc = "mark")
    /\ UNCHANGED <<now, sheet, edits, events, reminders, heard, rearranged>>

ClassInit ==
    /\ now = 0 /\ edits = 0
    /\ sheet \in { { Class(s, FALSE) : s \in shown } : shown \in SUBSET Slots }
    /\ events = [n \in Places |-> None]
    /\ reminders = [k \in Keys |-> Unclaimed]
    /\ pass = AtRest
    /\ heard = [s \in Slots |-> 0]
    /\ fresh = FALSE /\ rearranged = FALSE /\ markLost = FALSE

Sync     == StartSync \/ ReadTab \/ BadScrape \/ StoreNext \/ StoreFails \/ CancelMissing
Dispatch == \E k \in Keys : TooLate(k) \/ NotSent(k) \/ Send(k)
Announce == Expire \/ Claim \/ StartDispatch \/ Dispatch \/ MarkSent \/ EndPass

ClassNext == Edit \/ Advance \/ Sync \/ Announce \/ PassDies

ClassSpec == ClassInit /\ [][ClassNext]_classVars

-----------------------------------------------------------------------------
Cells == [slot : Slots, off : BOOLEAN]

Passes(things) == [pc : {"idle", "read", "expire", "claim", "send", "mark"}, tabs : SUBSET Days, grid : SUBSET Cells,
                 next : Nat \ {0}, todo : SUBSET things, row : Keys \cup {<<>>}, worked : BOOLEAN]

\* The type of every variable; the sheet shows one class a slot at most.
ClassTypeOK ==
    /\ now \in 0..Horizon /\ edits \in 0..MaxEdits
    /\ sheet \subseteq Cells /\ \A c, d \in sheet : c.slot = d.slot => c = d
    /\ events \in [Places -> Cells \cup {None}]
    /\ reminders \in [Keys -> [slot : Slots \cup {0}, status : {"NONE", "PENDING", "SENT", "FAILED"}]]
    /\ pass \in Passes(IF pass.pc = "claim" THEN Places ELSE Keys)
    /\ heard \in [Slots -> 0..2]
    /\ {fresh, rearranged, markLost} \subseteq BOOLEAN

\* When a reconciliation of a sheet nobody edited meanwhile has ended, the
\* timetable has exactly the sheet's classes, each at its time and struck out
\* where it is, whatever edits, bad scrapes and crashes came before.
TimetableMirrors ==
    fresh /\ pass.pc # "read" =>
        /\ { c \in { events[n] : n \in Places } : ~c.off } = { c \in sheet : ~c.off }
        /\ \A n \in 1..Cardinality(sheet) : events[n] = Ordered(sheet)[n]

\* Nobody hears of the same class twice, whatever fails, unless a process died
\* before it could mark what it had sent, or the course's classes moved to other
\* places (class_reminders.py, dispatch_class_reminders; occurrence_index).
AnnouncedOnce == ~rearranged /\ ~markLost => \A s \in Slots : heard[s] <= 1

\* As long as the course's classes keep their places, a pass whose messages are
\* delivered leaves no class of the timetable that starts within the window
\* unannounced, whatever broke off before (schedule_class_reminders).
NoneMissed ==
    [][EndPass /\ pass.worked /\ ~rearranged =>
         \A n \in Soon : events[n].slot > now => heard[events[n].slot] > 0]_classVars
=============================================================================
