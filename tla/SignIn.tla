-------------------------------- MODULE SignIn --------------------------------
(***************************************************************************)
(* Signing in with Google (ragra/web/auth.py, the routes of                *)
(* ragra/web/app.py), the sessions it opens (ragra/web/sessions.py) and    *)
(* the deletion of an account (ragra/accounts.py).  Callbacks are served   *)
(* on a thread pool, every read and every commit of a callback is a step.  *)
(*                                                                         *)
(* A person is a Google subject with its own address.  Account 1 is the    *)
(* row that holds the history from before there was sign-in.  Time is days.*)
(***************************************************************************)
EXTENDS Naturals, FiniteSets

CONSTANTS
    Owner,         \* the person RAGRA_OWNER_EMAIL names
    Listed,        \* the people RAGRA_ALLOWED_EMAILS names
    Others,        \* everyone else
    OpenSignup,
    MaxUsers,      \* RAGRA_MAX_USERS
    Attempts,      \* bound: ids of sign-in attempts
    Threads,       \* threads that serve callbacks
    Lifetime, IdleTimeout,  \* ABSOLUTE_LIFETIME and IDLE_TIMEOUT
    Horizon,       \* bound on the clock
    MaxId,         \* bound on accounts ever made
    Nobody

People == {Owner} \cup Listed \cup Others
Ids == 1..MaxId

ASSUME SignInAssumption ==
    /\ Owner \notin Listed \cup Others /\ Listed \cap Others = {} /\ Nobody \notin People
    /\ OpenSignup \in BOOLEAN
    /\ {MaxUsers, Lifetime, IdleTimeout, Horizon} \subseteq Nat /\ MaxId \in Nat \ {0}
    /\ Attempts \subseteq Nat

VARIABLES
    now,
    sub,       \* users: id -> google_sub, Nobody for the row never linked
    nextId,    \* AUTOINCREMENT
    profile,   \* accounts with a row in user_profiles
    sessions,  \* rows of sessions, with the person they were opened for (history)
    begun,     \* attempt -> the person who makes it (history)
    states,    \* attempts in oauth_states
    used,      \* attempts whose code Google has exchanged
    cb,        \* the callback each thread serves
    overlapped \* whether two callbacks have been served at the same time (history)

vars == <<now, sub, nextId, profile, sessions, begun, states, used, cb, overlapped>>
accountVars == <<sub, nextId, profile, sessions>>
stateVars == <<begun, states, used>>

Idle == [pc |-> "idle", attempt |-> 0, user |-> 0]
Users == DOMAIN sub
Who(t) == begun[cb[t].attempt]
AccountsOf(p) == { u \in Users : sub[u] = p }
Unlinked == AccountsOf(Nobody)
Named(p) == p = Owner \/ p \in Listed
IsAllowed(p) == Named(p) \/ OpenSignup

Goto(t, pc) == cb' = [cb EXCEPT ![t] = [@ EXCEPT !.pc = pc]]
End(t) == cb' = [cb EXCEPT ![t] = Idle]
Account(t, pc, u) == cb' = [cb EXCEPT ![t] = [@ EXCEPT !.pc = pc, !.user = u]]

-----------------------------------------------------------------------------
\* begin_sign_in
Begin(a, p) ==
    /\ a \in Attempts \ DOMAIN begun
    /\ begun' = [b \in DOMAIN begun \cup {a} |-> IF b = a THEN p ELSE begun[b]]
    /\ states' = states \cup {a}
    /\ UNCHANGED <<now, accountVars, used, cb, overlapped>>

\* The browser comes back, again if it is reloaded; consume_state reads the
\* state first, which may have run out.
Callback(t, a, fresh) ==
    /\ cb[t].pc = "idle" /\ a \in DOMAIN begun
    /\ overlapped' = (overlapped \/ \E s \in Threads : cb[s].pc # "idle")
    /\ cb' = [cb EXCEPT ![t] = [pc |-> IF fresh /\ a \in states THEN "spend" ELSE "drop", attempt |-> a, user |-> 0]]
    /\ UNCHANGED <<now, accountVars, stateVars>>

\* The row goes, and what was read decides.
Spend(t) ==
    /\ cb[t].pc \in {"spend", "drop"}
    /\ states' = states \ {cb[t].attempt}
    /\ IF cb[t].pc = "drop" THEN End(t) ELSE Goto(t, "exchange")
    /\ UNCHANGED <<now, accountVars, begun, used, overlapped>>

\* Google takes a code once.
Exchange(t) ==
    /\ cb[t].pc = "exchange"
    /\ used' = used \cup {cb[t].attempt}
    /\ IF cb[t].attempt \in used THEN End(t) ELSE Goto(t, "lookup")
    /\ UNCHANGED <<now, accountVars, begun, states, overlapped>>

\* The person declined, or Google refuses the exchange.
Denied(t) == /\ cb[t].pc = "exchange" /\ End(t)
             /\ UNCHANGED <<now, accountVars, stateVars, overlapped>>

\* resolve_user: the account linked to the subject, whatever its address;
\* without one the policy, and for the owner the row never linked.
Lookup(t) ==
    LET p == Who(t)
    IN  /\ cb[t].pc = "lookup"
        /\ \/ \E u \in AccountsOf(p) : Account(t, "session", u)
           \/ AccountsOf(p) = {} /\ IsAllowed(p) /\ Goto(t, IF p = Owner THEN "unlinked" ELSE "admit")
           \/ AccountsOf(p) = {} /\ ~IsAllowed(p) /\ End(t)
        /\ UNCHANGED <<now, accountVars, stateVars, overlapped>>

\* Regression: the owner gets a new account like everyone else.
FindUnlinkedNever(t) ==
    /\ cb[t].pc = "unlinked" /\ Goto(t, "admit")
    /\ UNCHANGED <<now, accountVars, stateVars, overlapped>>

\* unlinked_user_id: the one account nobody has linked, if there is just one.
FindUnlinked(t) ==
    /\ cb[t].pc = "unlinked"
    /\ \/ \E u \in Unlinked : Unlinked = {u} /\ Account(t, "profile", u)
       \/ (\A u \in Unlinked : Unlinked # {u}) /\ Goto(t, "admit")
    /\ UNCHANGED <<now, accountVars, stateVars, overlapped>>

\* adopt_legacy_profile; the foreign key wants the account.
AdoptProfile(t) ==
    /\ cb[t].pc = "profile"
    /\ profile' = profile \cup ({cb[t].user} \cap Users)
    /\ IF cb[t].user \in Users THEN Goto(t, "link") ELSE End(t)
    /\ UNCHANGED <<now, sub, nextId, sessions, stateVars, overlapped>>

\* UPDATE ... WHERE google_sub IS NULL; its row count is not looked at, and
\* google_sub is UNIQUE.
LinkAccount(t) ==
    LET u == cb[t].user
    IN  /\ cb[t].pc = "link"
        /\ sub' = IF u \in Unlinked /\ AccountsOf(Who(t)) = {} THEN [sub EXCEPT ![u] = Who(t)] ELSE sub
        /\ IF u \in Unlinked /\ AccountsOf(Who(t)) # {} THEN End(t) ELSE Goto(t, "session")
        /\ UNCHANGED <<now, nextId, profile, sessions, stateVars, overlapped>>

\* Regression: nothing is counted.
AdmitAll(t) ==
    /\ cb[t].pc = "admit" /\ Goto(t, "insert")
    /\ UNCHANGED <<now, accountVars, stateVars, overlapped>>

\* max_users counts the accounts there are, for those no list names.
Admit(t) ==
    /\ cb[t].pc = "admit"
    /\ IF Named(Who(t)) \/ Cardinality(Users) < MaxUsers THEN Goto(t, "insert") ELSE End(t)
    /\ UNCHANGED <<now, accountVars, stateVars, overlapped>>

\* A new account; google_sub is UNIQUE.
InsertUser(t) ==
    /\ cb[t].pc = "insert" /\ nextId \in Ids
    /\ IF AccountsOf(Who(t)) # {} THEN End(t) /\ UNCHANGED <<sub, nextId>>
       ELSE /\ sub' = [u \in Users \cup {nextId} |-> IF u = nextId THEN Who(t) ELSE sub[u]]
            /\ nextId' = nextId + 1
            /\ Account(t, "session", nextId)
    /\ UNCHANGED <<now, profile, sessions, stateVars, overlapped>>

Session(u, p) == [user |-> u, person |-> p, made |-> now, seen |-> now]

\* Regression: a session is opened whether or not the account is there.
OpenAnySession(t) ==
    /\ cb[t].pc = "session"
    /\ sessions' = sessions \cup {Session(cb[t].user, Who(t))}
    /\ End(t)
    /\ UNCHANGED <<now, sub, nextId, profile, stateVars, overlapped>>

\* create_session; the foreign key wants the account.
OpenSession(t) ==
    /\ cb[t].pc = "session"
    /\ sessions' = IF cb[t].user \in Users THEN sessions \cup {Session(cb[t].user, Who(t))} ELSE sessions
    /\ End(t)
    /\ UNCHANGED <<now, sub, nextId, profile, stateVars, overlapped>>

-----------------------------------------------------------------------------
Dead(s) == now >= s.made + Lifetime \/ now - s.seen >= IdleTimeout

\* Regression: use extends the whole session.
TouchAll(s) ==
    /\ sessions' = (sessions \ {s}) \cup (IF Dead(s) THEN {} ELSE {[s EXCEPT !.seen = now, !.made = now]})
    /\ UNCHANGED <<now, sub, nextId, profile, stateVars, cb, overlapped>>

\* lookup_session of any request: a dead row goes, a live one is touched.
Touch(s) ==
    /\ sessions' = (sessions \ {s}) \cup (IF Dead(s) THEN {} ELSE {[s EXCEPT !.seen = now]})
    /\ UNCHANGED <<now, sub, nextId, profile, stateVars, cb, overlapped>>

SignOut(s) ==
    /\ sessions' = sessions \ {s}
    /\ UNCHANGED <<now, sub, nextId, profile, stateVars, cb, overlapped>>

\* delete_account and its cascade, asked for in a live session.
DeleteAccount(s) ==
    LET u == s.user
    IN  /\ ~Dead(s) /\ u \in Users
        /\ sub' = [v \in Users \ {u} |-> sub[v]]
        /\ profile' = profile \ {u}
        /\ sessions' = { x \in sessions : x.user # u }
        /\ UNCHANGED <<now, nextId, stateVars, cb, overlapped>>

\* The tick purges what has expired: sessions, and abandoned attempts.
Purge(expired) ==
    /\ sessions' = { s \in sessions : now < s.made + Lifetime }
    /\ expired \subseteq states /\ states' = states \ expired
    /\ <<sessions', states'>> # <<sessions, states>>
    /\ UNCHANGED <<now, sub, nextId, profile, begun, used, cb, overlapped>>

Clock == /\ now < Horizon /\ now' = now + 1
         /\ UNCHANGED <<accountVars, stateVars, cb, overlapped>>

\* The process ends in the middle of a callback.
Crash(t) == /\ cb[t].pc # "idle" /\ End(t)
            /\ UNCHANGED <<now, accountVars, stateVars, overlapped>>

Init ==
    /\ now = 0 /\ sub = [u \in {1} |-> Nobody] /\ nextId = 2 /\ profile = {} /\ sessions = {}
    /\ begun = [a \in {} |-> Nobody] /\ states = {} /\ used = {}
    /\ cb = [t \in Threads |-> Idle] /\ overlapped = FALSE

Resolve(t) ==
    \/ Lookup(t) \/ FindUnlinked(t) \/ AdoptProfile(t) \/ LinkAccount(t) \/ Admit(t) \/ InsertUser(t)
Serve(t) ==
    \/ (\E a \in Attempts, fresh \in BOOLEAN : Callback(t, a, fresh))
    \/ Spend(t) \/ Exchange(t) \/ Denied(t) \/ Resolve(t) \/ OpenSession(t) \/ Crash(t)

Next ==
    \/ \E a \in Attempts, p \in People : Begin(a, p)
    \/ \E t \in Threads : Serve(t)
    \/ \E s \in sessions : Touch(s) \/ SignOut(s) \/ DeleteAccount(s)
    \/ (\E expired \in SUBSET states : Purge(expired)) \/ Clock

Spec == Init /\ [][Next]_vars

-----------------------------------------------------------------------------
Serving == [pc : {"idle", "spend", "drop", "exchange", "lookup", "unlinked", "profile", "link",
                  "admit", "insert", "session"},
            attempt : Attempts \cup {0}, user : Ids \cup {0}]
Row == [user : Ids, person : People, made : 0..now, seen : 0..now]

\* The types; no id is used twice, a subject has one account at most, and only
\* the row of the old history was ever without one.
TypeOK ==
    /\ now \in 0..Horizon /\ overlapped \in BOOLEAN /\ nextId \in 2..(MaxId + 1)
    /\ Users \subseteq 1..(nextId - 1) /\ sub \in [Users -> People \cup {Nobody}]
    /\ \A u, v \in Users : sub[u] = sub[v] /\ sub[u] # Nobody => u = v
    /\ Unlinked \subseteq {1} /\ profile \subseteq Users /\ sessions \subseteq Row
    /\ DOMAIN begun \subseteq Attempts /\ begun \in [DOMAIN begun -> People]
    /\ states \cup used \subseteq DOMAIN begun
    /\ cb \in [Threads -> Serving]
    /\ \A t \in Threads : cb[t].pc # "idle" => cb[t].attempt \in DOMAIN begun

\* A session belongs to the account of the person who signed in, and does not
\* outlive it, however sign-ins, the adoption and deletions interleave.
OwnSession == \A s \in sessions : s.user \in Users /\ sub[s.user] = s.person

\* While the row of the old history waits or is the owner's, the owner has
\* no other account; and once linked its profile is stored.
OwnerKeepsHistory ==
    1 \in Users => /\ sub[1] \in {Owner, Nobody} /\ AccountsOf(Owner) \subseteq {1}
                   /\ sub[1] = Owner => 1 \in profile

\* Open sign-up stops at max_users while no two callbacks are served at once
\* (auth.py, resolve_user).
NotOverfull ==
    [][\A u \in DOMAIN sub' \ Users :
          ~overlapped' /\ sub'[u] \in Others => Cardinality(DOMAIN sub') <= MaxUsers]_vars

\* Whatever a session is used for, it ends Lifetime after it was opened and
\* IdleTimeout after its last use.
SessionsEnd ==
    [][\A s \in sessions' : s \notin sessions =>
          \/ \E r \in sessions : r.user = s.user /\ r.made = s.made /\ ~Dead(r)
          \/ \E t \in Threads : cb[t].pc = "session" /\ cb'[t].pc = "idle"]_vars
=============================================================================
