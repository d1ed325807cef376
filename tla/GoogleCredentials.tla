-------------------------- MODULE GoogleCredentials --------------------------
(***************************************************************************)
(* One account's authorization for one Google service: the stored          *)
(* credential, which a tick and a check on the account page load, refresh  *)
(* and write back (ragra/adapters/user_clients.py), the file the first     *)
(* owner's credential is adopted from, the person's reconnect              *)
(* (ragra/web/google_reconnect.py and its callback in ragra/web/app.py)    *)
(* and the verdict shown on the account page                               *)
(* (ragra/adapters/credential_health.py).                                  *)
(*                                                                         *)
(* A consent given at Google is a grant; a refresh may rotate its token,   *)
(* which is a new version of the grant and the end of the old one.         *)
(* Encryption, scopes and expiry times are left out: an access token is    *)
(* valid until it is not.                                                  *)
(***************************************************************************)
EXTENDS Naturals, FiniteSets

CONSTANTS
    MaxGrants,   \* bound on the consents given
    MaxVersion,  \* bound on the rotations of one
    Ticks,       \* processes that run the tick
    Checks,      \* requests of the check buttons, in the web server
    Callbacks,   \* requests that may handle a callback
    Attempts,    \* states issued for a reconnect
    Owner,       \* whether this is the account the token file belongs to
    Faults,      \* what may go wrong
    None         \* no credential, no attempt

\* Whoever builds a client of Google: user_clients.py serves both.
Clients == Ticks \cup Checks

Grants == 1..MaxGrants
Credential(g, v, valid) == [grant |-> g, version |-> v, valid |-> valid]
Credentials == [grant : Grants, version : 1..MaxVersion, valid : BOOLEAN]

ASSUME CredentialAssumption ==
    /\ MaxGrants \in Nat \ {0} /\ MaxVersion \in Nat \ {0}
    /\ Owner \in BOOLEAN
    /\ Faults \subseteq {"network", "store", "end"}
    /\ None \notin Attempts \cup Credentials

VARIABLES
    given,     \* consents given so far
    live,      \* per grant, the version Google accepts; 0 for none
    stored,    \* google_credentials
    file,      \* the token file of the first owner
    state,     \* the state of credential_health
    attempt,   \* google_reconnect_states and what became of them
    client,    \* what each client is doing
    callback,  \* what each callback is doing
    exchanged, \* code exchanges per attempt, at most 2 (history)
    failed,    \* whether a write, an answer or a process was lost, bound: once
    atRisk     \* grants that were in hand of it, or of two clients (history)

vars == <<given, live, stored, file, state, attempt, client, callback, exchanged, failed, atRisk>>
losses == <<failed, atRisk>>

Accepted(c) == live[c.grant] = c.version
Current(c)  == c # None /\ Accepted(c)
Using(p)    == client[p].pc \in {"refresh", "store"}
Holds(p, g) == Using(p) /\ client[p].cred.grant = g

ClientIdle == [pc |-> "idle", cred |-> None, legacy |-> FALSE]
Outcome(v) == [ClientIdle EXCEPT !.pc = v]
WebIdle    == [pc |-> "idle", cred |-> None, attempt |-> None]

-----------------------------------------------------------------------------
\* Regression: a credential known to be dead is not tried again.
LoadUnlessDead(p) ==
    /\ client[p].pc = "idle"
    /\ client' = [client EXCEPT ![p].cred = stored,
                            ![p].pc = CASE stored = None              -> "not_connected"
                                        [] state = "reauth_required" -> "reauth_required"
                                        [] OTHER                     -> "refresh"]
    /\ UNCHANGED <<given, live, stored, file, state, attempt, callback, exchanged, losses>>

\* _resolve_client: the store is consulted first, the file for its owner.
Load(p) ==
    /\ client[p].pc = "idle"
    /\ client' = [client EXCEPT ![p] =
         CASE stored # None /\ stored.valid -> Outcome("healthy")
           [] stored # None /\ ~stored.valid -> [pc |-> "refresh", cred |-> stored, legacy |-> FALSE]
           [] stored = None /\ Owner /\ file # None -> [pc |-> "refresh", cred |-> file, legacy |-> TRUE]
           [] OTHER -> Outcome("not_connected")]
    /\ atRisk' = atRisk \cup {g \in Grants : Holds(p, g)' /\ \E r \in Clients \ {p} : Holds(r, g)}
    /\ UNCHANGED <<given, live, stored, file, state, attempt, callback, exchanged, failed>>

\* Regression: the refreshed credential serves this client only.
RefreshForNow(p, rotates) ==
    LET c == client[p].cred
        v == IF rotates THEN c.version + 1 ELSE c.version
    IN  /\ client[p].pc = "refresh" /\ Accepted(c)
        /\ rotates => c.version < MaxVersion
        /\ live' = [live EXCEPT ![c.grant] = v]
        /\ client' = [client EXCEPT ![p] = Outcome("healthy")]
        /\ UNCHANGED <<given, stored, file, state, attempt, callback, exchanged, losses>>

\* Google refreshes the credential, and may rotate it; a credential of the
\* file is written back there by its adapter.
Refresh(p, rotates) ==
    LET c == client[p].cred
        v == IF rotates THEN c.version + 1 ELSE c.version
        r == Credential(c.grant, v, TRUE)
    IN  /\ client[p].pc = "refresh" /\ Accepted(c)
        /\ rotates => c.version < MaxVersion
        /\ live' = [live EXCEPT ![c.grant] = v]
        /\ client' = [client EXCEPT ![p].pc = "store", ![p].cred = r]
        /\ file' = IF client[p].legacy THEN r ELSE file
        /\ UNCHANGED <<given, stored, state, attempt, callback, exchanged, losses>>

\* Google says that the grant is dead, or cannot be reached.
RefreshRefused(p) ==
    /\ client[p].pc = "refresh" /\ ~Accepted(client[p].cred)
    /\ client' = [client EXCEPT ![p] = Outcome("reauth_required")]
    /\ UNCHANGED <<given, live, stored, file, state, attempt, callback, exchanged, losses>>

RefreshUnreachable(p) ==
    /\ "network" \in Faults /\ client[p].pc = "refresh"
    /\ client' = [client EXCEPT ![p] = Outcome("degraded")]
    /\ UNCHANGED <<given, live, stored, file, state, attempt, callback, exchanged, losses>>

\* Google rotates the token and the answer does not arrive.
AnswerLost(p) ==
    LET c == client[p].cred
    IN  /\ "network" \in Faults /\ ~failed /\ client[p].pc = "refresh"
        /\ Accepted(c) /\ c.version < MaxVersion
        /\ live' = [live EXCEPT ![c.grant] = @ + 1]
        /\ failed' = TRUE /\ atRisk' = atRisk \cup {c.grant}
        /\ client' = [client EXCEPT ![p] = Outcome("degraded")]
        /\ UNCHANGED <<given, stored, file, state, attempt, callback, exchanged>>

\* The refreshed or adopted credential is written to the store.
Store(p) ==
    /\ client[p].pc = "store"
    /\ stored' = client[p].cred
    /\ client' = [client EXCEPT ![p] = Outcome("healthy")]
    /\ UNCHANGED <<given, live, file, state, attempt, callback, exchanged, losses>>

\* What is lost with the refreshed credential of a client: all that the store
\* has not, unless it is that of the file.
Lost(p) == {g \in Grants : client[p].pc = "store" /\ Holds(p, g) /\ ~client[p].legacy}

\* The write fails.  An adoption does without it; otherwise the exception
\* leaves _resolve_client as it came.
StoreFails(p) ==
    /\ "store" \in Faults /\ ~failed /\ client[p].pc = "store"
    /\ failed' = TRUE /\ atRisk' = atRisk \cup Lost(p)
    /\ client' = [client EXCEPT ![p] = IF client[p].legacy THEN Outcome("healthy") ELSE ClientIdle]
    /\ UNCHANGED <<given, live, stored, file, state, attempt, callback, exchanged>>

\* The process of a tick or of a check ends where it stands.
End(p) ==
    /\ "end" \in Faults /\ ~failed /\ client[p].pc # "idle"
    /\ failed' = TRUE /\ atRisk' = atRisk \cup Lost(p)
    /\ client' = [client EXCEPT ![p] = ClientIdle]
    /\ UNCHANGED <<given, live, stored, file, state, attempt, callback, exchanged>>

Verdicts == {"healthy", "degraded", "reauth_required", "not_connected"}

\* record_success, record_failure or record_not_connected
RecordVerdict(p) ==
    /\ client[p].pc \in Verdicts
    /\ state' = client[p].pc
    /\ client' = [client EXCEPT ![p] = ClientIdle]
    /\ UNCHANGED <<given, live, stored, file, attempt, callback, exchanged, losses>>

-----------------------------------------------------------------------------
\* begin_reconnect issues a state.
Begin(a) ==
    /\ attempt[a] = "unused"
    /\ attempt' = [attempt EXCEPT ![a] = "open"]
    /\ UNCHANGED <<given, live, stored, file, state, client, callback, exchanged, losses>>

\* Regression: the state is looked up and not deleted.
ConsumePeek(q, a) ==
    /\ callback[q].pc = "idle" /\ attempt[a] = "open"
    /\ callback' = [callback EXCEPT ![q] = [@ EXCEPT !.pc = "exchange", !.attempt = a]]
    /\ UNCHANGED <<given, live, stored, file, state, attempt, client, exchanged, losses>>

\* consume_google_reconnect: one statement deletes the state and returns it.
Consume(q, a) ==
    /\ callback[q].pc = "idle" /\ attempt[a] = "open"
    /\ attempt' = [attempt EXCEPT ![a] = "spent"]
    /\ callback' = [callback EXCEPT ![q] = [@ EXCEPT !.pc = "exchange", !.attempt = a]]
    /\ UNCHANGED <<given, live, stored, file, state, client, exchanged, losses>>

\* purge_expired_google_reconnect_states: an attempt nobody came back for.
Abandon(a) ==
    /\ attempt[a] = "open"
    /\ attempt' = [attempt EXCEPT ![a] = "spent"]
    /\ UNCHANGED <<given, live, stored, file, state, client, callback, exchanged, losses>>

\* exchange_code: the consent becomes a grant with all that is required.
Exchange(q) ==
    /\ callback[q].pc = "exchange" /\ given < MaxGrants
    /\ given' = given + 1
    /\ live' = [live EXCEPT ![given + 1] = 1]
    /\ callback' = [callback EXCEPT ![q].pc = "store", ![q].cred = Credential(given + 1, 1, TRUE)]
    /\ exchanged' = [exchanged EXCEPT ![callback[q].attempt] = IF @ < 2 THEN @ + 1 ELSE @]
    /\ UNCHANGED <<stored, file, state, attempt, client, losses>>

\* Declined, refused, without a refresh token or a scope: nothing changes.
ExchangeFails(q) ==
    /\ callback[q].pc = "exchange"
    /\ callback' = [callback EXCEPT ![q] = WebIdle]
    /\ UNCHANGED <<given, live, stored, file, state, attempt, client, exchanged, losses>>

StoreReconnect(q) ==
    /\ callback[q].pc = "store"
    /\ stored' = callback[q].cred
    /\ callback' = [callback EXCEPT ![q].pc = "record", ![q].cred = None]
    /\ UNCHANGED <<given, live, file, state, attempt, client, exchanged, losses>>

RecordReconnect(q) ==
    /\ callback[q].pc = "record"
    /\ state' = "healthy"
    /\ callback' = [callback EXCEPT ![q] = WebIdle]
    /\ UNCHANGED <<given, live, stored, file, attempt, client, exchanged, losses>>

-----------------------------------------------------------------------------
\* The access token runs out.
TokenExpires ==
    /\ stored # None /\ stored.valid
    /\ stored' = [stored EXCEPT !.valid = FALSE]
    /\ UNCHANGED <<given, live, file, state, attempt, client, callback, exchanged, losses>>

\* Google ends a grant: revoked, or too old.
Revoke(g) ==
    /\ live[g] # 0 /\ live' = [live EXCEPT ![g] = 0]
    /\ UNCHANGED <<given, stored, file, state, attempt, client, callback, exchanged, losses>>

\* An account connected before, or the first owner with the file, or neither.
Init ==
    /\ given = 1 /\ live = [g \in Grants |-> IF g = 1 THEN 1 ELSE 0]
    /\ stored \in {None, Credential(1, 1, FALSE)}
    /\ file = IF Owner /\ stored = None THEN Credential(1, 1, FALSE) ELSE None
    /\ state = "not_connected"
    /\ attempt = [a \in Attempts |-> "unused"]
    /\ client = [p \in Clients |-> ClientIdle]
    /\ callback = [q \in Callbacks |-> WebIdle]
    /\ exchanged = [a \in Attempts |-> 0]
    /\ failed = FALSE /\ atRisk = {}

Answered(p) == \E rotates \in BOOLEAN : Refresh(p, rotates)

ClientStep(p) ==
    \/ Load(p) \/ Answered(p) \/ RefreshRefused(p) \/ RefreshUnreachable(p) \/ AnswerLost(p)
    \/ Store(p) \/ StoreFails(p) \/ RecordVerdict(p)

WebStep(q) ==
    \/ \E a \in Attempts : Consume(q, a)
    \/ Exchange(q) \/ ExchangeFails(q) \/ StoreReconnect(q) \/ RecordReconnect(q)

Google == TokenExpires \/ \E g \in Grants : Revoke(g)

Next ==
    \/ \E p \in Clients : ClientStep(p) \/ End(p)
    \/ \E q \in Callbacks : WebStep(q)
    \/ \E a \in Attempts : Begin(a) \/ Abandon(a)
    \/ Google

Spec == Init /\ [][Next]_vars

\* The tick is run again and again, the request of a callback is answered, and
\* a refresh that is tried for ever gets through.  Nobody has to press a check
\* button.
FairSpec ==
    /\ Spec
    /\ \A p \in Ticks : WF_vars(ClientStep(p)) /\ SF_vars(Answered(p))
    /\ \A q \in Callbacks : WF_vars(callback[q].pc # "idle" /\ WebStep(q))

-----------------------------------------------------------------------------
Refreshing == [pc : {"idle", "refresh", "store"} \cup Verdicts, cred : Credentials \cup {None}, legacy : BOOLEAN]
Reconnecting == [pc : {"idle", "exchange", "store", "record"}, cred : Credentials \cup {None},
                 attempt : Attempts \cup {None}]

\* The types; and a callback at work has spent its attempt.
TypeOK ==
    /\ given \in Grants /\ live \in [Grants -> 0..MaxVersion]
    /\ stored \in Credentials \cup {None} /\ file \in Credentials \cup {None}
    /\ state \in Verdicts /\ failed \in BOOLEAN /\ atRisk \subseteq Grants
    /\ attempt \in [Attempts -> {"unused", "open", "spent"}] /\ exchanged \in [Attempts -> 0..2]
    /\ client \in [Clients -> Refreshing] /\ callback \in [Callbacks -> Reconnecting]
    /\ \A p \in Clients : client[p].pc \in {"refresh", "store"} => client[p].cred # None
    /\ \A q \in Callbacks : /\ callback[q].pc = "store" => callback[q].cred # None
                            /\ callback[q].pc # "idle" => /\ callback[q].attempt # None
                                                          /\ attempt[callback[q].attempt] = "spent"

\* An attempt to reconnect is carried out once, however often its callback
\* arrives.
AttemptOnce == \A a \in Attempts : exchanged[a] <= 1

\* A rotation is not lost between the store and the clients: while Google
\* accepts the grant of the stored credential, it accepts that very version, or
\* a client that has the next one is about to store it.  Exempt are the grants
\* that can lose one, and they are the only ones: those in hand when a write
\* fails, an answer is lost or a process ends between Google and the store, and
\* those that two clients, a tick and a check, had in hand at once, which
\* nothing in the code prevents (user_clients.py, _refresh_if_needed; app.py,
\* classroom_check).
RotationKept ==
    stored # None /\ stored.grant \notin atRisk /\ live[stored.grant] # 0 =>
        \/ Accepted(stored)
        \/ \E p \in Clients : client[p].pc = "store" /\ Holds(p, stored.grant) /\ Accepted(client[p].cred)

\* As long as the stored credential is good, the account page comes to say
\* so again, whatever it was made to say by a client that met an older one.
ComesBack == <>[]Current(stored) => []<>(state = "healthy")
=============================================================================
