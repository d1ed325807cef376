----------------------------- MODULE StoreProofs -----------------------------
(***************************************************************************)
(* Proofs about what is kept in the database file: GoogleCredentials, the  *)
(* authorization of an account, for any number of grants, rotations,       *)
(* callbacks and attempts; and Migrations, the file itself, for any        *)
(* scripts, processes and crashes.  Each theorem is about one of the two,  *)
(* whose constants and variables are its own.                              *)
(***************************************************************************)
EXTENDS GoogleCredentials, Migrations, TLAPS

\* What is spent is exchanged at most once: an attempt belongs to the one
\* callback that consumed it.
OnceInv ==
    /\ \A a \in Attempts : (attempt[a] # "spent" => exchanged[a] = 0) /\ exchanged[a] <= 1
    /\ \A q \in Callbacks : callback[q].pc = "exchange" => exchanged[callback[q].attempt] = 0
    /\ \A q, r \in Callbacks :
          callback[q].pc = "exchange" /\ callback[r].pc = "exchange" /\ callback[q].attempt = callback[r].attempt => q = r

\* What the assumption says of each constant.
LEMMA Constants ==
    /\ MaxGrants \in Nat /\ MaxGrants >= 1 /\ MaxVersion \in Nat /\ MaxVersion >= 1
    /\ None \notin Attempts /\ None \notin Credentials /\ Credential(1, 1, FALSE) \in Credentials
BY CredentialAssumption DEF CredentialAssumption, Credentials, Credential, Grants

\* The store starts well typed.
LEMMA TypeInit == Init => TypeOK
<1> SUFFICES ASSUME Init PROVE TypeOK
  OBVIOUS
<1>1. given \in Grants /\ live \in [Grants -> 0..MaxVersion]
  BY Constants DEF Init, Grants
<1>2. stored \in Credentials \cup {None} /\ file \in Credentials \cup {None}
  BY Constants DEF Init
<1>3. client \in [Clients -> Refreshing] /\ \A p \in Clients : client[p].pc = "idle"
  BY DEF Init, ClientIdle, Refreshing
<1>4. callback \in [Callbacks -> Reconnecting] /\ \A q \in Callbacks : callback[q].pc = "idle"
  BY DEF Init, WebIdle, Reconnecting
<1>5. state \in Verdicts /\ failed \in BOOLEAN /\ atRisk \subseteq Grants
  BY DEF Init, Verdicts
<1>6. attempt \in [Attempts -> {"unused", "open", "spent"}]
  BY DEF Init
<1>7. exchanged \in [Attempts -> 0..2]
  <2>1. exchanged = [a \in Attempts |-> 0] /\ 0 \in 0..2
    BY DEF Init
  <2>2. QED
    BY <2>1
<1>8. QED
  BY <1>1, <1>2, <1>3, <1>4, <1>5, <1>6, <1>7 DEF TypeOK

\* A step of a client that leaves the callbacks and the attempts alone.
LEMMA ClientType ==
    ASSUME TypeOK, NEW p \in Clients, NEW t \in Refreshing, t.pc \in {"refresh", "store"} => t.cred # None,
           client' = [client EXCEPT ![p] = t], UNCHANGED <<given, attempt, callback, exchanged>>,
           live' \in [Grants -> 0..MaxVersion], stored' \in Credentials \cup {None}, file' \in Credentials \cup {None},
           state' \in Verdicts, failed' \in BOOLEAN, atRisk' \subseteq Grants
    PROVE  TypeOK'
<1>1. client' \in [Clients -> Refreshing] /\ \A r \in Clients : client'[r] = t \/ client'[r] = client[r]
  BY DEF TypeOK
<1>2. \A r \in Clients : client'[r].pc \in {"refresh", "store"} => client'[r].cred # None
  BY <1>1 DEF TypeOK
<1>3. QED
  BY <1>1, <1>2 DEF TypeOK

\* A step of a callback that leaves the clients alone.
LEMMA WebType ==
    ASSUME TypeOK, NEW q \in Callbacks, NEW c \in Reconnecting, c.pc = "store" => c.cred # None,
           c.pc # "idle" => c.attempt # None /\ attempt'[c.attempt] = "spent",
           callback' = [callback EXCEPT ![q] = c], UNCHANGED <<client, file, failed, atRisk>>,
           given' \in Grants, live' \in [Grants -> 0..MaxVersion], stored' \in Credentials \cup {None},
           state' \in Verdicts, attempt' \in [Attempts -> {"unused", "open", "spent"}],
           \A a \in Attempts : attempt[a] = "spent" => attempt'[a] = "spent", exchanged' \in [Attempts -> 0..2]
    PROVE  TypeOK'
<1>1. callback' \in [Callbacks -> Reconnecting] /\ \A r \in Callbacks : callback'[r] = c \/ callback'[r] = callback[r]
  BY DEF TypeOK
<1>2. \A r \in Callbacks : /\ callback'[r].pc = "store" => callback'[r].cred # None
                           /\ callback'[r].pc # "idle" => /\ callback'[r].attempt # None
                                                          /\ attempt'[callback'[r].attempt] = "spent"
  BY <1>1 DEF TypeOK, Reconnecting
<1>3. QED
  BY <1>1, <1>2 DEF TypeOK

\* Every step of a client keeps the types.
LEMMA ClientStepType == ASSUME TypeOK, NEW p \in Clients, ClientStep(p) PROVE TypeOK'
<1> DEFINE c == client[p].cred
<1>1. /\ client[p] \in Refreshing /\ ClientIdle \in Refreshing /\ ClientIdle.pc = "idle"
      /\ \A v \in Verdicts : Outcome(v) \in Refreshing /\ Outcome(v).pc = v /\ v \notin {"refresh", "store"}
      /\ client[p].pc \in {"refresh", "store"} => c \in Credentials
      /\ live \in [Grants -> 0..MaxVersion] /\ stored \in Credentials \cup {None} /\ file \in Credentials \cup {None}
      /\ state \in Verdicts /\ failed \in BOOLEAN /\ atRisk \subseteq Grants
  BY DEF TypeOK, ClientIdle, Refreshing, Outcome, Verdicts
<1>2. CASE Load(p)
  <2> DEFINE t == CASE stored # None /\ stored.valid -> Outcome("healthy")
                    [] stored # None /\ ~stored.valid -> [pc |-> "refresh", cred |-> stored, legacy |-> FALSE]
                    [] stored = None /\ Owner /\ file # None -> [pc |-> "refresh", cred |-> file, legacy |-> TRUE]
                    [] OTHER -> Outcome("not_connected")
  <2>1. client' = [client EXCEPT ![p] = t] /\ atRisk' \subseteq Grants
    BY <1>1, <1>2 DEF Load
  <2>2. t \in Refreshing /\ (t.pc \in {"refresh", "store"} => t.cred # None)
    <3>1. "healthy" \in Verdicts /\ "not_connected" \in Verdicts
      BY DEF Verdicts
    <3>2. CASE stored # None /\ stored.valid
      BY <1>1, <3>1, <3>2
    <3>3. CASE stored # None /\ ~stored.valid
      BY <1>1, <3>3 DEF Refreshing
    <3>4. CASE stored = None /\ Owner /\ file # None
      BY <1>1, <3>4 DEF Refreshing
    <3>5. CASE stored = None /\ ~(Owner /\ file # None)
      BY <1>1, <3>1, <3>5
    <3>6. QED
      BY <3>2, <3>3, <3>4, <3>5
  <2> HIDE DEF t
  <2>3. QED
    BY <1>1, <1>2, <2>1, <2>2, ClientType DEF Load
<1>3. ASSUME NEW rotates \in BOOLEAN, Refresh(p, rotates) PROVE TypeOK'
  <2> DEFINE v == IF rotates THEN c.version + 1 ELSE c.version
             r == Credential(c.grant, v, TRUE)
             t == [client[p] EXCEPT !.pc = "store", !.cred = r]
  <2>1. c \in Credentials /\ c.grant \in Grants /\ v \in 1..MaxVersion
    BY <1>1, <1>3, Constants DEF Refresh, Credentials
  <2>2. r \in Credentials /\ live' \in [Grants -> 0..MaxVersion] /\ file' \in Credentials \cup {None}
    BY <1>1, <1>3, <2>1, Constants DEF Refresh, Credential, Credentials
  <2>5. client' = [client EXCEPT ![p] = t]
    BY <1>3 DEF Refresh
  <2>3. t \in Refreshing /\ t.cred # None /\ client' = [client EXCEPT ![p] = t]
    BY <1>1, <2>2, <2>5, Constants DEF Refreshing
  <2> HIDE DEF t
  <2>4. QED
    BY <1>1, <1>3, <2>2, <2>3, ClientType DEF Refresh, losses
<1>4. CASE RefreshRefused(p) \/ RefreshUnreachable(p)
  <2>1. PICK v \in Verdicts : client' = [client EXCEPT ![p] = Outcome(v)]
    BY <1>4 DEF RefreshRefused, RefreshUnreachable, Verdicts
  <2>2. QED
    BY <1>1, <1>4, <2>1, ClientType DEF RefreshRefused, RefreshUnreachable, losses
<1>5. CASE Store(p) \/ StoreFails(p)
  <2>1. /\ "healthy" \in Verdicts /\ c \in Credentials
        /\ client' = [client EXCEPT ![p] = Outcome("healthy")] \/ client' = [client EXCEPT ![p] = ClientIdle]
    BY <1>1, <1>5 DEF Store, StoreFails, Verdicts
  <2>2. /\ stored' \in Credentials \cup {None} /\ failed' \in BOOLEAN /\ atRisk' \subseteq Grants
        /\ UNCHANGED <<given, live, file, state, attempt, callback, exchanged>>
    BY <1>1, <1>5, <2>1 DEF Store, StoreFails, losses, Lost
  <2>3. QED
    BY <1>1, <2>1, <2>2, ClientType
<1>8. CASE AnswerLost(p)
  <2>1. /\ "degraded" \in Verdicts /\ client' = [client EXCEPT ![p] = Outcome("degraded")]
        /\ c \in Credentials /\ c.grant \in Grants /\ live[c.grant] = c.version /\ c.version < MaxVersion
    BY <1>1, <1>8 DEF AnswerLost, Verdicts, Accepted, Credentials
  <2>2. live' \in [Grants -> 0..MaxVersion] /\ atRisk' \subseteq Grants
    BY <1>1, <1>8, <2>1, Constants DEF AnswerLost, Credentials
  <2>3. QED
    BY <1>1, <1>8, <2>1, <2>2, ClientType DEF AnswerLost
<1>6. CASE RecordVerdict(p)
  BY <1>1, <1>6, ClientType DEF RecordVerdict, losses
<1>7. QED
  BY <1>2, <1>3, <1>4, <1>5, <1>6, <1>8 DEF ClientStep, Answered

\* A process that ends keeps them too.
LEMMA EndType == ASSUME TypeOK, NEW p \in Clients, End(p) PROVE TypeOK'
<1>1. ClientIdle \in Refreshing /\ ClientIdle.pc = "idle" /\ atRisk' \subseteq Grants
  BY DEF End, Lost, TypeOK, ClientIdle, Refreshing
<1>2. QED
  BY <1>1, ClientType DEF End, TypeOK

\* Every step of a callback keeps them.
LEMMA WebStepType == ASSUME TypeOK, NEW q \in Callbacks, WebStep(q) PROVE TypeOK'
<1>1. /\ callback[q] \in Reconnecting /\ WebIdle \in Reconnecting /\ WebIdle.pc = "idle"
      /\ callback[q].pc = "store" => callback[q].cred \in Credentials
      /\ callback[q].pc # "idle" => callback[q].attempt \in Attempts /\ attempt[callback[q].attempt] = "spent"
      /\ live \in [Grants -> 0..MaxVersion] /\ stored \in Credentials \cup {None} /\ state \in Verdicts
      /\ given \in Grants /\ exchanged \in [Attempts -> 0..2] /\ attempt \in [Attempts -> {"unused", "open", "spent"}]
  BY DEF TypeOK, WebIdle, Reconnecting
<1>2. ASSUME NEW a \in Attempts, Consume(q, a) PROVE TypeOK'
  <2> DEFINE c == [callback[q] EXCEPT !.pc = "exchange", !.attempt = a]
  <2>1. c \in Reconnecting /\ c.pc = "exchange" /\ c.attempt = a /\ a # None /\ callback' = [callback EXCEPT ![q] = c]
    BY <1>1, <1>2, Constants DEF Consume, Reconnecting
  <2>2. attempt' \in [Attempts -> {"unused", "open", "spent"}] /\ attempt'[a] = "spent"
        /\ \A b \in Attempts : attempt[b] = "spent" => attempt'[b] = "spent"
    BY <1>1, <1>2 DEF Consume
  <2> HIDE DEF c
  <2>3. UNCHANGED <<given, live, stored, file, state, client, exchanged, failed, atRisk>>
    BY <1>2 DEF Consume, losses
  <2>4. QED
    BY <1>1, <2>1, <2>2, <2>3, WebType
<1>3. CASE Exchange(q)
  <2> DEFINE c == [callback[q] EXCEPT !.pc = "store", !.cred = Credential(given + 1, 1, TRUE)]
  <2>1. given + 1 \in Grants /\ 1 \in 0..MaxVersion /\ callback[q].attempt \in Attempts
    BY <1>1, <1>3, Constants DEF Exchange, Grants
  <2>2. Credential(given + 1, 1, TRUE) \in Credentials
    BY <2>1, Constants DEF Credential, Credentials
  <2>3. c \in Reconnecting /\ c.cred # None /\ c.attempt = callback[q].attempt /\ callback' = [callback EXCEPT ![q] = c]
    BY <1>1, <1>3, <2>2, Constants DEF Exchange, Reconnecting
  <2>4. live' \in [Grants -> 0..MaxVersion] /\ exchanged' \in [Attempts -> 0..2]
    BY <1>1, <1>3, <2>1 DEF Exchange
  <2> HIDE DEF c
  <2>5. given' \in Grants /\ UNCHANGED <<stored, file, state, attempt, client, failed, atRisk>>
        /\ attempt[callback[q].attempt] = "spent" /\ callback[q].attempt # None
    BY <1>1, <1>3, <2>1, Constants DEF Exchange, losses
  <2>6. QED
    BY <1>1, <2>3, <2>4, <2>5, WebType
<1>4. CASE ExchangeFails(q) \/ RecordReconnect(q)
  <2>1. /\ callback' = [callback EXCEPT ![q] = WebIdle] /\ state' \in Verdicts
        /\ UNCHANGED <<given, live, stored, file, attempt, client, exchanged, losses>>
    BY <1>1, <1>4 DEF ExchangeFails, RecordReconnect, Verdicts
  <2>2. QED
    BY <1>1, <2>1, WebType DEF losses
<1>5. CASE StoreReconnect(q)
  <2> DEFINE c == [callback[q] EXCEPT !.pc = "record", !.cred = None]
  <2>1. /\ c \in Reconnecting /\ c.pc = "record" /\ c.attempt = callback[q].attempt
        /\ callback[q].attempt # None /\ stored' \in Credentials /\ callback' = [callback EXCEPT ![q] = c]
    BY <1>1, <1>5, Constants DEF StoreReconnect, Reconnecting
  <2> HIDE DEF c
  <2>2. QED
    BY <1>1, <1>5, <2>1, WebType DEF StoreReconnect, losses
<1>6. QED
  BY <1>2, <1>3, <1>4, <1>5 DEF WebStep

\* Every step of the system does.
LEMMA TypeStep == ASSUME TypeOK, [Next]_vars PROVE TypeOK'
<1>1. ASSUME NEW a \in Attempts, Begin(a) \/ Abandon(a) PROVE TypeOK'
  <2>1. /\ attempt' \in [Attempts -> {"unused", "open", "spent"}]
        /\ \A b \in Attempts : attempt[b] = "spent" => attempt'[b] = "spent"
    BY <1>1 DEF Begin, Abandon, TypeOK
  <2>2. UNCHANGED <<given, live, stored, file, state, client, callback, exchanged, failed, atRisk>>
    BY <1>1 DEF Begin, Abandon, losses
  <2>3. \A q \in Callbacks : callback[q].pc # "idle" => callback[q].attempt \in Attempts
    BY DEF TypeOK, Reconnecting
  <2>4. QED
    BY <2>1, <2>2, <2>3 DEF TypeOK
<1>2. CASE TokenExpires
  <2>1. stored' \in Credentials
    BY <1>2 DEF TokenExpires, TypeOK, Credentials
  <2>2. QED
    BY <1>2, <2>1 DEF TokenExpires, TypeOK, losses
<1>3. ASSUME NEW g \in Grants, Revoke(g) PROVE TypeOK'
  <2>1. live' \in [Grants -> 0..MaxVersion]
    BY <1>3, Constants DEF Revoke, TypeOK
  <2>2. QED
    BY <1>3, <2>1 DEF Revoke, TypeOK, losses
<1>4. CASE UNCHANGED vars
  BY <1>4 DEF vars, losses, TypeOK
<1>5. QED
  BY <1>1, <1>2, <1>3, <1>4, ClientStepType, EndType, WebStepType DEF Next, Google

\* Every state is well typed, and a callback at work has spent its attempt
\* (consume_google_reconnect).
THEOREM TypeCorrect == Spec => []TypeOK
BY TypeInit, TypeStep, PTL DEF Spec

-----------------------------------------------------------------------------
\* No step makes an exchanged attempt available again.
LEMMA OnceStep == ASSUME TypeOK, OnceInv, [Next]_vars PROVE OnceInv'
<1>0. \A q \in Callbacks : callback[q].pc # "idle" => /\ callback[q].attempt \in Attempts
                                                      /\ attempt[callback[q].attempt] = "spent"
  BY DEF TypeOK, Reconnecting
<1>1. CASE UNCHANGED <<attempt, callback, exchanged>>
  BY <1>1 DEF OnceInv
<1>2. ASSUME NEW p \in Clients, ClientStep(p) \/ End(p) PROVE OnceInv'
  BY <1>1, <1>2 DEF ClientStep, End, Load, Answered, Refresh, RefreshRefused, RefreshUnreachable, AnswerLost,
                    Store, StoreFails, RecordVerdict
<1>3. ASSUME NEW a \in Attempts, Begin(a) \/ Abandon(a) PROVE OnceInv'
  <2>1. UNCHANGED <<callback, exchanged>> /\ attempt[a] # "spent" /\ \A b \in Attempts : b # a => attempt'[b] = attempt[b]
    BY <1>3 DEF Begin, Abandon, TypeOK
  <2>2. QED
    BY <2>1 DEF OnceInv
<1>4. ASSUME NEW q \in Callbacks, NEW a \in Attempts, Consume(q, a) PROVE OnceInv'
  <2>1. /\ attempt[a] = "open" /\ attempt'[a] = "spent" /\ exchanged' = exchanged
        /\ \A b \in Attempts : b # a => attempt'[b] = attempt[b]
        /\ callback'[q].attempt = a /\ \A r \in Callbacks : r # q => callback'[r] = callback[r]
    BY <1>4 DEF Consume, TypeOK, Reconnecting
  <2>2. \A r \in Callbacks : callback[r].pc = "exchange" => callback[r].attempt # a
    BY <1>0, <2>1
  <2>3. QED
    BY <2>1, <2>2 DEF OnceInv
<1>5. ASSUME NEW q \in Callbacks, Exchange(q) PROVE OnceInv'
  <2> DEFINE a == callback[q].attempt
  <2>1. /\ callback[q].pc = "exchange" /\ a \in Attempts /\ attempt[a] = "spent" /\ attempt' = attempt
        /\ callback'[q].pc = "store" /\ \A r \in Callbacks : r # q => callback'[r] = callback[r]
    BY <1>0, <1>5 DEF Exchange, TypeOK, Reconnecting
  <2>2. exchanged[a] = 0 /\ exchanged'[a] = 1 /\ \A b \in Attempts : b # a => exchanged'[b] = exchanged[b]
    BY <1>5, <2>1 DEF Exchange, TypeOK, OnceInv
  <2>3. \A r \in Callbacks : r # q /\ callback[r].pc = "exchange" => callback[r].attempt # a /\ callback[r].attempt \in Attempts
    BY <1>0, <2>1 DEF OnceInv
  <2> HIDE DEF a
  <2>4. QED
    BY <2>1, <2>2, <2>3 DEF OnceInv
<1>6. ASSUME NEW q \in Callbacks, ExchangeFails(q) \/ StoreReconnect(q) \/ RecordReconnect(q) PROVE OnceInv'
  <2>1. /\ UNCHANGED <<attempt, exchanged>> /\ callback'[q].pc # "exchange"
        /\ \A r \in Callbacks : r # q => callback'[r] = callback[r]
    BY <1>6 DEF ExchangeFails, StoreReconnect, RecordReconnect, TypeOK, WebIdle, Reconnecting
  <2>2. QED
    BY <2>1 DEF OnceInv
<1>7. CASE Google \/ UNCHANGED vars
  BY <1>1, <1>7 DEF Google, TokenExpires, Revoke, vars
<1>8. QED
  BY <1>2, <1>3, <1>4, <1>5, <1>6, <1>7 DEF Next, WebStep

\* One reconnect attempt leads to one exchange of its code, however many
\* requests carry its state (consume_google_reconnect).
THEOREM AttemptOnceHolds == Spec => []AttemptOnce
<1>1. Init => OnceInv
  BY DEF Init, OnceInv, WebIdle
<1>2. OnceInv => AttemptOnce
  BY DEF OnceInv, AttemptOnce
<1>3. QED
  BY <1>1, <1>2, OnceStep, TypeCorrect, PTL DEF Spec

-----------------------------------------------------------------------------
\* A credential that is still what Google accepts, as far as its grant is good
\* and not atRisk.
Whole(c) == c.grant \in atRisk \/ live[c.grant] = 0 \/ Accepted(c)

Bringing(q) == callback[q].pc = "store"

\* What a client works with is whole, and so is the file as long as the store
\* has nothing; only the grants atRisk are in the hands of two clients,
\* or in the store beside an adoption; a callback brings a grant nobody else
\* has.
KeptInv ==
    /\ RotationKept
    /\ \A p \in Clients : Using(p) => Whole(client[p].cred) /\ (client[p].legacy \/ stored # None)
    /\ \A p, r \in Clients : p # r /\ Using(p) /\ Using(r) /\ client[p].cred.grant = client[r].cred.grant
                             => client[p].cred.grant \in atRisk
    /\ \A p \in Clients : /\ Using(p) /\ client[p].legacy
                           /\ stored # None /\ stored.grant = client[p].cred.grant
                           => client[p].cred.grant \in atRisk
    /\ stored = None /\ file # None => Whole(file)
    /\ stored # None => stored.grant <= given
    /\ file # None => file.grant <= given
    /\ \A p \in Clients : Using(p) => client[p].cred.grant <= given
    /\ \A q \in Callbacks : Bringing(q) =>
          LET g == callback[q].cred.grant
          IN  /\ Whole(callback[q].cred) /\ g <= given
              /\ stored # None => stored.grant # g
              /\ file # None => file.grant # g
              /\ \A p \in Clients : Using(p) => client[p].cred.grant # g
              /\ \A r \in Callbacks : r # q /\ Bringing(r) => callback[r].cred.grant # g

\* At the start the stored credential is the newest of its grant.
LEMMA KeptInit == Init => KeptInv
<1> SUFFICES ASSUME Init PROVE KeptInv
  OBVIOUS
<1>1. /\ \A p \in Clients : ~Using(p)
      /\ \A q \in Callbacks : ~Bringing(q)
  BY DEF Init, ClientIdle, WebIdle, Using, Bringing
<1>2. given = 1 /\ (stored # None => stored = Credential(1, 1, FALSE)) /\ (file # None => file = Credential(1, 1, FALSE))
  BY DEF Init
<1>3. live[1] = 1
  BY Constants DEF Init, Grants
<1>4. Credential(1, 1, FALSE).grant = 1 /\ Accepted(Credential(1, 1, FALSE))
  BY <1>3 DEF Credential, Accepted
<1>5. RotationKept /\ (stored = None /\ file # None => Whole(file))
  BY <1>2, <1>4 DEF RotationKept, Whole
<1>6. (stored # None => stored.grant <= given) /\ (file # None => file.grant <= given)
  <2>1. ASSUME NEW c, c = Credential(1, 1, FALSE) PROVE c.grant <= given
    <3>1. c.grant = 1
      BY <2>1 DEF Credential
    <3>2. QED
      BY <1>2, <3>1
  <2>2. QED
    BY <1>2, <2>1
<1>7. QED
  BY <1>1, <1>2, <1>5, <1>6 DEF KeptInv

\* What a client does with the credential it has in hand.
LEMMA KeptLoad == ASSUME TypeOK, KeptInv, NEW p \in Clients, Load(p) PROVE KeptInv'
<1>1. /\ UNCHANGED <<given, live, stored, file, callback>> /\ client[p].pc = "idle" /\ ~Using(p)
      /\ atRisk \subseteq atRisk' /\ \A r \in Clients : r # p => client'[r] = client[r]
  BY DEF Load, TypeOK, Using
<1>2. Using(p)' => \/ stored # None /\ client'[p].cred = stored /\ ~client'[p].legacy
                   \/ stored = None /\ file # None /\ client'[p].cred = file /\ client'[p].legacy
  <2>0. \A v \in {"healthy", "not_connected"} : Outcome(v).pc \notin {"refresh", "store"}
    BY DEF Outcome, ClientIdle
  <2>1. client'[p] = CASE stored # None /\ stored.valid -> Outcome("healthy")
                       [] stored # None /\ ~stored.valid -> [pc |-> "refresh", cred |-> stored, legacy |-> FALSE]
                       [] stored = None /\ Owner /\ file # None -> [pc |-> "refresh", cred |-> file, legacy |-> TRUE]
                       [] OTHER -> Outcome("not_connected")
    BY DEF Load, TypeOK
  <2>2. CASE stored # None /\ stored.valid
    BY <2>0, <2>1, <2>2 DEF Using
  <2>3. CASE stored # None /\ ~stored.valid
    <3>1. client'[p] = [pc |-> "refresh", cred |-> stored, legacy |-> FALSE]
      BY <2>1, <2>3
    <3>2. QED
      BY <2>3, <3>1
  <2>4. CASE stored = None /\ Owner /\ file # None
    BY <2>1, <2>4 DEF Using
  <2>5. CASE stored = None /\ ~(Owner /\ file # None)
    BY <2>0, <2>1, <2>5 DEF Using
  <2>6. QED
    BY <2>2, <2>3, <2>4, <2>5
<1>3. ASSUME NEW r \in Clients, r # p, Using(p)', Using(r), client'[p].cred.grant = client[r].cred.grant
      PROVE  client'[p].cred.grant \in atRisk'
  <2>0. PICK g : g = client[r].cred.grant
    OBVIOUS
  <2>1. g \in Grants
    BY <1>3, <2>0 DEF TypeOK, Refreshing, Credentials, Using
  <2>2. Holds(p, g)' /\ Holds(r, g)
    BY <1>3, <2>0 DEF Holds, Using
  <2>3. QED
    BY <1>3, <2>0, <2>1, <2>2 DEF Load
<1>4. stored # None /\ Using(p)' /\ client'[p].cred = stored => Whole(stored)'
  <2> SUFFICES ASSUME stored # None, Using(p)', client'[p].cred = stored, stored.grant \notin atRisk',
                      live[stored.grant] # 0
               PROVE  Accepted(stored)
    BY <1>1 DEF Whole, Accepted
  <2>1. ASSUME NEW r \in Clients, Holds(r, stored.grant) PROVE FALSE
    BY <1>1, <1>3, <2>1 DEF Holds
  <2>2. QED
    BY <1>1, <2>1 DEF KeptInv, RotationKept
<1>5. RotationKept'
  BY <1>1 DEF KeptInv, RotationKept, Accepted, Using, Holds
<1>6. \A r \in Clients : Using(r)' => /\ Whole(client[r].cred)' /\ (client'[r].legacy \/ stored' # None)
                                      /\ client'[r].cred.grant <= given
                                      /\ \A q \in Callbacks : Bringing(q) => client'[r].cred.grant # callback[q].cred.grant
  <2>1. Using(p)' => Whole(client[p].cred)'
    BY <1>1, <1>2, <1>4 DEF KeptInv, Whole, Accepted
  <2>2. QED
    BY <1>1, <1>2, <2>1 DEF KeptInv, Using, Whole, Accepted
<1>7. \A u, r \in Clients : u # r /\ Using(u)' /\ Using(r)' /\ client'[u].cred.grant = client'[r].cred.grant
                            => client'[u].cred.grant \in atRisk'
  BY <1>1, <1>3 DEF KeptInv, Using
<1>8. \A r \in Clients : /\ Using(r)' /\ client'[r].legacy
                         /\ stored' # None /\ stored'.grant = client'[r].cred.grant
                         => client'[r].cred.grant \in atRisk'
  BY <1>1, <1>2 DEF KeptInv, Using
<1>9. QED
  BY <1>1, <1>5, <1>6, <1>7, <1>8 DEF KeptInv, Whole, Accepted, Bringing

\* A refresh leaves the newest version with the client.
LEMMA KeptRefresh == ASSUME TypeOK, KeptInv, NEW p \in Clients, NEW rotates \in BOOLEAN, Refresh(p, rotates) PROVE KeptInv'
<1>0. PICK c : c = client[p].cred
  OBVIOUS
<1> DEFINE v == IF rotates THEN c.version + 1 ELSE c.version
           r == Credential(c.grant, v, TRUE)
<1>1. /\ UNCHANGED <<given, stored, callback, atRisk>> /\ Using(p) /\ client[p].pc = "refresh"
      /\ c \in Credentials /\ c.grant \in Grants /\ Accepted(c)
  BY <1>0 DEF Refresh, losses, Using, TypeOK, Refreshing, Credentials
<1>2. /\ \A s \in Clients : s # p => client'[s] = client[s]
      /\ client'[p].cred = r /\ client'[p].pc = "store" /\ client'[p].legacy = client[p].legacy
      /\ live'[c.grant] = v /\ \A g \in Grants : g # c.grant => live'[g] = live[g]
      /\ file' = IF client[p].legacy THEN r ELSE file
  BY <1>0, <1>1 DEF Refresh, TypeOK, Refreshing
<1>3. r.grant = c.grant /\ r.version = v
  BY DEF Credential
<1>4. Accepted(r)' /\ Whole(r)' /\ r # None
  <2>1. r \in Credentials
    BY <1>0, <1>1, Constants DEF Credential, Credentials, Refresh
  <2>2. Accepted(r)'
    BY <1>2, <1>3 DEF Accepted
  <2>3. QED
    BY <2>1, <2>2, Constants DEF Whole
<1> HIDE DEF r, v
<1>5. RotationKept'
  <2> SUFFICES ASSUME stored # None, stored.grant \notin atRisk, live'[stored.grant] # 0
               PROVE  Accepted(stored)' \/ \E s \in Clients : /\ client'[s].pc = "store" /\ Accepted(client[s].cred)'
                                                             /\ client'[s].cred.grant = stored.grant
    BY <1>1 DEF RotationKept, Holds, Using
  <2>1. CASE stored.grant = c.grant
    BY <1>2, <1>3, <1>4, <2>1 DEF Accepted
  <2>2. CASE stored.grant # c.grant
    <3>1. live'[stored.grant] = live[stored.grant]
      BY <1>2, <2>2 DEF TypeOK, Credentials
    <3>2. CASE Accepted(stored)
      BY <1>1, <3>1, <3>2 DEF Accepted
    <3>3. CASE ~Accepted(stored)
      <4>1. PICK s \in Clients : client[s].pc = "store" /\ client[s].cred.grant = stored.grant /\ Accepted(client[s].cred)
        BY <1>1, <3>1, <3>3 DEF KeptInv, RotationKept, Holds
      <4>2. s # p
        BY <1>1, <4>1
      <4>3. QED
        BY <1>2, <3>1, <4>1, <4>2 DEF Accepted
    <3>4. QED
      BY <3>2, <3>3
  <2>3. QED
    BY <2>1, <2>2
<1>6. ASSUME NEW s \in Clients, Using(s)' PROVE Whole(client[s].cred)' /\ (client'[s].legacy \/ stored' # None)
  <2>1. CASE s = p
    BY <1>1, <1>2, <1>4, <2>1 DEF KeptInv
  <2>2. CASE s # p
    <3>1. Using(s) /\ client'[s] = client[s] /\ client[s].cred \in Credentials
      BY <1>2, <1>6, <2>2 DEF Using, TypeOK, Refreshing
    <3>2. client[s].cred.grant = c.grant => client[s].cred.grant \in atRisk
      BY <1>0, <1>1, <2>2, <3>1 DEF KeptInv
    <3>3. client[s].cred.grant # c.grant => live'[client[s].cred.grant] = live[client[s].cred.grant]
      BY <1>2, <3>1 DEF Credentials
    <3>4. QED
      BY <1>1, <3>1, <3>2, <3>3 DEF KeptInv, Whole, Accepted
  <2>3. QED
    BY <2>1, <2>2
<1>7. stored' = None /\ file' # None => Whole(file)'
  BY <1>1, <1>2, <1>4 DEF KeptInv
<1>11. \A u, s \in Clients : u # s /\ Using(u)' /\ Using(s)' /\ client'[u].cred.grant = client'[s].cred.grant
                            => client'[u].cred.grant \in atRisk'
  BY <1>0, <1>1, <1>2, <1>3 DEF KeptInv, Using
<1>12. \A s \in Clients : /\ Using(s)' /\ client'[s].legacy
                          /\ stored' # None /\ stored'.grant = client'[s].cred.grant
                          => client'[s].cred.grant \in atRisk'
  BY <1>0, <1>1, <1>2, <1>3 DEF KeptInv, Using
<1>8. /\ file' # None => file'.grant <= given
      /\ \A s \in Clients : Using(s)' => client'[s].cred.grant <= given
  BY <1>0, <1>1, <1>2, <1>3 DEF KeptInv, Using
<1>9. ASSUME NEW q \in Callbacks, Bringing(q)'
      PROVE  LET g == callback[q].cred.grant
             IN  /\ Whole(callback[q].cred)' /\ g <= given
                 /\ stored # None => stored.grant # g
                 /\ file' # None => file'.grant # g
                 /\ \A s \in Clients : Using(s)' => client'[s].cred.grant # g
                 /\ \A s \in Callbacks : s # q /\ Bringing(s) => callback[s].cred.grant # g
  <2>1. Bringing(q) /\ callback[q].cred.grant # c.grant /\ callback[q].cred.grant \in Grants
    BY <1>0, <1>1, <1>9 DEF Bringing, KeptInv, TypeOK, Reconnecting, Credentials
  <2>2. Whole(callback[q].cred)'
    BY <1>1, <1>2, <2>1 DEF KeptInv, Whole, Accepted
  <2>3. QED
    BY <1>1, <1>2, <1>3, <2>1, <2>2 DEF KeptInv, Using
<1>10. QED
  BY <1>1, <1>5, <1>6, <1>7, <1>8, <1>9, <1>11, <1>12 DEF KeptInv, Bringing

\* Storing it leaves the newest version in the store.
LEMMA KeptStore == ASSUME TypeOK, KeptInv, NEW p \in Clients, Store(p) PROVE KeptInv'
<1>1. /\ UNCHANGED <<given, live, file, callback, atRisk>> /\ Using(p) /\ ~Using(p)'
      /\ stored' = client[p].cred /\ stored' # None /\ \A s \in Clients : s # p => client'[s] = client[s]
  BY DEF Store, losses, Using, TypeOK, Outcome, ClientIdle
<1>2. Whole(stored)'
  BY <1>1 DEF KeptInv, Whole, Accepted
<1>3. RotationKept'
  BY <1>1, <1>2 DEF RotationKept, Whole
<1>4. \A s \in Clients : /\ Using(s)' /\ client'[s].legacy
                         /\ stored' # None /\ stored'.grant = client'[s].cred.grant
                         => client'[s].cred.grant \in atRisk'
  BY <1>1 DEF KeptInv, Using
<1>5. \A u, s \in Clients : u # s /\ Using(u)' /\ Using(s)' /\ client'[u].cred.grant = client'[s].cred.grant
                            => client'[u].cred.grant \in atRisk'
  BY <1>1 DEF KeptInv, Using
<1>6. QED
  BY <1>1, <1>3, <1>4, <1>5 DEF KeptInv, Using, Bringing, Whole, Accepted

\* A client that lets go of its credential, and exposes its grant if a rotated
\* token goes with it.
LEMMA KeptLetGo ==
    ASSUME TypeOK, KeptInv, NEW p \in Clients, ~Using(p)', \A s \in Clients : s # p => client'[s] = client[s],
           UNCHANGED <<given, stored, file, callback>>,
           atRisk \subseteq atRisk', Lost(p) \subseteq atRisk',
           \A g \in Grants : live'[g] = live[g] \/ g \in atRisk'
    PROVE  KeptInv'
<1>1. ASSUME NEW c \in Credentials, Whole(c) PROVE Whole(c)'
  BY <1>1 DEF Whole, Accepted, Credentials
<1>2. /\ \A s \in Clients : Using(s) => client[s].cred \in Credentials
      /\ \A q \in Callbacks : Bringing(q) => callback[q].cred \in Credentials
      /\ stored # None => stored \in Credentials /\ stored.grant \in Grants
      /\ file # None => file \in Credentials
  BY DEF TypeOK, Using, Bringing, Refreshing, Reconnecting, Credentials
<1>3. RotationKept'
  <2> SUFFICES ASSUME stored # None, stored.grant \notin atRisk', live'[stored.grant] # 0
               PROVE  Accepted(stored)' \/ \E s \in Clients : /\ client'[s].pc = "store" /\ Holds(s, stored.grant)'
                                                             /\ Accepted(client[s].cred)'
    BY DEF RotationKept
  <2>1. stored.grant \in Grants /\ stored.grant \notin atRisk /\ live'[stored.grant] = live[stored.grant]
    BY <1>2
  <2>2. CASE Accepted(stored)
    BY <2>1, <2>2 DEF Accepted
  <2>3. CASE ~Accepted(stored)
    <3>1. PICK s \in Clients : client[s].pc = "store" /\ Holds(s, stored.grant) /\ Accepted(client[s].cred)
      BY <2>1, <2>3 DEF KeptInv, RotationKept
    <3>2. s # p
      <4>1. ASSUME s = p PROVE FALSE
        <5>1. CASE client[p].legacy
          BY <2>1, <3>1, <4>1, <5>1 DEF KeptInv, Holds
        <5>2. CASE ~client[p].legacy
          BY <2>1, <3>1, <4>1, <5>2 DEF Lost
        <5>3. QED
          BY <5>1, <5>2
      <4>2. QED
        BY <4>1
    <3>3. QED
      BY <2>1, <3>1, <3>2 DEF Accepted, Holds, Using
  <2>4. QED
    BY <2>2, <2>3
<1>4. \A s \in Clients : /\ Using(s)' /\ client'[s].legacy
                         /\ stored' # None /\ stored'.grant = client'[s].cred.grant
                         => client'[s].cred.grant \in atRisk'
  BY DEF KeptInv, Using
<1>5. \A u, s \in Clients : u # s /\ Using(u)' /\ Using(s)' /\ client'[u].cred.grant = client'[s].cred.grant
                            => client'[u].cred.grant \in atRisk'
  BY DEF KeptInv, Using
<1>6. \A s \in Clients : Using(s)' => s # p /\ Using(s) /\ client'[s] = client[s]
  BY DEF Using
<1>7. QED
  BY <1>1, <1>2, <1>3, <1>4, <1>5, <1>6 DEF KeptInv, Using, Bringing

\* A callback brings a grant of its own.
LEMMA KeptWeb == ASSUME TypeOK, KeptInv, NEW q \in Callbacks, WebStep(q) PROVE KeptInv'
<1>0. /\ UNCHANGED <<file, client, atRisk>> /\ \A r \in Callbacks : r # q => callback'[r] = callback[r]
  BY DEF WebStep, Consume, Exchange, ExchangeFails, StoreReconnect, RecordReconnect, losses, TypeOK
<1>00. given \in Grants /\ given \in Nat
  BY Constants DEF TypeOK, Grants
<1>1. CASE UNCHANGED <<given, live, stored>> /\ ~Bringing(q)'
  <2>1. RotationKept'
    BY <1>0, <1>1 DEF KeptInv, RotationKept, Accepted, Holds, Using
  <2>2. QED
    BY <1>0, <1>1, <2>1 DEF KeptInv, Using, Bringing, Whole, Accepted
<1>2. CASE Exchange(q)
  <2>0. PICK new : new = Credential(given + 1, 1, TRUE)
    OBVIOUS
  <2>1. /\ given' = given + 1 /\ stored' = stored /\ given + 1 \in Grants
        /\ callback'[q].pc = "store" /\ callback'[q].cred = new
        /\ live'[given + 1] = 1 /\ \A g \in Grants : g # given + 1 => live'[g] = live[g]
    BY <1>00, <1>2, <2>0, Constants DEF Exchange, TypeOK, Reconnecting, Grants
  <2>2. new.grant = given + 1 /\ Accepted(new)'
    BY <2>0, <2>1 DEF Credential, Accepted
  <2>3. ASSUME NEW c \in Credentials, c.grant <= given
        PROVE  c.grant # given + 1 /\ c.grant <= given' /\ live'[c.grant] = live[c.grant]
    BY <1>00, <2>1, <2>3 DEF Credentials, Grants
  <2>4. /\ \A s \in Clients : Using(s) => client[s].cred \in Credentials
        /\ \A s \in Callbacks : Bringing(s) => callback[s].cred \in Credentials
        /\ stored # None => stored \in Credentials
        /\ file # None => file \in Credentials
    BY DEF TypeOK, Using, Bringing, Refreshing, Reconnecting
  <2>5. RotationKept'
    BY <1>0, <2>1, <2>3, <2>4 DEF KeptInv, RotationKept, Accepted, Using, Holds
  <2>6. \A s \in Clients : Using(s)' => Whole(client[s].cred)' /\ (client'[s].legacy \/ stored' # None)
    BY <1>0, <2>1, <2>3, <2>4 DEF KeptInv, Using, Whole, Accepted
  <2>7. stored' = None /\ file' # None => Whole(file)'
    BY <1>0, <2>1, <2>3, <2>4 DEF KeptInv, Whole, Accepted
  <2>11. /\ \A s \in Clients : /\ Using(s)' /\ client'[s].legacy
                              /\ stored' # None /\ stored'.grant = client'[s].cred.grant
                              => client'[s].cred.grant \in atRisk'
         /\ \A u, s \in Clients : u # s /\ Using(u)' /\ Using(s)' /\ client'[u].cred.grant = client'[s].cred.grant
                                 => client'[u].cred.grant \in atRisk'
    BY <1>0, <2>1 DEF KeptInv, Using
  <2>8. /\ stored' # None => stored'.grant <= given' /\ stored'.grant # new.grant
        /\ file' # None => file'.grant <= given' /\ file'.grant # new.grant
        /\ \A s \in Clients : Using(s)' => client'[s].cred.grant <= given' /\ client'[s].cred.grant # new.grant
        /\ \A s \in Callbacks : s # q /\ Bringing(s)' =>
              Bringing(s) /\ Whole(callback[s].cred)' /\ callback'[s].cred.grant <= given'
              /\ callback'[s].cred.grant # new.grant
    BY <1>0, <1>00, <2>1, <2>2, <2>3, <2>4 DEF KeptInv, Using, Bringing, Whole, Accepted
  <2>9. ASSUME NEW s \in Callbacks, Bringing(s)'
        PROVE  LET g == callback'[s].cred.grant
               IN  /\ Whole(callback[s].cred)' /\ g <= given'
                   /\ stored' # None => stored'.grant # g
                   /\ file' # None => file'.grant # g
                   /\ \A u \in Clients : Using(u)' => client'[u].cred.grant # g
                   /\ \A r \in Callbacks : r # s /\ Bringing(r)' => callback'[r].cred.grant # g
    <3>1. CASE s = q
      BY <1>00, <2>1, <2>2, <2>8, <3>1 DEF Whole, Bringing
    <3>2. CASE s # q
      BY <1>0, <2>1, <2>8, <2>9, <3>2 DEF KeptInv, Using, Bringing
    <3>3. QED
      BY <3>1, <3>2
  <2>10. QED
    BY <2>5, <2>6, <2>7, <2>8, <2>9, <2>11 DEF KeptInv
<1>3. CASE StoreReconnect(q)
  <2>1. /\ UNCHANGED <<given, live>> /\ Bringing(q) /\ ~Bringing(q)'
        /\ stored' = callback[q].cred /\ stored' # None
    BY <1>3 DEF StoreReconnect, TypeOK, Bringing
  <2>2. RotationKept'
    BY <1>0, <2>1 DEF KeptInv, RotationKept, Whole, Accepted, Holds, Using
  <2>3. QED
    BY <1>0, <2>1, <2>2 DEF KeptInv, Using, Bringing, Whole, Accepted
<1>4. CASE (\E a \in Attempts : Consume(q, a)) \/ ExchangeFails(q) \/ RecordReconnect(q)
  <2>1. UNCHANGED <<given, live, stored>>
    BY <1>4 DEF Consume, ExchangeFails, RecordReconnect
  <2>2. callback'[q].pc \in {"exchange", "idle"}
    <3>1. callback \in [Callbacks -> Reconnecting]
      BY DEF TypeOK
    <3>2. CASE \E a \in Attempts : Consume(q, a)
      BY <3>1, <3>2 DEF Consume, Reconnecting
    <3>3. CASE ExchangeFails(q) \/ RecordReconnect(q)
      BY <3>1, <3>3 DEF ExchangeFails, RecordReconnect, WebIdle
    <3>4. QED
      BY <1>4, <3>2, <3>3
  <2>3. QED
    BY <1>1, <2>1, <2>2 DEF Bringing
<1>5. QED
  BY <1>2, <1>3, <1>4 DEF WebStep

\* Every step keeps the invariant.
LEMMA KeptStep == ASSUME TypeOK, KeptInv, [Next]_vars PROVE KeptInv'
<1>1. ASSUME NEW p \in Clients, ClientStep(p) \/ End(p) PROVE KeptInv'
  <2>1. ASSUME RefreshRefused(p) \/ RefreshUnreachable(p) \/ RecordVerdict(p) PROVE KeptInv'
    <3>1. /\ ~Using(p)' /\ (\A s \in Clients : s # p => client'[s] = client[s])
          /\ UNCHANGED <<given, live, stored, file, callback, atRisk>> /\ Lost(p) = {}
      BY <2>1 DEF RefreshRefused, RefreshUnreachable, RecordVerdict, TypeOK, ClientIdle, Outcome, Using, losses,
                  Lost, Verdicts
    <3>2. QED
      BY <3>1, KeptLetGo
  <2>2. ASSUME StoreFails(p) \/ End(p) PROVE KeptInv'
    <3>1. /\ ~Using(p)' /\ (\A s \in Clients : s # p => client'[s] = client[s])
          /\ UNCHANGED <<given, live, stored, file, callback>> /\ atRisk' = atRisk \cup Lost(p)
      BY <2>2 DEF StoreFails, End, TypeOK, ClientIdle, Outcome, Using
    <3>2. QED
      BY <3>1, KeptLetGo
  <2>3. ASSUME AnswerLost(p) PROVE KeptInv'
    <3>1. /\ ~Using(p)' /\ (\A s \in Clients : s # p => client'[s] = client[s])
          /\ UNCHANGED <<given, stored, file, callback>> /\ Lost(p) = {} /\ atRisk \subseteq atRisk'
      BY <2>3 DEF AnswerLost, TypeOK, ClientIdle, Outcome, Using, Lost
    <3>2. \A g \in Grants : live'[g] = live[g] \/ g \in atRisk'
      BY <2>3 DEF AnswerLost, TypeOK
    <3>3. QED
      BY <3>1, <3>2, KeptLetGo
  <2>4. QED
    BY <1>1, <2>1, <2>2, <2>3, KeptLoad, KeptRefresh, KeptStore DEF ClientStep, Answered
<1>2. CASE UNCHANGED <<given, live, stored, file, client, callback, atRisk>>
  <2>1. RotationKept'
    BY <1>2 DEF KeptInv, RotationKept, Accepted, Holds, Using
  <2>2. QED
    BY <1>2, <2>1 DEF KeptInv, Using, Bringing, Whole, Accepted
<1>3. CASE TokenExpires
  <2>1. /\ stored' # None /\ stored # None /\ stored'.grant = stored.grant /\ stored'.version = stored.version
        /\ UNCHANGED <<given, live, file, client, callback, atRisk>>
    BY <1>3, Constants DEF TokenExpires, TypeOK, Credentials, losses
  <2>2. RotationKept'
    BY <2>1 DEF KeptInv, RotationKept, Accepted, Holds, Using
  <2>3. QED
    BY <2>1, <2>2 DEF KeptInv, Using, Bringing, Whole, Accepted
<1>4. ASSUME NEW g \in Grants, Revoke(g) PROVE KeptInv'
  <2>1. /\ UNCHANGED <<given, stored, file, client, callback, atRisk>>
        /\ \A h \in Grants : live'[h] = 0 \/ live'[h] = live[h]
    BY <1>4 DEF Revoke, TypeOK, losses
  <2>2. ASSUME NEW c \in Credentials, Whole(c) PROVE Whole(c)'
    BY <2>1, <2>2 DEF Whole, Accepted, Credentials
  <2>3. /\ \A s \in Clients : Using(s) => client[s].cred \in Credentials
        /\ \A s \in Callbacks : Bringing(s) => callback[s].cred \in Credentials
        /\ stored # None => stored \in Credentials /\ stored.grant \in Grants
        /\ file # None => file \in Credentials
    BY DEF TypeOK, Using, Bringing, Refreshing, Reconnecting, Credentials
  <2>4. RotationKept'
    BY <2>1, <2>3 DEF KeptInv, RotationKept, Accepted, Holds, Using
  <2>5. QED
    BY <2>1, <2>2, <2>3, <2>4 DEF KeptInv, Using, Bringing
<1>5. QED
  BY <1>1, <1>2, <1>3, <1>4, KeptWeb DEF Next, Google, Begin, Abandon, vars, losses

\* What Google will accept next time is in the store or on its way there, but
\* for grants that a failure caught between Google and the store or that two
\* clients had in hand at once: for any number of ticks, checks and reconnects
\* (_refresh_if_needed, classroom_check, the reconnect callback).
THEOREM RotationKeptHolds == Spec => []RotationKept
<1>1. KeptInv => RotationKept
  BY DEF KeptInv
<1>2. QED
  BY <1>1, KeptInit, KeptStep, TypeCorrect, PTL DEF Spec

-----------------------------------------------------------------------------
\* What the assumption says of the scripts and of the tables with old columns.
LEMMA MigConstants ==
    /\ Len(Scripts) \in Nat /\ Versions = 1..Len(Scripts)
    /\ \A v \in Versions : Scripts[v].kind \in {"create", "column", "rebuild"} /\ Scripts[v].table \in Tables
    /\ Len(Legacy) \in Nat
    /\ \A i \in 1..Len(Legacy) : /\ Legacy[i] \in Schema /\ Legacy[i] \in Tables
                                 /\ Legacy[i] \in OldTables /\ Born(Legacy[i]) = {0}
    /\ \A t : Born(t) \subseteq {0}
    /\ \A t, v : Changes(t, v) = { w \in 1..v : Scripts[w].table = t /\ Scripts[w].kind # "create" }
    /\ MaxCrashes \in Nat
<1>1. Len(Scripts) \in Nat /\ Len(Legacy) \in Nat /\ MaxCrashes \in Nat /\ Versions = 1..Len(Scripts)
  BY MigrationsAssumption DEF MigrationsAssumption, Versions
<1>2. \A v \in Versions : Scripts[v].kind \in {"create", "column", "rebuild"} /\ Scripts[v].table \in Tables
  <2>1. Scripts \in Seq([kind : {"create", "column", "rebuild"}, table : Tables])
    BY MigrationsAssumption DEF MigrationsAssumption, Kinds
  <2> DEFINE R == [kind : {"create", "column", "rebuild"}, table : Tables]
  <2>2. \A r \in R : r.kind \in {"create", "column", "rebuild"} /\ r.table \in Tables
    OBVIOUS
  <2>3. Scripts \in Seq(R)
    BY <2>1
  <2> HIDE DEF R
  <2>4. \A v \in 1..Len(Scripts) : Scripts[v] \in R
    BY <2>3
  <2>5. QED
    BY <2>2, <2>4 DEF Versions
<1>3. \A i \in 1..Len(Legacy) : /\ Legacy[i] \in Schema /\ Legacy[i] \in Tables
                                /\ Legacy[i] \in OldTables /\ Born(Legacy[i]) = {0}
  BY MigrationsAssumption DEF MigrationsAssumption, OldTables, Born
<1>4. \A t : Born(t) \subseteq {0}
  BY DEF Born
<1>5. QED
  BY <1>1, <1>2, <1>3, <1>4 DEF Changes

\* What SQLite lets a process do.
LEMMA Permits ==
    ASSUME NEW p \in Procs, Possible(p)
    PROVE  /\ conn[p].pc = "alter" => table[Legacy[conn[p].at]].there
           /\ conn[p].pc = "column" => table[T(p)].there
           /\ conn[p].pc = "create_new" => ~side[T(p)].there
           /\ conn[p].pc = "copy" =>
                /\ table[T(p)].there /\ side[T(p)].there
           /\ conn[p].pc = "rename" => side[T(p)].there /\ ~table[T(p)].there
           /\ conn[p].pc = "record" => conn[p].at \notin recorded
<1>1. CASE conn[p].pc = "alter"
  BY <1>1 DEF Possible
<1>2. CASE conn[p].pc = "column"
  BY <1>2 DEF Possible
<1>3. CASE conn[p].pc = "create_new"
  BY <1>3 DEF Possible
<1>4. CASE conn[p].pc = "copy"
  BY <1>4 DEF Possible
<1>5. CASE conn[p].pc = "rename"
  BY <1>5 DEF Possible
<1>6. CASE conn[p].pc = "record"
  BY <1>6 DEF Possible
<1>7. QED
  BY <1>1, <1>2, <1>3, <1>4, <1>5, <1>6

\* Where SQLite cannot fail.
LEMMA Forbids ==
    ASSUME NEW p \in Procs, ~Possible(p)
    PROVE  /\ conn[p].pc # "drop_new"
           /\ conn[p].pc = "drop_old" => ~table[T(p)].there
           /\ conn[p].pc = "rename" => ~side[T(p)].there \/ table[T(p)].there
<1>1. CASE conn[p].pc = "drop_new"
  BY <1>1 DEF Possible
<1>2. CASE conn[p].pc = "drop_old"
  BY <1>2 DEF Possible
<1>3. CASE conn[p].pc = "rename"
  BY <1>3 DEF Possible
<1>4. QED
  BY <1>1, <1>2, <1>3

-----------------------------------------------------------------------------
Pcs == {"idle", "columns", "alter", "next", "create", "column", "check", "record", "open",
        "drop_new", "create_new", "copy", "drop_old", "rename"}
Scripted == {"create", "column", "check", "record", "drop_new", "create_new", "copy", "drop_old", "rename"}

\* What a process holds is a record of these four.
LEMMA ConnRecords == Conn = [pc : Pcs, at : Nat, seen : SUBSET Versions, whole : BOOLEAN]
<1>1. Pcs = {"idle", "columns", "alter", "next", "create", "column", "check", "record", "open"} \cup Rebuilding
  BY DEF Pcs, Rebuilding
<1>2. QED
  BY <1>1 DEF Conn

\* A process goes on, and nothing else of what it holds changes.
LEMMA Going ==
    ASSUME MigrationTypeOK, NEW p \in Procs, NEW pc \in Pcs, Goto(p, pc)
    PROVE  /\ conn' \in [Procs -> Conn] /\ conn'[p].pc = pc /\ conn'[p].at = conn[p].at
           /\ conn'[p].seen = conn[p].seen
           /\ \A q \in Procs : q # p => conn'[q] = conn[q]
<1>1. conn \in [Procs -> Conn]
  BY DEF MigrationTypeOK
<1>2. conn' = [conn EXCEPT ![p] = [conn[p] EXCEPT !.pc = pc]]
  BY DEF Goto
<1>3. [conn[p] EXCEPT !.pc = pc] \in Conn
  BY <1>1, ConnRecords
<1>4. conn'[p] = [conn[p] EXCEPT !.pc = pc] /\ \A q \in Procs : q # p => conn'[q] = conn[q]
  BY <1>1, <1>2
<1>5. conn[p] \in [pc : Pcs, at : Nat, seen : SUBSET Versions, whole : BOOLEAN]
  BY <1>1, ConnRecords
<1>6. conn'[p].pc = pc /\ conn'[p].at = conn[p].at /\ conn'[p].seen = conn[p].seen
  BY <1>4, <1>5
<1>7. QED
  BY <1>1, <1>2, <1>3, <1>4, <1>6

\* A process ends its preparation.
LEMMA Ending ==
    ASSUME MigrationTypeOK, NEW p \in Procs, conn' = [conn EXCEPT ![p] = Idle]
    PROVE  /\ conn' \in [Procs -> Conn] /\ conn'[p].pc = "idle" /\ conn'[p].at = 0 /\ conn'[p].seen = {}
           /\ \A q \in Procs : q # p => conn'[q] = conn[q]
<1>1. conn \in [Procs -> Conn]
  BY DEF MigrationTypeOK
<1>2. Idle \in [pc : Pcs, at : Nat, seen : SUBSET Versions, whole : BOOLEAN]
      /\ Idle.pc = "idle" /\ Idle.at = 0 /\ Idle.seen = {}
  BY DEF Idle, Pcs
<1>3. Idle \in Conn
  BY <1>2, ConnRecords
<1>4. QED
  BY <1>1, <1>2, <1>3

\* What a process holds while it prepares the file.
Where ==
    \A p \in Procs :
       /\ conn[p].pc = "idle" => conn[p].at = 0
       /\ conn[p].pc = "columns" => conn[p].at \in 0..Len(Legacy)
       /\ conn[p].pc = "alter" => conn[p].at \in 1..Len(Legacy)
       /\ conn[p].pc \in Scripted => conn[p].at \in Versions
       /\ conn[p].pc \in {"check", "drop_new", "create_new", "copy", "drop_old", "rename"} =>
            Scripts[conn[p].at].kind = "rebuild"
       /\ conn[p].pc = "create" => Scripts[conn[p].at].kind = "create"
       /\ conn[p].pc = "column" => Scripts[conn[p].at].kind = "column"

\* The step from one statement of a process to the next.
LEMMA Moves ==
    ASSUME MigrationTypeOK, Where, NEW p \in Procs, Step(p) \/ Crash(p)
    PROVE  /\ conn' \in [Procs -> Conn] /\ \A q \in Procs : q # p => conn'[q] = conn[q]
           /\ Connect(p) => conn[p].pc = "idle" /\ conn'[p].pc = "columns"
           /\ Columns(p) =>
                /\ conn[p].pc = "columns" /\ conn[p].at + 1 \in 1..Len(Legacy) /\ conn'[p].at = conn[p].at + 1
                /\ conn'[p].seen = conn[p].seen
                /\ \/ conn'[p].pc = "columns" /\ 0 \in table[Legacy[conn[p].at + 1]].has
                   \/ conn'[p].pc = "alter"
           /\ Alter(p) => conn[p].pc = "alter" /\ conn'[p].pc = "columns"
           /\ ReadRecorded(p) =>
                /\ conn[p].pc = "columns" /\ conn[p].at = Len(Legacy)
                /\ conn'[p].pc = "next" /\ conn'[p].at = 0 /\ conn'[p].seen = recorded
           /\ NextScript(p) =>
                /\ conn[p].pc = "next" /\ conn'[p].seen = conn[p].seen
                /\ conn'[p].at \in Pending(p) /\ \A v \in Pending(p) : conn'[p].at <= v
                /\ LET kind == Scripts[conn'[p].at].kind
                   IN  conn'[p].pc = IF kind = "rebuild" THEN "drop_new" ELSE kind
           /\ CreateTable(p) => conn[p].pc = "create" /\ conn'[p].pc = "record"
           /\ AddColumn(p) => conn[p].pc = "column" /\ conn'[p].pc = "record"
           /\ DropNew(p) => conn[p].pc = "drop_new" /\ conn'[p].pc = "create_new"
           /\ CreateNew(p) => conn[p].pc = "create_new" /\ conn'[p].pc = "copy"
           /\ Copy(p) => conn[p].pc = "copy" /\ conn'[p].pc = "drop_old"
           /\ DropOld(p) => conn[p].pc = "drop_old" /\ conn'[p].pc = "rename"
           /\ Rename(p) => conn[p].pc = "rename" /\ conn'[p].pc = "check"
           /\ CheckKeys(p) => conn[p].pc = "check" /\ conn'[p].pc = "record"
           /\ Record(p) => conn[p].pc = "record" /\ conn'[p].pc = "next"
           /\ Opened(p) => conn[p].pc = "next" /\ conn'[p].pc = "open"
           /\ Fail(p) \/ Close(p) \/ Crash(p) =>
                conn'[p].pc = "idle" /\ conn'[p].at = 0 /\ conn'[p].seen = {}
           /\ (Connect(p) \/ Alter(p) \/ CreateTable(p) \/ AddColumn(p) \/ Rebuild(p)
                 \/ Record(p) \/ Opened(p)) =>
                conn'[p].at = conn[p].at /\ conn'[p].seen = conn[p].seen
<1> DEFINE others == conn' \in [Procs -> Conn] /\ \A q \in Procs : q # p => conn'[q] = conn[q]
           stays == conn'[p].at = conn[p].at /\ conn'[p].seen = conn[p].seen
<1>0. /\ conn \in [Procs -> Conn] /\ recorded \subseteq Versions
      /\ conn[p] \in [pc : Pcs, at : Nat, seen : SUBSET Versions, whole : BOOLEAN]
  BY ConnRecords DEF MigrationTypeOK
<1>1. ASSUME Connect(p) PROVE others /\ stays /\ conn[p].pc = "idle" /\ conn'[p].pc = "columns"
  BY <1>1, Going DEF Connect, Pcs
<1>2. ASSUME Columns(p)
      PROVE  /\ others /\ conn[p].pc = "columns" /\ conn[p].at + 1 \in 1..Len(Legacy) /\ conn'[p].at = conn[p].at + 1
             /\ conn'[p].seen = conn[p].seen
             /\ \/ conn'[p].pc = "columns" /\ 0 \in table[Legacy[conn[p].at + 1]].has
                \/ conn'[p].pc = "alter"
  <2> DEFINE i == conn[p].at + 1
             pc == IF 0 \in table[Legacy[i]].has THEN conn[p].pc ELSE "alter"
             c == [conn[p] EXCEPT !.at = i, !.pc = pc]
  <2>1. conn' = [conn EXCEPT ![p] = c] /\ conn[p].pc = "columns" /\ conn[p].at < Len(Legacy)
    BY <1>2 DEF Columns
  <2>2. i \in 1..Len(Legacy) /\ i \in Nat
    <3>1. conn[p].at \in Nat /\ Len(Legacy) \in Nat
      BY <1>0, MigConstants
    <3>2. QED
      BY <2>1, <3>1
  <2>3. pc \in Pcs /\ ((pc = "columns" /\ 0 \in table[Legacy[i]].has) \/ pc = "alter")
    BY <2>1 DEF Pcs
  <2> HIDE DEF i, pc
  <2>4. c \in [pc : Pcs, at : Nat, seen : SUBSET Versions, whole : BOOLEAN] /\ c.at = i /\ c.pc = pc /\ c.seen = conn[p].seen
    BY <1>0, <2>2, <2>3
  <2> HIDE DEF c
  <2>5. others /\ conn'[p] = c
    BY <1>0, <2>1, <2>4, ConnRecords
  <2>6. QED
    BY <2>1, <2>2, <2>3, <2>4, <2>5 DEF i
<1>3. ASSUME Alter(p) PROVE others /\ stays /\ conn[p].pc = "alter" /\ conn'[p].pc = "columns"
  BY <1>3, Going DEF Alter, Runs, Pcs
<1>4. ASSUME ReadRecorded(p)
      PROVE  /\ others /\ conn[p].pc = "columns" /\ conn[p].at = Len(Legacy)
             /\ conn'[p].pc = "next" /\ conn'[p].at = 0 /\ conn'[p].seen = recorded
  <2> DEFINE c == [conn[p] EXCEPT !.pc = "next", !.at = 0, !.seen = recorded]
  <2>1. conn' = [conn EXCEPT ![p] = c] /\ conn[p].pc = "columns" /\ conn[p].at = Len(Legacy)
    BY <1>4 DEF ReadRecorded
  <2>2. c \in [pc : Pcs, at : Nat, seen : SUBSET Versions, whole : BOOLEAN]
        /\ c.pc = "next" /\ c.at = 0 /\ c.seen = recorded
    BY <1>0 DEF Pcs
  <2> HIDE DEF c
  <2>3. others /\ conn'[p] = c
    BY <1>0, <2>1, <2>2, ConnRecords
  <2>4. QED
    BY <2>1, <2>2, <2>3
<1>5. ASSUME NextScript(p)
      PROVE  /\ others /\ conn[p].pc = "next" /\ conn'[p].seen = conn[p].seen
             /\ conn'[p].at \in Pending(p) /\ \A v \in Pending(p) : conn'[p].at <= v
             /\ LET kind == Scripts[conn'[p].at].kind
                IN  conn'[p].pc = IF kind = "rebuild" THEN "drop_new" ELSE kind
  <2>1. conn[p].pc = "next"
    BY <1>5 DEF NextScript
  <2>2. PICK v \in Pending(p) :
           /\ \A w \in Pending(p) : v <= w
           /\ conn' = [conn EXCEPT ![p].pc = First[Scripts[v].kind], ![p].at = v,
                                   ![p].whole = table[Scripts[v].table].rows]
    BY <1>5 DEF NextScript
  <2> DEFINE kind == Scripts[v].kind
             pc == First[kind]
             whole == table[Scripts[v].table].rows
             c == [conn[p] EXCEPT !.pc = pc, !.at = v, !.whole = whole]
  <2>3. conn' = [conn EXCEPT ![p] = c]
    BY <2>2
  <2>4. v \in Versions /\ v \in Nat
    BY <2>2, MigConstants DEF Pending
  <2>5. kind \in {"create", "column", "rebuild"} /\ Scripts[v].table \in Tables
    BY <2>4, MigConstants
  <2>6. pc = IF kind = "rebuild" THEN "drop_new" ELSE kind
    BY <2>5 DEF First
  <2>7. pc \in Pcs
    BY <2>5, <2>6 DEF Pcs
  <2>8. whole \in BOOLEAN
    <3>1. table \in [Tables -> Built]
      BY DEF MigrationTypeOK
    <3>2. QED
      BY <2>5, <3>1 DEF Built
  <2> HIDE DEF pc, whole
  <2>9. c \in [pc : Pcs, at : Nat, seen : SUBSET Versions, whole : BOOLEAN]
        /\ c.pc = pc /\ c.at = v /\ c.seen = conn[p].seen
    BY <1>0, <2>4, <2>7, <2>8
  <2> HIDE DEF c
  <2>10. others /\ conn'[p] = c
    BY <1>0, <2>3, <2>9, ConnRecords
  <2>11. QED
    BY <2>1, <2>2, <2>6, <2>9, <2>10
<1>6. ASSUME CreateTable(p) \/ AddColumn(p)
      PROVE  /\ others /\ stays /\ conn'[p].pc = "record"
             /\ CreateTable(p) => conn[p].pc = "create"
             /\ AddColumn(p) => conn[p].pc = "column"
  BY <1>6, Going DEF CreateTable, AddColumn, Runs, Pcs
<1>7. ASSUME DropNew(p) PROVE others /\ stays /\ conn[p].pc = "drop_new" /\ conn'[p].pc = "create_new"
  BY <1>7, Going DEF DropNew, Runs, Pcs
<1>8. ASSUME CreateNew(p) PROVE others /\ stays /\ conn[p].pc = "create_new" /\ conn'[p].pc = "copy"
  BY <1>8, Going DEF CreateNew, Runs, Pcs
<1>9. ASSUME Copy(p) PROVE others /\ stays /\ conn[p].pc = "copy" /\ conn'[p].pc = "drop_old"
  BY <1>9, Going DEF Copy, Runs, Pcs
<1>10. ASSUME DropOld(p) PROVE others /\ stays /\ conn[p].pc = "drop_old" /\ conn'[p].pc = "rename"
  BY <1>10, Going DEF DropOld, Runs, Pcs
<1>11. ASSUME Rename(p) PROVE others /\ stays /\ conn[p].pc = "rename" /\ conn'[p].pc = "check"
  BY <1>11, Going DEF Rename, Runs, Pcs
<1>12. ASSUME CheckKeys(p) PROVE others /\ stays /\ conn[p].pc = "check" /\ conn'[p].pc = "record"
  BY <1>12, Going DEF CheckKeys, Runs, Pcs
<1>13. ASSUME Record(p) PROVE others /\ stays /\ conn[p].pc = "record" /\ conn'[p].pc = "next"
  BY <1>13, Going DEF Record, Runs, Pcs
<1>14. ASSUME Opened(p) PROVE others /\ stays /\ conn[p].pc = "next" /\ conn'[p].pc = "open"
  BY <1>14, Going DEF Opened, Pcs
<1>15. ASSUME Fail(p) \/ Close(p) \/ Crash(p)
       PROVE  others /\ conn'[p].pc = "idle" /\ conn'[p].at = 0 /\ conn'[p].seen = {}
  BY <1>15, Ending DEF Fail, Close, Crash
<1> HIDE DEF others, stays
<1>16. others
  BY <1>1, <1>2, <1>3, <1>4, <1>5, <1>6, <1>7, <1>8, <1>9, <1>10, <1>11, <1>12, <1>13, <1>14, <1>15
     DEF Step, Rebuild
<1>17. (Connect(p) \/ Alter(p) \/ CreateTable(p) \/ AddColumn(p) \/ Rebuild(p)
          \/ Record(p) \/ Opened(p)) => stays
  BY <1>1, <1>3, <1>6, <1>7, <1>8, <1>9, <1>10, <1>11, <1>12, <1>13, <1>14 DEF Rebuild
<1>18. QED
  BY <1>1, <1>2, <1>3, <1>4, <1>5, <1>6, <1>7, <1>8, <1>9, <1>10, <1>11, <1>12, <1>13, <1>14, <1>15, <1>16, <1>17
     DEF others, stays

\* Every step keeps a process where its pc says.
LEMMA WhereStep ==
    ASSUME MigrationTypeOK, Where, NEW p \in Procs, Step(p) \/ Crash(p)
    PROVE  Where'
<1> SUFFICES ASSUME NEW q \in Procs
             PROVE  /\ conn'[q].pc = "idle" => conn'[q].at = 0
                    /\ conn'[q].pc = "columns" => conn'[q].at \in 0..Len(Legacy)
                    /\ conn'[q].pc = "alter" => conn'[q].at \in 1..Len(Legacy)
                    /\ conn'[q].pc \in Scripted => conn'[q].at \in Versions
                    /\ conn'[q].pc \in {"check", "drop_new", "create_new", "copy", "drop_old", "rename"} =>
                         Scripts[conn'[q].at].kind = "rebuild"
                    /\ conn'[q].pc = "create" => Scripts[conn'[q].at].kind = "create"
                    /\ conn'[q].pc = "column" => Scripts[conn'[q].at].kind = "column"
  BY DEF Where
<1>1. CASE q # p
  <2>1. conn'[q] = conn[q]
    BY <1>1, Moves
  <2>2. QED
    BY <2>1 DEF Where
<1>2. CASE q = p
  <2>1. CASE NextScript(p)
    <3>1. conn'[p].at \in Versions
      BY <2>1, Moves DEF Pending
    <3>2. conn'[p].pc = IF Scripts[conn'[p].at].kind = "rebuild" THEN "drop_new" ELSE Scripts[conn'[p].at].kind
      BY <2>1, Moves
    <3>3. QED
      BY <1>2, <3>1, <3>2, MigConstants
  <2>2. CASE Columns(p) \/ Alter(p) \/ Connect(p)
    <3>1. \A i \in 1..Len(Legacy) : i \in 0..Len(Legacy)
      OBVIOUS
    <3>2. 0 \in 0..Len(Legacy)
      BY MigConstants
    <3>3. CASE Columns(p)
      BY <1>2, <3>1, <3>3, Moves DEF Scripted
    <3>4. CASE Alter(p)
      <4>1. conn[p].pc = "alter" /\ conn'[p].pc = "columns"
        BY <3>4, Moves
      <4>2. conn'[p].at = conn[p].at
        BY <3>4, Moves
      <4>3. QED
        BY <1>2, <3>1, <4>1, <4>2 DEF Where, Scripted
    <3>5. CASE Connect(p)
      BY <1>2, <3>2, <3>5, Moves DEF Where, Scripted
    <3>6. QED
      BY <2>2, <3>3, <3>4, <3>5
  <2>3. CASE ReadRecorded(p) \/ Fail(p) \/ Close(p) \/ Crash(p)
    BY <1>2, <2>3, Moves DEF Scripted
  <2>4. CASE CreateTable(p) \/ AddColumn(p) \/ Record(p) \/ Opened(p)
    <3>1. conn'[p].pc \in {"record", "next", "open"} /\ conn'[p].at = conn[p].at
          /\ (conn'[p].pc = "record" => conn[p].pc \in Scripted)
      BY <2>4, Moves DEF Scripted
    <3>2. QED
      BY <1>2, <3>1 DEF Where, Scripted
  <2>5. CASE Rebuild(p)
    <3>1. /\ conn[p].pc \in {"check", "drop_new", "create_new", "copy", "drop_old", "rename"}
          /\ conn'[p].pc \in {"check", "record", "create_new", "copy", "drop_old", "rename"}
      BY <2>5, Moves DEF Rebuild
    <3>2. conn'[p].at = conn[p].at
      BY <2>5, Moves
    <3>3. QED
      BY <1>2, <3>1, <3>2 DEF Where, Scripted
  <2>6. QED
    BY <2>1, <2>2, <2>3, <2>4, <2>5 DEF Step
<1>3. QED
  BY <1>1, <1>2

-----------------------------------------------------------------------------
\* Reading a table that one statement has changed.
LEMMA OneTable ==
    ASSUME NEW f \in [Tables -> Built], NEW t \in Tables, NEW row, NEW g, g = [f EXCEPT ![t] = row]
    PROVE  /\ g[t] = row /\ \A u \in Tables : u # t => g[u] = f[u]
           /\ row \in Built => g \in [Tables -> Built]
OBVIOUS

\* The table of the script a process is in.
LEMMA TableOf ==
    ASSUME Where, NEW p \in Procs, conn[p].pc \in Scripted
    PROVE  T(p) \in Tables /\ T(p) = Scripts[conn[p].at].table /\ conn[p].at \in Versions
BY MigConstants DEF Where, T

\* What the statements do to the tables of the file ...
LEMMA TableDeeds ==
    ASSUME MigrationTypeOK, Where, NEW p \in Procs
    PROVE  /\ Connect(p) => \A t \in Tables :
                table'[t] = IF t \in Schema /\ ~table[t].there THEN Empty(Born(t)) ELSE table[t]
           /\ Alter(p) =>
                LET u == Legacy[conn[p].at]
                IN  /\ u \in Tables /\ table[u].there /\ table'[u] = [table[u] EXCEPT !.has = table[u].has \cup {0}]
                    /\ \A t \in Tables : t # u => table'[t] = table[t]
           /\ CreateTable(p) =>
                LET u == T(p)
                IN  /\ u \in Tables /\ table'[u] = IF table[u].there THEN table[u] ELSE Empty({})
                    /\ \A t \in Tables : t # u => table'[t] = table[t]
           /\ AddColumn(p) =>
                LET u == T(p)
                IN  /\ u \in Tables /\ table[u].there
                    /\ table'[u] = [table[u] EXCEPT !.has = table[u].has \cup {conn[p].at}]
                    /\ \A t \in Tables : t # u => table'[t] = table[t]
           /\ DropOld(p) =>
                LET u == T(p)
                IN  u \in Tables /\ table'[u] = Absent /\ \A t \in Tables : t # u => table'[t] = table[t]
           /\ Rename(p) =>
                LET u == T(p)
                IN  u \in Tables /\ table'[u] = side[u] /\ \A t \in Tables : t # u => table'[t] = table[t]
           /\ (Columns(p) \/ ReadRecorded(p) \/ NextScript(p) \/ CheckKeys(p) \/ Record(p)
                 \/ Fail(p) \/ Opened(p) \/ Close(p) \/ Crash(p)
                 \/ DropNew(p) \/ CreateNew(p) \/ Copy(p)) => table' = table
<1>0. table \in [Tables -> Built]
  BY DEF MigrationTypeOK
<1>1. ASSUME Connect(p)
      PROVE  \A t \in Tables :
                table'[t] = IF t \in Schema /\ ~table[t].there THEN Empty(Born(t)) ELSE table[t]
  BY <1>1 DEF Connect
<1>2. ASSUME Alter(p)
      PROVE  LET u == Legacy[conn[p].at]
             IN  /\ u \in Tables /\ table[u].there /\ table'[u] = [table[u] EXCEPT !.has = table[u].has \cup {0}]
                 /\ \A t \in Tables : t # u => table'[t] = table[t]
  <2> DEFINE u == Legacy[conn[p].at]
             row == [table[u] EXCEPT !.has = table[u].has \cup {0}]
  <2>1. conn[p].pc = "alter" /\ Possible(p) /\ table' = [table EXCEPT ![u] = row]
    BY <1>2 DEF Alter, Runs
  <2>2. u \in Tables
    BY <2>1, MigConstants DEF Where
  <2>3. table[u].there
    BY <2>1, Permits
  <2> HIDE DEF u, row
  <2>4. table'[u] = row /\ \A t \in Tables : t # u => table'[t] = table[t]
    BY <1>0, <2>1, <2>2, OneTable
  <2>5. QED
    BY <2>2, <2>3, <2>4 DEF u, row
<1>3. ASSUME CreateTable(p)
      PROVE  LET u == T(p)
             IN  /\ u \in Tables /\ table'[u] = IF table[u].there THEN table[u] ELSE Empty({})
                 /\ \A t \in Tables : t # u => table'[t] = table[t]
  <2> DEFINE u == T(p)
             row == IF table[u].there THEN table[u] ELSE Empty({})
  <2>1. conn[p].pc = "create" /\ table' = [table EXCEPT ![u] = row]
    BY <1>3 DEF CreateTable, Runs
  <2>2. u \in Tables
    BY <2>1, TableOf DEF Scripted
  <2> HIDE DEF u, row
  <2>3. table'[u] = row /\ \A t \in Tables : t # u => table'[t] = table[t]
    BY <1>0, <2>1, <2>2, OneTable
  <2>4. QED
    BY <2>2, <2>3 DEF u, row
<1>4. ASSUME AddColumn(p)
      PROVE  LET u == T(p)
             IN  /\ u \in Tables /\ table[u].there
                 /\ table'[u] = [table[u] EXCEPT !.has = table[u].has \cup {conn[p].at}]
                 /\ \A t \in Tables : t # u => table'[t] = table[t]
  <2> DEFINE u == T(p)
             row == [table[u] EXCEPT !.has = table[u].has \cup {conn[p].at}]
  <2>1. conn[p].pc = "column" /\ Possible(p) /\ table' = [table EXCEPT ![u] = row]
    BY <1>4 DEF AddColumn, Runs
  <2>2. u \in Tables /\ table[u].there
    BY <2>1, TableOf, Permits DEF Scripted
  <2> HIDE DEF u, row
  <2>3. table'[u] = row /\ \A t \in Tables : t # u => table'[t] = table[t]
    BY <1>0, <2>1, <2>2, OneTable
  <2>4. QED
    BY <2>2, <2>3 DEF u, row
<1>5. ASSUME DropOld(p)
      PROVE  LET u == T(p)
             IN  u \in Tables /\ table'[u] = Absent /\ \A t \in Tables : t # u => table'[t] = table[t]
  <2>1. conn[p].pc = "drop_old" /\ table' = [table EXCEPT ![T(p)] = Absent]
    BY <1>5 DEF DropOld, Runs
  <2>2. T(p) \in Tables
    BY <2>1, TableOf DEF Scripted
  <2>3. QED
    BY <1>0, <2>1, <2>2
<1>6. ASSUME Rename(p)
      PROVE  LET u == T(p)
             IN  u \in Tables /\ table'[u] = side[u] /\ \A t \in Tables : t # u => table'[t] = table[t]
  <2>1. conn[p].pc = "rename" /\ table' = [table EXCEPT ![T(p)] = side[T(p)]]
    BY <1>6 DEF Rename, Runs
  <2>2. T(p) \in Tables
    BY <2>1, TableOf DEF Scripted
  <2>3. QED
    BY <1>0, <2>1, <2>2
<1>7. ASSUME Columns(p) \/ ReadRecorded(p) \/ NextScript(p) \/ CheckKeys(p) \/ Record(p)
             \/ Fail(p) \/ Opened(p) \/ Close(p) \/ Crash(p)
             \/ DropNew(p) \/ CreateNew(p) \/ Copy(p)
      PROVE  table' = table
  BY <1>7 DEF Columns, ReadRecorded, NextScript, CheckKeys, Record, Fail, Opened,
     Close, Crash, DropNew, CreateNew, Copy
<1>8. QED
  BY <1>1, <1>2, <1>3, <1>4, <1>5, <1>6, <1>7

\* ... and to the half-built ones,
LEMMA SideDeeds ==
    ASSUME MigrationTypeOK, Where, NEW p \in Procs
    PROVE  /\ DropNew(p) \/ Rename(p) =>
                LET u == T(p)
                IN  u \in Tables /\ side'[u] = Absent /\ \A t \in Tables : t # u => side'[t] = side[t]
           /\ CreateNew(p) =>
                LET u == T(p)
                IN  /\ u \in Tables /\ ~side[u].there
                    /\ side'[u] = Empty(Born(u) \cup Changes(u, conn[p].at))
                    /\ \A t \in Tables : t # u => side'[t] = side[t]
           /\ Copy(p) =>
                LET u == T(p)
                IN  /\ u \in Tables /\ table[u].there /\ side[u].there
                    /\ side'[u] = [side[u] EXCEPT !.rows = side[u].rows \/ table[u].rows]
                    /\ \A t \in Tables : t # u => side'[t] = side[t]
           /\ Rename(p) => side[T(p)].there
           /\ (Connect(p) \/ Columns(p) \/ ReadRecorded(p) \/ NextScript(p) \/ CheckKeys(p)
                 \/ Record(p) \/ Fail(p) \/ Opened(p) \/ Close(p) \/ Crash(p)
                 \/ Alter(p) \/ CreateTable(p) \/ AddColumn(p) \/ DropOld(p)) => side' = side
<1>0. side \in [Tables -> Built]
  BY DEF MigrationTypeOK
<1>1. ASSUME DropNew(p) \/ Rename(p)
      PROVE  LET u == T(p)
             IN  /\ u \in Tables /\ side'[u] = Absent /\ \A t \in Tables : t # u => side'[t] = side[t]
                 /\ Rename(p) => side[u].there
  <2>1. /\ conn[p].pc \in Scripted /\ side' = [side EXCEPT ![T(p)] = Absent]
        /\ Rename(p) => conn[p].pc = "rename" /\ Possible(p)
    BY <1>1 DEF DropNew, Rename, Runs, Scripted
  <2>2. T(p) \in Tables /\ (Rename(p) => side[T(p)].there)
    BY <2>1, TableOf, Permits
  <2>3. QED
    BY <1>0, <2>1, <2>2
<1>2. ASSUME CreateNew(p)
      PROVE  LET u == T(p)
             IN  /\ u \in Tables /\ ~side[u].there
                 /\ side'[u] = Empty(Born(u) \cup Changes(u, conn[p].at))
                 /\ \A t \in Tables : t # u => side'[t] = side[t]
  <2> DEFINE u == T(p)
             row == Empty(Born(u) \cup Changes(u, conn[p].at))
  <2>1. conn[p].pc = "create_new" /\ Possible(p) /\ side' = [side EXCEPT ![u] = row]
    BY <1>2 DEF CreateNew, Runs
  <2>2. u \in Tables /\ ~side[u].there
    BY <2>1, TableOf, Permits DEF Scripted
  <2> HIDE DEF u, row
  <2>3. side'[u] = row /\ \A t \in Tables : t # u => side'[t] = side[t]
    BY <1>0, <2>1, <2>2, OneTable
  <2>4. QED
    BY <2>2, <2>3 DEF u, row
<1>3. ASSUME Copy(p)
      PROVE  LET u == T(p)
             IN  /\ u \in Tables /\ table[u].there /\ side[u].there
                 /\ side'[u] = [side[u] EXCEPT !.rows = side[u].rows \/ table[u].rows]
                 /\ \A t \in Tables : t # u => side'[t] = side[t]
  <2> DEFINE u == T(p)
             row == [side[u] EXCEPT !.rows = side[u].rows \/ table[u].rows]
  <2>1. conn[p].pc = "copy" /\ Possible(p) /\ side' = [side EXCEPT ![u] = row]
    BY <1>3 DEF Copy, Runs
  <2>2. u \in Tables /\ table[u].there /\ side[u].there
    BY <2>1, TableOf, Permits DEF Scripted
  <2> HIDE DEF u, row
  <2>3. side'[u] = row /\ \A t \in Tables : t # u => side'[t] = side[t]
    BY <1>0, <2>1, <2>2, OneTable
  <2>4. QED
    BY <2>2, <2>3 DEF u, row
<1>4. ASSUME Connect(p) \/ Columns(p) \/ ReadRecorded(p) \/ NextScript(p) \/ CheckKeys(p)
             \/ Record(p) \/ Fail(p) \/ Opened(p) \/ Close(p) \/ Crash(p)
             \/ Alter(p) \/ CreateTable(p) \/ AddColumn(p) \/ DropOld(p)
      PROVE  side' = side
  BY <1>4 DEF Connect, Columns, ReadRecorded, NextScript, CheckKeys, Record, Fail,
     Opened, Close, Crash, Alter, CreateTable, AddColumn, DropOld
<1>5. QED
  BY <1>1, <1>2, <1>3, <1>4

\* ... and what is recorded and exposed.
LEMMA OtherDeeds ==
    ASSUME NEW p \in Procs, Step(p) \/ Crash(p)
    PROVE  /\ owned' = owned /\ exposed \subseteq exposed'
           /\ Record(p) => recorded' = recorded \cup {conn[p].at}
           /\ ~Record(p) => recorded' = recorded
           /\ Connect(p) => \A q \in Procs : q # p /\ conn[q].pc \in Rebuilding => T(q) \in exposed'
           /\ (DropNew(p) \/ CreateNew(p) \/ Copy(p) \/ DropOld(p) \/ Rename(p)) =>
                \/ T(p) \in exposed'
                \/ conn[p].at \notin recorded /\ \A q \in Procs : q # p => ~Unopened(q)
           /\ Crash(p) /\ conn[p].pc \in Midway /\ Scripts[conn[p].at].kind # "create" => T(p) \in exposed'
<1>1. ASSUME DropNew(p) \/ CreateNew(p) \/ Copy(p) \/ DropOld(p) \/ Rename(p)
      PROVE  /\ owned' = owned /\ exposed \subseteq exposed' /\ recorded' = recorded
             /\ \/ T(p) \in exposed'
                \/ conn[p].at \notin recorded /\ \A q \in Procs : q # p => ~Unopened(q)
  <2>1. owned' = owned /\ recorded' = recorded /\ Expose(p)
    BY <1>1 DEF DropNew, CreateNew, Copy, DropOld, Rename
  <2>2. QED
    BY <2>1 DEF Expose
<1>2. ASSUME Connect(p)
      PROVE  /\ owned' = owned /\ exposed \subseteq exposed' /\ recorded' = recorded
             /\ \A q \in Procs : q # p /\ conn[q].pc \in Rebuilding => T(q) \in exposed'
  BY <1>2 DEF Connect
<1>3. ASSUME Crash(p)
      PROVE  /\ owned' = owned /\ exposed \subseteq exposed' /\ recorded' = recorded
             /\ conn[p].pc \in Midway /\ Scripts[conn[p].at].kind # "create" => T(p) \in exposed'
  BY <1>3 DEF Crash
<1>4. ASSUME Columns(p) \/ ReadRecorded(p) \/ NextScript(p) \/ CheckKeys(p)
             \/ Fail(p) \/ Opened(p) \/ Close(p)
             \/ Alter(p) \/ CreateTable(p) \/ AddColumn(p)
      PROVE  owned' = owned /\ exposed' = exposed /\ recorded' = recorded
  BY <1>4 DEF Columns, ReadRecorded, NextScript, CheckKeys, Fail,
     Opened, Close, Alter, CreateTable, AddColumn
<1>5. ASSUME Record(p)
      PROVE  owned' = owned /\ exposed' = exposed /\ recorded' = recorded \cup {conn[p].at}
  BY <1>5 DEF Record
<1>6. owned' = owned /\ exposed \subseteq exposed' /\ (~Record(p) => recorded' = recorded)
  BY <1>1, <1>2, <1>3, <1>4, <1>5 DEF Step, Rebuild
<1>7. QED
  BY <1>1, <1>2, <1>3, <1>5, <1>6
-----------------------------------------------------------------------------
\* The tables the statements make are well typed.
LEMMA Shapes ==
    /\ Absent \in Built /\ ~Absent.there /\ ~Absent.rows /\ Absent.has = {}
    /\ \A has \in SUBSET (0..Len(Scripts)) : Empty(has) \in Built
    /\ \A has : Empty(has).there /\ ~Empty(has).rows /\ Empty(has).has = has
    /\ \A v \in Versions : v \in 0..Len(Scripts)
    /\ \A t : Born(t) \subseteq 0..Len(Scripts)
    /\ \A t : \A v \in 0..Len(Scripts) : Changes(t, v) \subseteq 0..Len(Scripts)
<1>1. Len(Scripts) \in Nat /\ 0 \in 0..Len(Scripts)
  BY MigConstants
<1>2. Absent \in Built /\ ~Absent.there /\ ~Absent.rows /\ Absent.has = {}
  BY DEF Absent, Built
<1>3. \A has \in SUBSET (0..Len(Scripts)) : Empty(has) \in Built
  BY DEF Empty, Built
<1>4. \A has : Empty(has).there /\ ~Empty(has).rows /\ Empty(has).has = has
  BY DEF Empty
<1>5. \A v \in Versions : v \in 0..Len(Scripts)
  BY <1>1, MigConstants
<1>6. \A t : Born(t) \subseteq 0..Len(Scripts)
  BY <1>1, MigConstants
<1>7. \A t : \A v \in 0..Len(Scripts) : Changes(t, v) \subseteq 0..Len(Scripts)
  BY <1>1 DEF Changes
<1>8. QED
  BY <1>2, <1>3, <1>4, <1>5, <1>6, <1>7

\* A table keeps its shape when columns or rows come to it.
LEMMA Reshaped ==
    ASSUME NEW row \in Built
    PROVE  /\ \A has \in SUBSET (0..Len(Scripts)) :
                LET new == [row EXCEPT !.has = has]
                IN  new \in Built /\ new.there = row.there /\ new.has = has /\ new.rows = row.rows
           /\ \A rows \in BOOLEAN :
                LET new == [row EXCEPT !.rows = rows]
                IN  new \in Built /\ new.there = row.there /\ new.has = row.has /\ new.rows = rows
BY DEF Built

\* The statements change rows of the file, never which tables it may have.
LEMMA TablesStay ==
    ASSUME MigrationTypeOK, NEW p \in Procs, Step(p) \/ Crash(p)
    PROVE  table' = [t \in Tables |-> table'[t]] /\ side' = [t \in Tables |-> side'[t]]
<1>0. table \in [Tables -> Built] /\ side \in [Tables -> Built]
  BY DEF MigrationTypeOK
<1>1. table' = [t \in Tables |-> table'[t]]
  BY <1>0 DEF Step, Rebuild, Crash, Connect, Columns, ReadRecorded, NextScript,
     CheckKeys, Record, Fail, Opened, Close, Alter, CreateTable, AddColumn,
     DropNew, CreateNew, Copy, DropOld, Rename
<1>2. side' = [t \in Tables |-> side'[t]]
  BY <1>0 DEF Step, Rebuild, Crash, Connect, Columns, ReadRecorded, NextScript,
     CheckKeys, Record, Fail, Opened, Close, Alter, CreateTable, AddColumn,
     DropNew, CreateNew, Copy, DropOld, Rename
<1>3. QED
  BY <1>1, <1>2

\* Every step keeps the types.
LEMMA MigTypeStep ==
    ASSUME MigrationTypeOK, Where, NEW p \in Procs, Step(p) \/ Crash(p)
    PROVE  MigrationTypeOK'
<1>0. /\ table \in [Tables -> Built] /\ side \in [Tables -> Built]
      /\ \A t \in Tables : (table[t].there \/ table[t] = Absent) /\ (side[t].there \/ side[t] = Absent)
      /\ recorded \subseteq Versions /\ conn \in [Procs -> Conn]
      /\ owned \subseteq Tables /\ exposed \subseteq Tables /\ crashes \in 0..MaxCrashes
  BY DEF MigrationTypeOK
<1>1. ASSUME NEW t \in Tables PROVE table'[t] \in Built /\ (table'[t].there \/ table'[t] = Absent)
  <2>0. table[t] \in Built /\ (table[t].there \/ table[t] = Absent)
    BY <1>0
  <2>1. CASE Connect(p)
    <3>1. table'[t] = table[t] \/ table'[t] = Empty(Born(t))
      BY <2>1, TableDeeds
    <3>2. Empty(Born(t)) \in Built /\ Empty(Born(t)).there
      BY Shapes
    <3>3. QED
      BY <2>0, <3>1, <3>2
  <2>2. CASE Alter(p)
    <3> DEFINE u == Legacy[conn[p].at]
               has == table[u].has \cup {0}
    <3>1. /\ u \in Tables /\ table[u].there /\ table'[u] = [table[u] EXCEPT !.has = has]
          /\ (t # u => table'[t] = table[t])
      BY <2>2, TableDeeds
    <3>2. has \in SUBSET (0..Len(Scripts))
      <4>1. table[u].has \in SUBSET (0..Len(Scripts)) /\ 0 \in 0..Len(Scripts)
        BY <1>0, <3>1, MigConstants DEF Built
      <4>2. QED
        BY <4>1
    <3> HIDE DEF u, has
    <3>3. table[u] \in Built
      BY <1>0, <3>1
    <3>4. [table[u] EXCEPT !.has = has] \in Built /\ [table[u] EXCEPT !.has = has].there = table[u].there
      BY <3>2, <3>3, Reshaped
    <3>5. table'[u].there
      BY <3>1, <3>4
    <3>6. QED
      BY <2>0, <3>1, <3>4, <3>5
  <2>3. CASE CreateTable(p)
    <3>1. table'[t] = table[t] \/ table'[t] = Empty({})
      BY <2>3, TableDeeds
    <3>2. Empty({}) \in Built /\ Empty({}).there
      BY Shapes
    <3>3. QED
      BY <2>0, <3>1, <3>2
  <2>4. CASE AddColumn(p)
    <3> DEFINE u == T(p)
               has == table[u].has \cup {conn[p].at}
    <3>1. /\ u \in Tables /\ table[u].there /\ table'[u] = [table[u] EXCEPT !.has = has]
          /\ (t # u => table'[t] = table[t])
      BY <2>4, TableDeeds
    <3>2. has \in SUBSET (0..Len(Scripts))
      <4>1. table[u].has \in SUBSET (0..Len(Scripts))
        BY <1>0, <3>1 DEF Built
      <4>2. conn[p].at \in 0..Len(Scripts)
        BY <2>4, Shapes DEF AddColumn, Runs, Where, Scripted
      <4>3. QED
        BY <4>1, <4>2
    <3> HIDE DEF u, has
    <3>3. table[u] \in Built
      BY <1>0, <3>1
    <3>4. [table[u] EXCEPT !.has = has] \in Built /\ [table[u] EXCEPT !.has = has].there = table[u].there
      BY <3>2, <3>3, Reshaped
    <3>5. table'[u].there
      BY <3>1, <3>4
    <3>6. QED
      BY <2>0, <3>1, <3>4, <3>5
  <2>5. CASE DropOld(p)
    BY <2>0, <2>5, Shapes, TableDeeds
  <2>6. CASE Rename(p)
    BY <1>0, <2>0, <2>6, TableDeeds
  <2>7. CASE table' = table
    BY <2>0, <2>7
  <2>8. QED
    BY <2>1, <2>2, <2>3, <2>4, <2>5, <2>6, <2>7, TableDeeds DEF Step, Rebuild
<1>2. ASSUME NEW t \in Tables PROVE side'[t] \in Built /\ (side'[t].there \/ side'[t] = Absent)
  <2>0. side[t] \in Built /\ (side[t].there \/ side[t] = Absent)
    BY <1>0
  <2>1. CASE DropNew(p) \/ Rename(p)
    BY <2>0, <2>1, Shapes, SideDeeds
  <2>2. CASE CreateNew(p)
    <3> DEFINE u == T(p)
               has == Born(u) \cup Changes(u, conn[p].at)
    <3>1. u \in Tables /\ side'[u] = Empty(has) /\ (t # u => side'[t] = side[t])
      BY <2>2, SideDeeds
    <3>2. has \in SUBSET (0..Len(Scripts))
      <4>1. conn[p].at \in 0..Len(Scripts)
        BY <2>2, Shapes DEF CreateNew, Runs, Where, Scripted
      <4>2. QED
        BY <4>1, Shapes
    <3> HIDE DEF u, has
    <3>3. QED
      BY <2>0, <3>1, <3>2, Shapes
  <2>3. CASE Copy(p)
    <3> DEFINE u == T(p)
               rows == side[u].rows \/ table[u].rows
    <3>1. /\ u \in Tables /\ side[u].there /\ side'[u] = [side[u] EXCEPT !.rows = rows]
          /\ (t # u => side'[t] = side[t])
      BY <2>3, SideDeeds
    <3>2. rows \in BOOLEAN
      OBVIOUS
    <3> HIDE DEF u, rows
    <3>3. side[u] \in Built
      BY <1>0, <3>1
    <3>4. [side[u] EXCEPT !.rows = rows] \in Built /\ [side[u] EXCEPT !.rows = rows].there = side[u].there
      BY <3>2, <3>3, Reshaped
    <3>5. side'[u].there
      BY <3>1, <3>4
    <3>6. QED
      BY <2>0, <3>1, <3>4, <3>5
  <2>4. CASE side' = side
    BY <2>0, <2>4
  <2>5. QED
    BY <2>1, <2>2, <2>3, <2>4, SideDeeds DEF Step, Rebuild
<1>3. table' \in [Tables -> Built] /\ side' \in [Tables -> Built]
  BY <1>1, <1>2, TablesStay
<1>4. recorded' \subseteq Versions
  <2>1. CASE Record(p)
    <3>1. conn[p].pc = "record"
      BY <2>1 DEF Record, Runs
    <3>2. QED
      BY <1>0, <2>1, <3>1, OtherDeeds DEF Where, Scripted
  <2>2. CASE ~Record(p)
    BY <1>0, <2>2, OtherDeeds
  <2>3. QED
    BY <2>1, <2>2
<1>5. exposed' \subseteq Tables
  <2>1. \A q \in Procs : conn[q].pc \in Scripted => T(q) \in Tables
    BY TableOf
  <2>2. CASE Connect(p)
    BY <1>0, <2>1, <2>2 DEF Connect, Rebuilding, Scripted
  <2>3. CASE DropNew(p) \/ CreateNew(p) \/ Copy(p) \/ DropOld(p) \/ Rename(p)
    <3>1. Expose(p) /\ conn[p].pc \in Scripted
      BY <2>3 DEF DropNew, CreateNew, Copy, DropOld, Rename, Runs, Scripted
    <3>2. QED
      BY <1>0, <2>1, <3>1 DEF Expose
  <2>4. CASE Crash(p)
    <3>1. conn[p].pc \in Midway => conn[p].pc \in Scripted
      BY DEF Midway, Rebuilding, Scripted
    <3>2. QED
      BY <1>0, <2>1, <2>4, <3>1 DEF Crash
  <2>5. CASE exposed' = exposed
    BY <1>0, <2>5
  <2>6. QED
    BY <2>2, <2>3, <2>4, <2>5 DEF Step, Rebuild, Columns, ReadRecorded, NextScript,
       CheckKeys, Record, Fail, Opened, Close, Alter, CreateTable, AddColumn
<1>6. crashes' \in 0..MaxCrashes
  <2>1. crashes' = crashes \/ (crashes < MaxCrashes /\ crashes' = crashes + 1)
    BY DEF Step, Rebuild, Crash, Connect, Columns, ReadRecorded, NextScript,
     CheckKeys, Record, Fail, Opened, Close, Alter, CreateTable, AddColumn,
     DropNew, CreateNew, Copy, DropOld, Rename
  <2>2. QED
    BY <1>0, <2>1, MigConstants
<1>7. conn' \in [Procs -> Conn] /\ owned' \subseteq Tables
  BY <1>0, Moves, OtherDeeds
<1>8. QED
  BY <1>1, <1>2, <1>3, <1>4, <1>5, <1>6, <1>7 DEF MigrationTypeOK
-----------------------------------------------------------------------------
\* The versions are applied, and recorded, in their order.
Ordering ==
    /\ \A v, w \in Versions : v < w /\ w \in recorded => v \in recorded
    /\ \A p \in Procs :
          /\ conn[p].seen \subseteq recorded
          /\ conn[p].pc \in Scripted => \A v \in Versions : v < conn[p].at => v \in recorded
          /\ conn[p].pc = "next" => \A v \in Versions : v <= conn[p].at => v \in recorded
          /\ conn[p].pc = "open" => recorded = Versions

\* A process that exchanges a table nothing has exposed ...
Swaps(p) == conn[p].pc \in {"create_new", "copy", "drop_old", "rename"} /\ T(p) \notin exposed

\* ... has not been there before, and prepares the file alone.
Alone == \A p \in Procs : Swaps(p) => /\ conn[p].at \notin recorded
                                      /\ \A q \in Procs : q # p => ~Unopened(q)

\* What it has done so far is there, with the rows from the copy on.
Half ==
    \A p \in Procs : Swaps(p) =>
       LET t == T(p)
       IN  /\ conn[p].pc \in {"copy", "drop_old", "rename"} =>
                side[t].there /\ Born(t) \cup Changes(t, conn[p].at) \subseteq side[t].has
           /\ conn[p].pc = "drop_old" => table[t].there
           /\ conn[p].pc = "rename" => ~table[t].there
           /\ conn[p].pc \in {"drop_old", "rename"} => (t \in owned => side[t].rows)

\* Nobody else has rows on the side.
Copied == \A t \in Tables : t \notin exposed /\ side[t].rows =>
             \E p \in Procs : conn[p].pc \in {"drop_old", "rename"} /\ T(p) = t

\* A table is out between its drop and the renaming; a version is in effect.
Moving(t) == \E p \in Procs : conn[p].pc = "rename" /\ T(p) = t
Done(v) == /\ table[Scripts[v].table].there
           /\ Scripts[v].kind # "create" => v \in table[Scripts[v].table].has

\* What is recorded, or about to be, is in effect.
Effect ==
    /\ \A v \in recorded : \/ Scripts[v].table \in exposed
                           \/ Moving(Scripts[v].table)
                           \/ Done(v)
    /\ \A p \in Procs : conn[p].pc \in {"check", "record"} => T(p) \in exposed \/ Done(conn[p].at)

\* Where a process is done with the columns of the ith old table.
Past(p, i) == \/ conn[p].pc = "columns" /\ i <= conn[p].at
              \/ conn[p].pc = "alter" /\ i < conn[p].at
              \/ conn[p].pc \in Scripted \cup {"next", "open"}

OldColumns ==
    \A p \in Procs : \A i \in 1..Len(Legacy) : Past(p, i) =>
       \/ Legacy[i] \in exposed
       \/ Moving(Legacy[i])
       \/ 0 \in table[Legacy[i]].has

MigInv == /\ MigrationTypeOK /\ Where /\ Ordering /\ Alone /\ Half /\ Copied /\ DataKept /\ Effect /\ OldColumns

\* Beside a process that exchanges a table, the others can only close.
LEMMA Undisturbed ==
    ASSUME MigInv, NEW r \in Procs, Step(r) \/ Crash(r),
           NEW p \in Procs, p # r, Swaps(p), T(p) \notin exposed'
    PROVE  conn[r].pc = "open" /\ Close(r) /\ table' = table /\ side' = side /\ recorded' = recorded /\ owned' = owned
<1>1. ~Unopened(r)
  BY DEF MigInv, Alone
<1>2. conn[r].pc \in {"idle", "open"}
  BY <1>1 DEF Unopened
<1>3. ~Connect(r)
  <2>1. conn[p].pc \in Rebuilding
    BY DEF Swaps, Rebuilding
  <2>2. QED
    BY <2>1, OtherDeeds
<1>4. Close(r)
  BY <1>1, <1>2, <1>3, Moves DEF Step, Rebuild, Fail, Crash, MigInv
<1>5. QED
  BY <1>2, <1>4 DEF Close

\* A process that stays at its version stays at its table.
LEMMA SameTable ==
    ASSUME NEW p \in Procs, conn'[p].at = conn[p].at
    PROVE  T(p)' = T(p)
BY DEF T

\* Every step keeps the order of the versions: a process records the first one
\* that was pending when it read them, and what it passed over was recorded.
LEMMA OrderingStep ==
    ASSUME MigInv, NEW r \in Procs, Step(r) \/ Crash(r)
    PROVE  Ordering'
<1>0. /\ MigrationTypeOK /\ Where /\ recorded \subseteq Versions /\ Versions = 1..Len(Scripts) /\ Len(Scripts) \in Nat
      /\ conn[r].at \in Nat
  BY MigConstants, ConnRecords DEF MigInv, MigrationTypeOK
<1>1. recorded \subseteq recorded' /\ recorded' \subseteq Versions
  <2>1. recorded \subseteq recorded'
    BY OtherDeeds
  <2>2. MigrationTypeOK'
    BY <1>0, MigTypeStep
  <2>3. QED
    BY <2>1, <2>2 DEF MigrationTypeOK
<1>2. \A v, w \in Versions : v < w /\ w \in recorded' => v \in recorded'
  <2>1. CASE Record(r)
    <3>1. recorded' = recorded \cup {conn[r].at} /\ \A v \in Versions : v < conn[r].at => v \in recorded
      BY <1>0, <2>1, OtherDeeds, Moves DEF MigInv, Ordering, Scripted
    <3>2. QED
      BY <3>1 DEF MigInv, Ordering
  <2>2. CASE ~Record(r)
    BY <2>2, OtherDeeds DEF MigInv, Ordering
  <2>3. QED
    BY <2>1, <2>2
<1>3. ASSUME NEW p \in Procs
      PROVE  /\ conn'[p].seen \subseteq recorded'
             /\ conn'[p].pc \in Scripted => \A v \in Versions : v < conn'[p].at => v \in recorded'
             /\ conn'[p].pc = "next" => \A v \in Versions : v <= conn'[p].at => v \in recorded'
             /\ conn'[p].pc = "open" => recorded' = Versions
  <2>1. CASE conn'[p] = conn[p]
    BY <1>1, <2>1 DEF MigInv, Ordering
  <2>2. CASE p = r
    <3>1. CASE Fail(r) \/ Close(r) \/ Crash(r)
      BY <1>0, <2>2, <3>1, Moves DEF Scripted
    <3>2. CASE ReadRecorded(r)
      <4>1. conn'[r].pc = "next" /\ conn'[r].at = 0 /\ conn'[r].seen = recorded
        BY <1>0, <3>2, Moves
      <4>2. \A v \in Versions : ~(v <= 0)
        BY <1>0
      <4>3. QED
        BY <1>1, <2>2, <4>1, <4>2 DEF Scripted
    <3>3. CASE NextScript(r)
      <4>1. /\ conn[r].pc = "next" /\ conn'[r].seen = conn[r].seen /\ conn'[r].pc \notin {"next", "open"}
            /\ conn'[r].at \in Pending(r) /\ \A v \in Pending(r) : conn'[r].at <= v
        <5>1. conn[r].pc = "next" /\ conn'[r].seen = conn[r].seen
              /\ conn'[r].at \in Pending(r) /\ \A v \in Pending(r) : conn'[r].at <= v
          BY <1>0, <3>3, Moves
        <5>2. Scripts[conn'[r].at].kind \in {"create", "column", "rebuild"}
          BY <5>1, MigConstants DEF Pending
        <5>3. conn'[r].pc = IF Scripts[conn'[r].at].kind = "rebuild" THEN "drop_new" ELSE Scripts[conn'[r].at].kind
          BY <1>0, <3>3, Moves
        <5>4. QED
          BY <5>1, <5>2, <5>3
      <4>2. ASSUME NEW v \in Versions, v < conn'[r].at PROVE v \in recorded
        <5>1. v \notin Pending(r)
          <6>1. conn'[r].at \in Nat /\ v \in Nat
            BY <1>0, <4>1 DEF Pending
          <6>2. QED
            BY <4>1, <4>2, <6>1
        <5>2. v \in conn[r].seen \/ v <= conn[r].at
          BY <1>0, <5>1 DEF Pending
        <5>3. QED
          BY <4>1, <5>2 DEF MigInv, Ordering
      <4>3. QED
        BY <1>1, <2>2, <4>1, <4>2 DEF MigInv, Ordering
    <3>4. CASE Opened(r)
      <4>1. conn[r].pc = "next" /\ conn'[r].pc = "open" /\ conn'[r].seen = conn[r].seen
        BY <1>0, <3>4, Moves
      <4>2. ASSUME NEW v \in Versions PROVE v \in recorded
        <5>1. v \in conn[r].seen \/ v <= conn[r].at
          BY <1>0, <3>4 DEF Opened, Pending
        <5>2. QED
          BY <4>1, <5>1 DEF MigInv, Ordering
      <4>3. QED
        BY <1>1, <2>2, <4>1, <4>2 DEF MigInv, Ordering, Scripted
    <3>5. CASE Record(r)
      <4>1. conn[r].pc = "record" /\ conn'[r].pc = "next" /\ conn'[r].at = conn[r].at /\ conn'[r].seen = conn[r].seen
            /\ recorded' = recorded \cup {conn[r].at}
        BY <1>0, <3>5, Moves, OtherDeeds
      <4>2. \A v \in Versions : v < conn[r].at => v \in recorded
        BY <4>1 DEF MigInv, Ordering, Scripted
      <4>3. \A v \in Versions : v <= conn[r].at => v \in recorded'
        BY <1>0, <4>1, <4>2
      <4>4. QED
        BY <2>2, <4>1, <4>3 DEF MigInv, Ordering, Scripted
    <3>6. CASE CreateTable(r) \/ AddColumn(r) \/ Rebuild(r)
      <4>1. conn[r].pc \in Scripted /\ conn'[r].pc \in Scripted
        BY <1>0, <3>6, Moves DEF Scripted, Rebuild
      <4>2. conn'[r].at = conn[r].at /\ conn'[r].seen = conn[r].seen
        BY <1>0, <3>6, Moves
      <4>3. QED
        BY <1>1, <2>2, <4>1, <4>2 DEF MigInv, Ordering, Scripted
    <3>7. CASE Connect(r) \/ Columns(r) \/ Alter(r)
      <4>1. conn'[r].pc \in {"columns", "alter"}
        BY <1>0, <3>7, Moves
      <4>2. conn'[r].seen = conn[r].seen
        BY <1>0, <3>7, Moves
      <4>3. QED
        BY <1>1, <2>2, <4>1, <4>2 DEF MigInv, Ordering, Scripted
    <3>8. QED
      BY <3>1, <3>2, <3>3, <3>4, <3>5, <3>6, <3>7 DEF Step
  <2>3. QED
    BY <1>0, <2>1, <2>2, Moves
<1>4. QED
  BY <1>2, <1>3 DEF Ordering

\* How a process comes to the middle of an exchange.
LEMMA Exchanging ==
    ASSUME MigInv, NEW r \in Procs, Step(r) \/ Crash(r),
           conn'[r].pc \in {"create_new", "copy", "drop_old", "rename"}
    PROVE  DropNew(r) \/ CreateNew(r) \/ Copy(r) \/ DropOld(r)
<1>0. MigrationTypeOK /\ Where
  BY DEF MigInv
<1>1. CASE NextScript(r)
  <2>1. Scripts[conn'[r].at].kind \in {"create", "column", "rebuild"}
    BY <1>0, <1>1, Moves, MigConstants DEF Pending
  <2>2. conn'[r].pc = IF Scripts[conn'[r].at].kind = "rebuild" THEN "drop_new" ELSE Scripts[conn'[r].at].kind
    BY <1>0, <1>1, Moves
  <2>3. QED
    BY <2>1, <2>2
<1>2. CASE ~NextScript(r)
  BY <1>0, <1>2, Moves DEF Step, Rebuild
<1>3. QED
  BY <1>1, <1>2

\* Whoever exchanges an unexposed table began alone, and another connection
\* beside it would expose the table.
LEMMA AloneStep ==
    ASSUME MigInv, NEW r \in Procs, Step(r) \/ Crash(r)
    PROVE  Alone'
<1>0. MigrationTypeOK /\ Where
  BY DEF MigInv
<1> SUFFICES ASSUME NEW p \in Procs, Swaps(p)'
             PROVE  conn'[p].at \notin recorded' /\ \A q \in Procs : q # p => ~Unopened(q)'
  BY DEF Alone
<1>1. CASE p = r
  <2>1. DropNew(r) \/ CreateNew(r) \/ Copy(r) \/ DropOld(r)
    BY <1>1, Exchanging DEF Swaps
  <2>2. conn'[r].at = conn[r].at
    BY <1>0, <2>1, Moves DEF Rebuild
  <2>3. T(r)' = T(r) /\ recorded' = recorded
    <3>1. ~Record(r)
      BY <1>0, <1>1, <2>1, Moves
    <3>2. QED
      BY <2>2, <3>1, SameTable, OtherDeeds
  <2>4. conn[r].at \notin recorded /\ \A q \in Procs : q # r => ~Unopened(q)
    <3>1. T(r) \notin exposed'
      BY <1>1, <2>3 DEF Swaps
    <3>2. QED
      BY <2>1, <3>1, OtherDeeds
  <2>5. \A q \in Procs : q # r => conn'[q] = conn[q]
    BY <1>0, Moves
  <2>6. QED
    BY <1>1, <2>2, <2>3, <2>4, <2>5 DEF Unopened
<1>2. CASE p # r
  <2>1. conn'[p] = conn[p]
    BY <1>0, <1>2, Moves
  <2>2. T(p)' = T(p) /\ Swaps(p) /\ T(p) \notin exposed'
    BY <2>1, SameTable, OtherDeeds DEF Swaps
  <2>3. Close(r) /\ recorded' = recorded
    BY <1>2, <2>2, Undisturbed
  <2>4. conn[p].at \notin recorded /\ \A q \in Procs : q # p => ~Unopened(q)
    BY <2>2 DEF MigInv, Alone
  <2>5. \A q \in Procs : q # p => conn'[q] = conn[q] \/ conn'[q].pc = "idle"
    BY <1>0, <2>3, Moves
  <2>6. QED
    BY <2>1, <2>3, <2>4, <2>5 DEF Unopened
<1>3. QED
  BY <1>1, <1>2

\* A statement of an exchange, and the table and version it is about.
LEMMA ExchangeDeeds ==
    ASSUME MigInv, NEW r \in Procs,
           DropNew(r) \/ CreateNew(r) \/ Copy(r) \/ DropOld(r) \/ Rename(r)
    PROVE  /\ conn'[r].at = conn[r].at /\ T(r)' = T(r) /\ conn[r].at \in Versions
           /\ T(r) = Scripts[conn[r].at].table /\ T(r) \in Tables /\ Scripts[conn[r].at].kind = "rebuild"
           /\ recorded' = recorded /\ owned' = owned /\ exposed \subseteq exposed'
           /\ T(r) \notin exposed' => /\ conn[r].at \notin recorded
                                      /\ \A q \in Procs : q # r => ~Unopened(q)
                                      /\ ~DropNew(r) => Swaps(r)
<1>0. MigrationTypeOK /\ Where /\ (Step(r) \/ Crash(r))
  BY DEF MigInv, Step, Rebuild
<1>1. conn[r].pc \in {"drop_new", "create_new", "copy", "drop_old", "rename"} /\ conn[r].pc \in Scripted
      /\ (~DropNew(r) => conn[r].pc # "drop_new")
  BY <1>0, Moves DEF Scripted
<1>2. conn'[r].at = conn[r].at
  BY <1>0, Moves DEF Rebuild
<1>3. ~Record(r)
  BY <1>0, <1>1, Moves
<1>4. recorded' = recorded /\ owned' = owned /\ exposed \subseteq exposed'
  BY <1>0, <1>3, OtherDeeds
<1>5. T(r)' = T(r) /\ T(r) \in Tables /\ T(r) = Scripts[conn[r].at].table /\ conn[r].at \in Versions
  BY <1>0, <1>1, <1>2, SameTable, TableOf
<1>6. Scripts[conn[r].at].kind = "rebuild"
  BY <1>0, <1>1 DEF Where
<1>7. T(r) \notin exposed' => conn[r].at \notin recorded /\ \A q \in Procs : q # r => ~Unopened(q)
  BY <1>0, OtherDeeds
<1>8. T(r) \notin exposed' /\ ~DropNew(r) => Swaps(r)
  BY <1>1, <1>4 DEF Swaps
<1>9. QED
  BY <1>2, <1>4, <1>5, <1>6, <1>7, <1>8

\* Every step keeps what an exchange has done so far: the new table is made and
\* filled before the old one goes.
LEMMA HalfStep ==
    ASSUME MigInv, NEW r \in Procs, Step(r) \/ Crash(r)
    PROVE  Half'
<1>0. /\ MigrationTypeOK /\ Where /\ table \in [Tables -> Built] /\ side \in [Tables -> Built]
  BY DEF MigInv, MigrationTypeOK
<1> SUFFICES ASSUME NEW p \in Procs, Swaps(p)'
             PROVE  /\ conn'[p].pc \in {"copy", "drop_old", "rename"} =>
                         /\ side'[T(p)'].there
                         /\ Born(T(p)') \cup Changes(T(p)', conn'[p].at) \subseteq side'[T(p)'].has
                    /\ conn'[p].pc = "drop_old" => table'[T(p)'].there
                    /\ conn'[p].pc = "rename" => ~table'[T(p)'].there
                    /\ conn'[p].pc \in {"drop_old", "rename"} => (T(p)' \in owned' => side'[T(p)'].rows)
  BY DEF Half
<1>1. CASE p # r
  <2>1. conn'[p] = conn[p]
    BY <1>0, <1>1, Moves
  <2>2. T(p)' = T(p) /\ Swaps(p) /\ T(p) \notin exposed'
    BY <2>1, SameTable, OtherDeeds DEF Swaps
  <2>3. table' = table /\ side' = side /\ owned' = owned
    BY <1>1, <2>2, Undisturbed
  <2>4. QED
    BY <2>1, <2>2, <2>3 DEF MigInv, Half
<1>2. CASE p = r
  <2> DEFINE t == T(r)
  <2>0. conn'[r].pc \in {"create_new", "copy", "drop_old", "rename"} /\ T(r)' \notin exposed'
    BY <1>2 DEF Swaps
  <2>1. CASE DropNew(r)
    <3>1. conn'[r].pc = "create_new"
      BY <1>0, <2>1, Moves DEF Step, Rebuild
    <3>2. QED
      BY <1>2, <3>1
  <2>2. CASE CreateNew(r)
    <3>1. conn'[r].pc = "copy" /\ conn'[r].at = conn[r].at /\ T(r)' = t
      BY <1>0, <2>2, Moves, ExchangeDeeds DEF Step, Rebuild
    <3>2. side'[t] = Empty(Born(t) \cup Changes(t, conn[r].at))
      BY <1>0, <2>2, SideDeeds
    <3>3. side'[t].there /\ side'[t].has = Born(t) \cup Changes(t, conn[r].at)
      BY <3>2, Shapes
    <3>4. QED
      BY <1>2, <3>1, <3>3
  <2>3. CASE Copy(r)
    <3>1. conn'[r].pc = "drop_old" /\ conn'[r].at = conn[r].at /\ T(r)' = t /\ owned' = owned /\ t \in Tables
          /\ exposed \subseteq exposed'
      BY <1>0, <2>3, Moves, ExchangeDeeds DEF Step, Rebuild
    <3>2. Swaps(r) /\ conn[r].pc = "copy"
      BY <1>0, <2>0, <2>3, <3>1, Moves, ExchangeDeeds DEF Step, Rebuild
    <3>3. table[t].there /\ side[t].there /\ table' = table
      BY <1>0, <2>3, SideDeeds, TableDeeds
    <3>4. Born(t) \cup Changes(t, conn[r].at) \subseteq side[t].has
      BY <3>2 DEF MigInv, Half
    <3> DEFINE rows == side[t].rows \/ table[t].rows
    <3>5. side'[t] = [side[t] EXCEPT !.rows = rows] /\ rows \in BOOLEAN /\ side[t] \in Built
      BY <1>0, <2>3, <3>1, SideDeeds
    <3>6. t \in owned => rows
      BY <2>0, <3>1 DEF MigInv, DataKept
    <3> HIDE DEF t, rows
    <3>7. side'[t].there = side[t].there /\ side'[t].has = side[t].has /\ side'[t].rows = rows
      BY <3>5, Reshaped
    <3>8. QED
      BY <1>2, <3>1, <3>3, <3>4, <3>6, <3>7
  <2>4. CASE DropOld(r)
    <3>1. conn'[r].pc = "rename" /\ conn'[r].at = conn[r].at /\ T(r)' = t /\ owned' = owned /\ t \in Tables
      BY <1>0, <2>4, Moves, ExchangeDeeds DEF Step, Rebuild
    <3>2. Swaps(r) /\ conn[r].pc = "drop_old"
      BY <1>0, <2>0, <2>4, <3>1, Moves, ExchangeDeeds DEF Step, Rebuild
    <3>3. table'[t] = Absent /\ side' = side
      BY <1>0, <2>4, SideDeeds, TableDeeds
    <3>4. /\ side[t].there /\ Born(t) \cup Changes(t, conn[r].at) \subseteq side[t].has
          /\ t \in owned => side[t].rows
      BY <3>2 DEF MigInv, Half
    <3>5. ~table'[t].there
      BY <3>3, Shapes
    <3>6. QED
      BY <1>2, <3>1, <3>3, <3>4, <3>5
  <2>5. DropNew(r) \/ CreateNew(r) \/ Copy(r) \/ DropOld(r)
    BY <2>0, Exchanging
  <2>6. QED
    BY <2>1, <2>2, <2>3, <2>4, <2>5
<1>3. QED
  BY <1>1, <1>2

\* A process in the midst of an exchange nothing has exposed goes on with it:
\* SQLite refuses nothing, and a death would expose the table.
LEMMA GoesOnSwapping ==
    ASSUME MigInv, NEW r \in Procs, Step(r) \/ Crash(r),
           conn[r].pc \in {"drop_old", "rename"}, T(r) \notin exposed'
    PROVE  \/ conn[r].pc = "drop_old" /\ DropOld(r)
           \/ conn[r].pc = "rename" /\ Rename(r)
<1>0. MigrationTypeOK /\ Where
  BY DEF MigInv
<1>1. ~Crash(r)
  <2>1. conn[r].pc \in Midway
    BY DEF Midway, Rebuilding
  <2>2. Scripts[conn[r].at].kind = "rebuild"
    BY <1>0 DEF Where
  <2>3. QED
    BY <2>1, <2>2, OtherDeeds
<1>2. Swaps(r)
  BY OtherDeeds DEF Swaps
<1>3. ~Fail(r)
  <2>1. conn[r].pc = "drop_old" => table[T(r)].there
    BY <1>2 DEF MigInv, Half
  <2>2. conn[r].pc = "rename" => side[T(r)].there /\ ~table[T(r)].there
    BY <1>2 DEF MigInv, Half
  <2>3. QED
    BY <2>1, <2>2, Forbids DEF Fail
<1>4. ~(\/ Connect(r) \/ Columns(r) \/ Alter(r) \/ ReadRecorded(r) \/ NextScript(r)
        \/ CreateTable(r) \/ AddColumn(r) \/ DropNew(r) \/ CreateNew(r) \/ Copy(r)
        \/ CheckKeys(r) \/ Record(r) \/ Opened(r))
  BY <1>0, Moves
<1>5. ~Close(r)
  BY DEF Close
<1>6. DropOld(r) \/ Rename(r)
  BY <1>1, <1>3, <1>4, <1>5 DEF Step, Rebuild
<1>7. QED
  BY <1>0, <1>6, Moves

\* Rows come to the side with a copy and leave it with the renaming.
LEMMA CopiedStep ==
    ASSUME MigInv, NEW r \in Procs, Step(r) \/ Crash(r)
    PROVE  Copied'
<1>0. /\ MigrationTypeOK /\ Where /\ table \in [Tables -> Built] /\ side \in [Tables -> Built]
      /\ exposed \subseteq exposed'
  BY OtherDeeds DEF MigInv, MigrationTypeOK
<1> SUFFICES ASSUME NEW t \in Tables, t \notin exposed', side'[t].rows
             PROVE  \E p \in Procs : conn'[p].pc \in {"drop_old", "rename"} /\ T(p)' = t
  BY DEF Copied
<1>1. CASE Copy(r) /\ t = T(r)
  <2>1. conn'[r].pc = "drop_old" /\ T(r)' = T(r)
    BY <1>0, <1>1, Moves, ExchangeDeeds
  <2>2. QED
    BY <1>1, <2>1
<1>2. ~((DropNew(r) \/ CreateNew(r) \/ Rename(r)) /\ t = T(r))
  <2>1. ~((DropNew(r) \/ Rename(r)) /\ t = T(r))
    BY <1>0, SideDeeds, Shapes
  <2>2. ASSUME CreateNew(r), t = T(r) PROVE FALSE
    <3> DEFINE has == Born(T(r)) \cup Changes(T(r), conn[r].at)
    <3>1. side'[t] = Empty(has)
      BY <1>0, <2>2, SideDeeds
    <3> HIDE DEF has
    <3>2. ~Empty(has).rows
      BY Shapes
    <3>3. QED
      BY <3>1, <3>2
  <2>3. QED
    BY <2>1, <2>2
<1>3. CASE ~(Copy(r) /\ t = T(r))
  <2>1. side'[t] = side[t]
    BY <1>0, <1>2, <1>3, SideDeeds DEF Step, Rebuild
  <2>2. PICK p \in Procs : conn[p].pc \in {"drop_old", "rename"} /\ T(p) = t
    BY <1>0, <2>1 DEF MigInv, Copied
  <2>3. CASE p # r
    <3>1. conn'[p] = conn[p]
      BY <1>0, <2>3, Moves
    <3>2. QED
      BY <2>2, <3>1, SameTable
  <2>4. CASE p = r
    <3>1. DropOld(r) \/ Rename(r)
      BY <2>2, <2>4, GoesOnSwapping
    <3>2. DropOld(r)
      BY <1>2, <2>2, <2>4, <3>1
    <3>3. conn'[r].pc = "rename" /\ T(r)' = T(r)
      BY <1>0, <3>2, Moves, ExchangeDeeds
    <3>4. QED
      BY <2>2, <2>4, <3>3
  <2>5. QED
    BY <2>3, <2>4
<1>4. QED
  BY <1>1, <1>3

\* No statement takes the rows of an unexposed table from both places.
LEMMA DataKeptStep ==
    ASSUME MigInv, NEW r \in Procs, Step(r) \/ Crash(r)
    PROVE  DataKept'
<1>0. /\ MigrationTypeOK /\ Where /\ table \in [Tables -> Built] /\ side \in [Tables -> Built]
      /\ \A t \in Tables : (table[t].there \/ table[t] = Absent) /\ (side[t].there \/ side[t] = Absent)
      /\ owned' = owned /\ owned \subseteq Tables /\ exposed \subseteq exposed'
  BY OtherDeeds DEF MigInv, MigrationTypeOK
<1> SUFFICES ASSUME NEW t \in owned, t \notin exposed' PROVE table'[t].rows \/ side'[t].rows
  BY <1>0 DEF DataKept
<1>1. t \in Tables /\ (table[t].rows \/ side[t].rows)
  BY <1>0 DEF MigInv, DataKept
<1>2. ~table[t].there => ~table[t].rows
  BY <1>0, <1>1, Shapes
<1>3. CASE Connect(r) \/ CreateTable(r)
  <2>1. side' = side /\ (table[t].there => table'[t] = table[t])
    <3>1. CASE Connect(r)
      BY <1>0, <1>1, <3>1, TableDeeds, SideDeeds
    <3>2. CASE CreateTable(r)
      BY <1>0, <1>1, <3>2, TableDeeds, SideDeeds
    <3>3. QED
      BY <1>3, <3>1, <3>2
  <2>2. QED
    BY <1>1, <1>2, <2>1
<1>4. CASE Alter(r)
  <2> DEFINE u == Legacy[conn[r].at]
             has == table[u].has \cup {0}
  <2>1. u \in Tables /\ table'[u] = [table[u] EXCEPT !.has = has] /\ (t # u => table'[t] = table[t]) /\ side' = side
    BY <1>0, <1>1, <1>4, TableDeeds, SideDeeds
  <2>2. table[u] \in Built /\ has \in SUBSET (0..Len(Scripts))
    <3>1. table[u] \in Built /\ 0 \in 0..Len(Scripts)
      BY <1>0, <2>1, MigConstants
    <3>2. QED
      BY <3>1 DEF Built
  <2> HIDE DEF u, has
  <2>3. table'[u].rows = table[u].rows
    BY <2>1, <2>2, Reshaped
  <2>4. QED
    BY <1>1, <2>1, <2>3
<1>5. CASE AddColumn(r)
  <2> DEFINE u == T(r)
             has == table[u].has \cup {conn[r].at}
  <2>1. u \in Tables /\ table'[u] = [table[u] EXCEPT !.has = has] /\ (t # u => table'[t] = table[t]) /\ side' = side
    BY <1>0, <1>1, <1>5, TableDeeds, SideDeeds
  <2>2. table[u] \in Built /\ has \in SUBSET (0..Len(Scripts))
    <3>1. table[u] \in Built
      BY <1>0, <2>1
    <3>2. conn[r].at \in 0..Len(Scripts)
      BY <1>0, <1>5, Shapes, Moves DEF Where, Scripted, Step
    <3>3. QED
      BY <3>1, <3>2 DEF Built
  <2> HIDE DEF u, has
  <2>3. table'[u].rows = table[u].rows
    BY <2>1, <2>2, Reshaped
  <2>4. QED
    BY <1>1, <2>1, <2>3
<1>6. CASE (DropOld(r) \/ Rename(r)) /\ t = T(r)
  <2>1. conn[r].pc \in {"drop_old", "rename"} /\ Swaps(r)
    <3>1. conn[r].pc \in {"drop_old", "rename"}
      BY <1>0, <1>6, Moves
    <3>2. QED
      BY <1>0, <1>6, <3>1 DEF Swaps
  <2>2. side[t].rows
    BY <1>6, <2>1 DEF MigInv, Half
  <2>3. CASE DropOld(r)
    BY <1>0, <2>2, <2>3, SideDeeds
  <2>4. CASE Rename(r)
    BY <1>0, <1>6, <2>2, <2>4, TableDeeds
  <2>5. QED
    BY <1>6, <2>3, <2>4
<1>7. CASE DropNew(r) /\ t = T(r)
  <2>1. ~side[t].rows
    <3> SUFFICES ASSUME side[t].rows PROVE FALSE
      OBVIOUS
    <3>1. PICK p \in Procs : conn[p].pc \in {"drop_old", "rename"} /\ T(p) = t
      BY <1>0, <1>1 DEF MigInv, Copied
    <3>2. conn[r].pc = "drop_new" /\ Swaps(p)
      BY <1>0, <1>7, <3>1, Moves DEF Swaps
    <3>3. conn[r].pc = "open"
      BY <3>1, <3>2, Undisturbed
    <3>4. QED
      BY <3>2, <3>3
  <2>2. table' = table
    BY <1>0, <1>7, TableDeeds
  <2>3. QED
    BY <1>1, <2>1, <2>2
<1>8. CASE CreateNew(r) /\ t = T(r)
  <2>1. ~side[t].rows /\ table' = table
    BY <1>0, <1>1, <1>8, SideDeeds, TableDeeds, Shapes
  <2>2. QED
    BY <1>1, <2>1
<1>9. CASE Copy(r) /\ t = T(r)
  <2> DEFINE rows == side[t].rows \/ table[t].rows
  <2>1. side'[t] = [side[t] EXCEPT !.rows = rows] /\ rows \in BOOLEAN /\ side[t] \in Built
    BY <1>0, <1>1, <1>9, SideDeeds
  <2>2. rows
    BY <1>1
  <2> HIDE DEF rows
  <2>3. side'[t].rows = rows
    BY <2>1, Reshaped
  <2>4. QED
    BY <2>2, <2>3
<1>10. CASE table'[t] = table[t] /\ side'[t] = side[t]
  BY <1>1, <1>10
<1>11. QED
  <2>1. ~(Connect(r) \/ CreateTable(r) \/ Alter(r) \/ AddColumn(r)) =>
           \/ (DropNew(r) \/ CreateNew(r) \/ Copy(r) \/ DropOld(r) \/ Rename(r)) /\ t = T(r)
           \/ table'[t] = table[t] /\ side'[t] = side[t]
    <3>1. CASE DropNew(r) \/ CreateNew(r) \/ Copy(r)
      <4>1. table' = table
        BY <1>0, <3>1, TableDeeds
      <4>2. t # T(r) => side'[t] = side[t]
        BY <1>0, <1>1, <3>1, SideDeeds
      <4>3. QED
        BY <3>1, <4>1, <4>2
    <3>2. CASE DropOld(r)
      <4>1. side' = side
        BY <1>0, <3>2, SideDeeds
      <4>2. t # T(r) => table'[t] = table[t]
        BY <1>0, <1>1, <3>2, TableDeeds
      <4>3. QED
        BY <3>2, <4>1, <4>2
    <3>3. CASE Rename(r)
      <4>1. t # T(r) => table'[t] = table[t]
        BY <1>0, <1>1, <3>3, TableDeeds
      <4>2. t # T(r) => side'[t] = side[t]
        BY <1>0, <1>1, <3>3, SideDeeds
      <4>3. QED
        BY <3>3, <4>1, <4>2
    <3>4. CASE \/ Columns(r) \/ ReadRecorded(r) \/ NextScript(r) \/ CheckKeys(r)
               \/ Record(r) \/ Fail(r) \/ Opened(r) \/ Close(r) \/ Crash(r)
      <4>1. table' = table
        BY <1>0, <3>4, TableDeeds
      <4>2. side' = side
        BY <1>0, <3>4, SideDeeds
      <4>3. QED
        BY <4>1, <4>2
    <3>5. QED
      BY <3>1, <3>2, <3>3, <3>4 DEF Step, Rebuild
  <2>2. QED
    BY <1>3, <1>4, <1>5, <1>6, <1>7, <1>8, <1>9, <1>10, <2>1

-----------------------------------------------------------------------------
\* A table that is out stays out until it is renamed ...
LEMMA MovingStays ==
    ASSUME MigInv, NEW r \in Procs, Step(r) \/ Crash(r),
           NEW t, t \notin exposed', Moving(t)
    PROVE  \/ Moving(t)'
           \/ Rename(r) /\ T(r) = t
<1>0. MigrationTypeOK /\ Where
  BY DEF MigInv
<1>1. PICK p \in Procs : conn[p].pc = "rename" /\ T(p) = t
  BY DEF Moving
<1>2. CASE p # r
  <2>1. conn'[p] = conn[p]
    BY <1>0, <1>2, Moves
  <2>2. T(p)' = t /\ conn'[p].pc = "rename"
    BY <1>1, <2>1, SameTable
  <2>3. QED
    BY <2>2 DEF Moving
<1>3. CASE p = r
  BY <1>1, <1>3, GoesOnSwapping
<1>4. QED
  BY <1>2, <1>3

\* ... and what comes back has every version so far.
LEMMA RenameDone ==
    ASSUME MigInv, NEW r \in Procs, Rename(r), T(r) \notin exposed'
    PROVE  /\ Born(T(r)) \subseteq table'[T(r)].has
           /\ \A v \in Versions :
                 Scripts[v].table = T(r) /\ (v \in recorded \/ v = conn[r].at) => Done(v)'
<1> DEFINE t == T(r)
<1>0. /\ MigrationTypeOK /\ Where /\ (Step(r) \/ Crash(r))
      /\ Versions = 1..Len(Scripts) /\ Len(Scripts) \in Nat
  BY MigConstants DEF MigInv, Step, Rebuild
<1>1. conn[r].pc = "rename"
  BY <1>0, Moves
<1>2. Swaps(r) /\ conn[r].at \notin recorded /\ conn[r].at \in Versions /\ t \in Tables
  BY <1>1, ExchangeDeeds DEF Swaps
<1>3. side[t].there /\ Born(t) \cup Changes(t, conn[r].at) \subseteq side[t].has
  BY <1>1, <1>2 DEF MigInv, Half
<1>4. table'[t] = side[t]
  BY <1>0, TableDeeds
<1>5. ASSUME NEW v \in Versions, Scripts[v].table = t, v \in recorded \/ v = conn[r].at
      PROVE  Done(v)'
  <2>1. ~(conn[r].at < v)
    BY <1>0, <1>2, <1>5 DEF MigInv, Ordering
  <2>2. v \in 1..conn[r].at
    BY <1>0, <1>2, <2>1
  <2>3. Scripts[v].kind # "create" => v \in Changes(t, conn[r].at)
    BY <1>5, <2>2 DEF Changes
  <2>4. table'[Scripts[v].table].there /\ (Scripts[v].kind # "create" => v \in table'[Scripts[v].table].has)
    BY <1>3, <1>4, <1>5, <2>3
  <2>5. QED
    BY <2>4 DEF Done
<1>6. QED
  BY <1>3, <1>4, <1>5

\* Nothing else takes a table or a column away.
LEMMA StaysOrMoves ==
    ASSUME MigInv, NEW r \in Procs, Step(r) \/ Crash(r),
           NEW t \in Tables, t \notin exposed'
    PROVE  \/ Moving(t)'
           \/ (table[t].there => table'[t].there) /\ table[t].has \subseteq table'[t].has
<1>0. /\ MigrationTypeOK /\ Where /\ table \in [Tables -> Built]
      /\ (table[t].there \/ table[t] = Absent) /\ exposed \subseteq exposed'
  BY OtherDeeds DEF MigInv, MigrationTypeOK
<1>1. ~table[t].there => table[t].has = {}
  BY <1>0, Shapes
<1>2. CASE Connect(r) \/ CreateTable(r)
  <2>1. table[t].there => table'[t] = table[t]
    <3>1. CASE Connect(r)
      BY <1>0, <3>1, TableDeeds
    <3>2. CASE CreateTable(r)
      BY <1>0, <3>2, TableDeeds
    <3>3. QED
      BY <1>2, <3>1, <3>2
  <2>2. QED
    BY <1>1, <2>1
<1>3. CASE Alter(r)
  <2> DEFINE u == Legacy[conn[r].at]
             has == table[u].has \cup {0}
  <2>1. u \in Tables /\ table'[u] = [table[u] EXCEPT !.has = has] /\ (t # u => table'[t] = table[t])
    BY <1>0, <1>3, TableDeeds
  <2>2. table[u] \in Built /\ has \in SUBSET (0..Len(Scripts)) /\ table[u].has \subseteq has
    <3>1. table[u] \in Built /\ 0 \in 0..Len(Scripts)
      BY <1>0, <2>1, MigConstants
    <3>2. QED
      BY <3>1 DEF Built
  <2> HIDE DEF u, has
  <2>3. table'[u].there = table[u].there /\ table'[u].has = has
    BY <2>1, <2>2, Reshaped
  <2>4. QED
    BY <2>1, <2>2, <2>3
<1>4. CASE AddColumn(r)
  <2> DEFINE u == T(r)
             has == table[u].has \cup {conn[r].at}
  <2>1. u \in Tables /\ table'[u] = [table[u] EXCEPT !.has = has] /\ (t # u => table'[t] = table[t])
    BY <1>0, <1>4, TableDeeds
  <2>2. table[u] \in Built /\ has \in SUBSET (0..Len(Scripts)) /\ table[u].has \subseteq has
    <3>1. table[u] \in Built
      BY <1>0, <2>1
    <3>2. conn[r].at \in 0..Len(Scripts)
      BY <1>0, <1>4, Shapes, Moves DEF Where, Scripted, Step
    <3>3. QED
      BY <3>1, <3>2 DEF Built
  <2> HIDE DEF u, has
  <2>3. table'[u].there = table[u].there /\ table'[u].has = has
    BY <2>1, <2>2, Reshaped
  <2>4. QED
    BY <2>1, <2>2, <2>3
<1>5. CASE DropOld(r)
  <2>1. CASE T(r) = t
    <3>1. conn'[r].pc = "rename" /\ T(r)' = t
      BY <1>0, <1>5, <2>1, Moves, ExchangeDeeds
    <3>2. QED
      BY <3>1 DEF Moving
  <2>2. CASE T(r) # t
    BY <1>0, <1>5, <2>2, TableDeeds
  <2>3. QED
    BY <2>1, <2>2
<1>6. CASE Rename(r)
  <2>1. CASE T(r) = t
    <3>1. conn[r].pc = "rename" /\ Swaps(r)
      BY <1>0, <1>6, <2>1, Moves DEF Swaps
    <3>2. ~table[t].there
      BY <2>1, <3>1 DEF MigInv, Half
    <3>3. QED
      BY <1>1, <3>2
  <2>2. CASE T(r) # t
    BY <1>0, <1>6, <2>2, TableDeeds
  <2>3. QED
    BY <2>1, <2>2
<1>7. CASE table' = table
  BY <1>7
<1>8. QED
  BY <1>0, <1>2, <1>3, <1>4, <1>5, <1>6, <1>7, TableDeeds DEF Step, Rebuild

\* How a process comes to the end of a script.
LEMMA Finishing ==
    ASSUME MigInv, NEW r \in Procs, Step(r) \/ Crash(r),
           conn'[r].pc \in {"check", "record"}
    PROVE  CreateTable(r) \/ AddColumn(r) \/ Rename(r) \/ CheckKeys(r)
<1>0. MigrationTypeOK /\ Where
  BY DEF MigInv
<1>1. ~NextScript(r)
  <2> SUFFICES ASSUME NextScript(r) PROVE FALSE
    OBVIOUS
  <2>1. Scripts[conn'[r].at].kind \in {"create", "column", "rebuild"}
    BY <1>0, Moves, MigConstants DEF Pending
  <2>2. conn'[r].pc = IF Scripts[conn'[r].at].kind = "rebuild" THEN "drop_new" ELSE Scripts[conn'[r].at].kind
    BY <1>0, Moves
  <2>3. QED
    BY <2>1, <2>2
<1>2. ~(\/ Connect(r) \/ Columns(r) \/ Alter(r) \/ ReadRecorded(r) \/ DropNew(r) \/ CreateNew(r)
        \/ Copy(r) \/ DropOld(r) \/ Record(r) \/ Opened(r)
        \/ Fail(r) \/ Close(r) \/ Crash(r))
  BY <1>0, Moves
<1>3. QED
  BY <1>1, <1>2 DEF Step, Rebuild

\* What is recorded stays in effect: a rebuild ends with every version so far.
LEMMA EffectStep ==
    ASSUME MigInv, NEW r \in Procs, Step(r) \/ Crash(r)
    PROVE  Effect'
<1>0. /\ MigrationTypeOK /\ Where /\ exposed \subseteq exposed' /\ recorded \subseteq Versions
      /\ table \in [Tables -> Built]
      /\ \A v \in Versions : Scripts[v].table \in Tables
  BY OtherDeeds, MigConstants DEF MigInv, MigrationTypeOK
<1>1. ASSUME NEW v \in Versions, Scripts[v].table \notin exposed', Done(v)
      PROVE  Moving(Scripts[v].table)' \/ Done(v)'
  <2>1. \/ Moving(Scripts[v].table)'
        \/ /\ table[Scripts[v].table].there => table'[Scripts[v].table].there
           /\ table[Scripts[v].table].has \subseteq table'[Scripts[v].table].has
    BY <1>0, <1>1, StaysOrMoves
  <2>2. QED
    BY <1>1, <2>1 DEF Done
<1>2. ASSUME NEW v \in recorded'
      PROVE  \/ Scripts[v].table \in exposed'
             \/ Moving(Scripts[v].table)'
             \/ Done(v)'
  <2> DEFINE t == Scripts[v].table
  <2> SUFFICES ASSUME t \notin exposed' PROVE Moving(t)' \/ Done(v)'
    OBVIOUS
  <2>1. CASE v \in recorded
    <3>1. v \in Versions /\ (Moving(t) \/ Done(v))
      BY <1>0, <2>1 DEF MigInv, Effect
    <3>2. CASE Done(v)
      BY <1>1, <3>1, <3>2
    <3>3. CASE Moving(t)
      <4>1. Moving(t)' \/ (Rename(r) /\ T(r) = t)
        BY <3>3, MovingStays
      <4>2. QED
        BY <2>1, <3>1, <4>1, RenameDone
    <3>4. QED
      BY <3>1, <3>2, <3>3
  <2>2. CASE v \notin recorded
    <3>1. Record(r) /\ v = conn[r].at
      BY <2>2, OtherDeeds
    <3>2. conn[r].pc = "record"
      BY <1>0, <3>1, Moves
    <3>3. T(r) = t /\ v \in Versions
      BY <1>0, <3>1, <3>2, TableOf DEF Scripted
    <3>4. Done(v)
      BY <1>0, <3>1, <3>2, <3>3 DEF MigInv, Effect
    <3>5. QED
      BY <1>1, <3>3, <3>4
  <2>3. QED
    BY <2>1, <2>2
<1>3. ASSUME NEW p \in Procs, conn'[p].pc \in {"check", "record"},
             NEW v, v = conn'[p].at, NEW t, t = T(p)', t \notin exposed'
      PROVE  Done(v)'
  <2>1. CASE p # r
    <3>1. conn'[p] = conn[p]
      BY <1>0, <2>1, Moves
    <3>2. t = T(p) /\ v = conn[p].at /\ conn[p].pc \in Scripted
      BY <1>3, <3>1, SameTable DEF Scripted
    <3>3. t = Scripts[v].table /\ v \in Versions
      BY <1>0, <3>2, TableOf
    <3>4. Done(v)
      BY <1>0, <1>3, <3>1, <3>2 DEF MigInv, Effect
    <3>5. ~Moving(t)'
      <4> SUFFICES ASSUME NEW q \in Procs, conn'[q].pc = "rename", T(q)' = t PROVE FALSE
        BY DEF Moving
      <4>1. Swaps(q)'
        BY <1>3 DEF Swaps
      <4>2. Alone'
        BY AloneStep
      <4>3. q # p /\ conn'[p].pc \notin {"idle", "open"}
        BY <1>3
      <4>4. ~Unopened(p)'
        BY <4>1, <4>2, <4>3 DEF Alone
      <4>5. QED
        BY <4>3, <4>4 DEF Unopened
    <3>6. QED
      BY <1>1, <1>3, <3>3, <3>4, <3>5
  <2>2. CASE p = r
    <3>1. CreateTable(r) \/ AddColumn(r) \/ Rename(r) \/ CheckKeys(r)
      BY <1>3, <2>2, Finishing
    <3>2. conn'[r].at = conn[r].at /\ conn[r].pc \in Scripted
      BY <1>0, <3>1, Moves DEF Rebuild, Scripted
    <3>3. t = T(r) /\ v = conn[r].at /\ t = Scripts[v].table /\ v \in Versions /\ t \in Tables
      BY <1>0, <1>3, <2>2, <3>2, SameTable, TableOf
    <3>4. CASE CreateTable(r)
      <4>1. Scripts[v].kind = "create"
        BY <1>0, <3>3, <3>4, Moves DEF Where
      <4>2. table'[t] = IF table[t].there THEN table[t] ELSE Empty({})
        BY <1>0, <3>3, <3>4, TableDeeds
      <4>3. table'[t].there
        BY <4>2, Shapes
      <4>4. QED
        BY <3>3, <4>1, <4>3 DEF Done
    <3>5. CASE AddColumn(r)
      <4> DEFINE has == table[t].has \cup {v}
      <4>0. table[t].there
        BY <1>0, <3>3, <3>5, TableDeeds
      <4>1. table'[t] = [table[t] EXCEPT !.has = has] /\ table[t] \in Built
        BY <1>0, <3>3, <3>5, TableDeeds
      <4>2. has \in SUBSET (0..Len(Scripts)) /\ v \in has
        <5>1. v \in 0..Len(Scripts)
          BY <3>3, Shapes
        <5>2. table[t].has \in SUBSET (0..Len(Scripts))
          BY <4>1 DEF Built
        <5>3. QED
          BY <5>1, <5>2
      <4> HIDE DEF has
      <4>3. table'[t].there = table[t].there /\ table'[t].has = has
        BY <4>1, <4>2, Reshaped
      <4>4. QED
        BY <3>3, <4>0, <4>2, <4>3 DEF Done
    <3>6. CASE Rename(r)
      BY <1>3, <3>3, <3>6, RenameDone
    <3>7. CASE CheckKeys(r)
      <4>1. conn[r].pc = "check" /\ table' = table
        BY <1>0, <3>7, Moves, TableDeeds
      <4>2. t \notin exposed
        BY <1>0, <1>3
      <4>3. Done(v)
        BY <3>3, <4>1, <4>2 DEF MigInv, Effect
      <4>4. QED
        BY <4>1, <4>3 DEF Done
    <3>8. QED
      BY <3>1, <3>4, <3>5, <3>6, <3>7
  <2>3. QED
    BY <2>1, <2>2
<1>4. ASSUME NEW p \in Procs, conn'[p].pc \in {"check", "record"}, T(p)' \notin exposed'
      PROVE  Done(conn[p].at)'
  <2>1. PICK v, t : v = conn'[p].at /\ t = T(p)'
    OBVIOUS
  <2>2. Done(v)'
    BY <1>3, <1>4, <2>1
  <2>3. QED
    BY <2>1, <2>2 DEF Done
<1>5. QED
  BY <1>2, <1>4 DEF Effect

\* The columns a table was given before there were versions stay, or come back
\* with the renaming.
LEMMA OldColumnsStep ==
    ASSUME MigInv, NEW r \in Procs, Step(r) \/ Crash(r)
    PROVE  OldColumns'
<1>0. /\ MigrationTypeOK /\ Where /\ exposed \subseteq exposed' /\ table \in [Tables -> Built]
      /\ \A i \in 1..Len(Legacy) : Legacy[i] \in Tables /\ Born(Legacy[i]) = {0}
      /\ Len(Legacy) \in Nat /\ conn[r].at \in Nat
  BY OtherDeeds, MigConstants, ConnRecords DEF MigInv, MigrationTypeOK
<1> SUFFICES ASSUME NEW p \in Procs, NEW i \in 1..Len(Legacy), Past(p, i)', Legacy[i] \notin exposed'
             PROVE  Moving(Legacy[i])' \/ 0 \in table'[Legacy[i]].has
  BY DEF OldColumns
<1> DEFINE t == Legacy[i]
<1>1. CASE Past(p, i)
  <2>1. Moving(t) \/ 0 \in table[t].has
    BY <1>0, <1>1 DEF MigInv, OldColumns
  <2>2. CASE Moving(t)
    <3>1. Moving(t)' \/ (Rename(r) /\ T(r) = t)
      BY <2>2, MovingStays
    <3>2. QED
      BY <1>0, <3>1, RenameDone
  <2>3. CASE 0 \in table[t].has
    BY <1>0, <2>3, StaysOrMoves
  <2>4. QED
    BY <2>1, <2>2, <2>3
<1>2. CASE p = r /\ Alter(r) /\ i = conn[r].at
  <2> DEFINE has == table[t].has \cup {0}
  <2>1. table'[t] = [table[t] EXCEPT !.has = has] /\ table[t] \in Built
    BY <1>0, <1>2, TableDeeds
  <2>2. has \in SUBSET (0..Len(Scripts)) /\ 0 \in has
    <3>1. 0 \in 0..Len(Scripts)
      BY MigConstants
    <3>2. QED
      BY <2>1, <3>1 DEF Built
  <2> HIDE DEF t, has
  <2>3. table'[t].has = has
    BY <2>1, <2>2, Reshaped
  <2>4. QED
    BY <2>2, <2>3 DEF t
<1>3. CASE p = r /\ Columns(r) /\ conn'[r].pc = "columns" /\ i = conn[r].at + 1
  BY <1>0, <1>3, Moves, TableDeeds
<1>4. \/ Past(p, i)
      \/ p = r /\ Alter(r) /\ i = conn[r].at
      \/ p = r /\ Columns(r) /\ conn'[r].pc = "columns" /\ i = conn[r].at + 1
  <2>1. CASE p # r
    <3>1. conn'[p] = conn[p]
      BY <1>0, <2>1, Moves
    <3>2. QED
      BY <3>1 DEF Past
  <2>2. CASE p = r
    <3>0. i \in Nat /\ i > 0 /\ i <= Len(Legacy)
      BY <1>0
    <3>1. CASE Connect(r)
      <4>1. conn'[r].pc = "columns" /\ conn'[r].at = 0
        BY <1>0, <3>1, Moves DEF Where
      <4>2. QED
        BY <2>2, <3>0, <4>1 DEF Past, Scripted
    <3>2. CASE Columns(r)
      <4>1. conn[r].pc = "columns" /\ conn'[r].at = conn[r].at + 1 /\ conn'[r].pc \in {"columns", "alter"}
        BY <1>0, <3>2, Moves
      <4>2. i <= conn[r].at \/ (conn'[r].pc = "columns" /\ i = conn[r].at + 1)
        BY <1>0, <2>2, <3>0, <4>1 DEF Past, Scripted
      <4>3. QED
        BY <2>2, <3>2, <4>1, <4>2 DEF Past
    <3>3. CASE Alter(r)
      <4>1. conn[r].pc = "alter" /\ conn'[r].pc = "columns"
        BY <1>0, <3>3, Moves
      <4>2. conn'[r].at = conn[r].at
        BY <1>0, <3>3, Moves
      <4>3. i < conn[r].at \/ i = conn[r].at
        BY <1>0, <2>2, <3>0, <4>1, <4>2 DEF Past, Scripted
      <4>4. QED
        BY <2>2, <3>3, <4>1, <4>3 DEF Past
    <3>4. CASE ReadRecorded(r)
      <4>1. conn[r].pc = "columns" /\ conn[r].at = Len(Legacy)
        BY <1>0, <3>4, Moves
      <4>2. QED
        BY <2>2, <3>0, <4>1 DEF Past
    <3>5. CASE NextScript(r) \/ CreateTable(r) \/ AddColumn(r) \/ Rebuild(r) \/ Record(r) \/ Opened(r)
      <4>1. conn[r].pc \in Scripted \cup {"next"}
        BY <1>0, <3>5, Moves DEF Rebuild, Scripted
      <4>2. QED
        BY <2>2, <4>1 DEF Past
    <3>6. CASE Fail(r) \/ Close(r) \/ Crash(r)
      <4>1. conn'[r].pc = "idle"
        BY <1>0, <3>6, Moves
      <4>2. QED
        BY <2>2, <4>1 DEF Past, Scripted
    <3>7. QED
      BY <3>1, <3>2, <3>3, <3>4, <3>5, <3>6 DEF Step
  <2>3. QED
    BY <2>1, <2>2
<1>5. QED
  BY <1>1, <1>2, <1>3, <1>4

-----------------------------------------------------------------------------
\* The file as any release left it.
LEMMA MigInvInit == ASSUME MigrationInit PROVE MigInv
<1>0. /\ Len(Scripts) \in Nat /\ Versions = 1..Len(Scripts) /\ MaxCrashes \in Nat
      /\ \A v \in Versions : Scripts[v].kind \in {"create", "column", "rebuild"} /\ Scripts[v].table \in Tables
  BY MigConstants
<1>1. /\ side = [t \in Tables |-> Absent] /\ conn = [p \in Procs |-> Idle]
      /\ owned = { t \in Tables : table[t].rows } /\ exposed = {} /\ crashes = 0
  BY DEF MigrationInit
<1>2. ASSUME NEW n \in 0..Len(Scripts), NEW old \in SUBSET OldTables, table = Released(n, old)
      PROVE  /\ table \in [Tables -> Built]
             /\ \A t \in Tables : table[t].there \/ table[t] = Absent
             /\ old = {} => \A v \in 1..n : Done(v)
  <2> DEFINE made == Schema \cup { Scripts[v].table : v \in { w \in 1..n : Scripts[w].kind = "create" } }
             has(t) == Changes(t, n) \cup (IF t \in old THEN {} ELSE Born(t))
             row(t) == [there |-> TRUE, has |-> has(t), rows |-> TRUE]
  <2>1. table = [t \in Tables |-> IF t \in made THEN row(t) ELSE Absent]
    BY <1>2 DEF Released
  <2>2. ASSUME NEW t \in Tables PROVE row(t) \in Built /\ row(t).there /\ row(t).has = has(t)
    <3>1. Changes(t, n) \subseteq 0..Len(Scripts) /\ Born(t) \subseteq 0..Len(Scripts)
      BY Shapes
    <3>2. has(t) \in SUBSET (0..Len(Scripts))
      BY <3>1
    <3> HIDE DEF has
    <3>3. QED
      BY <3>2 DEF Built
  <2>3. ASSUME NEW v \in 1..n, old = {} PROVE Done(v)
    <3>1. v \in Versions /\ v \in Nat
      BY <1>0
    <3>2. Scripts[v].table \in made
      <4>1. CASE Scripts[v].kind = "create"
        BY <4>1
      <4>2. CASE Scripts[v].table \in Schema
        BY <4>2
      <4>3. CASE \E w \in 1..v - 1 : Scripts[w].kind = "create" /\ Scripts[w].table = Scripts[v].table
        <5>1. PICK w \in 1..v - 1 : Scripts[w].kind = "create" /\ Scripts[w].table = Scripts[v].table
          BY <4>3
        <5>2. w \in 1..n
          BY <1>0, <3>1, <5>1
        <5>3. QED
          BY <5>1, <5>2
      <4>4. QED
        BY <3>1, <4>1, <4>2, <4>3, <1>0, MigrationsAssumption DEF MigrationsAssumption
    <3>3. Scripts[v].kind # "create" => v \in has(Scripts[v].table)
      BY <2>3 DEF Changes
    <3>4. Scripts[v].table \in Tables
      BY <1>0, <3>1
    <3>5. table[Scripts[v].table] = row(Scripts[v].table)
      BY <2>1, <3>2, <3>4
    <3> HIDE DEF has, row, made
    <3>6. QED
      BY <2>2, <3>3, <3>4, <3>5 DEF Done
  <2> HIDE DEF has, row, made
  <2>4. QED
    BY <2>1, <2>2, <2>3, Shapes
<1>3. /\ table \in [Tables -> Built]
      /\ \A t \in Tables : table[t].there \/ table[t] = Absent
      /\ recorded \subseteq Versions /\ \A v \in recorded : Done(v)
      /\ \A v, w \in Versions : v < w /\ w \in recorded => v \in recorded
  <2>1. CASE \E n \in 0..Len(Scripts) : recorded = 1..n /\ table = Released(n, {})
    <3>1. PICK n \in 0..Len(Scripts) : recorded = 1..n /\ table = Released(n, {})
      BY <2>1
    <3>2. n \in Nat /\ n <= Len(Scripts)
      BY <1>0, <3>1
    <3>3. {} \in SUBSET OldTables
      OBVIOUS
    <3>4. table \in [Tables -> Built] /\ (\A t \in Tables : table[t].there \/ table[t] = Absent)
          /\ \A v \in 1..n : Done(v)
      BY <1>2, <3>1, <3>3
    <3>5. QED
      BY <1>0, <3>1, <3>2, <3>4
  <2>2. CASE \E old \in SUBSET OldTables : recorded = {} /\ table = Released(0, old)
    <3>1. 0 \in 0..Len(Scripts)
      BY <1>0
    <3>2. QED
      BY <1>2, <2>2, <3>1
  <2>3. CASE recorded = {} /\ table = [t \in Tables |-> Absent]
    BY <2>3, Shapes
  <2>4. QED
    BY <2>1, <2>2, <2>3 DEF MigrationInit
<1>4. \A p \in Procs : conn[p].pc = "idle" /\ conn[p].at = 0 /\ conn[p].seen = {}
  BY <1>1 DEF Idle
<1>5. MigrationTypeOK
  <2>1. Idle \in [pc : Pcs, at : Nat, seen : SUBSET Versions, whole : BOOLEAN]
    BY DEF Idle, Pcs
  <2>2. conn \in [Procs -> Conn]
    BY <1>1, <2>1, ConnRecords
  <2>3. side \in [Tables -> Built] /\ \A t \in Tables : side[t] = Absent
    BY <1>1, Shapes
  <2>4. crashes \in 0..MaxCrashes
    BY <1>0, <1>1
  <2>5. QED
    BY <1>1, <1>3, <2>2, <2>3, <2>4 DEF MigrationTypeOK
<1>6. Where /\ Ordering /\ Alone /\ Half /\ OldColumns
  BY <1>3, <1>4 DEF Where, Ordering, Alone, Half, Swaps, OldColumns, Past, Scripted
<1>7. Copied /\ DataKept
  <2>1. \A t \in Tables : ~side[t].rows
    BY <1>1, Shapes
  <2>2. QED
    BY <1>1, <2>1 DEF Copied, DataKept
<1>8. Effect
  BY <1>3, <1>4 DEF Effect
<1>9. QED
  BY <1>5, <1>6, <1>7, <1>8 DEF MigInv

\* The invariant is inductive.
LEMMA MigInvStep == ASSUME MigInv, [MigrationNext]_migrationVars PROVE MigInv'
<1>1. CASE UNCHANGED migrationVars
  <2>0. /\ table' = table /\ side' = side /\ recorded' = recorded /\ conn' = conn
        /\ owned' = owned /\ exposed' = exposed /\ crashes' = crashes
    BY <1>1 DEF migrationVars
  <2>1. MigrationTypeOK' /\ Where' /\ Ordering' /\ DataKept'
    BY <2>0 DEF MigInv, MigrationTypeOK, Where, Ordering, DataKept
  <2>2. \A p \in Procs : T(p)' = T(p) /\ Unopened(p)' = Unopened(p)
    BY <2>0 DEF T, Unopened
  <2>3. Alone' /\ Half' /\ Copied'
    BY <2>0, <2>2 DEF MigInv, Alone, Half, Swaps, Copied
  <2>4. Effect' /\ OldColumns'
    BY <2>0, <2>2 DEF MigInv, Effect, OldColumns, Past, Moving, Done
  <2>5. QED
    BY <2>1, <2>3, <2>4 DEF MigInv
<1>2. CASE MigrationNext
  <2>1. PICK r \in Procs : Step(r) \/ Crash(r)
    BY <1>2 DEF MigrationNext
  <2>2. MigrationTypeOK /\ Where
    BY DEF MigInv
  <2>3. MigrationTypeOK' /\ Where'
    BY <2>1, <2>2, MigTypeStep, WhereStep
  <2>4. Ordering' /\ Alone' /\ Half' /\ Copied' /\ DataKept' /\ Effect' /\ OldColumns'
    BY <2>1, OrderingStep, AloneStep, HalfStep, CopiedStep, DataKeptStep, EffectStep, OldColumnsStep
  <2>5. QED
    BY <2>3, <2>4 DEF MigInv
<1>3. QED
  BY <1>1, <1>2

\* The invariant of the migrations holds in every state.
LEMMA MigInvAlways == MigrationSpec => []MigInv
<1>1. MigrationInit => MigInv
  BY MigInvInit
<1>2. MigInv /\ [MigrationNext]_migrationVars => MigInv'
  BY MigInvStep
<1>3. QED
  BY <1>1, <1>2, PTL DEF MigrationSpec

\* Tables, connections and records keep their types, for any scripts and any
\* number of processes; what is not there has no columns and no rows (connect,
\* apply_pending_migrations).
THEOREM MigrationsTypeCorrect == MigrationSpec => []MigrationTypeOK
<1>1. MigInv => MigrationTypeOK
  BY DEF MigInv
<1>2. QED
  BY <1>1, MigInvAlways, PTL

\* No preparation loses the rows of a table, whoever connects, fails or dies,
\* unless its rebuild was cut short or another process prepared the file beside
\* it (apply_pending_migrations).
THEOREM DataKeptHolds == MigrationSpec => []DataKept
<1>1. MigInv => DataKept
  BY DEF MigInv
<1>2. QED
  BY <1>1, MigInvAlways, PTL

\* A connection handed out has every script recorded and, but for exposed tables,
\* every change in effect, from any release and with any interleaving of
\* processes (connect, apply_pending_migrations).
THEOREM OpenIsMigratedHolds == MigrationSpec => []OpenIsMigrated
<1>1. MigInv => OpenIsMigrated
  <2> SUFFICES ASSUME MigInv, NEW p \in Procs, conn[p].pc = "open"
               PROVE  /\ recorded = Versions
                      /\ \A t \in OldTables \ exposed : 0 \in table[t].has
                      /\ \A v \in Versions :
                            LET t == Scripts[v].table
                            IN  t \in exposed \/ (table[t].there /\ Changes(t, v) \subseteq table[t].has)
    BY DEF OpenIsMigrated
  <2>1. recorded = Versions /\ Where /\ Versions = 1..Len(Scripts) /\ Len(Scripts) \in Nat
    BY MigConstants DEF MigInv, Ordering
  <2>2. ASSUME NEW t, t \notin exposed PROVE ~Moving(t)
    <3> SUFFICES ASSUME NEW q \in Procs, conn[q].pc = "rename", T(q) = t PROVE FALSE
      BY DEF Moving
    <3>1. conn[q].at \notin recorded
      BY <2>2 DEF MigInv, Alone, Swaps
    <3>2. conn[q].at \in Versions
      BY <2>1 DEF Where, Scripted
    <3>3. QED
      BY <2>1, <3>1, <3>2
  <2>3. ASSUME NEW t \in OldTables \ exposed PROVE 0 \in table[t].has
    <3>1. PICK i \in 1..Len(Legacy) : t = Legacy[i]
      BY <2>3 DEF OldTables
    <3>2. Past(p, i)
      BY DEF Past
    <3>3. QED
      BY <2>2, <2>3, <3>1, <3>2 DEF MigInv, OldColumns
  <2>4. \A v \in Versions : Scripts[v].table \in exposed \/ Done(v)
    BY <2>1, <2>2 DEF MigInv, Effect
  <2>5. ASSUME NEW v \in Versions, Scripts[v].table \notin exposed,
               NEW w \in Changes(Scripts[v].table, v)
        PROVE  w \in table[Scripts[v].table].has
    <3>1. w \in 1..v /\ Scripts[w].table = Scripts[v].table /\ Scripts[w].kind # "create"
      BY DEF Changes
    <3>2. w \in Versions
      BY <2>1, <3>1
    <3>3. QED
      BY <2>4, <2>5, <3>1, <3>2 DEF Done
  <2>6. \A v \in Versions : Scripts[v].table \notin exposed => table[Scripts[v].table].there
    BY <2>4 DEF Done
  <2>7. QED
    BY <2>1, <2>3, <2>5, <2>6
<1>2. QED
  BY <1>1, MigInvAlways, PTL
=============================================================================
