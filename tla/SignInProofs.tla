---------------------------- MODULE SignInProofs ----------------------------
(***************************************************************************)
(* Proofs about SignIn, for any people, attempts, threads and bounds.      *)
(***************************************************************************)
EXTENDS SignIn, FiniteSetTheorems, TLAPS

\* What a callback may rely on between its commits: only the owner adopts the
\* row of the old history, which stays without a profile no longer than it is
\* the owner's to adopt; who is about to get an account has lost the claim to
\* that row; and a session is opened for an account of the person, or for one
\* that has been deleted and whose id is not given again.
CallbackOK(q) ==
    LET p == begun[q.attempt]
    IN  /\ q.pc \in {"unlinked", "profile", "link"} => p = Owner
        /\ q.pc \in {"profile", "link"} => q.user = 1
        /\ q.pc = "link" /\ 1 \in Users => 1 \in profile
        /\ q.pc \in {"admit", "insert"} /\ p = Owner /\ 1 \in Users => sub[1] = Owner
        /\ q.pc = "session" => /\ q.user \in 1..(nextId - 1)
                               /\ q.user \in Users => sub[q.user] = p

SignInv == TypeOK /\ (\A t \in Threads : CallbackOK(cb[t])) /\ OwnSession /\ OwnerKeepsHistory

LEMMA Names == Owner \in People /\ Nobody \notin People /\ Owner # Nobody
BY SignInAssumption DEF SignInAssumption, People

\* A step that only moves a callback on.
LEMMA CallbackMoves ==
    ASSUME SignInv, NEW t \in Threads, NEW q \in Serving, q.pc # "idle" => q.attempt \in DOMAIN begun,
           CallbackOK(q), cb' = [cb EXCEPT ![t] = q], UNCHANGED <<now, sub, nextId, profile, sessions, begun>>,
           states' \cup used' \subseteq DOMAIN begun, overlapped' \in BOOLEAN
    PROVE  SignInv'
<1>1. \A u \in Threads : cb'[u] = q \/ cb'[u] = cb[u]
  BY DEF SignInv, TypeOK
<1>2. TypeOK'
  BY <1>1 DEF SignInv, TypeOK, Unlinked, AccountsOf, Users, Serving, Row
<1>3. \A u \in Threads : CallbackOK(cb[u])'
  BY <1>1 DEF SignInv, CallbackOK, Users
<1>4. OwnSession' /\ OwnerKeepsHistory'
  BY DEF SignInv, OwnSession, OwnerKeepsHistory, Users, AccountsOf
<1>5. QED
  BY <1>2, <1>3, <1>4 DEF SignInv

LEMMA SignInit == Init => SignInv
<1> SUFFICES ASSUME Init PROVE SignInv
  OBVIOUS
<1>1. Users = {1} /\ sub[1] = Nobody /\ DOMAIN begun = {} /\ begun \in [DOMAIN begun -> People]
  BY DEF Init, Users
<1>2. cb \in [Threads -> Serving] /\ \A t \in Threads : cb[t].pc = "idle"
  BY DEF Init, Idle, Serving
<1>3. TypeOK
  <2>1. now \in 0..Horizon /\ overlapped \in BOOLEAN /\ nextId \in 2..(MaxId + 1) /\ Users \subseteq 1..(nextId - 1)
    <3>1. Horizon \in Nat /\ MaxId \in Nat /\ MaxId >= 1
      BY SignInAssumption DEF SignInAssumption
    <3>2. now = 0 /\ nextId = 2 /\ overlapped = FALSE
      BY DEF Init
    <3>3. 1..(nextId - 1) = {1}
      BY <3>2
    <3>4. now \in 0..Horizon /\ nextId \in 2..(MaxId + 1)
      BY <3>1, <3>2
    <3>5. QED
      BY <1>1, <3>2, <3>3, <3>4
  <2>2. /\ sub \in [Users -> People \cup {Nobody}] /\ Unlinked \subseteq {1}
        /\ \A u, v \in Users : sub[u] = sub[v] /\ sub[u] # Nobody => u = v
    BY <1>1 DEF Init, Users, Unlinked, AccountsOf
  <2>3. profile \subseteq Users /\ sessions \subseteq Row /\ DOMAIN begun \subseteq Attempts
        /\ states \cup used \subseteq DOMAIN begun
    BY <1>1 DEF Init
  <2>4. QED
    BY <1>1, <1>2, <2>1, <2>2, <2>3 DEF TypeOK
<1>4. OwnSession /\ OwnerKeepsHistory
  BY <1>1, Names DEF Init, OwnSession, OwnerKeepsHistory, AccountsOf
<1>5. \A t \in Threads : CallbackOK(cb[t])
  BY <1>2 DEF CallbackOK
<1>6. QED
  BY <1>3, <1>4, <1>5 DEF SignInv

\* The steps of a callback that change no account.
LEMMA ServeStep ==
    ASSUME SignInv, NEW t \in Threads,
           \/ \E a \in Attempts, fresh \in BOOLEAN : Callback(t, a, fresh)
           \/ Spend(t) \/ Exchange(t) \/ Denied(t) \/ Lookup(t) \/ FindUnlinked(t) \/ Admit(t) \/ Crash(t)
    PROVE  SignInv'
<1> DEFINE At(pc) == [cb[t] EXCEPT !.pc = pc]
<1>0. /\ cb[t] \in Serving /\ Idle \in Serving /\ CallbackOK(Idle) /\ Idle.pc = "idle"
      /\ states \cup used \subseteq DOMAIN begun /\ overlapped \in BOOLEAN
      /\ cb[t].pc # "idle" => cb[t].attempt \in DOMAIN begun
      /\ CallbackOK(cb[t]) /\ Users \subseteq 1..(nextId - 1)
  BY DEF SignInv, TypeOK, Serving, Idle, CallbackOK
<1>1. ASSUME NEW q \in Serving, q.pc # "idle" => q.attempt \in DOMAIN begun, CallbackOK(q),
             cb' = [cb EXCEPT ![t] = q], UNCHANGED <<now, accountVars, begun>>,
             states' \cup used' \subseteq DOMAIN begun, overlapped' \in BOOLEAN
      PROVE  SignInv'
  BY <1>1, CallbackMoves DEF accountVars
<1>2. ASSUME End(t), UNCHANGED <<now, accountVars, begun>>, states' \cup used' \subseteq DOMAIN begun,
             overlapped' \in BOOLEAN
      PROVE  SignInv'
  BY <1>0, <1>1, <1>2 DEF End
<1>3. ASSUME NEW a \in Attempts, NEW fresh \in BOOLEAN, Callback(t, a, fresh) PROVE SignInv'
  <2> DEFINE q == [pc |-> IF fresh /\ a \in states THEN "spend" ELSE "drop", attempt |-> a, user |-> 0]
  <2>1. q \in Serving /\ CallbackOK(q) /\ q.attempt \in DOMAIN begun
    BY <1>3 DEF Callback, Serving, CallbackOK
  <2>2. QED
    BY <1>0, <1>1, <1>3, <2>1 DEF Callback, stateVars
<1>4. CASE Spend(t)
  <2>1. At("exchange") \in Serving /\ CallbackOK(At("exchange")) /\ At("exchange").attempt \in DOMAIN begun
    BY <1>0, <1>4 DEF Spend, Serving, CallbackOK
  <2>2. states' \cup used' \subseteq DOMAIN begun /\ UNCHANGED <<now, accountVars, begun, overlapped>>
    BY <1>0, <1>4 DEF Spend
  <2>3. End(t) \/ cb' = [cb EXCEPT ![t] = At("exchange")]
    BY <1>4 DEF Spend, Goto
  <2>4. CASE cb' = [cb EXCEPT ![t] = At("exchange")]
    BY <1>0, <1>1, <2>1, <2>2, <2>4
  <2>5. CASE End(t)
    BY <1>0, <1>2, <2>2, <2>5
  <2>6. QED
    BY <2>3, <2>4, <2>5
<1>5. CASE Exchange(t)
  <2>1. At("lookup") \in Serving /\ CallbackOK(At("lookup")) /\ At("lookup").attempt \in DOMAIN begun
        /\ cb[t].attempt \in DOMAIN begun
    BY <1>0, <1>5 DEF Exchange, Serving, CallbackOK
  <2>2. states' \cup used' \subseteq DOMAIN begun /\ UNCHANGED <<now, accountVars, begun, overlapped>>
    BY <1>0, <1>5, <2>1 DEF Exchange
  <2>3. End(t) \/ cb' = [cb EXCEPT ![t] = At("lookup")]
    BY <1>5 DEF Exchange, Goto
  <2>4. CASE cb' = [cb EXCEPT ![t] = At("lookup")]
    BY <1>0, <1>1, <2>1, <2>2, <2>4
  <2>5. CASE End(t)
    BY <1>0, <1>2, <2>2, <2>5
  <2>6. QED
    BY <2>3, <2>4, <2>5
<1>6. CASE Denied(t) \/ Crash(t)
  BY <1>0, <1>2, <1>6 DEF Denied, Crash, stateVars
<1>7. CASE Lookup(t)
  <2>1. UNCHANGED <<now, accountVars, stateVars, overlapped>> /\ cb[t].attempt \in DOMAIN begun
        /\ cb[t].pc = "lookup"
    BY <1>0, <1>7 DEF Lookup
  <2>2. CASE End(t)
    BY <1>0, <1>2, <2>1, <2>2 DEF stateVars
  <2>3. ASSUME NEW u \in AccountsOf(Who(t)), Account(t, "session", u) PROVE SignInv'
    <3> DEFINE q == [cb[t] EXCEPT !.pc = "session", !.user = u]
    <3>1. u \in Users /\ sub[u] = begun[cb[t].attempt] /\ u \in Ids
      BY <2>3, SignInAssumption DEF AccountsOf, Who, SignInv, TypeOK, Ids, SignInAssumption
    <3>2. q \in Serving /\ q.attempt = cb[t].attempt
      BY <1>0, <3>1 DEF Serving
    <3>3. CallbackOK(q)
      BY <1>0, <3>1, <3>2 DEF CallbackOK, Serving
    <3>4. QED
      BY <1>0, <1>1, <2>1, <2>3, <3>2, <3>3 DEF Account, stateVars
  <2>4. CASE AccountsOf(Who(t)) = {} /\ Goto(t, IF Who(t) = Owner THEN "unlinked" ELSE "admit")
    <3> DEFINE q == At(IF Who(t) = Owner THEN "unlinked" ELSE "admit")
    <3>1. q \in Serving /\ q.attempt = cb[t].attempt /\ CallbackOK(q)
      BY <1>0 DEF Serving, CallbackOK, Who
    <3>2. QED
      BY <1>0, <1>1, <2>1, <2>4, <3>1 DEF Goto, stateVars
  <2>5. QED
    BY <1>7, <2>2, <2>3, <2>4 DEF Lookup
<1>8. CASE FindUnlinked(t)
  <2>1. UNCHANGED <<now, accountVars, stateVars, overlapped>> /\ cb[t].attempt \in DOMAIN begun
        /\ cb[t].pc = "unlinked" /\ begun[cb[t].attempt] = Owner
    BY <1>0, <1>8 DEF FindUnlinked, CallbackOK
  <2>2. ASSUME NEW u \in Unlinked, Account(t, "profile", u) PROVE SignInv'
    <3> DEFINE q == [cb[t] EXCEPT !.pc = "profile", !.user = u]
    <3>1. u = 1 /\ u \in Ids
      BY <2>2, SignInAssumption DEF SignInv, TypeOK, Ids, SignInAssumption
    <3>2. q \in Serving /\ q.attempt = cb[t].attempt /\ CallbackOK(q)
      BY <1>0, <2>1, <3>1 DEF Serving, CallbackOK
    <3>3. QED
      BY <1>0, <1>1, <2>1, <2>2, <3>2 DEF Account, stateVars
  <2>3. CASE (\A u \in Unlinked : Unlinked # {u}) /\ Goto(t, "admit")
    <3>1. 1 \in Users => sub[1] = Owner
      BY <2>3 DEF SignInv, TypeOK, OwnerKeepsHistory, Unlinked, AccountsOf
    <3>2. At("admit") \in Serving /\ At("admit").attempt = cb[t].attempt /\ CallbackOK(At("admit"))
      BY <1>0, <3>1 DEF Serving, CallbackOK
    <3>3. QED
      BY <1>0, <1>1, <2>1, <2>3, <3>2 DEF Goto, stateVars
  <2>4. QED
    BY <1>8, <2>2, <2>3 DEF FindUnlinked
<1>9. CASE Admit(t)
  <2>1. UNCHANGED <<now, accountVars, stateVars, overlapped>> /\ cb[t].attempt \in DOMAIN begun
        /\ cb[t].pc = "admit"
    BY <1>0, <1>9 DEF Admit
  <2>2. At("insert") \in Serving /\ At("insert").attempt = cb[t].attempt /\ CallbackOK(At("insert"))
    BY <1>0, <2>1 DEF Serving, CallbackOK
  <2>3. End(t) \/ cb' = [cb EXCEPT ![t] = At("insert")]
    BY <1>9 DEF Admit, Goto
  <2>4. QED
    BY <1>0, <1>1, <1>2, <2>1, <2>2, <2>3 DEF stateVars
<1>10. QED
  BY <1>3, <1>4, <1>5, <1>6, <1>7, <1>8, <1>9

\* Steps that leave the accounts and the callbacks alone.
LEMMA SessionsMove ==
    ASSUME SignInv, UNCHANGED <<sub, nextId, profile, begun, used, cb, overlapped>>,
           now' \in 0..Horizon, states' \subseteq states, sessions' \subseteq Row',
           \A s \in sessions' : \E r \in sessions : r.user = s.user /\ r.person = s.person
    PROVE  SignInv'
<1>1. TypeOK'
  BY DEF SignInv, TypeOK, Unlinked, AccountsOf, Users
<1>2. \A u \in Threads : CallbackOK(cb[u])'
  BY DEF SignInv, CallbackOK, Users
<1>3. OwnSession' /\ OwnerKeepsHistory'
  BY DEF SignInv, OwnSession, OwnerKeepsHistory, Users, AccountsOf
<1>4. QED
  BY <1>1, <1>2, <1>3 DEF SignInv

LEMMA SessionsStep ==
    ASSUME SignInv,
           \/ \E s \in sessions : Touch(s) \/ SignOut(s)
           \/ (\E expired \in SUBSET states : Purge(expired)) \/ Clock
    PROVE  SignInv'
<1>1. now \in 0..Horizon /\ Horizon \in Nat /\ sessions \subseteq Row /\ now \in Nat
  BY SignInAssumption DEF SignInv, TypeOK, SignInAssumption
<1>2. ASSUME NEW s \in sessions, Touch(s) PROVE SignInv'
  <2>1. [s EXCEPT !.seen = now] \in Row /\ [s EXCEPT !.seen = now].user = s.user
        /\ [s EXCEPT !.seen = now].person = s.person
    BY <1>1 DEF Row
  <2>2. sessions' \subseteq sessions \cup {[s EXCEPT !.seen = now]} /\ now' = now
    BY <1>2 DEF Touch
  <2>3. sessions' \subseteq Row'
    BY <1>1, <2>1, <2>2 DEF Row
  <2>4. QED
    BY <1>1, <1>2, <2>1, <2>2, <2>3, SessionsMove DEF Touch, stateVars
<1>3. ASSUME NEW s \in sessions, SignOut(s) PROVE SignInv'
  <2>1. sessions' \subseteq sessions /\ sessions' \subseteq Row'
    BY <1>1, <1>3 DEF SignOut, Row
  <2>2. QED
    BY <1>1, <1>3, <2>1, SessionsMove DEF SignOut, stateVars
<1>4. ASSUME NEW expired \in SUBSET states, Purge(expired) PROVE SignInv'
  <2>1. sessions' \subseteq sessions /\ sessions' \subseteq Row' /\ states' \subseteq states
    BY <1>1, <1>4 DEF Purge, Row
  <2>2. QED
    BY <1>1, <1>4, <2>1, SessionsMove DEF Purge
<1>5. CASE Clock
  <2>1. now' \in 0..Horizon /\ 0..now \subseteq 0..now'
    BY <1>1, <1>5 DEF Clock
  <2>2. Row \subseteq Row'
    BY <2>1 DEF Row
  <2>3. QED
    BY <1>1, <1>5, <2>1, <2>2, SessionsMove DEF Clock, accountVars, stateVars
<1>6. QED
  BY <1>2, <1>3, <1>4, <1>5

LEMMA AdoptStep == ASSUME SignInv, NEW t \in Threads, AdoptProfile(t) PROVE SignInv'
<1> DEFINE q == IF 1 \in Users THEN [cb[t] EXCEPT !.pc = "link"] ELSE Idle
<1>1. /\ cb[t] \in Serving /\ cb[t].pc = "profile" /\ cb[t].user = 1 /\ cb[t].attempt \in DOMAIN begun
      /\ begun[cb[t].attempt] = Owner
  BY DEF SignInv, TypeOK, CallbackOK, AdoptProfile
<1>2. profile' = profile \cup ({1} \cap Users) /\ cb' = [cb EXCEPT ![t] = q]
  BY <1>1 DEF AdoptProfile, Goto, End
<1>3. UNCHANGED <<now, sub, nextId, sessions, begun, states, used, overlapped>>
  BY DEF AdoptProfile, stateVars
<1>4. q \in Serving /\ q.pc \in {"link", "idle"} /\ (q.pc = "link" => q.attempt = cb[t].attempt /\ q.user = 1)
  BY <1>1 DEF Serving, Idle
<1> HIDE DEF q
<1>5. \A u \in Threads : cb'[u] = q \/ cb'[u] = cb[u]
  BY <1>2 DEF SignInv, TypeOK
<1>6. TypeOK'
  <2>1. cb' \in [Threads -> Serving] /\ \A u \in Threads : cb'[u].pc # "idle" => cb'[u].attempt \in DOMAIN begun
    BY <1>1, <1>2, <1>4, <1>5 DEF SignInv, TypeOK
  <2>2. profile' \subseteq Users
    BY <1>2 DEF SignInv, TypeOK
  <2>3. QED
    BY <1>3, <2>1, <2>2 DEF SignInv, TypeOK, Unlinked, AccountsOf, Users, Row, Serving
<1>8. \A u \in Threads : CallbackOK(cb[u])'
  <2> SUFFICES ASSUME NEW u \in Threads PROVE CallbackOK(cb[u])'
    OBVIOUS
  <2>1. CASE cb'[u] = q
    BY <1>1, <1>2, <1>3, <1>4, <2>1 DEF CallbackOK, Users
  <2>2. CASE cb'[u] = cb[u]
    BY <1>2, <1>3, <2>2 DEF SignInv, CallbackOK, Users
  <2>3. QED
    BY <1>5, <2>1, <2>2
<1>9. OwnSession' /\ OwnerKeepsHistory'
  BY <1>2, <1>3 DEF SignInv, OwnSession, OwnerKeepsHistory, Users, AccountsOf
<1>10. QED
  BY <1>6, <1>8, <1>9 DEF SignInv

LEMMA LinkStep == ASSUME SignInv, NEW t \in Threads, LinkAccount(t) PROVE SignInv'
<1> DEFINE q == [cb[t] EXCEPT !.pc = "session"]
<1>1. /\ cb[t] \in Serving /\ cb[t].pc = "link" /\ cb[t].user = 1 /\ cb[t].attempt \in DOMAIN begun
      /\ Who(t) = Owner /\ (1 \in Users => 1 \in profile) /\ begun[cb[t].attempt] = Owner
  BY DEF SignInv, TypeOK, CallbackOK, LinkAccount, Who
<1>2. UNCHANGED <<now, nextId, profile, sessions, begun, states, used, overlapped>>
  BY DEF LinkAccount, stateVars
<1>3. /\ q \in Serving /\ q.pc = "session" /\ q.user = 1 /\ q.attempt = cb[t].attempt
      /\ 1 \in 1..(nextId - 1) /\ Idle \in Serving /\ Idle.pc = "idle" /\ CallbackOK(Idle)
      /\ states \cup used \subseteq DOMAIN begun /\ overlapped \in BOOLEAN
  BY <1>1 DEF Serving, SignInv, TypeOK, Idle, CallbackOK
<1>4. CASE 1 \in Unlinked /\ AccountsOf(Owner) = {}
  <2>1. /\ sub' = [sub EXCEPT ![1] = Owner] /\ cb' = [cb EXCEPT ![t] = q] /\ 1 \in Users /\ sub[1] = Nobody
        /\ \A u \in Users : sub[u] # Owner
    BY <1>1, <1>4 DEF LinkAccount, Goto, Unlinked, AccountsOf
  <2> HIDE DEF q
  <2>2. Users' = Users /\ sub'[1] = Owner /\ \A u \in Users : u # 1 => sub'[u] = sub[u]
    BY <2>1 DEF Users, SignInv, TypeOK
  <2>3. TypeOK'
    <3>1. cb' \in [Threads -> Serving] /\ \A u \in Threads : cb'[u].pc # "idle" => cb'[u].attempt \in DOMAIN begun
      BY <1>1, <1>3, <2>1 DEF SignInv, TypeOK
    <3>2. sub' \in [Users -> People \cup {Nobody}]
      BY <2>1, Names DEF SignInv, TypeOK
    <3>3. \A u, v \in Users : sub'[u] = sub'[v] /\ sub'[u] # Nobody => u = v
      BY <2>1, <2>2 DEF SignInv, TypeOK
    <3>4. Unlinked' \subseteq {1}
      BY <2>2 DEF SignInv, TypeOK, Unlinked, AccountsOf
    <3>5. QED
      BY <1>2, <2>2, <3>1, <3>2, <3>3, <3>4 DEF SignInv, TypeOK, Row
  <2>4. ASSUME NEW u \in Threads PROVE CallbackOK(cb[u])'
    <3>1. cb'[u] = q \/ cb'[u] = cb[u]
      BY <2>1 DEF SignInv, TypeOK
    <3>2. CASE cb'[u] = q
      BY <1>1, <1>2, <1>3, <2>2, <3>2 DEF CallbackOK
    <3>3. CASE cb'[u] = cb[u]
      <4>1. CallbackOK(cb[u]) /\ (cb[u].pc # "idle" => begun[cb[u].attempt] \in People)
        BY DEF SignInv, TypeOK
      <4>2. QED
        BY <1>2, <2>1, <2>2, <3>3, <4>1, Names DEF CallbackOK
    <3>4. QED
      BY <3>1, <3>2, <3>3
  <2>5. OwnSession'
    <3>1. \A s \in sessions : s.person \in People /\ s.user \in Users /\ sub[s.user] = s.person
      BY DEF SignInv, TypeOK, OwnSession, Row
    <3>2. QED
      BY <1>2, <2>1, <2>2, <3>1, Names DEF OwnSession
  <2>6. OwnerKeepsHistory'
    BY <1>1, <1>2, <2>1, <2>2 DEF OwnerKeepsHistory, AccountsOf
  <2>7. QED
    BY <2>3, <2>4, <2>5, <2>6 DEF SignInv
<1>5. CASE 1 \in Unlinked /\ AccountsOf(Owner) # {}
  <2>1. sub' = sub /\ cb' = [cb EXCEPT ![t] = Idle]
    BY <1>1, <1>5 DEF LinkAccount, End
  <2>2. QED
    BY <1>2, <1>3, <2>1, CallbackMoves
<1>6. CASE 1 \notin Unlinked
  <2>1. sub' = sub /\ cb' = [cb EXCEPT ![t] = q]
    BY <1>1, <1>6 DEF LinkAccount, Goto
  <2>2. 1 \in Users => sub[1] = Owner
    BY <1>6 DEF SignInv, OwnerKeepsHistory, Unlinked, AccountsOf
  <2>3. CallbackOK(q)
    BY <1>1, <1>3, <2>2 DEF CallbackOK
  <2>4. q.attempt \in DOMAIN begun
    BY <1>1, <1>3
  <2> HIDE DEF q
  <2>5. QED
    BY <1>2, <1>3, <2>1, <2>3, <2>4, CallbackMoves
<1>7. QED
  BY <1>4, <1>5, <1>6

LEMMA InsertStep == ASSUME SignInv, NEW t \in Threads, InsertUser(t) PROVE SignInv'
<1> DEFINE p == Who(t)
           q == [cb[t] EXCEPT !.pc = "session", !.user = nextId]
<1>1. /\ cb[t] \in Serving /\ cb[t].pc = "insert" /\ cb[t].attempt \in DOMAIN begun
      /\ p \in People /\ begun[cb[t].attempt] = p /\ (p = Owner /\ 1 \in Users => sub[1] = Owner)
  BY DEF SignInv, TypeOK, CallbackOK, InsertUser, Who
<1>2. UNCHANGED <<now, profile, sessions, begun, states, used, overlapped>>
  BY DEF InsertUser, stateVars
<1>3. /\ Idle \in Serving /\ Idle.pc = "idle" /\ CallbackOK(Idle)
      /\ states \cup used \subseteq DOMAIN begun /\ overlapped \in BOOLEAN
      /\ nextId \in Ids /\ nextId \in 2..MaxId /\ Users \subseteq 1..(nextId - 1) /\ MaxId \in Nat
  BY SignInAssumption DEF SignInv, TypeOK, Serving, Idle, CallbackOK, InsertUser, Ids, SignInAssumption
<1>4. CASE AccountsOf(p) # {}
  <2>1. UNCHANGED <<sub, nextId>> /\ cb' = [cb EXCEPT ![t] = Idle]
    BY <1>4 DEF InsertUser, End
  <2>2. QED
    BY <1>2, <1>3, <2>1, CallbackMoves
<1>5. CASE AccountsOf(p) = {}
  <2>1. /\ sub' = [u \in Users \cup {nextId} |-> IF u = nextId THEN p ELSE sub[u]]
        /\ nextId' = nextId + 1 /\ cb' = [cb EXCEPT ![t] = q] /\ \A u \in Users : sub[u] # p
    BY <1>5 DEF InsertUser, Account, AccountsOf
  <2>2. q \in Serving /\ q.pc = "session" /\ q.user = nextId /\ q.attempt = cb[t].attempt
    BY <1>1, <1>3 DEF Serving
  <2> HIDE DEF p, q
  <2>3. /\ Users' = Users \cup {nextId} /\ sub'[nextId] = p /\ nextId \notin Users
        /\ \A u \in Users : sub'[u] = sub[u]
    BY <1>3, <2>1 DEF Users
  <2>4. nextId' \in 2..(MaxId + 1) /\ Users' \subseteq 1..(nextId' - 1) /\ nextId \in 1..(nextId' - 1)
        /\ 1..(nextId - 1) \subseteq 1..(nextId' - 1) /\ nextId # 1
    BY <1>3, <2>1, <2>3
  <2>5. TypeOK'
    <3>1. cb' \in [Threads -> Serving] /\ \A u \in Threads : cb'[u].pc # "idle" => cb'[u].attempt \in DOMAIN begun
      BY <1>1, <2>1, <2>2 DEF SignInv, TypeOK
    <3>2. sub' \in [Users' -> People \cup {Nobody}]
      BY <1>1, <2>1, <2>3 DEF SignInv, TypeOK
    <3>3. \A u, v \in Users' : sub'[u] = sub'[v] /\ sub'[u] # Nobody => u = v
      BY <2>1, <2>3 DEF SignInv, TypeOK
    <3>4. Unlinked' \subseteq {1}
      BY <1>1, <2>3, Names DEF SignInv, TypeOK, Unlinked, AccountsOf
    <3>5. profile' \subseteq Users'
      BY <1>2, <2>3 DEF SignInv, TypeOK
    <3>6. QED
      BY <1>2, <2>4, <3>1, <3>2, <3>3, <3>4, <3>5 DEF SignInv, TypeOK, Row
  <2>6. ASSUME NEW u \in Threads PROVE CallbackOK(cb[u])'
    <3>1. cb'[u] = q \/ cb'[u] = cb[u]
      BY <2>1 DEF SignInv, TypeOK
    <3>2. CASE cb'[u] = q
      BY <1>1, <1>2, <2>2, <2>3, <2>4, <3>2 DEF CallbackOK
    <3>3. CASE cb'[u] = cb[u]
      <4>1. CallbackOK(cb[u])
        BY DEF SignInv
      <4>2. (1 \in Users') = (1 \in Users)
        BY <2>3, <2>4
      <4>3. cb[u].pc = "session" => cb[u].user # nextId /\ cb[u].user \in 1..(nextId' - 1)
        <5>1. nextId \notin 1..(nextId - 1)
          BY <1>3
        <5>2. QED
          BY <2>4, <4>1, <5>1 DEF CallbackOK
      <4>4. QED
        BY <1>2, <2>3, <3>3, <4>1, <4>2, <4>3 DEF CallbackOK
    <3>4. QED
      BY <3>1, <3>2, <3>3
  <2>7. OwnSession'
    BY <1>2, <2>3 DEF SignInv, OwnSession
  <2>8. OwnerKeepsHistory'
    BY <1>1, <1>2, <2>1, <2>3, <2>4 DEF SignInv, OwnerKeepsHistory, AccountsOf
  <2>9. QED
    BY <2>5, <2>6, <2>7, <2>8 DEF SignInv
<1>6. QED
  BY <1>4, <1>5

LEMMA OpenStep == ASSUME SignInv, NEW t \in Threads, OpenSession(t) PROVE SignInv'
<1> DEFINE new == Session(cb[t].user, Who(t))
<1>1. /\ cb[t].pc = "session" /\ cb[t].user \in 1..(nextId - 1) /\ Who(t) \in People
      /\ cb[t].user \in Users => sub[cb[t].user] = Who(t)
  BY DEF SignInv, TypeOK, CallbackOK, OpenSession, Who
<1>2. /\ UNCHANGED <<now, sub, nextId, profile, begun, states, used, overlapped>> /\ cb' = [cb EXCEPT ![t] = Idle]
      /\ sessions' = IF cb[t].user \in Users THEN sessions \cup {new} ELSE sessions
  BY DEF OpenSession, End, stateVars
<1>3. now \in Nat /\ cb[t].user \in Ids
  BY <1>1, SignInAssumption DEF SignInv, TypeOK, SignInAssumption, Ids
<1>4. new \in Row /\ new.user = cb[t].user /\ new.person = Who(t)
  BY <1>1, <1>3 DEF Row, Session
<1> HIDE DEF new
<1>5. \A u \in Threads : cb'[u] = Idle \/ cb'[u] = cb[u]
  BY <1>2 DEF SignInv, TypeOK
<1>6. TypeOK'
  <2>1. cb' \in [Threads -> Serving] /\ \A u \in Threads : cb'[u].pc # "idle" => cb'[u].attempt \in DOMAIN begun
    BY <1>2, <1>5 DEF SignInv, TypeOK, Serving, Idle
  <2>2. sessions' \subseteq Row /\ Row' = Row
    BY <1>2, <1>4 DEF SignInv, TypeOK, Row
  <2>3. QED
    BY <1>2, <2>1, <2>2 DEF SignInv, TypeOK, Unlinked, AccountsOf, Users
<1>7. \A u \in Threads : CallbackOK(cb[u])'
  BY <1>2, <1>5 DEF SignInv, CallbackOK, Users, Idle
<1>8. OwnSession' /\ OwnerKeepsHistory'
  BY <1>1, <1>2, <1>4 DEF SignInv, OwnSession, OwnerKeepsHistory, Users, AccountsOf
<1>9. QED
  BY <1>6, <1>7, <1>8 DEF SignInv

LEMMA DeleteStep == ASSUME SignInv, NEW s \in sessions, DeleteAccount(s) PROVE SignInv'
<1>1. /\ sub' = [v \in Users \ {s.user} |-> sub[v]] /\ profile' = profile \ {s.user}
      /\ sessions' = { x \in sessions : x.user # s.user }
      /\ UNCHANGED <<now, nextId, begun, states, used, cb, overlapped>>
  BY DEF DeleteAccount, stateVars
<1>2. Users' = Users \ {s.user} /\ \A v \in Users' : sub'[v] = sub[v]
  BY <1>1 DEF Users
<1>3. TypeOK'
  <2>1. sub' \in [Users' -> People \cup {Nobody}] /\ Users' \subseteq 1..(nextId - 1)
    BY <1>1, <1>2 DEF SignInv, TypeOK
  <2>2. \A u, v \in Users' : sub'[u] = sub'[v] /\ sub'[u] # Nobody => u = v
    BY <1>2 DEF SignInv, TypeOK
  <2>3. Unlinked' \subseteq {1} /\ profile' \subseteq Users' /\ sessions' \subseteq Row
    BY <1>1, <1>2 DEF SignInv, TypeOK, Unlinked, AccountsOf
  <2>4. QED
    BY <1>1, <2>1, <2>2, <2>3 DEF SignInv, TypeOK, Row
<1>4. \A u \in Threads : CallbackOK(cb[u])'
  BY <1>1, <1>2 DEF SignInv, CallbackOK
<1>5. OwnSession' /\ OwnerKeepsHistory'
  BY <1>1, <1>2 DEF SignInv, OwnSession, OwnerKeepsHistory, AccountsOf
<1>6. QED
  BY <1>3, <1>4, <1>5 DEF SignInv

LEMMA SignInStep == ASSUME SignInv, [Next]_vars PROVE SignInv'
<1>1. ASSUME NEW a \in Attempts, NEW p \in People, Begin(a, p) PROVE SignInv'
  <2>1. /\ DOMAIN begun' = DOMAIN begun \cup {a} /\ begun' \in [DOMAIN begun' -> People]
        /\ \A b \in DOMAIN begun : begun'[b] = begun[b]
        /\ states' \cup used' \subseteq DOMAIN begun' /\ DOMAIN begun' \subseteq Attempts
    BY <1>1 DEF Begin, SignInv, TypeOK
  <2>2. UNCHANGED <<now, sub, nextId, profile, sessions, cb, overlapped>>
    BY <1>1 DEF Begin, accountVars
  <2>3. TypeOK'
    BY <2>1, <2>2 DEF SignInv, TypeOK, Unlinked, AccountsOf, Users, Row
  <2>4. ASSUME NEW u \in Threads PROVE CallbackOK(cb[u])'
    <3>1. CallbackOK(cb[u]) /\ cb'[u] = cb[u] /\ (cb[u].pc # "idle" => cb[u].attempt \in DOMAIN begun)
      BY <2>2 DEF SignInv, TypeOK
    <3>2. QED
      BY <2>1, <2>2, <3>1 DEF CallbackOK, Users
  <2>5. OwnSession' /\ OwnerKeepsHistory'
    BY <2>2 DEF SignInv, OwnSession, OwnerKeepsHistory, Users, AccountsOf
  <2>6. QED
    BY <2>3, <2>4, <2>5 DEF SignInv
<1>2. ASSUME NEW t \in Threads, Serve(t) PROVE SignInv'
  BY <1>2, ServeStep, AdoptStep, LinkStep, InsertStep, OpenStep DEF Serve, Resolve
<1>3. ASSUME NEW s \in sessions, Touch(s) \/ SignOut(s) \/ DeleteAccount(s) PROVE SignInv'
  BY <1>3, SessionsStep, DeleteStep
<1>4. CASE (\E expired \in SUBSET states : Purge(expired)) \/ Clock
  BY <1>4, SessionsStep
<1>5. CASE UNCHANGED vars
  <2>1. TypeOK'
    BY <1>5 DEF vars, SignInv, TypeOK, Unlinked, AccountsOf, Users, Row
  <2>2. \A u \in Threads : CallbackOK(cb[u])'
    BY <1>5 DEF vars, SignInv, CallbackOK, Users
  <2>3. OwnSession' /\ OwnerKeepsHistory'
    BY <1>5 DEF vars, SignInv, OwnSession, OwnerKeepsHistory, Users, AccountsOf
  <2>4. QED
    BY <2>1, <2>2, <2>3 DEF SignInv
<1>6. QED
  BY <1>1, <1>2, <1>3, <1>4, <1>5 DEF Next

LEMMA SignInvAlways == Spec => []SignInv
BY SignInit, SignInStep, PTL DEF Spec

-----------------------------------------------------------------------------
\* Every state is well typed; in particular a subject never has two accounts
\* (the UNIQUE google_sub of users).
THEOREM TypeCorrect == Spec => []TypeOK
<1>1. SignInv => TypeOK
  BY DEF SignInv
<1>2. QED
  BY <1>1, SignInvAlways, PTL

\* A session is for the account of the person who signed in and goes with it,
\* whatever the callbacks in flight (create_session, delete_account).
THEOREM OwnSessionHolds == Spec => []OwnSession
<1>1. SignInv => OwnSession
  BY DEF SignInv
<1>2. QED
  BY <1>1, SignInvAlways, PTL

\* The row of the old history goes to the owner or to nobody, and the owner
\* has no account beside it (unlinked_user_id, resolve_user).
THEOREM OwnerKeepsHistoryHolds == Spec => []OwnerKeepsHistory
<1>1. SignInv => OwnerKeepsHistory
  BY DEF SignInv
<1>2. QED
  BY <1>1, SignInvAlways, PTL

-----------------------------------------------------------------------------
\* While callbacks are served one at a time, the count that let somebody in
\* is still good when the account is made.
Seats ==
    ~overlapped =>
       /\ \A t, u \in Threads : cb[t].pc # "idle" /\ cb[u].pc # "idle" => t = u
       /\ \A t \in Threads : cb[t].pc = "insert" /\ Who(t) \in Others => Cardinality(Users) < MaxUsers

LEMMA Finite == ASSUME SignInv PROVE IsFiniteSet(Users) /\ Cardinality(Users) \in Nat
<1>1. Users \subseteq 1..(nextId - 1) /\ nextId - 1 \in Int
  BY SignInAssumption DEF SignInv, TypeOK, SignInAssumption
<1>2. IsFiniteSet(1..(nextId - 1))
  BY <1>1, FS_Interval
<1>3. QED
  BY <1>1, <1>2, FS_Subset, FS_CardinalityType

LEMMA SeatsStep == ASSUME SignInv, Seats, [Next]_vars PROVE Seats'
<1> SUFFICES ASSUME ~overlapped' PROVE Seats'
  BY DEF Seats
<1>0. /\ cb \in [Threads -> Serving] /\ IsFiniteSet(Users) /\ Cardinality(Users) \in Nat /\ MaxUsers \in Nat
      /\ \A t \in Threads : cb[t].pc # "idle" => cb[t].attempt \in DOMAIN begun
  BY Finite, SignInAssumption DEF SignInv, TypeOK, SignInAssumption
<1>1. ASSUME NEW t \in Threads, ~overlapped, cb[t].pc # "idle", UNCHANGED begun,
             cb'[t].pc = "insert" => cb'[t].attempt = cb[t].attempt /\ cb[t].pc = "admit"
                                     /\ (Who(t) \in Others => Cardinality(Users') < MaxUsers),
             \A u \in Threads \ {t} : cb'[u] = cb[u]
      PROVE  Seats'
  BY <1>1 DEF Seats, Who
<1>2. ASSUME NEW a \in Attempts, NEW p \in People, Begin(a, p) PROVE Seats'
  <2>1. ~overlapped /\ cb' = cb /\ sub' = sub /\ \A b \in DOMAIN begun : begun'[b] = begun[b]
    BY <1>2 DEF Begin, accountVars
  <2>2. QED
    BY <1>0, <2>1 DEF Seats, Who, Users
<1>3. ASSUME NEW t \in Threads, Serve(t) PROVE Seats'
  <2>1. CASE \E a \in Attempts, fresh \in BOOLEAN : Callback(t, a, fresh)
    <3>1. \A u \in Threads : cb[u].pc = "idle"
      BY <2>1 DEF Callback
    <3>2. cb'[t].pc # "insert" /\ \A u \in Threads \ {t} : cb'[u] = cb[u]
      BY <1>0, <2>1 DEF Callback
    <3>3. QED
      BY <3>1, <3>2 DEF Seats
  <2>2. CASE Admit(t)
    <3>1. Who(t) \in Others => ~Named(Who(t))
      BY SignInAssumption DEF Named, SignInAssumption
    <3>2. cb'[t].pc = "insert" => cb'[t].attempt = cb[t].attempt /\ (Who(t) \in Others => Cardinality(Users') < MaxUsers)
      BY <1>0, <2>2, <3>1 DEF Admit, Goto, End, Idle, Users, accountVars, Serving
    <3>3. ~overlapped /\ UNCHANGED begun /\ cb[t].pc = "admit" /\ \A u \in Threads \ {t} : cb'[u] = cb[u]
      BY <1>0, <2>2 DEF Admit, Goto, End, stateVars
    <3>4. QED
      BY <1>1, <3>2, <3>3
  <2>3. CASE \/ Spend(t) \/ Exchange(t) \/ Denied(t) \/ Lookup(t) \/ FindUnlinked(t) \/ AdoptProfile(t)
             \/ LinkAccount(t) \/ InsertUser(t) \/ OpenSession(t) \/ Crash(t)
    <3>1. ~overlapped /\ UNCHANGED begun /\ cb[t].pc # "idle"
      BY <2>3 DEF Spend, Exchange, Denied, Lookup, FindUnlinked, AdoptProfile, LinkAccount, InsertUser, OpenSession,
                  Crash, stateVars
    <3>2. /\ cb'[t].pc # "insert" /\ \A u \in Threads \ {t} : cb'[u] = cb[u]
      <4> DEFINE Moved == \/ \E pc \in {"exchange", "lookup", "unlinked", "admit", "link", "session"} : Goto(t, pc)
                          \/ \E pc \in {"session", "profile"}, v \in Ids : Account(t, pc, v)
                          \/ End(t)
      <4>1. Spend(t) \/ Exchange(t) \/ Denied(t) \/ OpenSession(t) \/ Crash(t) => Moved
        BY DEF Spend, Exchange, Denied, OpenSession, Crash
      <4>2. Lookup(t) => Moved
        <5>1. AccountsOf(Who(t)) \subseteq Ids
          BY SignInAssumption DEF AccountsOf, SignInv, TypeOK, Ids, SignInAssumption
        <5>2. (IF Who(t) = Owner THEN "unlinked" ELSE "admit") \in {"unlinked", "admit"}
          OBVIOUS
        <5>3. QED
          BY <5>1, <5>2 DEF Lookup
      <4>3. FindUnlinked(t) => Moved
        BY SignInAssumption DEF FindUnlinked, AccountsOf, Unlinked, SignInv, TypeOK, Ids, SignInAssumption
      <4>4. AdoptProfile(t) \/ LinkAccount(t) \/ InsertUser(t) => Moved
        BY DEF AdoptProfile, LinkAccount, InsertUser
      <4>5. Moved => cb'[t].pc # "insert" /\ \A u \in Threads \ {t} : cb'[u] = cb[u]
        <5>1. cb \in [Threads -> Serving] /\ cb[t] \in Serving
          BY <1>0
        <5>2. ASSUME NEW pc, pc # "insert", Goto(t, pc) PROVE cb'[t].pc # "insert" /\ \A u \in Threads \ {t} : cb'[u] = cb[u]
          BY <5>1, <5>2 DEF Goto, Serving
        <5>3. ASSUME NEW pc, NEW v, pc # "insert", Account(t, pc, v)
              PROVE  cb'[t].pc # "insert" /\ \A u \in Threads \ {t} : cb'[u] = cb[u]
          BY <5>1, <5>3 DEF Account, Serving
        <5>4. ASSUME End(t) PROVE cb'[t].pc # "insert" /\ \A u \in Threads \ {t} : cb'[u] = cb[u]
          BY <5>1, <5>4 DEF End, Idle
        <5>5. QED
          BY <5>2, <5>3, <5>4
      <4>6. QED
        BY <2>3, <4>1, <4>2, <4>3, <4>4, <4>5
    <3>3. QED
      BY <1>1, <3>1, <3>2
  <2>4. QED
    BY <1>3, <2>1, <2>2, <2>3 DEF Serve, Resolve
<1>4. CASE UNCHANGED <<cb, begun, overlapped>> /\ Users' \subseteq Users
  <2>1. Cardinality(Users') <= Cardinality(Users) /\ Cardinality(Users') \in Nat
    BY <1>0, <1>4, FS_Subset, FS_CardinalityType
  <2>2. QED
    BY <1>0, <1>4, <2>1 DEF Seats, Who
<1>5. ASSUME NEW s \in sessions, Touch(s) \/ SignOut(s) \/ DeleteAccount(s) PROVE Seats'
  BY <1>4, <1>5 DEF Touch, SignOut, DeleteAccount, stateVars, Users
<1>6. CASE (\E expired \in SUBSET states : Purge(expired)) \/ Clock \/ UNCHANGED vars
  BY <1>4, <1>6 DEF Purge, Clock, vars, accountVars, stateVars, Users
<1>7. QED
  BY <1>2, <1>3, <1>5, <1>6 DEF Next

\* RAGRA_MAX_USERS bounds open sign-up as long as callbacks do not overlap,
\* for any number of people and threads (resolve_user).
THEOREM NotOverfullHolds == Spec => NotOverfull
<1> DEFINE A == \A u \in DOMAIN sub' \ Users :
                   ~overlapped' /\ sub'[u] \in Others => Cardinality(DOMAIN sub') <= MaxUsers
<1>1. Init => Seats
  BY DEF Init, Seats, Idle
<1>2. SignInv /\ Seats /\ [Next]_vars => [A]_vars
  <2> SUFFICES ASSUME SignInv, Seats, [Next]_vars, NEW u \in DOMAIN sub' \ Users, ~overlapped', sub'[u] \in Others
               PROVE  Cardinality(DOMAIN sub') <= MaxUsers
    OBVIOUS
  <2>1. PICK t \in Threads : InsertUser(t)
    BY DEF Next, Serve, Resolve, Begin, Callback, Spend, Exchange, Denied, Lookup, FindUnlinked, AdoptProfile,
           LinkAccount, Admit, OpenSession, Crash, Touch, SignOut, DeleteAccount, Purge, Clock, accountVars, vars, Users
  <2>2. /\ ~overlapped /\ cb[t].pc = "insert" /\ DOMAIN sub' = Users \cup {nextId} /\ sub'[u] = Who(t)
        /\ nextId \notin Users
    BY <2>1, SignInAssumption DEF InsertUser, SignInv, TypeOK, SignInAssumption, Users
  <2>3. Cardinality(Users) < MaxUsers /\ IsFiniteSet(Users) /\ Cardinality(Users) \in Nat /\ MaxUsers \in Nat
    BY <2>2, Finite, SignInAssumption DEF Seats, SignInAssumption
  <2>4. Cardinality(Users \cup {nextId}) = Cardinality(Users) + 1
    BY <2>2, <2>3, FS_AddElement
  <2>5. QED
    BY <2>2, <2>3, <2>4
<1>3. QED
  BY <1>1, <1>2, SeatsStep, SignInvAlways, PTL DEF Spec, NotOverfull

\* A session ends at its two expiries whatever it is used for: only a live one
\* is touched, and a touch does not move its beginning (lookup_session).
THEOREM SessionsEndHolds == Spec => SessionsEnd
<1> DEFINE A == \A s \in sessions' : s \notin sessions =>
                  \/ \E r \in sessions : r.user = s.user /\ r.made = s.made /\ ~Dead(r)
                  \/ \E t \in Threads : cb[t].pc = "session" /\ cb'[t].pc = "idle"
<1>1. SignInv /\ [Next]_vars => [A]_vars
  <2> SUFFICES ASSUME SignInv, [Next]_vars, NEW s \in sessions', s \notin sessions
               PROVE  \/ \E r \in sessions : r.user = s.user /\ r.made = s.made /\ ~Dead(r)
                      \/ \E t \in Threads : cb[t].pc = "session" /\ cb'[t].pc = "idle"
    OBVIOUS
  <2>1. (\E r \in sessions : Touch(r)) \/ \E t \in Threads : OpenSession(t)
    BY DEF Next, Serve, Resolve, Begin, Callback, Spend, Exchange, Denied, Lookup, FindUnlinked, AdoptProfile,
           LinkAccount, Admit, InsertUser, Crash, SignOut, DeleteAccount, Purge, Clock, accountVars, vars
  <2>2. ASSUME NEW r \in sessions, Touch(r) PROVE r.user = s.user /\ r.made = s.made /\ ~Dead(r)
    <3>1. r \in Row
      BY DEF SignInv, TypeOK
    <3>2. s = [r EXCEPT !.seen = now] /\ ~Dead(r)
      BY <2>2 DEF Touch
    <3>3. QED
      BY <3>1, <3>2 DEF Row
  <2>3. ASSUME NEW t \in Threads, OpenSession(t) PROVE cb[t].pc = "session" /\ cb'[t].pc = "idle"
    BY <2>3 DEF OpenSession, End, Idle, SignInv, TypeOK
  <2>4. QED
    BY <2>1, <2>2, <2>3
<1>2. QED
  BY <1>1, SignInvAlways, PTL DEF Spec, SessionsEnd
=============================================================================
