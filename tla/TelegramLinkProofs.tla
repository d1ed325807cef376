------------------------- MODULE TelegramLinkProofs -------------------------
(***************************************************************************)
(* Proofs about TelegramLink, for any accounts, chats, background tasks    *)
(* and number of codes.                                                    *)
(***************************************************************************)
EXTENDS TelegramLink, TLAPS

LEMMA TypeInit == Init => TypeOK
<1> SUFFICES ASSUME Init PROVE TypeOK
  OBVIOUS
<1>1. DOMAIN codes = {} /\ codes \in [DOMAIN codes -> Accounts]
  BY DEF Init
<1>2. Off \in Row
  BY DEF Off, Row
<1>3. prefs \in [Accounts -> Row] /\ \A u \in Accounts : prefs[u].on => prefs[u].chat # NoChat
  BY <1>2 DEF Init, Off
<1>4. form \in [Accounts -> [pc : {"idle", "save", "welcome"}, before : Row, after : Row]]
  BY <1>2 DEF Init, NoForm
<1>5. /\ bot \in [Tasks -> [pc : {"idle", "spend", "connect"}, code : 0..MaxCode,
                          chat : Chats \cup {NoChat}, account : SUBSET Accounts]]
      /\ \A t \in Tasks : (bot[t].pc = "idle") = (bot[t].chat = NoChat)
  BY TelegramAssumption DEF Init, Waiting, TelegramAssumption
<1>6. minted \in 0..MaxCode /\ latest \in [Accounts -> 0..MaxCode]
  BY TelegramAssumption DEF Init, TelegramAssumption
<1>7. /\ expired \subseteq 1..minted /\ pass \in [Accounts -> Chats \cup {NoChat}]
      /\ holder \in [Chats -> SUBSET Accounts] /\ linked \in [Accounts -> SUBSET Chats]
      /\ sent \subseteq Accounts \X Chats /\ overlapped \in BOOLEAN
  BY DEF Init
<1>8. QED
  BY <1>1, <1>3, <1>4, <1>5, <1>6, <1>7 DEF TypeOK

\* Every action preserves the type invariant, in any interleaving.
LEMMA TypeStep == TypeOK /\ [Next]_vars => TypeOK'
<1> SUFFICES ASSUME TypeOK, [Next]_vars PROVE TypeOK'
  OBVIOUS
<1> USE TelegramAssumption DEF TypeOK, TelegramAssumption, Row, historyVars
<1>1. ASSUME NEW u \in Accounts, CreateCode(u) PROVE TypeOK'
  BY <1>1 DEF CreateCode, CodesOf, Begins
<1>2. ASSUME NEW u \in Accounts, Disconnect(u) PROVE TypeOK'
  BY <1>2 DEF Disconnect, Off, Begins
<1>3. ASSUME NEW u \in Accounts, ReadForm(u) PROVE TypeOK'
  BY <1>3 DEF ReadForm, Off, Begins
<1>4. ASSUME NEW u \in Accounts, NEW switch \in BOOLEAN, SaveForm(u, switch) PROVE TypeOK'
  <2> DEFINE chat == form[u].before.chat
             row  == [on |-> switch /\ chat # NoChat, chat |-> chat]
  <2>1. row \in Row /\ (row.on => row.chat # NoChat)
    OBVIOUS
  <2>2. prefs' = [prefs EXCEPT ![u] = row]
    BY <1>4 DEF SaveForm
  <2>3. form' = [form EXCEPT ![u] = [form[u] EXCEPT !.pc = "welcome", !.after = row]]
    BY <1>4 DEF SaveForm
  <2> HIDE DEF row
  <2>4. prefs' \in [Accounts -> Row] /\ \A v \in Accounts : prefs'[v].on => prefs'[v].chat # NoChat
    BY <2>1, <2>2
  <2>5. form' \in [Accounts -> [pc : {"idle", "save", "welcome"}, before : Row, after : Row]]
    <3>1. form[u] \in [pc : {"idle", "save", "welcome"}, before : Row, after : Row]
      OBVIOUS
    <3> HIDE DEF Row
    <3>2. [form[u] EXCEPT !.pc = "welcome", !.after = row] \in
             [pc : {"idle", "save", "welcome"}, before : Row, after : Row]
      BY <2>1, <3>1
    <3>3. QED
      BY <2>3, <3>2
  <2>6. UNCHANGED <<codes, minted, expired, bot, pass, latest, holder, linked, sent, overlapped>>
    BY <1>4 DEF SaveForm
  <2>7. QED
    BY <2>4, <2>5, <2>6
<1>5. ASSUME NEW u \in Accounts, Welcome(u) PROVE TypeOK'
  BY <1>5 DEF Welcome, NoForm, Off
<1>6. ASSUME NEW u \in Accounts, BeginPass(u) \/ Send(u) \/ EndPass(u) PROVE TypeOK'
  <2>1. CASE BeginPass(u)
    BY <2>1 DEF BeginPass
  <2>2. CASE Send(u)
    BY <2>2 DEF Send
  <2>3. CASE EndPass(u)
    BY <2>3 DEF EndPass
  <2>4. QED
    BY <1>6, <2>1, <2>2, <2>3
<1>7. ASSUME NEW c \in 1..MaxCode, Expire(c) PROVE TypeOK'
  BY <1>7 DEF Expire
<1>8. ASSUME NEW c \in 1..MaxCode, NEW t \in Tasks, NEW chat \in Chats, ReadCode(t, chat, c) PROVE TypeOK'
  BY <1>8 DEF ReadCode, Begins
<1>9. ASSUME NEW t \in Tasks, SpendCode(t) PROVE TypeOK'
  <2>1. codes' = [c \in DOMAIN codes \ {bot[t].code} |-> codes[c]]
    BY <1>9 DEF SpendCode, Restricted
  <2>2. DOMAIN codes' \subseteq DOMAIN codes /\ \A c \in DOMAIN codes' : codes'[c] = codes[c]
    BY <2>1
  <2>3. codes' \in [DOMAIN codes' -> Accounts]
    BY <2>1
  <2> DEFINE next == IF bot[t].code \in expired THEN Waiting ELSE [bot[t] EXCEPT !.pc = "connect"]
  <2>4. bot' \in [Tasks -> [pc : {"idle", "spend", "connect"}, code : 0..MaxCode,
                           chat : Chats \cup {NoChat}, account : SUBSET Accounts]]
    <3>1. next \in [pc : {"idle", "spend", "connect"}, code : 0..MaxCode,
                   chat : Chats \cup {NoChat}, account : SUBSET Accounts]
      BY DEF Waiting
    <3>2. bot' = [bot EXCEPT ![t] = next]
      BY <1>9 DEF SpendCode
    <3> HIDE DEF next
    <3>3. QED
      BY <3>1, <3>2
  <2>5. \A s \in Tasks : (bot'[s].pc = "idle") = (bot'[s].chat = NoChat)
    BY <1>9 DEF SpendCode, Waiting
  <2>6. UNCHANGED <<prefs, minted, expired, form, pass, latest, holder, linked, sent, overlapped>>
    BY <1>9 DEF SpendCode
  <2>7. QED
    BY <2>2, <2>3, <2>4, <2>5, <2>6
<1>10. ASSUME NEW t \in Tasks, Connect(t) PROVE TypeOK'
  BY <1>10 DEF Connect, Off, Waiting
<1>11. ASSUME NEW t \in Tasks, Lose(t) PROVE TypeOK'
  BY <1>11 DEF Lose, Waiting
<1>12. CASE UNCHANGED vars
  BY <1>12 DEF vars
<1>13. QED
  BY <1>1, <1>2, <1>3, <1>4, <1>5, <1>6, <1>7, <1>8, <1>9, <1>10, <1>11, <1>12 DEF Next

\* The channel's rows, codes, tasks and forms always have their shape: one code
\* per account, and no channel that is on without a chat.
THEOREM TypeCorrect == Spec => []TypeOK
BY TypeInit, TypeStep, PTL DEF Spec

-----------------------------------------------------------------------------
(* Where alerts go.                                                        *)

\* What a row, a form and a pass hold are chats the account has linked.
ChatsLinked ==
    \A u \in Accounts :
        /\ prefs[u].chat \in linked[u] \cup {NoChat}
        /\ form[u].before.chat \in linked[u] \cup {NoChat}
        /\ pass[u] \in linked[u] \cup {NoChat}

SentInv == TypeOK /\ ChatsLinked /\ SentToLinked

LEMMA SentInit == Init => ChatsLinked /\ SentToLinked
BY DEF Init, ChatsLinked, SentToLinked, Off, NoForm

\* Every action keeps them linked, whatever overlaps.
LEMMA SentStep == SentInv /\ [Next]_vars => ChatsLinked' /\ SentToLinked'
<1> SUFFICES ASSUME SentInv, [Next]_vars PROVE ChatsLinked' /\ SentToLinked'
  OBVIOUS
<1> USE TelegramAssumption DEF SentInv, TypeOK, TelegramAssumption, ChatsLinked, SentToLinked, historyVars
<1>1. ASSUME NEW u \in Accounts, CreateCode(u) \/ Disconnect(u) PROVE ChatsLinked' /\ SentToLinked'
  BY <1>1 DEF CreateCode, Disconnect, Off
<1>2. ASSUME NEW u \in Accounts, ReadForm(u) PROVE ChatsLinked' /\ SentToLinked'
  BY <1>2 DEF ReadForm, Off
<1>3. ASSUME NEW u \in Accounts, NEW switch \in BOOLEAN, SaveForm(u, switch)
      PROVE  ChatsLinked' /\ SentToLinked'
  BY <1>3 DEF SaveForm
<1>4. ASSUME NEW u \in Accounts, Welcome(u) PROVE ChatsLinked' /\ SentToLinked'
  BY <1>4 DEF Welcome, NoForm, Off
<1>5. ASSUME NEW u \in Accounts, BeginPass(u) PROVE ChatsLinked' /\ SentToLinked'
  BY <1>5 DEF BeginPass
<1>6. ASSUME NEW u \in Accounts, Send(u) PROVE ChatsLinked' /\ SentToLinked'
  BY <1>6 DEF Send
<1>7. ASSUME NEW u \in Accounts, EndPass(u) PROVE ChatsLinked' /\ SentToLinked'
  BY <1>7 DEF EndPass
<1>8. ASSUME NEW t \in Tasks, Connect(t) PROVE ChatsLinked' /\ SentToLinked'
  BY <1>8 DEF Connect, Off
<1>9. CASE UNCHANGED <<prefs, form, pass, linked, sent>>
  BY <1>9
<1>10. QED
  BY <1>1, <1>2, <1>3, <1>4, <1>5, <1>6, <1>7, <1>8, <1>9
     DEF Next, Expire, ReadCode, SpendCode, Lose, vars

\* An account's alerts only ever go to a chat that account has itself linked,
\* for any interleaving of forms, handshakes, disconnects and passes.
THEOREM SentToLinkedHolds == Spec => []SentToLinked
<1>1. Init => SentInv
  BY TypeInit, SentInit DEF SentInv
<1>2. SentInv /\ [Next]_vars => SentInv'
  BY TypeStep, SentStep DEF SentInv
<1>3. SentInv => SentToLinked
  BY DEF SentInv
<1>4. QED
  BY <1>1, <1>2, <1>3, PTL DEF Spec

-----------------------------------------------------------------------------
(* One request at a time.                                                  *)

\* While nothing has overlapped, one request at most is being served,
\* accounts hold what they linked last, a form has read the row there is, and
\* a handshake carries the last code of its account.
Alone ==
    /\ \A u, v \in Accounts : form[u].pc # "idle" /\ form[v].pc # "idle" => u = v
    /\ \A s, t \in Tasks : bot[s].pc # "idle" /\ bot[t].pc # "idle" => s = t
    /\ \A u \in Accounts, t \in Tasks : form[u].pc = "idle" \/ bot[t].pc = "idle"

Held ==
    \A u \in Accounts :
        /\ prefs[u].chat # NoChat => u \in holder[prefs[u].chat]
        /\ form[u].pc = "save" => form[u].before = prefs[u]

Current ==
    \A t \in Tasks : bot[t].pc # "idle" => \A u \in bot[t].account : latest[u] = bot[t].code

\* Codes are current whatever overlaps.
OnlyLatest == \A c \in DOMAIN codes : latest[codes[c]] = c

LinkInv == TypeOK /\ OnlyLatest /\ (~overlapped => Alone /\ Held /\ Current)

LEMMA LinkInit == Init => LinkInv
<1> SUFFICES ASSUME Init PROVE LinkInv
  OBVIOUS
<1>1. Alone /\ Held /\ Current
  BY DEF Init, Alone, Held, Current, NoForm, Off, Waiting
<1>2. OnlyLatest
  BY DEF Init, OnlyLatest
<1>3. QED
  BY <1>1, <1>2, TypeInit DEF LinkInv

\* A new code is the latest of its account, and the older ones go.
LEMMA LatestStep == TypeOK /\ OnlyLatest /\ [Next]_vars => OnlyLatest'
<1> SUFFICES ASSUME TypeOK, OnlyLatest, [Next]_vars PROVE OnlyLatest'
  OBVIOUS
<1> USE TelegramAssumption DEF TypeOK, TelegramAssumption, OnlyLatest, historyVars
<1>1. ASSUME NEW u \in Accounts, CreateCode(u) PROVE OnlyLatest'
  BY <1>1 DEF CreateCode, CodesOf
<1>2. ASSUME NEW t \in Tasks, SpendCode(t) PROVE OnlyLatest'
  BY <1>2 DEF SpendCode, Restricted
<1>3. CASE UNCHANGED <<codes, latest>>
  BY <1>3
<1>4. QED
  BY <1>1, <1>2, <1>3
     DEF Next, Disconnect, ReadForm, SaveForm, Welcome, BeginPass, Send, EndPass,
         Expire, ReadCode, Connect, Lose, vars

\* One step of a run in which nothing has overlapped yet.
LEMMA LinkStep == LinkInv /\ [Next]_vars /\ ~overlapped' => Alone' /\ Held' /\ Current'
<1> SUFFICES ASSUME LinkInv, [Next]_vars, ~overlapped' PROVE Alone' /\ Held' /\ Current'
  OBVIOUS
<1> USE TelegramAssumption DEF TypeOK, TelegramAssumption, historyVars
<1>0. ~overlapped /\ TypeOK /\ OnlyLatest /\ Alone /\ Held /\ Current
  BY DEF LinkInv, Next, CreateCode, Disconnect, ReadForm, SaveForm, Welcome, BeginPass, Send, EndPass,
         Expire, ReadCode, SpendCode, Connect, Lose, Begins, vars
<1>1. ASSUME NEW u \in Accounts, CreateCode(u) PROVE Alone' /\ Held' /\ Current'
  <2>1. ~Busy
    BY <1>0, <1>1 DEF CreateCode, Begins
  <2>2. QED
    BY <1>0, <1>1, <2>1 DEF CreateCode, Busy, Alone, Held, Current
<1>2. ASSUME NEW u \in Accounts, Disconnect(u) PROVE Alone' /\ Held' /\ Current'
  <2>1. ~Busy
    BY <1>0, <1>2 DEF Disconnect, Begins
  <2>2. Alone' /\ Current'
    BY <1>0, <1>2, <2>1 DEF Disconnect, Busy, Alone, Current
  <2>3. ASSUME NEW v \in Accounts
        PROVE  /\ prefs'[v].chat # NoChat => v \in holder'[prefs'[v].chat]
               /\ form'[v].pc = "save" => form'[v].before = prefs'[v]
    <3>1. form'[v].pc = "idle"
      BY <1>2, <2>1 DEF Disconnect, Busy
    <3>2. CASE v = u
      BY <1>0, <1>2, <3>1, <3>2 DEF Disconnect, Off
    <3>3. CASE v # u
      <4>1. prefs'[v] = prefs[v] /\ prefs[v].chat \in Chats \cup {NoChat}
        BY <1>0, <1>2, <3>3 DEF Disconnect, Row
      <4>2. prefs[v].chat # NoChat => holder'[prefs[v].chat] = holder[prefs[v].chat] \ {u}
        BY <1>2, <4>1 DEF Disconnect
      <4>3. QED
        BY <1>0, <3>1, <3>3, <4>1, <4>2 DEF Held
    <3>4. QED
      BY <3>2, <3>3
  <2>4. QED
    BY <2>2, <2>3 DEF Held
<1>3. ASSUME NEW u \in Accounts, ReadForm(u) PROVE Alone' /\ Held' /\ Current'
  <2>1. ~Busy
    BY <1>0, <1>3 DEF ReadForm, Begins
  <2>2. QED
    BY <1>0, <1>3, <2>1 DEF ReadForm, Busy, Alone, Held, Current
<1>4. ASSUME NEW u \in Accounts, NEW switch \in BOOLEAN, SaveForm(u, switch)
      PROVE  Alone' /\ Held' /\ Current'
  <2>1. /\ form[u].pc = "save" /\ form[u].before = prefs[u]
        /\ form'[u].pc = "welcome" /\ \A v \in Accounts \ {u} : form'[v] = form[v]
        /\ prefs'[u].chat = prefs[u].chat /\ \A v \in Accounts \ {u} : prefs'[v] = prefs[v]
        /\ UNCHANGED <<bot, holder, latest>>
    BY <1>0, <1>4 DEF SaveForm, Held
  <2>2. Alone' /\ Current'
    BY <1>0, <2>1 DEF Alone, Current
  <2>3. ASSUME NEW v \in Accounts
        PROVE  /\ prefs'[v].chat # NoChat => v \in holder'[prefs'[v].chat]
               /\ form'[v].pc = "save" => form'[v].before = prefs'[v]
    <3>1. prefs'[v].chat = prefs[v].chat /\ holder' = holder
      BY <2>1
    <3>2. CASE v = u
      BY <1>0, <2>1, <3>1, <3>2 DEF Held
    <3>3. CASE v # u
      BY <1>0, <2>1, <3>1, <3>3 DEF Held
    <3>4. QED
      BY <3>2, <3>3
  <2>4. QED
    BY <2>2, <2>3 DEF Held
<1>5. ASSUME NEW u \in Accounts, Welcome(u) PROVE Alone' /\ Held' /\ Current'
  BY <1>0, <1>5 DEF Welcome, NoForm, Alone, Held, Current
<1>6. ASSUME NEW t \in Tasks, NEW chat \in Chats, NEW c \in 1..MaxCode, ReadCode(t, chat, c)
      PROVE  Alone' /\ Held' /\ Current'
  <2>1. ~Busy
    BY <1>0, <1>6 DEF ReadCode, Begins
  <2>2. QED
    BY <1>0, <1>6, <2>1 DEF ReadCode, Busy, Alone, Held, Current, OnlyLatest
<1>7. ASSUME NEW t \in Tasks, SpendCode(t) PROVE Alone' /\ Held' /\ Current'
  BY <1>0, <1>7 DEF SpendCode, Waiting, Alone, Held, Current
<1>8. ASSUME NEW t \in Tasks, Connect(t) PROVE Alone' /\ Held' /\ Current'
  <2>1. bot[t].chat \in Chats /\ \A u \in Accounts : form[u].pc = "idle"
    BY <1>0, <1>8 DEF Connect, Alone
  <2>2. Held'
    BY <1>0, <1>8, <2>1 DEF Connect, Off, Held
  <2>3. Alone' /\ Current'
    BY <1>0, <1>8 DEF Connect, Waiting, Alone, Current
  <2>4. QED
    BY <2>2, <2>3
<1>9. ASSUME NEW t \in Tasks, Lose(t) PROVE Alone' /\ Held' /\ Current'
  BY <1>0, <1>9 DEF Lose, Waiting, Alone, Held, Current
<1>10. CASE UNCHANGED <<prefs, form, bot, latest, holder>>
  BY <1>0, <1>10 DEF Alone, Held, Current
<1>11. QED
  BY <1>1, <1>2, <1>3, <1>4, <1>5, <1>6, <1>7, <1>8, <1>9, <1>10
     DEF Next, BeginPass, Send, EndPass, Expire, vars

LEMMA LinkInvHolds == Spec => []LinkInv
<1>1. LinkInv /\ [Next]_vars => LinkInv'
  BY TypeStep, LatestStep, LinkStep DEF LinkInv
<1>2. QED
  BY <1>1, LinkInit, PTL DEF Spec

\* As long as requests do not overlap, the account whose row holds a chat was the
\* last to link it and has not disconnected it.
THEOREM AsLinkedHolds == Spec => []AsLinked
<1>1. LinkInv => AsLinked
  BY DEF LinkInv, Held, AsLinked
<1>2. QED
  BY <1>1, LinkInvHolds, PTL

\* As long as requests do not overlap, a row only gets a chat from a handshake
\* with the last code made for the account.
THEOREM LatestOnlyHolds == Spec => LatestOnly
<1> DEFINE ByLatest ==
      \A u \in Accounts :
          ~overlapped' /\ prefs'[u].chat \notin {NoChat, prefs[u].chat} =>
              \E t \in Tasks : bot[t].pc = "connect" /\ u \in bot[t].account /\ bot[t].code = latest[u]
<1>1. LinkInv /\ [Next]_vars => [ByLatest]_vars
  <2> SUFFICES ASSUME LinkInv, Next PROVE ByLatest
    BY DEF vars
  <2> USE DEF TypeOK, historyVars
  <2>1. ~overlapped' => ~overlapped
    BY DEF Next, CreateCode, Disconnect, ReadForm, SaveForm, Welcome, BeginPass, Send, EndPass,
           Expire, ReadCode, SpendCode, Connect, Lose, Begins
  <2>2. ASSUME NEW u \in Accounts, Disconnect(u) PROVE ByLatest
    BY <2>2 DEF Disconnect, Off, LinkInv
  <2>3. ASSUME NEW u \in Accounts, NEW switch \in BOOLEAN, SaveForm(u, switch) PROVE ByLatest
    BY <2>1, <2>3 DEF SaveForm, LinkInv, Held
  <2>4. ASSUME NEW t \in Tasks, Connect(t) PROVE ByLatest
    BY <2>1, <2>4 DEF Connect, Off, LinkInv, Current
  <2>5. CASE prefs' = prefs
    BY <2>5
  <2>6. QED
    BY <2>2, <2>3, <2>4, <2>5
       DEF Next, CreateCode, ReadForm, Welcome, BeginPass, Send, EndPass, Expire, ReadCode, SpendCode, Lose
<1>2. QED
  BY <1>1, LinkInvHolds, PTL DEF Spec, LatestOnly
=============================================================================
