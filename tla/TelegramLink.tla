----------------------------- MODULE TelegramLink -----------------------------
(***************************************************************************)
(* The Telegram channel: the handshake that ties a chat to an account      *)
(* (ragra/web/telegram.py, ragra/db/repo.py), the notification form that   *)
(* writes the same row (ragra/web/app.py) and the pass that sends to the   *)
(* chat it has read (ragra/notifications/preferences.py).  Requests and    *)
(* the bot's background tasks run on a thread pool; every read and every   *)
(* commit is a step.  The other channels share no destination between      *)
(* accounts and are left out.                                              *)
(***************************************************************************)
EXTENDS Naturals, FiniteSets

CONSTANTS
    Accounts, Chats, NoChat,
    Tasks,       \* background tasks of the bot that may run at once
    MaxCode      \* bound on link codes ever minted

ASSUME TelegramAssumption == NoChat \notin Chats /\ MaxCode \in Nat

VARIABLES
    prefs,      \* notification_preferences: telegram_enabled and telegram_chat_id
    codes,      \* telegram_link_codes: code -> account
    minted,     \* how many codes there have been; a code is its number
    expired,    \* codes older than _TELEGRAM_CODE_TTL
    form,       \* the notification form an account is saving
    bot,        \* the "/start <code>" each background task answers
    pass,       \* the chat the account's provider holds during its pass
    latest,     \* the last code minted for an account (history)
    holder,     \* chat -> the accounts that linked it last and still have it (history)
    linked,     \* account -> every chat it ever linked (history)
    sent,       \* <<account, chat>> of everything sent (history)
    overlapped  \* whether a request began while another was served (history)

vars == <<prefs, codes, minted, expired, form, bot, pass, latest, holder, linked, sent, overlapped>>
historyVars == <<latest, holder, linked>>

Off == [on |-> FALSE, chat |-> NoChat]
NoForm == [pc |-> "idle", before |-> Off, after |-> Off]
Waiting == [pc |-> "idle", code |-> 0, chat |-> NoChat, account |-> {}]
CodesOf(u) == { c \in DOMAIN codes : codes[c] = u }
Busy == (\E u \in Accounts : form[u].pc # "idle") \/ (\E t \in Tasks : bot[t].pc # "idle")
Begins == overlapped' = (overlapped \/ Busy)
Restricted(f, S) == [x \in S |-> f[x]]

Init ==
    /\ prefs = [u \in Accounts |-> Off]
    /\ codes = [c \in {} |-> 0] /\ minted = 0 /\ expired = {}
    /\ form = [u \in Accounts |-> NoForm] /\ bot = [t \in Tasks |-> Waiting]
    /\ pass = [u \in Accounts |-> NoChat]
    /\ latest = [u \in Accounts |-> 0] /\ holder = [c \in Chats |-> {}]
    /\ linked = [u \in Accounts |-> {}] /\ sent = {}
    /\ overlapped = FALSE

------------------------------------------------------------------------------
(* The link code.                                                          *)

\* Regression: older codes keep working.
CreateAnotherCode(u) ==
    /\ Begins /\ minted < MaxCode
    /\ minted' = minted + 1
    /\ codes' = [c \in DOMAIN codes \cup {minted'} |-> IF c = minted' THEN u ELSE codes[c]]
    /\ latest' = [latest EXCEPT ![u] = minted']
    /\ UNCHANGED <<prefs, expired, form, bot, pass, holder, linked, sent>>

\* "Connect Telegram": the older codes go and one is made, in one commit.
CreateCode(u) ==
    /\ Begins /\ minted < MaxCode
    /\ minted' = minted + 1
    /\ codes' = [c \in (DOMAIN codes \ CodesOf(u)) \cup {minted'} |->
                    IF c = minted' THEN u ELSE codes[c]]
    /\ latest' = [latest EXCEPT ![u] = minted']
    /\ UNCHANGED <<prefs, expired, form, bot, pass, holder, linked, sent>>

Expire(c) ==
    /\ c \in DOMAIN codes \ expired
    /\ expired' = expired \cup {c}
    /\ UNCHANGED <<prefs, codes, minted, form, bot, pass, historyVars, sent, overlapped>>

\* consume_telegram_link_code, its SELECT: the chat sends a code it was given.
ReadCode(t, chat, code) ==
    /\ bot[t].pc = "idle" /\ Begins /\ code \in 1..minted
    /\ bot' = IF code \in DOMAIN codes
              THEN [bot EXCEPT ![t] = [pc |-> "spend", code |-> code, chat |-> chat,
                                       account |-> {codes[code]}]]
              ELSE bot
    /\ UNCHANGED <<prefs, codes, minted, expired, form, pass, historyVars, sent>>

\* Its DELETE, whose row count is not looked at, and then its age.
SpendCode(t) ==
    LET code == bot[t].code
    IN  /\ bot[t].pc = "spend"
        /\ codes' = Restricted(codes, DOMAIN codes \ {code})
        /\ bot' = [bot EXCEPT ![t] = IF code \in expired THEN Waiting ELSE [@ EXCEPT !.pc = "connect"]]
        /\ UNCHANGED <<prefs, minted, expired, form, pass, historyVars, sent, overlapped>>

\* Regression: nobody is released.
ConnectOnly(t) ==
    LET chat == bot[t].chat
    IN  /\ bot[t].pc = "connect"
        /\ prefs' = [u \in Accounts |->
              IF u \in bot[t].account THEN [on |-> TRUE, chat |-> chat] ELSE prefs[u]]
        /\ bot' = [bot EXCEPT ![t] = Waiting]
        /\ holder' = [holder EXCEPT ![chat] = bot[t].account]
        /\ linked' = [u \in Accounts |->
              IF u \in bot[t].account THEN linked[u] \cup {chat} ELSE linked[u]]
        /\ UNCHANGED <<codes, minted, expired, form, pass, latest, sent, overlapped>>

\* connect_telegram_chat: any other account with the chat is released, and
\* this one gets it, in one commit.
Connect(t) ==
    LET chat == bot[t].chat
    IN  /\ bot[t].pc = "connect"
        /\ prefs' = [u \in Accounts |->
              IF u \in bot[t].account THEN [on |-> TRUE, chat |-> chat]
              ELSE IF prefs[u].chat = chat THEN Off ELSE prefs[u]]
        /\ bot' = [bot EXCEPT ![t] = Waiting]
        /\ holder' = [holder EXCEPT ![chat] = bot[t].account]
        /\ linked' = [u \in Accounts |->
              IF u \in bot[t].account THEN linked[u] \cup {chat} ELSE linked[u]]
        /\ UNCHANGED <<codes, minted, expired, form, pass, latest, sent, overlapped>>

\* The background task dies with its process; the code may be spent already.
Lose(t) ==
    /\ bot[t].pc # "idle" /\ bot' = [bot EXCEPT ![t] = Waiting]
    /\ UNCHANGED <<prefs, codes, minted, expired, form, pass, historyVars, sent, overlapped>>

Disconnect(u) ==
    /\ Begins /\ prefs[u] # Off
    /\ prefs' = [prefs EXCEPT ![u] = Off]
    /\ holder' = [c \in Chats |-> holder[c] \ {u}]
    /\ UNCHANGED <<codes, minted, expired, form, bot, pass, latest, linked, sent>>

------------------------------------------------------------------------------
(* The notification form: the switch comes from the page, the chat from    *)
(* the row it read.                                                        *)

ReadForm(u) ==
    /\ form[u].pc = "idle" /\ Begins
    /\ form' = [form EXCEPT ![u] = [pc |-> "save", before |-> prefs[u], after |-> Off]]
    /\ UNCHANGED <<prefs, codes, minted, expired, bot, pass, historyVars, sent>>

\* Regression: the chat is whatever the page sends.
SaveFormChat(u, switch) ==
    \E chat \in Chats :
       /\ form[u].pc = "save"
       /\ prefs' = [prefs EXCEPT ![u] = [on |-> switch, chat |-> chat]]
       /\ form' = [form EXCEPT ![u] = [@ EXCEPT !.pc = "welcome", !.after = prefs'[u]]]
       /\ UNCHANGED <<codes, minted, expired, bot, pass, historyVars, sent, overlapped>>

SaveForm(u, switch) ==
    LET chat == form[u].before.chat
        row  == [on |-> switch /\ chat # NoChat, chat |-> chat]
    IN  /\ form[u].pc = "save"
        /\ prefs' = [prefs EXCEPT ![u] = row]
        /\ form' = [form EXCEPT ![u] = [@ EXCEPT !.pc = "welcome", !.after = row]]
        /\ UNCHANGED <<codes, minted, expired, bot, pass, historyVars, sent, overlapped>>

\* channels_needing_welcome compares what was read with what was saved;
\* welcome_providers reads the row again.
Welcome(u) ==
    LET wanted == form[u].after.on /\ ~form[u].before.on
    IN  /\ form[u].pc = "welcome"
        /\ form' = [form EXCEPT ![u] = NoForm]
        /\ sent' = IF wanted /\ prefs[u].on THEN sent \cup {<<u, prefs[u].chat>>} ELSE sent
        /\ UNCHANGED <<prefs, codes, minted, expired, bot, pass, historyVars, overlapped>>

------------------------------------------------------------------------------
(* A pass builds the provider once and sends through it until it ends.     *)

BeginPass(u) ==
    /\ pass[u] = NoChat /\ prefs[u].on
    /\ pass' = [pass EXCEPT ![u] = prefs[u].chat]
    /\ UNCHANGED <<prefs, codes, minted, expired, form, bot, historyVars, sent, overlapped>>

Send(u) ==
    /\ pass[u] # NoChat
    /\ sent' = sent \cup {<<u, pass[u]>>}
    /\ UNCHANGED <<prefs, codes, minted, expired, form, bot, pass, historyVars, overlapped>>

EndPass(u) ==
    /\ pass[u] # NoChat /\ pass' = [pass EXCEPT ![u] = NoChat]
    /\ UNCHANGED <<prefs, codes, minted, expired, form, bot, historyVars, sent, overlapped>>

Next ==
    \/ \E u \in Accounts :
          \/ CreateCode(u) \/ Disconnect(u) \/ ReadForm(u) \/ Welcome(u)
          \/ BeginPass(u) \/ Send(u) \/ EndPass(u)
          \/ \E switch \in BOOLEAN : SaveForm(u, switch)
    \/ \E c \in 1..MaxCode : Expire(c) \/ \E t \in Tasks, chat \in Chats : ReadCode(t, chat, c)
    \/ \E t \in Tasks : SpendCode(t) \/ Connect(t) \/ Lose(t)

Spec == Init /\ [][Next]_vars

------------------------------------------------------------------------------

Row == [on : BOOLEAN, chat : Chats \cup {NoChat}]

\* Every row, code, task, form and pass has its shape; an account has one code
\* at most, and a channel that is on has a chat.
TypeOK ==
    /\ prefs \in [Accounts -> Row]
    /\ \A u \in Accounts : prefs[u].on => prefs[u].chat # NoChat
    /\ codes \in [DOMAIN codes -> Accounts] /\ DOMAIN codes \subseteq 1..minted
    /\ \A c, d \in DOMAIN codes : codes[c] = codes[d] => c = d
    /\ minted \in 0..MaxCode /\ expired \subseteq 1..minted
    /\ form \in [Accounts -> [pc : {"idle", "save", "welcome"}, before : Row, after : Row]]
    /\ bot \in [Tasks -> [pc : {"idle", "spend", "connect"}, code : 0..MaxCode,
                          chat : Chats \cup {NoChat}, account : SUBSET Accounts]]
    /\ \A t \in Tasks : (bot[t].pc = "idle") = (bot[t].chat = NoChat)
    /\ pass \in [Accounts -> Chats \cup {NoChat}]
    /\ latest \in [Accounts -> 0..MaxCode] /\ holder \in [Chats -> SUBSET Accounts]
    /\ linked \in [Accounts -> SUBSET Chats] /\ sent \subseteq Accounts \X Chats
    /\ overlapped \in BOOLEAN

\* As long as no request begins while another is served, the chat in an
\* account's row is one it was the last to link and has not disconnected
\* since: a saved form neither brings back a chat nor takes one from the
\* account that got it (app.py, update_account_notifications; repo.py,
\* connect_telegram_chat).
AsLinked ==
    ~overlapped => \A u \in Accounts : prefs[u].chat # NoChat => u \in holder[prefs[u].chat]

\* A row only gets a chat from a task that carries the last code made for that
\* account, as long as no request begins while another is served (repo.py,
\* create_telegram_link_code).
LatestOnly ==
    [][\A u \in Accounts :
          ~overlapped' /\ prefs'[u].chat \notin {NoChat, prefs[u].chat} =>
              \E t \in Tasks : bot[t].pc = "connect" /\ u \in bot[t].account /\ bot[t].code = latest[u]]_vars

\* Whatever overlaps, an account's alerts only ever go to a chat that account
\* has itself linked (preferences.py, providers_for; 0030_telegram_channel.sql).
SentToLinked == \A m \in sent : m[2] \in linked[m[1]]
==============================================================================
