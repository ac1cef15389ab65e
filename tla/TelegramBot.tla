---------------------------- MODULE TelegramBot ----------------------------
(***************************************************************************)
(* The user bot (core/telegram_bot.py): a link token made on the settings  *)
(* page is carried by the user to the bot, which writes the chat into the  *)
(* profile; news are then pushed to that chat until it is unlinked, muted  *)
(* or found blocked.                                                       *)
(*                                                                         *)
(* Nothing here is in a transaction: a webhook call reads the token,       *)
(* deletes it, looks for another profile with the chat and updates the     *)
(* profile in four steps, and Telegram may deliver an update again.        *)
(***************************************************************************)
EXTENDS Site

CONSTANTS
    Token,     \* tokens make_link_token may draw
    Chat,
    Hook,      \* POSTs to telegram_webhook that may be under way
    NoUser,
    NoChat,
    NoToken

ASSUME TelegramBotAssumption ==
    NoUser \notin User /\ NoChat \notin Chat /\ NoToken \notin Token

VARIABLES
    key,        \* cache "tg-link:<token>": whose it is, NoUser if absent
    drawn,      \* tokens that were made
    chat,       \* Profile.telegram_chat_id
    wanted,     \* Profile.notify_new_episode_telegram
    hook,       \* per webhook call: its step, chat, token and user
    settings,   \* per user: the chat a settings form was loaded with, or "closed"
    pushes,     \* chats with a push waiting in the queue
    refusals,   \* chats whose push was answered 403, to be cleared
    blocking,   \* chats whose user has blocked the bot
    links,      \* history: per token, how often it has linked a chat
    shared      \* history: tokens two calls held before one had deleted it

botVars == <<key, drawn, chat, wanted, hook, settings, pushes, refusals, blocking,
             links, shared>>

profiles == <<chat, wanted>>
outside  == <<settings, pushes, refusals, blocking>>
tokens   == <<key, drawn, links, shared>>

Quiet == [step |-> "idle", chat |-> NoChat, token |-> NoToken, user |-> NoUser]

BotInit ==
    /\ key = [k \in Token |-> NoUser]
    /\ drawn = {}
    /\ chat = [u \in User |-> NoChat]
    /\ wanted = [u \in User |-> TRUE]
    /\ hook = [w \in Hook |-> Quiet]
    /\ settings = [u \in User |-> "closed"]
    /\ pushes = {} /\ refusals = {} /\ blocking = {}
    /\ links = [k \in Token |-> 0]
    /\ shared = {}

Linked(c) == {u \in User : chat[u] = c}

-----------------------------------------------------------------------------
(* Link tokens: telegram_bot_link, make_link_token, and /start <token>     *)

make_link_token(u) ==
    \E k \in Token \ drawn :
        /\ drawn' = drawn \cup {k}
        /\ key' = [key EXCEPT ![k] = u]
        /\ UNCHANGED <<profiles, hook, outside, links, shared>>

ExpireToken(k) ==
    /\ key[k] # NoUser
    /\ key' = [key EXCEPT ![k] = NoUser]
    /\ UNCHANGED <<drawn, profiles, hook, outside, links, shared>>

\* /start with a token: an absent one is answered with a message.
_cmd_start(w, c, k) ==
    /\ hook[w].step = "idle" /\ key[k] # NoUser
    /\ hook' = [hook EXCEPT ![w] =
                   [step |-> "delete", chat |-> c, token |-> k, user |-> key[k]]]
    /\ shared' = IF \E v \in Hook : hook[v].step = "delete" /\ hook[v].token = k
                 THEN shared \cup {k} ELSE shared
    /\ UNCHANGED <<key, drawn, profiles, outside, links>>

\* Mutant: the token stays in the cache until it runs out.
Consumed_Kept(k) == key

Consumed(k) == [key EXCEPT ![k] = NoUser]

DeleteToken(w) ==
    /\ hook[w].step = "delete"
    /\ key' = Consumed(hook[w].token)
    /\ hook' = [hook EXCEPT ![w].step = "check"]
    /\ UNCHANGED <<drawn, profiles, outside, links, shared>>

\* A chat that belongs to another profile is refused; the token is gone all the same.
CheckConflict(w) ==
    /\ hook[w].step = "check"
    /\ hook' = IF Linked(hook[w].chat) \subseteq {hook[w].user}
               THEN [hook EXCEPT ![w].step = "write"]
               ELSE [hook EXCEPT ![w] = Quiet]
    /\ UNCHANGED <<tokens, profiles, outside>>

\* The column is unique: PostgreSQL refuses the chat of another profile.
Unique(u, c) == Linked(c) \subseteq {u}

WriteLink(w) ==
    LET u == hook[w].user
        c == hook[w].chat
    IN
    /\ hook[w].step = "write" /\ Unique(u, c)
    /\ chat' = [chat EXCEPT ![u] = c]
    /\ wanted' = [wanted EXCEPT ![u] = TRUE]
    /\ links' = [links EXCEPT ![hook[w].token] = @ + 1]
    /\ hook' = [hook EXCEPT ![w] = Quiet]
    /\ UNCHANGED <<key, drawn, shared, outside>>

\* An IntegrityError, a failing message or a killed worker: telegram_webhook logs it
\* and answers 200, so the update does not come back.
FailHook(w) ==
    /\ hook[w].step # "idle"
    /\ hook' = [hook EXCEPT ![w] = Quiet]
    /\ UNCHANGED <<tokens, profiles, outside>>

-----------------------------------------------------------------------------
(* The other commands, and the settings page                               *)

\* /start without a token turns the news of a linked chat on, /stop off.
Turn(c, on) ==
    /\ Linked(c) # {}
    /\ wanted' = [u \in User |-> IF chat[u] = c THEN on ELSE wanted[u]]
    /\ UNCHANGED <<tokens, chat, hook, outside>>

telegram_bot_unlink(u) ==
    /\ chat[u] # NoChat
    /\ chat' = [chat EXCEPT ![u] = NoChat]
    /\ UNCHANGED <<tokens, wanted, hook, outside>>

\* settings_view saves every column of the profile it has loaded, the chat included.
LoadSettings(u) ==
    /\ settings[u] = "closed"
    /\ settings' = [settings EXCEPT ![u] = chat[u]]
    /\ UNCHANGED <<tokens, profiles, hook, pushes, refusals, blocking>>

SaveSettings(u, on) ==
    /\ settings[u] # "closed"
    /\ settings' = [settings EXCEPT ![u] = "closed"]
    /\ IF settings[u] = NoChat \/ Unique(u, settings[u])
       THEN /\ chat' = [chat EXCEPT ![u] = settings[u]]
            /\ wanted' = [wanted EXCEPT ![u] = on]
       ELSE UNCHANGED profiles
    /\ UNCHANGED <<tokens, hook, pushes, refusals, blocking>>

-----------------------------------------------------------------------------
(* Pushes: the fan-out of a new episode, and send_telegram_push_task       *)

QueuePush(u) ==
    /\ wanted[u] /\ chat[u] # NoChat
    /\ pushes' = pushes \cup {chat[u]}
    /\ UNCHANGED <<tokens, profiles, hook, settings, refusals, blocking>>

\* Other failures are retried: the push stays in the queue.
send_telegram_push_task(c) ==
    /\ c \in pushes
    /\ pushes' = pushes \ {c}
    /\ refusals' = IF c \in blocking THEN refusals \cup {c} ELSE refusals
    /\ UNCHANGED <<tokens, profiles, hook, settings, blocking>>

\* After a 403 whichever profile has the chat by now loses it.
ClearChannel(c) ==
    /\ c \in refusals
    /\ refusals' = refusals \ {c}
    /\ chat' = [u \in User |-> IF chat[u] = c THEN NoChat ELSE chat[u]]
    /\ UNCHANGED <<tokens, wanted, hook, settings, pushes, blocking>>

ToggleBlocking(c) ==
    /\ blocking' = IF c \in blocking THEN blocking \ {c} ELSE blocking \cup {c}
    /\ UNCHANGED <<tokens, profiles, hook, settings, pushes, refusals>>

-----------------------------------------------------------------------------
BotNext ==
    \/ \E u \in User :
         \/ make_link_token(u)
         \/ telegram_bot_unlink(u)
         \/ LoadSettings(u)
         \/ \E on \in BOOLEAN : SaveSettings(u, on)
         \/ QueuePush(u)
    \/ \E k \in Token : ExpireToken(k)
    \/ \E w \in Hook :
         \/ \E c \in Chat \ blocking, k \in Token : _cmd_start(w, c, k)
         \/ DeleteToken(w)
         \/ CheckConflict(w)
         \/ WriteLink(w)
         \/ FailHook(w)
    \/ \E c \in Chat :
         \/ \E on \in BOOLEAN : c \notin blocking /\ Turn(c, on)
         \/ send_telegram_push_task(c)
         \/ ClearChannel(c)
         \/ ToggleBlocking(c)

-----------------------------------------------------------------------------
(* Properties                                                              *)

BotTypeOK ==
    /\ key \in [Token -> User \cup {NoUser}]
    /\ drawn \subseteq Token
    /\ chat \in [User -> Chat \cup {NoChat}]
    /\ wanted \in [User -> BOOLEAN]
    /\ hook \in [Hook -> [step : {"idle", "delete", "check", "write"},
                          chat : Chat \cup {NoChat},
                          token : Token \cup {NoToken},
                          user : User \cup {NoUser}]]
    /\ settings \in [User -> Chat \cup {NoChat, "closed"}]
    /\ pushes \subseteq Chat /\ refusals \subseteq Chat /\ blocking \subseteq Chat
    /\ links \in [Token -> Nat]
    /\ shared \subseteq Token

\* A link token links one chat ("bir martalik"), unless two calls had read it before one
\* deleted it; and however calls, settings forms and clean-ups cross, a chat never
\* belongs to two profiles, whose news it would mix.
LinksAreExclusive ==
    /\ \A k \in Token : links[k] <= 1 \/ k \in shared
    /\ \A c \in Chat : Cardinality(Linked(c)) <= 1
=============================================================================
