--------------------------- MODULE VisitorsProofs ---------------------------
(***************************************************************************)
(* How visitors come and find: Telegram links, accounts, collections,      *)
(* lists, search, and the alerts about them; for any users, chats, movies, *)
(* texts, strings, workers and bounds. The components share no variable.   *)
(***************************************************************************)
EXTENDS TelegramBot, SignIn, Collections, Browsing, SearchIndex,
        Translations, Monitoring, FiniteSetTheorems, TLAPS

-----------------------------------------------------------------------------
(***************************************************************************)
(* The Telegram bot                                                        *)
(*                                                                         *)
(* One chat, one profile; one token, one link. A call that holds a token   *)
(* has a life of one link at most, and a token that has gone is never      *)
(* drawn again.                                                            *)
(***************************************************************************)
BotSpec == BotInit /\ [][BotNext]_botVars

Holding(w) == hook[w].step \in {"delete", "check", "write"}

\* A token in the cache or in a call was drawn.
DrawnFirst ==
    /\ \A k \in Token : key[k] # NoUser => k \in drawn
    /\ \A w \in Hook : Holding(w) =>
           hook[w].token \in drawn /\ hook[w].user \in User /\ hook[w].chat \in Chat

\* A token that has been deleted, or has linked, is not in the cache.
UsedIsGone ==
    /\ \A w \in Hook : hook[w].step \in {"check", "write"} => key[hook[w].token] = NoUser
    /\ \A k \in Token : links[k] > 0 => key[k] = NoUser /\ k \in drawn

\* One call at a time has a token, and none that has linked.
OneHolder ==
    \A k \in Token \ shared :
        /\ links[k] <= 1
        /\ \A w \in Hook : Holding(w) /\ hook[w].token = k =>
               /\ links[k] = 0
               /\ \A v \in Hook : Holding(v) /\ hook[v].token = k => v = w

\* A chat belongs to one profile.
OneProfile == \A u, v \in User : chat[u] = chat[v] /\ chat[u] # NoChat => u = v

Tokens == DrawnFirst /\ UsedIsGone /\ OneHolder
BotIInv == BotTypeOK /\ Tokens /\ OneProfile

-----------------------------------------------------------------------------
LEMMA BotInitHolds == BotInit => BotIInv
<1> USE TelegramBotAssumption
<1> SUFFICES ASSUME BotInit PROVE BotIInv
  OBVIOUS
<1>1. BotTypeOK
  BY DEF BotInit, BotTypeOK, Quiet
<1>2. \A w \in Hook : ~Holding(w) /\ hook[w].step = "idle"
  BY DEF BotInit, Quiet, Holding
<1>3. Tokens
  BY <1>2 DEF BotInit, Tokens, DrawnFirst, UsedIsGone, OneHolder
<1>4. OneProfile
  BY DEF BotInit, OneProfile
<1>5. QED BY <1>1, <1>3, <1>4 DEF BotIInv

-----------------------------------------------------------------------------
(* The life of a token                                                     *)

LEMMA MakeTokenIInv == ASSUME BotIInv, NEW u \in User, make_link_token(u) PROVE BotIInv'
<1> USE TelegramBotAssumption DEF profiles, outside
<1>1. PICK k \in Token \ drawn : make_link_token(u)!(k)
  BY DEF make_link_token
<1>2. BotTypeOK'
  BY <1>1 DEF BotIInv, BotTypeOK
<1>3. Tokens'
  BY <1>1 DEF BotIInv, BotTypeOK, Tokens, DrawnFirst, UsedIsGone, OneHolder, Holding
<1>4. OneProfile'
  BY <1>1 DEF BotIInv, OneProfile
<1>5. QED BY <1>2, <1>3, <1>4 DEF BotIInv

LEMMA ExpireTokenIInv == ASSUME BotIInv, NEW k \in Token, ExpireToken(k) PROVE BotIInv'
<1> USE TelegramBotAssumption DEF profiles, outside, ExpireToken
<1>1. BotTypeOK'
  BY DEF BotIInv, BotTypeOK
<1>2. Tokens'
  BY DEF BotIInv, BotTypeOK, Tokens, DrawnFirst, UsedIsGone, OneHolder, Holding
<1>3. OneProfile'
  BY DEF BotIInv, OneProfile
<1>4. QED BY <1>1, <1>2, <1>3 DEF BotIInv

LEMMA StartIInv ==
  ASSUME BotIInv, NEW w \in Hook, NEW c \in Chat, NEW k \in Token, _cmd_start(w, c, k)
  PROVE  BotIInv'
<1> USE TelegramBotAssumption DEF profiles, outside, _cmd_start
<1> DEFINE started == [step |-> "delete", chat |-> c, token |-> k, user |-> key[k]]
<1>1. /\ key[k] \in User /\ k \in drawn /\ ~(links[k] > 0) /\ links[k] \in Nat
      /\ \A v \in Hook : hook[v].token = k => hook[v].step \notin {"check", "write"}
  BY DEF BotIInv, BotTypeOK, Tokens, DrawnFirst, UsedIsGone
<1>2. hook'[w] = started /\ \A v \in Hook \ {w} : hook'[v] = hook[v]
  BY DEF BotIInv, BotTypeOK
<1>3. BotTypeOK'
  BY <1>1 DEF BotIInv, BotTypeOK
<1>4. DrawnFirst' /\ UsedIsGone'
  BY <1>1, <1>2 DEF BotIInv, BotTypeOK, Tokens, DrawnFirst, UsedIsGone, Holding
<1>5. k \notin shared' => \A v \in Hook : hook[v].token = k => ~Holding(v)
  BY <1>1 DEF Holding
<1>6. shared \subseteq shared' /\ links' = links
  OBVIOUS
<1>7. OneHolder'
  BY <1>1, <1>2, <1>5, <1>6 DEF BotIInv, Tokens, OneHolder, Holding
<1>8. OneProfile'
  BY DEF BotIInv, OneProfile
<1>9. QED BY <1>3, <1>4, <1>7, <1>8 DEF BotIInv, Tokens

LEMMA DeleteTokenIInv == ASSUME BotIInv, NEW w \in Hook, DeleteToken(w) PROVE BotIInv'
<1> USE TelegramBotAssumption DEF profiles, outside, DeleteToken, Consumed
<1>1. hook[w].token \in Token
  BY DEF BotIInv, BotTypeOK, Tokens, DrawnFirst, Holding
<1>2. /\ hook'[w] = [hook[w] EXCEPT !.step = "check"]
      /\ \A v \in Hook \ {w} : hook'[v] = hook[v]
  BY DEF BotIInv, BotTypeOK
<1>3. BotTypeOK'
  BY <1>1 DEF BotIInv, BotTypeOK
<1>4. \A v \in Hook : /\ Holding(v)' <=> Holding(v)
                      /\ hook'[v].token = hook[v].token /\ hook'[v].user = hook[v].user
                      /\ hook'[v].chat = hook[v].chat
                      /\ v # w => hook'[v].step = hook[v].step
  BY <1>2 DEF BotIInv, BotTypeOK, Holding
<1>5. key'[hook[w].token] = NoUser /\ \A k \in Token : key'[k] \in {key[k], NoUser}
  BY <1>1 DEF BotIInv, BotTypeOK
<1>6. DrawnFirst'
  BY <1>4, <1>5 DEF BotIInv, Tokens, DrawnFirst
<1>7. UsedIsGone'
  BY <1>4, <1>5 DEF BotIInv, BotTypeOK, Tokens, UsedIsGone
<1>8. OneHolder'
  BY <1>4 DEF BotIInv, Tokens, OneHolder
<1>9. OneProfile'
  BY DEF BotIInv, OneProfile
<1>10. QED BY <1>3, <1>6, <1>7, <1>8, <1>9 DEF BotIInv, Tokens

\* A call that ends without linking leaves everything as it was.
LEMMA QuietIInv ==
  ASSUME BotIInv, NEW w \in Hook, hook' = [hook EXCEPT ![w] = Quiet],
         UNCHANGED <<tokens, profiles, outside>>
  PROVE  BotIInv'
<1> USE TelegramBotAssumption DEF profiles, outside, tokens
<1>1. ~Holding(w)' /\ hook'[w].step = "idle" /\ \A v \in Hook \ {w} : hook'[v] = hook[v]
  BY DEF BotIInv, BotTypeOK, Quiet, Holding
<1>2. BotTypeOK'
  BY DEF BotIInv, BotTypeOK, Quiet
<1>3. Tokens'
  BY <1>1 DEF BotIInv, Tokens, DrawnFirst, UsedIsGone, OneHolder, Holding
<1>4. OneProfile'
  BY DEF BotIInv, OneProfile
<1>5. QED BY <1>2, <1>3, <1>4 DEF BotIInv

LEMMA CheckConflictIInv == ASSUME BotIInv, NEW w \in Hook, CheckConflict(w) PROVE BotIInv'
<1>1. CASE hook' = [hook EXCEPT ![w] = Quiet]
  BY <1>1, QuietIInv DEF CheckConflict
<1>2. CASE hook' = [hook EXCEPT ![w].step = "write"]
  <2> USE <1>2, TelegramBotAssumption DEF profiles, outside, tokens, CheckConflict
  <2>1. /\ hook'[w] = [hook[w] EXCEPT !.step = "write"]
        /\ \A v \in Hook \ {w} : hook'[v] = hook[v]
    BY DEF BotIInv, BotTypeOK
  <2>2. \A v \in Hook :
            /\ Holding(v)' <=> Holding(v)
            /\ hook'[v].step \in {"check", "write"} <=> hook[v].step \in {"check", "write"}
            /\ hook'[v].token = hook[v].token /\ hook'[v].user = hook[v].user
            /\ hook'[v].chat = hook[v].chat
    BY <2>1 DEF BotIInv, BotTypeOK, Holding
  <2>3. BotTypeOK'
    BY DEF BotIInv, BotTypeOK
  <2>4. Tokens'
    BY <2>2 DEF BotIInv, Tokens, DrawnFirst, UsedIsGone, OneHolder
  <2>5. OneProfile'
    BY DEF BotIInv, OneProfile
  <2>6. QED BY <2>3, <2>4, <2>5 DEF BotIInv
<1>3. QED BY <1>1, <1>2 DEF CheckConflict

\* The chat goes to one profile, and the call's token is at its end.
LEMMA WriteLinkIInv == ASSUME BotIInv, NEW w \in Hook, WriteLink(w) PROVE BotIInv'
<1> DEFINE u == hook[w].user
           c == hook[w].chat
           k == hook[w].token
<1>1. /\ hook[w].step = "write" /\ Holding(w) /\ Linked(c) \subseteq {u}
      /\ chat' = [chat EXCEPT ![u] = c]
      /\ wanted' = [wanted EXCEPT ![u] = TRUE]
      /\ links' = [links EXCEPT ![k] = @ + 1]
      /\ hook' = [hook EXCEPT ![w] = Quiet]
      /\ UNCHANGED <<key, drawn, shared, settings, pushes, refusals, blocking>>
  BY DEF WriteLink, Unique, outside, Holding
<1>2. u \in User /\ c \in Chat /\ k \in Token /\ k \in drawn /\ key[k] = NoUser
  BY <1>1 DEF BotIInv, BotTypeOK, Tokens, DrawnFirst, UsedIsGone
<1> HIDE DEF u, c, k
<1>3. BotTypeOK'
  BY <1>1, <1>2, TelegramBotAssumption DEF BotIInv, BotTypeOK, Quiet
<1>4. /\ ~Holding(w)' /\ hook'[w].step = "idle"
      /\ \A v \in Hook \ {w} : hook'[v] = hook[v] /\ (Holding(v)' <=> Holding(v))
  BY <1>1 DEF BotIInv, BotTypeOK, Quiet, Holding
<1>5. links'[k] = links[k] + 1 /\ \A x \in Token \ {k} : links'[x] = links[x]
  BY <1>1, <1>2 DEF BotIInv, BotTypeOK
<1>6. \A x \in Token : links[x] \in Nat
  BY DEF BotIInv, BotTypeOK
<1>7. DrawnFirst'
  BY <1>1, <1>4 DEF BotIInv, Tokens, DrawnFirst
<1>8. UsedIsGone'
  BY <1>1, <1>2, <1>4, <1>5 DEF BotIInv, Tokens, UsedIsGone
<1>9. k \notin shared =>
          links[k] = 0 /\ \A v \in Hook : Holding(v) /\ hook[v].token = k => v = w
  BY <1>1, <1>2 DEF BotIInv, Tokens, OneHolder, k
<1>10. OneHolder'
  BY <1>1, <1>4, <1>5, <1>6, <1>9 DEF BotIInv, Tokens, OneHolder
<1>11. OneProfile'
  BY <1>1, <1>2 DEF BotIInv, BotTypeOK, OneProfile, Linked
<1>12. QED BY <1>3, <1>7, <1>8, <1>10, <1>11 DEF BotIInv, Tokens

-----------------------------------------------------------------------------
(* Steps without a token                                                   *)

LEMMA SaveSettingsIInv ==
  ASSUME BotIInv, NEW u \in User, NEW on \in BOOLEAN, SaveSettings(u, on)
  PROVE  BotIInv'
<1> USE TelegramBotAssumption DEF tokens, profiles, SaveSettings
<1>1. settings[u] \in Chat \cup {NoChat}
  BY DEF BotIInv, BotTypeOK
<1>2. BotTypeOK'
  BY <1>1 DEF BotIInv, BotTypeOK
<1>3. Tokens'
  BY DEF BotIInv, Tokens, DrawnFirst, UsedIsGone, OneHolder, Holding
<1>4. OneProfile'
  BY <1>1 DEF BotIInv, BotTypeOK, OneProfile, Unique, Linked
<1>5. QED BY <1>2, <1>3, <1>4 DEF BotIInv

\* Chats are only taken away, and no token is touched.
LEMMA LosingChatsIInv ==
  ASSUME BotIInv, BotTypeOK', UNCHANGED <<tokens, hook>>,
         \A u \in User : chat'[u] \in {chat[u], NoChat}
  PROVE  BotIInv'
<1>1. Tokens'
  BY DEF tokens, BotIInv, Tokens, DrawnFirst, UsedIsGone, OneHolder, Holding
<1>2. OneProfile'
  BY DEF BotIInv, OneProfile
<1>3. QED BY <1>1, <1>2 DEF BotIInv

LEMMA UserStepIInv ==
  ASSUME BotIInv, NEW u \in User,
         telegram_bot_unlink(u) \/ LoadSettings(u) \/ QueuePush(u)
  PROVE  BotIInv'
<1> USE TelegramBotAssumption
    DEF tokens, profiles, outside, BotIInv, BotTypeOK
<1>1. CASE telegram_bot_unlink(u)
  BY <1>1, LosingChatsIInv DEF telegram_bot_unlink
<1>2. CASE LoadSettings(u)
  BY <1>2, LosingChatsIInv DEF LoadSettings
<1>3. CASE QueuePush(u)
  BY <1>3, LosingChatsIInv DEF QueuePush
<1>4. QED BY <1>1, <1>2, <1>3

LEMMA ChatStepIInv ==
  ASSUME BotIInv, NEW c \in Chat,
         \/ \E on \in BOOLEAN : c \notin blocking /\ Turn(c, on)
         \/ send_telegram_push_task(c)
         \/ ClearChannel(c)
         \/ ToggleBlocking(c)
  PROVE  BotIInv'
<1> USE TelegramBotAssumption
    DEF tokens, profiles, outside, BotIInv, BotTypeOK
<1>1. ASSUME NEW on \in BOOLEAN, Turn(c, on) PROVE BotIInv'
  BY <1>1, LosingChatsIInv DEF Turn
<1>2. CASE send_telegram_push_task(c)
  BY <1>2, LosingChatsIInv DEF send_telegram_push_task
<1>3. CASE ClearChannel(c)
  BY <1>3, LosingChatsIInv DEF ClearChannel
<1>4. CASE ToggleBlocking(c)
  BY <1>4, LosingChatsIInv DEF ToggleBlocking
<1>5. QED BY <1>1, <1>2, <1>3, <1>4

-----------------------------------------------------------------------------
LEMMA BotNextHolds == BotIInv /\ [BotNext]_botVars => BotIInv'
<1> SUFFICES ASSUME BotIInv, [BotNext]_botVars PROVE BotIInv'
  OBVIOUS
<1>1. ASSUME NEW u \in User, make_link_token(u) PROVE BotIInv'
  BY <1>1, MakeTokenIInv
<1>2. ASSUME NEW u \in User,
             telegram_bot_unlink(u) \/ LoadSettings(u) \/ QueuePush(u)
      PROVE  BotIInv'
  BY <1>2, UserStepIInv
<1>3. ASSUME NEW u \in User, NEW on \in BOOLEAN, SaveSettings(u, on) PROVE BotIInv'
  BY <1>3, SaveSettingsIInv
<1>4. ASSUME NEW k \in Token, ExpireToken(k) PROVE BotIInv'
  BY <1>4, ExpireTokenIInv
<1>5. ASSUME NEW w \in Hook, NEW c \in Chat, NEW k \in Token, _cmd_start(w, c, k)
      PROVE  BotIInv'
  BY <1>5, StartIInv
<1>6. ASSUME NEW w \in Hook, DeleteToken(w) PROVE BotIInv'
  BY <1>6, DeleteTokenIInv
<1>7. ASSUME NEW w \in Hook, CheckConflict(w) PROVE BotIInv'
  BY <1>7, CheckConflictIInv
<1>8. ASSUME NEW w \in Hook, WriteLink(w) PROVE BotIInv'
  BY <1>8, WriteLinkIInv
<1>9. ASSUME NEW w \in Hook, FailHook(w) PROVE BotIInv'
  BY <1>9, QuietIInv DEF FailHook
<1>10. ASSUME NEW c \in Chat,
              \/ \E on \in BOOLEAN : c \notin blocking /\ Turn(c, on)
              \/ send_telegram_push_task(c)
              \/ ClearChannel(c)
              \/ ToggleBlocking(c)
       PROVE  BotIInv'
  BY <1>10, ChatStepIInv
<1>11. ASSUME UNCHANGED botVars PROVE BotIInv'
  BY <1>11 DEF botVars, BotIInv, BotTypeOK, Tokens, DrawnFirst, UsedIsGone, OneHolder,
               OneProfile, Holding
<1>12. QED
  BY <1>1, <1>2, <1>3, <1>4, <1>5, <1>6, <1>7, <1>8, <1>9, <1>10, <1>11 DEF BotNext

LEMMA BotIsIInv == BotSpec => []BotIInv
  BY BotInitHolds, BotNextHolds, PTL DEF BotSpec

-----------------------------------------------------------------------------
\* For any users, tokens, chats and numbers of calls: a token links at most one chat
\* unless two calls held it at once, and no chat ever belongs to two profiles.
THEOREM LinksAreExclusiveHolds == BotSpec => []LinksAreExclusive
<1>1. BotIInv => LinksAreExclusive
  <2> SUFFICES ASSUME BotIInv PROVE LinksAreExclusive
    OBVIOUS
  <2>1. \A k \in Token : links[k] <= 1 \/ k \in shared
    BY DEF BotIInv, Tokens, OneHolder
  <2>2. ASSUME NEW c \in Chat PROVE Cardinality(Linked(c)) <= 1
    <3>1. CASE Linked(c) = {}
      BY <3>1, FS_EmptySet
    <3>2. ASSUME NEW u \in Linked(c) PROVE Cardinality(Linked(c)) <= 1
      <4>1. Linked(c) = {u}
        BY <3>2, TelegramBotAssumption DEF BotIInv, OneProfile, Linked
      <4>2. Cardinality({u}) = 1
        BY FS_Singleton
      <4>3. QED BY <4>1, <4>2
    <3>3. QED BY <3>1, <3>2
  <2>3. QED BY <2>1, <2>2 DEF LinksAreExclusive
<1>2. QED BY <1>1, BotIsIInv, PTL

-----------------------------------------------------------------------------
(***************************************************************************)
(* Monitoring                                                              *)
(*                                                                         *)
(* What is left of a problem's key is what is left of its hour.            *)
(***************************************************************************)
MonitoringSpec == MonitoringInit /\ [][MonitoringNext]_monitoringVars

\* The key and the last alert have the same age.
KeyAgesWithAlert == \A p \in Problem \ lapsed : held[p] = Cooldown - ago[p]

\* Whoever is about to tell a problem has found it after its hour, or before another told it.
FoundOnce ==
    \A w \in Monitor : \A p \in round[w].found :
        ago[p] = Cooldown \/ p \in lapsed \/ <<w, p>> \in overlapped

MonitoringIInv == MonitoringTypeOK /\ KeyAgesWithAlert /\ FoundOnce /\ again = {}

-----------------------------------------------------------------------------
LEMMA MonitoringInitHolds == MonitoringInit => MonitoringIInv
  BY MonitoringAssumption DEF MonitoringInit, MonitoringIInv, MonitoringTypeOK, KeyAgesWithAlert,
         FoundOnce, Off

LEMMA AlertIInv == ASSUME MonitoringIInv, NEW w \in Monitor, Alert(w) PROVE MonitoringIInv'
<1>1. PICK p \in round[w].found : Alert(w)!(p)
  BY DEF Alert
<1>2. p \in Problem
  BY DEF MonitoringIInv, MonitoringTypeOK
<1> DEFINE queued == alerts' = alerts \cup {[problem |-> p, tries |-> 0]}
<1>3. MonitoringTypeOK'
  <2> USE MonitoringAssumption, <1>2 DEF MonitoringTypeOK, MonitoringIInv
  <2>1. present' \subseteq Problem /\ lapsed' \subseteq Problem /\ again' \subseteq Problem
    BY <1>1
  <2>6. overlapped' \subseteq Monitor \X Problem
    <3>1. Rivals(w, p) \X {p} \subseteq Monitor \X Problem
      BY DEF Rivals
    <3> QED BY <1>1, <3>1
  <2>2. held' \in [Problem -> 0..Cooldown] /\ ago' \in [Problem -> 0..Cooldown]
    BY <1>1 DEF Timeout
  <2>3. round' \in [Monitor -> [todo : SUBSET Problem, found : SUBSET Problem]]
    BY <1>1 DEF Off
  <2>4. alerts' \subseteq [problem : Problem, tries : 0..MaxRetries]
    BY <1>1
  <2>5. QED BY <2>1, <2>2, <2>3, <2>4, <2>6
<1>4. KeyAgesWithAlert'
  BY <1>1, <1>2, MonitoringAssumption DEF MonitoringIInv, MonitoringTypeOK, KeyAgesWithAlert,
         Timeout
<1>6. again' = {}
  <2>1. ago[p] = Cooldown \/ p \in lapsed \/ <<w, p>> \in overlapped
    BY <1>1 DEF MonitoringIInv, FoundOnce
  <2> QED BY <1>1, <2>1, MonitoringAssumption DEF MonitoringIInv
<1>7. round'[w].found = {} /\ \A v \in Monitor \ {w} : round'[v] = round[v]
  BY <1>1 DEF MonitoringIInv, MonitoringTypeOK, Off
<1>8. ASSUME NEW v \in Monitor, NEW q \in round'[v].found
      PROVE  ago'[q] = Cooldown \/ q \in lapsed' \/ <<v, q>> \in overlapped'
  <2>1. v # w /\ q \in round[v].found /\ q \in Problem
    BY <1>7, <1>8 DEF MonitoringIInv, MonitoringTypeOK
  <2>2. CASE q = p
    <3>1. v \in Rivals(w, p)
      BY <2>1, <2>2 DEF Rivals
    <3> QED BY <1>1, <2>2, <3>1
  <2>3. CASE q # p
    <3>1. ago[q] = Cooldown \/ q \in lapsed \/ <<v, q>> \in overlapped
      BY <2>1 DEF MonitoringIInv, FoundOnce
    <3>2. ago'[q] = ago[q] /\ (q \in lapsed => q \in lapsed')
          /\ (<<v, q>> \in overlapped => <<v, q>> \in overlapped')
      BY <1>1, <1>2, <2>1, <2>3 DEF MonitoringIInv, MonitoringTypeOK
    <3> QED BY <3>1, <3>2
  <2> QED BY <2>2, <2>3
<1>5. QED BY <1>3, <1>4, <1>6, <1>8 DEF MonitoringIInv, FoundOnce

LEMMA PassIInv == ASSUME MonitoringIInv, Pass PROVE MonitoringIInv'
<1> USE MonitoringAssumption DEF MonitoringIInv, MonitoringTypeOK, Pass
<1>1. MonitoringTypeOK'
  OBVIOUS
<1>2. ASSUME NEW p \in Problem, p \notin lapsed' PROVE held'[p] = Cooldown - ago'[p]
  <2>1. CASE p \in lapsed
    BY <2>1, <1>1, <1>2
  <2>2. CASE p \notin lapsed
    BY <2>2 DEF KeyAgesWithAlert
  <2>3. QED BY <2>1, <2>2
<1>4. FoundOnce' /\ again' = {}
  BY DEF FoundOnce, Off
<1>3. QED BY <1>1, <1>2, <1>4 DEF KeyAgesWithAlert

LEMMA MonitoringNextHolds == MonitoringIInv /\ [MonitoringNext]_monitoringVars => MonitoringIInv'
<1> SUFFICES ASSUME MonitoringIInv, [MonitoringNext]_monitoringVars PROVE MonitoringIInv'
  OBVIOUS
<1> USE DEF MonitoringIInv, MonitoringTypeOK, KeyAgesWithAlert, FoundOnce, history
<1>1. ASSUME NEW w \in Monitor, collect_problems(w) PROVE MonitoringIInv'
  <2>1. /\ UNCHANGED <<present, held, ago, alerts, lapsed, overlapped, again>>
        /\ round' = [round EXCEPT ![w].todo = present]
    BY <1>1 DEF collect_problems
  <2>2. \A v \in Monitor : round'[v].found = round[v].found
    BY <2>1
  <2>3. MonitoringTypeOK'
    BY <2>1
  <2> QED BY <2>1, <2>2, <2>3
<1>2. ASSUME NEW w \in Monitor, NEW p \in Problem, LookUp(w, p) PROVE MonitoringIInv'
  <2>1. /\ UNCHANGED <<present, held, ago, alerts, overlapped, again>>
        /\ lapsed' = IF ~CacheUp /\ held[p] > 0 THEN lapsed \cup {p} ELSE lapsed
    BY <1>2 DEF LookUp
  <2>2. \A v \in Monitor : \A q \in round'[v].found :
           q \in round[v].found \/ (q = p /\ (~CacheUp \/ ~(held[p] > 0)))
    BY <1>2 DEF LookUp
  <2>3. MonitoringTypeOK'
    BY <1>2, <2>1 DEF LookUp
  <2>4. KeyAgesWithAlert'
    BY <2>1
  <2>5. ~(held[p] > 0) /\ p \notin lapsed => ago[p] = Cooldown
    BY MonitoringAssumption
  <2>6. FoundOnce'
    BY <2>1, <2>2, <2>5
  <2> QED BY <2>1, <2>3, <2>4, <2>6
<1>3. ASSUME NEW w \in Monitor, Alert(w) PROVE MonitoringIInv'
  BY <1>3, AlertIInv
<1>4. ASSUME NEW a \in alerts, notify_telegram_task(a) \/ send_telegram(a) PROVE MonitoringIInv'
  <2>1. UNCHANGED <<present, held, ago, round, lapsed, overlapped, again>>
    BY <1>4 DEF notify_telegram_task, send_telegram
  <2>2. alerts' \subseteq [problem : Problem, tries : 0..MaxRetries]
    BY <1>4, MonitoringAssumption DEF notify_telegram_task, send_telegram
  <2> QED BY <2>1, <2>2
<1>5. ASSUME NEW p \in Problem, Arise(p) PROVE MonitoringIInv'
  BY <1>5 DEF Arise
<1>6. ASSUME CacheFails PROVE MonitoringIInv'
  BY <1>6, MonitoringAssumption DEF CacheFails
<1>7. ASSUME CacheReturns PROVE MonitoringIInv'
  <2>1. /\ UNCHANGED <<ago, round, alerts, overlapped, again>> /\ present' \subseteq Problem
        /\ lapsed \subseteq lapsed'
    BY <1>7 DEF CacheReturns
  <2>2. MonitoringTypeOK' /\ KeyAgesWithAlert'
    BY <1>7, MonitoringAssumption DEF CacheReturns
  <2> QED BY <2>1, <2>2
<1>8. ASSUME Pass PROVE MonitoringIInv'
  BY <1>8, PassIInv
<1>9. ASSUME UNCHANGED monitoringVars PROVE MonitoringIInv'
  BY <1>9 DEF monitoringVars
<1>10. QED
  BY <1>1, <1>2, <1>3, <1>4, <1>5, <1>6, <1>7, <1>8, <1>9 DEF MonitoringNext

LEMMA MonitoringIsIInv == MonitoringSpec => []MonitoringIInv
  BY MonitoringInitHolds, MonitoringNextHolds, PTL DEF MonitoringSpec

-----------------------------------------------------------------------------
\* For any problems, workers and length of the cooldown: whenever keys are set in a cache
\* that answers, and the broker accepts the alerts, a problem is held back exactly while
\* the last alert of it is younger than the cooldown, and is told again within it only by
\* a worker that had looked before.
THEOREM HeldBackWhenToldHolds == MonitoringSpec => []HeldBackWhenTold
<1>1. MonitoringIInv => HeldBackWhenTold
  BY MonitoringAssumption
  DEF MonitoringIInv, MonitoringTypeOK, KeyAgesWithAlert, HeldBackWhenTold
<1>2. QED BY <1>1, MonitoringIsIInv, PTL

-----------------------------------------------------------------------------
(***************************************************************************)
(* Accounts                                                                *)
(*                                                                         *)
(* Neither a login nor a confirmation ever takes away the last way in; an  *)
(* address is verified for the user who holds it.                          *)
(***************************************************************************)
USE SignInAssumption DEF SignInAssumption

\* A login that is about to be saved has a Telegram id and, if it links, a user.
SignInShape ==
    /\ users \subseteq Person
    /\ account \in [Uid -> Person \cup {NoPerson}]
    /\ DOMAIN login = Login
    /\ \A l \in Login : login[l].step = "create" =>
          login[l].uid \in Uid /\ login[l].user \in Person \cup {NoPerson}

ReturnIInv == SignInShape /\ EveryoneCanReturn

\* No user is there.
LEMMA ReturnInit == SignInInit => ReturnIInv
BY DEF SignInInit, ReturnIInv, SignInShape, EveryoneCanReturn, Out

\* Steps that leave users, passwords, accounts and logins alone.
LEMMA ReturnKept ==
  ASSUME ReturnIInv, UNCHANGED <<users, password, account, login>> PROVE ReturnIInv'
BY DEF ReturnIInv, SignInShape, EveryoneCanReturn

\* Every step that makes a user gives him a way back in, and no step takes one away.
LEMMA ReturnStep == ReturnIInv /\ [SignInNext]_signInVars => ReturnIInv'
<1> SUFFICES ASSUME ReturnIInv, [SignInNext]_signInVars PROVE ReturnIInv'
  OBVIOUS
<1> USE DEF ReturnIInv
<1>1. ASSUME NEW f \in Form, register(f) PROVE ReturnIInv'
  <2>1. PICK u \in Person : /\ users' = users \cup {u} /\ password' = password \cup {u}
                            /\ UNCHANGED <<account, login>>
    BY <1>1 DEF register, Fresh
  <2> QED
    BY <2>1 DEF SignInShape, EveryoneCanReturn
<1>2. ASSUME NEW l \in Login, NEW i \in Uid, NEW c \in users \cup {NoPerson},
             get_or_create_user(l, i, c)
      PROVE  ReturnIInv'
  <2>1. /\ login' = [login EXCEPT ![l] = [step |-> "create", uid |-> i, user |-> c]]
        /\ UNCHANGED <<users, password, account>>
    BY <1>2 DEF get_or_create_user
  <2>2. SignInShape'
    BY <2>1 DEF SignInShape
  <2> QED
    BY <2>1, <2>2 DEF EveryoneCanReturn
<1>3. ASSUME NEW l \in Login, LinkAccount(l) PROVE ReturnIInv'
  <2>1. /\ account[login[l].uid] = NoPerson /\ login[l].step = "create"
        /\ account' = [account EXCEPT ![login[l].uid] = login[l].user]
        /\ login' = [login EXCEPT ![l] = Out] /\ UNCHANGED <<users, password>>
    BY <1>3 DEF LinkAccount
  <2>2. SignInShape'
    BY <2>1 DEF SignInShape, Out
  <2>3. \A j \in Uid : account[j] # NoPerson => account'[j] = account[j]
    BY <2>1 DEF SignInShape
  <2>4. EveryoneCanReturn'
    BY <2>1, <2>3 DEF SignInShape, EveryoneCanReturn
  <2> QED
    BY <2>2, <2>4
<1>4. ASSUME NEW l \in Login, CreateUser(l) PROVE ReturnIInv'
  <2>1. PICK u \in Person :
          /\ account[login[l].uid] = NoPerson /\ login[l].step = "create"
          /\ account' = [account EXCEPT ![login[l].uid] = u]
          /\ users' = users \cup {u}
          /\ login' = [login EXCEPT ![l] = Out] /\ UNCHANGED password
    BY <1>4 DEF CreateUser, Fresh
  <2>2. SignInShape'
    BY <2>1 DEF SignInShape, Out
  <2>3. /\ \A j \in Uid : account[j] # NoPerson => account'[j] = account[j]
        /\ \E j \in Uid : account'[j] = u
    BY <2>1 DEF SignInShape
  <2>4. EveryoneCanReturn'
    BY <2>1, <2>3 DEF SignInShape, EveryoneCanReturn
  <2> QED
    BY <2>2, <2>4
<1>5. ASSUME NEW l \in Login, LoseLogin(l) PROVE ReturnIInv'
  <2>1. login' = [login EXCEPT ![l] = Out] /\ UNCHANGED <<users, password, account>>
    BY <1>5 DEF LoseLogin, Surviving
  <2>2. SignInShape'
    BY <2>1 DEF SignInShape, Out
  <2> QED
    BY <2>1, <2>2 DEF EveryoneCanReturn
<1>6. CASE \/ \E f \in Form :
                \/ \E u \in users \cup {NoPerson}, e \in Email : clean_email(f, u, e)
                \/ settings_view(f) \/ SendChanged(f) \/ LeaveForm(f)
           \/ \E u \in Person :
                \/ resend_verification(u)
                \/ \E e \in Email \cup {NoEmail} : AdminSetsEmail(u, e)
           \/ \E k \in mailed : confirm_key(k) \/ ExpireKey(k)
           \/ UNCHANGED signInVars
  <2>1. UNCHANGED <<users, password, account, login>>
    BY <1>6 DEF clean_email, settings_view, SendChanged, LeaveForm, resend_verification,
                confirm_key, ExpireKey, AdminSetsEmail, signInVars
  <2> QED
    BY <2>1, ReturnKept
<1> QED
  BY <1>1, <1>2, <1>3, <1>4, <1>5, <1>6 DEF SignInNext

\* get_or_create_user: a login that loses the race for a Telegram id is undone with the
\* user it made, so that every user has a way back in, in every reachable state.
THEOREM EveryoneCanReturnHolds ==
  SignInInit /\ [][SignInNext]_signInVars => []EveryoneCanReturn
<1>1. ReturnIInv => EveryoneCanReturn
  BY DEF ReturnIInv
<1> QED
  BY <1>1, ReturnInit, ReturnStep, PTL

-----------------------------------------------------------------------------

\* A link is sent to a spelling of the address of its row.
LinksMatch(K) == \A k \in K : Same(k.to, k.row[2])

\* A row is verified by a link that was opened, and a spelling for one user only.
VerifiedIInv ==
    /\ LinksMatch(mailed) /\ LinksMatch(opened)
    /\ \A a \in verified : \E k \in opened : k.row = a
    /\ \A e \in Email, u, v \in Person :
          <<u, e>> \in verified /\ <<v, e>> \in verified => u = v
    /\ mailed \subseteq [row : Person \X Email, to : Email]
    /\ address \subseteq Person \X Email

\* What the forms and users' addresses are.
FormShape ==
    /\ users \subseteq Person
    /\ email \in [Person -> Email \cup {NoEmail}]
    /\ DOMAIN form = Form
    /\ \A f \in Form : /\ form[f].user \in Person \cup {NoPerson}
                       /\ form[f].step # "idle" => form[f].email \in Email
                       /\ form[f].step = "send" => form[f].user \in Person

OwnedIInv == FormShape /\ VerifiedIInv

\* The forms keep their shape.
LEMMA FormStep == FormShape /\ [SignInNext]_signInVars => FormShape'
<1> SUFFICES ASSUME FormShape, [SignInNext]_signInVars PROVE FormShape'
  OBVIOUS
<1> USE DEF FormShape, Blank
<1>1. ASSUME NEW f \in Form, NEW u \in users \cup {NoPerson}, NEW e \in Email,
             clean_email(f, u, e)
      PROVE  FormShape'
  BY <1>1 DEF clean_email
<1>2. ASSUME NEW f \in Form, register(f) PROVE FormShape'
  BY <1>2 DEF register, Fresh
<1>3. ASSUME NEW f \in Form, settings_view(f) PROVE FormShape'
  <2>1. form[f].user \in Person /\ form[f].email \in Email
    BY <1>3 DEF settings_view
  <2>2. users' = users /\ email' = [email EXCEPT ![form[f].user] = form[f].email]
    BY <1>3 DEF settings_view
  <2>3. form' = [form EXCEPT ![f] = Blank] \/ form' = [form EXCEPT ![f].step = "send"]
    BY <1>3 DEF settings_view
  <2>4. email' \in [Person -> Email \cup {NoEmail}]
    BY <2>1, <2>2
  <2>5. CASE form' = [form EXCEPT ![f] = Blank]
    BY <2>2, <2>4, <2>5
  <2>6. CASE form' = [form EXCEPT ![f].step = "send"]
    <3>1. /\ DOMAIN form' = Form /\ form'[f] = [form[f] EXCEPT !.step = "send"]
          /\ \A g \in Form \ {f} : form'[g] = form[g]
      BY <2>6
    <3>2. form'[f].user = form[f].user /\ form'[f].email = form[f].email
      BY <3>1
    <3> QED BY <2>1, <2>2, <2>4, <3>1, <3>2
  <2> QED BY <2>3, <2>5, <2>6
<1>4. ASSUME NEW f \in Form, SendChanged(f) \/ LeaveForm(f) PROVE FormShape'
  BY <1>4 DEF SendChanged, LeaveForm
<1>5. ASSUME NEW u \in Person, NEW e \in Email \cup {NoEmail}, AdminSetsEmail(u, e)
      PROVE  FormShape'
  BY <1>5 DEF AdminSetsEmail
<1>6. CASE \/ \E u \in Person : resend_verification(u)
           \/ \E k \in mailed : confirm_key(k) \/ ExpireKey(k)
           \/ \E l \in Login :
                \/ \E i \in Uid, c \in users \cup {NoPerson} : get_or_create_user(l, i, c)
                \/ LinkAccount(l) \/ CreateUser(l) \/ LoseLogin(l)
           \/ UNCHANGED signInVars
  <2>1. UNCHANGED <<email, form>> /\ users' \subseteq Person
    BY <1>6 DEF resend_verification, confirm_key, ExpireKey, get_or_create_user, LinkAccount,
                CreateUser, LoseLogin, Surviving, Fresh, signInVars
  <2> QED BY <2>1
<1> QED
  BY <1>1, <1>2, <1>3, <1>4, <1>5, <1>6 DEF SignInNext

\* A link that is sent names a row of the address it goes to.
LEMMA SendStep ==
  ASSUME OwnedIInv, NEW u \in Person, NEW e \in Email, send_verification_email(u, e)
  PROVE  VerifiedIInv'
<1> DEFINE own == {a \in address : a[1] = u /\ Same(a[2], e)}
<1>1. PICK a \in IF own = {} THEN {<<u, e>>} ELSE own :
         address' = address \cup {a} /\ mailed' = mailed \cup {[row |-> a, to |-> e]}
  BY DEF send_verification_email
<1>2. UNCHANGED <<verified, opened>>
  BY DEF send_verification_email
<1>3. Same(e, a[2]) /\ a \in Person \X Email
  BY <1>1 DEF Same, OwnedIInv, VerifiedIInv
<1>4. LinksMatch(mailed')
  BY <1>1, <1>3 DEF OwnedIInv, VerifiedIInv, LinksMatch
<1>5. mailed' \subseteq [row : Person \X Email, to : Email] /\ address' \subseteq Person \X Email
  BY <1>1, <1>3 DEF OwnedIInv, VerifiedIInv
<1> QED
  BY <1>2, <1>4, <1>5 DEF OwnedIInv, VerifiedIInv, LinksMatch

\* Opening a link verifies a spelling nobody else has verified.
LEMMA VerifiedStep == OwnedIInv /\ [SignInNext]_signInVars => OwnedIInv'
<1> SUFFICES ASSUME OwnedIInv, [SignInNext]_signInVars PROVE VerifiedIInv'
  BY FormStep DEF OwnedIInv
<1>1. ASSUME NEW k \in mailed, confirm_key(k) PROVE VerifiedIInv'
  <2>1. /\ opened' = opened \cup {k} /\ UNCHANGED <<address, mailed>>
        /\ k.row \in Person \X Email
    BY <1>1 DEF confirm_key, OwnedIInv, VerifiedIInv
  <2>2. LinksMatch(opened') /\ LinksMatch(mailed')
    BY <2>1 DEF OwnedIInv, VerifiedIInv, LinksMatch
  <2>3. CASE \E v \in Person \ {k.row[1]} : <<v, k.row[2]>> \in verified
    <3>1. verified' = verified
      BY <1>1, <2>3 DEF confirm_key
    <3> QED
      BY <2>1, <2>2, <3>1 DEF OwnedIInv, VerifiedIInv, LinksMatch
  <2>4. CASE ~\E v \in Person \ {k.row[1]} : <<v, k.row[2]>> \in verified
    <3>1. verified' = verified \cup {k.row}
      BY <1>1, <2>4 DEF confirm_key
    <3>2. \A a \in verified' : \E j \in opened' : j.row = a
      BY <2>1, <3>1 DEF OwnedIInv, VerifiedIInv
    <3>3. \A e \in Email, u, v \in Person :
             <<u, e>> \in verified' /\ <<v, e>> \in verified' => u = v
      BY <2>1, <2>4, <3>1 DEF OwnedIInv, VerifiedIInv
    <3> QED
      BY <2>1, <2>2, <3>2, <3>3 DEF OwnedIInv, VerifiedIInv, LinksMatch
  <2> QED
    BY <2>3, <2>4
<1>2. ASSUME NEW k \in mailed, ExpireKey(k) PROVE VerifiedIInv'
  BY <1>2 DEF ExpireKey, OwnedIInv, VerifiedIInv, LinksMatch
<1>3. ASSUME NEW f \in Form, register(f) \/ SendChanged(f) PROVE VerifiedIInv'
  <2>1. form[f].email \in Email /\ (form[f].step = "send" => form[f].user \in Person)
    BY <1>3 DEF register, SendChanged, OwnedIInv, FormShape
  <2>2. \E u \in Person : send_verification_email(u, form[f].email)
    BY <1>3, <2>1 DEF register, SendChanged, Fresh
  <2> QED
    BY <2>1, <2>2, SendStep
<1>4. ASSUME NEW u \in Person, resend_verification(u) PROVE VerifiedIInv'
  <2>1. email[u] \in Email /\ send_verification_email(u, email[u])
    BY <1>4 DEF resend_verification, OwnedIInv, FormShape
  <2> QED
    BY <2>1, SendStep
<1>5. CASE \/ \E f \in Form :
                \/ \E u \in users \cup {NoPerson}, e \in Email : clean_email(f, u, e)
                \/ settings_view(f) \/ LeaveForm(f)
           \/ \E u \in Person, e \in Email \cup {NoEmail} : AdminSetsEmail(u, e)
           \/ \E l \in Login :
                \/ \E i \in Uid, c \in users \cup {NoPerson} : get_or_create_user(l, i, c)
                \/ LinkAccount(l) \/ CreateUser(l) \/ LoseLogin(l)
           \/ UNCHANGED signInVars
  <2>1. UNCHANGED <<address, verified, mailed, opened>>
    BY <1>5 DEF clean_email, settings_view, LeaveForm, AdminSetsEmail,
                get_or_create_user, LinkAccount, CreateUser, LoseLogin, signInVars, mail
  <2> QED
    BY <2>1 DEF OwnedIInv, VerifiedIInv, LinksMatch
<1> QED
  BY <1>1, <1>2, <1>3, <1>4, <1>5 DEF SignInNext

\* confirm_key and is_verified: a current address counts as verified only if a link sent to
\* it, in some spelling, was opened by its user, and no spelling is verified for two users,
\* in every reachable state.
THEOREM VerifiedIsOwnedHolds ==
  SignInInit /\ [][SignInNext]_signInVars => []VerifiedIsOwned
<1>1. SignInInit => OwnedIInv
  BY DEF SignInInit, OwnedIInv, FormShape, VerifiedIInv, LinksMatch, Blank
<1>2. OwnedIInv => VerifiedIsOwned
  <2> SUFFICES ASSUME OwnedIInv PROVE VerifiedIsOwned
    OBVIOUS
  <2>1. ASSUME NEW u \in users, is_verified(u)
        PROVE  \E k \in opened : k.row[1] = u /\ Same(k.to, email[u])
    <3>1. PICK a \in verified : a[1] = u /\ Same(a[2], email[u])
      BY <2>1 DEF is_verified
    <3>2. PICK k \in opened : k.row = a
      BY DEF OwnedIInv, VerifiedIInv
    <3>3. Same(k.to, k.row[2])
      BY DEF OwnedIInv, VerifiedIInv, LinksMatch
    <3> QED
      BY <3>1, <3>2, <3>3 DEF Same
  <2>2. ASSUME NEW e \in Email PROVE Cardinality({u \in Person : <<u, e>> \in verified}) <= 1
    <3> DEFINE owners == {u \in Person : <<u, e>> \in verified}
    <3>1. CASE owners = {}
      <4>1. Cardinality({}) = 0
        BY FS_EmptySet
      <4> HIDE DEF owners
      <4>2. Cardinality(owners) <= 1
        BY <3>1, <4>1
      <4> QED
        BY <4>2 DEF owners
    <3>2. ASSUME NEW u \in owners PROVE Cardinality(owners) = 1
      <4>1. owners = {u}
        BY DEF OwnedIInv, VerifiedIInv
      <4> QED
        BY <4>1, FS_Singleton
    <3> QED
      BY <3>1, <3>2
  <2> QED
    BY <2>1, <2>2 DEF VerifiedIsOwned
<1> QED
  BY <1>1, <1>2, VerifiedStep, PTL

-----------------------------------------------------------------------------
(***************************************************************************)
(* Search                                                                  *)
(*                                                                         *)
(* A vector that no task is going to write is of the text and the cast of  *)
(* its film; one that a task is about to write has read them as they are,  *)
(* or another task waits.                                                  *)
(***************************************************************************)
USE SearchIndexAssumption DEF SearchIndexAssumption

\* The domains of the tables.
IndexShape ==
    /\ text \in [Film -> Text \cup {Gone}]
    /\ cast \in [Film -> SUBSET Player]
    /\ DOMAIN name = Player /\ DOMAIN vector = Film
    /\ waiting \in [Film -> Nat]
    /\ DOMAIN indexing = Indexer

\* Once no task waits or works, the vector is current but for the excepted films.
Current(f) ==
    text[f] # Gone /\ f \notin behind /\ waiting[f] = 0 /\ ~Indexed(f) =>
        vector[f].text = text[f] /\ (f \in overtaken \/ vector[f].names = Names(f))

\* The names a task has read are the present ones, unless they changed since.
ReadCurrent(f) ==
    text[f] # Gone /\ f \notin overtaken =>
        \A w \in Indexer : indexing[w].film = f => indexing[w].names = Names(f)

IndexIInv == IndexShape /\ \A f \in Film : Current(f) /\ ReadCurrent(f)

\* The index starts complete, and nobody works on it.
LEMMA IndexInitHolds == IndexInit => IndexIInv
<1> SUFFICES ASSUME IndexInit PROVE IndexIInv
  OBVIOUS
<1>1. IndexShape
  BY DEF IndexInit, IndexShape
<1>2. ASSUME NEW f \in Film PROVE Current(f)
  BY DEF IndexInit, Current
<1>3. ASSUME NEW f \in Film PROVE ReadCurrent(f)
  BY DEF IndexInit, ReadCurrent, Resting
<1> QED
  BY <1>1, <1>2, <1>3 DEF IndexIInv

\* A film whose texts or names change is noted as behind or waits for a task, and the
\* films that tasks are busy with are noted when their names change.
LEMMA TextChanged ==
  ASSUME IndexIInv, IndexShape', NoteRenamed, UNCHANGED <<vector, indexing>>,
         \A g \in Film : text[g] = Gone => text'[g] = Gone,
         \A g \in Film : \/ g \in behind'
                         \/ waiting'[g] > 0
                         \/ /\ Names(g)' = Names(g) /\ text'[g] = text[g]
                            /\ waiting'[g] = waiting[g] /\ g \notin behind
  PROVE  IndexIInv'
<1>1. overtaken' = overtaken \cup {g \in Renamed : Indexed(g)}
  BY DEF NoteRenamed
<1>2. ASSUME NEW g \in Film PROVE Current(g)'
  BY <1>1 DEF IndexIInv, IndexShape, Current, Indexed
<1>3. ASSUME NEW g \in Film PROVE ReadCurrent(g)'
  <2> SUFFICES ASSUME text'[g] # Gone, g \notin overtaken',
                      NEW w \in Indexer, indexing'[w].film = g
               PROVE  indexing'[w].names = Names(g)'
    BY DEF ReadCurrent
  <2>1. Indexed(g)
    BY DEF Indexed
  <2>2. Names(g)' = Names(g) /\ g \notin overtaken /\ text[g] # Gone
    BY <1>1, <2>1 DEF Renamed
  <2> QED
    BY <2>2 DEF IndexIInv, ReadCurrent
<1> QED
  BY <1>2, <1>3 DEF IndexIInv

\* A save queues at least one task, or leaves the film behind.
LEMMA SaveFilmStep ==
  ASSUME IndexIInv, NEW f \in Film, NEW t \in Text, NEW S \in SUBSET Player,
         SaveFilm(f, t, S)
  PROVE  IndexIInv'
<1> DEFINE D == {d \in {S \ cast[f], cast[f] \ S} : d # {}}
<1>1. Cardinality(D) \in Nat
  <2>1. IsFiniteSet({S \ cast[f]} \cup {cast[f] \ S})
    BY FS_Singleton, FS_Union
  <2>2. D \subseteq {S \ cast[f]} \cup {cast[f] \ S}
    OBVIOUS
  <2>3. IsFiniteSet(D)
    BY <2>1, <2>2, FS_Subset
  <2> QED
    BY <2>3, FS_CardinalityType
<1>2. PICK k \in 0..(1 + Cardinality(D)) :
        /\ waiting' = [waiting EXCEPT ![f] = @ + k]
        /\ behind' = IF k < 1 + Cardinality(D) THEN behind \cup {f} ELSE behind
  BY DEF SaveFilm, schedule_search_vector_update
<1> HIDE DEF D
<1>3. /\ text' = [text EXCEPT ![f] = t] /\ cast' = [cast EXCEPT ![f] = S]
      /\ text[f] # Gone /\ NoteRenamed /\ UNCHANGED <<name, vector, indexing>>
  BY DEF SaveFilm
<1>4. IndexShape'
  BY <1>1, <1>2, <1>3 DEF IndexIInv, IndexShape
<1>5. f \in behind' \/ waiting'[f] > 0
  <2>1. CASE k = 0
    BY <1>1, <1>2, <2>1
  <2>2. CASE k # 0
    BY <1>1, <1>2, <2>2 DEF IndexIInv, IndexShape
  <2> QED
    BY <2>1, <2>2
<1>6. ASSUME NEW g \in Film \ {f}
      PROVE  \/ g \in behind'
             \/ /\ Names(g)' = Names(g) /\ text'[g] = text[g]
                /\ waiting'[g] = waiting[g] /\ g \notin behind
  BY <1>2, <1>3 DEF IndexIInv, IndexShape, Names
<1>7. \A g \in Film : text[g] = Gone => text'[g] = Gone
  BY <1>3 DEF IndexIInv, IndexShape
<1> QED
  BY <1>3, <1>4, <1>5, <1>6, <1>7, TextChanged

\* The other changes of a cast or a name leave the films behind.
LEMMA OtherChangeStep ==
  ASSUME IndexIInv,
         \/ \E f \in Film, S \in SUBSET Player : ChangeFromActor(f, S)
         \/ \E a \in Player, n \in Name : RenameActor(a, n)
  PROVE  IndexIInv'
<1>1. CASE \E f \in Film, S \in SUBSET Player : ChangeFromActor(f, S)
  <2>1. PICK f \in Film, S \in SUBSET Player : ChangeFromActor(f, S)
    BY <1>1
  <2>2. /\ cast' = [cast EXCEPT ![f] = S] /\ behind' = behind \cup {f} /\ NoteRenamed
        /\ UNCHANGED <<text, name, vector, waiting, indexing>>
    BY <2>1 DEF ChangeFromActor
  <2>3. IndexShape'
    BY <2>2 DEF IndexIInv, IndexShape
  <2>4. \A g \in Film \ {f} : Names(g)' = Names(g)
    BY <2>2 DEF IndexIInv, IndexShape, Names
  <2> QED
    BY <2>2, <2>3, <2>4, TextChanged
<1>2. CASE \E a \in Player, n \in Name : RenameActor(a, n)
  <2>1. PICK a \in Player, n \in Name : RenameActor(a, n)
    BY <1>2
  <2>2. /\ name' = [name EXCEPT ![a] = n] /\ behind' = behind \cup Renamed /\ NoteRenamed
        /\ UNCHANGED <<text, cast, vector, waiting, indexing>>
    BY <2>1 DEF RenameActor
  <2>3. IndexShape'
    BY <2>2 DEF IndexIInv, IndexShape
  <2>4. \A g \in Film : g \in behind' \/ (g \notin behind /\ Names(g)' = Names(g))
    BY <2>2 DEF Renamed
  <2> QED
    BY <2>2, <2>3, <2>4, TextChanged
<1> QED
  BY <1>1, <1>2

\* A task that starts has read the names as they are.
LEMMA ReadFilmStep ==
  ASSUME IndexIInv, NEW w \in Indexer, NEW f \in Film, ReadFilm(w, f)
  PROVE  IndexIInv'
<1>1. /\ indexing[w] = Resting /\ waiting[f] > 0
      /\ waiting' = [waiting EXCEPT ![f] = @ - 1] /\ behind' = behind \ {f}
      /\ indexing' = IF text[f] = Gone THEN indexing
                     ELSE [indexing EXCEPT ![w] = [film |-> f, text |-> text[f],
                                                   names |-> Names(f)]]
      /\ overtaken' = IF Indexed(f) THEN overtaken ELSE overtaken \ {f}
      /\ UNCHANGED <<text, cast, name, vector>>
  BY DEF ReadFilm
<1>2. IndexShape'
  BY <1>1 DEF IndexIInv, IndexShape
<1>3. \A g : Names(g)' = Names(g)
  BY <1>1 DEF Names
<1>4. ASSUME NEW g \in Film \ {f} PROVE Current(g)' /\ ReadCurrent(g)'
  <2>1. /\ waiting'[g] = waiting[g] /\ (g \in behind' <=> g \in behind)
        /\ (g \in overtaken' <=> g \in overtaken)
    BY <1>1 DEF IndexIInv, IndexShape
  <2>2. \A v \in Indexer : indexing'[v].film = g <=> indexing[v].film = g
    BY <1>1 DEF IndexIInv, IndexShape, Resting
  <2>3. \A v \in Indexer : indexing[v].film = g => indexing'[v] = indexing[v]
    BY <1>1 DEF IndexIInv, IndexShape, Resting
  <2>4. Current(g) /\ ReadCurrent(g)
    BY DEF IndexIInv
  <2>5. Current(g)'
    BY <1>1, <1>3, <2>1, <2>2, <2>4 DEF Current, Indexed
  <2>6. ReadCurrent(g)'
    BY <1>1, <1>3, <2>1, <2>2, <2>3, <2>4 DEF ReadCurrent
  <2> QED
    BY <2>5, <2>6
<1>5. CASE text[f] = Gone
  BY <1>1, <1>2, <1>4, <1>5 DEF IndexIInv, Current, ReadCurrent
<1>6. CASE text[f] # Gone
  <2>1. /\ indexing'[w] = [film |-> f, text |-> text[f], names |-> Names(f)]
        /\ \A v \in Indexer \ {w} : indexing'[v] = indexing[v]
    BY <1>1, <1>6 DEF IndexIInv, IndexShape
  <2>2. Current(f)'
    BY <2>1 DEF Current, Indexed
  <2>3. ASSUME f \notin overtaken', NEW v \in Indexer, indexing'[v].film = f
        PROVE  indexing'[v].names = Names(f)
    <3>1. CASE v = w
      BY <2>1, <3>1
    <3>2. CASE v # w
      <4>1. Indexed(f) /\ indexing[v].film = f
        BY <2>1, <2>3, <3>2 DEF Indexed
      <4>2. f \notin overtaken
        BY <1>1, <2>3, <4>1
      <4> QED
        BY <1>6, <2>1, <3>2, <4>1, <4>2 DEF IndexIInv, ReadCurrent
    <3> QED
      BY <3>1, <3>2
  <2>4. ReadCurrent(f)'
    BY <1>3, <2>3 DEF ReadCurrent
  <2> QED
    BY <1>2, <1>4, <2>2, <2>4 DEF IndexIInv
<1> QED
  BY <1>5, <1>6

\* A task that writes, writes the present texts and the names it has read; one that is
\* lost leaves its film behind; and a film that is deleted is found no more.
LEMMA WriteFilmStep ==
  ASSUME IndexIInv, NEW w \in Indexer, update_search_vector(w) \/ LoseIndexing(w)
  PROVE  IndexIInv'
<1>1. PICK f : f = indexing[w].film
  OBVIOUS
<1>2. /\ indexing' = [indexing EXCEPT ![w] = Resting]
      /\ UNCHANGED <<text, cast, name, waiting, overtaken>>
  BY DEF update_search_vector, LoseIndexing
<1>3. \A g : Names(g)' = Names(g)
  BY <1>2 DEF Names
<1>4. /\ behind \subseteq behind' /\ DOMAIN vector' = Film
      /\ \A g \in Film \ {f} : vector'[g] = vector[g]
      /\ f \in Film /\ text[f] # Gone =>
            \/ f \in behind'
            \/ vector'[f] = [text |-> text[f], names |-> indexing[w].names]
  BY <1>1 DEF update_search_vector, LoseIndexing, Vector, IndexIInv, IndexShape
<1>5. IndexShape'
  BY <1>2, <1>4 DEF IndexIInv, IndexShape
<1>6. /\ indexing'[w].film = NoFilm
      /\ \A v \in Indexer \ {w} : indexing'[v] = indexing[v]
  BY <1>2 DEF IndexIInv, IndexShape, Resting
<1>7. ASSUME NEW g \in Film PROVE ReadCurrent(g)'
  BY <1>2, <1>3, <1>6 DEF IndexIInv, ReadCurrent
<1>8. ASSUME NEW g \in Film PROVE Current(g)'
  <2>1. CASE g # f
    BY <1>1, <1>2, <1>3, <1>4, <1>6, <2>1 DEF IndexIInv, Current, Indexed
  <2>2. CASE g = f
    BY <1>1, <1>2, <1>3, <1>4, <2>2 DEF IndexIInv, Current, ReadCurrent
  <2> QED
    BY <2>1, <2>2
<1> QED
  BY <1>5, <1>7, <1>8 DEF IndexIInv

\* A film that is deleted is not looked for.
LEMMA DeleteFilmStep ==
  ASSUME IndexIInv, NEW f \in Film, DeleteFilm(f) PROVE IndexIInv'
<1>1. /\ text' = [text EXCEPT ![f] = Gone] /\ cast' = [cast EXCEPT ![f] = {}]
      /\ UNCHANGED <<name, vector, waiting, indexing, behind, overtaken>>
  BY DEF DeleteFilm
<1>2. IndexShape' /\ text'[f] = Gone
  BY <1>1 DEF IndexIInv, IndexShape
<1>3. \A g \in Film \ {f} : Names(g)' = Names(g) /\ text'[g] = text[g]
  BY <1>1 DEF IndexIInv, IndexShape, Names
<1> QED
  BY <1>1, <1>2, <1>3 DEF IndexIInv, Current, ReadCurrent, Indexed

\* The invariant is inductive.
LEMMA IndexStep == IndexIInv /\ [IndexNext]_indexVars => IndexIInv'
<1> SUFFICES ASSUME IndexIInv, [IndexNext]_indexVars PROVE IndexIInv'
  OBVIOUS
<1>1. CASE UNCHANGED indexVars
  <2>1. \A g : Names(g)' = Names(g)
    BY <1>1 DEF Names, indexVars
  <2> QED
    BY <1>1, <2>1 DEF IndexIInv, IndexShape, Current, ReadCurrent, Indexed, indexVars
<1> QED
  BY <1>1, SaveFilmStep, OtherChangeStep, ReadFilmStep, WriteFilmStep, DeleteFilmStep
     DEF IndexNext

\* update_search_vector: once no task waits or works, a film is found by its present texts
\* and cast, but for the changes that queue no task, in every reachable state.
THEOREM IndexIsCurrentHolds == IndexInit /\ [][IndexNext]_indexVars => []IndexIsCurrent
<1>1. IndexIInv => IndexIsCurrent
  BY DEF IndexIInv, IndexIsCurrent, Current
<1> QED
  BY <1>1, IndexInitHolds, IndexStep, PTL

-----------------------------------------------------------------------------
(***************************************************************************)
(* Collections                                                             *)
(*                                                                         *)
(* A fragment that the cache holds under the key of the present is the     *)
(* page as it is, unless a touch is still to come; a key of the future     *)
(* holds nothing.                                                          *)
(***************************************************************************)
USE SiteAssumption, CollectionsAssumption DEF SiteAssumption, CollectionsAssumption

\* The domains of the tables; a request that is under way has a collection.
CollectionsShape ==
    /\ DOMAIN sort = Collection /\ DOMAIN items = Collection
    /\ updated \in [Collection -> 0..MaxUpdates]
    /\ DOMAIN fragment = Collection
    /\ \A c \in Collection : DOMAIN fragment[c] = 0..MaxUpdates
    /\ DOMAIN act = Tab
    /\ \A t \in Tab :
          /\ act[t] = [step |-> act[t].step, on |-> act[t].on, movie |-> act[t].movie,
                       read |-> act[t].read, at |-> act[t].at]
          /\ act[t].step # "idle" => act[t].on \in Collection

\* Nothing is stored under a key that is still to come, and nobody is about to.
KeysToCome(c) ==
    /\ \A n \in 0..MaxUpdates : n > updated[c] => fragment[c][n] = Absent
    /\ \A t \in Tab : act[t].step \in {"view", "render"} /\ act[t].on = c
                         => act[t].at \in 0..updated[c]

\* A collection whose items no request is changing shows its list from the cache, and
\* whoever has read its items for the present key has read its list.
Excused(c) == sort[c] = "deleted" \/ Awaited(c) \/ c \in unsure

CurrentPage(c) ==
    ~Excused(c) =>
        /\ fragment[c][updated[c]] \in {Absent, Shown(c)}
        /\ \A t \in Tab : act[t].step = "render" /\ act[t].on = c /\ act[t].at = updated[c]
                             => act[t].read = Shown(c)

PageIInv == CollectionsShape /\ \A c \in Collection : KeysToCome(c) /\ CurrentPage(c)

\* The cache is empty.
LEMMA PageInit == CollectionsInit => PageIInv
<1> SUFFICES ASSUME CollectionsInit PROVE PageIInv
  OBVIOUS
<1> USE DEF CollectionsInit, NoRequest
<1>1. CollectionsShape
  <2>1. updated \in [Collection -> 0..MaxUpdates] /\ DOMAIN fragment = Collection
    OBVIOUS
  <2>2. \A c \in Collection : DOMAIN fragment[c] = 0..MaxUpdates
    OBVIOUS
  <2>3. \A t \in Tab : act[t] = [step |-> "idle", on |-> NoCollection, movie |-> {},
                                 read |-> <<>>, at |-> 0]
    OBVIOUS
  <2>4. DOMAIN act = Tab /\ DOMAIN sort = Collection /\ DOMAIN items = Collection
    OBVIOUS
  <2> QED
    BY <2>1, <2>2, <2>3, <2>4 DEF CollectionsShape
<1>2. ASSUME NEW c \in Collection PROVE KeysToCome(c)
  BY DEF KeysToCome
<1>3. ASSUME NEW c \in Collection PROVE CurrentPage(c)
  BY DEF CurrentPage
<1> QED
  BY <1>1, <1>2, <1>3 DEF PageIInv

\* What a request may do without moving a key: what it renders is older, has just been
\* looked up, or just been read; and a list that changes is excused.
Reads(t) ==
    act'[t].step \in {"view", "render"} =>
        \/ act'[t] = act[t]
        \/ /\ act'[t].step = "view" /\ act'[t].on \in Collection
           /\ act'[t].at = updated[act'[t].on]
        \/ /\ act[t].step = "view" /\ act'[t].step = "render"
           /\ act'[t].on = act[t].on /\ act'[t].at = act[t].at
           /\ act'[t].read = Shown(act[t].on)'

LEMMA NoTouch ==
  ASSUME PageIInv, CollectionsShape', UNCHANGED <<updated, fragment>>,
         \A t \in Tab : Reads(t),
         \A c \in Collection : Excused(c)' \/ (~Excused(c) /\ Shown(c)' = Shown(c))
  PROVE  PageIInv'
<1>1. ASSUME NEW c \in Collection PROVE KeysToCome(c)'
  <2>1. KeysToCome(c) /\ updated[c] \in 0..MaxUpdates
    BY DEF PageIInv, CollectionsShape
  <2>2. ASSUME NEW t \in Tab, act'[t].step \in {"view", "render"}, act'[t].on = c
        PROVE  act'[t].at \in 0..updated[c]
    BY <2>1, <2>2 DEF Reads, KeysToCome
  <2> QED
    BY <2>1, <2>2 DEF KeysToCome
<1>2. ASSUME NEW c \in Collection, ~Excused(c)' PROVE CurrentPage(c)'
  <2>1. Shown(c)' = Shown(c) /\ ~Excused(c) /\ CurrentPage(c)
    BY <1>2 DEF PageIInv
  <2>2. fragment'[c][updated'[c]] \in {Absent, Shown(c)'}
    BY <2>1 DEF CurrentPage
  <2>3. ASSUME NEW t \in Tab, act'[t].step = "render", act'[t].on = c, act'[t].at = updated'[c]
        PROVE  act'[t].read = Shown(c)'
    BY <2>1, <2>3 DEF Reads, CurrentPage
  <2> QED
    BY <2>2, <2>3 DEF CurrentPage
<1> QED
  BY <1>1, <1>2 DEF PageIInv, CurrentPage

\* Lists change with their items and with what is published.
LEMMA ShownKept ==
  ASSUME NEW c, items'[c] = items[c], visible' = visible PROVE Shown(c)' = Shown(c)
<1>1. Titles(items[c])' = Titles(items[c])
  BY DEF Titles
<1> QED
  BY <1>1 DEF Shown

\* Requests that leave the items alone.
LEMMA RequestStep ==
  ASSUME PageIInv, NEW t \in Tab,
         \/ \E c \in Collection :
               \/ my_collections(t, c)
               \/ \E m \in Movie : collection_add(t, c, m)
               \/ \E i \in DOMAIN items[c] : collection_item_move(t, c, i, i + 1)
               \/ collection_detail(t, c)
         \/ ReadItems(t)
  PROVE  PageIInv'
<1>1. UNCHANGED <<items, updated, fragment, visible, unsure>>
  BY DEF my_collections, collection_add, collection_item_move, collection_detail, ReadItems
<1>2. /\ DOMAIN sort' = Collection
      /\ \A d \in Collection : sort[d] = "deleted" => sort'[d] = "deleted"
  BY DEF my_collections, collection_add, collection_item_move, collection_detail, ReadItems,
         PageIInv, CollectionsShape
<1>3. \/ act' = act
      \/ \E c \in Collection, step \in {"add", "move", "view"} : \E movie, read :
            /\ act[t].step = "idle"
            /\ act' = [act EXCEPT ![t] = [step |-> step, on |-> c, movie |-> movie,
                                          read |-> read, at |-> updated[c]]]
      \/ /\ act[t].step = "view"
         /\ act' = [act EXCEPT ![t].step = "render", ![t].read = Shown(act[t].on)]
  BY DEF my_collections, collection_add, collection_item_move, collection_detail, ReadItems,
         Begin
<1>4. \A d \in Collection : Shown(d)' = Shown(d)
  BY <1>1, ShownKept
<1>5. CollectionsShape' /\ \A b \in Tab : Reads(b)
  <2>1. CASE act' = act
    BY <1>1, <1>2, <2>1 DEF PageIInv, CollectionsShape, Reads
  <2>2. ASSUME NEW c \in Collection, NEW step \in {"add", "move", "view"},
               NEW movie, NEW read,
               act' = [act EXCEPT ![t] = [step |-> step, on |-> c, movie |-> movie,
                                          read |-> read, at |-> updated[c]]]
        PROVE  CollectionsShape' /\ \A b \in Tab : Reads(b)
    BY <1>1, <1>2, <2>2 DEF PageIInv, CollectionsShape, Reads
  <2>3. CASE act[t].step = "view" /\
             act' = [act EXCEPT ![t].step = "render", ![t].read = Shown(act[t].on)]
    <3>1. act[t].on \in Collection /\ Shown(act[t].on)' = Shown(act[t].on)
      BY <1>1, <2>3, ShownKept DEF PageIInv, CollectionsShape
    <3>2. /\ act'[t] = [act[t] EXCEPT !.step = "render", !.read = Shown(act[t].on)]
          /\ \A b \in Tab \ {t} : act'[b] = act[b]
      BY <2>3 DEF PageIInv, CollectionsShape
    <3>3. /\ act'[t].step = "render" /\ act'[t].on = act[t].on /\ act'[t].at = act[t].at
          /\ act'[t].read = Shown(act[t].on)
      BY <2>3, <3>2 DEF PageIInv, CollectionsShape
    <3>4. /\ DOMAIN act' = Tab
          /\ act'[t] = [step |-> act'[t].step, on |-> act'[t].on, movie |-> act'[t].movie,
                        read |-> act'[t].read, at |-> act'[t].at]
      BY <2>3, <3>2 DEF PageIInv, CollectionsShape
    <3>5. \A b \in Tab : Reads(b)
      BY <2>3, <3>1, <3>2, <3>3 DEF Reads
    <3>6. CollectionsShape'
      BY <1>1, <1>2, <3>1, <3>2, <3>3, <3>4 DEF PageIInv, CollectionsShape
    <3> QED
      BY <3>5, <3>6
  <2> QED
    BY <1>3, <2>1, <2>2, <2>3
<1>6. \A d \in Collection : Excused(d) => Excused(d)'
  BY <1>1, <1>2, <1>3 DEF PageIInv, CollectionsShape, Excused, Awaited
<1> QED
  BY <1>1, <1>4, <1>5, <1>6, NoTouch

\* A request that has changed the items of a collection is about to touch it.
LEMMA ItemsChanged ==
  ASSUME PageIInv, NEW t \in Tab, NEW c \in Collection, NEW s, NEW k,
         act[t].step # "touch", items' = [items EXCEPT ![c] = s],
         act' = [act EXCEPT ![t] = k], k.step = "touch", k.on = c,
         k = [step |-> k.step, on |-> k.on, movie |-> k.movie, read |-> k.read, at |-> k.at],
         UNCHANGED <<sort, updated, fragment, visible, unsure>>
  PROVE  PageIInv'
<1>1. act'[t] = k /\ \A b \in Tab \ {t} : act'[b] = act[b]
  BY DEF PageIInv, CollectionsShape
<1>2. CollectionsShape'
  BY <1>1 DEF PageIInv, CollectionsShape
<1>3. \A b \in Tab : Reads(b)
  BY <1>1 DEF Reads
<1>4. \A d \in Collection \ {c} : Shown(d)' = Shown(d)
  BY ShownKept DEF PageIInv, CollectionsShape
<1>5. Awaited(c)' /\ \A d \in Collection : Awaited(d) => Awaited(d)'
  BY <1>1 DEF Awaited
<1>6. \A d \in Collection : Excused(d)' \/ (~Excused(d) /\ Shown(d)' = Shown(d))
  BY <1>4, <1>5 DEF Excused
<1> QED
  BY <1>2, <1>3, <1>6, NoTouch

\* A request ends without changing the items; if it was to touch, its collection is unsure.
LEMMA Ended ==
  ASSUME PageIInv, NEW t \in Tab, act' = [act EXCEPT ![t] = NoRequest],
         unsure' = unsure \/ unsure' = unsure \cup {act[t].on},
         act[t].step = "touch" => act[t].on \in unsure',
         UNCHANGED <<sort, items, updated, fragment, visible>>
  PROVE  PageIInv'
<1>1. act'[t] = NoRequest /\ \A b \in Tab \ {t} : act'[b] = act[b]
  BY DEF PageIInv, CollectionsShape
<1>2. CollectionsShape'
  BY <1>1 DEF PageIInv, CollectionsShape, NoRequest
<1>3. \A b \in Tab : Reads(b)
  BY <1>1 DEF Reads, NoRequest
<1>4. \A d \in Collection : Shown(d)' = Shown(d)
  BY ShownKept
<1>5. \A d \in Collection : Excused(d) => Excused(d)'
  BY <1>1 DEF Excused, Awaited
<1> QED
  BY <1>2, <1>3, <1>4, <1>5, NoTouch

\* Requests that change the items, and those that give up.
LEMMA ItemsStep ==
  ASSUME PageIInv, NEW t \in Tab,
         \/ InsertItem(t) \/ Renumber(t) \/ DieEditing(t)
         \/ \E c \in Collection, m \in Movie : collection_item_remove(t, c, m)
  PROVE  PageIInv'
<1>1. CASE InsertItem(t)
  <2>1. act[t].step = "add" /\ act[t].on \in Collection
    BY <1>1 DEF InsertItem, PageIInv, CollectionsShape
  <2>2. UNCHANGED <<sort, updated, fragment, visible, unsure>>
    BY <1>1 DEF InsertItem
  <2>3. \/ items' = items /\ act' = [act EXCEPT ![t] = NoRequest]
        \/ \E s : /\ items' = [items EXCEPT ![act[t].on] = s]
                  /\ act' = [act EXCEPT ![t].step = "touch"]
    BY <1>1 DEF InsertItem, End, Changed
  <2>4. CASE items' = items /\ act' = [act EXCEPT ![t] = NoRequest]
    BY <2>1, <2>2, <2>4, Ended
  <2>5. ASSUME NEW s, items' = [items EXCEPT ![act[t].on] = s],
               act' = [act EXCEPT ![t].step = "touch"]
        PROVE  PageIInv'
    <3>1. PICK k : k = [act[t] EXCEPT !.step = "touch"]
      OBVIOUS
    <3>2. act' = [act EXCEPT ![t] = k]
      BY <2>5, <3>1
    <3>3. /\ k.step = "touch" /\ k.on = act[t].on
          /\ k = [step |-> k.step, on |-> k.on, movie |-> k.movie, read |-> k.read,
                  at |-> k.at]
      BY <3>1 DEF PageIInv, CollectionsShape
    <3> QED
      BY <2>1, <2>2, <2>5, <3>2, <3>3, ItemsChanged
  <2> QED
    BY <2>3, <2>4, <2>5
<1>2. CASE Renumber(t)
  <2>1. act[t].step = "move" /\ act[t].on \in Collection
    BY <1>2 DEF Renumber, PageIInv, CollectionsShape
  <2>2. UNCHANGED <<sort, updated, fragment, visible, unsure>>
    BY <1>2 DEF Renumber
  <2>3. PICK s : items' = [items EXCEPT ![act[t].on] = s]
    BY <1>2 DEF Renumber
  <2>4. PICK k : k = [act[t] EXCEPT !.step = "touch"]
    OBVIOUS
  <2>5. act' = [act EXCEPT ![t] = k]
    BY <1>2, <2>4 DEF Renumber, Changed
  <2>6. /\ k.step = "touch" /\ k.on = act[t].on
        /\ k = [step |-> k.step, on |-> k.on, movie |-> k.movie, read |-> k.read, at |-> k.at]
    BY <2>4 DEF PageIInv, CollectionsShape
  <2> QED
    BY <2>1, <2>2, <2>3, <2>5, <2>6, ItemsChanged
<1>3. CASE DieEditing(t)
  BY <1>3, Ended DEF DieEditing, End
<1>4. ASSUME NEW c \in Collection, NEW m \in Movie, collection_item_remove(t, c, m)
      PROVE  PageIInv'
  <2>1. /\ act[t].step = "idle" /\ UNCHANGED <<sort, updated, fragment, visible, unsure>>
        /\ act' = [act EXCEPT ![t] = [NoRequest EXCEPT !.step = "touch", !.on = c]]
    BY <1>4 DEF collection_item_remove
  <2>2. PICK s : items' = [items EXCEPT ![c] = s]
    BY <1>4 DEF collection_item_remove
  <2>3. PICK k : k = [NoRequest EXCEPT !.step = "touch", !.on = c]
    OBVIOUS
  <2>4. /\ k.step = "touch" /\ k.on = c
        /\ k = [step |-> k.step, on |-> k.on, movie |-> k.movie, read |-> k.read, at |-> k.at]
    BY <2>3 DEF NoRequest
  <2>5. act[t].step # "touch" /\ act' = [act EXCEPT ![t] = k]
    BY <2>1, <2>3
  <2> QED
    BY <2>1, <2>2, <2>4, <2>5, ItemsChanged
<1> QED
  BY <1>1, <1>2, <1>3, <1>4

\* A collection that is deleted has no page; those with a movie that is published, taken
\* down or deleted are unsure.
LEMMA BehindThePage ==
  ASSUME PageIInv,
         \/ \E t \in Tab, c \in Collection : collection_delete(t, c)
         \/ \E m \in Movie : Publish(m) \/ DeleteMovie(m)
  PROVE  PageIInv'
<1>1. ASSUME NEW t \in Tab, NEW c \in Collection, collection_delete(t, c) PROVE PageIInv'
  <2>1. /\ sort' = [sort EXCEPT ![c] = "deleted"] /\ items' = [items EXCEPT ![c] = <<>>]
        /\ UNCHANGED <<updated, fragment, visible, act, unsure>>
    BY <1>1 DEF collection_delete
  <2>2. CollectionsShape' /\ \A b \in Tab : Reads(b)
    BY <2>1 DEF PageIInv, CollectionsShape, Reads
  <2>3. Excused(c)' /\ \A d \in Collection : Excused(d) => Excused(d)'
    BY <2>1 DEF PageIInv, CollectionsShape, Excused, Awaited
  <2>4. \A d \in Collection \ {c} : Shown(d)' = Shown(d)
    BY <2>1, ShownKept DEF PageIInv, CollectionsShape
  <2> QED
    BY <2>1, <2>2, <2>3, <2>4, NoTouch
<1>2. ASSUME NEW m \in Movie, Publish(m) PROVE PageIInv'
  <2>1. /\ visible' = IF m \in visible THEN visible \ {m} ELSE visible \cup {m}
        /\ unsure' = unsure \cup {c \in Collection : m \in Titles(items[c])}
        /\ UNCHANGED <<sort, items, updated, fragment, act>>
    BY <1>2 DEF Publish
  <2>2. CollectionsShape' /\ \A b \in Tab : Reads(b)
    BY <2>1 DEF PageIInv, CollectionsShape, Reads
  <2>3. ASSUME NEW d \in Collection, m \notin Titles(items[d]) PROVE Shown(d)' = Shown(d)
    <3>1. Titles(items[d])' = Titles(items[d])
      BY <2>1 DEF Titles
    <3>2. (Titles(items[d]) \cap visible)' = Titles(items[d]) \cap visible
      BY <2>1, <2>3, <3>1
    <3> QED
      BY <2>1, <3>2 DEF Shown
  <2>4. \A d \in Collection : Excused(d) \/ m \in Titles(items[d]) => Excused(d)'
    BY <2>1 DEF Excused, Awaited
  <2> QED
    BY <2>1, <2>2, <2>3, <2>4, NoTouch
<1>3. ASSUME NEW m \in Movie, DeleteMovie(m) PROVE PageIInv'
  <2>1. /\ visible' = visible \ {m}
        /\ unsure' = unsure \cup {c \in Collection : m \in Titles(items[c])}
        /\ UNCHANGED <<sort, updated, fragment, act>>
    BY <1>3 DEF DeleteMovie
  <2>2. /\ DOMAIN items' = Collection
        /\ \A d \in Collection : m \notin Titles(items[d]) => items'[d] = items[d]
    BY <1>3 DEF DeleteMovie
  <2>3. CollectionsShape' /\ \A b \in Tab : Reads(b)
    BY <2>1, <2>2 DEF PageIInv, CollectionsShape, Reads
  <2>4. ASSUME NEW d \in Collection, m \notin Titles(items[d]) PROVE Shown(d)' = Shown(d)
    <3>1. items'[d] = items[d] /\ Titles(items[d])' = Titles(items[d])
      BY <2>2, <2>4 DEF Titles
    <3>2. (Titles(items[d]) \cap visible)' = Titles(items[d]) \cap visible
      BY <2>1, <2>4, <3>1
    <3> QED
      BY <3>1, <3>2 DEF Shown
  <2>5. \A d \in Collection : Excused(d) \/ m \in Titles(items[d]) => Excused(d)'
    BY <2>1 DEF Excused, Awaited
  <2> QED
    BY <2>1, <2>3, <2>4, <2>5, NoTouch
<1> QED
  BY <1>1, <1>2, <1>3

\* Every touch moves the key to one under which nothing is stored.
LEMMA Touched ==
  ASSUME PageIInv, CollectionsShape', NEW c \in Collection, updated[c] < MaxUpdates,
         updated' = [updated EXCEPT ![c] = @ + 1], unsure' = unsure \ {c},
         UNCHANGED <<items, fragment, visible>>,
         \A d \in Collection \ {c} : sort[d] = "deleted" => sort'[d] = "deleted",
         \A t \in Tab : \/ act'[t] = act[t]
                        \/ /\ act'[t] = NoRequest
                           /\ act[t].step = "touch" => act[t].on = c
  PROVE  PageIInv'
<1>1. /\ updated'[c] = updated[c] + 1 /\ updated[c] \in 0..MaxUpdates
      /\ \A d \in Collection \ {c} : updated'[d] = updated[d]
  BY DEF PageIInv, CollectionsShape
<1>2. \A t \in Tab : act'[t].step # "idle" => act'[t] = act[t]
  BY DEF NoRequest
<1>3. ASSUME NEW d \in Collection PROVE KeysToCome(d)'
  <2>1. updated[d] \in Nat /\ updated'[d] \in Nat /\ updated'[d] >= updated[d]
    BY <1>1 DEF PageIInv, CollectionsShape
  <2>2. KeysToCome(d)
    BY DEF PageIInv
  <2>3. \A n \in 0..MaxUpdates : n > updated'[d] => fragment'[d][n] = Absent
    BY <2>1, <2>2 DEF KeysToCome
  <2>4. \A t \in Tab : act'[t].step \in {"view", "render"} /\ act'[t].on = d
                          => act'[t].at \in 0..updated'[d]
    BY <1>2, <2>1, <2>2 DEF KeysToCome
  <2> QED
    BY <2>3, <2>4 DEF KeysToCome
<1>4. ASSUME NEW d \in Collection \ {c} PROVE CurrentPage(d)'
  <2>1. Excused(d) => Excused(d)'
    BY DEF Excused, Awaited
  <2>2. Shown(d)' = Shown(d)
    BY ShownKept
  <2> QED
    BY <1>1, <1>2, <2>1, <2>2 DEF PageIInv, CurrentPage
<1>5. CurrentPage(c)'
  <2>1. KeysToCome(c)
    BY DEF PageIInv
  <2>2. fragment'[c][updated'[c]] = Absent
    BY <1>1, <2>1 DEF KeysToCome
  <2>3. \A t \in Tab : act'[t].step = "render" /\ act'[t].on = c => act'[t].at # updated'[c]
    BY <1>1, <1>2, <2>1 DEF KeysToCome
  <2> QED
    BY <2>2, <2>3 DEF CurrentPage
<1> QED
  BY <1>3, <1>4, <1>5 DEF PageIInv

\* The touch that ends a change, and the one of an edit.
LEMMA TouchStep ==
  ASSUME PageIInv, NEW t \in Tab,
         \/ _touch_collection(t)
         \/ \E c \in Collection, s \in {"private", "public"} : collection_edit(t, c, s)
  PROVE  PageIInv'
<1>1. CASE _touch_collection(t)
  <2>1. PICK c \in Collection : c = act[t].on
    BY <1>1 DEF _touch_collection, PageIInv, CollectionsShape
  <2>2. /\ updated[c] < MaxUpdates /\ updated' = [updated EXCEPT ![c] = @ + 1]
        /\ unsure' = unsure \ {c} /\ act' = [act EXCEPT ![t] = NoRequest]
        /\ UNCHANGED <<sort, items, fragment, visible>>
    BY <1>1, <2>1 DEF _touch_collection, End
  <2>3. \A b \in Tab : \/ act'[b] = act[b]
                       \/ act'[b] = NoRequest /\ (act[b].step = "touch" => act[b].on = c)
    BY <2>1, <2>2 DEF PageIInv, CollectionsShape
  <2>4. updated' \in [Collection -> 0..MaxUpdates] /\ DOMAIN act' = Tab
    BY <2>2 DEF PageIInv, CollectionsShape
  <2>5. UNCHANGED <<sort, items, fragment>>
    BY <2>2
  <2>6. CollectionsShape'
    BY <2>3, <2>4, <2>5 DEF PageIInv, CollectionsShape, NoRequest
  <2> QED
    BY <2>2, <2>3, <2>6, Touched
<1>2. ASSUME NEW c \in Collection, NEW s \in {"private", "public"}, collection_edit(t, c, s)
      PROVE  PageIInv'
  <2>1. /\ updated[c] < MaxUpdates /\ updated' = [updated EXCEPT ![c] = @ + 1]
        /\ unsure' = unsure \ {c} /\ sort' = [sort EXCEPT ![c] = s]
        /\ UNCHANGED <<items, fragment, visible, act>>
    BY <1>2 DEF collection_edit
  <2>2. CollectionsShape'
    BY <2>1 DEF PageIInv, CollectionsShape
  <2>3. \A d \in Collection \ {c} : sort[d] = "deleted" => sort'[d] = "deleted"
    BY <2>1 DEF PageIInv, CollectionsShape
  <2> QED
    BY <2>1, <2>2, <2>3, Touched
<1> QED
  BY <1>1, <1>2

\* A page is stored under the key it was looked up with, which is current or past.
LEMMA StoreStep ==
  ASSUME PageIInv,
         \/ \E t \in Tab : Render(t)
         \/ \E c \in Collection, n \in 0..MaxUpdates : ExpireFragment(c, n)
  PROVE  PageIInv'
<1>1. \A d \in Collection : Shown(d)' = Shown(d)
  BY ShownKept DEF Render, ExpireFragment
<1>2. ASSUME NEW t \in Tab, Render(t) PROVE PageIInv'
  <2>1. PICK c \in Collection : c = act[t].on
    BY <1>2 DEF Render, PageIInv, CollectionsShape
  <2>2. PICK n \in 0..updated[c] : n = act[t].at
    BY <1>2, <2>1 DEF Render, PageIInv, KeysToCome
  <2>3. /\ act[t].step = "render" /\ act' = [act EXCEPT ![t] = NoRequest]
        /\ \/ fragment' = [fragment EXCEPT ![c][n] = act[t].read]
           \/ fragment' = fragment
        /\ UNCHANGED <<sort, items, updated, visible, unsure>>
    BY <1>2, <2>1, <2>2 DEF Render, End
  <2>4. updated[c] \in 0..MaxUpdates /\ n \in 0..MaxUpdates
    BY DEF PageIInv, CollectionsShape
  <2>5. /\ act'[t] = NoRequest /\ \A b \in Tab \ {t} : act'[b] = act[b]
        /\ \A d \in Collection \ {c} : fragment'[d] = fragment[d]
        /\ \A k \in 0..MaxUpdates \ {n} : fragment'[c][k] = fragment[c][k]
        /\ fragment'[c][n] \in {fragment[c][n], act[t].read}
    BY <2>3, <2>4 DEF PageIInv, CollectionsShape
  <2>6. CollectionsShape'
    <3>1. DOMAIN fragment' = Collection /\ \A d \in Collection : DOMAIN fragment'[d] = 0..MaxUpdates
      BY <2>3 DEF PageIInv, CollectionsShape
    <3>2. DOMAIN act' = Tab
      BY <2>3 DEF PageIInv, CollectionsShape
    <3>3. NoRequest = [step |-> NoRequest.step, on |-> NoRequest.on, movie |-> NoRequest.movie,
                       read |-> NoRequest.read, at |-> NoRequest.at]
          /\ NoRequest.step = "idle"
      BY DEF NoRequest
    <3>4. \A b \in Tab :
            /\ act'[b] = [step |-> act'[b].step, on |-> act'[b].on, movie |-> act'[b].movie,
                          read |-> act'[b].read, at |-> act'[b].at]
            /\ act'[b].step # "idle" => act'[b].on \in Collection
      <4>1. \A b \in Tab \ {t} : act'[b] = act[b]
        BY <2>5
      <4> QED
        BY <2>5, <3>3, <4>1 DEF PageIInv, CollectionsShape
    <3> QED
      BY <2>3, <3>1, <3>2, <3>4 DEF PageIInv, CollectionsShape
  <2>7. ASSUME NEW d \in Collection PROVE KeysToCome(d)'
    BY <2>2, <2>3, <2>4, <2>5 DEF PageIInv, KeysToCome, NoRequest
  <2>8. ASSUME NEW d \in Collection, ~Excused(d)' PROVE CurrentPage(d)'
    <3>1. ~Excused(d) /\ CurrentPage(d)
      BY <2>3, <2>5, <2>8 DEF PageIInv, Excused, Awaited
    <3>2. fragment'[d][updated[d]] \in {Absent, Shown(d)}
      <4>1. CASE d = c /\ n = updated[c]
        BY <2>1, <2>2, <2>3, <2>5, <3>1, <4>1 DEF CurrentPage
      <4>2. CASE ~(d = c /\ n = updated[c])
        BY <2>4, <2>5, <3>1, <4>2 DEF CurrentPage
      <4> QED
        BY <4>1, <4>2
    <3>3. ASSUME NEW b \in Tab, act'[b].step = "render", act'[b].on = d, act'[b].at = updated[d]
          PROVE  act'[b].read = Shown(d)
      BY <2>5, <3>1, <3>3 DEF CurrentPage, NoRequest
    <3> QED
      BY <1>1, <2>3, <3>2, <3>3 DEF CurrentPage
  <2> QED
    BY <2>6, <2>7, <2>8 DEF PageIInv, CurrentPage
<1>3. ASSUME NEW c \in Collection, NEW n \in 0..MaxUpdates, ExpireFragment(c, n)
      PROVE  PageIInv'
  <2>1. /\ fragment' = [fragment EXCEPT ![c][n] = Absent]
        /\ UNCHANGED <<sort, items, updated, visible, act, unsure>>
    BY <1>3 DEF ExpireFragment
  <2>2. CollectionsShape'
    BY <2>1 DEF PageIInv, CollectionsShape
  <2>3. \A d \in Collection, k \in 0..MaxUpdates : fragment'[d][k] \in {fragment[d][k], Absent}
    BY <2>1 DEF PageIInv, CollectionsShape
  <2>4. ASSUME NEW d \in Collection PROVE KeysToCome(d)'
    BY <2>1, <2>3 DEF PageIInv, KeysToCome
  <2>5. ASSUME NEW d \in Collection PROVE CurrentPage(d)'
    <3>1. updated[d] \in 0..MaxUpdates /\ CurrentPage(d)
      BY DEF PageIInv, CollectionsShape
    <3>2. Excused(d)' <=> Excused(d)
      BY <2>1 DEF Excused, Awaited
    <3> QED
      BY <1>1, <2>1, <2>3, <3>1, <3>2 DEF CurrentPage
  <2> QED
    BY <2>2, <2>4, <2>5 DEF PageIInv
<1> QED
  BY <1>2, <1>3

\* The invariant is inductive.
LEMMA PageStep == PageIInv /\ [CollectionsNext]_collectionVars => PageIInv'
<1> SUFFICES ASSUME PageIInv, [CollectionsNext]_collectionVars PROVE PageIInv'
  OBVIOUS
<1>1. CASE UNCHANGED collectionVars
  <2>1. UNCHANGED <<sort, items, updated, fragment, visible, act, unsure>>
    BY <1>1 DEF collectionVars
  <2>2. CollectionsShape' /\ \A b \in Tab : Reads(b)
    BY <2>1 DEF PageIInv, CollectionsShape, Reads
  <2>3. \A d \in Collection : Excused(d) => Excused(d)'
    BY <2>1 DEF Excused, Awaited
  <2> QED
    BY <2>1, <2>2, <2>3, ShownKept, NoTouch
<1>2. ASSUME NEW t \in Tab, NEW c \in Collection,
             \/ my_collections(t, c)
             \/ \E s \in {"private", "public"} : collection_edit(t, c, s)
             \/ collection_delete(t, c)
             \/ \E m \in Movie : collection_add(t, c, m)
             \/ \E m \in Movie : collection_item_remove(t, c, m)
             \/ \E i \in DOMAIN items[c] : collection_item_move(t, c, i, i + 1)
             \/ collection_detail(t, c)
      PROVE  PageIInv'
  BY <1>2, RequestStep, ItemsStep, BehindThePage, TouchStep
<1> QED
  BY <1>1, <1>2, RequestStep, ItemsStep, BehindThePage, TouchStep, StoreStep
     DEF CollectionsNext

\* _touch_collection: the page of a collection that the cache holds under the present key
\* shows its list, unless a touch is to come, a worker died before it, or a movie of it
\* changed its status or was deleted since, in every reachable state.
THEOREM PageIsCurrentHolds ==
  CollectionsInit /\ [][CollectionsNext]_collectionVars => []PageIsCurrent
<1>1. PageIInv => PageIsCurrent
  BY DEF PageIInv, CurrentPage, Excused, PageIsCurrent, Living
<1> QED
  BY <1>1, PageInit, PageStep, PTL

-----------------------------------------------------------------------------
(***************************************************************************)
(* Browsing                                                                *)
(*                                                                         *)
(* What is stored, or will be under the present version, is what would be  *)
(* computed now: a reader whose key is old stores elsewhere.               *)
(***************************************************************************)
USE BrowsingAssumption DEF BrowsingAssumption

\* What the catalogue as it is now makes right for a key.
Fits(k, v) ==
    CASE k = "trending"     -> Full(v)
      [] k = "genre_facets" -> v = genre_facets
      [] OTHER              -> v \in compute_similar_ids(k)

SlotsShape ==
    /\ DOMAIN status = Movie /\ DOMAIN slot = Key /\ DOMAIN page = Tab
    /\ crossed \subseteq {"trending"}
    /\ \A t \in Tab :
         page[t] = [step |-> page[t].step, key |-> page[t].key, value |-> page[t].value,
                    version |-> page[t].version]
    /\ computed = [ids |-> computed.ids, version |-> computed.version]
    /\ computed.version \in {"present", "past"}

\* The slots, and what readers and the task are about to store in them.
SlotFits(k) == slot[k] # Missing => Fits(k, slot[k]) \/ k \in crossed
PageFits(t) ==
    page[t].step = "store" /\ page[t].version = "present" => Fits(page[t].key, page[t].value)
TaskFits == computed.ids # Missing /\ computed.version = "present" => Full(computed.ids)

SlotsIInv ==
    /\ SlotsShape
    /\ ~aged => /\ \A k \in Key : SlotFits(k)
                /\ \A t \in Tab : PageFits(t)
                /\ TaskFits

\* What fits depends on what is public, and on nothing else that changes.
LEMMA FitsKept ==
  ASSUME Published' = Published, NEW k, NEW v PROVE Fits(k, v)' = Fits(k, v)
<1>1. Full(v)' = Full(v)
  BY DEF Full, Fill
<1>2. genre_facets' = genre_facets
  BY DEF genre_facets, Counted
<1>3. compute_similar_ids(k)' = compute_similar_ids(k)
  BY DEF compute_similar_ids, Top, Fill
<1> QED
  BY <1>1, <1>2, <1>3 DEF Fits

\* A carousel stays as long as there can be while the same movies are public.
LEMMA FullKept == ASSUME Published' = Published, NEW v PROVE Full(v)' = Full(v)
BY DEF Full, Fill

\* What is public depends on the status, and on time for scheduled movies only.
LEMMA PublishedKept ==
  ASSUME status' = status, \A m \in Movie : status[m] = "scheduled" => (m \in due' <=> m \in due)
  PROVE  Published' = Published
BY DEF Published, published

\* What a producer returns fits.
LEMMA ProducerFits == ASSUME NEW k, NEW v \in producer(k) PROVE Fits(k, v)
<1>1. CASE k = "trending"
  <2>1. v \in compute_trending_ids
    BY <1>1 DEF producer
  <2>2. Full(v)
    BY <2>1 DEF compute_trending_ids, Top, Full
  <2> QED
    BY <1>1, <2>2 DEF Fits
<1>2. CASE k # "trending" /\ k = "genre_facets"
  BY <1>2 DEF producer, Fits
<1>3. CASE k # "trending" /\ k # "genre_facets"
  BY <1>3 DEF producer, Fits
<1> QED
  BY <1>1, <1>2, <1>3

\* Steps that publish and withdraw nothing, store nothing new and start nothing.
LEMMA SlotsKept ==
  ASSUME SlotsIInv, Published' = Published, SlotsShape', aged' = aged,
         ~aged => \A k \in Key : SlotFits(k)',
         ~aged => \A t \in Tab : PageFits(t)',
         ~aged => TaskFits'
  PROVE  SlotsIInv'
BY DEF SlotsIInv

\* What is stored still fits when the same movies are public.
LEMMA SlotsSame ==
  ASSUME SlotsIInv, Published' = Published, UNCHANGED <<slot, crossed, aged>>
  PROVE  ~aged => \A k \in Key : SlotFits(k)'
BY FitsKept DEF SlotsIInv, SlotFits

\* So does what readers are about to store, when no reader has computed more.
LEMMA PagesSame ==
  ASSUME SlotsIInv, Published' = Published,
         \A t \in Tab : page'[t] = page[t] \/ page'[t].step # "store"
  PROVE  ~aged => \A t \in Tab : PageFits(t)'
BY FitsKept DEF SlotsIInv, PageFits

\* And what the task is about to store.
LEMMA TaskSame ==
  ASSUME SlotsIInv, Published' = Published, UNCHANGED computed
  PROVE  ~aged => TaskFits'
BY FullKept DEF SlotsIInv, TaskFits

\* A bump empties the cache and outdates who computes.
LEMMA BumpStep == ASSUME SlotsIInv, Bump, DOMAIN status' = Movie PROVE SlotsIInv'
<1>1. slot' = [k \in Key |-> Missing] /\ crossed' = {}
  BY DEF Bump
<1>2. /\ DOMAIN page' = Tab
      /\ \A t \in Tab : page'[t] = IF page[t] = NoPage THEN NoPage
                                   ELSE [page[t] EXCEPT !.version = "past"]
  BY DEF Bump
<1>3. \A t \in Tab : \/ page'[t] = NoPage
                     \/ page'[t] = [step |-> page[t].step, key |-> page[t].key,
                                   value |-> page[t].value, version |-> "past"]
  BY <1>2 DEF SlotsIInv, SlotsShape
<1>4. computed' = NoTask \/ computed' = [ids |-> computed.ids, version |-> "past"]
  BY DEF Bump, SlotsIInv, SlotsShape
<1>5. \A k \in Key : SlotFits(k)'
  BY <1>1 DEF SlotFits
<1>6. \A t \in Tab : PageFits(t)'
  <2>1. ASSUME NEW t \in Tab, page'[t] = NoPage PROVE page'[t].step # "store"
    BY <2>1 DEF NoPage
  <2>2. ASSUME NEW t \in Tab, page'[t] # NoPage PROVE page'[t].version = "past"
    <3>1. PICK step, k, value : page'[t] =
            [step |-> step, key |-> k, value |-> value, version |-> "past"]
      BY <1>3, <2>2
    <3> QED
      BY <3>1
  <2> QED
    BY <2>1, <2>2 DEF PageFits
<1>7. TaskFits'
  BY <1>4 DEF TaskFits, NoTask
<1>8. SlotsShape'
  <2>1. \A t \in Tab : page'[t] = [step |-> page'[t].step, key |-> page'[t].key,
                                value |-> page'[t].value, version |-> page'[t].version]
    <3> SUFFICES ASSUME NEW t \in Tab
                 PROVE  page'[t] = [step |-> page'[t].step, key |-> page'[t].key,
                                    value |-> page'[t].value, version |-> page'[t].version]
      OBVIOUS
    <3>1. PICK step, k, value, version : page'[t] =
            [step |-> step, key |-> k, value |-> value, version |-> version]
      BY <1>3 DEF NoPage
    <3> QED
      BY <3>1
  <2>2. /\ computed' = [ids |-> computed'.ids, version |-> computed'.version]
        /\ computed'.version \in {"present", "past"}
    BY <1>4 DEF NoTask
  <2> QED
    BY <1>1, <1>2, <2>1, <2>2 DEF SlotsShape
<1> QED
  BY <1>5, <1>6, <1>7, <1>8 DEF SlotsIInv

\* The invariant is inductive: a change of status empties the cache, a movie that comes
\* due makes it aged.
LEMMA SlotsStep == SlotsIInv /\ [BrowsingNext]_browsingVars => SlotsIInv'
<1> SUFFICES ASSUME SlotsIInv, [BrowsingNext]_browsingVars PROVE SlotsIInv'
  OBVIOUS
<1>1. CASE \/ \E u \in User, m \in Movie : Watch(u, m)
           \/ WeekPasses \/ UNCHANGED browsingVars
  <2>1. UNCHANGED <<status, due, slot, page, computed, aged, crossed>>
    BY <1>1 DEF Watch, WeekPasses, browsingVars
  <2>2. Published' = Published
    BY <2>1, PublishedKept
  <2>3. SlotsShape'
    BY <2>1 DEF SlotsIInv, SlotsShape
  <2> QED
    BY <2>1, <2>2, <2>3, SlotsSame, PagesSame, TaskSame, SlotsKept
<1>2. ASSUME NEW t \in Tab, Leave(t) \/ \E k \in Key : Miss(t, k) PROVE SlotsIInv'
  <2>1. UNCHANGED <<status, due, slot, computed, aged, crossed>>
    BY <1>2 DEF Leave, Miss, content
  <2>7. \E step \in {"idle", "compute"} : \E k : page' = [page EXCEPT ![t] =
             [step |-> step, key |-> k, value |-> Missing, version |-> "present"]]
    BY <1>2 DEF Leave, Miss, NoPage
  <2>8. PICK step \in {"idle", "compute"} : \E k : page' = [page EXCEPT ![t] =
             [step |-> step, key |-> k, value |-> Missing, version |-> "present"]]
    BY <2>7
  <2>9. PICK k : page' = [page EXCEPT ![t] =
             [step |-> step, key |-> k, value |-> Missing, version |-> "present"]]
    BY <2>8
  <2>10. PICK r : r = [step |-> step, key |-> k, value |-> Missing, version |-> "present"]
    OBVIOUS
  <2>2. /\ page' = [page EXCEPT ![t] = r]
        /\ r = [step |-> r.step, key |-> r.key, value |-> r.value, version |-> r.version]
        /\ r.step # "store"
    BY <2>9, <2>10
  <2>3. Published' = Published
    BY <2>1, PublishedKept
  <2>4. page'[t] = r /\ \A b \in Tab \ {t} : page'[b] = page[b]
    BY <2>2 DEF SlotsIInv, SlotsShape
  <2>5. SlotsShape'
    BY <2>1, <2>2, <2>4 DEF SlotsIInv, SlotsShape
  <2>6. \A b \in Tab : page'[b] = page[b] \/ page'[b].step # "store"
    BY <2>2, <2>4
  <2> QED
    BY <2>1, <2>3, <2>5, <2>6, SlotsSame, PagesSame, TaskSame, SlotsKept
<1>3. ASSUME NEW t \in Tab, Compute(t) PROVE SlotsIInv'
  <2>1. UNCHANGED <<status, due, slot, computed, aged, crossed>>
    BY <1>3 DEF Compute, content
  <2>10. PICK k : k = page[t].key
    OBVIOUS
  <2>2. PICK v \in producer(k) :
           page' = [page EXCEPT ![t].step = "store", ![t].value = v]
    BY <1>3, <2>10 DEF Compute
  <2>3. Published' = Published
    BY <2>1, PublishedKept
  <2>4. /\ page'[t] = [page[t] EXCEPT !.step = "store", !.value = v]
        /\ \A b \in Tab \ {t} : page'[b] = page[b]
    BY <2>2 DEF SlotsIInv, SlotsShape
  <2>5. page'[t] = [step |-> "store", key |-> page[t].key, value |-> v,
                    version |-> page[t].version]
    BY <2>4 DEF SlotsIInv, SlotsShape
  <2>6. SlotsShape'
    BY <2>1, <2>2, <2>4, <2>5 DEF SlotsIInv, SlotsShape
  <2>7. Fits(k, v)'
    BY <2>3, ProducerFits, FitsKept
  <2>8. PageFits(t)'
    <3>1. page'[t].key = k /\ page'[t].value = v
      BY <2>5, <2>10
    <3> QED
      BY <2>7, <3>1 DEF PageFits
  <2>9. ASSUME ~aged, NEW b \in Tab \ {t} PROVE PageFits(b)'
    BY <2>3, <2>4, <2>9, FitsKept DEF SlotsIInv, PageFits
  <2> QED
    BY <2>1, <2>3, <2>6, <2>8, <2>9, SlotsSame, TaskSame, SlotsKept
<1>4. ASSUME NEW t \in Tab, get_or_set_catalog(t) PROVE SlotsIInv'
  <2>1. UNCHANGED <<status, due, computed, aged>>
    BY <1>4 DEF get_or_set_catalog, content
  <2>2. page' = [page EXCEPT ![t] = NoPage] /\ page[t].step = "store"
    BY <1>4 DEF get_or_set_catalog
  <2>3. Published' = Published
    BY <2>1, PublishedKept
  <2>4. page'[t] = NoPage /\ \A b \in Tab \ {t} : page'[b] = page[b]
    BY <2>2 DEF SlotsIInv, SlotsShape
  <2>5. DOMAIN slot' = Key
    BY <1>4 DEF get_or_set_catalog, SlotsIInv, SlotsShape
  <2>9. crossed' \subseteq crossed
    BY <1>4 DEF get_or_set_catalog
  <2>6. SlotsShape'
    BY <2>1, <2>2, <2>4, <2>5, <2>9 DEF SlotsIInv, SlotsShape, NoPage
  <2>7. \A b \in Tab : page'[b] = page[b] \/ page'[b].step # "store"
    BY <2>4 DEF NoPage
  <2>8. ASSUME ~aged, NEW k \in Key PROVE SlotFits(k)'
    <3>1. CASE page[t].version # "present"
      <4>1. UNCHANGED <<slot, crossed>>
        BY <1>4, <3>1 DEF get_or_set_catalog
      <4> QED
        BY <2>1, <2>3, <2>8, <4>1, SlotsSame
    <3>2. CASE page[t].version = "present"
      <4>1. /\ slot' = [slot EXCEPT ![page[t].key] = page[t].value]
            /\ crossed' = crossed \ {page[t].key}
        BY <1>4, <3>2 DEF get_or_set_catalog
      <4>2. CASE k = page[t].key
        <5>1. PICK v : v = page[t].value
          OBVIOUS
        <5>2. slot'[k] = v /\ Fits(k, v)
          BY <2>2, <2>8, <3>2, <4>1, <4>2, <5>1 DEF SlotsIInv, SlotsShape, PageFits
        <5>3. Fits(k, v)'
          BY <2>3, <5>2, FitsKept
        <5> QED
          BY <5>2, <5>3 DEF SlotFits
      <4>3. CASE k # page[t].key
        <5>1. PICK v : v = slot[k]
          OBVIOUS
        <5>2. slot'[k] = v /\ (k \in crossed => k \in crossed')
          BY <4>1, <4>3, <5>1 DEF SlotsIInv, SlotsShape
        <5>3. v # Missing => Fits(k, v) \/ k \in crossed
          BY <2>8, <5>1 DEF SlotsIInv, SlotFits
        <5>4. Fits(k, v)' = Fits(k, v)
          BY <2>3, FitsKept
        <5> QED
          BY <5>2, <5>3, <5>4 DEF SlotFits
      <4> QED
        BY <4>2, <4>3
    <3> QED
      BY <3>1, <3>2
  <2> QED
    BY <2>1, <2>3, <2>6, <2>7, <2>8, PagesSame, TaskSame, SlotsKept
<1>5. CASE \/ \E m \in Movie, s \in {"draft", "scheduled", "published"} : SetStatus(m, s)
           \/ publish_scheduled_movies
  <2>1. Bump /\ DOMAIN status' = Movie
    BY <1>5 DEF SetStatus, publish_scheduled_movies, SlotsIInv, SlotsShape
  <2> QED
    BY <2>1, BumpStep
<1>6. ASSUME NEW m \in Movie, ComesDue(m) PROVE SlotsIInv'
  <2>1. UNCHANGED <<status, slot, page, computed, crossed>> /\ aged' = TRUE
    BY <1>6 DEF ComesDue
  <2>2. SlotsShape'
    BY <2>1 DEF SlotsIInv, SlotsShape
  <2> QED
    BY <2>1, <2>2 DEF SlotsIInv
<1>7. CASE recompute_trending_movies
  <2>1. UNCHANGED <<status, due, slot, page, aged, crossed>>
    BY <1>7 DEF recompute_trending_movies, content
  <2>2. PICK ids \in compute_trending_ids : computed' = [ids |-> ids, version |-> "present"]
    BY <1>7 DEF recompute_trending_movies
  <2>3. Published' = Published
    BY <2>1, PublishedKept
  <2>4. SlotsShape'
    BY <2>1, <2>2 DEF SlotsIInv, SlotsShape
  <2>5. Full(ids)
    BY DEF compute_trending_ids, Top, Full
  <2>6. Full(ids)'
    BY <2>3, <2>5, FullKept
  <2>7. TaskFits'
    BY <2>2, <2>6 DEF TaskFits
  <2> QED
    BY <2>1, <2>3, <2>4, <2>7, SlotsSame, PagesSame, SlotsKept
<1>8. CASE StoreTrending
  <2>1. UNCHANGED <<status, due, page, aged>> /\ computed' = NoTask
    BY <1>8 DEF StoreTrending, content
  <2>2. /\ slot' = [slot EXCEPT !["trending"] = computed.ids]
        /\ crossed' = IF computed.version = "past" THEN {"trending"} ELSE {}
    BY <1>8 DEF StoreTrending
  <2>3. Published' = Published
    BY <2>1, PublishedKept
  <2>4. SlotsShape'
    BY <2>1, <2>2 DEF SlotsIInv, SlotsShape, NoTask
  <2>5. ASSUME ~aged, NEW k \in Key PROVE SlotFits(k)'
    <3>1. CASE k = "trending"
      <4>1. PICK v : v = computed.ids
        OBVIOUS
      <4>2. slot'[k] = v
        BY <2>2, <3>1, <4>1 DEF SlotsIInv, SlotsShape
      <4>3. CASE computed.version = "past"
        BY <2>2, <3>1, <4>3 DEF SlotFits
      <4>4. CASE v # Missing /\ computed.version = "present"
        <5>1. Full(v)
          BY <2>5, <4>1, <4>4 DEF SlotsIInv, TaskFits
        <5>2. Full(v)'
          BY <2>3, <5>1, FullKept
        <5>3. Fits(k, v)'
          BY <3>1, <5>2 DEF Fits
        <5> QED
          BY <4>2, <5>3 DEF SlotFits
      <4>5. CASE v = Missing
        BY <4>2, <4>5 DEF SlotFits
      <4>6. computed.version \in {"present", "past"}
        BY DEF SlotsIInv, SlotsShape
      <4> QED
        BY <4>3, <4>4, <4>5, <4>6
    <3>2. CASE k # "trending"
      <4>1. slot'[k] = slot[k]
        BY <2>2, <3>2 DEF SlotsIInv, SlotsShape
      <4>2. PICK v : v = slot[k]
        OBVIOUS
      <4>3. v # Missing => Fits(k, v)
        BY <2>5, <3>2, <4>2 DEF SlotsIInv, SlotsShape, SlotFits
      <4>4. Fits(k, v)' = Fits(k, v)
        BY <2>3, FitsKept
      <4> QED
        BY <4>1, <4>2, <4>3, <4>4 DEF SlotFits
    <3> QED
      BY <3>1, <3>2
  <2>6. TaskFits'
    BY <2>1 DEF TaskFits, NoTask
  <2> QED
    BY <2>1, <2>3, <2>4, <2>5, <2>6, PagesSame, SlotsKept
<1>9. ASSUME NEW k \in Key, ExpireSlot(k) PROVE SlotsIInv'
  <2>1. /\ slot' = [slot EXCEPT ![k] = Missing]
        /\ UNCHANGED <<status, due, page, computed, aged, crossed>>
    BY <1>9 DEF ExpireSlot, content
  <2>2. Published' = Published
    BY <2>1, PublishedKept
  <2>3. SlotsShape'
    BY <2>1 DEF SlotsIInv, SlotsShape
  <2>4. ASSUME ~aged, NEW j \in Key PROVE SlotFits(j)'
    <3>1. slot'[j] = slot[j] \/ slot'[j] = Missing
      BY <2>1 DEF SlotsIInv, SlotsShape
    <3>2. PICK v : v = slot[j]
      OBVIOUS
    <3>3. v # Missing => Fits(j, v) \/ j \in crossed
      BY <2>4, <3>2 DEF SlotsIInv, SlotFits
    <3>4. Fits(j, v)' = Fits(j, v)
      BY <2>2, FitsKept
    <3> QED
      BY <2>1, <3>1, <3>2, <3>3, <3>4 DEF SlotFits
  <2> QED
    BY <2>1, <2>2, <2>3, <2>4, PagesSame, TaskSame, SlotsKept
<1> QED
  BY <1>1, <1>2, <1>3, <1>4, <1>5, <1>6, <1>7, <1>8, <1>9 DEF BrowsingNext

\* An empty cache fits.
LEMMA SlotsInit == BrowsingInit => SlotsIInv
<1> SUFFICES ASSUME BrowsingInit PROVE SlotsIInv
  OBVIOUS
<1>1. /\ \A t \in Tab : page[t] = [step |-> "idle", key |-> "trending", value |-> Missing,
                                 version |-> "present"]
      /\ DOMAIN page = Tab /\ DOMAIN status = Movie /\ DOMAIN slot = Key /\ crossed = {}
      /\ computed = [ids |-> Missing, version |-> "present"]
  BY DEF BrowsingInit, NoPage, NoTask
<1>2. SlotsShape
  BY <1>1 DEF SlotsShape
<1>3. (\A k \in Key : SlotFits(k)) /\ (\A t \in Tab : PageFits(t)) /\ TaskFits
  BY <1>1 DEF BrowsingInit, SlotFits, PageFits, TaskFits
<1> QED
  BY <1>2, <1>3 DEF SlotsIInv

\* get_or_set_catalog: until a movie comes due, the similar movies of the cache are those
\* that would be found, and the trending ones are public and as many as there can be,
\* unless the task computed them before a bump, in every reachable state.
THEOREM CarouselsAreCurrentHolds ==
  "trending" \notin Movie /\ "genre_facets" \notin Movie =>
      (BrowsingInit /\ [][BrowsingNext]_browsingVars => []CarouselsAreCurrent)
<1> SUFFICES ASSUME "trending" \notin Movie, "genre_facets" \notin Movie
             PROVE  BrowsingInit /\ [][BrowsingNext]_browsingVars => []CarouselsAreCurrent
  OBVIOUS
<1>1. SlotsIInv => CarouselsAreCurrent
  <2> SUFFICES ASSUME SlotsIInv, ~aged
               PROVE  /\ slot["trending"] # Missing /\ crossed = {} => Full(slot["trending"])
                      /\ \A m \in Movie : slot[m] # Missing => slot[m] \in compute_similar_ids(m)
    BY DEF CarouselsAreCurrent
  <2>1. \A k \in Key : SlotFits(k)
    BY DEF SlotsIInv
  <2>2. slot["trending"] # Missing /\ crossed = {} => Full(slot["trending"])
    <3>1. SlotFits("trending")
      BY <2>1 DEF Key
    <3> QED
      BY <3>1 DEF SlotFits, Fits, SlotsIInv, SlotsShape
  <2>3. ASSUME NEW m \in Movie, slot[m] # Missing PROVE slot[m] \in compute_similar_ids(m)
    <3>1. SlotFits(m) /\ m # "trending" /\ m # "genre_facets"
      BY <2>1 DEF Key
    <3> QED
      BY <2>3, <3>1 DEF SlotFits, Fits, SlotsIInv, SlotsShape
  <2> QED
    BY <2>2, <2>3
<1> QED
  BY <1>1, SlotsInit, SlotsStep, PTL

\* genre_facets: the number beside a genre is the number of movies its filter returns,
\* until a movie comes due, in every reachable state.
THEOREM FacetsAgreeHolds == BrowsingInit /\ [][BrowsingNext]_browsingVars => []FacetsAgree
<1>2. ASSUME SlotsIInv PROVE FacetsAgree
  <2> SUFFICES ASSUME slot["genre_facets"] # Missing, ~aged, NEW g \in Genre
               PROVE  Cardinality(FilterMoviesView({g}, "any")) =
                        IF g \in DOMAIN slot["genre_facets"] THEN slot["genre_facets"][g] ELSE 0
    BY DEF FacetsAgree
  <2>1. slot["genre_facets"] = genre_facets
    <3>1. PICK k : k = "genre_facets" /\ k # "trending"
      OBVIOUS
    <3>2. SlotFits(k) /\ k \notin crossed
      BY <1>2, <3>1 DEF SlotsIInv, SlotsShape, Key
    <3>3. Fits(k, slot[k])
      BY <3>1, <3>2 DEF SlotFits
    <3> QED
      BY <3>1, <3>3 DEF Fits
  <2>2. FilterMoviesView({g}, "any") = {m \in Published : g \in Genres(m)}
    BY DEF FilterMoviesView
  <2>3. g \in DOMAIN genre_facets <=> {m \in Published : g \in Genres(m)} # {}
    BY DEF genre_facets, Counted
  <2>4. g \in DOMAIN genre_facets =>
          genre_facets[g] = Cardinality({m \in Published : g \in Genres(m)})
    BY DEF genre_facets, Counted
  <2>5. Cardinality({}) = 0
    BY FS_EmptySet
  <2> QED
    BY <2>1, <2>2, <2>3, <2>4, <2>5
<1> QED
  BY <1>2, SlotsInit, SlotsStep, PTL

-----------------------------------------------------------------------------
(***************************************************************************)
(* The translation catalogue                                               *)
(*                                                                         *)
(* What the translator wrote last is what the one entry of its string      *)
(* says, and the entry has a plural if the last extraction found one.      *)
(***************************************************************************)
TranslationsSpec == TranslationsInit /\ [][TranslationsNext]_catalogueVars

\* An entry of the .po file: its text is in one form or two.
Shaped(e) ==
    /\ e = [key |-> e.key, plural |-> e.plural, fuzzy |-> e.fuzzy, msgstr |-> e.msgstr]
    /\ e.key \in Phrase /\ e.msgstr \in Forms

\* The .po file has an entry per string of the last extraction, with a plural if any of
\* its uses then had one, and its text is what the translator wrote last.
PoEntries ==
    /\ \A e \in po : Shaped(e)
    /\ \A e, f \in po : e.key = f.key => e = f
    /\ \A e \in po : [key |-> e.key, plural |-> TRUE] \in extracted => e.plural
    /\ \A e \in po : e.msgstr[1] = work[e.key]
    /\ work = [k \in Phrase |-> work[k]]
    /\ \A k \in Phrase : work[k] # Empty => \E e \in po : e.key = k
    /\ source \subseteq Use

\* A first form that is not empty makes an entry translated, blank forms do not.
LEMMA FirstForm ==
  ASSUME NEW e, e.msgstr \in Forms, e.msgstr[1] # Empty PROVE translated(e)
<1>1. 1 \in DOMAIN e.msgstr
  BY DEF Forms
<1> QED
  BY <1>1 DEF translated

LEMMA FreshEntries ==
  ASSUME source \subseteq Use, NEW e \in merge_extracted(source)
  PROVE  /\ e.key \in Keys(source) /\ e.key \in Phrase /\ e.plural = Pluralised(e.key, source)
         /\ e.msgstr[1] = Empty /\ Shaped(e) /\ ~translated(e)
<1>1. PICK k \in Keys(source) :
        e = [key |-> k, plural |-> Pluralised(k, source), fuzzy |-> FALSE,
             msgstr |-> IF Pluralised(k, source) THEN <<Empty, Empty>> ELSE <<Empty>>]
  BY DEF merge_extracted
<1>2. e.key = k /\ e.plural = Pluralised(k, source) /\ e.fuzzy = FALSE
  BY <1>1
<1>3. e.msgstr = IF Pluralised(k, source) THEN <<Empty, Empty>> ELSE <<Empty>>
  BY <1>1
<1>4. k \in Phrase
  BY DEF Keys, Use
<1>5. e.msgstr \in Forms /\ ~translated(e) /\ e.msgstr[1] = Empty
  BY <1>3 DEF Forms, translated
<1>6. e = [key |-> e.key, plural |-> e.plural, fuzzy |-> e.fuzzy, msgstr |-> e.msgstr]
  BY <1>1
<1> QED
  BY <1>2, <1>4, <1>5, <1>6 DEF Shaped

\* There is one per string.
LEMMA FreshKeys ==
  /\ \A k \in Keys(source) : \E e \in merge_extracted(source) : e.key = k
  /\ \A f, g \in merge_extracted(source) : f.key = g.key => f = g
<1> DEFINE F(k) == [key |-> k, plural |-> Pluralised(k, source), fuzzy |-> FALSE,
                    msgstr |-> IF Pluralised(k, source) THEN <<Empty, Empty>> ELSE <<Empty>>]
<1>1. merge_extracted(source) = {F(k) : k \in Keys(source)}
  BY DEF merge_extracted
<1>2. \A k : F(k).key = k
  OBVIOUS
<1> HIDE DEF F
<1> QED
  BY <1>1, <1>2

\* An old text carried over keeps its first form, in the forms of the new entry.
LEMMA CarriedOver ==
  ASSUME NEW e, Shaped(e), NEW o, Shaped(o)
  PROVE  /\ Shaped(Carried(e, o)) /\ Carried(e, o).key = e.key
         /\ Carried(e, o).plural = e.plural /\ Carried(e, o).msgstr[1] = o.msgstr[1]
<1>1. PICK m : m = IF ~e.plural THEN <<o.msgstr[1]>>
                   ELSE IF Len(o.msgstr) >= 2 THEN o.msgstr
                   ELSE <<o.msgstr[1], o.msgstr[1]>>
  OBVIOUS
<1>2. o.msgstr[1] \in Word \cup {Empty}
  BY DEF Shaped, Forms
<1>3. m \in Forms
  BY <1>1, <1>2 DEF Shaped, Forms
<1>4. m[1] = o.msgstr[1]
  BY <1>1
<1>5. Carried(e, o) = [e EXCEPT !.msgstr = m]
  BY <1>1 DEF Carried
<1>6. Carried(e, o) = [key |-> e.key, plural |-> e.plural, fuzzy |-> e.fuzzy, msgstr |-> m]
  BY <1>5 DEF Shaped
<1>7. /\ Carried(e, o).key = e.key /\ Carried(e, o).plural = e.plural
      /\ Carried(e, o).fuzzy = e.fuzzy /\ Carried(e, o).msgstr = m
  BY <1>6
<1> QED
  BY <1>3, <1>4, <1>6, <1>7 DEF Shaped

\* What is in the new catalogue: blank entries for strings without a translation, and the
\* texts there are.
LEMMA CatalogueEntries ==
  ASSUME PoEntries, NEW c \in Catalogue
  PROVE  /\ Shaped(c) /\ c.key \in Keys(source) /\ c.plural = Pluralised(c.key, source)
         /\ c.msgstr[1] = work[c.key]
         /\ \/ /\ c \in merge_extracted(source)
               /\ ~\E o \in po : o.key = c.key /\ translated(o)
            \/ \E f \in merge_extracted(source), o \in po :
                 f.key = c.key /\ o.key = c.key /\ translated(o) /\ c = Carried(f, o)
<1>1. CASE c \in merge_extracted(source) /\ ~\E o \in po : o.key = c.key /\ translated(o)
  <2>0. source \subseteq Use
    BY DEF PoEntries
  <2>1. c.key \in Phrase /\ c.msgstr[1] = Empty /\ Shaped(c)
        /\ c.key \in Keys(source) /\ c.plural = Pluralised(c.key, source)
    BY <1>1, <2>0, FreshEntries
  <2>2. \A o \in po : o.msgstr[1] # Empty => translated(o)
    BY FirstForm DEF PoEntries, Shaped
  <2>3. work[c.key] = Empty
    BY <1>1, <2>1, <2>2 DEF PoEntries
  <2> QED
    BY <1>1, <2>1, <2>3
<1>2. ASSUME NEW f \in merge_extracted(source), NEW o \in po,
             f.key = o.key, translated(o), c = Carried(f, o)
      PROVE  /\ Shaped(c) /\ c.key \in Keys(source) /\ c.plural = Pluralised(c.key, source)
             /\ c.msgstr[1] = work[c.key] /\ c.key = f.key
  <2>1. Shaped(f) /\ Shaped(o) /\ f.key \in Keys(source) /\ f.plural = Pluralised(f.key, source)
    BY FreshEntries DEF PoEntries
  <2>2. Shaped(c) /\ c.key = f.key /\ c.plural = f.plural /\ c.msgstr[1] = o.msgstr[1]
    BY <1>2, <2>1, CarriedOver
  <2>3. o.msgstr[1] = work[o.key]
    BY DEF PoEntries
  <2> QED
    BY <1>2, <2>1, <2>2, <2>3
<1>3. \/ c \in merge_extracted(source) /\ ~\E o \in po : o.key = c.key /\ translated(o)
      \/ \E f \in merge_extracted(source), o \in po :
           f.key = o.key /\ translated(o) /\ c = Carried(f, o)
  BY DEF Catalogue, apply_existing
<1> QED
  BY <1>1, <1>2, <1>3

\* Every string of the sources has one entry.
LEMMA CatalogueKeys ==
  ASSUME PoEntries
  PROVE  /\ \A k \in Keys(source) : \E c \in Catalogue : c.key = k
         /\ \A c, d \in Catalogue : c.key = d.key => c = d
<1>1. \A f, g \in merge_extracted(source) : f.key = g.key => f = g
  BY FreshKeys
<1>2. ASSUME NEW k \in Keys(source) PROVE \E c \in Catalogue : c.key = k
  <2>1. PICK f \in merge_extracted(source) : f.key = k
    BY FreshKeys
  <2>2. CASE \E o \in po : o.key = k /\ translated(o)
    <3>1. PICK o \in po : o.key = k /\ translated(o)
      BY <2>2
    <3>2. Carried(f, o) \in Catalogue
      <4>1. <<f, o>> \in {q \in merge_extracted(source) \X po :
                            q[1].key = q[2].key /\ translated(q[2])}
        BY <2>1, <3>1
      <4>2. <<f, o>>[1] = f /\ <<f, o>>[2] = o
        OBVIOUS
      <4> QED
        BY <4>1, <4>2, Zenon DEF Catalogue, apply_existing
    <3>3. Carried(f, o).key = k
      BY <2>1, <3>1, FreshEntries, CarriedOver DEF PoEntries
    <3> QED
      BY <3>2, <3>3
  <2>3. CASE ~\E o \in po : o.key = k /\ translated(o)
    BY <2>1, <2>3 DEF Catalogue, apply_existing
  <2> QED
    BY <2>2, <2>3
<1>3. ASSUME NEW c \in Catalogue, NEW d \in Catalogue, c.key = d.key PROVE c = d
  <2>1. CASE \E o \in po : o.key = c.key /\ translated(o)
    <3>1. PICK f \in merge_extracted(source), o \in po :
            f.key = c.key /\ o.key = c.key /\ c = Carried(f, o)
      BY <2>1, CatalogueEntries
    <3>2. PICK g \in merge_extracted(source), p \in po :
            g.key = d.key /\ p.key = d.key /\ d = Carried(g, p)
      BY <1>3, <2>1, CatalogueEntries
    <3>3. f = g /\ o = p
      BY <1>1, <1>3, <3>1, <3>2 DEF PoEntries
    <3> QED
      BY <3>1, <3>2, <3>3
  <2>2. CASE ~\E o \in po : o.key = c.key /\ translated(o)
    BY <1>1, <1>3, <2>2, CatalogueEntries
  <2> QED
    BY <2>1, <2>2
<1> QED
  BY <1>2, <1>3

\* Every step keeps the .po file in order.
LEMMA PoStep == PoEntries /\ [TranslationsNext]_catalogueVars => PoEntries'
<1> SUFFICES ASSUME PoEntries, [TranslationsNext]_catalogueVars PROVE PoEntries'
  OBVIOUS
<1>1. CASE pomessages
  <2>1. /\ po' = Catalogue /\ extracted' = source /\ source' = source
        /\ work' = [k \in Phrase |-> IF k \in Keys(source) THEN work[k] ELSE Empty]
    BY <1>1 DEF pomessages
  <2>2. \A e \in po' : /\ Shaped(e) /\ e.key \in Keys(source) /\ e.key \in Phrase
                       /\ e.plural = Pluralised(e.key, source) /\ e.msgstr[1] = work[e.key]
    BY <2>1, CatalogueEntries DEF Shaped
  <2>3. /\ \A e, f \in po' : e.key = f.key => e = f
        /\ \A k \in Keys(source) : \E e \in po' : e.key = k
    BY <2>1, CatalogueKeys
  <2>4. \A e \in po' : e.msgstr[1] = work'[e.key]
    BY <2>1, <2>2
  <2>5. \A e \in po' : [key |-> e.key, plural |-> TRUE] \in extracted' => e.plural
    BY <2>1, <2>2 DEF Pluralised
  <2>6. \A k \in Phrase : work'[k] # Empty => \E e \in po' : e.key = k
    BY <2>1, <2>3
  <2>7. work' = [k \in Phrase |-> work'[k]] /\ source' \subseteq Use
    BY <2>1 DEF PoEntries
  <2> QED
    BY <2>2, <2>3, <2>4, <2>5, <2>6, <2>7 DEF PoEntries
<1>2. CASE pocompile \/ UNCHANGED catalogueVars
  BY <1>2 DEF pocompile, catalogueVars, PoEntries
<1>3. ASSUME NEW u \in Use, EditSource(u) PROVE PoEntries'
  <2>1. UNCHANGED <<po, extracted, work>> /\ source' \subseteq Use
    BY <1>3 DEF EditSource, PoEntries
  <2> QED
    BY <2>1 DEF PoEntries
<1>4. ASSUME NEW e \in po, NEW msgstr \in Forms, NEW fuzzy \in BOOLEAN,
             Translate(e, msgstr, fuzzy)
      PROVE  PoEntries'
  <2>1. PICK n : n = [e EXCEPT !.msgstr = msgstr, !.fuzzy = fuzzy]
    OBVIOUS
  <2>2. n = [key |-> e.key, plural |-> e.plural, fuzzy |-> fuzzy, msgstr |-> msgstr]
    <3>1. e = [key |-> e.key, plural |-> e.plural, fuzzy |-> e.fuzzy, msgstr |-> e.msgstr]
      BY DEF PoEntries, Shaped
    <3> QED
      BY <2>1, <3>1
  <2>3. n.key = e.key /\ n.plural = e.plural /\ n.fuzzy = fuzzy /\ n.msgstr = msgstr
    BY <2>2
  <2>4. /\ po' = (po \ {e}) \cup {n} /\ work' = [work EXCEPT ![e.key] = msgstr[1]]
        /\ UNCHANGED <<source, extracted>>
    BY <1>4, <2>1 DEF Translate
  <2>5. e.key \in Phrase /\ \A f \in po \ {e} : f.key # e.key /\ f.key \in Phrase
    BY DEF PoEntries, Shaped
  <2>6. /\ work'[e.key] = msgstr[1] /\ \A k \in Phrase \ {e.key} : work'[k] = work[k]
        /\ work' = [k \in Phrase |-> work'[k]]
    BY <2>4, <2>5 DEF PoEntries
  <2>7. \A f \in po' : Shaped(f)
    BY <2>2, <2>3, <2>4, <2>5 DEF PoEntries, Shaped
  <2>8. \A f, g \in po' : f.key = g.key => f = g
    BY <2>3, <2>4, <2>5 DEF PoEntries
  <2>9. \A f \in po' : [key |-> f.key, plural |-> TRUE] \in extracted' => f.plural
    BY <2>3, <2>4 DEF PoEntries
  <2>10. \A f \in po' : f.msgstr[1] = work'[f.key]
    BY <2>3, <2>4, <2>5, <2>6 DEF PoEntries
  <2>11. \A k \in Phrase : work'[k] # Empty => \E f \in po' : f.key = k
    BY <2>3, <2>4, <2>5, <2>6 DEF PoEntries
  <2> QED
    BY <2>4, <2>6, <2>7, <2>8, <2>9, <2>10, <2>11 DEF PoEntries
<1> QED
  BY <1>1, <1>2, <1>3, <1>4 DEF TranslationsNext

\* A string that both checks pass is one whose entry was compiled.
LEMMA ChecksSuffice == PoEntries => CheckedIsShown
<1> SUFFICES ASSUME PoEntries, pomessages_check, pocompile_check, NEW u \in source,
                    ~\E e \in po : e.key = u.key /\ e.fuzzy, ~(u.plural /\ u \notin extracted)
             PROVE  \E e \in Found(u) : e.msgstr[1] = work[u.key]
  BY DEF CheckedIsShown
<1>1. PICK c \in Catalogue : c.key = u.key /\ translated(c)
  BY CatalogueKeys DEF Keys, pomessages_check
<1>2. PICK o \in po : o.key = u.key /\ translated(o)
  <2>1. source \subseteq Use
    BY DEF PoEntries
  <2>2. c \notin merge_extracted(source)
    BY <1>1, <2>1, FreshEntries
  <2>3. PICK o \in po : o.key = c.key /\ translated(o)
    BY <2>2, CatalogueEntries
  <2> QED
    BY <1>1, <2>3
<1>3. o \in mo
  BY <1>2 DEF pocompile_check, compile_mo
<1>4. u.plural => o.plural
  <2> SUFFICES ASSUME u.plural PROVE o.plural
    OBVIOUS
  <2>1. u \in extracted /\ u \in Use
    BY DEF PoEntries
  <2>2. u = [key |-> u.key, plural |-> TRUE]
    BY <2>1 DEF Use
  <2> QED
    BY <1>2, <2>1, <2>2 DEF PoEntries
<1>5. o \in Found(u) /\ o.msgstr[1] = work[u.key]
  BY <1>2, <1>3, <1>4 DEF Found, PoEntries
<1> QED
  BY <1>5

\* The texts of the catalogue: no extraction loses one, whatever plurals and strings come
\* and go, and when both checks of CI pass the pages show them.
THEOREM TranslationsArriveHolds == TranslationsSpec => []TranslationsArrive
<1>1. TranslationsInit => PoEntries
  BY DEF TranslationsInit, PoEntries
<1>2. PoEntries => TranslationsArrive
  <2>1. PoEntries => WorkSurvives
    BY DEF PoEntries, WorkSurvives
  <2> QED
    BY <2>1, ChecksSuffice DEF TranslationsArrive
<1> QED
  BY <1>1, <1>2, PoStep, PTL DEF TranslationsSpec
=============================================================================
