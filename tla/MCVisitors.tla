----------------------------- MODULE MCVisitors -----------------------------
(***************************************************************************)
(* Instances of TelegramBot, SignIn, Collections, Browsing, SearchIndex,   *)
(* Translations and Monitoring for TLC.  They share no variable: part says *)
(* which of them moves.                                                    *)
(***************************************************************************)
EXTENDS TelegramBot, SignIn, Collections, Browsing, SearchIndex, Translations,
        Monitoring, TLC

CONSTANTS u1, u2, c1, m1, m2, m3, drama, comedy, tag, x1, n1

VARIABLE part

MCOwner(t) == u1
MCHolder == [c \in {c1} |-> u1]
MCGenres(m) == CASE m = m1 -> {drama} [] m = m2 -> {drama, comedy} [] m = m3 -> {}
MCLower(e) == IF e = "ALI@x" THEN "ali@x" ELSE e
MCTags(m) == IF m = m1 THEN {tag} ELSE {}
MCCountry(m) == IF m = m2 THEN "uz" ELSE "kr"

\* Each part starts once, whatever the others could start with.
Init ==
    /\ part \in {"bot", "accounts", "collections", "browsing", "search",
                 "translations", "monitoring"}
    /\ BotInit /\ SignInInit /\ CollectionsInit /\ MonitoringInit
    /\ BrowsingInit /\ (part # "browsing" => status = [m \in Movie |-> "published"])
    /\ TranslationsInit /\ (part # "translations" => source = {})
    /\ IndexInit
    /\ part # "search" => /\ cast = [f \in Film |-> {}] /\ text = [f \in Film |-> x1]
                          /\ name = [a \in Player |-> n1]

Next ==
    /\ UNCHANGED part
    /\ IF part = "bot" THEN BotNext ELSE UNCHANGED botVars
    /\ IF part = "accounts" THEN SignInNext ELSE UNCHANGED signInVars
    /\ IF part = "collections" THEN CollectionsNext ELSE UNCHANGED collectionVars
    /\ IF part = "browsing" THEN BrowsingNext ELSE UNCHANGED browsingVars
    /\ IF part = "search" THEN IndexNext ELSE UNCHANGED indexVars
    /\ IF part = "translations" THEN TranslationsNext ELSE UNCHANGED catalogueVars
    /\ IF part = "monitoring" THEN MonitoringNext ELSE UNCHANGED monitoringVars

vars == <<botVars, signInVars, collectionVars, browsingVars, indexVars, catalogueVars,
          monitoringVars, part>>

Spec == Init /\ [][Next]_vars

\* What is behind a shared token, an untouched collection or an empty catalogue is not
\* looked at; one visitor at a time computes for the catalogue cache, of which two
\* slots are filled, and one has watched something; one link is under way at a time, two are
\* opened, and Telegram logins and links are looked at apart.
Undisturbed ==
    /\ shared = {} /\ unsure = {} /\ catalog # {}
    /\ \A w \in recent : w[1] = u1
    /\ Cardinality({t \in Tab : page[t] # NoPage}) <= 1
    /\ Cardinality({k \in Key : slot[k] # Missing}) <= 2
    /\ Cardinality(address) <= 2 /\ Cardinality(mailed) <= 1 /\ Cardinality(opened) <= 2
    /\ \/ address = {} /\ \A f \in Form : form[f] = Blank
       \/ \A l \in Login : login[l] = Out /\ \A i \in Uid : account[i] = NoPerson

Symmetry == Permutations(Tab) \cup Permutations(Monitor)
=============================================================================
