------------------------------- MODULE Gifts -------------------------------
(***************************************************************************)
(* Gifts to actors (send_gift_to_actor in drama/views.py): one transaction *)
(* locks the actor's row, takes the coins through the wallet, adds the     *)
(* price to the actor's total and writes the gift.                         *)
(***************************************************************************)
EXTENDS Site, FiniteSetsExt

CONSTANTS
    Actor,
    Gift,
    Price(_),  \* 0 for a gift that does not exist
    Coins,     \* bound: what a user has to spend
    NoActor, NoTab

ASSUME GiftsAssumption ==
    /\ \A g \in Gift : Price(g) \in Nat
    /\ Coins \in Nat
    /\ IsFiniteSet(User) /\ IsFiniteSet(Actor)
    /\ NoActor \notin Actor /\ NoTab \notin Tab

VARIABLES
    coins,        \* Profile.balance
    total_gifts,  \* Actor.total_gifts
    actor_gifts,  \* per actor and user: the prices of his ActorGift rows
    holder,       \* per actor: the tab whose transaction holds the row
    giving,       \* per tab: the actor its transaction has loaded
    loaded_total, \* per tab: his total as it was loaded
    actor_form,   \* an editor's change page of an actor, and the total on it
    overwritten   \* history: per actor, what saving that page has taken off the total

giftsVars == <<coins, total_gifts, actor_gifts, holder, giving, loaded_total, actor_form,
               overwritten>>
NoActorForm == [actor |-> NoActor, total_gifts |-> 0]

GiftsInit ==
    /\ coins = [u \in User |-> Coins]
    /\ total_gifts = [a \in Actor |-> 0]
    /\ actor_gifts = [a \in Actor |-> [u \in User |-> 0]]
    /\ holder = [a \in Actor |-> NoTab]
    /\ giving = [t \in Tab |-> NoActor]
    /\ loaded_total = [t \in Tab |-> 0]
    /\ actor_form = NoActorForm
    /\ overwritten = [a \in Actor |-> 0]

\* Mutant: the actor is loaded without FOR UPDATE.
ActorFree_NoForUpdate(a) == TRUE

ActorFree(a) == holder[a] = NoTab

\* Actor.objects.select_for_update().get(): the row is held from here to the commit.
send_gift_to_actor(t, a) ==
    /\ giving[t] = NoActor /\ ActorFree(a)
    /\ holder' = [holder EXCEPT ![a] = t]
    /\ giving' = [giving EXCEPT ![t] = a]
    /\ loaded_total' = [loaded_total EXCEPT ![t] = total_gifts[a]]
    /\ UNCHANGED <<coins, total_gifts, actor_gifts, actor_form, overwritten>>

End(t) ==
    /\ holder' = [holder EXCEPT ![giving[t]] = NoTab]
    /\ giving' = [giving EXCEPT ![t] = NoActor]
    /\ loaded_total' = [loaded_total EXCEPT ![t] = 0]

\* An unknown gift, or too few coins: nothing is written.
RefuseGift(t, g) ==
    /\ giving[t] # NoActor
    /\ Price(g) = 0 \/ coins[Owner(t)] < Price(g)
    /\ End(t)
    /\ UNCHANGED <<coins, total_gifts, actor_gifts, actor_form, overwritten>>

\* The coins, the actor's total and the gift, in one commit.
GiveGift(t, g) ==
    LET a == giving[t] IN
    /\ a # NoActor
    /\ Price(g) > 0 /\ coins[Owner(t)] >= Price(g)
    /\ coins' = [coins EXCEPT ![Owner(t)] = @ - Price(g)]
    /\ total_gifts' = [total_gifts EXCEPT ![a] = loaded_total[t] + Price(g)]
    /\ actor_gifts' = [actor_gifts EXCEPT ![a][Owner(t)] = @ + Price(g)]
    /\ End(t)
    /\ UNCHANGED <<actor_form, overwritten>>

\* The change page of an actor shows the total among its fields, and saves the whole row,
\* waiting for a transaction that holds it.
OpenActorForm(a) ==
    /\ actor_form = NoActorForm
    /\ actor_form' = [actor |-> a, total_gifts |-> total_gifts[a]]
    /\ UNCHANGED <<coins, total_gifts, actor_gifts, holder, giving, loaded_total, overwritten>>

SaveActorForm ==
    LET a == actor_form.actor IN
    /\ actor_form # NoActorForm /\ holder[a] = NoTab
    /\ total_gifts' = [total_gifts EXCEPT ![a] = actor_form.total_gifts]
    /\ overwritten' = [overwritten EXCEPT ![a] = @ + total_gifts[a] - actor_form.total_gifts]
    /\ actor_form' = NoActorForm
    /\ UNCHANGED <<coins, actor_gifts, holder, giving, loaded_total>>

GiftsNext ==
    \/ \E t \in Tab : \/ \E a \in Actor : send_gift_to_actor(t, a)
                     \/ \E g \in Gift : RefuseGift(t, g) \/ GiveGift(t, g)
    \/ (\E a \in Actor : OpenActorForm(a)) \/ SaveActorForm

-----------------------------------------------------------------------------
(* Properties                                                              *)

GiftsTypeOK ==
    /\ coins \in [User -> 0..Coins]
    /\ total_gifts \in [Actor -> Nat]
    /\ actor_gifts \in [Actor -> [User -> Nat]]
    /\ holder \in [Actor -> Tab \cup {NoTab}]
    /\ giving \in [Tab -> Actor \cup {NoActor}]
    /\ loaded_total \in [Tab -> Nat]
    /\ actor_form \in [actor : Actor \cup {NoActor}, total_gifts : Nat]
    /\ overwritten \in [Actor -> Int]

GivenBy(u) == [a \in Actor |-> actor_gifts[a][u]]

\* What users have spent is in the gifts' rows, and in the actors' totals but for what an
\* editor's stale page has overwritten, however many givers add to one total at once.
GiftsAccounted ==
    /\ \A u \in User : coins[u] + MapThenSumSet(LAMBDA a : GivenBy(u)[a], Actor) = Coins
    /\ \A a \in Actor : total_gifts[a] + overwritten[a]
                       = MapThenSumSet(LAMBDA u : actor_gifts[a][u], User)
=============================================================================
