------------------------------- MODULE SignIn ------------------------------
(***************************************************************************)
(* How users come to have an account and a verified address: registration  *)
(* with an email, its verification by a signed link, the settings page and *)
(* the admin changing the address, and the Telegram login, which finds,    *)
(* links or creates a user in one atomic block.                            *)
(*                                                                         *)
(* A form is checked in one step and saved in another: the uniqueness of   *)
(* an email is a check of the form and no constraint.  Those of            *)
(* SocialAccount(provider, uid) and of a verified EmailAddress are         *)
(* constraints of the database, which tells spellings apart: forms and     *)
(* the service compare addresses without regard to case (iexact), and      *)
(* store them as they were typed.                                          *)
(***************************************************************************)
EXTENDS FiniteSets, Integers

CONSTANTS
    Person,     \* primary keys of User
    Email,      \* addresses as they are spelled
    Lower(_),   \* an address without its case
    Uid,        \* Telegram ids
    Form,       \* registration and settings forms that may be under way
    Login,      \* Telegram logins that may be under way
    NoPerson,
    NoEmail

ASSUME SignInAssumption ==
    /\ NoPerson \notin Person /\ NoEmail \notin Email
    /\ \A e \in Email : Lower(e) # Lower(NoEmail)

VARIABLES
    users,      \* users that exist
    password,   \* users with a usable password
    email,      \* User.email
    address,    \* EmailAddress rows <<user, email>>
    verified,   \* those of them with verified set
    mailed,     \* links that were sent and still work: the row each names, and the
                \* address it went to
    opened,     \* history: links that were opened
    account,    \* SocialAccount: the user of a Telegram id
    form,       \* per form: its step, user, the email it found and the new one
    login       \* per login: its step, Telegram id and the user to link

signInVars == <<users, password, email, address, verified, mailed, opened, account,
                form, login>>

mail == <<address, verified, mailed, opened>>

Blank == [step |-> "idle", user |-> NoPerson, old |-> NoEmail, email |-> NoEmail]
Out   == [step |-> "idle", uid |-> NoPerson, user |-> NoPerson]

SignInInit ==
    /\ users = {} /\ password = {}
    /\ email = [u \in Person |-> NoEmail]
    /\ address = {} /\ verified = {} /\ mailed = {} /\ opened = {}
    /\ account = [i \in Uid |-> NoPerson]
    /\ form = [f \in Form |-> Blank]
    /\ login = [l \in Login |-> Out]

Fresh == Person \ users

Same(d, e) == Lower(d) = Lower(e)

-----------------------------------------------------------------------------
(* Registration, settings and verification                                 *)

\* The link names the user's row of the address, in whatever spelling, and its email; a
\* row that is missing is made first.  It is sent to the spelling of now.
send_verification_email(u, e) ==
    LET own == {a \in address : a[1] = u /\ Same(a[2], e)} IN
    /\ \E a \in IF own = {} THEN {<<u, e>>} ELSE own :
         /\ address' = address \cup {a}
         /\ mailed' = mailed \cup {[row |-> a, to |-> e]}
    /\ UNCHANGED <<verified, opened>>

\* clean_email of the two forms: nobody else has the address.
clean_email(f, u, e) ==
    /\ form[f].step = "idle"
    /\ \A v \in users \ {u} : ~Same(email[v], e)
    /\ form' = [form EXCEPT ![f] =
                   [step |-> "valid", user |-> u, email |-> e,
                    old |-> IF u = NoPerson THEN NoEmail ELSE email[u]]]
    /\ UNCHANGED <<users, password, email, mail, account, login>>

register(f) ==
    /\ form[f].step = "valid" /\ form[f].user = NoPerson
    /\ \E u \in Fresh :
         /\ users' = users \cup {u}
         /\ password' = password \cup {u}
         /\ email' = [email EXCEPT ![u] = form[f].email]
         /\ send_verification_email(u, form[f].email)
    /\ form' = [form EXCEPT ![f] = Blank]
    /\ UNCHANGED <<account, login>>

\* The address is saved, and then a link is sent if it differs in more
\* than its case.
settings_view(f) ==
    LET u == form[f].user IN
    /\ form[f].step = "valid" /\ u # NoPerson
    /\ email' = [email EXCEPT ![u] = form[f].email]
    /\ form' = IF Same(form[f].email, form[f].old) THEN [form EXCEPT ![f] = Blank]
               ELSE [form EXCEPT ![f].step = "send"]
    /\ UNCHANGED <<users, password, mail, account, login>>

SendChanged(f) ==
    /\ form[f].step = "send"
    /\ send_verification_email(form[f].user, form[f].email)
    /\ form' = [form EXCEPT ![f] = Blank]
    /\ UNCHANGED <<users, password, email, account, login>>

\* A form that is left, refused by the database, or whose worker dies.
LeaveForm(f) ==
    /\ form[f].step # "idle"
    /\ form' = [form EXCEPT ![f] = Blank]
    /\ UNCHANGED <<users, password, email, mail, account, login>>

\* Mutant: whether the user has verified any address, instead of the current one.
is_verified_Any(u) == \E a \in verified : a[1] = u

is_verified(u) ==
    /\ email[u] # NoEmail
    /\ \E a \in verified : a[1] = u /\ Same(a[2], email[u])

resend_verification(u) ==
    /\ u \in users /\ email[u] # NoEmail /\ ~is_verified(u)
    /\ send_verification_email(u, email[u])
    /\ UNCHANGED <<users, password, email, account, form, login>>

\* A spelling is verified for one user: the database refuses the second, and the link is
\* then answered as invalid.
confirm_key(k) ==
    /\ k.row \in address
    /\ opened' = opened \cup {k}
    /\ verified' = IF \E v \in Person \ {k.row[1]} : <<v, k.row[2]>> \in verified
                   THEN verified ELSE verified \cup {k.row}
    /\ UNCHANGED <<users, password, email, address, mailed, account, form, login>>

\* KEY_MAX_AGE has passed.
ExpireKey(k) ==
    /\ mailed' = mailed \ {k}
    /\ UNCHANGED <<users, password, email, address, verified, opened, account, form, login>>

\* The admin's user page sets an address without checking or mailing.
AdminSetsEmail(u, e) ==
    /\ u \in users
    /\ email' = [email EXCEPT ![u] = e]
    /\ UNCHANGED <<users, password, mail, account, form, login>>

-----------------------------------------------------------------------------
(* Telegram login: telegram_login and get_or_create_user                   *)

\* A known Telegram id signs its user in, which changes nothing here.  An unknown one
\* will be linked to the user who is signed in, or to a new one.
get_or_create_user(l, i, current) ==
    /\ login[l].step = "idle" /\ account[i] = NoPerson
    /\ login' = [login EXCEPT ![l] = [step |-> "create", uid |-> i, user |-> current]]
    /\ UNCHANGED <<users, password, email, mail, account, form>>

LinkAccount(l) ==
    LET i == login[l].uid IN
    /\ login[l].step = "create" /\ login[l].user # NoPerson
    /\ account[i] = NoPerson
    /\ account' = [account EXCEPT ![i] = login[l].user]
    /\ login' = [login EXCEPT ![l] = Out]
    /\ UNCHANGED <<users, password, email, mail, form>>

CreateUser(l) ==
    LET i == login[l].uid IN
    /\ login[l].step = "create" /\ login[l].user = NoPerson
    /\ account[i] = NoPerson
    /\ \E u \in Fresh :
         /\ users' = users \cup {u}
         /\ account' = [account EXCEPT ![i] = u]
    /\ login' = [login EXCEPT ![l] = Out]
    /\ UNCHANGED <<password, email, mail, form>>

\* Mutant: the insert of the account is undone alone, as with a savepoint around it.
Surviving_Savepoint(l) ==
    IF login[l].user = NoPerson /\ Fresh # {}
    THEN {users \cup {u} : u \in Fresh} ELSE {users}

\* The block is undone as a whole, the new user included.
Surviving(l) == {users}

\* Another login of the same id has committed first.  The query in the handler of the
\* IntegrityError fails too, since the block is broken: the login ends with an error.
LoseLogin(l) ==
    /\ login[l].step = "create" /\ account[login[l].uid] # NoPerson
    /\ users' \in Surviving(l)
    /\ login' = [login EXCEPT ![l] = Out]
    /\ UNCHANGED <<password, email, mail, account, form>>

-----------------------------------------------------------------------------
SignInNext ==
    \/ \E f \in Form :
         \/ \E u \in users \cup {NoPerson}, e \in Email : clean_email(f, u, e)
         \/ register(f)
         \/ settings_view(f)
         \/ SendChanged(f)
         \/ LeaveForm(f)
    \/ \E u \in Person :
         \/ resend_verification(u)
         \/ \E e \in Email \cup {NoEmail} : AdminSetsEmail(u, e)
    \/ \E k \in mailed : confirm_key(k) \/ ExpireKey(k)
    \/ \E l \in Login :
         \/ \E i \in Uid, c \in users \cup {NoPerson} : get_or_create_user(l, i, c)
         \/ LinkAccount(l)
         \/ CreateUser(l)
         \/ LoseLogin(l)

-----------------------------------------------------------------------------
(* Properties                                                              *)

SignInTypeOK ==
    /\ password \subseteq users /\ users \subseteq Person
    /\ email \in [Person -> Email \cup {NoEmail}]
    /\ verified \subseteq address /\ address \subseteq Person \X Email
    /\ mailed \subseteq [row : address, to : Email] /\ opened \subseteq [row : address, to : Email]
    /\ account \in [Uid -> Person \cup {NoPerson}]

\* Every user can sign in again, by a password or by a Telegram id: a login that loses
\* the race for an id leaves no user behind whom nobody can reach.
EveryoneCanReturn ==
    \A u \in users : u \in password \/ \E i \in Uid : account[i] = u

\* A user whose address counts as verified has opened a link that was sent to that
\* address, if perhaps in another spelling, whatever forms and admins have changed since;
\* and no spelling of an address is verified for two users, though two registrations may
\* have taken it.  Two spellings of one address may be, for one user each.
VerifiedIsOwned ==
    /\ \A u \in users : is_verified(u) =>
          \E k \in opened : k.row[1] = u /\ Same(k.to, email[u])
    /\ \A e \in Email : Cardinality({u \in Person : <<u, e>> \in verified}) <= 1
=============================================================================
