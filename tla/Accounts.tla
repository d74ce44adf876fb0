------------------------------ MODULE Accounts ------------------------------
(***************************************************************************)
(* Registration: the form of user-ui's Register.js and the statements of    *)
(* AuthController.register, each of which commits on its own; and who can   *)
(* sign in after it.  Registrants may want the same name, and each may      *)
(* submit again after an error or an answer that was lost.  The tables are  *)
(* in memory: a restart of the backend makes them anew from data.sql.       *)
(***************************************************************************)
EXTENDS Naturals, FiniteSets

CONSTANTS
    Registrants,    \* people with a registration form, and their passwords
    NameOf,         \* the username each of them wants
    Seeds,          \* usernames of data.sql
    Seed,           \* who chose the passwords of data.sql
    None

Names == Seeds \cup {NameOf[r] : r \in Registrants}

ASSUME AccountsAssumption ==
    /\ NameOf \in [Registrants -> Names]
    /\ None \notin Registrants /\ Seed \notin Registrants /\ None # Seed

VARIABLES
    users,          \* table users: who chose the password, or None
    authorities,    \* table authorities: the usernames in it
    job,            \* where the server is with a registrant's request
    form            \* a registrant's form: open, or its loading, success, error;
                    \* or outdated: its success is that of a backend that is gone

accountVars == <<users, authorities, job, form>>

-----------------------------------------------------------------------------
(* Register.js                                                              *)

\* disabled={loading || success}
CanSubmit(r) == form[r] \notin {"loading", "success", "outdated"}

\* Whose account a restart has taken opens the page again.
ReopenForm(r) ==
    /\ form[r] = "outdated"
    /\ form' = [form EXCEPT ![r] = "open"]
    /\ UNCHANGED <<users, authorities, job>>

\* The passwords do not match, or are too short.
SubmitInvalid(r) ==
    /\ CanSubmit(r)
    /\ form' = [form EXCEPT ![r] = "error"]
    /\ UNCHANGED <<users, authorities, job>>

\* Bound: one request of a registrant at the server.
Submit(r) ==
    /\ CanSubmit(r)
    /\ job[r] = "none"
    /\ form' = [form EXCEPT ![r] = "loading"]
    /\ job' = [job EXCEPT ![r] = "check"]
    /\ UNCHANGED <<users, authorities>>

\* The answer, to a form that still waits for it or to nobody.
RegisterAnswered(r) ==
    /\ job[r] \in {"created", "conflict", "error"}
    /\ job' = [job EXCEPT ![r] = "none"]
    /\ form' = IF form[r] # "loading" THEN form
               ELSE [form EXCEPT ![r] = IF job[r] = "created" THEN "success" ELSE "error"]
    /\ UNCHANGED <<users, authorities>>

\* The connection breaks; the server goes on.
RegisterLost(r) ==
    /\ form[r] = "loading"
    /\ form' = [form EXCEPT ![r] = "error"]
    /\ UNCHANGED <<users, authorities, job>>

-----------------------------------------------------------------------------
(* AuthController.register                                                  *)

CountUsers(r) ==
    /\ job[r] = "check"
    /\ job' = [job EXCEPT ![r] = IF users[NameOf[r]] # None THEN "conflict" ELSE "insert user"]
    /\ UNCHANGED <<users, authorities, form>>

\* Slip: the check is trusted, and the row is merged into the table.
MergeUser(r) ==
    /\ job[r] = "insert user"
    /\ users' = [users EXCEPT ![NameOf[r]] = r]
    /\ job' = [job EXCEPT ![r] = "insert authority"]
    /\ UNCHANGED <<authorities, form>>

\* Slip: a row that is there already is taken for one's own.
EnsureUser(r) ==
    /\ job[r] = "insert user"
    /\ users' = [users EXCEPT ![NameOf[r]] = IF @ = None THEN r ELSE @]
    /\ job' = [job EXCEPT ![r] = "insert authority"]
    /\ UNCHANGED <<authorities, form>>

\* The primary key refuses a name that was taken since the check.
InsertUser(r) ==
    /\ job[r] = "insert user"
    /\ \/ /\ users[NameOf[r]] = None
          /\ users' = [users EXCEPT ![NameOf[r]] = r]
          /\ job' = [job EXCEPT ![r] = "insert authority"]
       \/ /\ users[NameOf[r]] # None
          /\ users' = users
          /\ job' = [job EXCEPT ![r] = "error"]
    /\ UNCHANGED <<authorities, form>>

InsertAuthority(r) ==
    /\ job[r] = "insert authority"
    /\ authorities' = authorities \cup {NameOf[r]}
    /\ job' = [job EXCEPT ![r] = "created"]
    /\ UNCHANGED <<users, form>>

\* A statement throws; what the ones before it did stays.
RegisterFails(r) ==
    /\ job[r] \in {"check", "insert user", "insert authority"}
    /\ job' = [job EXCEPT ![r] = "error"]
    /\ UNCHANGED <<users, authorities, form>>

\* login: the password is that of the row, and JdbcUserDetailsManager finds no
\* user who has no authority.
CanSignIn(r) == users[NameOf[r]] = r /\ NameOf[r] \in authorities

-----------------------------------------------------------------------------
\* What schema.sql and data.sql leave in users.
SeedUsers == [n \in Names |-> IF n \in Seeds THEN Seed ELSE None]

\* The backend is restarted: jdbc:h2:mem is empty again, and no request goes on;
\* the browsers' pages stay as they are.
WipeAccounts ==
    /\ users' = SeedUsers
    /\ authorities' = Seeds
    /\ job' = [r \in Registrants |-> "none"]
    /\ form' = [r \in Registrants |-> IF form[r] = "success" THEN "outdated" ELSE form[r]]

AccountsInit ==
    /\ users = SeedUsers
    /\ authorities = Seeds
    /\ job = [r \in Registrants |-> "none"]
    /\ form = [r \in Registrants |-> "open"]

AccountsNext ==
    \E r \in Registrants :
        \/ ReopenForm(r) \/ SubmitInvalid(r) \/ Submit(r) \/ RegisterAnswered(r)
        \/ RegisterLost(r) \/ CountUsers(r) \/ InsertUser(r) \/ InsertAuthority(r) \/ RegisterFails(r)

-----------------------------------------------------------------------------
(* Properties.                                                              *)

Jobs == {"none", "check", "insert user", "insert authority", "created", "conflict", "error"}

Forms == {"open", "loading", "success", "error", "outdated"}

AccountsTypeOK ==
    /\ users \in [Names -> Registrants \cup {None, Seed}]
    /\ authorities \subseteq Names
    /\ job \in [Registrants -> Jobs]
    /\ form \in [Registrants -> Forms]

\* Whoever reads "Registration successful" can sign in with the password of that
\* form: of two who want a name at once one is told so at most, and a request
\* that failed half-way tells nobody so.  It lasts until the backend is restarted:
\* then the account is gone, and the page that still says so is outdated.
ConfirmedCanSignIn == \A r \in Registrants : form[r] = "success" => CanSignIn(r)

\* Who has been told "Registration successful".
Told == {r \in Registrants : form[r] = "success"}

Registry == INSTANCE NameRegistry WITH
    People <- Registrants, Wants <- NameOf, Nobody <- None,
    Given <- SeedUsers,
    owner <- users, usable <- authorities, told <- Told

\* Three statements that commit one by one, two people who want one name and
\* answers that get lost amount to a registry of names.  From one restart of the
\* backend to the next a name is taken once, its owner is not replaced, nobody
\* else's request gives it its authority, and nobody is told a thing that is not,
\* or ceases to be, so.  A restart takes all of it back at once, and no request
\* that was under way leaves anything in the new tables.
ImplementsRegistry == Registry!Spec

=============================================================================
