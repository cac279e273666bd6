------------------------------ MODULE Accounts ------------------------------
(***************************************************************************)
(* The users table and the commands that change it.  A command is a        *)
(* process of its own (--create-user, --ensure-admin, --deactivate-user    *)
(* ...): it looks the user up, and later inserts a row or writes the whole *)
(* row back.  Nothing but single statements and two UNIQUE constraints     *)
(* stands between two of them.                                             *)
(***************************************************************************)
EXTENDS Naturals

CONSTANTS
    Commands,    \* processes an operator may run at the same time
    Names,       \* user names
    Keys,        \* API keys; a row holds the key's digest, one to one
    NoKey,       \* no key at all
    Tables,      \* users tables to start from
    MaxCommands, \* bound: commands that are run
    Overlap      \* TRUE: a user is switched while the same user is ensured

VARIABLES
    user,    \* the users table, by user name; a name never changes
    order,   \* what each command was asked to do
    answer,  \* and what it has answered so far
    found,   \* the row its lookup returned
    commands \* commands run so far

accountVars == <<user, order, answer, found, commands>>

Book == INSTANCE AccountBook

Rows   == Book!Account \cup {Book!NoUser}
Unread == [key |-> NoKey, role |-> "user", status |-> "unread"]
Orders == Book!Granting \cup Book!Switching

ASSUME NoKeyAssumption == NoKey \notin Keys
ASSUME CommandsAssumption == MaxCommands \in Nat /\ Overlap \in BOOLEAN
ASSUME TablesAssumption == \A t \in Tables :
    /\ t \in [Names -> Rows]
    /\ \A n, m \in Names : n # m /\ t[n] # Book!NoUser => t[n].key # t[m].key

AccountsInit ==
    /\ user \in Tables
    /\ order = [c \in Commands |-> Book!NoOrder]
    /\ answer = [c \in Commands |-> "none"]
    /\ found = [c \in Commands |-> Unread]
    /\ commands = 0

IsSwitch(o) == o.op \in Book!Switches

\* A running command, up to its answer.
Running(c) == order[c] # Book!NoOrder /\ answer[c] = "none"

\* Without Overlap an operator ensures and switches one user one at a time.
Apart(o) ==
    ~Overlap => \A c \in Commands :
        Running(c) /\ order[c].name = o.name => IsSwitch(order[c]) = IsSwitch(o)

\* GenerateAPIKey: random, so the key of no user and of no other command.
Fresh(k) ==
    /\ \A n \in Names : user[n].key # k
    /\ \A c \in Commands : order[c] # Book!NoOrder => order[c].key # k

\* main: --ensure-* alone may be given a key.
Start(c, o) ==
    /\ order[c] = Book!NoOrder
    /\ commands < MaxCommands
    /\ o.op = "create" => Fresh(o.key)
    /\ Apart(o)
    /\ order' = [order EXCEPT ![c] = o]
    /\ commands' = commands + 1
    /\ UNCHANGED <<user, answer, found>>

Tell(c, a) == answer' = [answer EXCEPT ![c] = a]

LookingUp(c) == Running(c) /\ found[c] = Unread

\* GetUserByUsername, and the answers it decides: CreateUser refuses a name
\* that exists, a switch one that does not; a switch already made is done.
LookupAnswers(c) ==
    LET o == order[c] row == user[order[c].name] IN
    /\ LookingUp(c)
    /\ \/ o.op = "create" /\ row # Book!NoUser /\ Tell(c, "refused")
       \/ IsSwitch(o) /\ row = Book!NoUser /\ Tell(c, "refused")
       \/ IsSwitch(o) /\ row.status = Book!StatusOf(o.op) /\ Tell(c, "done")
    /\ UNCHANGED <<user, order, found, commands>>

Lookup(c) ==
    LET o == order[c] row == user[order[c].name] IN
    /\ LookingUp(c)
    /\ o.op = "create" => row = Book!NoUser
    /\ IsSwitch(o) => row.status \notin {"absent", Book!StatusOf(o.op)}
    /\ found' = [found EXCEPT ![c] = row]
    /\ UNCHANGED <<user, order, answer, commands>>

\* MUTANT: an ensured user stays as inactive as it was found.
WrittenAsFound(c) ==
    LET o == order[c] IN
    IF IsSwitch(o) THEN [found[c] EXCEPT !.status = Book!StatusOf(o.op)]
    ELSE [key |-> o.key, role |-> o.role,
          status |-> IF found[c].status = "inactive" THEN "inactive" ELSE "active"]

\* The row that UpdateUser or CreateUser is called with.
Written(c) ==
    LET o == order[c] IN
    IF IsSwitch(o) THEN [found[c] EXCEPT !.status = Book!StatusOf(o.op)]
    ELSE [key |-> o.key, role |-> o.role, status |-> "active"]

\* UNIQUE username on an INSERT, UNIQUE api_key on both.
Accepts(c) ==
    /\ found[c] = Book!NoUser => user[order[c].name] = Book!NoUser
    /\ Book!KeyIsFree(order[c].name, Written(c).key)

\* UpdateUser of a user that was found, CreateUser of one that was not.
Write(c) ==
    /\ Running(c) /\ found[c] # Unread
    /\ IF Accepts(c)
       THEN user' = [user EXCEPT ![order[c].name] = Written(c)] /\ Tell(c, "done")
       ELSE Tell(c, "refused") /\ UNCHANGED user
    /\ UNCHANGED <<order, found, commands>>

\* The process ends: after its answer, or killed before.
Exit(c) ==
    /\ order[c] # Book!NoOrder
    /\ order' = [order EXCEPT ![c] = Book!NoOrder]
    /\ answer' = [answer EXCEPT ![c] = "none"]
    /\ found' = [found EXCEPT ![c] = Unread]
    /\ UNCHANGED <<user, commands>>

Command(c) ==
    \/ \E o \in Orders : Start(c, o)
    \/ LookupAnswers(c) \/ Lookup(c) \/ Write(c) \/ Exit(c)

\* GetUserByAPIKey, the query of AuthMiddleware.
Authenticated(k) == {n \in Names : user[n].key = k /\ user[n].status = "active"}

-----------------------------------------------------------------------------
(* Properties *)

AccountsTypeOK ==
    /\ user \in [Names -> Rows]
    /\ order \in [Commands -> Orders \cup {Book!NoOrder}]
    /\ answer \in [Commands -> {"none", "done", "refused"}]
    /\ found \in [Commands -> Rows \cup {Unread}]
    /\ commands \in 0 .. MaxCommands

\* Commands that read a user and write the whole row back still take effect
\* at one moment, whatever the others do, as long as no user is ensured and
\* switched at the same time: the statements of CreateUser, EnsureUser and
\* setUserActive implement the account book.
CommandsAreAtomic == Book!Spec
=============================================================================
