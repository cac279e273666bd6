---------------------------- MODULE AccountBook ----------------------------
(***************************************************************************)
(* What the account commands of the server binary promise: between its     *)
(* start and its answer a command takes effect at one moment and as a      *)
(* whole, or it is refused and changes nothing.                            *)
(***************************************************************************)
CONSTANTS
    Commands, \* processes an operator may run
    Names,    \* user names
    Keys,     \* API keys
    NoKey     \* no key at all

VARIABLES
    user,   \* the users table, by user name
    order,  \* what each command was asked to do
    answer  \* and what it has answered so far

bookVars == <<user, order, answer>>

Roles    == {"user", "admin"}
Statuses == {"active", "inactive"}
Switches == {"activate", "deactivate"}

Account == [key : Keys, role : Roles, status : Statuses]
NoUser  == [key |-> NoKey, role |-> "user", status |-> "absent"]

Granting == [op : {"create", "ensure"}, name : Names, role : Roles, key : Keys]
Switching == [op : Switches, name : Names, role : {"user"}, key : {NoKey}]
NoOrder == [op |-> "none"]

\* No other user has the key.
KeyIsFree(n, k) == \A m \in Names \ {n} : user[m].key # k

StatusOf(op) == IF op = "activate" THEN "active" ELSE "inactive"

\* The row that an order carried out makes of the user's.
Outcome(o) ==
    IF o.op \in Switches THEN [user[o.name] EXCEPT !.status = StatusOf(o.op)]
    ELSE [key |-> o.key, role |-> o.role, status |-> "active"]

\* A user is created once; an ensured one may be there; a key has one owner.
Possible(o) ==
    /\ o.op = "create" => user[o.name] = NoUser
    /\ o.op \in Switches => user[o.name] # NoUser
    /\ o.op \in {"create", "ensure"} => KeyIsFree(o.name, o.key)

Order(c, o) ==
    /\ order[c] = NoOrder
    /\ order' = [order EXCEPT ![c] = o]
    /\ UNCHANGED <<user, answer>>

Perform(c) ==
    /\ order[c] # NoOrder /\ answer[c] = "none"
    /\ Possible(order[c])
    /\ user' = [user EXCEPT ![order[c].name] = Outcome(order[c])]
    /\ answer' = [answer EXCEPT ![c] = "done"]
    /\ UNCHANGED order

Refuse(c) ==
    /\ order[c] # NoOrder /\ answer[c] = "none"
    /\ answer' = [answer EXCEPT ![c] = "refused"]
    /\ UNCHANGED <<user, order>>

Leave(c) ==
    /\ order[c] # NoOrder
    /\ order' = [order EXCEPT ![c] = NoOrder]
    /\ answer' = [answer EXCEPT ![c] = "none"]
    /\ UNCHANGED user

Init ==
    /\ user \in [Names -> Account \cup {NoUser}]
    /\ \A n, m \in Names : n # m /\ user[n] # NoUser => user[n].key # user[m].key
    /\ order = [c \in Commands |-> NoOrder]
    /\ answer = [c \in Commands |-> "none"]

Next ==
    \E c \in Commands :
        \/ \E o \in Granting \cup Switching : Order(c, o)
        \/ Perform(c) \/ Refuse(c) \/ Leave(c)

Spec == Init /\ [][Next]_bookVars
=============================================================================
