--------------------------- MODULE AccountsProofs ---------------------------
(***************************************************************************)
(* Proof that the commands of Accounts implement AccountBook, for any      *)
(* number of commands, users and keys, when no user is ensured and         *)
(* switched at the same time.                                              *)
(*                                                                         *)
(* A command looks a user up and writes the whole row later.  What makes   *)
(* that atomic is that the row a switch holds still has the user's key and *)
(* role when it is written: switches change neither, and ensuring the user *)
(* is kept apart.                                                          *)
(***************************************************************************)
EXTENDS Accounts, TLAPS

RowType ==
    [key : Keys \cup {NoKey}, role : Book!Roles, status : {"active", "inactive", "absent"}]

LEMMA RowIs ==
    ASSUME NEW row \in Rows
    PROVE  /\ row \in RowType
           /\ row # Unread
           /\ row # Book!NoUser <=> row.status # "absent"
           /\ row # Book!NoUser <=> row \in Book!Account
BY DEF Rows, RowType, Unread, Book!Account, Book!NoUser, Book!Roles, Book!Statuses

LEMMA OrderIs ==
    ASSUME NEW o \in Orders
    PROVE  /\ o # Book!NoOrder
           /\ o.name \in Names
           /\ IsSwitch(o) => o.op \notin {"create", "ensure"}
           /\ ~IsSwitch(o) => o.op \in {"create", "ensure"} /\ o.key \in Keys /\ o.role \in Book!Roles
BY DEF Orders, IsSwitch, Book!Granting, Book!Switching, Book!Switches, Book!NoOrder

\* Two commands at work on one user are of the same kind.
KeptApart ==
    \A c, d \in Commands :
        Running(c) /\ Running(d) /\ order[c].name = order[d].name
            => IsSwitch(order[c]) = IsSwitch(order[d])

\* The row a switch holds has the user's key and role.
SwitchIsCurrent(c) ==
    LET row == user[order[c].name] IN
    /\ found[c].key = row.key /\ found[c].role = row.role
    /\ found[c] # Book!NoUser /\ row # Book!NoUser

HoldsSwitch(c) == Running(c) /\ IsSwitch(order[c]) /\ found[c] # Unread

BookTypes ==
    /\ user \in [Names -> Rows]
    /\ order \in [Commands -> Orders \cup {Book!NoOrder}]
    /\ answer \in [Commands -> {"none", "done", "refused"}]
    /\ found \in [Commands -> Rows \cup {Unread}]

AccountInv ==
    /\ BookTypes
    /\ \A c \in Commands : order[c] = Book!NoOrder => found[c] = Unread
    /\ \A c \in Commands : HoldsSwitch(c) => found[c] # Book!NoUser

BookInv ==
    /\ AccountInv
    /\ KeptApart
    /\ \A c \in Commands : HoldsSwitch(c) => SwitchIsCurrent(c)
    /\ \A c \in Commands : Running(c) /\ order[c].op = "create" => found[c] \in {Unread, Book!NoUser}

LEMMA BookInit == AccountsInit => BookInv
BY TablesAssumption
   DEF AccountsInit, AccountInv, BookInv, BookTypes, KeptApart, HoldsSwitch, Running

LEMMA AccountIsWritten ==
    ASSUME AccountInv, NEW c \in Commands, Running(c), found[c] # Unread
    PROVE  Written(c) \in Book!Account
<1> DEFINE o == order[c]
<1>1. o \in Orders /\ found[c] \in Rows
  BY DEF AccountInv, BookTypes, Running
<1>2. CASE ~IsSwitch(o)
  BY <1>1, <1>2, OrderIs DEF Written, Book!Account, Book!Statuses
<1>3. CASE IsSwitch(o)
  <2>1. found[c] \in Book!Account
    BY <1>1, <1>3, RowIs DEF AccountInv, HoldsSwitch
  <2>2. Book!StatusOf(o.op) \in Book!Statuses
    BY DEF Book!StatusOf, Book!Statuses
  <2> QED BY <1>3, <2>1, <2>2 DEF Written, Book!Account
<1> QED BY <1>2, <1>3

LEMMA WrittenIs ==
    ASSUME BookInv, NEW c \in Commands, Running(c), found[c] # Unread
    PROVE  Written(c) = Book!Outcome(order[c])
<1> DEFINE o == order[c]
           row == user[o.name]
<1>1. o \in Orders /\ found[c] \in Rows /\ o.name \in Names /\ row \in Rows
  BY OrderIs DEF AccountInv, BookInv, BookTypes, Running
<1>2. CASE ~IsSwitch(o)
  <2>1. Written(c) = [key |-> o.key, role |-> o.role, status |-> "active"]
    BY <1>2 DEF Written
  <2>2. Book!Outcome(o) = [key |-> o.key, role |-> o.role, status |-> "active"]
    BY <1>2 DEF Book!Outcome, IsSwitch
  <2> QED BY <2>1, <2>2
<1>3. CASE IsSwitch(o)
  <2>1. SwitchIsCurrent(c)
    BY <1>3 DEF BookInv, HoldsSwitch
  <2>2. Written(c) = [found[c] EXCEPT !.status = Book!StatusOf(o.op)]
    BY <1>3 DEF Written
  <2>3. Book!Outcome(o) = [row EXCEPT !.status = Book!StatusOf(o.op)]
    BY <1>3 DEF Book!Outcome, IsSwitch
  <2>4. found[c] \in Book!Account /\ row \in Book!Account
    BY <1>1, <2>1, RowIs DEF SwitchIsCurrent
  <2>5. found[c].key = row.key /\ found[c].role = row.role
    BY <2>1 DEF SwitchIsCurrent
  <2>6. Book!StatusOf(o.op) \in Book!Statuses
    BY DEF Book!StatusOf, Book!Statuses
  <2> QED BY <2>2, <2>3, <2>4, <2>5, <2>6 DEF Book!Account
<1> QED BY <1>2, <1>3

LEMMA AccountIsSome == ASSUME NEW row \in Book!Account PROVE row # Book!NoUser
BY DEF Book!Account, Book!NoUser, Book!Statuses

-----------------------------------------------------------------------------
(* The invariant *)

LEMMA TypesStep ==
    ASSUME AccountInv, NEW c \in Commands, Command(c) PROVE BookTypes'
<1> USE DEF BookTypes
<1>1. BookTypes
  BY DEF AccountInv
<1>2. ASSUME NEW o \in Orders, Start(c, o) PROVE BookTypes'
  BY <1>1, <1>2 DEF Start
<1>3. CASE LookupAnswers(c)
  BY <1>1, <1>3 DEF LookupAnswers, Tell
<1>4. CASE Lookup(c)
  <2>1. user[order[c].name] \in Rows
    BY <1>1, <1>4, OrderIs DEF Lookup, LookingUp, Running
  <2> QED BY <1>1, <1>4, <2>1 DEF Lookup
<1>5. CASE Write(c)
  <2>1. Written(c) \in Rows
    BY <1>5, AccountIsWritten DEF Write, Rows
  <2> QED BY <1>1, <1>5, <2>1 DEF Write, Tell
<1>6. CASE Exit(c)
  BY <1>1, <1>6 DEF Exit
<1> QED BY <1>2, <1>3, <1>4, <1>5, <1>6 DEF Command

LEMMA UnreadStep ==
    ASSUME AccountInv, NEW c \in Commands, Command(c), NEW d \in Commands, order'[d] = Book!NoOrder
    PROVE  found'[d] = Unread
<1>1. BookTypes /\ (order[d] = Book!NoOrder => found[d] = Unread)
  BY DEF AccountInv
<1>2. ASSUME NEW o \in Orders, Start(c, o) PROVE found'[d] = Unread
  BY <1>1, <1>2, OrderIs DEF Start, BookTypes
<1>3. CASE LookupAnswers(c) \/ Lookup(c) \/ Write(c)
  BY <1>1, <1>3 DEF LookupAnswers, Lookup, Write, LookingUp, Running, BookTypes
<1>4. CASE Exit(c)
  BY <1>1, <1>4 DEF Exit, BookTypes
<1> QED BY <1>2, <1>3, <1>4 DEF Command

LEMMA FoundStep ==
    ASSUME AccountInv, NEW c \in Commands, Command(c), NEW d \in Commands, HoldsSwitch(d)'
    PROVE  found'[d] # Book!NoUser
<1>1. /\ BookTypes /\ (order[d] = Book!NoOrder => found[d] = Unread)
      /\ HoldsSwitch(d) => found[d] # Book!NoUser
  BY DEF AccountInv
<1>2. ASSUME NEW o \in Orders, Start(c, o) PROVE found'[d] # Book!NoUser
  <2>1. /\ found' = found /\ answer' = answer /\ (d # c => order'[d] = order[d])
        /\ order[c] = Book!NoOrder
    BY <1>1, <1>2 DEF Start, BookTypes
  <2> QED BY <1>1, <2>1 DEF HoldsSwitch, Running, IsSwitch
<1>3. CASE Lookup(c)
  <2>1. CASE d # c
    BY <1>1, <1>3, <2>1 DEF Lookup, HoldsSwitch, Running, IsSwitch, BookTypes
  <2>2. CASE d = c
    BY <1>1, <1>3, <2>2 DEF Lookup, HoldsSwitch, IsSwitch, BookTypes, Book!NoUser
  <2> QED BY <2>1, <2>2
<1>4. CASE LookupAnswers(c) \/ Write(c)
  <2>1. order' = order /\ found' = found /\ (answer'[d] = "none" => answer[d] = "none")
    BY <1>1, <1>4 DEF LookupAnswers, Write, Tell, LookingUp, Running, BookTypes
  <2> QED BY <1>1, <2>1 DEF HoldsSwitch, Running, IsSwitch
<1>5. CASE Exit(c)
  BY <1>1, <1>5 DEF Exit, HoldsSwitch, Running, IsSwitch, BookTypes
<1> QED BY <1>2, <1>3, <1>4, <1>5 DEF Command

LEMMA AccountInvStep == ASSUME AccountInv, NEW c \in Commands, Command(c) PROVE AccountInv'
BY TypesStep, UnreadStep, FoundStep DEF AccountInv

LEMMA KeptApartStep ==
    ASSUME ~Overlap, BookInv, NEW c \in Commands, Command(c) PROVE KeptApart'
<1>1. KeptApart /\ BookTypes
  BY DEF BookInv, AccountInv
<1>2. ASSUME NEW o \in Orders, Start(c, o) PROVE KeptApart'
  <2>1. \A d \in Commands : Running(d) /\ order[d].name = o.name => IsSwitch(order[d]) = IsSwitch(o)
    BY <1>2 DEF Start, Apart
  <2>2. \A d \in Commands \ {c} : order'[d] = order[d] /\ answer'[d] = answer[d]
    BY <1>1, <1>2 DEF Start, BookTypes
  <2>3. order'[c] = o
    BY <1>1, <1>2 DEF Start, BookTypes
  <2> QED BY <1>1, <2>1, <2>2, <2>3 DEF KeptApart, Running, IsSwitch
<1>3. ASSUME \A d \in Commands : Running(d)' => Running(d) /\ order'[d] = order[d]
      PROVE  KeptApart'
  BY <1>1, <1>3 DEF KeptApart, Running, IsSwitch
<1>4. CASE LookupAnswers(c) \/ Lookup(c) \/ Write(c)
  <2>1. order' = order /\ \A d \in Commands : answer'[d] = "none" => answer[d] = "none"
    BY <1>1, <1>4 DEF LookupAnswers, Lookup, Write, Tell, LookingUp, Running, BookTypes
  <2> QED BY <1>3, <2>1 DEF Running
<1>5. CASE Exit(c)
  <2>1. \A d \in Commands : order'[d] # Book!NoOrder => order'[d] = order[d] /\ answer'[d] = answer[d]
    BY <1>1, <1>5 DEF Exit, BookTypes
  <2> QED BY <1>3, <2>1 DEF Running
<1> QED BY <1>2, <1>4, <1>5 DEF Command

LEMMA CreateStep ==
    ASSUME BookInv, NEW c \in Commands, Command(c), NEW d \in Commands,
           Running(d)', order'[d].op = "create"
    PROVE  found'[d] \in {Unread, Book!NoUser}
<1>1. /\ BookTypes
      /\ order[d] = Book!NoOrder => found[d] = Unread
      /\ Running(d) /\ order[d].op = "create" => found[d] \in {Unread, Book!NoUser}
  BY DEF BookInv, AccountInv
<1>2. ASSUME NEW o \in Orders, Start(c, o) PROVE found'[d] \in {Unread, Book!NoUser}
  <2>1. found' = found /\ answer' = answer /\ (d # c => order'[d] = order[d]) /\ order[c] = Book!NoOrder
    BY <1>1, <1>2 DEF Start, BookTypes
  <2> QED BY <1>1, <2>1 DEF Running
<1>3. CASE Lookup(c)
  BY <1>1, <1>3 DEF Lookup, LookingUp, Running, BookTypes
<1>4. CASE LookupAnswers(c) \/ Write(c)
  <2>1. order' = order /\ found' = found /\ (answer'[d] = "none" => answer[d] = "none")
    BY <1>1, <1>4 DEF LookupAnswers, Write, Tell, LookingUp, Running, BookTypes
  <2> QED BY <1>1, <2>1 DEF Running
<1>5. CASE Exit(c)
  BY <1>1, <1>5 DEF Exit, BookTypes, Running
<1> QED BY <1>2, <1>3, <1>4, <1>5 DEF Command

LEMMA SwitchStep ==
    ASSUME BookInv, NEW c \in Commands, Command(c), NEW d \in Commands, HoldsSwitch(d)'
    PROVE  SwitchIsCurrent(d)'
<1>1. BookTypes /\ (order[d] = Book!NoOrder => found[d] = Unread)
  BY DEF BookInv, AccountInv
<1>2. ASSUME HoldsSwitch(d), order'[d] = order[d], found'[d] = found[d],
             user'[order[d].name] = user[order[d].name]
      PROVE  SwitchIsCurrent(d)'
  BY <1>2 DEF BookInv, SwitchIsCurrent
<1>3. ASSUME NEW o \in Orders, Start(c, o) PROVE SwitchIsCurrent(d)'
  <2>1. /\ found' = found /\ answer' = answer /\ user' = user
        /\ d # c => order'[d] = order[d]
        /\ order[c] = Book!NoOrder
    BY <1>1, <1>3 DEF Start, BookTypes
  <2>2. d # c
    BY <1>1, <2>1 DEF HoldsSwitch
  <2>3. HoldsSwitch(d)
    BY <2>1, <2>2 DEF HoldsSwitch, Running, IsSwitch
  <2> QED BY <1>2, <2>1, <2>2, <2>3
<1>4. CASE LookupAnswers(c)
  <2>1. /\ order' = order /\ found' = found /\ user' = user
        /\ answer'[d] = "none" => answer[d] = "none"
    BY <1>1, <1>4 DEF LookupAnswers, Tell, LookingUp, Running, BookTypes
  <2> QED BY <1>2, <2>1 DEF HoldsSwitch, Running, IsSwitch
<1>5. CASE Lookup(c)
  <2>1. order' = order /\ answer' = answer /\ user' = user
    BY <1>5 DEF Lookup
  <2>2. CASE d # c
    <3>1. found'[d] = found[d]
      BY <1>1, <1>5, <2>2 DEF Lookup, BookTypes
    <3> QED BY <1>2, <2>1, <3>1 DEF HoldsSwitch, Running, IsSwitch
  <2>3. CASE d = c
    <3>1. IsSwitch(order[c]) /\ order[c] \in Orders
      BY <1>1, <2>1, <2>3 DEF HoldsSwitch, IsSwitch, Running, BookTypes
    <3>2. found'[c] = user[order[c].name] /\ user[order[c].name].status # "absent"
      BY <1>1, <1>5, <3>1 DEF Lookup, BookTypes
    <3>3. user[order[c].name] # Book!NoUser
      BY <3>2 DEF Book!NoUser
    <3> QED BY <2>1, <2>3, <3>2, <3>3 DEF SwitchIsCurrent
  <2> QED BY <2>2, <2>3
<1>6. CASE Write(c)
  <2>1. /\ order' = order /\ found' = found /\ Running(c) /\ found[c] # Unread
        /\ answer'[d] = "none" => answer[d] = "none"
    BY <1>1, <1>6 DEF Write, Tell, Running, BookTypes
  <2>2. HoldsSwitch(d)
    BY <2>1 DEF HoldsSwitch, Running, IsSwitch
  <2>3. CASE user'[order[d].name] = user[order[d].name]
    BY <1>2, <2>1, <2>2, <2>3
  <2>4. CASE user'[order[d].name] # user[order[d].name]
    <3>0. order[d].name \in Names
      BY <1>1, <2>2, OrderIs DEF HoldsSwitch, Running, BookTypes
    <3>1. order[c].name = order[d].name /\ user'[order[d].name] = Written(c)
      BY <1>1, <1>6, <2>4, <3>0 DEF Write, BookTypes
    <3>2. IsSwitch(order[c])
      BY <2>1, <2>2, <3>1 DEF BookInv, KeptApart, HoldsSwitch
    <3>3. SwitchIsCurrent(c) /\ SwitchIsCurrent(d)
      BY <2>1, <2>2, <3>2 DEF BookInv, HoldsSwitch
    <3>4. Written(c) = [found[c] EXCEPT !.status = Book!StatusOf(order[c].op)]
      BY <3>2 DEF Written
    <3>5. found[c] \in Rows
      BY <1>1, <2>1 DEF BookTypes
    <3>6. Written(c).key = found[c].key /\ Written(c).role = found[c].role
      BY <3>4, <3>5, RowIs DEF RowType
    <3>7. Written(c) # Book!NoUser
      BY <2>1, AccountIsWritten, AccountIsSome DEF BookInv
    <3> QED BY <2>1, <3>1, <3>3, <3>6, <3>7 DEF SwitchIsCurrent
  <2> QED BY <2>3, <2>4
<1>7. CASE Exit(c)
  <2>1. found' = [found EXCEPT ![c] = Unread] /\ order' = [order EXCEPT ![c] = Book!NoOrder]
        /\ answer' = [answer EXCEPT ![c] = "none"] /\ user' = user
    BY <1>7 DEF Exit
  <2>2. d # c
    BY <1>1, <2>1 DEF HoldsSwitch, BookTypes
  <2>3. order'[d] = order[d] /\ answer'[d] = answer[d] /\ found'[d] = found[d]
    BY <1>1, <2>1, <2>2 DEF BookTypes
  <2> QED BY <1>2, <2>1, <2>3 DEF HoldsSwitch, Running, IsSwitch
<1> QED BY <1>3, <1>4, <1>5, <1>6, <1>7 DEF Command

LEMMA BookInvStep ==
    ASSUME ~Overlap, BookInv, NEW c \in Commands, Command(c) PROVE BookInv'
BY AccountInvStep, KeptApartStep, CreateStep, SwitchStep DEF BookInv

-----------------------------------------------------------------------------
(* Each step of a command is one of the account book, or none *)

LEMMA BookStep ==
    ASSUME BookInv, NEW c \in Commands, Command(c) PROVE [Book!Next]_(Book!bookVars)
<1>1. BookTypes
  BY DEF BookInv, AccountInv
<1>2. ASSUME NEW o \in Orders, Start(c, o) PROVE Book!Order(c, o)
  BY <1>2 DEF Start, Book!Order
<1>3. CASE LookupAnswers(c)
  <2> DEFINE o == order[c]
             row == user[o.name]
  <2>1. o \in Orders /\ o.name \in Names /\ row \in Rows /\ o # Book!NoOrder /\ answer[c] = "none"
    BY <1>1, <1>3, OrderIs DEF LookupAnswers, LookingUp, Running, BookTypes
  <2>2. CASE Tell(c, "refused")
    BY <1>3, <2>1, <2>2 DEF LookupAnswers, Tell, Book!Refuse, Book!Next
  <2>3. CASE IsSwitch(o) /\ row.status = Book!StatusOf(o.op) /\ Tell(c, "done")
    <3>1. row # Book!NoUser
      BY <2>1, <2>3, RowIs DEF Book!StatusOf
    <3>2. Book!Possible(o)
      BY <2>1, <2>3, <3>1, OrderIs DEF Book!Possible
    <3>3. Book!Outcome(o) = [row EXCEPT !.status = Book!StatusOf(o.op)]
      BY <2>3 DEF Book!Outcome, IsSwitch
    <3>4. Book!Outcome(o) = row
      BY <2>1, <2>3, <3>1, <3>3, RowIs DEF Book!Account
    <3>5. user = [user EXCEPT ![o.name] = Book!Outcome(o)]
      BY <1>1, <2>1, <3>4 DEF BookTypes
    <3> QED BY <1>3, <2>1, <2>3, <3>2, <3>5 DEF LookupAnswers, Tell, Book!Perform, Book!Next
  <2> QED BY <1>3, <2>2, <2>3 DEF LookupAnswers
<1>4. CASE Lookup(c)
  BY <1>4 DEF Lookup, Book!bookVars
<1>5. CASE Write(c)
  <2> DEFINE o == order[c]
  <2>1. /\ o \in Orders /\ o # Book!NoOrder /\ answer[c] = "none" /\ Running(c) /\ found[c] # Unread
        /\ order' = order
    BY <1>1, <1>5, OrderIs DEF Write, Running, BookTypes
  <2>2. Written(c) = Book!Outcome(o)
    BY <2>1, WrittenIs
  <2>3. CASE Accepts(c)
    <3>1. user' = [user EXCEPT ![o.name] = Book!Outcome(o)] /\ Tell(c, "done")
      BY <1>5, <2>2, <2>3 DEF Write
    <3>2. o.op = "create" => user[o.name] = Book!NoUser
      BY <2>1, <2>3 DEF BookInv, Accepts
    <3>3. o.op \in Book!Switches => user[o.name] # Book!NoUser
      BY <2>1 DEF BookInv, HoldsSwitch, SwitchIsCurrent, IsSwitch
    <3>4. ASSUME o.op \in {"create", "ensure"} PROVE Book!KeyIsFree(o.name, o.key)
      <4>1. ~IsSwitch(o)
        BY <2>1, <3>4, OrderIs
      <4>2. Written(c).key = o.key
        BY <4>1 DEF Written
      <4> QED BY <2>3, <4>2 DEF Accepts
    <3>5. Book!Possible(o)
      BY <3>2, <3>3, <3>4 DEF Book!Possible
    <3> QED BY <2>1, <3>1, <3>5 DEF Tell, Book!Perform, Book!Next
  <2>4. CASE ~Accepts(c)
    BY <1>5, <2>1, <2>4 DEF Write, Tell, Book!Refuse, Book!Next
  <2> QED BY <2>3, <2>4
<1>6. CASE Exit(c)
  BY <1>6 DEF Exit, Book!Leave, Book!Next
<1> QED BY <1>2, <1>3, <1>4, <1>5, <1>6 DEF Command, Book!Next, Orders

LEMMA BookStarts == AccountsInit => Book!Init
BY TablesAssumption DEF AccountsInit, Book!Init, Rows
=============================================================================
