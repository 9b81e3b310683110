--------------------------- MODULE UserDirectory ---------------------------
(***************************************************************************)
(* The users as their administrator and they themselves see and change     *)
(* them (machine/api/v1/user.py): creation of several, a user's own edit   *)
(* with a new avatar, the change of a status, the information on one user, *)
(* the list with its filter and the count.                                 *)
(*                                                                         *)
(* Students, professors and administrators are three tables, read one      *)
(* after the other.  A user here is an address in one of the tables.  A    *)
(* condition that is not in a list is taken for no condition at all: a     *)
(* comparison of a column with a value is false when asked for its truth.  *)
(***************************************************************************)
EXTENDS Integers, Sequences, FiniteSets

CONSTANTS
    Students, Professors, Admins,
    Known,       \* the users that are there from the start
    Creates,     \* the requests that create two users each
    Edits,       \* the requests in which users edit themselves
    Toggles,     \* the requests that change a status
    Shows,       \* the requests for the information on one user
    Lists,       \* the requests for the list of users
    Counts       \* the requests for their number

Users     == Students \cup Professors \cup Admins
UserCalls == Creates \cup Edits \cup Toggles \cup Shows \cup Lists \cup Counts

\* An administrator is there, to make the calls.
ASSUME KnownAssumption == Known \subseteq Users /\ Known \cap Admins # {}

\* The tables are different tables, and the requests different calls.
ASSUME KindsAssumption ==
    /\ IsFiniteSet(Users)
    /\ Students \cap Professors = {} /\ (Students \cup Professors) \cap Admins = {}
    /\ Creates \cap (Edits \cup Toggles \cup Shows \cup Lists \cup Counts) = {}
    /\ Edits \cap (Toggles \cup Shows \cup Lists \cup Counts) = {}
    /\ Toggles \cap (Shows \cup Lists \cup Counts) = {}
    /\ Shows \cap (Lists \cup Counts) = {} /\ Lists \cap Counts = {}

VARIABLES
    users,     \* the rows of the three tables
    stored,    \* the objects in S3, each named after the request that uploaded it
    step,      \* where each request stands, for a read the table that is next
    target,    \* per request on one user, whom
    wanted,    \* per creation, the users it is to create
    given,     \* per edit, the fields it gives
    filter,    \* per list, the role and the status it is for
    found,     \* per request, what it has read
    before     \* history: the rows when a list or a count began

userVars == <<users, stored, step, target, wanted, given, filter, found, before>>

NoUser  == [name |-> "none"]
Old     == "old"
NewUser == [name |-> Old, avatar |-> Old, active |-> FALSE]

Roles      == <<"student", "professor", "admin">>
UsersIn(i) == CASE i = 1 -> Students [] i = 2 -> Professors [] i = 3 -> Admins
TableOf(u) == CHOOSE i \in 1..3 : u \in UsersIn(i)

There(rows) == {u \in Users : rows[u] # NoUser}
Fields      == {"name", "avatar"}
inputs      == <<target, wanted, given, filter>>

Turn(r, from, to) == step[r] = from /\ step' = [step EXCEPT ![r] = to]

UserTypeOK ==
    /\ \A u \in There(users) : /\ users[u].active \in BOOLEAN
                               /\ users[u].name \in {Old} \cup Edits
                               /\ users[u].avatar \in {Old} \cup stored
    /\ stored \subseteq {e \in Edits : "avatar" \in given[e]}
    /\ \A r \in Counts : found[r] \in 0..Cardinality(Users)
    /\ Known \subseteq There(users)

UserInit ==
    /\ \E on \in SUBSET Known :
         users = [u \in Users |-> IF u \in Known THEN [NewUser EXCEPT !.active = u \in on] ELSE NoUser]
    /\ stored = {}
    /\ step = [r \in UserCalls |-> "idle"]
    /\ target \in [Edits \cup Toggles \cup Shows -> Users]
    /\ \A e \in Edits : target[e] \in Known
    /\ wanted \in [Creates -> Users \X Users]
    /\ given \in [Edits -> SUBSET Fields \ {{}}]
    /\ filter \in [Lists -> (1..3 \cup {0}) \X {"any", "active", "inactive"}]
    /\ found = [r \in UserCalls |-> 0]
    /\ before = [r \in Lists \cup Counts |-> users]

-----------------------------------------------------------------------------
(* Creation: every user is committed before the next *)

Insert(u) == users' = [users EXCEPT ![u] = NewUser]

CreateNext(r, i) ==
    /\ i = found[r] + 1
    /\ IF wanted[r][i] \in There(users)
       THEN Turn(r, "idle", "failed") /\ UNCHANGED <<users, found>>
       ELSE /\ Turn(r, "idle", IF i = 2 THEN "answered" ELSE "idle")
            /\ Insert(wanted[r][i])
            /\ found' = [found EXCEPT ![r] = i]
    /\ UNCHANGED <<stored, inputs, before>>

Create == \E r \in Creates, i \in 1..2 : CreateNext(r, i)

-----------------------------------------------------------------------------
(* A user's own edit *)

\* The user's row is looked for in the three tables, and the role in the form
\* must be that of the table in which it is.
LookUp(r) ==
    /\ r \in Edits
    /\ \/ Turn(r, "idle", "failed")
       \/ Turn(r, "idle", IF "avatar" \in given[r] THEN "upload" ELSE "save")
    /\ found' = [found EXCEPT ![r] = users[target[r]]]
    /\ UNCHANGED <<users, stored, inputs, before>>

Upload(r) ==
    /\ r \in Edits
    /\ \/ Turn(r, "upload", "failed") /\ UNCHANGED stored
       \/ Turn(r, "upload", "save") /\ stored' = stored \cup {r}
    /\ UNCHANGED <<users, inputs, found, before>>

\* Mutant: the row is written as it was read, with what is given.
Save_All(r) ==
    /\ r \in Edits
    /\ Turn(r, "save", "answered")
    /\ users' = [users EXCEPT ![target[r]] =
                   [f \in DOMAIN NewUser |-> IF f \in given[r] THEN r ELSE found[r][f]]]
    /\ UNCHANGED <<stored, inputs, found, before>>

\* Only what is given is written.
Save(r) ==
    /\ r \in Edits
    /\ Turn(r, "save", "answered")
    /\ users' = [users EXCEPT ![target[r]] =
                   [f \in DOMAIN NewUser |-> IF f \in given[r] THEN r ELSE users[target[r]][f]]]
    /\ UNCHANGED <<stored, inputs, found, before>>

Edit == \E r \in Edits : LookUp(r) \/ Upload(r) \/ Save(r)

-----------------------------------------------------------------------------
(* One user, for an administrator *)

\* The first row of the first table that has one, whoever was asked for.
FirstFound == LET i == CHOOSE j \in 1..3 : /\ There(users) \cap UsersIn(j) # {}
                                      /\ \A k \in 1..(j - 1) : There(users) \cap UsersIn(k) = {}
         IN There(users) \cap UsersIn(i)

ReadStatus(r) ==
    /\ r \in Toggles
    /\ Turn(r, "idle", "set")
    /\ \E u \in FirstFound : found' = [found EXCEPT ![r] = [table |-> TableOf(u), of |-> u, active |-> users[u].active]]
    /\ UNCHANGED <<users, stored, inputs, before>>

\* The row of the user asked for is written, in the table of the row that was read.
SetStatus(r) ==
    /\ r \in Toggles
    /\ Turn(r, "set", "answered")
    /\ LET u == target[r] IN
       users' = IF u \in There(users) \cap UsersIn(found[r].table)
                THEN [users EXCEPT ![u].active = ~ found[r].active] ELSE users
    /\ UNCHANGED <<stored, inputs, found, before>>

Toggle == \E r \in Toggles : ReadStatus(r) \/ SetStatus(r)

Show(r) ==
    /\ r \in Shows
    /\ Turn(r, "idle", "answered")
    /\ \E u \in FirstFound : found' = [found EXCEPT ![r] = u]
    /\ UNCHANGED <<users, stored, inputs, before>>

-----------------------------------------------------------------------------
(* The list and the count *)

Begin(r) ==
    /\ r \in Lists \cup Counts
    /\ Turn(r, "idle", "student")
    /\ before' = [before EXCEPT ![r] = users]
    /\ found' = [found EXCEPT ![r] = IF r \in Lists THEN {} ELSE 0]
    /\ UNCHANGED <<users, stored, inputs>>

Then(i) == IF i = 3 THEN "answered" ELSE Roles[i + 1]

Matches(rows, u, f) ==
    /\ f[1] \in {0, TableOf(u)}
    /\ f[2] # "any" => rows[u].active = (f[2] = "active")

ListTable(r, i) ==
    /\ r \in Lists
    /\ Turn(r, Roles[i], Then(i))
    /\ found' = [found EXCEPT ![r] = @ \cup {u \in There(users) \cap UsersIn(i) : Matches(users, u, filter[r])}]
    /\ UNCHANGED <<users, stored, inputs, before>>

\* Mutant: each table's number takes the place of the one before.
CountTable_Last(r, i) ==
    /\ r \in Counts
    /\ Turn(r, Roles[i], Then(i))
    /\ found' = [found EXCEPT ![r] = Cardinality(There(users) \cap UsersIn(i))]
    /\ UNCHANGED <<users, stored, inputs, before>>

CountTable(r, i) ==
    /\ r \in Counts
    /\ Turn(r, Roles[i], Then(i))
    /\ found' = [found EXCEPT ![r] = @ + Cardinality(There(users) \cap UsersIn(i))]
    /\ UNCHANGED <<users, stored, inputs, before>>

Read == \E r \in Lists \cup Counts : Begin(r) \/ \E i \in 1..3 : ListTable(r, i) \/ CountTable(r, i)

-----------------------------------------------------------------------------
UserNext == Create \/ Edit \/ Toggle \/ Read \/ \E r \in Shows : Show(r)

UserSpec == UserInit /\ [][UserNext]_userVars

-----------------------------------------------------------------------------
(* Correctness *)

\* A creation that is answered has made all of its users itself: of two that
\* share a user, at most one is answered.
AnsweredCreationsAreWhole ==
    \A r \in Creates :
      step[r] = "answered" =>
        /\ \A i \in 1..2 : wanted[r][i] \in There(users) \ Known
        /\ wanted[r][1] # wanted[r][2]
        /\ \A q \in Creates \ {r}, i, j \in 1..2 :
             step[q] = "answered" => wanted[q][i] # wanted[r][j]

\* What an edit gave is there as long as no other edit gives the same, whatever
\* the overlapping edits and status changes of the same user have read.
EditsAreKept ==
    \A r \in Edits : \A f \in given[r] :
      (/\ step[r] = "answered"
       /\ \A q \in Edits \ {r} : target[q] = target[r] => f \notin given[q])
      => users[target[r]][f] = r

\* What an answer says of users is so, whatever overlaps: an edit stays until another
\* gives the same field (user.py:166), and a creation has made all of its users
\* (user.py:39).
UsersAreAsAnswered == EditsAreKept /\ AnsweredCreationsAreWhole

\* Who was there when the list began and matches its filter all the while is
\* listed, and nobody is who never matched: of the users whose status is changed
\* at most once.
ListsWhoMatches ==
    \A r \in Lists : step[r] = "answered" =>
      LET first(u) == IF before[r][u] = NoUser THEN NewUser ELSE before[r][u]
          wants(row, u) == /\ filter[r][1] # 0 => u \in UsersIn(filter[r][1])
                           /\ filter[r][2] = "active" => row.active
                           /\ filter[r][2] = "inactive" => ~ row.active
          once == {u \in Users : \A p, q \in Toggles : target[p] = u /\ target[q] = u => p = q}
      IN /\ \A u \in There(before[r]) \cap once :
              wants(before[r][u], u) /\ wants(users[u], u) => u \in found[r]
         /\ \A u \in found[r] \cap once : wants(users[u], u) \/ wants(first(u), u)

\* The number of users is one that was right at some time of the count.
CountIsBetween ==
    \A r \in Counts : step[r] = "answered" =>
      /\ found[r] >= Cardinality(There(before[r]))
      /\ found[r] <= Cardinality(There(users))

\* The list and the count, which read the three tables one after the other, show what
\* was so at some time of their reading (user.py:406).
UsersAreRead == ListsWhoMatches /\ CountIsBetween

=============================================================================
