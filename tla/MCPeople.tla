------------------------------ MODULE MCPeople ------------------------------
(***************************************************************************)
(* Accounts and UserDirectory for TLC.  A behaviour plays one scene, in    *)
(* which a cast of one of the two acts and all else rests.                 *)
(***************************************************************************)
EXTENDS Accounts, UserDirectory, TLC

CONSTANT Scenes   \* the scenes that the run plays

VARIABLE scene

\* Of UserDirectory: two edits and a change of status; two creations, a count and the
\* information on a user; a list beside a creation and a change of status.
Cast == [accounts |-> {},
         edited   |-> Edits \cup Toggles,
         created  |-> Creates \cup Counts \cup Shows,
         listed   |-> {"new1"} \cup Lists \cup Toggles]

\* The administrators' table starts empty, and the professors' with at most a new row: what
\* an account may be is tried in the students' table.
AccountsInit ==
    /\ Init
    /\ IF scene = "accounts"
       THEN account["admin"] = NoRow /\ account["professor"] \in {NoRow, NewRow}
       ELSE account = [t \in Tables |-> NoRow]

\* Who does not act was called with something.
DirectoryInit ==
    /\ target \in [Edits \cup Toggles \cup Shows -> Users]
    /\ \A r \in DOMAIN target \ (Cast[scene] \ Shows) : target[r] = "s1"
    /\ wanted \in [Creates -> Users \X Users]
    /\ \A r \in Creates \ Cast[scene] : wanted[r] = <<"s1", "s1">>
    /\ given \in [Edits -> SUBSET Fields \ {{}}]
    /\ \A r \in Edits \ Cast[scene] : given[r] = {"name"}
    /\ filter \in [Lists -> (1..3 \cup {0}) \X {"any", "active", "inactive"}]
    /\ \A r \in Lists \ Cast[scene] : filter[r] = <<0, "any">>
    /\ UserInit
    /\ scene = "accounts" => \A u \in Known : users[u].active

MCInit == scene \in Scenes /\ DirectoryInit /\ AccountsInit

DirectoryScene ==
    /\ UserNext
    /\ \A r \in UserCalls \ Cast[scene] : step'[r] = step[r]

MCNext ==
    \/ scene = "accounts" /\ Next /\ UNCHANGED <<scene, userVars>>
    \/ DirectoryScene             /\ UNCHANGED <<scene, vars>>

MCSpec == MCInit /\ [][MCNext]_<<scene, vars, userVars>>

\* Requests, codes and passwords are never compared but for equality.
Symmetry == Permutations(Requests) \cup Permutations(Codes) \cup Permutations(Passwords)

\* Every variable of every component has its type.
TypesOK == TypeOK /\ UserTypeOK

=============================================================================
