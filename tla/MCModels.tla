------------------------------ MODULE MCModels ------------------------------
(***************************************************************************)
(* AssistantConversation, PromptChunks and IssuesSummary for TLC.  A       *)
(* behaviour plays one scene, in which a cast of one of them acts and all  *)
(* else rests.                                                             *)
(***************************************************************************)
EXTENDS AssistantConversation, PromptChunks, IssuesSummary

CONSTANT Scenes   \* the scenes that the run plays

VARIABLE scene

\* Of IssuesSummary: a quiz's analysis beside the actor; the analyses of two quizzes.
Cast == [both |-> {"quiz1", "task1"}, two |-> {"quiz1", "quiz2"}]

\* Users are interchangeable: the first question is the first user's.
AskedInit ==
    /\ Init
    /\ user["ask1"] = "u1"
    /\ scene # "asked" => conversation = None /\ user = [r \in Requests |-> "u1"]

\* The chunks are a function of the data: how any data are cut is seen in the beginning, and
\* up to three chunks, some of them of one large item, are sent.
DataInit ==
    /\ ChunksInit
    /\ CASE scene = "cut"  -> TRUE
         [] scene = "sent" -> data \in SeqOf({1, 5}, 3)
         [] OTHER          -> data = <<>>

MCInit == scene \in Scenes /\ AskedInit /\ DataInit /\ IssuesInit

MCNext ==
    \/ scene = "asked" /\ Next /\ UNCHANGED <<scene, chunkVars, issueVars>>
    \/ scene = "sent" /\ ChunksNext /\ UNCHANGED <<scene, vars, issueVars>>
    \/ /\ scene \in DOMAIN Cast
       /\ IssuesNext
       /\ \A a \in Actors \ Cast[scene] : phase'[a] = phase[a]
       /\ queue'["task1"] # NoMessage => "task1" \in Cast[scene]
       /\ triggered' \subseteq Cast[scene]
       /\ UNCHANGED <<scene, vars, chunkVars>>

MCSpec == MCInit /\ [][MCNext]_<<scene, vars, chunkVars, issueVars>>

\* Every variable of every component has its type.
TypesOK == TypeOK /\ ChunksTypeOK /\ IssuesTypeOK

=============================================================================
