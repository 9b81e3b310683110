----------------------- MODULE AssistantConversation -----------------------
(***************************************************************************)
(* The conversation with the coding assistant of an exercise               *)
(* (machine/controllers/exercises.py, over the handlers of                 *)
(* machine/api/v1/exercise.py).                                            *)
(*                                                                         *)
(* An exercise refers to one conversation, which is created by whoever     *)
(* comes first, and every user who takes part is linked to it.  To ask is  *)
(* a transaction that stores the question, one that reads the history, the *)
(* stream of the model, and one that stores the reply.  A transaction      *)
(* reads first and commits later, and the messages bear the time at which  *)
(* it began to write.  The exercise may be deleted at any time, which does *)
(* not delete its conversation, and the client of a stream may leave it.   *)
(***************************************************************************)
EXTENDS Integers, FiniteSetsExt, SequencesExt

CONSTANTS
    Asks,           \* the calls of invoke_coding_assistant
    Listings,       \* the calls of get_coding_assistant_conversation_messages
    Users,
    Texts,          \* what users ask
    Opened,         \* BOOLEAN values: whether the exercise has its conversation already
    HistoryLength   \* how many messages the model is shown

ASSUME HistoryAssumption == HistoryLength \in Nat \ {0}
ASSUME OpenedAssumption == Opened \subseteq BOOLEAN

Requests == Asks \cup Listings

\* A request is one call, and none is called what a conversation may be called.
ASSUME RequestsAssumption == Asks \cap Listings = {} /\ {"none", "gone", "first"} \cap Requests = {}

VARIABLES
    conversation,  \* the conversation that the exercise refers to, or that it is gone
    links,         \* the rows of coding_conversations
    messages,      \* the rows of messages
    clock,         \* the time of the database
    pc,
    user,          \* per request, who makes it
    text,          \* per request, what is asked
    tx,            \* per request, what its transaction has read and will commit
    history        \* per request, the messages it has read

vars == <<conversation, links, messages, clock, pc, user, text, tx, history>>

None  == "none"
Gone  == "gone"   \* the exercise is deleted
First == "first"  \* a conversation from before
Idle  == [conversation |-> None, opens |-> FALSE, linked |-> TRUE, at |-> 0]

\* The transactions of a request, each in one of two states while it is open; one that fails
\* ends its request.
Stages == {"question", "lookup", "reply"}
States == {"looked", "flushed", "failed"}
Between == {"idle", "answered", "asked", "broken", "replying"}

Message(r, role) ==
    [by |-> r, role |-> role, user |-> user[r], conversation |-> tx[r].conversation, at |-> tx[r].at]

TypeOK ==
    /\ conversation \in {None, Gone, First} \cup Requests
    /\ \A l \in links : l[1] \in Users /\ (l[2] = First \/ l[2] \in Requests)
    /\ \A m \in messages : m.role \in {"user", "assistant"} /\ m.at \in 1..clock
    /\ pc \in [Requests -> {<<b>> : b \in Between} \cup Stages \X States]
    /\ \A r \in Requests : tx[r].opens => tx[r].conversation = r
    /\ \A r \in Requests : \A i \in DOMAIN history[r] : history[r][i] \in messages

Init ==
    /\ \E o \in Opened : conversation = IF o THEN First ELSE None
    /\ links = {}
    /\ messages = {}
    /\ clock = 0
    /\ pc = [r \in Requests |-> <<"idle">>]
    /\ user \in [Requests -> Users]
    /\ text \in [Asks -> Texts]
    /\ tx = [r \in Requests |-> Idle]
    /\ history = [r \in Requests |-> <<>>]

Goto(r, from, to) == pc[r] = from /\ pc' = [pc EXCEPT ![r] = to]

stored == <<conversation, links, messages>>

-----------------------------------------------------------------------------
(* A transaction: look, flush, commit *)

\* The exercise is read, and whether the user is linked to its conversation; a
\* conversation is created when there is none.
Look(r, stage, from) ==
    /\ conversation # Gone
    /\ Goto(r, from, <<stage, "looked">>)
    /\ LET c == IF conversation = None THEN r ELSE conversation IN
       tx' = [tx EXCEPT ![r] = [conversation |-> c, opens |-> conversation = None,
                                linked |-> <<user[r], c>> \in links, at |-> 0]]

\* The exercise that is to be read is not there.
NotFound(r) ==
    /\ conversation = Gone
    /\ \/ r \in Asks     /\ Goto(r, <<"idle">>, <<"question", "failed">>)
       \/ r \in Asks     /\ Goto(r, <<"asked">>, <<"lookup", "failed">>)
       \/ r \in Asks     /\ Goto(r, <<"replying">>, <<"reply", "failed">>)
       \/ r \in Listings /\ Goto(r, <<"idle">>, <<"lookup", "failed">>)
    /\ UNCHANGED <<stored, clock, user, text, tx, history>>

\* What is written waits for whoever writes the same row: the exercise, when its
\* conversation is set, or the user's link.
Blocked(r) ==
    \E q \in Requests \ {r} :
      /\ \E stage \in Stages : pc[q] = <<stage, "flushed">>
      /\ \/ tx[q].opens /\ tx[r].opens
         \/ ~ tx[q].linked /\ ~ tx[r].linked /\ user[q] = user[r] /\ tx[q].conversation = tx[r].conversation

\* A second link of the user to the conversation is refused.
Refused(r) == ~ tx[r].linked /\ <<user[r], tx[r].conversation>> \in links

\* Nor can an exercise that is gone be given a conversation.
Fails(r) == Refused(r) \/ (tx[r].opens /\ conversation = Gone)

\* Mutant: what is written has no time.
FlushUnstamped(r, stage) ==
    /\ Goto(r, <<stage, "looked">>, <<stage, "flushed">>)
    /\ ~ Blocked(r) /\ ~ Fails(r)
    /\ UNCHANGED <<stored, clock, tx, user, text, history>>

Flush(r, stage) ==
    /\ pc[r] = <<stage, "looked">>
    /\ ~ Blocked(r)
    /\ clock' = clock + 1
    /\ \/ /\ ~ Fails(r)
          /\ Goto(r, <<stage, "looked">>, <<stage, "flushed">>)
          /\ tx' = [tx EXCEPT ![r].at = clock']
       \/ /\ Fails(r)
          /\ Goto(r, <<stage, "looked">>, <<stage, "failed">>)
          /\ UNCHANGED tx
    /\ UNCHANGED <<stored, user, text, history>>

\* The exercise is written whatever others have made of it since it was read.
Commit(r, stage, to) ==
    /\ Goto(r, <<stage, "flushed">>, to)
    /\ conversation' = IF tx[r].opens THEN r ELSE conversation
    /\ links' = IF tx[r].linked THEN links ELSE links \cup {<<user[r], tx[r].conversation>>}

\* The exercise is deleted, once nobody holds its row; its conversation stays.
DeleteExercise ==
    /\ conversation # Gone
    /\ ~ \E r \in Requests, stage \in Stages : pc[r] = <<stage, "flushed">> /\ tx[r].opens
    /\ conversation' = Gone
    /\ UNCHANGED <<links, messages, clock, pc, user, text, tx, history>>

-----------------------------------------------------------------------------
(* Asking *)

LookForQuestion(r) ==
    /\ r \in Asks
    /\ Look(r, "question", <<"idle">>)
    /\ UNCHANGED <<stored, clock, user, text, history>>

CommitQuestion(r) ==
    /\ r \in Asks
    /\ Commit(r, "question", <<"asked">>)
    /\ messages' = messages \cup {Message(r, "user")}
    /\ UNCHANGED <<clock, user, text, tx, history>>

\* The messages of the conversation by their time, two of one time in any order.
Read(c) ==
    {s \in SetToSeqs({m \in messages : m.conversation = c}) :
       \A i, j \in DOMAIN s : i < j => s[i].at <= s[j].at}

LastOf(s, n) == IF Len(s) > n THEN SubSeq(s, Len(s) - n + 1, Len(s)) ELSE s

\* The exercise is read again, and kept from here on.
LookForHistory(r) ==
    /\ r \in Asks
    /\ Look(r, "lookup", <<"asked">>)
    /\ \E s \in Read(tx'[r].conversation) : history' = [history EXCEPT ![r] = LastOf(s, HistoryLength)]
    /\ UNCHANGED <<stored, clock, user, text>>

CommitHistory(r) ==
    /\ r \in Asks
    /\ Commit(r, "lookup", <<"replying">>)
    /\ UNCHANGED <<messages, clock, user, text, tx, history>>

\* What the model is shown: the history, and the question unless it is its end.
Prompt(r) ==
    LET shown == [i \in DOMAIN history[r] |-> <<history[r][i].role, IF history[r][i].role = "user"
                                                THEN text[history[r][i].by] ELSE "reply">>]
        question == <<"user", text[r]>> IN
    IF shown = <<>> \/ shown[Len(shown)] # question THEN Append(shown, question) ELSE shown

\* The call to the model or its stream fails, or the client is gone: the generator is
\* cancelled where it is, and the transaction that is open with it.
Break(r) ==
    /\ r \in Asks
    /\ \/ pc[r] \in {<<"asked">>, <<"replying">>}
       \/ pc[r] \in Stages \X {"looked", "flushed"}
    /\ pc' = [pc EXCEPT ![r] = <<"broken">>]
    /\ UNCHANGED <<stored, clock, user, text, tx, history>>

\* Mutant: the exercise is read afresh for the reply.
ReplyReadsAfresh(r) ==
    /\ r \in Asks
    /\ Look(r, "reply", <<"replying">>)
    /\ UNCHANGED <<stored, clock, user, text, history>>

\* The whole reply is there: its transaction finds that the exercise is still there, has it
\* as it was read for the history, and finds the link that was made then.
StreamEnds(r) ==
    /\ r \in Asks
    /\ conversation # Gone
    /\ Goto(r, <<"replying">>, <<"reply", "looked">>)
    /\ tx' = [tx EXCEPT ![r].opens = FALSE, ![r].linked = TRUE]
    /\ UNCHANGED <<stored, clock, user, text, history>>

CommitReply(r) ==
    /\ r \in Asks
    /\ Commit(r, "reply", <<"answered">>)
    /\ messages' = messages \cup {Message(r, "assistant")}
    /\ UNCHANGED <<clock, user, text, tx, history>>

-----------------------------------------------------------------------------
(* Reading the conversation: the same transaction, without a question *)

LookForListing(r) ==
    /\ r \in Listings
    /\ Look(r, "lookup", <<"idle">>)
    /\ \E s \in Read(tx'[r].conversation) : history' = [history EXCEPT ![r] = s]
    /\ UNCHANGED <<stored, clock, user, text>>

CommitListing(r) ==
    /\ r \in Listings
    /\ Commit(r, "lookup", <<"answered">>)
    /\ UNCHANGED <<messages, clock, user, text, tx, history>>

-----------------------------------------------------------------------------
Next ==
    \/ DeleteExercise
    \/ \E r \in Requests :
         \/ LookForQuestion(r) \/ CommitQuestion(r)
         \/ LookForHistory(r) \/ CommitHistory(r)
         \/ Break(r) \/ StreamEnds(r) \/ CommitReply(r)
         \/ LookForListing(r) \/ CommitListing(r)
         \/ NotFound(r)
         \/ \E stage \in Stages : Flush(r, stage)

Spec == Init /\ [][Next]_vars

-----------------------------------------------------------------------------
(* Correctness *)

Ofs(role) == {m \in messages : m.role = role}

\* A reply is stored in the conversation from which the model was shown its
\* history, whatever the exercise refers to by then, and after all of it.
RepliesFollowTheirHistory ==
    \A m \in Ofs("assistant") :
      \A i \in DOMAIN history[m.by] :
        history[m.by][i].conversation = m.conversation /\ history[m.by][i].at < m.at

\* Whoever has a message in a conversation, or a reply, is linked to it, however
\* often the exercise changed its conversation in between.
WritersAreLinked == \A m \in messages : <<m.user, m.conversation>> \in links

\* A message is where its readers look for it: a reply after the history it answers, in a
\* conversation to which its user is linked.
MessagesAreInPlace == RepliesFollowTheirHistory /\ WritersAreLinked

\* What is left of an ask that has stored its question.
AtWork(r) == pc[r] \in {<<"asked">>, <<"replying">>} \cup {"lookup", "reply"} \X {"looked", "flushed"}

\* A stored question stays without its reply only when the model or the client broke off, the
\* exercise was deleted, or another request of the same user linked it to the conversation
\* before its history was committed.  Once the history is there, whoever else opens, links or
\* writes cannot make the transaction of the reply (exercises.py:276) fail.
UnansweredHaveACause ==
    \A m \in Ofs("user") :
      \/ \E n \in Ofs("assistant") : n.by = m.by
      \/ AtWork(m.by) \/ pc[m.by] = <<"broken">>
      \/ conversation = Gone
      \/ pc[m.by] = <<"lookup", "failed">> /\ Refused(m.by)

=============================================================================
