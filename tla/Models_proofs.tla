---------------------------- MODULE Models_proofs ----------------------------
(***************************************************************************)
(* Proofs about AssistantConversation, for any sets of requests, users and *)
(* texts and any length of the history; about PromptChunks, for data of    *)
(* any length; and about IssueMerge and IssuesSummary, for any sets of     *)
(* actors, any types and descriptions, and lists of any length.            *)
(***************************************************************************)
EXTENDS MCModels, Collections_proofs

-----------------------------------------------------------------------------
(* AssistantConversation.                                                  *)

\* Where a request stands, in the words of the proofs.
Looked(r, stage)  == pc[r] = <<stage, "looked">>
Flushed(r, stage) == pc[r] = <<stage, "flushed">>
At(r, where)      == pc[r] = <<where>>
Failed(r, stage)  == pc[r] = <<stage, "failed">>

-----------------------------------------------------------------------------
(* The inductive invariant.                                                *)

Transactions == [conversation : {None, First} \cup Requests, opens : BOOLEAN,
                 linked : BOOLEAN, at : Nat]

ShapeInv ==
    /\ IsFiniteSet(messages) /\ clock \in Nat
    /\ user \in [Requests -> Users]
    /\ tx \in [Requests -> Transactions]
    /\ DOMAIN history = Requests

\* A transaction is about a conversation, and what it holds of the link is still so when it
\* commits.
LinkOf(r) ==
    (At(r, "replying") \/ \E stage \in Stages : Looked(r, stage) \/ Flushed(r, stage)) =>
        /\ tx[r].conversation \in {First} \cup Requests
        /\ tx[r].linked \/ At(r, "replying") => <<user[r], tx[r].conversation>> \in links

\* What is flushed has its time.
TimeOf(r) == \A stage \in Stages : Flushed(r, stage) => tx[r].at \in 1..clock

\* A history is read once, from the conversation that the request goes on with, and the
\* time of the reply comes after it.
HistoryOf(r) ==
    /\ \/ At(r, "idle") \/ At(r, "asked")
       \/ Looked(r, "question") \/ Flushed(r, "question")
       => DOMAIN history[r] = {}
    /\ \A i \in DOMAIN history[r] :
         /\ history[r][i].conversation = tx[r].conversation
         /\ Flushed(r, "reply") => history[r][i].at < tx[r].at

RequestInv(r) == LinkOf(r) /\ TimeOf(r) /\ HistoryOf(r)

\* The reply is the last that its request does.
ReplyInv ==
    /\ \A m \in messages : m.by \in Asks
    /\ \A m \in Ofs("assistant") : At(m.by, "answered")

ConversationInv ==
    /\ TypeOK /\ ShapeInv
    /\ \A r \in Requests : RequestInv(r)
    /\ ReplyInv /\ MessagesAreInPlace

-----------------------------------------------------------------------------
(* The places of a request, and what its history is.                       *)

\* A request is in one place.
LEMMA BetweenOnly ==
    ASSUME NEW r, NEW w
    PROVE  /\ At(r, w) => /\ \A x : At(r, x) <=> x = w
                          /\ \A s : ~ Looked(r, s) /\ ~ Flushed(r, s)
           /\ At(r, w)' => /\ \A x : At(r, x)' <=> x = w
                           /\ \A s : ~ Looked(r, s)' /\ ~ Flushed(r, s)'
BY DEF At, Looked, Flushed

LEMMA FailedOnly ==
    ASSUME NEW r, NEW w, Failed(r, w)'
    PROVE  /\ \A x : ~ At(r, x)'
           /\ \A s : ~ Looked(r, s)' /\ ~ Flushed(r, s)'
BY DEF At, Looked, Flushed, Failed

LEMMA WithinOnly ==
    ASSUME NEW r, NEW s
    PROVE  /\ Looked(r, s) => /\ \A x : ~ At(r, x) /\ ~ Flushed(r, x)
                              /\ \A x : Looked(r, x) <=> x = s
           /\ Looked(r, s)' => /\ \A x : ~ At(r, x)' /\ ~ Flushed(r, x)'
                               /\ \A x : Looked(r, x)' <=> x = s
           /\ Flushed(r, s) => /\ \A x : ~ At(r, x) /\ ~ Looked(r, x)
                               /\ \A x : Flushed(r, x) <=> x = s
           /\ Flushed(r, s)' => /\ \A x : ~ At(r, x)' /\ ~ Looked(r, x)'
                                /\ \A x : Flushed(r, x)' <=> x = s
BY DEF At, Looked, Flushed

\* A reader gets messages of its conversation.
LEMMA ReadIsOfTheConversation ==
    ASSUME ShapeInv, NEW c, NEW s \in Read(c)
    PROVE  /\ s \in Seq(messages)
           /\ \A i \in DOMAIN s : s[i] \in messages /\ s[i].conversation = c
<1> DEFINE M == {m \in messages : m.conversation = c}
<1>1. IsFiniteSet(M)
  BY FS_Subset DEF ShapeInv
<1>2. Cardinality(M) \in Nat
  BY <1>1, FS_CardinalityType
<1>3. s \in [1..Cardinality(M) -> M]
  BY DEF Read, SetToSeqs
<1>4. s \in Seq(M)
  BY <1>2, <1>3, SeqDef
<1>5. \A i \in DOMAIN s : s[i] \in M
  BY <1>3
<1>6. QED
  BY <1>4, <1>5

\* The last messages of a sequence are among it.
LEMMA LastOfIsPart ==
    ASSUME NEW S, NEW s \in Seq(S), NEW n \in Nat \ {0}
    PROVE  \A i \in DOMAIN LastOf(s, n) : \E j \in DOMAIN s : LastOf(s, n)[i] = s[j]
<1>1. CASE Len(s) > n
  BY <1>1 DEF LastOf
<1>2. CASE ~ Len(s) > n
  BY <1>2 DEF LastOf
<1>3. QED
  BY <1>1, <1>2

LEMMA ConversationInit == Init => ConversationInv
<1> SUFFICES ASSUME Init PROVE ConversationInv
  OBVIOUS
<1>1. TypeOK
  BY DEF Init, TypeOK, Idle, Between
<1>2. ShapeInv
  BY FS_EmptySet DEF Init, ShapeInv, Idle, Transactions
<1>3. ASSUME NEW r \in Requests PROVE RequestInv(r)
  <2>1. At(r, "idle") /\ DOMAIN history[r] = {}
    BY DEF Init, At
  <2>2. QED
    BY <2>1, BetweenOnly DEF RequestInv, LinkOf, TimeOf, HistoryOf
<1>4. ReplyInv /\ MessagesAreInPlace
  BY DEF Init, ReplyInv, MessagesAreInPlace, RepliesFollowTheirHistory, WritersAreLinked, Ofs
<1>5. QED
  BY <1>1, <1>2, <1>3, <1>4 DEF ConversationInv

-----------------------------------------------------------------------------
(* The steps.                                                              *)

\* A step is of one request.
LEMMA Moved ==
    ASSUME TypeOK, NEW r \in Requests, NEW from, NEW to, Goto(r, from, to)
    PROVE  /\ pc'[r] = to
           /\ \A q \in Requests \ {r} : pc'[q] = pc[q]
BY DEF TypeOK, Goto

Places == {<<b>> : b \in Between} \cup Stages \X States

LEMMA MovedTyped ==
    ASSUME TypeOK, NEW r \in Requests, NEW from, NEW w \in Between, Goto(r, from, <<w>>)
    PROVE  pc' \in [Requests -> Places]
BY DEF TypeOK, Goto, Places

\* What others do does not concern a request: links and time only grow.
LEMMA OthersKeep ==
    ASSUME NEW q \in Requests, RequestInv(q), clock \in Nat, clock' \in {clock, clock + 1},
           pc'[q] = pc[q], tx'[q] = tx[q], history'[q] = history[q],
           user' = user, links \subseteq links'
    PROVE  RequestInv(q)'
<1>1. LinkOf(q)'
  BY DEF RequestInv, LinkOf, Looked, Flushed, At
<1>2. TimeOf(q)'
  BY DEF RequestInv, TimeOf, Flushed
<1>3. HistoryOf(q)'
  BY DEF RequestInv, HistoryOf, Looked, Flushed, At
<1>4. QED
  BY <1>1, <1>2, <1>3 DEF RequestInv

\* A request whose transactions are over, with the history it has.
LEMMA EndedKeeps ==
    ASSUME NEW r \in Requests, RequestInv(r), tx'[r] = tx[r], history'[r] = history[r],
           NEW w, Failed(r, w)' \/ (At(r, w)' /\ w \notin {"idle", "asked", "replying"})
    PROVE  RequestInv(r)'
<1>1. /\ ~ At(r, "idle")' /\ ~ At(r, "asked")' /\ ~ At(r, "replying")'
      /\ \A s : ~ Looked(r, s)' /\ ~ Flushed(r, s)'
  BY BetweenOnly, FailedOnly
<1>2. LinkOf(r)' /\ TimeOf(r)'
  BY <1>1 DEF LinkOf, TimeOf
<1>3. HistoryOf(r)'
  BY <1>1 DEF RequestInv, HistoryOf
<1>4. QED
  BY <1>2, <1>3 DEF RequestInv

\* What a new message says is so of those who read it.
LEMMA NewMessage ==
    ASSUME NEW r, NEW role, messages' = messages \cup {Message(r, role)}
    PROVE  \A m \in messages' :
             \/ m \in messages
             \/ /\ m.by = r /\ m.role = role /\ m.user = user[r]
                /\ m.conversation = tx[r].conversation /\ m.at = tx[r].at
BY DEF Message

\* Until its last step no reply is stored of a request, and other steps store none.
LEMMA RepliesKeep ==
    ASSUME ReplyInv, MessagesAreInPlace, NEW r \in Requests,
           ~ At(r, "answered"),
           \A q \in Requests \ {r} : pc'[q] = pc[q] /\ history'[q] = history[q],
           links \subseteq links',
           messages' = messages \/ /\ r \in Asks /\ messages' = messages \cup {Message(r, "user")}
                                   /\ <<user[r], tx[r].conversation>> \in links'
    PROVE  ReplyInv' /\ MessagesAreInPlace'
<1>1. \A m \in messages' :
        \/ m \in messages
        \/ /\ r \in Asks /\ m.by = r /\ m.role = "user" /\ m.user = user[r]
           /\ m.conversation = tx[r].conversation
           /\ <<user[r], tx[r].conversation>> \in links'
  BY NewMessage
<1>2. \A m \in Ofs("assistant")' : m \in Ofs("assistant") /\ m \in messages
  BY <1>1 DEF Ofs
<1>3. \A m \in Ofs("assistant") : m.by \in Requests \ {r}
  BY DEF ReplyInv, Ofs, Requests
<1>4. ReplyInv'
  <2>1. \A m \in messages' : m.by \in Asks
    BY <1>1 DEF ReplyInv
  <2>2. \A m \in Ofs("assistant")' : At(m.by, "answered")'
    BY <1>2, <1>3 DEF ReplyInv, At
  <2>3. QED
    BY <2>1, <2>2 DEF ReplyInv
<1>5. RepliesFollowTheirHistory'
  BY <1>2, <1>3 DEF MessagesAreInPlace, RepliesFollowTheirHistory
<1>6. WritersAreLinked'
  BY <1>1 DEF MessagesAreInPlace, WritersAreLinked
<1>7. QED
  BY <1>4, <1>5, <1>6 DEF MessagesAreInPlace

\* What a transaction has read.
LEMMA LookReads ==
    ASSUME TypeOK, ShapeInv, NEW r \in Requests, NEW stage \in Stages, NEW from,
           Look(r, stage, from)
    PROVE  /\ tx'[r].conversation \in {First} \cup Requests
           /\ tx'[r].linked => <<user[r], tx'[r].conversation>> \in links
           /\ tx'[r].opens => tx'[r].conversation = r
           /\ \A q \in Requests \ {r} : tx'[q] = tx[q]
           /\ tx' \in [Requests -> Transactions]
           /\ pc' \in [Requests -> Places]
<1> DEFINE c == IF conversation = None THEN r ELSE conversation
           t == [conversation |-> c, opens |-> conversation = None,
                 linked |-> <<user[r], c>> \in links, at |-> 0]
<1>1. c \in {First} \cup Requests /\ (conversation = None => c = r)
  BY DEF TypeOK, Look
<1>2. t \in Transactions
  BY <1>1 DEF Transactions
<1>3. tx' = [tx EXCEPT ![r] = t]
  BY DEF Look
<1>4. tx'[r] = t /\ (\A q \in Requests \ {r} : tx'[q] = tx[q]) /\ tx' \in [Requests -> Transactions]
  BY <1>2, <1>3 DEF ShapeInv
<1>5. t.conversation = c /\ (t.linked => <<user[r], c>> \in links) /\ (t.opens => conversation = None)
  OBVIOUS
<1>6. pc' \in [Requests -> Places]
  BY DEF Look, Goto, TypeOK, Places, States
<1>7. QED
  BY <1>1, <1>4, <1>5, <1>6

LEMMA LookForQuestionInv ==
    ASSUME ConversationInv, NEW r \in Requests, LookForQuestion(r)
    PROVE  ConversationInv'
<1> USE DEF ConversationInv
<1>1. Look(r, "question", <<"idle">>) /\ UNCHANGED <<stored, clock, user, text, history>>
  BY DEF LookForQuestion
<1>2. /\ conversation' = conversation /\ links' = links /\ messages' = messages /\ clock' = clock
      /\ user' = user /\ history' = history /\ clock \in Nat
  BY <1>1 DEF stored, ShapeInv
<1>3. At(r, "idle") /\ Looked(r, "question")' /\ \A q \in Requests \ {r} : pc'[q] = pc[q]
  BY <1>1, Moved, ZenonT(40) DEF Look, Goto, At, Looked
<1>4. "question" \in Stages
  BY DEF Stages
<1> USE <1>1, <1>2, <1>4
<1>5. TypeOK' /\ ShapeInv'
  <2>1. \A q \in Requests : tx'[q].opens => tx'[q].conversation = q
    BY LookReads DEF TypeOK
  <2>2. QED
    BY <2>1, LookReads, ZenonT(40) DEF TypeOK, ShapeInv, Places
<1>6. RequestInv(r)'
  <2>1. LinkOf(r)'
    BY <1>3, LookReads, WithinOnly DEF LinkOf
  <2>2. TimeOf(r)'
    BY <1>3, WithinOnly DEF TimeOf
  <2>3. HistoryOf(r)'
    BY <1>3, WithinOnly DEF RequestInv, HistoryOf
  <2>4. QED
    BY <2>1, <2>2, <2>3 DEF RequestInv
<1>7. \A q \in Requests \ {r} : RequestInv(q)'
  BY <1>3, LookReads, OthersKeep
<1>8. ReplyInv' /\ MessagesAreInPlace'
  <2>1. ~ At(r, "answered")
    BY <1>3, BetweenOnly
  <2>2. QED
    BY <1>3, <2>1, RepliesKeep
<1>9. QED
  BY <1>5, <1>6, <1>7, <1>8

\* A transaction that is flushed has a conversation, a time, and in the end its link.
LEMMA CommitStores ==
    ASSUME ConversationInv, NEW r \in Requests, NEW stage \in Stages, NEW to, Commit(r, stage, to),
           user' = user
    PROVE  /\ Flushed(r, stage) /\ ~ At(r, "answered")
           /\ tx[r].at \in 1..clock /\ tx[r].conversation \in {First} \cup Requests
           /\ links \subseteq links' /\ <<user[r], tx[r].conversation>> \in links'
           /\ conversation' \in {None, Gone, First} \cup Requests
           /\ \A l \in links' : l[1] \in Users /\ (l[2] = First \/ l[2] \in Requests)
           /\ pc'[r] = to
           /\ \A q \in Requests \ {r} : pc'[q] = pc[q]
<1> USE DEF ConversationInv
<1>1. Flushed(r, stage)
  BY DEF Commit, Goto, Flushed
<1>2. ~ At(r, "answered")
  BY <1>1, WithinOnly
<1>3. tx[r].at \in 1..clock /\ tx[r].conversation \in {First} \cup Requests
  BY <1>1 DEF RequestInv, TimeOf, LinkOf
<1>4. links \subseteq links' /\ <<user[r], tx[r].conversation>> \in links'
  BY <1>1 DEF RequestInv, LinkOf, Commit
<1>5. conversation' \in {None, Gone, First} \cup Requests
  BY DEF Commit, TypeOK
<1>6. \A l \in links' : l[1] \in Users /\ (l[2] = First \/ l[2] \in Requests)
  <2>1. user[r] \in Users
    BY DEF ShapeInv
  <2>2. QED
    BY <1>3, <2>1 DEF Commit, TypeOK
<1>7. QED
  BY <1>1, <1>2, <1>3, <1>4, <1>5, <1>6, Moved DEF Commit

LEMMA CommitQuestionInv ==
    ASSUME ConversationInv, NEW r \in Requests, CommitQuestion(r)
    PROVE  ConversationInv'
<1> USE DEF ConversationInv
<1>1. /\ r \in Asks /\ Commit(r, "question", <<"asked">>)
      /\ messages' = messages \cup {Message(r, "user")}
      /\ clock' = clock /\ user' = user /\ tx' = tx /\ history' = history
  BY DEF CommitQuestion
<1>2. "question" \in Stages /\ clock \in Nat
  BY DEF Stages, ShapeInv
<1> USE <1>1, <1>2
<1>3. At(r, "asked")' /\ \A q \in Requests \ {r} : pc'[q] = pc[q]
  BY CommitStores DEF At
<1>4. DOMAIN history[r] = {}
  BY CommitStores DEF RequestInv, HistoryOf
<1>5. TypeOK'
  <2>1. /\ conversation' \in {None, Gone, First} \cup Requests
        /\ \A l \in links' : l[1] \in Users /\ (l[2] = First \/ l[2] \in Requests)
        /\ tx[r].at \in 1..clock
    BY CommitStores
  <2>2. \A m \in messages' : m \in messages \/ (m.role = "user" /\ m.at = tx[r].at)
    BY NewMessage
  <2>3. \A m \in messages' : m.role \in {"user", "assistant"} /\ m.at \in 1..clock
    BY <2>1, <2>2 DEF TypeOK
  <2>4. pc' \in [Requests -> Places]
    BY MovedTyped DEF Commit, Between
  <2>5. QED
    BY <2>1, <2>3, <2>4 DEF TypeOK, Places
<1>6. ShapeInv'
  BY FS_AddElement DEF ShapeInv
<1>7. RequestInv(r)'
  BY <1>3, <1>4, BetweenOnly DEF RequestInv, LinkOf, TimeOf, HistoryOf
<1>8. \A q \in Requests \ {r} : RequestInv(q)'
  BY <1>3, CommitStores, OthersKeep
<1>9. ReplyInv' /\ MessagesAreInPlace'
  BY <1>3, CommitStores, RepliesKeep
<1>10. QED
  BY <1>5, <1>6, <1>7, <1>8, <1>9

\* A history that is read: of messages, and of the conversation of the transaction.
LEMMA ReadHistory ==
    ASSUME ConversationInv, NEW c, NEW s \in Read(c), NEW h,
           h = s \/ h = LastOf(s, HistoryLength)
    PROVE  \A i \in DOMAIN h : h[i] \in messages /\ h[i].conversation = c
<1>1. /\ s \in Seq(messages)
      /\ \A i \in DOMAIN s : s[i] \in messages /\ s[i].conversation = c
  BY ReadIsOfTheConversation DEF ConversationInv
<1>2. QED
  BY <1>1, LastOfIsPart, HistoryAssumption

\* The lookup of a question's history and of a listing.
LEMMA LookForHistoryInv ==
    ASSUME ConversationInv, NEW r \in Requests, NEW w \in {"idle", "asked"},
           Look(r, "lookup", <<w>>),
           NEW s \in Read(tx'[r].conversation), NEW h,
           h = s \/ h = LastOf(s, HistoryLength),
           history' = [history EXCEPT ![r] = h],
           UNCHANGED <<stored, clock, user, text>>
    PROVE  ConversationInv'
<1> USE DEF ConversationInv
<1>1. /\ conversation' = conversation /\ links' = links /\ messages' = messages /\ clock' = clock
      /\ user' = user /\ clock \in Nat /\ "lookup" \in Stages
  BY DEF stored, ShapeInv, Stages
<1> USE <1>1
<1>2. At(r, w) /\ Looked(r, "lookup")' /\ \A q \in Requests \ {r} : pc'[q] = pc[q]
  BY Moved DEF Look, Goto, At, Looked
<1>3. \A i \in DOMAIN h : h[i] \in messages /\ h[i].conversation = tx'[r].conversation
  BY ReadHistory
<1>4. /\ history'[r] = h /\ \A q \in Requests \ {r} : history'[q] = history[q]
      /\ DOMAIN history' = Requests
  BY DEF ShapeInv
<1>5. TypeOK' /\ ShapeInv'
  <2>1. \A q \in Requests : tx'[q].opens => tx'[q].conversation = q
    BY LookReads DEF TypeOK
  <2>2. \A q \in Requests : \A i \in DOMAIN history'[q] : history'[q][i] \in messages
    BY <1>3, <1>4 DEF TypeOK
  <2>3. QED
    BY <1>4, <2>1, <2>2, LookReads, ZenonT(40) DEF TypeOK, ShapeInv, Places
<1>6. RequestInv(r)'
  <2>1. LinkOf(r)'
    BY <1>2, LookReads, WithinOnly DEF LinkOf
  <2>2. TimeOf(r)'
    BY <1>2, WithinOnly DEF TimeOf
  <2>3. HistoryOf(r)'
    <3>1. ~ At(r, "idle")' /\ ~ At(r, "asked")' /\ ~ Looked(r, "question")' /\ \A x : ~ Flushed(r, x)'
      BY <1>2, WithinOnly
    <3>2. QED
      BY <1>3, <1>4, <3>1 DEF HistoryOf
  <2>4. QED
    BY <2>1, <2>2, <2>3 DEF RequestInv
<1>7. ASSUME NEW q \in Requests \ {r} PROVE RequestInv(q)'
  <2>1. tx'[q] = tx[q]
    BY LookReads
  <2>2. QED
    BY <1>2, <1>4, <2>1, OthersKeep
<1>8. ReplyInv' /\ MessagesAreInPlace'
  <2>1. ~ At(r, "answered")
    BY <1>2, BetweenOnly
  <2>2. QED
    BY <1>2, <1>4, <2>1, RepliesKeep
<1>9. QED
  BY <1>5, <1>6, <1>7, <1>8

\* The end of a transaction that stores no message.
LEMMA CommitLookupInv ==
    ASSUME ConversationInv, NEW r \in Requests, NEW w \in {"replying", "answered"},
           Commit(r, "lookup", <<w>>),
           UNCHANGED <<messages, clock, user, text, tx, history>>
    PROVE  ConversationInv'
<1> USE DEF ConversationInv
<1>1. "lookup" \in Stages /\ clock \in Nat
  BY DEF Stages, ShapeInv
<1> USE <1>1
<1>2. At(r, w)' /\ \A q \in Requests \ {r} : pc'[q] = pc[q]
  BY CommitStores DEF At
<1>3. TypeOK'
  <2>1. pc' \in [Requests -> Places]
    BY MovedTyped DEF Commit, Between
  <2>2. /\ conversation' \in {None, Gone, First} \cup Requests
        /\ \A l \in links' : l[1] \in Users /\ (l[2] = First \/ l[2] \in Requests)
    BY CommitStores
  <2>3. QED
    BY <2>1, <2>2 DEF TypeOK, Places
<1>4. ShapeInv'
  BY DEF ShapeInv
<1>5. RequestInv(r)'
  <2>1. LinkOf(r)'
    BY CommitStores DEF LinkOf
  <2>2. TimeOf(r)'
    BY <1>2, BetweenOnly DEF TimeOf
  <2>3. HistoryOf(r)'
    <3>1. ~ At(r, "idle")' /\ ~ At(r, "asked")' /\ \A x : ~ Looked(r, x)' /\ ~ Flushed(r, x)'
      BY <1>2, BetweenOnly
    <3>2. QED
      BY <3>1 DEF RequestInv, HistoryOf
  <2>4. QED
    BY <2>1, <2>2, <2>3 DEF RequestInv
<1>6. \A q \in Requests \ {r} : RequestInv(q)'
  BY <1>2, CommitStores, OthersKeep
<1>7. ReplyInv' /\ MessagesAreInPlace'
  BY <1>2, CommitStores, RepliesKeep
<1>8. QED
  BY <1>3, <1>4, <1>5, <1>6, <1>7

\* A request that ends without having stored anything more.
LEMMA EndsInv ==
    ASSUME ConversationInv, NEW r \in Requests, ~ At(r, "answered"), NEW w,
           Failed(r, w)' \/ (At(r, w)' /\ w \notin {"idle", "asked", "replying"}),
           pc' \in [Requests -> Places], \A q \in Requests \ {r} : pc'[q] = pc[q],
           UNCHANGED <<stored, user, text, tx, history>>, clock' \in {clock, clock + 1}
    PROVE  ConversationInv'
<1> USE DEF ConversationInv
<1>1. /\ conversation' = conversation /\ links' = links /\ messages' = messages
      /\ user' = user /\ tx' = tx /\ history' = history /\ clock \in Nat
  BY DEF stored, ShapeInv
<1>2. TypeOK' /\ ShapeInv'
  BY <1>1 DEF TypeOK, ShapeInv, Places
<1>3. RequestInv(r)'
  BY <1>1, EndedKeeps
<1>4. \A q \in Requests \ {r} : RequestInv(q)'
  BY <1>1, OthersKeep
<1>5. ReplyInv' /\ MessagesAreInPlace'
  BY <1>1, RepliesKeep
<1>6. QED
  BY <1>2, <1>3, <1>4, <1>5

LEMMA BreakInv ==
    ASSUME ConversationInv, NEW r \in Requests, Break(r)
    PROVE  ConversationInv'
<1>1. pc' = [pc EXCEPT ![r] = <<"broken">>] /\ pc \in [Requests -> Places]
  BY DEF Break, ConversationInv, TypeOK, Places
<1>2. At(r, "broken")' /\ \A q \in Requests \ {r} : pc'[q] = pc[q]
  BY <1>1 DEF At
<1>3. pc' \in [Requests -> Places]
  BY <1>1 DEF Places, Between
<1>4. ~ At(r, "answered")
  BY DEF Break, At
<1>5. UNCHANGED <<stored, clock, user, text, tx, history>>
  BY DEF Break
<1>6. QED
  BY <1>2, <1>3, <1>4, <1>5, EndsInv

LEMMA NotFoundInv ==
    ASSUME ConversationInv, NEW r \in Requests, NotFound(r)
    PROVE  ConversationInv'
<1>1. PICK w \in {"idle", "asked", "replying"}, stage \in Stages : Goto(r, <<w>>, <<stage, "failed">>)
  BY DEF NotFound, Stages
<1>2. Failed(r, stage)' /\ \A q \in Requests \ {r} : pc'[q] = pc[q]
  BY <1>1, Moved DEF Failed, ConversationInv
<1>3. pc' \in [Requests -> Places]
  BY <1>1 DEF Goto, Places, States, ConversationInv, TypeOK
<1>4. ~ At(r, "answered")
  BY <1>1 DEF Goto, At
<1>5. UNCHANGED <<stored, clock, user, text, tx, history>>
  BY DEF NotFound
<1>6. QED
  BY <1>2, <1>3, <1>4, <1>5, EndsInv

LEMMA DeleteExerciseInv ==
    ASSUME ConversationInv, DeleteExercise
    PROVE  ConversationInv'
<1>1. /\ conversation' = Gone /\ links' = links /\ messages' = messages /\ clock' = clock
      /\ pc' = pc /\ user' = user /\ tx' = tx /\ history' = history
  BY DEF DeleteExercise
<1>2. TypeOK' /\ ShapeInv'
  BY <1>1 DEF ConversationInv, TypeOK, ShapeInv
<1>3. \A r \in Requests : RequestInv(r)'
  BY <1>1 DEF ConversationInv, RequestInv, LinkOf, TimeOf, HistoryOf, Looked, Flushed, At
<1>4. ReplyInv' /\ MessagesAreInPlace'
  BY <1>1 DEF ConversationInv, ReplyInv, MessagesAreInPlace, RepliesFollowTheirHistory,
              WritersAreLinked, Ofs, At
<1>5. QED
  BY <1>2, <1>3, <1>4 DEF ConversationInv

LEMMA StreamEndsInv ==
    ASSUME ConversationInv, NEW r \in Requests, StreamEnds(r)
    PROVE  ConversationInv'
<1> USE DEF ConversationInv
<1>1. /\ conversation' = conversation /\ links' = links /\ messages' = messages /\ clock' = clock
      /\ user' = user /\ history' = history /\ clock \in Nat /\ "reply" \in Stages
  BY DEF StreamEnds, stored, ShapeInv, Stages
<1> USE <1>1
<1>2. At(r, "replying") /\ Looked(r, "reply")' /\ \A q \in Requests \ {r} : pc'[q] = pc[q]
  BY Moved DEF StreamEnds, Goto, At, Looked
<1>3. /\ tx' = [tx EXCEPT ![r] = [tx[r] EXCEPT !.opens = FALSE, !.linked = TRUE]]
      /\ tx' \in [Requests -> Transactions]
  BY ZenonT(40) DEF StreamEnds, ShapeInv, Transactions
<1>4. /\ tx'[r].conversation = tx[r].conversation /\ ~ tx'[r].opens
      /\ \A q \in Requests \ {r} : tx'[q] = tx[q]
  BY <1>3 DEF ShapeInv, Transactions
<1>5. TypeOK'
  BY <1>4 DEF TypeOK, StreamEnds, Goto, Stages, States
<1>6. ShapeInv'
  BY <1>3 DEF ShapeInv
<1>7. RequestInv(r)'
  <2>1. LinkOf(r)'
    BY <1>2, <1>4 DEF RequestInv, LinkOf
  <2>2. \A x : ~ At(r, x)' /\ ~ Flushed(r, x)'
    BY <1>2, WithinOnly
  <2>3. ~ Looked(r, "question")'
    BY <1>2, WithinOnly
  <2>4. TimeOf(r)' /\ HistoryOf(r)'
    BY <1>4, <2>2, <2>3 DEF RequestInv, TimeOf, HistoryOf
  <2>5. QED
    BY <2>1, <2>4 DEF RequestInv
<1>8. \A q \in Requests \ {r} : RequestInv(q)'
  BY <1>2, <1>4, OthersKeep
<1>9. ~ At(r, "answered")
  BY <1>2, BetweenOnly
<1>10. ReplyInv' /\ MessagesAreInPlace'
  BY <1>2, <1>9, RepliesKeep
<1>11. QED
  BY <1>5, <1>6, <1>7, <1>8, <1>10

\* The reply: linked since its history was committed, and later than all of it.
LEMMA CommitReplyInv ==
    ASSUME ConversationInv, NEW r \in Requests, CommitReply(r)
    PROVE  ConversationInv'
<1> USE DEF ConversationInv
<1>1. /\ r \in Asks /\ Commit(r, "reply", <<"answered">>)
      /\ messages' = messages \cup {Message(r, "assistant")}
      /\ clock' = clock /\ user' = user /\ tx' = tx /\ history' = history
  BY DEF CommitReply
<1>2. "reply" \in Stages /\ clock \in Nat
  BY DEF Stages, ShapeInv
<1> USE <1>1, <1>2
<1>3. At(r, "answered")' /\ \A q \in Requests \ {r} : pc'[q] = pc[q]
  BY CommitStores DEF At
<1>4. \A i \in DOMAIN history[r] :
        history[r][i].conversation = tx[r].conversation /\ history[r][i].at < tx[r].at
  BY CommitStores DEF RequestInv, HistoryOf
<1>5. \A m \in Ofs("assistant")' :
        \/ m \in Ofs("assistant")
        \/ m.by = r /\ m.conversation = tx[r].conversation /\ m.at = tx[r].at
  BY NewMessage DEF Ofs
<1>6. TypeOK'
  <2>1. /\ conversation' \in {None, Gone, First} \cup Requests
        /\ \A l \in links' : l[1] \in Users /\ (l[2] = First \/ l[2] \in Requests)
        /\ tx[r].at \in 1..clock
    BY CommitStores
  <2>2. \A m \in messages' : m \in messages \/ (m.role = "assistant" /\ m.at = tx[r].at)
    BY NewMessage
  <2>3. \A m \in messages' : m.role \in {"user", "assistant"} /\ m.at \in 1..clock
    BY <2>1, <2>2 DEF TypeOK
  <2>4. pc' \in [Requests -> Places]
    BY MovedTyped DEF Commit, Between
  <2>5. QED
    BY <2>1, <2>3, <2>4 DEF TypeOK, Places
<1>7. ShapeInv'
  BY FS_AddElement DEF ShapeInv
<1>8. RequestInv(r)'
  BY <1>3, EndedKeeps
<1>9. \A q \in Requests \ {r} : RequestInv(q)'
  BY <1>3, CommitStores, OthersKeep
<1>10. ReplyInv'
  <2>1. \A m \in messages' : m.by \in Asks
    BY NewMessage DEF ReplyInv
  <2>2. \A m \in Ofs("assistant")' : At(m.by, "answered")'
    <3>1. \A m \in Ofs("assistant") : m.by \in Requests
      BY DEF ReplyInv, Ofs, Requests
    <3>2. \A m \in Ofs("assistant") : At(m.by, "answered")'
      BY <1>3, <3>1 DEF ReplyInv, At
    <3>3. QED
      BY <1>3, <1>5, <3>2
  <2>3. QED
    BY <2>1, <2>2 DEF ReplyInv
<1>11. RepliesFollowTheirHistory'
  BY <1>4, <1>5 DEF MessagesAreInPlace, RepliesFollowTheirHistory
<1>12. WritersAreLinked'
  <2>1. links \subseteq links' /\ <<user[r], tx[r].conversation>> \in links'
    BY CommitStores
  <2>2. \A m \in messages' :
          m \in messages \/ (m.user = user[r] /\ m.conversation = tx[r].conversation)
    BY NewMessage
  <2>3. QED
    BY <2>1, <2>2 DEF MessagesAreInPlace, WritersAreLinked
<1>13. QED
  BY <1>6, <1>7, <1>8, <1>9, <1>10, <1>11, <1>12 DEF MessagesAreInPlace

\* A flush takes a time that is later than everything stored, and so than the history.
LEMMA FlushInv ==
    ASSUME ConversationInv, NEW r \in Requests, NEW stage \in Stages, Flush(r, stage)
    PROVE  ConversationInv'
<1> USE DEF ConversationInv
<1>1. /\ conversation' = conversation /\ links' = links /\ messages' = messages
      /\ user' = user /\ history' = history
      /\ clock \in Nat /\ clock' = clock + 1 /\ Looked(r, stage)
  BY DEF Flush, stored, ShapeInv, Looked
<1> USE <1>1
<1>2. ~ At(r, "answered")
  BY WithinOnly
<1>3. ASSUME Goto(r, <<stage, "looked">>, <<stage, "flushed">>), tx' = [tx EXCEPT ![r].at = clock']
      PROVE  ConversationInv'
  <2>1. Flushed(r, stage)' /\ \A q \in Requests \ {r} : pc'[q] = pc[q]
    BY <1>3, Moved DEF Flushed
  <2>2. /\ tx' \in [Requests -> Transactions]
        /\ \A q \in Requests \ {r} : tx'[q] = tx[q]
        /\ tx'[r].conversation = tx[r].conversation /\ tx'[r].linked = tx[r].linked
        /\ tx'[r].opens = tx[r].opens /\ tx'[r].at = clock'
    BY <1>3 DEF ShapeInv, Transactions
  <2>3. TypeOK'
    BY <1>3, <2>2 DEF TypeOK, Goto, States
  <2>4. ShapeInv'
    BY <2>2 DEF ShapeInv
  <2>5. LinkOf(r)'
    <3>1. \A x : ~ At(r, x)'
      BY <2>1, WithinOnly
    <3>2. QED
      BY <2>2, <3>1 DEF RequestInv, LinkOf
  <2>6. TimeOf(r)'
    BY <2>2 DEF TimeOf
  <2>7. HistoryOf(r)'
    <3>1. \A i \in DOMAIN history[r] : history[r][i].at < clock'
      BY DEF TypeOK
    <3>2. ~ At(r, "idle")' /\ ~ At(r, "asked")' /\ ~ Looked(r, "question")'
      BY <2>1, WithinOnly
    <3>3. Flushed(r, "question")' => Looked(r, "question")
      BY <2>1, WithinOnly
    <3>4. QED
      BY <2>2, <3>1, <3>2, <3>3 DEF RequestInv, HistoryOf
  <2>8. \A q \in Requests \ {r} : RequestInv(q)'
    BY <2>1, <2>2, OthersKeep
  <2>9. ReplyInv' /\ MessagesAreInPlace'
    BY <1>2, <2>1, RepliesKeep
  <2>10. QED
    BY <2>3, <2>4, <2>5, <2>6, <2>7, <2>8, <2>9 DEF RequestInv
<1>4. ASSUME Goto(r, <<stage, "looked">>, <<stage, "failed">>), tx' = tx
      PROVE  ConversationInv'
  <2>1. Failed(r, stage)' /\ \A q \in Requests \ {r} : pc'[q] = pc[q]
    BY <1>4, Moved DEF Failed
  <2>2. pc' \in [Requests -> Places]
    BY <1>4 DEF Goto, Places, States, TypeOK
  <2>3. UNCHANGED <<stored, user, text, tx, history>>
    BY <1>4 DEF Flush
  <2>4. QED
    BY <1>2, <2>1, <2>2, <2>3, EndsInv
<1>5. QED
  BY <1>3, <1>4 DEF Flush

LEMMA ConversationStep == ConversationInv /\ [Next]_vars => ConversationInv'
<1> SUFFICES ASSUME ConversationInv, [Next]_vars PROVE ConversationInv'
  OBVIOUS
<1>1. CASE UNCHANGED vars
  BY <1>1 DEF vars, ConversationInv, TypeOK, ShapeInv, RequestInv, LinkOf, TimeOf, HistoryOf, ReplyInv,
              MessagesAreInPlace, RepliesFollowTheirHistory, WritersAreLinked, Ofs,
              Looked, Flushed, At, Transactions
<1>2. ASSUME NEW r \in Requests, LookForHistory(r)
      PROVE  ConversationInv'
  <2>1. PICK s \in Read(tx'[r].conversation) :
          history' = [history EXCEPT ![r] = LastOf(s, HistoryLength)]
    BY <1>2 DEF LookForHistory
  <2>2. QED
    BY <1>2, <2>1, LookForHistoryInv DEF LookForHistory
<1>3. ASSUME NEW r \in Requests, LookForListing(r)
      PROVE  ConversationInv'
  <2>1. PICK s \in Read(tx'[r].conversation) : history' = [history EXCEPT ![r] = s]
    BY <1>3 DEF LookForListing
  <2>2. QED
    BY <1>3, <2>1, LookForHistoryInv DEF LookForListing
<1>4. ASSUME NEW r \in Requests, CommitHistory(r) \/ CommitListing(r)
      PROVE  ConversationInv'
  BY <1>4, CommitLookupInv DEF CommitHistory, CommitListing
<1>5. QED
  BY <1>1, <1>2, <1>3, <1>4, LookForQuestionInv, CommitQuestionInv, BreakInv, StreamEndsInv,
     CommitReplyInv, FlushInv, NotFoundInv, DeleteExerciseInv DEF Next

-----------------------------------------------------------------------------
(* Why a question stays without its reply: an invariant on top of the      *)
(* other.                                                                  *)

\* Something of the request is still to come, or why nothing is.
Accounted(r) ==
    \/ \E n \in Ofs("assistant") : n.by = r
    \/ AtWork(r) \/ At(r, "broken")
    \/ conversation = Gone
    \/ Failed(r, "lookup") /\ Refused(r)

Questioned(r) == \E m \in Ofs("user") : m.by = r

\* Who has written the exercise keeps it until the commit.
Holds(r) == \A stage \in Stages : Flushed(r, stage) /\ tx[r].opens => conversation # Gone

\* The reply needs neither a conversation nor a link.
Settled(r) == Looked(r, "reply") => ~ tx[r].opens /\ tx[r].linked

CauseInv == \A r \in Requests : Holds(r) /\ Settled(r) /\ (Questioned(r) => Accounted(r))

\* The places at which a request that has stored its question works on.
LEMMA WorkingPlaces ==
    ASSUME NEW r
    PROVE  /\ AtWork(r) <=> \/ At(r, "asked") \/ At(r, "replying")
                            \/ Looked(r, "lookup") \/ Flushed(r, "lookup")
                            \/ Looked(r, "reply") \/ Flushed(r, "reply")
           /\ AtWork(r)' <=> \/ At(r, "asked")' \/ At(r, "replying")'
                             \/ Looked(r, "lookup")' \/ Flushed(r, "lookup")'
                             \/ Looked(r, "reply")' \/ Flushed(r, "reply")'
BY DEF AtWork, At, Looked, Flushed

\* What a step of one request means for the causes of all.
LEMMA CauseStep ==
    ASSUME CauseInv, NEW r \in Requests,
           \A q \in Requests \ {r} : pc'[q] = pc[q] /\ tx'[q] = tx[q],
           user' = user, links \subseteq links', messages \subseteq messages',
           \A m \in messages' : m \in messages \/ m.by = r,
           conversation' = Gone <=> conversation = Gone,
           Holds(r)', Settled(r)', Questioned(r)' => Accounted(r)'
    PROVE  CauseInv'
<1>1. ASSUME NEW q \in Requests \ {r} PROVE Holds(q)' /\ Settled(q)'
  <2>1. Holds(q) /\ Settled(q)
    BY DEF CauseInv
  <2>2. QED
    BY <2>1 DEF Holds, Settled, Looked, Flushed
<1>2. ASSUME NEW q \in Requests \ {r}, Questioned(q)' PROVE Accounted(q)'
  <2>1. Questioned(q)
    BY <1>2 DEF Questioned, Ofs
  <2>2. Accounted(q)
    BY <2>1 DEF CauseInv
  <2>3. (\E n \in Ofs("assistant") : n.by = q) => (\E n \in Ofs("assistant") : n.by = q)'
    BY DEF Ofs
  <2>4. AtWork(q) \/ At(q, "broken") => AtWork(q)' \/ At(q, "broken")'
    BY DEF AtWork, At
  <2>5. Failed(q, "lookup") /\ Refused(q) => Failed(q, "lookup")' /\ Refused(q)'
    BY DEF Failed, Refused
  <2>6. QED
    BY <2>2, <2>3, <2>4, <2>5 DEF Accounted
<1>3. QED
  BY <1>1, <1>2 DEF CauseInv

\* ... when it is one that stores nothing.
LEMMA QuietCause ==
    ASSUME ConversationInv, CauseInv, NEW r \in Requests,
           \A q \in Requests \ {r} : pc'[q] = pc[q] /\ tx'[q] = tx[q],
           user' = user, stored' = stored, Holds(r)', Settled(r)',
           \/ AtWork(r)' \/ At(r, "broken")' \/ conversation = Gone
           \/ Failed(r, "lookup")' /\ Refused(r)'
           \/ ~ AtWork(r) /\ ~ At(r, "broken") /\ ~ Failed(r, "lookup")
    PROVE  CauseInv'
<1>1. conversation' = conversation /\ links' = links /\ messages' = messages
  BY DEF stored
<1>2. ASSUME Questioned(r)' PROVE Accounted(r)'
  <2>1. Accounted(r)
    BY <1>1, <1>2 DEF CauseInv, Questioned, Ofs
  <2>2. (\E n \in Ofs("assistant") : n.by = r) => (\E n \in Ofs("assistant") : n.by = r)'
    BY <1>1 DEF Ofs
  <2>3. QED
    BY <1>1, <2>1, <2>2 DEF Accounted
<1>3. QED
  BY <1>1, <1>2, CauseStep

\* A commit leaves an exercise that is gone alone.
LEMMA CommitKeepsGone ==
    ASSUME ConversationInv, CauseInv, NEW r \in Requests, NEW stage \in Stages, NEW w \in Between,
           Commit(r, stage, <<w>>), user' = user, r # Gone
    PROVE  /\ conversation' = Gone <=> conversation = Gone
           /\ At(r, w)' /\ links \subseteq links' /\ Holds(r)' /\ Settled(r)'
           /\ \A q \in Requests \ {r} : pc'[q] = pc[q]
           /\ Flushed(r, stage)
<1>1. Flushed(r, stage) /\ links \subseteq links' /\ pc'[r] = <<w>>
      /\ \A q \in Requests \ {r} : pc'[q] = pc[q]
  BY CommitStores
<1>2. Holds(r)
  BY DEF CauseInv
<1>3. conversation' = Gone <=> conversation = Gone
  BY <1>1, <1>2 DEF Commit, Holds
<1>4. At(r, w)'
  BY <1>1 DEF At
<1>5. Holds(r)' /\ Settled(r)'
  BY <1>4, BetweenOnly DEF Holds, Settled
<1>6. QED
  BY <1>1, <1>3, <1>4, <1>5

LEMMA LooksCause ==
    ASSUME ConversationInv, CauseInv, NEW r \in Requests,
           LookForQuestion(r) \/ LookForHistory(r) \/ LookForListing(r) \/ StreamEnds(r)
    PROVE  CauseInv'
<1>1. stored' = stored /\ user' = user
  BY DEF LookForQuestion, LookForHistory, LookForListing, StreamEnds
<1>2. ASSUME NEW stage \in {"question", "lookup"}, NEW w \in {"idle", "asked"},
             Look(r, stage, <<w>>), stage = "question" => w = "idle"
      PROVE  CauseInv'
  <2>1. At(r, w) /\ Looked(r, stage)' /\ \A q \in Requests \ {r} : pc'[q] = pc[q]
    BY <1>2, Moved DEF Look, Goto, At, Looked, ConversationInv
  <2>2. \A q \in Requests \ {r} : tx'[q] = tx[q]
    <3>1. stage \in Stages
      BY <1>2 DEF Stages
    <3>2. QED
      BY <1>2, <3>1, LookReads DEF ConversationInv
  <2>3. Holds(r)' /\ Settled(r)'
    BY <2>1, WithinOnly DEF Holds, Settled
  <2>4. stage = "lookup" => AtWork(r)'
    BY <2>1, WorkingPlaces
  <2>5. stage = "question" => ~ AtWork(r) /\ ~ At(r, "broken") /\ ~ Failed(r, "lookup")
    BY <1>2, <2>1 DEF AtWork, At, Failed
  <2>6. QED
    BY <1>1, <1>2, <2>1, <2>2, <2>3, <2>4, <2>5, QuietCause
<1>3. CASE StreamEnds(r)
  <2>1. Looked(r, "reply")' /\ \A q \in Requests \ {r} : pc'[q] = pc[q]
    BY <1>3, Moved DEF StreamEnds, Goto, Looked, ConversationInv
  <2>2. tx' = [tx EXCEPT ![r] = [tx[r] EXCEPT !.opens = FALSE, !.linked = TRUE]]
    BY <1>3, ZenonT(40) DEF StreamEnds
  <2>3. /\ ~ tx'[r].opens /\ tx'[r].linked
        /\ \A q \in Requests \ {r} : tx'[q] = tx[q]
    BY <2>2 DEF ConversationInv, ShapeInv, Transactions
  <2>4. Holds(r)' /\ Settled(r)'
    BY <2>1, <2>3, WithinOnly DEF Holds, Settled
  <2>5. AtWork(r)'
    BY <2>1, WorkingPlaces
  <2>6. QED
    BY <1>1, <2>1, <2>3, <2>4, <2>5, QuietCause
<1>4. QED
  BY <1>2, <1>3 DEF LookForQuestion, LookForHistory, LookForListing

LEMMA CommitsCause ==
    ASSUME ConversationInv, CauseInv, NEW r \in Requests,
           \/ CommitQuestion(r) \/ CommitHistory(r) \/ CommitReply(r) \/ CommitListing(r)
    PROVE  CauseInv'
<1>1. r # Gone /\ user' = user /\ tx' = tx
  BY RequestsAssumption DEF Gone, CommitQuestion, CommitHistory, CommitReply, CommitListing
<1>2. {"asked", "replying", "answered"} \subseteq Between /\ {"question", "lookup", "reply"} \subseteq Stages
  BY DEF Between, Stages
<1>3. CASE CommitQuestion(r)
  <2>1. messages' = messages \cup {Message(r, "user")} /\ Commit(r, "question", <<"asked">>)
    BY <1>3 DEF CommitQuestion
  <2>2. \A m \in messages' : m \in messages \/ m.by = r
    BY <2>1, NewMessage
  <2>3. /\ conversation' = Gone <=> conversation = Gone
        /\ At(r, "asked")' /\ links \subseteq links' /\ Holds(r)' /\ Settled(r)'
        /\ \A q \in Requests \ {r} : pc'[q] = pc[q]
    BY <1>1, <1>2, <2>1, CommitKeepsGone
  <2>4. Accounted(r)'
    BY <2>3, WorkingPlaces DEF Accounted
  <2>5. QED
    BY <1>1, <2>1, <2>2, <2>3, <2>4, CauseStep
<1>4. CASE CommitReply(r)
  <2>1. messages' = messages \cup {Message(r, "assistant")} /\ Commit(r, "reply", <<"answered">>)
    BY <1>4 DEF CommitReply
  <2>2. \A m \in messages' : m \in messages \/ m.by = r
    BY <2>1, NewMessage
  <2>3. /\ conversation' = Gone <=> conversation = Gone
        /\ links \subseteq links' /\ Holds(r)' /\ Settled(r)'
        /\ \A q \in Requests \ {r} : pc'[q] = pc[q]
    BY <1>1, <1>2, <2>1, CommitKeepsGone
  <2>4. Message(r, "assistant").role = "assistant" /\ Message(r, "assistant").by = r
    BY DEF Message
  <2>5. Accounted(r)'
    BY <2>1, <2>4 DEF Accounted, Ofs
  <2>6. QED
    BY <1>1, <2>1, <2>2, <2>3, <2>5, CauseStep
<1>5. CASE CommitHistory(r)
  <2>1. messages' = messages /\ Commit(r, "lookup", <<"replying">>)
    BY <1>5 DEF CommitHistory
  <2>2. /\ conversation' = Gone <=> conversation = Gone
        /\ At(r, "replying")' /\ links \subseteq links' /\ Holds(r)' /\ Settled(r)'
        /\ \A q \in Requests \ {r} : pc'[q] = pc[q]
    BY <1>1, <1>2, <2>1, CommitKeepsGone
  <2>3. Accounted(r)'
    BY <2>2, WorkingPlaces DEF Accounted
  <2>4. QED
    BY <1>1, <2>1, <2>2, <2>3, CauseStep
<1>6. CASE CommitListing(r)
  <2>1. messages' = messages /\ Commit(r, "lookup", <<"answered">>) /\ r \notin Asks
    BY <1>6, RequestsAssumption DEF CommitListing
  <2>2. /\ conversation' = Gone <=> conversation = Gone
        /\ links \subseteq links' /\ Holds(r)' /\ Settled(r)'
        /\ \A q \in Requests \ {r} : pc'[q] = pc[q]
    BY <1>1, <1>2, <2>1, CommitKeepsGone
  <2>3. ~ Questioned(r)'
    BY <2>1 DEF Questioned, Ofs, ConversationInv, ReplyInv
  <2>4. QED
    BY <1>1, <2>1, <2>2, <2>3, CauseStep
<1>7. QED
  BY <1>3, <1>4, <1>5, <1>6

LEMMA EndingsCause ==
    ASSUME ConversationInv, CauseInv, NEW r \in Requests, Break(r) \/ NotFound(r)
    PROVE  CauseInv'
<1>1. stored' = stored /\ user' = user /\ tx' = tx
  BY DEF Break, NotFound
<1>2. CASE Break(r)
  <2>1. At(r, "broken")' /\ \A q \in Requests \ {r} : pc'[q] = pc[q]
    BY <1>2 DEF Break, At, ConversationInv, TypeOK
  <2>2. Holds(r)' /\ Settled(r)'
    BY <2>1, BetweenOnly DEF Holds, Settled
  <2>3. QED
    BY <1>1, <2>1, <2>2, QuietCause
<1>3. CASE NotFound(r)
  <2>1. PICK w, stage : Goto(r, <<w>>, <<stage, "failed">>)
    BY <1>3 DEF NotFound
  <2>2. Failed(r, stage)' /\ \A q \in Requests \ {r} : pc'[q] = pc[q]
    BY <2>1, Moved DEF Failed, ConversationInv
  <2>3. Holds(r)' /\ Settled(r)'
    BY <2>2, FailedOnly DEF Holds, Settled
  <2>4. conversation = Gone
    BY <1>3 DEF NotFound
  <2>5. QED
    BY <1>1, <2>2, <2>3, <2>4, QuietCause
<1>4. QED
  BY <1>2, <1>3

\* A flush fails for a link that is there or an exercise that is not; of a reply, never.
LEMMA FlushCause ==
    ASSUME ConversationInv, CauseInv, NEW r \in Requests, NEW stage \in Stages, Flush(r, stage)
    PROVE  CauseInv'
<1>1. stored' = stored /\ user' = user /\ Looked(r, stage)
  BY DEF Flush, Looked
<1>2. conversation' = conversation /\ links' = links
  BY <1>1 DEF stored
<1>3. stage = "question" => ~ AtWork(r) /\ ~ At(r, "broken") /\ ~ Failed(r, "lookup")
  BY <1>1 DEF AtWork, At, Failed, Looked
<1>4. stage \in {"question", "lookup", "reply"}
  BY DEF Stages
<1>5. ASSUME ~ Fails(r), Goto(r, <<stage, "looked">>, <<stage, "flushed">>),
             tx' = [tx EXCEPT ![r].at = clock']
      PROVE  CauseInv'
  <2>1. Flushed(r, stage)' /\ \A q \in Requests \ {r} : pc'[q] = pc[q]
    BY <1>5, Moved DEF Flushed, ConversationInv
  <2>2. /\ \A q \in Requests \ {r} : tx'[q] = tx[q]
        /\ tx'[r].opens = tx[r].opens
    BY <1>5 DEF ConversationInv, ShapeInv, Transactions
  <2>3. Holds(r)' /\ Settled(r)'
    BY <1>2, <1>5, <2>1, <2>2, WithinOnly DEF Holds, Settled, Fails
  <2>4. stage # "question" => AtWork(r)'
    BY <1>4, <2>1, WorkingPlaces
  <2>5. QED
    BY <1>1, <1>3, <2>1, <2>2, <2>3, <2>4, QuietCause
<1>6. ASSUME Fails(r), Goto(r, <<stage, "looked">>, <<stage, "failed">>), tx' = tx
      PROVE  CauseInv'
  <2>1. Failed(r, stage)' /\ \A q \in Requests \ {r} : pc'[q] = pc[q]
    BY <1>6, Moved DEF Failed, ConversationInv
  <2>2. Holds(r)' /\ Settled(r)'
    BY <2>1, FailedOnly DEF Holds, Settled
  <2>3. stage # "reply"
    BY <1>1, <1>6 DEF CauseInv, Settled, Fails, Refused
  <2>4. conversation = Gone \/ Refused(r)'
    BY <1>1, <1>2, <1>6 DEF Fails, Refused
  <2>5. QED
    BY <1>1, <1>3, <1>4, <1>6, <2>1, <2>2, <2>3, <2>4, QuietCause
<1>7. QED
  BY <1>5, <1>6 DEF Flush

LEMMA CauseNext == ConversationInv /\ CauseInv /\ [Next]_vars => CauseInv'
<1> SUFFICES ASSUME ConversationInv, CauseInv, [Next]_vars PROVE CauseInv'
  OBVIOUS
<1>1. CASE UNCHANGED vars
  BY <1>1 DEF vars, CauseInv, Holds, Settled, Questioned, Accounted, AtWork, Refused, Ofs,
              Looked, Flushed, At, Failed
<1>2. CASE DeleteExercise
  <2>1. /\ conversation' = Gone /\ pc' = pc /\ tx' = tx
        /\ ~ \E r \in Requests, stage \in Stages : Flushed(r, stage) /\ tx[r].opens
    BY <1>2 DEF DeleteExercise, Flushed
  <2>2. QED
    BY <2>1 DEF CauseInv, Holds, Settled, Accounted, Looked, Flushed
<1>3. QED
  BY <1>1, <1>2, LooksCause, CommitsCause, EndingsCause, FlushCause DEF Next

\* Every variable of a conversation keeps its type (controllers/exercises.py:49-276), for
\* any number of requests and users.
THEOREM ConversationTypesHold == Spec => []TypeOK
<1>1. ConversationInv => TypeOK
  BY DEF ConversationInv
<1>2. QED
  BY <1>1, ConversationInit, ConversationStep, PTL DEF Spec

\* However many users ask at once, and whatever conversation the exercise refers to by
\* then, a reply is stored after the history it answers and where that history is
\* (controllers/exercises.py:254-276), and every writer is linked to what he writes in.
THEOREM RepliesAreInPlace == Spec => []MessagesAreInPlace
<1>1. ConversationInv => MessagesAreInPlace
  BY DEF ConversationInv
<1>2. QED
  BY <1>1, ConversationInit, ConversationStep, PTL DEF Spec

\* However many requests open, link, write and fail, a stored question stays without its reply
\* only when the model or the client broke off, the exercise was deleted, or its user was
\* linked by another request before the history was there; the transaction of a reply
\* (controllers/exercises.py:276) fails of nothing else than the deletion.
THEOREM UnansweredHaveTheirCause == Spec => []UnansweredHaveACause
<1>1. Init => CauseInv
  <2> SUFFICES ASSUME Init PROVE CauseInv
    OBVIOUS
  <2>1. messages = {} /\ \A r \in Requests : At(r, "idle")
    BY DEF Init, At
  <2>2. QED
    BY <2>1, BetweenOnly DEF CauseInv, Holds, Settled, Questioned, Ofs
<1>2. ConversationInv /\ CauseInv => UnansweredHaveACause
  <2> SUFFICES ASSUME ConversationInv, CauseInv, NEW m \in Ofs("user") PROVE Accounted(m.by)
    BY DEF UnansweredHaveACause, Accounted, At, Failed
  <2>1. m.by \in Requests
    BY DEF ConversationInv, ReplyInv, Ofs, Requests
  <2>2. QED
    BY <2>1 DEF CauseInv, Questioned
<1>3. QED
  BY <1>1, <1>2, ConversationInit, ConversationStep, CauseNext, PTL DEF Spec

-----------------------------------------------------------------------------
(* PromptChunks: the chunks of the data.                                   *)

Items == Seq(Sizes)
Accs == [chunks : Seq(Items), current : Items, tokens : Nat]

\* More data are folded item by item.
PutFolds(items, f) ==
    f = [T \in SUBSET DOMAIN items |-> IF T = {} THEN Start ELSE Put(f[T \ {Max(T)}], items[Max(T)])]

LEMMA PutFoldDef ==
    ASSUME NEW items
    PROVE  FoldLeft(Put, Start, items) = (CHOOSE f : PutFolds(items, f))[DOMAIN items]
BY DEF FoldLeft, MapThenFoldSet, PutFolds

LEMMA Limit == Effective \in Nat
BY SizesAssumption DEF Effective

\* What Put does: an item goes into the chunk that is open, which is closed before if it does
\* not fit, or is a chunk of its own.
LEMMA PutCases ==
    ASSUME NEW acc \in Accs, NEW item \in Sizes
    PROVE  /\ item <= Effective /\ (acc.current = <<>> \/ acc.tokens + item <= Effective) =>
                Put(acc, item) = [chunks |-> acc.chunks, current |-> Append(acc.current, item),
                                  tokens |-> acc.tokens + item]
           /\ item <= Effective /\ acc.current # <<>> /\ acc.tokens + item > Effective =>
                Put(acc, item) = [chunks |-> Append(acc.chunks, acc.current), current |-> <<item>>,
                                  tokens |-> item]
           /\ item > Effective /\ acc.current = <<>> =>
                Put(acc, item) = [chunks |-> Append(acc.chunks, <<item>>), current |-> <<>>, tokens |-> 0]
           /\ item > Effective /\ acc.current # <<>> =>
                Put(acc, item) = [chunks |-> Append(Append(acc.chunks, acc.current), <<item>>),
                                  current |-> <<>>, tokens |-> 0]
<1>1. /\ item \in Nat /\ acc.tokens \in Nat /\ Effective \in Nat
      /\ acc = [chunks |-> acc.chunks, current |-> acc.current, tokens |-> acc.tokens]
  BY Limit, SizesAssumption DEF Accs
<1> DEFINE cs == acc.chunks
           cur == acc.current
           tok == acc.tokens
           full == tok + item > Effective /\ cur # <<>>
           open == IF full THEN [Start EXCEPT !.chunks = Append(cs, cur)] ELSE acc
<1>2. Put(acc, item) =
        IF item > Effective
        THEN [Start EXCEPT !.chunks =
                Append(IF open.current = <<>> THEN open.chunks ELSE Append(open.chunks, open.current), <<item>>)]
        ELSE [chunks |-> open.chunks, current |-> Append(open.current, item), tokens |-> open.tokens + item]
  BY DEF Put
<1>3. full => open = [chunks |-> Append(cs, cur), current |-> <<>>, tokens |-> 0]
  BY DEF Start
<1>4. ~ full => open = [chunks |-> cs, current |-> cur, tokens |-> tok]
  BY <1>1
<1>5. \A x : [Start EXCEPT !.chunks = x] = [chunks |-> x, current |-> <<>>, tokens |-> 0]
  BY DEF Start
<1>7. Append(<<>>, item) = <<item>> /\ 0 + item = item
  BY <1>1
<1>8. ASSUME item <= Effective
      PROVE  /\ full => Put(acc, item) = [chunks |-> Append(cs, cur), current |-> <<item>>, tokens |-> item]
             /\ ~ full => Put(acc, item) = [chunks |-> cs, current |-> Append(cur, item), tokens |-> tok + item]
  <2>1. ~ (item > Effective)
    BY <1>1, <1>8
  <2>2. Put(acc, item) = [chunks |-> open.chunks, current |-> Append(open.current, item), tokens |-> open.tokens + item]
    <3> HIDE DEF open
    <3>1. QED
      BY <1>2, <2>1
  <2>3. full => Put(acc, item) = [chunks |-> Append(cs, cur), current |-> Append(<<>>, item), tokens |-> 0 + item]
    <3>1. SUFFICES ASSUME full PROVE Put(acc, item) = [chunks |-> Append(cs, cur), current |-> Append(<<>>, item), tokens |-> 0 + item]
      OBVIOUS
    <3>2. open = [chunks |-> Append(cs, cur), current |-> <<>>, tokens |-> 0]
      BY <1>3, <3>1
    <3> HIDE DEF open
    <3>3. QED
      BY <2>2, <3>2
  <2>4. ~ full => Put(acc, item) = [chunks |-> cs, current |-> Append(cur, item), tokens |-> tok + item]
    <3>1. SUFFICES ASSUME ~ full PROVE Put(acc, item) = [chunks |-> cs, current |-> Append(cur, item), tokens |-> tok + item]
      OBVIOUS
    <3>2. open = [chunks |-> cs, current |-> cur, tokens |-> tok]
      BY <1>4, <3>1
    <3> HIDE DEF open
    <3>3. QED
      BY <2>2, <3>2
  <2>5. QED
    BY <1>7, <2>3, <2>4
<1>9. ASSUME item > Effective
      PROVE  /\ cur = <<>> => Put(acc, item) = [chunks |-> Append(cs, <<item>>), current |-> <<>>, tokens |-> 0]
             /\ cur # <<>> => Put(acc, item) = [chunks |-> Append(Append(cs, cur), <<item>>),
                                                current |-> <<>>, tokens |-> 0]
  <2> DEFINE done == IF open.current = <<>> THEN open.chunks ELSE Append(open.chunks, open.current)
  <2>1. Put(acc, item) = [chunks |-> Append(done, <<item>>), current |-> <<>>, tokens |-> 0]
    <3> HIDE DEF open
    <3>1. Put(acc, item) = [Start EXCEPT !.chunks = Append(done, <<item>>)]
      BY <1>2, <1>9
    <3> HIDE DEF done
    <3>2. QED
      BY <1>5, <3>1
  <2>2. full <=> cur # <<>>
    BY <1>1, <1>9
  <2>3. cur # <<>> => done = Append(cs, cur)
    <3> HIDE DEF full
    <3>1. cur # <<>> => open.current = <<>> /\ open.chunks = Append(cs, cur)
      <4> HIDE DEF open
      <4>1. QED
        BY <1>3, <2>2
    <3> HIDE DEF open
    <3>2. QED
      BY <3>1
  <2>4. cur = <<>> => done = cs
    <3> HIDE DEF full
    <3>1. cur = <<>> => open.current = <<>> /\ open.chunks = cs
      <4> HIDE DEF open
      <4>1. QED
        BY <1>4, <2>2
    <3> HIDE DEF open
    <3>2. QED
      BY <3>1
  <2> HIDE DEF done
  <2>5. QED
    BY <2>1, <2>3, <2>4
<1>10. full <=> cur # <<>> /\ tok + item > Effective
  OBVIOUS
<1>11. item <= Effective \/ item > Effective
  BY <1>1
<1>12. tok + item <= Effective <=> ~ (tok + item > Effective)
  BY <1>1
<1> HIDE DEF full
<1>13. QED
  BY <1>8, <1>9, <1>10, <1>12

LEMMA PutType ==
    ASSUME NEW acc \in Accs, NEW item \in Sizes
    PROVE  Put(acc, item) \in Accs
<1>1. item \in Nat /\ acc.tokens \in Nat /\ Effective \in Nat /\ acc.chunks \in Seq(Items) /\ acc.current \in Items
  BY Limit, SizesAssumption DEF Accs
<1>2. <<>> \in Items /\ <<item>> \in Items /\ Append(acc.current, item) \in Items
  BY <1>1 DEF Items
<1>3. /\ Append(acc.chunks, <<item>>) \in Seq(Items) /\ Append(acc.chunks, acc.current) \in Seq(Items)
      /\ Append(Append(acc.chunks, acc.current), <<item>>) \in Seq(Items)
  <2> HIDE DEF Items
  <2>1. QED
    BY <1>1, <1>2, AppendProperties
<1>4. acc.tokens + item \in Nat /\ 0 \in Nat
  BY <1>1
<1>5. \A a \in Seq(Items), b \in Items, c \in Nat : [chunks |-> a, current |-> b, tokens |-> c] \in Accs
  BY DEF Accs
<1>6. item <= Effective \/ item > Effective
  BY <1>1
<1>7. acc.tokens + item <= Effective \/ acc.tokens + item > Effective
  BY <1>1
<1>8. CASE item <= Effective /\ (acc.current = <<>> \/ acc.tokens + item <= Effective)
  <2>1. [chunks |-> acc.chunks, current |-> Append(acc.current, item), tokens |-> acc.tokens + item] \in Accs
    BY <1>1, <1>2, <1>4, <1>5
  <2>2. QED
    BY <1>8, <2>1, PutCases
<1>9. CASE item <= Effective /\ acc.current # <<>> /\ acc.tokens + item > Effective
  <2>1. [chunks |-> Append(acc.chunks, acc.current), current |-> <<item>>, tokens |-> item] \in Accs
    BY <1>1, <1>2, <1>3, <1>5
  <2>2. QED
    BY <1>9, <2>1, PutCases
<1>10. CASE item > Effective
  <2>1. /\ [chunks |-> Append(acc.chunks, <<item>>), current |-> <<>>, tokens |-> 0] \in Accs
        /\ [chunks |-> Append(Append(acc.chunks, acc.current), <<item>>), current |-> <<>>, tokens |-> 0] \in Accs
    BY <1>2, <1>3, <1>4, <1>5
  <2>2. QED
    BY <1>10, <2>1, PutCases
<1>11. QED
  BY <1>6, <1>7, <1>8, <1>9, <1>10

\* The fold's stages.
LEMMA PutRuns ==
    ASSUME NEW items \in Items
    PROVE  \E p : /\ p = [k \in 0..Len(items) |-> p[k]]
                  /\ p[0] = Start /\ \A k \in 1..Len(items) : p[k] = Put(p[k - 1], items[k])
                  /\ FoldLeft(Put, Start, items) = p[Len(items)]
<1> DEFINE n == Len(items)
           op == [x \in Accs \X Sizes |-> Put(x[1], x[2])]
<1>1. n \in Nat /\ DOMAIN items = 1..n /\ \A i \in 1..n : items[i] \in Sizes
  BY DEF Items
<1>2. Start \in Accs
  BY DEF Start, Accs, Items
<1>3. op \in [Accs \X Sizes -> Accs]
  BY PutType
<1>4. \A a \in Accs, x \in Sizes : op[<<a, x>>] = Put(a, x)
  OBVIOUS
<1> HIDE DEF op
<1>5. PICK g : FoldsBy(op, Start, items, Accs, Sizes, g)
  <2>1. items \in Seq(Sizes)
    BY DEF Items
  <2>2. QED
    BY <1>2, <1>3, <2>1, FoldExists
<1>6. ASSUME NEW T \in SUBSET DOMAIN items
      PROVE  g[T] = IF T = {} THEN Start ELSE Put(g[T \ {Max(T)}], items[Max(T)])
  BY <1>4, <1>5 DEF FoldsBy
<1>7. PutFolds(items, g)
  BY <1>5, <1>6 DEF PutFolds, FoldsBy
<1> DEFINE f == CHOOSE f : PutFolds(items, f)
<1>8. PutFolds(items, f) /\ FoldLeft(Put, Start, items) = f[1..n]
  BY <1>1, <1>7, PutFoldDef
<1> HIDE DEF f
<1> DEFINE p == [k \in 0..n |-> f[1..k]]
<1>9. \A T \in SUBSET DOMAIN items :
        f[T] = IF T = {} THEN Start ELSE Put(f[T \ {Max(T)}], items[Max(T)])
  BY <1>8 DEF PutFolds
<1>10. p[0] = Start
  <2>1. 0 \in 0..n /\ 1..0 = {}
    BY <1>1
  <2>2. QED
    BY <1>9, <2>1
<1>11. ASSUME NEW k \in 1..n PROVE p[k] = Put(p[k - 1], items[k])
  <2>1. k \in Nat /\ k # 0 /\ k \in 0..n /\ k - 1 \in 0..n /\ 1..k \in SUBSET DOMAIN items
    BY <1>1
  <2>2. 1..k # {} /\ Max(1..k) = k /\ (1..k) \ {Max(1..k)} = 1..(k - 1)
    BY <2>1, LastOfPrefix
  <2>3. f[1..k] = Put(f[1..(k - 1)], items[k])
    BY <1>9, <2>1, <2>2
  <2>4. QED
    BY <2>1, <2>3
<1>12. FoldLeft(Put, Start, items) = p[n]
  BY <1>1, <1>8
<1>13. p = [k \in 0..n |-> p[k]]
  OBVIOUS
<1> HIDE DEF p
<1>14. QED
  BY <1>10, <1>11, <1>12, <1>13

-----------------------------------------------------------------------------
(* Tokens of chunks, and what is cut so far.                               *)

LEMMA TokensAppend ==
    ASSUME NEW c \in Items, NEW item \in Sizes
    PROVE  /\ Tokens(c) \in Nat /\ Tokens(<<>>) = 0 /\ Tokens(<<item>>) = item
           /\ Tokens(Append(c, item)) = Tokens(c) + item
<1> DEFINE n == Len(c)
           d == Append(c, item)
<1>1. /\ n \in Nat /\ DOMAIN c = 1..n /\ (\A i \in 1..n : c[i] \in Nat /\ d[i] = c[i]) /\ item \in Nat
      /\ DOMAIN d = 1..(n + 1) /\ d[n + 1] = item /\ \A i \in 1..(n + 1) : d[i] \in Nat
  <2>1. c \in Seq(Nat) /\ item \in Nat
    BY SizesAssumption, SeqMonotonic DEF Items
  <2>2. n \in Nat /\ DOMAIN c = 1..n /\ \A i \in 1..n : c[i] \in Nat
    BY <2>1
  <2>3. d \in Seq(Nat) /\ Len(d) = n + 1 /\ (\A i \in 1..n : d[i] = c[i]) /\ d[n + 1] = item
    BY <2>1, AppendProperties
  <2> HIDE DEF d
  <2>4. DOMAIN d = 1..(n + 1) /\ \A i \in 1..(n + 1) : d[i] \in Nat
    BY <2>3
  <2>5. QED
    BY <2>1, <2>2, <2>3, <2>4
<1> HIDE DEF d, n
<1>2. IsFiniteSet(1..n) /\ IsFiniteSet(1..(n + 1))
  BY <1>1, FS_Interval
<1>3. TotalOf(c, 1..n) \in Nat
  BY <1>1, <1>2, TotalIsNat
<1>4. TotalOf(d, 1..n) = TotalOf(c, 1..n)
  BY <1>1, <1>2, TotalsAgree
<1>5. TotalOf(d, 1..(n + 1)) = TotalOf(d, 1..n) + item
  <2>1. n + 1 \in Nat /\ n + 1 \in 1..(n + 1) /\ n + 1 - 1 = n
    BY <1>1
  <2>2. \A k \in 1..(n + 1) : TotalOf(d, 1..k) = TotalOf(d, 1..(k - 1)) + d[k]
    BY <1>1, <2>1, PrefixTotals
  <2> DEFINE m == n + 1
  <2>3. m \in 1..m /\ m - 1 = n /\ d[m] = item
    BY <1>1, <2>1
  <2>4. \A k \in 1..m : TotalOf(d, 1..k) = TotalOf(d, 1..(k - 1)) + d[k]
    BY <2>2
  <2> HIDE DEF m
  <2>5. TotalOf(d, 1..m) = TotalOf(d, 1..(m - 1)) + d[m]
    BY <2>3, <2>4
  <2>6. TotalOf(d, 1..m) = TotalOf(d, 1..n) + item
    BY <2>3, <2>5
  <2>7. QED
    BY <2>6 DEF m
<1>6. Tokens(<<>>) = 0
  <2>1. DOMAIN <<>> = {}
    OBVIOUS
  <2>2. QED
    BY <2>1, EmptyTotal DEF Tokens
<1>7. Tokens(<<item>>) = item
  <2> DEFINE e == <<item>>
  <2>1. DOMAIN e = 1..1 /\ e[1] = item /\ \A i \in 1..1 : e[i] \in Nat
    BY <1>1
  <2> HIDE DEF e
  <2>2. TotalOf(e, 1..0) = 0 /\ \A k \in 1..1 : TotalOf(e, 1..k) = TotalOf(e, 1..(k - 1)) + e[k]
    BY <2>1, PrefixTotals
  <2>3. TotalOf(e, 1..1) = TotalOf(e, 1..0) + e[1]
    <3>1. 1 \in 1..1 /\ 1 - 1 = 0
      OBVIOUS
    <3>2. TotalOf(e, 1..1) = TotalOf(e, 1..(1 - 1)) + e[1]
      BY <2>2, <3>1
    <3>3. QED
      BY <3>1, <3>2
  <2>4. TotalOf(e, DOMAIN e) = item
    BY <1>1, <2>1, <2>2, <2>3
  <2>5. QED
    BY <2>4 DEF e, Tokens
<1>8. Tokens(c) = TotalOf(c, 1..n) /\ Tokens(d) = TotalOf(d, 1..(n + 1))
  BY <1>1 DEF Tokens
<1>9. QED
  BY <1>3, <1>4, <1>5, <1>6, <1>7, <1>8 DEF d

\* Chunks as they are closed: none empty, none over the limit but a single item, and each
\* closed because of the next.
WellCut(cs) ==
    /\ cs \in Seq(Items)
    /\ \A i \in 1..Len(cs) :
         /\ cs[i] # <<>>
         /\ Tokens(cs[i]) <= Effective \/ Len(cs[i]) = 1
         /\ i < Len(cs) => Tokens(cs[i]) + cs[i + 1][1] > Effective

LEMMA CutAppend ==
    ASSUME NEW cs, WellCut(cs), NEW c \in Items, c # <<>>, Tokens(c) <= Effective \/ Len(c) = 1,
           cs # <<>> => Tokens(cs[Len(cs)]) + c[1] > Effective
    PROVE  /\ WellCut(Append(cs, c)) /\ Append(cs, c) # <<>> /\ Append(cs, c)[Len(Append(cs, c))] = c
           /\ FlattenSeq(Append(cs, c)) = FlattenSeq(cs) \o c /\ FlattenSeq(cs) \in Items
<1> DEFINE d == Append(cs, c)
           n == Len(cs)
<1>1. cs \in Seq(Items) /\ \A i \in 1..n : cs[i] \in Items
  BY DEF WellCut
<1>2. d \in Seq(Items) /\ n \in Nat /\ Len(d) = n + 1 /\ (\A i \in 1..n : d[i] = cs[i]) /\ d[n + 1] = c /\ d # <<>>
  <2>1. d \in Seq(Items) /\ Len(d) = n + 1 /\ (\A i \in 1..n : d[i] = cs[i]) /\ d[n + 1] = c /\ d # <<>>
    BY <1>1, AppendProperties
  <2>2. n \in Nat
    BY <1>1
  <2>3. QED
    BY <2>1, <2>2
<1>3. FlattenSeq(d) = FlattenSeq(cs) \o c /\ FlattenSeq(cs) \in Items
  <2>1. c \in Seq(Sizes) /\ cs \in Seq(Seq(Sizes))
    BY <1>1 DEF Items
  <2>2. QED
    BY <2>1, FlattenAppend DEF Items
<1> HIDE DEF d
<1>4. ASSUME NEW i \in 1..(n + 1)
      PROVE  /\ d[i] # <<>> /\ (Tokens(d[i]) <= Effective \/ Len(d[i]) = 1)
             /\ i < n + 1 => Tokens(d[i]) + d[i + 1][1] > Effective
  <2>1. CASE i = n + 1
    BY <1>2, <2>1
  <2>2. CASE i = n /\ n # 0
    <3>1. d[i] = cs[n] /\ d[i + 1] = c /\ n \in 1..n /\ cs # <<>>
      BY <1>2, <2>2
    <3>2. cs[n] # <<>> /\ (Tokens(cs[n]) <= Effective \/ Len(cs[n]) = 1)
      BY <3>1 DEF WellCut
    <3>3. QED
      BY <3>1, <3>2
  <2>3. CASE i < n
    <3>1. i \in 1..n /\ i + 1 \in 1..n /\ d[i] = cs[i] /\ d[i + 1] = cs[i + 1]
      BY <1>2, <2>3
    <3>2. QED
      BY <2>3, <3>1 DEF WellCut
  <2>4. QED
    BY <1>2, <2>1, <2>2, <2>3
<1>5. WellCut(d)
  BY <1>2, <1>4 DEF WellCut
<1>6. QED
  BY <1>2, <1>3, <1>5 DEF d

\* What has been cut of the first k items.
Fits(acc, items, k) ==
    /\ acc \in Accs /\ WellCut(acc.chunks)
    /\ FlattenSeq(acc.chunks) \o acc.current = SubSeq(items, 1, k)
    /\ acc.tokens = Tokens(acc.current) /\ acc.tokens <= Effective
    /\ acc.chunks # <<>> =>
         LET last == acc.chunks[Len(acc.chunks)]
         IN  IF acc.current = <<>> THEN Tokens(last) > Effective ELSE Tokens(last) + acc.current[1] > Effective

LEMMA StartFits ==
    ASSUME NEW items \in Items
    PROVE  Fits(Start, items, 0)
<1>1. Start \in Accs /\ Start.chunks = <<>> /\ Start.current = <<>> /\ Start.tokens = 0
  BY DEF Start, Accs, Items
<1>2. WellCut(<<>>)
  BY DEF WellCut
<1>3. FlattenSeq(<<>>) \o <<>> = <<>> /\ SubSeq(items, 1, 0) = <<>>
  <2>1. FlattenSeq(<<>>) = <<>>
    BY DEF FlattenSeq
  <2>2. SubSeq(items, 1, 0) = <<>>
    BY SubSeqEmpty
  <2>3. QED
    BY <2>1, <2>2
<1>4. Tokens(<<>>) = 0
  <2>1. DOMAIN <<>> = {}
    OBVIOUS
  <2>2. QED
    BY <2>1, EmptyTotal DEF Tokens
<1>5. WellCut(Start.chunks) /\ FlattenSeq(Start.chunks) \o Start.current = SubSeq(items, 1, 0)
  BY <1>1, <1>2, <1>3
<1>6. Start.tokens = Tokens(Start.current) /\ Start.tokens <= Effective /\ ~ (Start.chunks # <<>>)
  BY <1>1, <1>4, Limit
<1>7. QED
  BY <1>1, <1>5, <1>6 DEF Fits

LEMMA ConcatAppend ==
    ASSUME NEW S, NEW a \in Seq(S), NEW b \in Seq(S), NEW e \in S
    PROVE  a \o Append(b, e) = Append(a \o b, e)
<1>1. Append(b, e) = b \o <<e>> /\ Append(a \o b, e) = (a \o b) \o <<e>>
  BY AppendIsConcat, ConcatProperties
<1>2. (a \o b) \o <<e>> = a \o (b \o <<e>>)
  BY ConcatAssociative
<1>3. QED
  BY <1>1, <1>2

LEMMA PutFits ==
    ASSUME NEW items \in Items, NEW k \in 1..Len(items), NEW acc, Fits(acc, items, k - 1)
    PROVE  Fits(Put(acc, items[k]), items, k)
<1> DEFINE item == items[k]
           cs == acc.chunks
           cur == acc.current
           tok == acc.tokens
           last == cs[Len(cs)]
           flat == FlattenSeq(cs)
           r == Put(acc, item)
<1>1. item \in Sizes /\ item \in Nat
  <2>1. items \in Seq(Sizes)
    BY DEF Items
  <2>2. item \in Sizes
    BY <2>1, ElementOfSeq
  <2>3. QED
    BY <2>2, SizesAssumption
<1>2. /\ acc \in Accs /\ WellCut(cs) /\ flat \o cur = SubSeq(items, 1, k - 1)
      /\ tok = Tokens(cur) /\ tok <= Effective
      /\ cs # <<>> => IF cur = <<>> THEN Tokens(last) > Effective ELSE Tokens(last) + cur[1] > Effective
  BY DEF Fits
<1>3. cur \in Items /\ tok \in Nat /\ cs \in Seq(Items) /\ Effective \in Nat /\ <<item>> \in Items /\ <<>> \in Items
  BY <1>1, <1>2, Limit DEF Accs, Items
<1>4. SubSeq(items, 1, k) = Append(SubSeq(items, 1, k - 1), item)
  BY PrefixAppend DEF Items
<1>5. /\ Tokens(<<>>) = 0 /\ Tokens(<<item>>) = item /\ Tokens(Append(cur, item)) = tok + item
      /\ Append(cur, item) \in Items
  <2>1. Append(cur, item) \in Items
    BY <1>1, <1>3 DEF Items
  <2>2. QED
    BY <1>1, <1>2, <1>3, <2>1, TokensAppend, ZenonT(40)
<1>6. cs # <<>> => Tokens(last) \in Nat
  <2>1. ASSUME cs # <<>> PROVE last \in Items
    BY <1>3, <2>1, LenProperties, ElementOfSeq
  <2>2. \A c \in Items : Tokens(c) \in Nat
    BY <1>1, TokensAppend
  <2>3. QED
    BY <2>1, <2>2
<1>7. r \in Accs
  BY <1>1, <1>2, PutType
<1>8. flat \in Items /\ flat \o Append(cur, item) = SubSeq(items, 1, k)
  <2>1. flat \in Seq(Sizes)
    <3>1. cs \in Seq(Seq(Sizes)) /\ <<>> \in Seq(Sizes)
      BY <1>3 DEF Items
    <3>2. QED
      BY <3>1, FlattenAppend
  <2>2. cur \in Seq(Sizes)
    BY <1>3 DEF Items
  <2>3. flat \o Append(cur, item) = Append(flat \o cur, item)
    <3>1. item \in Sizes
      BY <1>1
    <3> HIDE DEF flat, cur, item
    <3>2. QED
      BY <2>1, <2>2, <3>1, ConcatAppend
  <2>4. QED
    BY <1>2, <1>4, <2>1, <2>3 DEF Items
<1>9. CASE item <= Effective /\ (cur = <<>> \/ tok + item <= Effective)
  <2>1. r.chunks = cs /\ r.current = Append(cur, item) /\ r.tokens = tok + item
    BY <1>1, <1>2, <1>9, PutCases
  <2>2. tok + item <= Effective
    <3>1. CASE cur = <<>>
      BY <1>1, <1>2, <1>3, <1>5, <1>9, <3>1
    <3>2. QED
      BY <1>9, <3>1
  <2>3. Append(cur, item) # <<>> /\ (cur = <<>> => Append(cur, item)[1] = item) /\ (cur # <<>> => Append(cur, item)[1] = cur[1])
    <3>1. cur \in Seq(Sizes)
      BY <1>3 DEF Items
    <3> HIDE DEF cur, item
    <3>2. QED
      BY <1>1, <3>1
  <2>4. ASSUME cs # <<>> PROVE Tokens(last) + Append(cur, item)[1] > Effective
    <3>1. CASE cur = <<>>
      BY <1>1, <1>2, <1>3, <1>6, <2>3, <2>4, <3>1
    <3>2. CASE cur # <<>>
      BY <1>2, <2>3, <2>4, <3>2
    <3>3. QED
      BY <3>1, <3>2
  <2> HIDE DEF r
  <2>5. QED
    BY <1>2, <1>5, <1>7, <1>8, <2>1, <2>2, <2>3, <2>4 DEF Fits, r
<1>10. ASSUME cur # <<>>
       PROVE  /\ WellCut(Append(cs, cur)) /\ Append(cs, cur) # <<>>
              /\ Append(cs, cur)[Len(Append(cs, cur))] = cur
              /\ FlattenSeq(Append(cs, cur)) = flat \o cur
  <2>1. cs # <<>> => Tokens(cs[Len(cs)]) + cur[1] > Effective
    BY <1>2, <1>10
  <2>2. Tokens(cur) <= Effective
    BY <1>2
  <2>3. QED
    BY <1>2, <1>3, <1>10, <2>1, <2>2, CutAppend
<1>11. (flat \o cur) \o <<item>> = SubSeq(items, 1, k)
  <2>1. (flat \o cur) \o <<item>> = Append(flat \o cur, item)
    <3>1. flat \o cur \in Seq(Sizes)
      BY <1>3, <1>8, ConcatProperties DEF Items
    <3>2. QED
      BY <1>1, <3>1, AppendIsConcat
  <2>2. QED
    BY <1>2, <1>4, <2>1
<1>12. CASE item <= Effective /\ cur # <<>> /\ tok + item > Effective
  <2>1. r.chunks = Append(cs, cur) /\ r.current = <<item>> /\ r.tokens = item
    BY <1>1, <1>2, <1>12, PutCases
  <2>2. <<item>> # <<>> /\ <<item>>[1] = item
    OBVIOUS
  <2> HIDE DEF r
  <2>3. QED
    BY <1>2, <1>5, <1>7, <1>10, <1>11, <1>12, <2>1, <2>2 DEF Fits, r
<1>13. <<item>> # <<>> /\ Len(<<item>>) = 1 /\ <<item>>[1] = item
  OBVIOUS
<1>14. CASE item > Effective /\ cur = <<>>
  <2>1. r.chunks = Append(cs, <<item>>) /\ r.current = <<>> /\ r.tokens = 0
    BY <1>1, <1>2, <1>14, PutCases
  <2>2. cs # <<>> => Tokens(cs[Len(cs)]) + <<item>>[1] > Effective
    BY <1>1, <1>2, <1>3, <1>6, <1>13, <1>14
  <2>3. /\ WellCut(Append(cs, <<item>>)) /\ Append(cs, <<item>>) # <<>>
        /\ Append(cs, <<item>>)[Len(Append(cs, <<item>>))] = <<item>>
        /\ FlattenSeq(Append(cs, <<item>>)) = flat \o <<item>>
    BY <1>2, <1>3, <1>13, <2>2, CutAppend
  <2>4. flat \o <<item>> = SubSeq(items, 1, k) /\ (flat \o <<item>>) \o <<>> = flat \o <<item>>
    <3>1. Append(<<>>, item) = <<item>>
      OBVIOUS
    <3>2. flat \o <<item>> \in Seq(Sizes)
      BY <1>3, <1>8, ConcatProperties DEF Items
    <3>3. QED
      BY <1>8, <1>14, <3>1, <3>2, ConcatEmptySeq
  <2> HIDE DEF r
  <2>5. QED
    BY <1>3, <1>5, <1>7, <1>14, <2>1, <2>3, <2>4 DEF Fits, r
<1>15. CASE item > Effective /\ cur # <<>>
  <2> DEFINE ds == Append(cs, cur)
  <2>1. r.chunks = Append(ds, <<item>>) /\ r.current = <<>> /\ r.tokens = 0
    BY <1>1, <1>2, <1>15, PutCases, SMTT(30)
  <2>2. WellCut(ds) /\ ds # <<>> /\ ds[Len(ds)] = cur /\ FlattenSeq(ds) = flat \o cur
    BY <1>10, <1>15
  <2> HIDE DEF ds
  <2>3. ds # <<>> => Tokens(ds[Len(ds)]) + <<item>>[1] > Effective
    BY <1>1, <1>2, <1>3, <1>13, <1>15, <2>2
  <2>4. /\ WellCut(Append(ds, <<item>>)) /\ Append(ds, <<item>>) # <<>>
        /\ Append(ds, <<item>>)[Len(Append(ds, <<item>>))] = <<item>>
        /\ FlattenSeq(Append(ds, <<item>>)) = FlattenSeq(ds) \o <<item>>
    BY <1>3, <1>13, <2>2, <2>3, CutAppend
  <2>5. SubSeq(items, 1, k) \o <<>> = SubSeq(items, 1, k)
    <3>1. SubSeq(items, 1, k) \in Seq(Sizes)
      <4>1. (flat \o cur) \in Seq(Sizes)
        BY <1>3, <1>8, ConcatProperties DEF Items
      <4>2. QED
        BY <1>1, <1>2, <1>4, <4>1
    <3>2. QED
      BY <3>1, ConcatEmptySeq
  <2>6. FlattenSeq(r.chunks) \o r.current = SubSeq(items, 1, k)
    BY <1>11, <2>1, <2>2, <2>4, <2>5
  <2>7. r.chunks # <<>> => r.current = <<>> /\ Tokens(r.chunks[Len(r.chunks)]) > Effective
    BY <1>5, <1>15, <2>1, <2>4
  <2>8. WellCut(r.chunks) /\ r.tokens = Tokens(r.current) /\ r.tokens <= Effective
    BY <1>3, <1>5, <2>1, <2>4
  <2> HIDE DEF r
  <2>9. QED
    BY <1>7, <2>6, <2>7, <2>8 DEF Fits, r
<1>16. QED
  BY <1>1, <1>3, <1>9, <1>12, <1>14, <1>15

\* However items are cut, the chunks are the items, and full.
LEMMA CutIsWell ==
    ASSUME NEW items \in Items
    PROVE  WellCut(ChunkData(items)) /\ FlattenSeq(ChunkData(items)) = items
<1> DEFINE n == Len(items)
           end == FoldLeft(Put, Start, items)
<1>1. n \in Nat
  BY DEF Items
<1>2. PICK p : /\ p[0] = Start /\ \A k \in 1..n : p[k] = Put(p[k - 1], items[k])
               /\ end = p[n]
  BY PutRuns
<1> HIDE DEF end
<1>3. Fits(p[n], items, n)
  <2> DEFINE Good == {k \in 0..n : Fits(p[k], items, k)}
  <2>1. 0 \in Good
    BY <1>1, <1>2, StartFits
  <2>2. \A k \in 1..n : k - 1 \in Good => k \in Good
    <3>1. ASSUME NEW k \in 1..n, k - 1 \in Good PROVE k \in Good
      <4>1. Fits(p[k - 1], items, k - 1) /\ k \in 0..n
        BY <1>1, <3>1
      <4>2. Fits(Put(p[k - 1], items[k]), items, k)
        BY <4>1, PutFits
      <4>3. QED
        BY <1>2, <4>1, <4>2
    <3>2. QED
      BY <3>1
  <2>3. Good \in SUBSET (0..n)
    OBVIOUS
  <2>4. n \in 0..n
    BY <1>1
  <2> HIDE DEF Good
  <2>5. n \in Good
    BY <1>1, <2>1, <2>2, <2>3, <2>4, UpTo
  <2>6. QED
    BY <2>5 DEF Good
<1>4. SubSeq(items, 1, n) = items
  <2>1. items \in Seq(Sizes)
    BY DEF Items
  <2>2. QED
    BY ONLY <2>1, SubSeqFull, SMTT(30)
<1> DEFINE cs == end.chunks
           cur == end.current
<1>5. /\ end \in Accs /\ WellCut(cs) /\ FlattenSeq(cs) \o cur = items
      /\ Tokens(cur) <= Effective /\ cs \in Seq(Items) /\ cur \in Items
      /\ cs # <<>> /\ cur # <<>> => Tokens(cs[Len(cs)]) + cur[1] > Effective
  BY <1>2, <1>3, <1>4 DEF Fits, Accs
<1>6. ChunkData(items) = IF cur = <<>> THEN cs ELSE Append(cs, cur)
  BY DEF ChunkData, end
<1> HIDE DEF cs, cur
<1>7. CASE cur = <<>>
  <2>1. FlattenSeq(cs) \in Seq(Sizes)
    <3>1. cs \in Seq(Seq(Sizes)) /\ <<>> \in Seq(Sizes)
      BY <1>5 DEF Items
    <3>2. QED
      BY <3>1, FlattenAppend
  <2>2. FlattenSeq(cs) \o <<>> = FlattenSeq(cs)
    BY <2>1, ConcatEmptySeq
  <2>3. QED
    BY <1>5, <1>6, <1>7, <2>2
<1>8. CASE cur # <<>>
  <2>1. cs # <<>> => Tokens(cs[Len(cs)]) + cur[1] > Effective
    BY <1>5, <1>8
  <2>2. WellCut(Append(cs, cur)) /\ FlattenSeq(Append(cs, cur)) = FlattenSeq(cs) \o cur
    BY <1>5, <1>8, <2>1, CutAppend
  <2>3. QED
    BY <1>5, <1>6, <1>8, <2>2
<1>9. QED
  BY <1>7, <1>8

-----------------------------------------------------------------------------
(* The inductive invariant of the sending: what the properties say of the  *)
(* results, on the types of the state.                                     *)

ChunkInv ==
    /\ ChunksTypeOK
    /\ results \in Seq(Nat)
    /\ ResultsAreAccounted

LEMMA SeqOfIs ==
    ASSUME NEW S, NEW n \in Nat, NEW s
    PROVE  s \in SeqOf(S, n) <=> s \in Seq(S) /\ Len(s) <= n
<1>1. ASSUME s \in SeqOf(S, n) PROVE s \in Seq(S) /\ Len(s) <= n
  <2>1. PICK m \in 0..n : s \in [1..m -> S]
    BY <1>1, SMTT(30) DEF SeqOf
  <2>2. QED
    BY <2>1
<1>2. ASSUME s \in Seq(S), Len(s) <= n PROVE s \in SeqOf(S, n)
  <2>1. Len(s) \in 0..n /\ s \in [1..Len(s) -> S]
    BY <1>2
  <2>2. QED
    BY <2>1 DEF SeqOf
<1>3. QED
  BY <1>1, <1>2

\* Of an item there is a chunk, and chunks are as many as they are.
LEMMA ChunkCount ==
    ASSUME NEW items \in SeqOf(Sizes, MaxItems)
    PROVE  items \in Items /\ Len(ChunkData(items)) \in Nat
<1>1. items \in Items
  BY SizesAssumption, SeqOfIs DEF Items
<1>2. ChunkData(items) \in Seq(Items)
  BY <1>1, CutIsWell DEF WellCut
<1>3. QED
  BY <1>1, <1>2

LEMMA ChunksInitInv == ChunksInit => ChunkInv
<1>1. SUFFICES ASSUME ChunksInit PROVE ChunkInv
  OBVIOUS
<1> DEFINE n == Len(Chunks)
<1>2. n \in Nat /\ data \in SeqOf(Sizes, MaxItems)
  BY <1>1, ChunkCount DEF ChunksInit, Chunks
<1>3. tries = [i \in 1..n |-> <<>>] /\ at = 1 /\ results = <<>>
  BY <1>1 DEF ChunksInit, Chunks
<1>4. <<>> \in SeqOf(Outcomes, Retries)
  <2>1. <<>> \in Seq(Outcomes) /\ Len(<<>>) = 0 /\ Retries \in Nat /\ 0 <= Retries
    BY RetryAssumption
  <2>2. QED
    BY <2>1, SeqOfIs
<1> HIDE DEF n
<1>5. \A i \in DOMAIN <<>> : FALSE
  OBVIOUS
<1>6. ChunksTypeOK
  BY <1>2, <1>3, <1>4, <1>5 DEF ChunksTypeOK, n
<1>7. ResultsAreAccounted
  <2>1. 1..(at - 1) = {} /\ ToSet(results) = {}
    BY <1>3 DEF ToSet
  <2>2. \A i \in at..n : Len(tries[i]) < Retries
    BY <1>2, <1>3, RetryAssumption
  <2>3. QED
    BY <1>3, <1>5, <2>1, <2>2 DEF ResultsAreAccounted, n
<1>8. results \in Seq(Nat)
  BY <1>3
<1>9. QED
  BY <1>6, <1>7, <1>8 DEF ChunkInv

\* An attempt: its chunk is tried again, or left for a reason.
LEMMA AttemptKeepsInv ==
    ASSUME ChunkInv, NEW o \in Outcomes, Try(o), data' = data, at' \in {at, at + 1},
           results' = IF o = "result" THEN Append(results, at) ELSE results,
           at' = at => o # "result" /\ Len(tries'[at]) < Retries,
           at' # at => o \in {"result", "empty", "quota"} \/ Len(tries'[at]) = Retries
    PROVE  ChunkInv'
<1> DEFINE n == Len(Chunks)
           T == SeqOf(Outcomes, Retries)
           gave(i) == tries[i] # <<>> /\ Last(tries[i]) = "result"
           gives(i) == tries'[i] # <<>> /\ Last(tries'[i]) = "result"
<1>1. /\ n \in Nat /\ data \in SeqOf(Sizes, MaxItems) /\ at \in 1..(n + 1) /\ tries \in [1..n -> T]
      /\ (\A i \in DOMAIN results : results[i] \in 1..(at - 1)) /\ results \in Seq(Nat)
  BY ChunkCount DEF ChunkInv, ChunksTypeOK, Chunks
<1>2. /\ at <= n /\ tries' = [tries EXCEPT ![at] = Append(@, o)] /\ Chunks' = Chunks
  BY DEF Try, Chunks
<1>3. /\ ToSet(results) = {i \in 1..(at - 1) : gave(i)}
      /\ \A i, j \in DOMAIN results : i < j => results[i] < results[j]
      /\ \A i \in 1..(at - 1) : \/ Last(tries[i]) \in {"result", "empty", "quota"}
                                \/ Len(tries[i]) = Retries
      /\ \A i \in at..n : Len(tries[i]) < Retries
  BY DEF ChunkInv, ResultsAreAccounted
<1> HIDE DEF n, T
<1>4. at \in 1..n /\ at \in Nat
  BY <1>1, <1>2
<1> DEFINE new == Append(tries[at], o)
<1>5. /\ new \in Seq(Outcomes) /\ new # <<>> /\ Last(new) = o /\ Len(new) \in Nat /\ Len(new) <= Retries
  <2>1. tries[at] \in Seq(Outcomes) /\ Len(tries[at]) < Retries
    BY <1>1, <1>3, <1>4, RetryAssumption, SeqOfIs DEF T
  <2>2. Len(tries[at]) \in Nat /\ Retries \in Nat
    BY <2>1, RetryAssumption
  <2>3. new \in Seq(Outcomes) /\ new # <<>> /\ Len(new) = Len(tries[at]) + 1 /\ new[Len(tries[at]) + 1] = o
    BY <2>1, AppendProperties
  <2> DEFINE l == Len(tries[at])
  <2>4. l \in Nat /\ l < Retries /\ Retries \in Nat /\ Len(new) = l + 1 /\ new[l + 1] = o
    BY <2>1, <2>2, <2>3
  <2> HIDE DEF new, l
  <2>5. Last(new) = o /\ Len(new) \in Nat /\ Len(new) <= Retries
    BY <2>4 DEF Last
  <2>6. QED
    BY <2>3, <2>5
<1>6. new \in T
  <2> HIDE DEF new
  <2>1. QED
    BY <1>5, RetryAssumption, SeqOfIs DEF T
<1>7. /\ tries' \in [1..n -> T] /\ tries'[at] = new
      /\ \A i \in 1..n : i # at => tries'[i] = tries[i]
  <2> HIDE DEF new
  <2>1. tries' = [tries EXCEPT ![at] = new]
    BY <1>2 DEF new
  <2>2. QED
    BY <1>1, <1>4, <1>6, <2>1
<1> HIDE DEF new
<1>8. at' \in 1..(n + 1)
  BY <1>1, <1>4
<1>9. results' \in Seq(Nat) /\ \A i \in DOMAIN results' : results'[i] \in 1..(at' - 1)
  <2>1. CASE o = "result"
    <3>1. at' = at + 1 /\ results' = Append(results, at)
      BY <2>1
    <3>2. /\ results' \in Seq(Nat) /\ Len(results') = Len(results) + 1
          /\ (\A i \in 1..Len(results) : results'[i] = results[i]) /\ results'[Len(results) + 1] = at
      BY <1>1, <1>4, <3>1, AppendProperties
    <3>3. Len(results) \in Nat /\ DOMAIN results = 1..Len(results) /\ DOMAIN results' = 1..(Len(results) + 1)
      BY <1>1, <3>2
    <3>4. ASSUME NEW i \in DOMAIN results' PROVE results'[i] \in 1..(at' - 1)
      BY <1>1, <1>4, <3>1, <3>2, <3>3
    <3>5. QED
      BY <3>2, <3>4
  <2>2. CASE o # "result"
    BY <1>1, <1>4, <2>2
  <2>3. QED
    BY <2>1, <2>2
<1>10. ChunksTypeOK'
  <2>1. data' \in SeqOf(Sizes, MaxItems) /\ Len(Chunks') = n
    BY <1>1, <1>2 DEF n
  <2>2. QED
    BY <1>7, <1>8, <1>9, <2>1 DEF ChunksTypeOK, T
<1>11. \A i \in 1..(at - 1) : i \in 1..n /\ i # at /\ tries'[i] = tries[i] /\ (gives(i) <=> gave(i))
  BY <1>1, <1>7
<1>12. gives(at) <=> o = "result"
  <2>1. tries'[at] # <<>> /\ Last(tries'[at]) = o
    BY <1>5, <1>7
  <2>2. QED
    BY ONLY <2>1
<1>13. ToSet(results') = {i \in 1..(at' - 1) : gives(i)}
  <2>1. CASE at' = at
    <3>1. results' = results
      BY <2>1
    <3>2. {i \in 1..(at' - 1) : gives(i)} = {i \in 1..(at - 1) : gave(i)}
      BY <1>11, <2>1
    <3>3. QED
      BY <1>3, <3>1, <3>2
  <2>2. CASE at' = at + 1
    <3>1. {i \in 1..(at' - 1) : gives(i)} = {i \in 1..(at - 1) : gave(i)} \cup (IF o = "result" THEN {at} ELSE {})
      <4>1. 1..(at' - 1) = 1..(at - 1) \cup {at} /\ at \notin 1..(at - 1)
        BY <1>4, <2>2
      <4> DEFINE L == {i \in 1..(at' - 1) : gives(i)}
                 R == {i \in 1..(at - 1) : gave(i)}
      <4>2. \A i : i \in L <=> (i \in 1..(at - 1) /\ gives(i)) \/ (i = at /\ gives(at))
        BY <4>1
      <4>3. \A i : i \in L <=> (i \in 1..(at - 1) /\ gave(i)) \/ (i = at /\ o = "result")
        <5>1. ASSUME NEW i PROVE i \in L <=> (i \in 1..(at - 1) /\ gave(i)) \/ (i = at /\ o = "result")
          BY ONLY <1>11, <1>12, <4>2, Zenon
        <5>2. QED
          BY <5>1
      <4>4. \A i : i \in R <=> i \in 1..(at - 1) /\ gave(i)
        OBVIOUS
      <4> HIDE DEF L, R, gave, gives
      <4>5. L = R \cup (IF o = "result" THEN {at} ELSE {})
        BY ONLY <4>3, <4>4
      <4>6. QED
        BY <4>5 DEF L, R
    <3>2. ToSet(results') = ToSet(results) \cup (IF o = "result" THEN {at} ELSE {})
      <4>1. CASE o = "result"
        <5>1. results' = Append(results, at)
          BY <4>1
        <5>2. DOMAIN results' = DOMAIN results \cup {Len(results) + 1}
          BY <1>1, <5>1
        <5>3. (\A i \in DOMAIN results : results'[i] = results[i]) /\ results'[Len(results) + 1] = at
          BY <1>1, <1>4, <5>1
        <5>4. QED
          BY <4>1, <5>2, <5>3 DEF ToSet
      <4>2. CASE o # "result"
        BY <4>2
      <4>3. QED
        BY <4>1, <4>2
    <3>3. QED
      BY <1>3, <3>1, <3>2
  <2>3. QED
    BY <1>4, <2>1, <2>2
<1>14. \A i, j \in DOMAIN results' : i < j => results'[i] < results'[j]
  <2>1. CASE o = "result"
    <3>1. results' = Append(results, at) /\ Len(results) \in Nat /\ DOMAIN results = 1..Len(results)
      BY <1>1, <2>1
    <3>2. /\ DOMAIN results' = 1..(Len(results) + 1) /\ results'[Len(results) + 1] = at
          /\ \A i \in 1..Len(results) : results'[i] = results[i]
      BY <1>1, <1>4, <3>1, AppendProperties
    <3>3. ASSUME NEW i \in DOMAIN results', NEW j \in DOMAIN results', i < j
          PROVE  results'[i] < results'[j]
      <4>1. i \in DOMAIN results /\ results'[i] = results[i] /\ results[i] \in 1..(at - 1)
        BY <1>1, <3>1, <3>2, <3>3
      <4>2. CASE j = Len(results) + 1
        BY <1>4, <3>2, <4>1, <4>2
      <4>3. CASE j # Len(results) + 1
        <5>1. j \in DOMAIN results /\ results'[j] = results[j]
          BY <3>1, <3>2, <4>3
        <5>2. QED
          BY <1>3, <3>3, <4>1, <5>1
      <4>4. QED
        BY <4>2, <4>3
    <3>4. QED
      BY <3>3
  <2>2. CASE o # "result"
    BY <1>3, <2>2
  <2>3. QED
    BY <2>1, <2>2
<1>15. ASSUME NEW i \in 1..(at' - 1)
       PROVE  \/ Last(tries'[i]) \in {"result", "empty", "quota"}
              \/ Len(tries'[i]) = Retries
  <2>1. CASE i \in 1..(at - 1)
    BY <1>3, <1>11, <2>1
  <2>2. CASE i \notin 1..(at - 1)
    <3>1. at' # at /\ i = at
      <4>1. at' # at
        BY <2>2
      <4>2. at' = at + 1
        BY <4>1
      <4>3. i \in 1..(at + 1 - 1) /\ at + 1 - 1 = at
        BY <1>4, <4>2
      <4>4. i \in 1..at
        BY <4>3
      <4>5. QED
        BY <1>4, <2>2, <4>1, <4>4
    <3>2. Last(tries'[at]) = o
      BY <1>5, <1>7
    <3>3. QED
      BY <3>1, <3>2
  <2>3. QED
    BY <2>1, <2>2
<1>16. ASSUME NEW i \in at'..n
       PROVE  Len(tries'[i]) < Retries
  <2>1. CASE i = at
    BY <1>4, <2>1
  <2>2. CASE i # at
    <3>1. i \in at..n /\ i \in 1..n
      BY <1>1, <1>4, <1>8, <2>2
    <3>2. QED
      BY <1>3, <1>7, <2>2, <3>1
  <2>3. QED
    BY <2>1, <2>2
<1>17. ResultsAreAccounted'
  <2>1. Len(Chunks') = n
    BY <1>2 DEF n
  <2>2. QED
    BY <1>13, <1>14, <1>15, <1>16, <2>1 DEF ResultsAreAccounted
<1>18. QED
  BY <1>9, <1>10, <1>17 DEF ChunkInv

LEMMA ChunksNextInv == ChunkInv /\ [ChunksNext]_chunkVars => ChunkInv'
<1>1. SUFFICES ASSUME ChunkInv, [ChunksNext]_chunkVars PROVE ChunkInv'
  OBVIOUS
<1>a. at \in Nat /\ Retries \in Nat
  <2>1. Len(Chunks) \in Nat /\ at \in 1..(Len(Chunks) + 1)
    BY <1>1, ChunkCount DEF ChunkInv, ChunksTypeOK, Chunks
  <2>2. QED
    BY <2>1, RetryAssumption
<1>2. ASSUME NEW o \in {"result", "empty"}, AnswerChunk(o) PROVE ChunkInv'
  <2>1. /\ o \in Outcomes /\ Try(o) /\ data' = data /\ at' \in {at, at + 1} /\ at' # at
        /\ results' = IF o = "result" THEN Append(results, at) ELSE results
    BY <1>a, <1>2 DEF AnswerChunk, Outcomes
  <2>2. QED
    BY <1>1, <1>2, <2>1, AttemptKeepsInv
<1>3. ASSUME Fail("error") PROVE ChunkInv'
  <2> DEFINE o == "error"
  <2>1. /\ o \in Outcomes /\ Try(o) /\ data' = data /\ at' \in {at, at + 1}
        /\ results' = IF o = "result" THEN Append(results, at) ELSE results
        /\ at' = at => o # "result" /\ Len(tries'[at]) < Retries
        /\ at' # at => ~ (Len(tries'[at]) < Retries)
    BY <1>a, <1>3 DEF Fail, Outcomes
  <2>2. Len(tries'[at]) \in Nat /\ Len(tries'[at]) <= Retries
    <3>1. /\ tries \in [1..Len(Chunks) -> SeqOf(Outcomes, Retries)] /\ at \in 1..Len(Chunks)
          /\ tries' = [tries EXCEPT ![at] = Append(@, o)] /\ Len(tries[at]) < Retries
      <4>1. /\ tries \in [1..Len(Chunks) -> SeqOf(Outcomes, Retries)] /\ at \in 1..(Len(Chunks) + 1)
            /\ at <= Len(Chunks) /\ Len(Chunks) \in Nat /\ \A i \in at..Len(Chunks) : Len(tries[i]) < Retries
            /\ tries' = [tries EXCEPT ![at] = Append(@, o)]
        BY <1>1, <2>1, ChunkCount DEF ChunkInv, ChunksTypeOK, ResultsAreAccounted, Try, Chunks
      <4>2. at \in at..Len(Chunks) /\ at \in 1..Len(Chunks)
        BY <4>1
      <4>3. QED
        BY <4>1, <4>2
    <3>2. tries[at] \in Seq(Outcomes) /\ tries'[at] = Append(tries[at], o)
      <4>1. tries[at] \in SeqOf(Outcomes, Retries) /\ tries'[at] = Append(tries[at], o)
        BY <3>1
      <4>2. QED
        BY <1>a, <4>1, SeqOfIs
    <3>3. Len(tries'[at]) = Len(tries[at]) + 1 /\ Len(tries[at]) \in Nat
      BY <2>1, <3>2, AppendProperties
    <3>4. QED
      BY <1>a, <3>1, <3>3
  <2>3. at' # at => Len(tries'[at]) = Retries
    BY <1>a, <2>1, <2>2
  <2> HIDE DEF o
  <2>4. QED
    BY <1>1, <2>1, <2>3, AttemptKeepsInv
<1>4. ASSUME Exhausted("quota") PROVE ChunkInv'
  <2> DEFINE o == "quota"
  <2>1. /\ o \in Outcomes /\ Try(o) /\ data' = data /\ at' \in {at, at + 1} /\ at' # at
        /\ results' = IF o = "result" THEN Append(results, at) ELSE results
        /\ o \in {"result", "empty", "quota"}
    BY <1>a, <1>4 DEF Exhausted, Outcomes
  <2> HIDE DEF o
  <2>2. QED
    BY <1>1, <2>1, AttemptKeepsInv
<1>5. CASE UNCHANGED chunkVars
  BY <1>1, <1>5 DEF chunkVars, ChunkInv, ChunksTypeOK, ResultsAreAccounted, Chunks
<1>6. QED
  BY <1>1, <1>2, <1>3, <1>4, <1>5 DEF ChunksNext

LEMMA ChunksInvariant == ChunksSpec => []ChunkInv
BY ChunksInitInv, ChunksNextInv, PTL DEF ChunksSpec

\* Every variable of PromptChunks has its type: a chunk that is sent was cut, and is sent no
\* more often than it may be.
THEOREM ChunkTypesHold == ChunksSpec => []ChunksTypeOK
<1>1. ChunkInv => ChunksTypeOK
  BY DEF ChunkInv
<1>2. QED
  BY <1>1, ChunksInvariant, PTL

\* Nothing of the data is lost on its way to the model and back without a reason: the chunks
\* are the data, in order and full, and the results are those of the chunks
\* (chunk_manager.py), for data of any items and any limit.
THEOREM DataStayAccounted == ChunksSpec => []ChunkedDataIsAccounted
<1>1. ChunkInv => ChunkedDataIsAccounted
  <2>1. SUFFICES ASSUME ChunkInv PROVE ChunkedDataIsAccounted
    OBVIOUS
  <2>2. data \in Items
    BY <2>1, ChunkCount DEF ChunkInv, ChunksTypeOK
  <2>3. WellCut(Chunks) /\ FlattenSeq(Chunks) = data
    BY <2>2, CutIsWell DEF Chunks
  <2>4. DOMAIN Chunks = 1..Len(Chunks)
    BY <2>3 DEF WellCut
  <2>5. ChunksAreTheData /\ ChunksAreFull
    BY <2>3, <2>4 DEF WellCut, ChunksAreTheData, ChunksAreFull
  <2>6. QED
    BY <2>1, <2>5 DEF ChunkInv, ChunkedDataIsAccounted
<1>2. QED
  BY <1>1, ChunksInvariant, PTL

-----------------------------------------------------------------------------
(* IssueMerge: how much frequency the issues of some keys have, and what   *)
(* the steps of a merge do to it.                                          *)

Issue == [type : Types, description : Descriptions, frequency : Nat \ {0}]
Issues == Seq(Issue)

Share(list, K) == TotalOf(Frequencies(list), {i \in DOMAIN list : KeyOf(list[i]) \in K})

LEMMA ListFacts ==
    ASSUME NEW list \in Issues
    PROVE  /\ Len(list) \in Nat /\ DOMAIN list = 1..Len(list) /\ DOMAIN Frequencies(list) = 1..Len(list)
           /\ \A i \in 1..Len(list) : /\ list[i] \in Issue /\ Frequencies(list)[i] = list[i].frequency
                                      /\ Frequencies(list)[i] \in Nat \ {0}
           /\ IsFiniteSet(1..Len(list)) /\ \A S \in SUBSET (1..Len(list)) : IsFiniteSet(S)
<1>1. Len(list) \in Nat /\ DOMAIN list = 1..Len(list) /\ \A i \in 1..Len(list) : list[i] \in Issue
  BY DEF Issues
<1>2. IsFiniteSet(1..Len(list)) /\ \A S \in SUBSET (1..Len(list)) : IsFiniteSet(S)
  <2> DEFINE I == 1..Len(list)
  <2>1. IsFiniteSet(I)
    BY <1>1, FS_Interval
  <2> HIDE DEF I
  <2>2. \A S \in SUBSET I : IsFiniteSet(S)
    BY <2>1, FS_Subset
  <2>3. QED
    BY <2>1, <2>2 DEF I
<1>3. QED
  BY <1>1, <1>2 DEF Frequencies, Issue

LEMMA ShareIsNat ==
    ASSUME NEW list \in Issues, NEW K
    PROVE  Share(list, K) \in Nat
<1> DEFINE S == {i \in DOMAIN list : KeyOf(list[i]) \in K}
           f == Frequencies(list)
<1>1. S \in SUBSET (1..Len(list)) /\ IsFiniteSet(S) /\ \A x \in S : f[x] \in Nat
  BY ListFacts
<1> HIDE DEF S, f
<1>2. TotalOf(f, S) \in Nat
  BY <1>1, TotalIsNat
<1>3. QED
  BY <1>2 DEF S, f, Share

LEMMA ShareOfNone ==
    ASSUME NEW K
    PROVE  Share(<<>>, K) = 0 /\ <<>> \in Issues
<1>1. {i \in DOMAIN <<>> : KeyOf(<<>>[i]) \in K} = {}
  OBVIOUS
<1>2. QED
  BY <1>1, EmptyTotal DEF Share, Issues

\* An issue more.
LEMMA ShareAppend ==
    ASSUME NEW list \in Issues, NEW e \in Issue, NEW K
    PROVE  /\ Append(list, e) \in Issues /\ Len(Append(list, e)) = Len(list) + 1
           /\ \A i \in 1..Len(list) : Append(list, e)[i] = list[i]
           /\ Share(Append(list, e), K) = Share(list, K) + IF KeyOf(e) \in K THEN e.frequency ELSE 0
<1> DEFINE n == Len(list)
           d == Append(list, e)
           f == Frequencies(list)
           g == Frequencies(d)
           S == {i \in DOMAIN list : KeyOf(list[i]) \in K}
           T == {i \in DOMAIN d : KeyOf(d[i]) \in K}
<1>1. d \in Issues /\ Len(d) = n + 1 /\ (\A i \in 1..n : d[i] = list[i]) /\ d[n + 1] = e
  BY AppendProperties DEF Issues
<1>2. n \in Nat /\ DOMAIN list = 1..n /\ DOMAIN d = 1..(n + 1)
  BY <1>1, ListFacts
<1> HIDE DEF d
<1>3. /\ \A i \in 1..n : f[i] \in Nat /\ g[i] = f[i]
      /\ g[n + 1] = e.frequency /\ \A i \in 1..(n + 1) : g[i] \in Nat
  BY <1>1, <1>2, ListFacts, SMTT(30)
<1>4. T = S \cup (IF KeyOf(e) \in K THEN {n + 1} ELSE {})
  BY <1>1, <1>2
<1>5. IsFiniteSet(S) /\ IsFiniteSet(T) /\ S \subseteq 1..n /\ T \subseteq 1..(n + 1) /\ n + 1 \notin S
  <2>1. S \subseteq 1..n /\ T \subseteq 1..(n + 1) /\ n + 1 \notin S
    BY <1>2
  <2>2. IsFiniteSet(1..n) /\ IsFiniteSet(1..(n + 1))
    BY <1>2, FS_Interval
  <2> HIDE DEF S, T
  <2>3. QED
    BY <2>1, <2>2, FS_Subset
<1> HIDE DEF f, g, S, T
<1>6. TotalOf(g, S) = TotalOf(f, S)
  <2>1. \A x \in S : g[x] = f[x]
    BY <1>3, <1>5
  <2>2. QED
    BY <1>5, <2>1, TotalsAgree
<1>7. TotalOf(f, S) \in Nat
  BY <1>3, <1>5, TotalIsNat
<1>8. CASE KeyOf(e) \in K
  <2>1. n + 1 \in T /\ T \ {n + 1} = S /\ \A x \in T : g[x] \in Nat
    BY <1>3, <1>4, <1>5, <1>8
  <2>2. TotalOf(g, T) = g[n + 1] + TotalOf(g, T \ {n + 1})
    BY <1>5, <2>1, TotalTakesOut
  <2>3. TotalOf(g, T) = e.frequency + TotalOf(f, S) /\ e.frequency \in Nat
    BY <1>3, <1>6, <2>1, <2>2 DEF Issue
  <2>4. TotalOf(g, T) = TotalOf(f, S) + e.frequency
    <3> DEFINE a == TotalOf(g, T)
               b == TotalOf(f, S)
               c == e.frequency
    <3>1. a = c + b /\ b \in Nat /\ c \in Nat
      BY <1>7, <2>3
    <3> HIDE DEF a, b, c
    <3>2. a = b + c
      BY <3>1
    <3>3. QED
      BY <3>2 DEF a, b, c
  <2>5. QED
    BY <1>1, <1>8, <2>4 DEF Share, d, f, g, S, T
<1>9. CASE KeyOf(e) \notin K
  <2>1. TotalOf(g, T) = TotalOf(f, S) + 0
    <3>1. T = S
      BY <1>4, <1>9
    <3> DEFINE b == TotalOf(f, S)
    <3>2. b + 0 = b
      <4>1. b \in Nat
        BY <1>7
      <4> HIDE DEF b
      <4>2. QED
        BY <4>1
    <3>3. QED
      BY <1>6, <3>1, <3>2
  <2>2. QED
    BY <1>1, <1>9, <2>1 DEF Share, d, f, g, S, T
<1>10. QED
  BY <1>8, <1>9

\* An issue of larger frequency.
Raise(list, i, by) == [list EXCEPT ![i].frequency = @ + by]

LEMMA ShareRaise ==
    ASSUME NEW list \in Issues, NEW i \in 1..Len(list), NEW by \in Nat, NEW K
    PROVE  LET d == Raise(list, i, by) IN
           /\ d \in Issues /\ Len(d) = Len(list)
           /\ \A j \in 1..Len(list) : KeyOf(d[j]) = KeyOf(list[j])
           /\ Share(d, K) = Share(list, K) + IF KeyOf(list[i]) \in K THEN by ELSE 0
<1> DEFINE n == Len(list)
           d == [list EXCEPT ![i].frequency = @ + by]
           x == [list[i] EXCEPT !.frequency = @ + by]
           f == Frequencies(list)
           g == Frequencies(d)
           S == {j \in DOMAIN list : KeyOf(list[j]) \in K}
           T == {j \in DOMAIN d : KeyOf(d[j]) \in K}
<1>1. n \in Nat /\ DOMAIN list = 1..n /\ list \in [1..n -> Issue] /\ list[i] \in Issue
  BY ListFacts DEF Issues
<1>2. x \in Issue /\ x.type = list[i].type /\ x.description = list[i].description
      /\ x.frequency = list[i].frequency + by
  BY <1>1 DEF Issue
<1>3. d = [list EXCEPT ![i] = x]
  OBVIOUS
<1> HIDE DEF x
<1>4. /\ d \in [1..n -> Issue] /\ d[i] = x /\ \A j \in 1..n : j # i => d[j] = list[j]
  <2> HIDE DEF d
  <2>1. QED
    BY <1>1, <1>2, <1>3
<1> HIDE DEF d
<1>5. d \in Issues /\ Len(d) = n /\ DOMAIN d = 1..n
  BY <1>1, <1>4 DEF Issues
<1>6. \A j \in 1..n : KeyOf(d[j]) = KeyOf(list[j])
  BY <1>2, <1>4 DEF KeyOf
<1>7. T = S
  BY <1>1, <1>5, <1>6
<1>8. /\ \A j \in 1..n : f[j] \in Nat /\ g[j] \in Nat /\ (j # i => g[j] = f[j])
      /\ g[i] = f[i] + by
  BY <1>1, <1>2, <1>4, <1>5, ListFacts
<1>9. IsFiniteSet(S) /\ S \subseteq 1..n
  <2>1. S \subseteq 1..n
    BY <1>1
  <2> HIDE DEF S
  <2>2. QED
    BY <2>1, ListFacts
<1>10. i \in S <=> KeyOf(list[i]) \in K
  BY <1>1
<1> HIDE DEF f, g, S, T
<1>11. TotalOf(f, S) \in Nat
  BY <1>8, <1>9, TotalIsNat
<1>12. CASE KeyOf(list[i]) \in K
  <2>1. /\ TotalOf(f, S) = f[i] + TotalOf(f, S \ {i}) /\ TotalOf(g, S) = g[i] + TotalOf(g, S \ {i})
    <3>1. (\A j \in S : f[j] \in Nat) /\ (\A j \in S : g[j] \in Nat) /\ i \in S
      BY <1>8, <1>9, <1>10, <1>12
    <3>2. QED
      BY <1>9, <3>1, TotalTakesOut
  <2>2. IsFiniteSet(S \ {i}) /\ \A j \in S \ {i} : g[j] = f[j] /\ f[j] \in Nat
    BY <1>8, <1>9, FS_Subset
  <2>3. TotalOf(g, S \ {i}) = TotalOf(f, S \ {i}) /\ TotalOf(f, S \ {i}) \in Nat
    BY <2>2, TotalsAgree, TotalIsNat
  <2> DEFINE a == TotalOf(f, S)
             b == TotalOf(g, S)
             c == TotalOf(f, S \ {i})
             k == f[i]
  <2>4. a = k + c /\ b = (k + by) + c /\ c \in Nat /\ k \in Nat
    BY <1>8, <2>1, <2>3
  <2> HIDE DEF a, b, c, k
  <2>5. b = a + by
    BY <2>4
  <2>6. TotalOf(g, S) = TotalOf(f, S) + by
    BY <2>5 DEF a, b
  <2>7. QED
    BY <1>5, <1>6, <1>7, <1>12, <2>6 DEF Share, Raise, d, f, g, S, T
<1>13. CASE KeyOf(list[i]) \notin K
  <2>1. \A j \in S : g[j] = f[j]
    BY <1>8, <1>9, <1>10, <1>13
  <2>2. TotalOf(g, S) = TotalOf(f, S)
    BY <1>9, <2>1, TotalsAgree
  <2> DEFINE a == TotalOf(f, S)
  <2>3. a + 0 = a
    <3>1. a \in Nat
      BY <1>11
    <3> HIDE DEF a
    <3>2. QED
      BY <3>1
  <2>4. TotalOf(g, S) = TotalOf(f, S) + 0
    BY <2>2, <2>3
  <2>5. QED
    BY <1>5, <1>6, <1>7, <1>13, <2>4 DEF Share, Raise, d, f, g, S, T
<1>14. QED
  BY <1>12, <1>13

\* An issue less.
Without(list, i) == SubSeq(list, 1, i - 1) \o SubSeq(list, i + 1, Len(list))

LEMMA SharePop ==
    ASSUME NEW list \in Issues, NEW i \in 1..Len(list), NEW K
    PROVE  LET d == Without(list, i) IN
           /\ d \in Issues /\ Len(d) = Len(list) - 1
           /\ \A j \in 1..(i - 1) : d[j] = list[j]
           /\ Share(list, K) = Share(d, K) + IF KeyOf(list[i]) \in K THEN list[i].frequency ELSE 0
<1> DEFINE n == Len(list)
           a == SubSeq(list, 1, i - 1)
           b == SubSeq(list, i + 1, n)
           d == a \o b
           f == Frequencies(list)
           g == Frequencies(d)
           S == {j \in DOMAIN list : KeyOf(list[j]) \in K}
           T == {j \in DOMAIN d : KeyOf(d[j]) \in K}
           U == S \ {i}
<1>1. n \in Nat /\ DOMAIN list = 1..n /\ i \in Nat /\ \A j \in 1..n : list[j] \in Issue
  BY ListFacts
<1>2. /\ a \in Seq(Issue) /\ Len(a) = i - 1 /\ \A j \in 1..(i - 1) : a[j] = list[j]
  <2>1. \A j \in 1..(i - 1) : list[j] \in Issue
    BY <1>1
  <2>2. QED
    BY <1>1, <2>1, SubSeqProperties
<1>3. /\ b \in Seq(Issue) /\ Len(b) = n - i /\ \A j \in 1..(n - i) : b[j] = list[i + j]
  <2>1. \A j \in (i + 1)..n : list[j] \in Issue
    BY <1>1
  <2>2. /\ b \in Seq(Issue) /\ Len(b) = (IF i + 1 <= n THEN n - (i + 1) + 1 ELSE 0)
        /\ \A j \in 1..(n - (i + 1) + 1) : b[j] = list[i + 1 + j - 1]
    BY <1>1, <2>1, SubSeqProperties
  <2>3. Len(b) = n - i
    <3> DEFINE m == Len(b)
    <3>1. m = (IF i + 1 <= n THEN n - (i + 1) + 1 ELSE 0) /\ i \in 1..n
      BY <2>2
    <3> HIDE DEF m, n
    <3>2. m = n - i
      BY <1>1, <3>1
    <3>3. QED
      BY <3>2 DEF m
  <2>4. ASSUME NEW j \in 1..(n - i) PROVE b[j] = list[i + j]
    <3>1. j \in 1..(n - (i + 1) + 1) /\ i + 1 + j - 1 = i + j
      BY <1>1
    <3>2. b[j] = list[i + 1 + j - 1]
      BY <2>2, <3>1
    <3>3. QED
      BY <3>1, <3>2
  <2>5. QED
    BY <2>2, <2>3, <2>4
<1> HIDE DEF a, b
<1>4. /\ d \in Seq(Issue) /\ Len(d) = n - 1
      /\ \A j \in 1..(n - 1) : d[j] = IF j < i THEN list[j] ELSE list[j + 1]
  <2>1. /\ d \in Seq(Issue) /\ Len(d) = (i - 1) + (n - i)
        /\ \A j \in 1..((i - 1) + (n - i)) : d[j] = IF j <= i - 1 THEN a[j] ELSE b[j - (i - 1)]
    <3>1. /\ d \in Seq(Issue) /\ Len(d) = Len(a) + Len(b)
          /\ \A j \in 1..(Len(a) + Len(b)) : d[j] = IF j <= Len(a) THEN a[j] ELSE b[j - Len(a)]
      BY <1>2, <1>3, ConcatProperties
    <3> HIDE DEF d
    <3>2. QED
      BY <1>2, <1>3, <3>1
  <2>2. (i - 1) + (n - i) = n - 1
    BY <1>1
  <2> HIDE DEF d
  <2>3. ASSUME NEW j \in 1..(n - 1) PROVE d[j] = IF j < i THEN list[j] ELSE list[j + 1]
    <3>1. d[j] = IF j <= i - 1 THEN a[j] ELSE b[j - (i - 1)]
      BY <2>1, <2>2
    <3>2. CASE j < i
      <4>1. j <= i - 1 /\ j \in 1..(i - 1)
        BY <1>1, <3>2
      <4>2. QED
        BY <1>2, <3>1, <3>2, <4>1
    <3>3. CASE ~ (j < i)
      <4>1. ~ (j <= i - 1) /\ j - (i - 1) \in 1..(n - i) /\ i + (j - (i - 1)) = j + 1
        BY <1>1, <3>3
      <4>2. b[j - (i - 1)] = list[i + (j - (i - 1))]
        BY <1>3, <4>1
      <4>3. QED
        BY <3>1, <3>3, <4>1, <4>2
    <3>4. QED
      BY <3>2, <3>3
  <2>4. QED
    BY <2>1, <2>2, <2>3
<1> HIDE DEF d
<1>5. d \in Issues /\ DOMAIN d = 1..(n - 1)
  BY <1>1, <1>4 DEF Issues
<1>6. /\ \A j \in 1..n : f[j] = list[j].frequency /\ f[j] \in Nat
      /\ \A j \in 1..(n - 1) : g[j] = d[j].frequency /\ g[j] \in Nat
  BY <1>4, <1>5, ListFacts
<1>7. /\ \A j : j \in T <=> j \in 1..(n - 1) /\ KeyOf(d[j]) \in K
      /\ \A j : j \in S <=> j \in 1..n /\ KeyOf(list[j]) \in K
      /\ \A j : j \in U <=> j \in 1..n /\ j # i /\ KeyOf(list[j]) \in K
  BY <1>1, <1>5
<1>8. IsFiniteSet(S) /\ IsFiniteSet(T) /\ IsFiniteSet(U)
  <2>1. S \subseteq 1..n /\ T \subseteq 1..(n - 1) /\ U \subseteq 1..n
    BY <1>7
  <2>2. IsFiniteSet(1..n) /\ IsFiniteSet(1..(n - 1))
    BY <1>1, FS_Interval
  <2> HIDE DEF S, T, U
  <2>3. QED
    BY <2>1, <2>2, FS_Subset
<1> HIDE DEF f, g, S, T
<1>9. TotalOf(f, U) = TotalOf(g, T)
  <2> HIDE DEF U
  <2> DEFINE h == [j \in T |-> IF j < i THEN j ELSE j + 1]
             k == [j \in U |-> IF j < i THEN j ELSE j - 1]
  <2>1. /\ h \in [T -> U] /\ (\A x, y \in T : h[x] = h[y] => x = y) /\ \A x \in T : g[x] <= f[h[x]]
    <3>1. ASSUME NEW j \in T
          PROVE  h[j] \in U /\ g[j] <= f[h[j]]
      <4>1. j \in 1..(n - 1) /\ KeyOf(d[j]) \in K
        BY <1>7
      <4>2. CASE j < i
        <5>1. h[j] = j /\ j \in 1..n /\ j # i /\ d[j] = list[j]
          BY <1>1, <1>4, <4>1, <4>2
        <5>2. g[j] = f[j] /\ f[j] \in Nat
          BY <1>6, <4>1, <5>1
        <5>3. QED
          BY <1>7, <4>1, <5>1, <5>2
      <4>3. CASE ~ (j < i)
        <5>1. h[j] = j + 1 /\ j + 1 \in 1..n /\ j + 1 # i /\ d[j] = list[j + 1]
          BY <1>1, <1>4, <4>1, <4>3
        <5>2. g[j] = f[j + 1] /\ f[j + 1] \in Nat
          BY <1>6, <4>1, <5>1
        <5>3. QED
          BY <1>7, <4>1, <5>1, <5>2
      <4>4. QED
        BY <4>2, <4>3
    <3>2. ASSUME NEW x \in T, NEW y \in T, h[x] = h[y] PROVE x = y
      <4>1. x \in Int /\ y \in Int /\ i \in Int
        BY <1>1, <1>7
      <4>2. h[x] = (IF x < i THEN x ELSE x + 1) /\ h[y] = (IF y < i THEN y ELSE y + 1)
        OBVIOUS
      <4> DEFINE hx == h[x]
                 hy == h[y]
      <4>3. hx = (IF x < i THEN x ELSE x + 1) /\ hy = (IF y < i THEN y ELSE y + 1) /\ hx = hy
        BY <3>2, <4>2
      <4> HIDE DEF hx, hy
      <4>4. QED
        BY ONLY <4>1, <4>3
    <3>3. h = [j \in T |-> h[j]]
      OBVIOUS
    <3> HIDE DEF h
    <3>4. QED
      BY <3>1, <3>2, <3>3
  <2>2. /\ k \in [U -> T] /\ (\A x, y \in U : k[x] = k[y] => x = y) /\ \A x \in U : f[x] <= g[k[x]]
    <3>1. ASSUME NEW j \in U
          PROVE  k[j] \in T /\ f[j] <= g[k[j]]
      <4>1. j \in 1..n /\ j # i /\ KeyOf(list[j]) \in K
        BY <1>7
      <4>2. CASE j < i
        <5>1. k[j] = j /\ j \in 1..(n - 1) /\ d[j] = list[j]
          BY <1>1, <1>4, <4>1, <4>2, SMTT(30)
        <5>2. g[j] = f[j] /\ f[j] \in Nat
          BY <1>6, <4>1, <5>1
        <5>3. QED
          BY <1>7, <4>1, <5>1, <5>2
      <4>3. CASE ~ (j < i)
        <5>1. k[j] = j - 1 /\ j - 1 \in 1..(n - 1) /\ ~ (j - 1 < i) /\ (j - 1) + 1 = j
          BY <1>1, <4>1, <4>3
        <5>2. d[j - 1] = list[j]
          BY <1>4, <5>1
        <5>3. g[j - 1] = f[j] /\ f[j] \in Nat
          BY <1>6, <4>1, <5>1, <5>2
        <5>4. QED
          BY <1>7, <4>1, <5>1, <5>2, <5>3
      <4>4. QED
        BY <4>2, <4>3
    <3>2. ASSUME NEW x \in U, NEW y \in U, k[x] = k[y] PROVE x = y
      <4>1. x \in Int /\ y \in Int /\ i \in Int /\ x # i /\ y # i
        BY <1>1, <1>7
      <4>2. k[x] = (IF x < i THEN x ELSE x - 1) /\ k[y] = (IF y < i THEN y ELSE y - 1)
        OBVIOUS
      <4> DEFINE hx == k[x]
                 hy == k[y]
      <4>3. hx = (IF x < i THEN x ELSE x - 1) /\ hy = (IF y < i THEN y ELSE y - 1) /\ hx = hy
        BY <3>2, <4>2
      <4> HIDE DEF hx, hy
      <4>4. QED
        BY ONLY <4>1, <4>3
    <3>3. k = [j \in U |-> k[j]]
      OBVIOUS
    <3> HIDE DEF k
    <3>4. QED
      BY <3>1, <3>2, <3>3
  <2> HIDE DEF h, k
  <2>3. (\A x \in T : g[x] \in Nat) /\ (\A x \in U : f[x] \in Nat)
    BY <1>6, <1>7
  <2>4. TotalOf(g, T) <= TotalOf(f, U) /\ TotalOf(f, U) <= TotalOf(g, T)
    BY <1>8, <2>1, <2>2, <2>3, TotalInjected
  <2>5. TotalOf(g, T) \in Nat /\ TotalOf(f, U) \in Nat
    BY <1>8, <2>3, TotalIsNat
  <2> DEFINE p == TotalOf(g, T)
             q == TotalOf(f, U)
  <2>6. p <= q /\ q <= p /\ p \in Nat /\ q \in Nat
    BY <2>4, <2>5
  <2> HIDE DEF p, q
  <2>7. p = q
    BY <2>6
  <2>8. QED
    BY <2>7 DEF p, q
<1>10. TotalOf(g, T) \in Nat
  BY <1>6, <1>7, <1>8, TotalIsNat
<1>11. TotalOf(f, S) = TotalOf(g, T) + IF KeyOf(list[i]) \in K THEN list[i].frequency ELSE 0
  <2>1. CASE KeyOf(list[i]) \in K
    <3>1. i \in S /\ \A x \in S : f[x] \in Nat
      BY <1>6, <1>7, <2>1
    <3>2. TotalOf(f, S) = f[i] + TotalOf(f, S \ {i})
      BY <1>8, <3>1, TotalTakesOut
    <3> DEFINE p == TotalOf(f, S)
               q == TotalOf(g, T)
               c == list[i].frequency
    <3>3. p = c + q /\ c \in Nat /\ q \in Nat
      BY <1>6, <1>9, <1>10, <3>2
    <3> HIDE DEF p, q, c
    <3>4. p = q + c
      BY <3>3
    <3>5. QED
      BY <2>1, <3>4 DEF p, q, c
  <2>2. CASE KeyOf(list[i]) \notin K
    <3>1. U = S
      BY <1>7, <2>2
    <3> DEFINE q == TotalOf(g, T)
    <3>2. q + 0 = q
      <4>1. q \in Nat
        BY <1>10
      <4> HIDE DEF q
      <4>2. QED
        BY <4>1
    <3>3. QED
      BY <1>9, <2>2, <3>1, <3>2
  <2>3. QED
    BY <2>1, <2>2
<1>12. \A j \in 1..(i - 1) : d[j] = list[j]
  BY <1>1, <1>4
<1>13. QED
  BY <1>4, <1>5, <1>11, <1>12 DEF Share, Without, a, b, d, f, g, S, T

\* A key is listed when some frequency is of it.
LEMMA ListedShare ==
    ASSUME NEW list \in Issues, NEW K
    PROVE  /\ Share(list, K) # 0 <=> \E key \in Keys(list) : key \in K
           /\ \A i \in 1..Len(list) : KeyOf(list[i]) \in K => list[i].frequency <= Share(list, K)
<1> DEFINE S == {i \in DOMAIN list : KeyOf(list[i]) \in K}
           f == Frequencies(list)
<1>1. /\ \A i : i \in S <=> i \in 1..Len(list) /\ KeyOf(list[i]) \in K
      /\ S \subseteq 1..Len(list)
  BY ListFacts
<1>2. IsFiniteSet(S) /\ \A i \in S : f[i] \in Nat /\ f[i] # 0 /\ f[i] = list[i].frequency
  <2> HIDE DEF S
  <2>1. QED
    BY <1>1, ListFacts
<1>3. (\E key \in Keys(list) : key \in K) <=> S # {}
  BY DEF Keys
<1>4. Share(list, K) = TotalOf(f, S)
  BY DEF Share
<1> HIDE DEF S, f
<1>5. ASSUME NEW i \in S
      PROVE  TotalOf(f, S) # 0 /\ list[i].frequency <= TotalOf(f, S)
  <2>1. TotalOf(f, S) = f[i] + TotalOf(f, S \ {i})
    BY <1>2, TotalTakesOut
  <2>2. IsFiniteSet(S \ {i}) /\ \A x \in S \ {i} : f[x] \in Nat
    BY <1>2, FS_Subset
  <2>3. TotalOf(f, S \ {i}) \in Nat
    BY <2>2, TotalIsNat
  <2> DEFINE a == TotalOf(f, S)
             b == TotalOf(f, S \ {i})
             c == f[i]
  <2>4. a = c + b /\ b \in Nat /\ c \in Nat /\ c # 0 /\ c = list[i].frequency
    BY <1>2, <2>1, <2>3
  <2> HIDE DEF a, b, c
  <2>5. a # 0 /\ list[i].frequency <= a
    BY <2>4
  <2>6. QED
    BY <2>5 DEF a
<1>6. S = {} => TotalOf(f, S) = 0
  BY EmptyTotal
<1>7. QED
  BY <1>1, <1>3, <1>4, <1>5, <1>6

LEMMA ListedKey ==
    ASSUME NEW list \in Issues, NEW key
    PROVE  key \in Keys(list) <=> Share(list, {key}) # 0
<1>1. Share(list, {key}) # 0 <=> \E k \in Keys(list) : k \in {key}
  BY ListedShare
<1>2. QED
  BY <1>1

\* The keys of issues of a type.
OfType(t) == {t} \X Descriptions

LEMMA FrequencyIsShare ==
    ASSUME NEW list \in Issues
    PROVE  /\ \A key : Frequency(list, key) = Share(list, {key})
           /\ \A t : TypeFrequency(list, t) = Share(list, OfType(t))
<1>1. ASSUME NEW key PROVE Frequency(list, key) = Share(list, {key})
  <2>1. {i \in DOMAIN list : KeyOf(list[i]) = key} = {i \in DOMAIN list : KeyOf(list[i]) \in {key}}
    OBVIOUS
  <2>2. QED
    BY <2>1 DEF Frequency, Share
<1>2. ASSUME NEW t PROVE TypeFrequency(list, t) = Share(list, OfType(t))
  <2>1. \A i \in DOMAIN list : list[i].type = t <=> KeyOf(list[i]) \in OfType(t)
    BY ListFacts DEF OfType, KeyOf, Issue
  <2>2. {i \in DOMAIN list : list[i].type = t} = {i \in DOMAIN list : KeyOf(list[i]) \in OfType(t)}
    BY <2>1
  <2>3. QED
    BY <2>2 DEF TypeFrequency, Share
<1>3. QED
  BY <1>1, <1>2

\* The last index of a key.
LEMMA LastIndexIs ==
    ASSUME NEW list \in Issues, NEW key
    PROVE  /\ LastIndex(list, key) \in 0..Len(list)
           /\ LastIndex(list, key) # 0 => KeyOf(list[LastIndex(list, key)]) = key
           /\ LastIndex(list, key) = 0 <=> key \notin Keys(list)
<1> DEFINE I == {i \in 1..Len(list) : KeyOf(list[i]) = key}
<1>1. LastIndex(list, key) = IF I # {} THEN Max(I) ELSE 0
  BY DEF LastIndex, SelectLastInSeq
<1>2. I \in SUBSET Int /\ IsFiniteSet(I)
  <2>1. I \in SUBSET (1..Len(list)) /\ Len(list) \in Nat
    BY ListFacts
  <2> HIDE DEF I
  <2>2. QED
    BY <2>1, ListFacts
<1>3. I # {} => Max(I) \in I
  <2> HIDE DEF I
  <2>1. QED
    BY <1>2, MaxIsIn
<1>4. I # {} <=> key \in Keys(list)
  BY ListFacts DEF Keys
<1>5. \A i \in I : i \in 1..Len(list) /\ KeyOf(list[i]) = key
  OBVIOUS
<1>6. Len(list) \in Nat
  BY ListFacts
<1> HIDE DEF I
<1>7. CASE I # {}
  <2>1. LastIndex(list, key) \in 1..Len(list) /\ KeyOf(list[LastIndex(list, key)]) = key
    BY <1>1, <1>3, <1>5, <1>7
  <2>2. QED
    BY <1>4, <1>6, <1>7, <2>1
<1>8. CASE I = {}
  BY <1>1, <1>4, <1>6, <1>8
<1>9. QED
  BY <1>7, <1>8

\* In a list in which nothing is listed twice, an index is that of its key.
LEMMA DistinctKeys ==
    ASSUME NEW list \in Issues, Distinct(list)
    PROVE  /\ \A i, j \in 1..Len(list) : KeyOf(list[i]) = KeyOf(list[j]) => i = j
           /\ \A i \in 1..Len(list) : LastIndex(list, KeyOf(list[i])) = i
           /\ \A i \in 1..Len(list) : Share(list, {KeyOf(list[i])}) = list[i].frequency
<1> DEFINE n == Len(list)
           f == [i \in 1..n |-> KeyOf(list[i])]
<1>1. n \in Nat /\ DOMAIN list = 1..n
  BY ListFacts
<1>2. \A i, j \in 1..n : KeyOf(list[i]) = KeyOf(list[j]) => i = j
  <2>1. f \in Surjection(1..n, Keys(list))
    BY <1>1 DEF Surjection, Keys
  <2>2. IsFiniteSet(1..n) /\ Cardinality(1..n) = n
    <3> HIDE DEF n
    <3>1. QED
      BY <1>1, FS_Interval
  <2>3. Cardinality(Keys(list)) = Cardinality(1..n)
    BY <2>2 DEF Distinct
  <2> HIDE DEF f
  <2>4. f \in Injection(1..n, Keys(list))
    BY <2>1, <2>2, <2>3, FS_Surjection
  <2>5. QED
    BY <2>4 DEF Injection, IsInjective, f
<1>3. ASSUME NEW i \in 1..n PROVE LastIndex(list, KeyOf(list[i])) = i
  <2> DEFINE l == LastIndex(list, KeyOf(list[i]))
  <2>1. KeyOf(list[i]) \in Keys(list)
    BY <1>1 DEF Keys
  <2>2. l \in 0..n /\ l # 0 /\ KeyOf(list[l]) = KeyOf(list[i])
    BY <2>1, LastIndexIs
  <2>3. l \in 1..n
    BY <1>1, <2>2
  <2> HIDE DEF l
  <2>4. QED
    BY <1>2, <2>2, <2>3 DEF l
<1>4. ASSUME NEW i \in 1..n PROVE Share(list, {KeyOf(list[i])}) = list[i].frequency
  <2> DEFINE S == {j \in DOMAIN list : KeyOf(list[j]) \in {KeyOf(list[i])}}
             g == Frequencies(list)
  <2>1. S = {i}
    BY <1>1, <1>2
  <2>2. g[i] = list[i].frequency /\ g[i] \in Nat /\ IsFiniteSet({i})
    BY <1>1, ListFacts, FS_Singleton
  <2> HIDE DEF g
  <2>3. TotalOf(g, {i}) = g[i] + TotalOf(g, {i} \ {i})
    <3>1. \A x \in {i} : g[x] \in Nat
      BY <2>2
    <3> DEFINE s == {i}
    <3>2. IsFiniteSet(s) /\ i \in s /\ \A x \in s : g[x] \in Nat
      BY <2>2, <3>1
    <3> HIDE DEF s
    <3>3. TotalOf(g, s) = g[i] + TotalOf(g, s \ {i})
      BY <3>2, TotalTakesOut
    <3>4. QED
      BY <3>3 DEF s
  <2>4. TotalOf(g, {i} \ {i}) = 0
    <3>1. {i} \ {i} = {}
      OBVIOUS
    <3>2. QED
      BY <3>1, EmptyTotal
  <2>5. TotalOf(g, {i}) = g[i]
    <3> DEFINE a == TotalOf(g, {i})
               b == g[i]
    <3>1. a = b + 0 /\ b \in Nat
      BY <2>2, <2>3, <2>4
    <3> HIDE DEF a, b
    <3>2. a = b
      BY <3>1
    <3>3. QED
      BY <3>2 DEF a, b
  <2>6. QED
    BY <2>1, <2>2, <2>5 DEF Share, g
<1>5. QED
  BY <1>2, <1>3, <1>4

-----------------------------------------------------------------------------
(* The merge: lists are issues, or Raised.                                 *)

Lists == Issues \cup {Raised}

LEMMA RaisedIsNone == Raised \notin Issues
<1>1. Raised \in Issues => Raised[1] \in Issue
  BY DEF Raised, Issues
<1>2. Raised[1].type = "raised"
  BY DEF Raised
<1>3. QED
  BY <1>1, <1>2, ActorsAssumption DEF Issue

\* The indices of a list, the last first.
Downwards(list) == [j \in DOMAIN list |-> Len(list) + 1 - j]

LEMMA DownwardsIs ==
    ASSUME NEW list \in Issues
    PROVE  /\ Downwards(list) \in Seq(1..Len(list)) /\ Len(Downwards(list)) = Len(list)
           /\ \A k \in 1..Len(list) : Downwards(list)[k] = Len(list) + 1 - k
<1> DEFINE n == Len(list)
<1>1. n \in Nat /\ DOMAIN list = 1..n
  BY ListFacts
<1> HIDE DEF n
<1>2. Downwards(list) = [j \in 1..n |-> n + 1 - j]
  BY <1>1 DEF Downwards, n
<1>3. \A j \in 1..n : n + 1 - j \in 1..n
  BY <1>1
<1>4. Downwards(list) \in [1..n -> 1..n]
  BY <1>2, <1>3
<1>5. Downwards(list) \in Seq(1..n) /\ Len(Downwards(list)) = n
  BY <1>1, <1>4
<1>6. QED
  BY <1>2, <1>5 DEF n

LEMMA MentionsIsNat ==
    ASSUME NEW list \in Issues, NEW resolved \in Issues, NEW i
    PROVE  Mentions(list, resolved, i) \in Nat
<1> DEFINE M == {k \in DOMAIN resolved : LastIndex(list, KeyOf(resolved[k])) = i}
<1>1. M \in SUBSET (1..Len(resolved))
  BY ListFacts
<1> HIDE DEF M
<1>2. IsFiniteSet(M)
  BY <1>1, ListFacts
<1>3. QED
  BY <1>2, FS_CardinalityType DEF Mentions, M

LEMMA PopType ==
    ASSUME NEW l \in Lists, NEW i \in Nat \ {0}, NEW n \in Nat
    PROVE  Pop(l, i, n) \in Lists
<1>1. CASE n = 0
  BY <1>1 DEF Pop
<1>2. CASE l = Raised \/ i + n - 1 > Len(l)
  BY <1>2 DEF Pop, Lists
<1>3. CASE n # 0 /\ ~ (l = Raised \/ i + n - 1 > Len(l))
  <2>1. l \in Issues
    BY <1>3 DEF Lists
  <2>2. Len(l) \in Nat /\ \A j \in 1..Len(l) : l[j] \in Issue
    BY <2>1, ListFacts
  <2>3. i + n - 1 <= Len(l)
    BY <1>3, <2>2
  <2>4. SubSeq(l, 1, i - 1) \in Seq(Issue)
    <3>1. \A j \in 1..(i - 1) : l[j] \in Issue
      BY <1>3, <2>2, <2>3
    <3>2. QED
      BY <3>1, SubSeqProperties
  <2>5. SubSeq(l, i + n, Len(l)) \in Seq(Issue)
    <3>1. \A j \in (i + n)..Len(l) : l[j] \in Issue
      BY <2>2
    <3>2. QED
      BY <2>2, <3>1, SubSeqProperties
  <2>6. Pop(l, i, n) = SubSeq(l, 1, i - 1) \o SubSeq(l, i + n, Len(l))
    BY <1>3 DEF Pop
  <2>7. QED
    BY <2>4, <2>5, <2>6, ConcatProperties, ZenonT(40) DEF Lists, Issues
<1>4. QED
  BY <1>1, <1>2, <1>3

\* The pops of a merge, folded over the indices.
PopFolds(list, resolved, f) ==
    f = [T \in SUBSET DOMAIN Downwards(list) |->
          IF T = {} THEN list
          ELSE Pop(f[T \ {Max(T)}], Downwards(list)[Max(T)],
                   Mentions(list, resolved, Downwards(list)[Max(T)]))]

LEMMA PopFoldDef ==
    ASSUME NEW list, NEW resolved
    PROVE  Remaining(list, resolved) = (CHOOSE f : PopFolds(list, resolved, f))[DOMAIN Downwards(list)]
BY DEF Remaining, FoldLeft, MapThenFoldSet, PopFolds, Downwards

LEMMA PopRuns ==
    ASSUME NEW list \in Issues, NEW resolved \in Issues
    PROVE  \E p : /\ p = [k \in 0..Len(list) |-> p[k]] /\ p[0] = list
                  /\ \A k \in 1..Len(list) :
                       p[k] = Pop(p[k - 1], Len(list) + 1 - k, Mentions(list, resolved, Len(list) + 1 - k))
                  /\ Remaining(list, resolved) = p[Len(list)]
<1> DEFINE n == Len(list)
           s == Downwards(list)
           Op(l, i) == Pop(l, i, Mentions(list, resolved, i))
           op == [x \in Lists \X (1..n) |-> Op(x[1], x[2])]
<1>1. n \in Nat /\ s \in Seq(1..n) /\ Len(s) = n /\ \A k \in 1..n : s[k] = n + 1 - k
  BY ListFacts, DownwardsIs
<1> HIDE DEF n, s
<1>2. list \in Lists /\ DOMAIN s = 1..n
  BY <1>1 DEF Lists
<1>3. op \in [Lists \X (1..n) -> Lists]
  <2>1. \A l \in Lists, i \in 1..n : Op(l, i) \in Lists
    BY <1>1, PopType, MentionsIsNat
  <2> HIDE DEF Op
  <2>2. QED
    BY <2>1
<1> HIDE DEF Op
<1>4. \A l \in Lists, i \in 1..n : op[<<l, i>>] = Op(l, i)
  OBVIOUS
<1> HIDE DEF op
<1>5. PICK g : FoldsBy(op, list, s, Lists, 1..n, g)
  BY <1>1, <1>2, <1>3, FoldExists
<1>6. ASSUME NEW T \in SUBSET DOMAIN s
      PROVE  g[T] = IF T = {} THEN list ELSE Op(g[T \ {Max(T)}], s[Max(T)])
  BY <1>4, <1>5 DEF FoldsBy
<1>7. PopFolds(list, resolved, g)
  BY <1>5, <1>6 DEF PopFolds, FoldsBy, Op, s
<1> DEFINE f == CHOOSE f : PopFolds(list, resolved, f)
<1>8. PopFolds(list, resolved, f) /\ Remaining(list, resolved) = f[1..n]
  BY <1>2, <1>7, PopFoldDef DEF s
<1> HIDE DEF f
<1> DEFINE p == [k \in 0..n |-> f[1..k]]
<1>9. \A T \in SUBSET DOMAIN s : f[T] = IF T = {} THEN list ELSE Op(f[T \ {Max(T)}], s[Max(T)])
  BY <1>8 DEF PopFolds, Op, s
<1>10. p[0] = list
  <2>1. 0 \in 0..n /\ 1..0 = {}
    BY <1>1
  <2>2. QED
    BY <1>9, <2>1
<1>11. ASSUME NEW k \in 1..n PROVE p[k] = Op(p[k - 1], n + 1 - k)
  <2>1. k \in Nat /\ k # 0 /\ k \in 0..n /\ k - 1 \in 0..n /\ 1..k \in SUBSET DOMAIN s /\ s[k] = n + 1 - k
    BY <1>1, <1>2
  <2>2. 1..k # {} /\ Max(1..k) = k /\ (1..k) \ {Max(1..k)} = 1..(k - 1)
    BY <2>1, LastOfPrefix
  <2>3. f[1..k] = Op(f[1..(k - 1)], s[k])
    BY <1>9, <2>1, <2>2
  <2>4. QED
    BY <2>1, <2>3
<1>12. Remaining(list, resolved) = p[n]
  BY <1>1, <1>8
<1>13. p = [k \in 0..n |-> p[k]]
  OBVIOUS
<1> HIDE DEF p
<1>14. QED
  BY <1>10, <1>11, <1>12, <1>13 DEF n, Op

\* New issues, folded.
AddFolds(before, base, new, f) ==
    f = [T \in SUBSET DOMAIN new |->
          IF T = {} THEN base ELSE AddIssue(before, f[T \ {Max(T)}], new[Max(T)])]

AddAll(before, base, new) == (CHOOSE f : AddFolds(before, base, new, f))[DOMAIN new]

LEMMA AddFoldDef ==
    ASSUME NEW list, NEW new, NEW resolved
    PROVE  process_issues(list, new, resolved) = AddAll(list, Remaining(list, resolved), new)
BY DEF process_issues, FoldLeft, MapThenFoldSet, AddFolds, AddAll

LEMMA AddType ==
    ASSUME NEW before \in Issues, NEW l \in Lists, NEW e \in Issue
    PROVE  AddIssue(before, l, e) \in Lists
<1> DEFINE i == LastIndex(before, KeyOf(e))
<1>1. i \in Nat
  BY LastIndexIs, ListFacts
<1>2. AddIssue(before, l, e) =
        IF l = Raised THEN Raised
        ELSE IF i = 0 THEN Append(l, e)
        ELSE IF i > Len(l) THEN Raised
        ELSE [l EXCEPT ![i].frequency = @ + e.frequency]
  BY DEF AddIssue
<1>3. e.frequency \in Nat
  BY DEF Issue
<1> HIDE DEF i
<1>4. CASE l = Raised \/ (i # 0 /\ i > Len(l))
  BY <1>2, <1>4 DEF Lists
<1>5. CASE l # Raised /\ i = 0
  <2>1. Append(l, e) \in Issues
    BY <1>5, ShareAppend DEF Lists
  <2>2. QED
    BY <1>2, <1>5, <2>1 DEF Lists
<1>6. CASE l # Raised /\ i # 0 /\ ~ (i > Len(l))
  <2>1. l \in Issues /\ i \in 1..Len(l)
    <3>1. l \in Issues
      BY <1>6 DEF Lists
    <3>2. Len(l) \in Nat
      BY <3>1, ListFacts
    <3>3. QED
      BY <1>1, <1>6, <3>1, <3>2
  <2>2. [l EXCEPT ![i].frequency = @ + e.frequency] \in Issues
    BY <1>3, <2>1, ShareRaise DEF Raise
  <2>3. QED
    BY <1>2, <1>6, <2>2 DEF Lists
<1>7. QED
  BY <1>4, <1>5, <1>6

LEMMA AddRuns ==
    ASSUME NEW before \in Issues, NEW base \in Lists, NEW new \in Issues
    PROVE  \E p : /\ p = [k \in 0..Len(new) |-> p[k]] /\ p[0] = base
                  /\ \A k \in 1..Len(new) : p[k] = AddIssue(before, p[k - 1], new[k])
                  /\ AddAll(before, base, new) = p[Len(new)]
<1> DEFINE n == Len(new)
           op == [x \in Lists \X Issue |-> AddIssue(before, x[1], x[2])]
           all == AddAll(before, base, new)
<1>1. n \in Nat /\ DOMAIN new = 1..n /\ new \in Seq(Issue)
  BY ListFacts DEF Issues
<1>2. op \in [Lists \X Issue -> Lists]
  BY AddType
<1>3. \A l \in Lists, e \in Issue : op[<<l, e>>] = AddIssue(before, l, e)
  OBVIOUS
<1> HIDE DEF op
<1>4. PICK g : FoldsBy(op, base, new, Lists, Issue, g)
  BY <1>1, <1>2, FoldExists
<1>5. ASSUME NEW T \in SUBSET DOMAIN new
      PROVE  g[T] = IF T = {} THEN base ELSE AddIssue(before, g[T \ {Max(T)}], new[Max(T)])
  BY <1>3, <1>4 DEF FoldsBy
<1>6. AddFolds(before, base, new, g)
  BY <1>4, <1>5 DEF AddFolds, FoldsBy
<1> DEFINE f == CHOOSE f : AddFolds(before, base, new, f)
<1>7. AddFolds(before, base, new, f) /\ all = f[1..n]
  <2>1. all = f[DOMAIN new]
    BY DEF AddAll
  <2> HIDE DEF all
  <2>2. QED
    BY <1>1, <1>6, <2>1
<1> HIDE DEF f, all
<1> DEFINE p == [k \in 0..n |-> f[1..k]]
<1>8. \A T \in SUBSET DOMAIN new :
        f[T] = IF T = {} THEN base ELSE AddIssue(before, f[T \ {Max(T)}], new[Max(T)])
  BY <1>7 DEF AddFolds
<1>9. p[0] = base
  <2>1. 0 \in 0..n /\ 1..0 = {}
    BY <1>1
  <2>2. QED
    BY <1>8, <2>1
<1>10. ASSUME NEW k \in 1..n PROVE p[k] = AddIssue(before, p[k - 1], new[k])
  <2>1. k \in Nat /\ k # 0 /\ k \in 0..n /\ k - 1 \in 0..n /\ 1..k \in SUBSET DOMAIN new
    BY <1>1
  <2>2. 1..k # {} /\ Max(1..k) = k /\ (1..k) \ {Max(1..k)} = 1..(k - 1)
    BY <2>1, LastOfPrefix
  <2>3. f[1..k] = AddIssue(before, f[1..(k - 1)], new[k])
    BY <1>8, <2>1, <2>2
  <2>4. QED
    BY <2>1, <2>3
<1>11. all = p[n]
  BY <1>1, <1>7
<1>12. p = [k \in 0..n |-> p[k]]
  OBVIOUS
<1> HIDE DEF p
<1>13. QED
  BY <1>9, <1>10, <1>11, <1>12 DEF n, all

LEMMA RemainingType ==
    ASSUME NEW list \in Issues, NEW resolved \in Issues
    PROVE  Remaining(list, resolved) \in Lists
<1> DEFINE n == Len(list)
<1>1. n \in Nat /\ list \in Lists
  BY ListFacts DEF Lists
<1>2. PICK p : /\ p[0] = list
               /\ \A k \in 1..n : p[k] = Pop(p[k - 1], n + 1 - k, Mentions(list, resolved, n + 1 - k))
               /\ Remaining(list, resolved) = p[n]
  BY PopRuns
<1> HIDE DEF n
<1> DEFINE Good == {k \in 0..n : p[k] \in Lists}
<1>3. 0 \in Good /\ Good \in SUBSET (0..n) /\ n \in 0..n
  BY <1>1, <1>2
<1>4. ASSUME NEW k \in 1..n, k - 1 \in Good PROVE k \in Good
  <2>1. p[k - 1] \in Lists /\ n + 1 - k \in Nat \ {0} /\ k \in 0..n
    BY <1>1, <1>4
  <2>2. Mentions(list, resolved, n + 1 - k) \in Nat
    BY MentionsIsNat
  <2>3. QED
    BY <1>2, <2>1, <2>2, PopType
<1> HIDE DEF Good
<1>5. n \in Good
  BY <1>1, <1>3, <1>4, UpTo
<1>6. QED
  BY <1>2, <1>5 DEF Good

LEMMA MergeType ==
    ASSUME NEW list \in Issues, NEW new \in Issues, NEW resolved \in Issues
    PROVE  process_issues(list, new, resolved) \in Lists
<1> DEFINE n == Len(new)
           base == Remaining(list, resolved)
<1>1. n \in Nat /\ base \in Lists /\ \A k \in 1..n : new[k] \in Issue
  BY ListFacts, RemainingType
<1> HIDE DEF base, n
<1>2. PICK p : /\ p[0] = base /\ \A k \in 1..n : p[k] = AddIssue(list, p[k - 1], new[k])
               /\ AddAll(list, base, new) = p[n]
  BY <1>1, AddRuns DEF n
<1> DEFINE Good == {k \in 0..n : p[k] \in Lists}
<1>3. 0 \in Good /\ Good \in SUBSET (0..n) /\ n \in 0..n
  BY <1>1, <1>2
<1>4. ASSUME NEW k \in 1..n, k - 1 \in Good PROVE k \in Good
  <2>1. p[k - 1] \in Lists /\ new[k] \in Issue /\ k \in 0..n
    BY <1>1, <1>4
  <2>2. QED
    BY <1>2, <2>1, AddType
<1> HIDE DEF Good
<1>5. n \in Good
  BY <1>1, <1>3, <1>4, UpTo
<1>6. QED
  BY <1>2, <1>5, AddFoldDef DEF Good, base

LEMMA MentionsOnce ==
    ASSUME NEW list \in Issues, NEW resolved \in Issues, Distinct(list), Distinct(resolved),
           NEW i \in 1..Len(list)
    PROVE  Mentions(list, resolved, i) = IF KeyOf(list[i]) \in Keys(resolved) THEN 1 ELSE 0
<1> DEFINE M == {k \in DOMAIN resolved : LastIndex(list, KeyOf(resolved[k])) = i}
<1>1. DOMAIN resolved = 1..Len(resolved) /\ Len(list) \in Nat /\ i # 0
  BY ListFacts
<1>2. \A k : k \in M <=> k \in 1..Len(resolved) /\ KeyOf(resolved[k]) = KeyOf(list[i])
  <2>1. \A key : LastIndex(list, key) = i => KeyOf(list[i]) = key
    BY <1>1, LastIndexIs
  <2>2. LastIndex(list, KeyOf(list[i])) = i
    BY DistinctKeys
  <2>3. QED
    BY <1>1, <2>1, <2>2
<1>3. \A j, k \in 1..Len(resolved) : KeyOf(resolved[j]) = KeyOf(resolved[k]) => j = k
  BY DistinctKeys
<1>4. KeyOf(list[i]) \in Keys(resolved) <=> \E k \in 1..Len(resolved) : KeyOf(resolved[k]) = KeyOf(list[i])
  BY <1>1 DEF Keys
<1>5. Mentions(list, resolved, i) = Cardinality(M)
  BY DEF Mentions
<1> HIDE DEF M
<1>6. CASE KeyOf(list[i]) \in Keys(resolved)
  <2>1. PICK k \in 1..Len(resolved) : KeyOf(resolved[k]) = KeyOf(list[i])
    BY <1>4, <1>6
  <2>2. M = {k}
    BY <1>2, <1>3, <2>1
  <2>3. QED
    BY <1>5, <1>6, <2>2, FS_Singleton
<1>7. CASE KeyOf(list[i]) \notin Keys(resolved)
  <2>1. M = {}
    BY <1>2, <1>4, <1>7
  <2>2. QED
    BY <1>5, <1>7, <2>1, FS_EmptySet
<1>8. QED
  BY <1>6, <1>7

\* What the pops of the last k indices leave.
Left(list, resolved, k, l) ==
    /\ l \in Issues /\ Len(list) - k <= Len(l)
    /\ \A i \in 1..(Len(list) - k) : l[i] = list[i]
    /\ \A K : /\ Share(l, K) <= Share(list, K)
              /\ K \cap Keys(resolved) = {} => Share(l, K) = Share(list, K)
    /\ \A i \in 1..Len(list) :
         Len(list) - k < i /\ KeyOf(list[i]) \in Keys(resolved) => Share(l, {KeyOf(list[i])}) = 0
    /\ Keys(list) \cap Keys(resolved) = {} => l = list

LEMMA PopLeaves ==
    ASSUME NEW list \in Issues, NEW resolved \in Issues, Distinct(list), Distinct(resolved),
           NEW k \in 1..Len(list), NEW l, Left(list, resolved, k - 1, l)
    PROVE  Left(list, resolved, k, Pop(l, Len(list) + 1 - k, Mentions(list, resolved, Len(list) + 1 - k)))
<1> DEFINE n == Len(list)
           i == n + 1 - k
           m == Mentions(list, resolved, i)
           d == Pop(l, i, m)
<1>1. n \in Nat /\ i \in 1..n /\ n - (k - 1) = i /\ n - k = i - 1 /\ DOMAIN list = 1..n
      /\ \A j \in 1..n : KeyOf(list[j]) \in Keys(list)
  BY ListFacts DEF Keys
<1>2. /\ l \in Issues /\ i <= Len(l) /\ \A j \in 1..i : l[j] = list[j]
      /\ \A K : /\ Share(l, K) <= Share(list, K)
                /\ K \cap Keys(resolved) = {} => Share(l, K) = Share(list, K)
      /\ \A j \in 1..n : i < j /\ KeyOf(list[j]) \in Keys(resolved) => Share(l, {KeyOf(list[j])}) = 0
      /\ Keys(list) \cap Keys(resolved) = {} => l = list
  <2> HIDE DEF i
  <2>1. QED
    BY <1>1 DEF Left
<1> HIDE DEF i, n
<1>3. m = IF KeyOf(list[i]) \in Keys(resolved) THEN 1 ELSE 0
  BY <1>1, MentionsOnce DEF n
<1>4. l[i] = list[i] /\ i \in 1..Len(l) /\ Len(l) \in Nat /\ i \in Nat
  <2>1. Len(l) \in Nat
    BY <1>2, ListFacts
  <2>2. QED
    BY <1>1, <1>2, <2>1
<1> HIDE DEF m
<1>5. CASE KeyOf(list[i]) \notin Keys(resolved)
  <2>1. d = l
    BY <1>3, <1>5 DEF Pop
  <2>2. /\ i - 1 <= Len(l) /\ \A j \in 1..(i - 1) : l[j] = list[j]
        /\ \A j \in 1..n : i - 1 < j => j = i \/ i < j
    BY <1>1, <1>2, <1>4
  <2>3. \A j \in 1..n : i - 1 < j /\ KeyOf(list[j]) \in Keys(resolved) => Share(l, {KeyOf(list[j])}) = 0
    BY <1>2, <1>5, <2>2
  <2>4. Left(list, resolved, k, l)
    BY <1>1, <1>2, <2>2, <2>3 DEF Left, n
  <2>5. QED
    BY <2>1, <2>4 DEF d, m, i, n
<1>6. CASE KeyOf(list[i]) \in Keys(resolved)
  <2>1. d = SubSeq(l, 1, i - 1) \o SubSeq(l, i + 1, Len(l))
    <3>1. m = 1 /\ l # Raised /\ ~ (i + m - 1 > Len(l))
      BY <1>2, <1>3, <1>4, <1>6, RaisedIsNone
    <3>2. m # 0
      BY <3>1
    <3>3. d = IF m = 0 THEN l
              ELSE IF l = Raised \/ i + m - 1 > Len(l) THEN Raised
              ELSE SubSeq(l, 1, i - 1) \o SubSeq(l, i + m, Len(l))
      BY ONLY TRUE DEF Pop, d
    <3>4. d = SubSeq(l, 1, i - 1) \o SubSeq(l, i + m, Len(l))
      BY ONLY <3>1, <3>2, <3>3, Zenon
    <3>5. QED
      BY ONLY <3>1, <3>4
  <2>2. /\ d \in Issues /\ Len(d) = Len(l) - 1 /\ \A j \in 1..(i - 1) : d[j] = l[j]
        /\ \A K : Share(l, K) = Share(d, K) + IF KeyOf(list[i]) \in K THEN list[i].frequency ELSE 0
    <3> HIDE DEF d
    <3>1. ASSUME NEW K
          PROVE  /\ d \in Issues /\ Len(d) = Len(l) - 1 /\ \A j \in 1..(i - 1) : d[j] = l[j]
                 /\ Share(l, K) = Share(d, K) + IF KeyOf(l[i]) \in K THEN l[i].frequency ELSE 0
      <4>1. l \in Issues /\ i \in 1..Len(l)
        BY <1>2, <1>4
      <4>2. d = Without(l, i)
        BY <2>1 DEF Without
      <4>3. /\ Without(l, i) \in Issues /\ Len(Without(l, i)) = Len(l) - 1
            /\ \A j \in 1..(i - 1) : Without(l, i)[j] = l[j]
            /\ Share(l, K) = Share(Without(l, i), K)
                             + IF KeyOf(l[i]) \in K THEN l[i].frequency ELSE 0
        BY ONLY <4>1, SharePop, SMTT(40)
      <4>4. QED
        BY ONLY <4>2, <4>3, ZenonT(40)
    <3>2. QED
      BY <1>4, <3>1
  <2> HIDE DEF d
  <2>3. list[i].frequency \in Nat \ {0} /\ \A K : Share(l, K) \in Nat /\ Share(d, K) \in Nat /\ Share(list, K) \in Nat
    BY <1>1, <1>2, <2>2, ListFacts, ShareIsNat DEF Issue, n
  <2>4. i - 1 <= Len(d) /\ \A j \in 1..(i - 1) : d[j] = list[j]
    BY <1>2, <1>4, <2>2
  <2>5. ASSUME NEW K
        PROVE  /\ Share(d, K) <= Share(list, K) /\ Share(d, K) <= Share(l, K)
               /\ K \cap Keys(resolved) = {} => Share(d, K) = Share(list, K)
    <3> DEFINE a == Share(d, K)
               b == Share(l, K)
               c == Share(list, K)
               e == list[i].frequency
    <3>1. /\ a \in Nat /\ b \in Nat /\ c \in Nat /\ e \in Nat /\ b <= c
          /\ b = a + (IF KeyOf(list[i]) \in K THEN e ELSE 0)
          /\ K \cap Keys(resolved) = {} => b = c
      BY <1>2, <2>2, <2>3
    <3>2. K \cap Keys(resolved) = {} => KeyOf(list[i]) \notin K
      BY <1>6
    <3> HIDE DEF a, b, c, e
    <3>3. a <= c /\ a <= b /\ (K \cap Keys(resolved) = {} => a = c)
      BY <3>1, <3>2
    <3>4. QED
      BY <3>3 DEF a, b, c
  <2>6. ASSUME NEW j \in 1..n, i - 1 < j, KeyOf(list[j]) \in Keys(resolved)
        PROVE  Share(d, {KeyOf(list[j])}) = 0
    <3> DEFINE K == {KeyOf(list[j])}
               a == Share(d, K)
               b == Share(l, K)
    <3>1. a \in Nat /\ b \in Nat /\ a <= b
      BY <2>3, <2>5
    <3>2. CASE j = i
      <4> DEFINE c == Share(list, K)
                 e == list[i].frequency
      <4>1. c = e
        BY <1>1, <3>2, DistinctKeys DEF n
      <4>2. b <= c /\ b = a + e /\ e \in Nat
        BY <1>2, <2>2, <2>3, <3>2
      <4> HIDE DEF a, b, c, e
      <4>3. a = 0
        BY <3>1, <4>1, <4>2
      <4>4. QED
        BY <4>3 DEF a
    <3>3. CASE i < j
      <4>1. b = 0
        BY <1>2, <2>6, <3>3
      <4> HIDE DEF a, b
      <4>2. a = 0
        BY <3>1, <4>1
      <4>3. QED
        BY <4>2 DEF a
    <3>4. QED
      BY <1>1, <1>4, <2>6, <3>2, <3>3
  <2>7. ~ (Keys(list) \cap Keys(resolved) = {})
    BY <1>1, <1>6
  <2>8. Left(list, resolved, k, d)
    BY <1>1, <2>2, <2>4, <2>5, <2>6, <2>7 DEF Left, n
  <2>9. QED
    BY <2>8 DEF d, m, i, n
<1>7. QED
  BY <1>5, <1>6

\* What is left of a list when the resolved issues are popped, none of either listed twice.
LEMMA RemainingIs ==
    ASSUME NEW list \in Issues, NEW resolved \in Issues, Distinct(list), Distinct(resolved)
    PROVE  LET r == Remaining(list, resolved) IN
           /\ r \in Issues
           /\ \A K : /\ Share(r, K) <= Share(list, K)
                     /\ K \cap Keys(resolved) = {} => Share(r, K) = Share(list, K)
           /\ \A key \in Keys(resolved) : Share(r, {key}) = 0
           /\ Keys(list) \cap Keys(resolved) = {} => r = list
<1> DEFINE n == Len(list)
           r == Remaining(list, resolved)
<1>1. n \in Nat /\ DOMAIN list = 1..n
  BY ListFacts
<1>2. PICK p : /\ p[0] = list
               /\ \A k \in 1..n : p[k] = Pop(p[k - 1], n + 1 - k, Mentions(list, resolved, n + 1 - k))
               /\ r = p[n]
  BY PopRuns
<1> HIDE DEF n, r
<1>3. Left(list, resolved, 0, list)
  <2>1. \A K : Share(list, K) \in Nat
    BY ShareIsNat
  <2>2. n - 0 = n /\ n - 0 <= n /\ \A i \in 1..n : ~ (n < i)
    BY <1>1
  <2>3. \A K : Share(list, K) <= Share(list, K)
    <3>1. \A x \in Nat : x <= x
      OBVIOUS
    <3>2. QED
      BY <2>1, <3>1
  <2>4. QED
    BY <2>2, <2>3 DEF Left, n
<1>4. Left(list, resolved, n, r)
  <2> DEFINE Good == {k \in 0..n : Left(list, resolved, k, p[k])}
  <2>1. 0 \in Good /\ Good \in SUBSET (0..n) /\ n \in 0..n
    BY <1>1, <1>2, <1>3
  <2>2. ASSUME NEW k \in 1..n, k - 1 \in Good PROVE k \in Good
    <3>1. Left(list, resolved, k - 1, p[k - 1]) /\ k \in 0..n
      BY <1>1, <2>2
    <3>2. Left(list, resolved, k, Pop(p[k - 1], n + 1 - k, Mentions(list, resolved, n + 1 - k)))
      BY <3>1, PopLeaves DEF n
    <3>3. QED
      BY <1>2, <3>1, <3>2
  <2> HIDE DEF Good
  <2>3. n \in Good
    BY <1>1, <2>1, <2>2, UpTo
  <2>4. QED
    BY <1>2, <2>3 DEF Good
<1>5. ASSUME NEW key \in Keys(resolved) PROVE Share(r, {key}) = 0
  <2>1. CASE key \in Keys(list)
    <3>1. PICK i \in 1..n : KeyOf(list[i]) = key
      BY <1>1, <2>1 DEF Keys
    <3>2. n - n < i
      BY <1>1
    <3>3. QED
      BY <1>4, <3>1, <3>2 DEF Left, n
  <2>2. CASE key \notin Keys(list)
    <3>1. Share(list, {key}) = 0
      BY <2>2, ListedKey
    <3>2. Share(r, {key}) <= Share(list, {key}) /\ r \in Issues
      BY <1>4 DEF Left
    <3>3. Share(r, {key}) \in Nat
      BY <3>2, ShareIsNat
    <3>4. QED
      BY <3>1, <3>2, <3>3
  <2>3. QED
    BY <2>1, <2>2
<1>6. QED
  BY <1>4, <1>5 DEF Left, r

\* The indices that were taken from a list still find the same issues: none is needed, or
\* none has moved.
StillFound(list, new, l) ==
    /\ l \in Issues
    /\ \/ Keys(list) \cap Keys(new) = {}
       \/ Len(list) <= Len(l) /\ \A i \in 1..Len(list) : KeyOf(l[i]) = KeyOf(list[i])

LEMMA AddOne ==
    ASSUME NEW list \in Issues, NEW new \in Issues, NEW l, StillFound(list, new, l),
           NEW e \in Issue, KeyOf(e) \in Keys(new)
    PROVE  /\ StillFound(list, new, AddIssue(list, l, e))
           /\ \A K : Share(AddIssue(list, l, e), K)
                       = Share(l, K) + IF KeyOf(e) \in K THEN e.frequency ELSE 0
<1> DEFINE i == LastIndex(list, KeyOf(e))
           n == Len(list)
           d == AddIssue(list, l, e)
<1>1. /\ i \in 0..n
      /\ i # 0 => KeyOf(list[i]) = KeyOf(e)
      /\ i = 0 <=> KeyOf(e) \notin Keys(list)
  BY LastIndexIs
<1>2. d = IF l = Raised THEN Raised
          ELSE IF i = 0 THEN Append(l, e)
          ELSE IF i > Len(l) THEN Raised
          ELSE [l EXCEPT ![i].frequency = @ + e.frequency]
  BY DEF AddIssue
<1>3. l \in Issues /\ l # Raised /\ n \in Nat /\ Len(l) \in Nat /\ e.frequency \in Nat
  <2>1. l \in Issues
    BY DEF StillFound
  <2>2. QED
    BY <2>1, RaisedIsNone, ListFacts DEF Issue
<1>4. \/ Keys(list) \cap Keys(new) = {}
      \/ n <= Len(l) /\ \A j \in 1..n : KeyOf(l[j]) = KeyOf(list[j])
  BY DEF StillFound
<1> HIDE DEF i, n, d
<1>5. CASE i = 0
  <2>1. d = Append(l, e)
    BY <1>2, <1>3, <1>5
  <2>2. /\ d \in Issues /\ Len(d) = Len(l) + 1 /\ \A j \in 1..Len(l) : d[j] = l[j]
        /\ \A K : Share(d, K) = Share(l, K) + IF KeyOf(e) \in K THEN e.frequency ELSE 0
    BY <1>3, <2>1, ShareAppend
  <2>3. \/ Keys(list) \cap Keys(new) = {}
        \/ n <= Len(d) /\ \A j \in 1..n : KeyOf(d[j]) = KeyOf(list[j])
    <3>1. ASSUME n <= Len(l), \A j \in 1..n : KeyOf(l[j]) = KeyOf(list[j])
          PROVE  n <= Len(d) /\ \A j \in 1..n : KeyOf(d[j]) = KeyOf(list[j])
      <4> DEFINE a == Len(l)
                 b == Len(d)
      <4>1. n <= a /\ b = a + 1 /\ n \in Nat /\ a \in Nat /\ \A j \in 1..a : d[j] = l[j]
        BY <1>3, <2>2, <3>1
      <4> HIDE DEF a, b
      <4>2. n <= b /\ \A j \in 1..n : d[j] = l[j]
        BY <4>1
      <4>3. QED
        BY <3>1, <4>2 DEF b
    <3>2. QED
      BY <1>4, <3>1
  <2>4. StillFound(list, new, d)
    BY <2>2, <2>3 DEF StillFound, n
  <2>5. QED
    BY <2>2, <2>4 DEF d
<1>6. CASE i # 0
  <2>1. n <= Len(l) /\ \A j \in 1..n : KeyOf(l[j]) = KeyOf(list[j])
    BY <1>1, <1>4, <1>6
  <2>2. i \in 1..n /\ i \in 1..Len(l) /\ ~ (i > Len(l)) /\ KeyOf(l[i]) = KeyOf(e)
    BY <1>1, <1>3, <1>6, <2>1
  <2>3. d = [l EXCEPT ![i].frequency = @ + e.frequency]
    BY <1>2, <1>3, <1>6, <2>2
  <2>4. /\ d \in Issues /\ Len(d) = Len(l) /\ \A j \in 1..Len(l) : KeyOf(d[j]) = KeyOf(l[j])
        /\ \A K : Share(d, K) = Share(l, K) + IF KeyOf(l[i]) \in K THEN e.frequency ELSE 0
    <3>1. d = Raise(l, i, e.frequency)
      BY <2>3 DEF Raise
    <3>2. QED
      BY <1>3, <2>2, <3>1, ShareRaise
  <2>5. n <= Len(d) /\ \A j \in 1..n : KeyOf(d[j]) = KeyOf(list[j])
    BY <1>3, <2>1, <2>4
  <2>6. StillFound(list, new, d)
    BY <2>4, <2>5 DEF StillFound, n
  <2>7. QED
    BY <2>2, <2>4, <2>6 DEF d
<1>7. QED
  BY <1>5, <1>6

LEMMA AddIs ==
    ASSUME NEW list \in Issues, NEW new \in Issues, NEW base, StillFound(list, new, base)
    PROVE  /\ AddAll(list, base, new) \in Issues
           /\ \A K : Share(AddAll(list, base, new), K) = Share(base, K) + Share(new, K)
<1> DEFINE n == Len(new)
           s(k) == SubSeq(new, 1, k)
<1>1. n \in Nat /\ new \in Seq(Issue) /\ DOMAIN new = 1..n /\ (\A k \in 1..n : new[k] \in Issue)
      /\ base \in Issues /\ base \in Lists
  BY ListFacts DEF StillFound, Lists, Issues
<1>2. PICK p : /\ p[0] = base /\ \A k \in 1..n : p[k] = AddIssue(list, p[k - 1], new[k])
               /\ AddAll(list, base, new) = p[n]
  BY <1>1, AddRuns, SMTT(30)
<1> HIDE DEF n
<1> DEFINE Good == {k \in 0..n : /\ StillFound(list, new, p[k])
                                 /\ \A K : Share(p[k], K) = Share(base, K) + Share(s(k), K)}
<1>3. s(0) = <<>> /\ s(n) = new
  BY <1>1 DEF n
<1>4. 0 \in Good /\ Good \in SUBSET (0..n) /\ n \in 0..n
  <2>1. ASSUME NEW K PROVE Share(base, K) = Share(base, K) + Share(s(0), K)
    <3> DEFINE a == Share(base, K)
               b == Share(s(0), K)
    <3>1. a \in Nat /\ b = 0
      BY <1>1, <1>3, ShareIsNat, ShareOfNone
    <3> HIDE DEF a, b
    <3>2. a = a + b
      BY <3>1
    <3>3. QED
      BY <3>2 DEF a, b
  <2>2. QED
    BY <1>1, <1>2, <2>1
<1>5. ASSUME NEW k \in 1..n, k - 1 \in Good PROVE k \in Good
  <2>1. k \in 0..n /\ StillFound(list, new, p[k - 1])
        /\ \A K : Share(p[k - 1], K) = Share(base, K) + Share(s(k - 1), K)
    BY <1>1, <1>5
  <2>2. new[k] \in Issue /\ KeyOf(new[k]) \in Keys(new)
    BY <1>1 DEF Keys
  <2>3. s(k) = Append(s(k - 1), new[k]) /\ s(k - 1) \in Issues
    BY <1>1, PrefixAppend DEF n, Issues
  <2> DEFINE d == p[k]
             c == p[k - 1]
             r == s(k - 1)
             q == s(k)
  <2>4. d = AddIssue(list, c, new[k])
    BY <1>2
  <2>5. StillFound(list, new, c) /\ \A K : Share(c, K) = Share(base, K) + Share(r, K)
    BY <2>1
  <2>6. r \in Issues /\ q = Append(r, new[k])
    BY <2>3
  <2> HIDE DEF d, c, r, q
  <2>7. StillFound(list, new, d)
        /\ \A K : Share(d, K) = Share(c, K) + IF KeyOf(new[k]) \in K THEN new[k].frequency ELSE 0
    BY <2>2, <2>4, <2>5, AddOne
  <2>8. ASSUME NEW K PROVE Share(d, K) = Share(base, K) + Share(q, K)
    <3> DEFINE x == Share(base, K)
               y == Share(r, K)
               z == IF KeyOf(new[k]) \in K THEN new[k].frequency ELSE 0
               w == Share(q, K)
               v == Share(c, K)
               u == Share(d, K)
    <3>1. x \in Nat /\ y \in Nat /\ z \in Nat
      BY <1>1, <2>2, <2>6, ShareIsNat DEF Issue
    <3>2. w = y + z
      BY <2>2, <2>6, ShareAppend
    <3>3. v = x + y /\ u = v + z
      BY <2>5, <2>7
    <3> HIDE DEF x, y, z, w, v, u
    <3>4. u = x + w
      BY <3>1, <3>2, <3>3
    <3>5. QED
      BY <3>4 DEF x, w, u
  <2>9. QED
    BY <2>1, <2>7, <2>8 DEF d, q
<1> HIDE DEF Good
<1>6. n \in Good
  BY <1>1, <1>4, <1>5, UpTo
<1>7. QED
  BY <1>2, <1>3, <1>6 DEF Good, StillFound

\* What a merge makes, of lists of which nothing is misplaced.
LEMMA MergeIs ==
    ASSUME NEW list \in Issues, NEW new \in Issues, NEW resolved \in Issues,
           Unambiguous(list, new, resolved)
    PROVE  LET merged == process_issues(list, new, resolved) IN
           /\ merged \in Issues
           /\ \A K : Share(merged, K) <= Share(list, K) + Share(new, K)
           /\ Keys(list) \ Keys(resolved) \subseteq Keys(merged)
           /\ AsFunction(merged) = Merged(list, new, resolved)
<1> DEFINE r == Remaining(list, resolved)
           m == process_issues(list, new, resolved)
<1>1. /\ Distinct(list) /\ Distinct(resolved)
      /\ Keys(list) \cap Keys(resolved) = {} \/ Keys(list) \cap Keys(new) = {}
  BY DEF Unambiguous
<1>2. /\ r \in Issues
      /\ \A K : /\ Share(r, K) <= Share(list, K)
                /\ K \cap Keys(resolved) = {} => Share(r, K) = Share(list, K)
      /\ \A key \in Keys(resolved) : Share(r, {key}) = 0
      /\ Keys(list) \cap Keys(resolved) = {} => r = list
  <2> HIDE DEF m
  <2>1. QED
    BY <1>1, RemainingIs
<1>3. m = AddAll(list, r, new)
  BY AddFoldDef
<1> HIDE DEF r, m
<1>4. StillFound(list, new, r)
  <2>1. CASE Keys(list) \cap Keys(new) = {}
    BY <1>2, <2>1 DEF StillFound
  <2>2. CASE r = list
    <3>1. Len(list) \in Nat /\ \A n \in Nat : n <= n
      BY ListFacts
    <3>2. QED
      BY <2>2, <3>1 DEF StillFound
  <2>3. QED
    BY <1>1, <1>2, <2>1, <2>2
<1>5. m \in Issues /\ \A K : Share(m, K) = Share(r, K) + Share(new, K)
  BY <1>3, <1>4, AddIs
<1>6. \A K : Share(m, K) \in Nat /\ Share(r, K) \in Nat /\ Share(new, K) \in Nat /\ Share(list, K) \in Nat
  BY <1>2, <1>5, ShareIsNat
<1>7. ASSUME NEW K PROVE Share(m, K) <= Share(list, K) + Share(new, K)
  <2> DEFINE a == Share(m, K)
             b == Share(r, K)
             c == Share(new, K)
             d == Share(list, K)
  <2>1. a = b + c /\ b <= d /\ b \in Nat /\ c \in Nat /\ d \in Nat
    BY <1>2, <1>5, <1>6
  <2> HIDE DEF a, b, c, d
  <2>2. a <= d + c
    BY <2>1
  <2>3. QED
    BY <2>2 DEF a, c, d
<1>8. ASSUME NEW key
      PROVE  Share(r, {key}) = IF key \in Keys(resolved) THEN 0 ELSE Share(list, {key})
  <2>1. key \notin Keys(resolved) => {key} \cap Keys(resolved) = {}
    OBVIOUS
  <2>2. QED
    BY <1>2, <2>1
<1>9. ASSUME NEW key
      PROVE  /\ key \in Keys(m) <=> key \in (Keys(list) \ Keys(resolved)) \cup Keys(new)
             /\ Frequency(m, key)
                  = Frequency(new, key) + IF key \in Keys(resolved) THEN 0 ELSE Frequency(list, key)
  <2> DEFINE a == Share(m, {key})
             b == Share(r, {key})
             c == Share(new, {key})
             d == Share(list, {key})
  <2>1. a = b + c /\ b \in Nat /\ c \in Nat /\ d \in Nat
    BY <1>5, <1>6
  <2>2. b = IF key \in Keys(resolved) THEN 0 ELSE d
    BY <1>8
  <2>3. /\ key \in Keys(m) <=> a # 0
        /\ key \in Keys(new) <=> c # 0
        /\ key \in Keys(list) <=> d # 0
    BY <1>5, ListedKey
  <2>4. Frequency(m, key) = a /\ Frequency(new, key) = c /\ Frequency(list, key) = d
    BY <1>5, FrequencyIsShare
  <2> HIDE DEF a, b, c, d
  <2>5. (a # 0 <=> b # 0 \/ c # 0) /\ a = c + b
    BY <2>1
  <2>6. QED
    BY <2>2, <2>3, <2>4, <2>5
<1>10. Keys(m) = (Keys(list) \ Keys(resolved)) \cup Keys(new)
  BY <1>9
<1>11. AsFunction(m) = Merged(list, new, resolved)
  BY <1>9, <1>10 DEF AsFunction, Merged
<1>12. QED
  BY <1>5, <1>7, <1>10, <1>11 DEF m

-----------------------------------------------------------------------------
(* What the actor adds, by type.                                           *)

LastOfType(list, t) == SelectLastInSeq(list, LAMBDA e : e.type = t)

LEMMA LastOfTypeIs ==
    ASSUME NEW list \in Issues, NEW t
    PROVE  /\ LastOfType(list, t) \in 0..Len(list)
           /\ LastOfType(list, t) # 0 => list[LastOfType(list, t)].type = t
<1> DEFINE I == {i \in 1..Len(list) : list[i].type = t}
<1>1. LastOfType(list, t) = IF I # {} THEN Max(I) ELSE 0
  BY DEF LastOfType, SelectLastInSeq
<1>2. I \in SUBSET Int /\ IsFiniteSet(I)
  <2>1. I \in SUBSET (1..Len(list)) /\ Len(list) \in Nat
    BY ListFacts
  <2> HIDE DEF I
  <2>2. QED
    BY <2>1, ListFacts
<1>3. I # {} => Max(I) \in I
  <2> HIDE DEF I
  <2>1. QED
    BY <1>2, MaxIsIn
<1>4. \A i \in I : i \in 1..Len(list) /\ list[i].type = t
  OBVIOUS
<1>5. Len(list) \in Nat
  BY ListFacts
<1> HIDE DEF I
<1>6. CASE I # {}
  <2>1. LastOfType(list, t) \in 1..Len(list) /\ list[LastOfType(list, t)].type = t
    BY <1>1, <1>3, <1>4, <1>6
  <2>2. QED
    BY <1>5, <2>1
<1>7. CASE I = {}
  BY <1>1, <1>5, <1>7
<1>8. QED
  BY <1>6, <1>7

LEMMA AddOneByType ==
    ASSUME NEW l \in Issues, NEW e \in AllIssues
    PROVE  /\ e \in Issue /\ AddByType(l, e) \in Issues
           /\ \A K : Share(l, K) <= Share(AddByType(l, e), K)
           /\ \A t : Share(AddByType(l, e), OfType(t)) = Share(l, OfType(t)) + IF e.type = t THEN 1 ELSE 0
<1> DEFINE i == LastOfType(l, e.type)
           d == AddByType(l, e)
           x == [e EXCEPT !.frequency = 1]
<1>1. d = IF i = 0 THEN Append(l, x) ELSE [l EXCEPT ![i].frequency = @ + 1]
  BY DEF AddByType, LastOfType
<1>2. e \in Issue /\ x \in Issue /\ x.type = e.type /\ x.description = e.description /\ x.frequency = 1
      /\ e.description \in Descriptions
  BY DEF AllIssues, Issue
<1>3. i \in 0..Len(l) /\ Len(l) \in Nat /\ i # 0 => l[i].type = e.type
  BY LastOfTypeIs, ListFacts
<1>4. \A K : Share(l, K) \in Nat
  BY ShareIsNat
<1>5. i \in 0..Len(l) /\ Len(l) \in Nat
  BY LastOfTypeIs, ListFacts
<1>6. \A y \in Issue : \A t : KeyOf(y) \in OfType(t) <=> y.type = t
  BY DEF KeyOf, OfType, Issue
<1> HIDE DEF i, d, x
<1>7. \E y \in Issue : /\ y.type = e.type /\ d \in Issues
                       /\ \A K : Share(d, K) = Share(l, K) + IF KeyOf(y) \in K THEN 1 ELSE 0
  <2>1. CASE i = 0
    <3>1. d = Append(l, x)
      BY <1>1, <2>1
    <3>2. /\ d \in Issues
          /\ \A K : Share(d, K) = Share(l, K) + IF KeyOf(x) \in K THEN 1 ELSE 0
      BY <1>2, <3>1, ShareAppend
    <3>3. QED
      BY <1>2, <3>2
  <2>2. CASE i # 0
    <3>1. d = Raise(l, i, 1) /\ i \in 1..Len(l) /\ 1 \in Nat
      BY <1>1, <1>5, <2>2 DEF Raise
    <3>2. l[i] \in Issue /\ l[i].type = e.type
      BY <1>3, <1>5, <2>2, <3>1, ListFacts
    <3>3. /\ d \in Issues
          /\ \A K : Share(d, K) = Share(l, K) + IF KeyOf(l[i]) \in K THEN 1 ELSE 0
      BY <3>1, ShareRaise
    <3>4. QED
      BY <3>2, <3>3
  <2>3. QED
    BY <2>1, <2>2
<1>8. PICK y \in Issue : /\ y.type = e.type /\ d \in Issues
                         /\ \A K : Share(d, K) = Share(l, K) + IF KeyOf(y) \in K THEN 1 ELSE 0
  BY <1>7
<1>9. ASSUME NEW K PROVE Share(l, K) <= Share(d, K)
  <2> DEFINE a == Share(l, K)
             b == Share(d, K)
  <2>1. a \in Nat /\ b = a + IF KeyOf(y) \in K THEN 1 ELSE 0
    BY <1>4, <1>8
  <2> HIDE DEF a, b
  <2>2. a <= b
    BY <2>1
  <2>3. QED
    BY <2>2 DEF a, b
<1>10. ASSUME NEW t PROVE Share(d, OfType(t)) = Share(l, OfType(t)) + IF e.type = t THEN 1 ELSE 0
  <2>1. KeyOf(y) \in OfType(t) <=> e.type = t
    BY <1>6, <1>8
  <2>2. QED
    BY <1>8, <2>1
<1>11. QED
  BY <1>2, <1>8, <1>9, <1>10 DEF d

\* Issues by type, folded.
TypeFolds(base, new, f) ==
    f = [T \in SUBSET DOMAIN new |->
          IF T = {} THEN base ELSE AddByType(f[T \ {Max(T)}], new[Max(T)])]

LEMMA TypeFoldDef ==
    ASSUME NEW base, NEW new
    PROVE  FoldLeft(AddByType, base, new) = (CHOOSE f : TypeFolds(base, new, f))[DOMAIN new]
BY DEF FoldLeft, MapThenFoldSet, TypeFolds

\* The run of that fold: p[k] is what the first k issues make of base.
TypeRun(base, new, p) ==
    /\ p[0] = base
    /\ \A k \in 1..Len(new) : p[k] = AddByType(p[k - 1], new[k])
    /\ FoldLeft(AddByType, base, new) = p[Len(new)]

LEMMA TypeRuns ==
    ASSUME NEW base \in Issues, NEW new \in Seq(AllIssues)
    PROVE  \E p : TypeRun(base, new, p)
<1> DEFINE n == Len(new)
           op == [x \in Issues \X AllIssues |-> AddByType(x[1], x[2])]
           all == FoldLeft(AddByType, base, new)
<1>1. n \in Nat /\ DOMAIN new = 1..n
  OBVIOUS
<1>2. op \in [Issues \X AllIssues -> Issues]
  BY AddOneByType
<1>3. \A l \in Issues, e \in AllIssues : op[<<l, e>>] = AddByType(l, e)
  OBVIOUS
<1> HIDE DEF op
<1>4. PICK g : FoldsBy(op, base, new, Issues, AllIssues, g)
  BY <1>2, FoldExists
<1>5. ASSUME NEW T \in SUBSET DOMAIN new
      PROVE  g[T] = IF T = {} THEN base ELSE AddByType(g[T \ {Max(T)}], new[Max(T)])
  BY <1>3, <1>4 DEF FoldsBy
<1>6. TypeFolds(base, new, g)
  BY <1>4, <1>5 DEF TypeFolds, FoldsBy
<1> DEFINE f == CHOOSE f : TypeFolds(base, new, f)
<1>7. TypeFolds(base, new, f) /\ all = f[1..n]
  <2>1. all = f[DOMAIN new]
    BY TypeFoldDef
  <2> HIDE DEF all
  <2>2. QED
    BY <1>1, <1>6, <2>1
<1> HIDE DEF f, all
<1> DEFINE p == [k \in 0..n |-> f[1..k]]
<1>8. \A T \in SUBSET DOMAIN new :
        f[T] = IF T = {} THEN base ELSE AddByType(f[T \ {Max(T)}], new[Max(T)])
  BY <1>7 DEF TypeFolds
<1>9. p[0] = base
  <2>1. 0 \in 0..n /\ 1..0 = {}
    BY <1>1
  <2>2. QED
    BY <1>8, <2>1
<1>10. ASSUME NEW k \in 1..n PROVE p[k] = AddByType(p[k - 1], new[k])
  <2>1. k \in Nat /\ k # 0 /\ k \in 0..n /\ k - 1 \in 0..n /\ 1..k \in SUBSET DOMAIN new
    BY <1>1
  <2>2. 1..k # {} /\ Max(1..k) = k /\ (1..k) \ {Max(1..k)} = 1..(k - 1)
    BY <2>1, LastOfPrefix
  <2>3. f[1..k] = AddByType(f[1..(k - 1)], new[k])
    BY <1>8, <2>1, <2>2
  <2>4. QED
    BY <2>1, <2>3
<1>11. all = p[n]
  BY <1>1, <1>7
<1> HIDE DEF p
<1>12. TypeRun(base, new, p)
  BY <1>9, <1>10, <1>11 DEF n, all, TypeRun
<1>13. QED
  BY <1>12, Zenon

\* What the actor writes counts every issue of the answer once, and loses none.
LEMMA TypesAdded ==
    ASSUME NEW base \in Issues, NEW new \in Seq(AllIssues)
    PROVE  LET all == FoldLeft(AddByType, base, new) IN
           /\ new \in Issues /\ all \in Issues
           /\ Keys(base) \subseteq Keys(all)
           /\ \A t : Share(all, OfType(t)) = Share(base, OfType(t)) + Share(new, OfType(t))
<1> DEFINE n == Len(new)
           s(k) == SubSeq(new, 1, k)
           all == FoldLeft(AddByType, base, new)
<1>1. n \in Nat /\ DOMAIN new = 1..n /\ \A k \in 1..n : new[k] \in AllIssues
  OBVIOUS
<1>2. new \in Issues
  <2>1. \A k \in 1..n : new[k] \in Issue
    BY <1>1, AddOneByType
  <2>2. QED
    BY <1>1, <2>1 DEF Issues
<1> HIDE DEF n, s, all
<1>3a. PICK p : TypeRun(base, new, p)
  BY TypeRuns, Zenon
<1>3. /\ p[0] = base /\ \A k \in 1..n : p[k] = AddByType(p[k - 1], new[k])
      /\ all = p[n]
  BY <1>3a, Zenon DEF TypeRun, n, all
<1> USE DEF s
<1> DEFINE Good == {k \in 0..n : /\ p[k] \in Issues
                                 /\ \A K : Share(base, K) <= Share(p[k], K)
                                 /\ \A t : Share(p[k], OfType(t))
                                             = Share(base, OfType(t)) + Share(s(k), OfType(t))}
<1>4. s(0) = <<>> /\ s(n) = new
  BY <1>1 DEF n
<1>5. 0 \in Good /\ Good \in SUBSET (0..n) /\ n \in 0..n
  <2>1. ASSUME NEW K PROVE /\ Share(base, K) = Share(base, K) + Share(s(0), K)
                           /\ Share(base, K) <= Share(base, K)
    <3> DEFINE a == Share(base, K)
               b == Share(s(0), K)
    <3>1. a \in Nat /\ b = 0
      BY <1>4, ShareIsNat, ShareOfNone
    <3> HIDE DEF a, b
    <3>2. a = a + b /\ a <= a
      BY <3>1
    <3>3. QED
      BY <3>2 DEF a, b
  <2>2. QED
    BY <1>1, <1>3, <2>1
<1>6. ASSUME NEW k \in 1..n, k - 1 \in Good PROVE k \in Good
  <2>1. /\ k \in 0..n /\ p[k - 1] \in Issues
        /\ \A K : Share(base, K) <= Share(p[k - 1], K)
        /\ \A t : Share(p[k - 1], OfType(t)) = Share(base, OfType(t)) + Share(s(k - 1), OfType(t))
    BY <1>1, <1>6
  <2>2. s(k) = Append(s(k - 1), new[k]) /\ s(k - 1) \in Issues
    BY <1>1, <1>2, PrefixAppend DEF n, Issues
  <2> DEFINE d == p[k]
             c == p[k - 1]
             r == s(k - 1)
             q == s(k)
             e == new[k]
  <2>3. d = AddByType(c, e) /\ e \in AllIssues
    BY <1>1, <1>3
  <2>4. /\ c \in Issues /\ r \in Issues /\ q = Append(r, e)
        /\ \A K : Share(base, K) <= Share(c, K)
        /\ \A t : Share(c, OfType(t)) = Share(base, OfType(t)) + Share(r, OfType(t))
    BY <2>1, <2>2
  <2> HIDE DEF d, c, r, q, e
  <2>5. /\ e \in Issue /\ d \in Issues
        /\ \A K : Share(c, K) <= Share(d, K)
        /\ \A t : Share(d, OfType(t)) = Share(c, OfType(t)) + IF e.type = t THEN 1 ELSE 0
    BY <2>3, <2>4, AddOneByType
  <2>6. ASSUME NEW K PROVE Share(base, K) <= Share(d, K)
    <3> DEFINE x == Share(base, K)
               y == Share(c, K)
               z == Share(d, K)
    <3>1. x \in Nat /\ y \in Nat /\ z \in Nat /\ x <= y /\ y <= z
      BY <2>4, <2>5, ShareIsNat
    <3> HIDE DEF x, y, z
    <3>2. x <= z
      BY <3>1
    <3>3. QED
      BY <3>2 DEF x, z
  <2>7. ASSUME NEW t PROVE Share(d, OfType(t)) = Share(base, OfType(t)) + Share(q, OfType(t))
    <3> DEFINE x == Share(base, OfType(t))
               y == Share(r, OfType(t))
               z == IF e.type = t THEN 1 ELSE 0
               w == Share(q, OfType(t))
               v == Share(c, OfType(t))
               u == Share(d, OfType(t))
    <3>1. x \in Nat /\ y \in Nat /\ z \in Nat
      BY <2>4, ShareIsNat
    <3>2. w = y + z
      <4>1. KeyOf(e) \in OfType(t) <=> e.type = t
        BY <2>5 DEF KeyOf, OfType, Issue
      <4>2. e.frequency = 1
        BY <2>3 DEF AllIssues
      <4>3. w = y + IF KeyOf(e) \in OfType(t) THEN e.frequency ELSE 0
        BY <2>4, <2>5, ShareAppend
      <4>4. QED
        BY <4>1, <4>2, <4>3
    <3>3. v = x + y /\ u = v + z
      BY <2>4, <2>5
    <3> HIDE DEF x, y, z, w, v, u
    <3>4. u = x + w
      BY <3>1, <3>2, <3>3
    <3>5. QED
      BY <3>4 DEF x, w, u
  <2>8. QED
    BY <2>1, <2>5, <2>6, <2>7 DEF d, q
<1> HIDE DEF Good
<1>7. n \in Good
  BY <1>1, <1>5, <1>6, UpTo
<1>8. /\ all \in Issues /\ \A K : Share(base, K) <= Share(all, K)
      /\ \A t : Share(all, OfType(t)) = Share(base, OfType(t)) + Share(new, OfType(t))
  BY <1>3, <1>4, <1>7 DEF Good
<1>9. Keys(base) \subseteq Keys(all)
  <2>1. ASSUME NEW key \in Keys(base) PROVE key \in Keys(all)
    <3> DEFINE a == Share(base, {key})
               b == Share(all, {key})
    <3>1. a # 0 /\ a <= b /\ a \in Nat /\ b \in Nat
      BY <1>8, ListedKey, ShareIsNat
    <3> HIDE DEF a, b
    <3>2. b # 0
      BY <3>1
    <3>3. QED
      BY <1>8, <3>2, ListedKey DEF b
  <2>2. QED
    BY <2>1
<1>10. QED
  BY <1>2, <1>8, <1>9 DEF all

-----------------------------------------------------------------------------
(* What a merge does to the achievements.                                  *)

Achievement == {Earned} \cup {Resolution(e) : e \in AllIssues}

NewlyEarned(new, resolved) == new \o [i \in DOMAIN resolved |-> Resolution(resolved[i])]

Earn(earned, l, e) == IF KeyOf(e) \in Keys(earned) THEN l ELSE Append(l, e)

EarnFolds(earned, all, f) ==
    f = [T \in SUBSET DOMAIN all |->
          IF T = {} THEN earned ELSE Earn(earned, f[T \ {Max(T)}], all[Max(T)])]

LEMMA EarnFoldDef ==
    ASSUME NEW earned, NEW new, NEW resolved
    PROVE  process_achievements(earned, new, resolved) =
             (CHOOSE f : EarnFolds(earned, NewlyEarned(new, resolved), f))[DOMAIN NewlyEarned(new, resolved)]
BY DEF process_achievements, FoldLeft, MapThenFoldSet, EarnFolds, Earn, NewlyEarned

LEMMA EarnOne ==
    ASSUME NEW earned, NEW l \in Seq(Achievement), NEW e \in Achievement
    PROVE  Earn(earned, l, e) \in Seq(Achievement) /\ Keys(l) \subseteq Keys(Earn(earned, l, e))
<1>1. Append(l, e) \in Seq(Achievement) /\ Keys(l) \subseteq Keys(Append(l, e))
  <2> DEFINE d == Append(l, e)
  <2>1. /\ d \in Seq(Achievement) /\ Len(d) = Len(l) + 1 /\ Len(l) \in Nat
        /\ \A i \in 1..Len(l) : d[i] = l[i]
    BY AppendProperties
  <2>2. DOMAIN l = 1..Len(l) /\ DOMAIN d = 1..Len(d)
    BY <2>1
  <2> HIDE DEF d
  <2>3. \A i \in DOMAIN l : i \in DOMAIN d /\ d[i] = l[i]
    BY <2>1, <2>2
  <2>4. Keys(l) \subseteq Keys(d)
    BY <2>3 DEF Keys
  <2>5. QED
    BY <2>1, <2>4 DEF d
<1>2. QED
  BY <1>1 DEF Earn

\* Nothing that was earned is lost.
LEMMA EarnedStays ==
    ASSUME NEW earned \in Seq(Achievement), NEW new \in Seq(Achievement), NEW resolved \in Seq(AllIssues)
    PROVE  LET all == process_achievements(earned, new, resolved) IN
           all \in Seq(Achievement) /\ Keys(earned) \subseteq Keys(all)
<1> DEFINE s == NewlyEarned(new, resolved)
           n == Len(s)
           A == Seq(Achievement)
           op == [x \in A \X Achievement |-> Earn(earned, x[1], x[2])]
           all == process_achievements(earned, new, resolved)
<1>1. s \in Seq(Achievement)
  <2> DEFINE r == [i \in DOMAIN resolved |-> Resolution(resolved[i])]
  <2>1. DOMAIN resolved = 1..Len(resolved) /\ Len(resolved) \in Nat
        /\ \A i \in DOMAIN resolved : resolved[i] \in AllIssues
    OBVIOUS
  <2>2. \A i \in DOMAIN resolved : Resolution(resolved[i]) \in Achievement
    BY <2>1 DEF Achievement
  <2>3. r \in [1..Len(resolved) -> Achievement]
    BY <2>1, <2>2
  <2>4. r \in Seq(Achievement)
    <3> HIDE DEF r
    <3>1. QED
      BY <2>1, <2>3, SMTT(30)
  <2>5. s = new \o r
    BY DEF NewlyEarned
  <2> HIDE DEF r, s
  <2>6. QED
    BY <2>4, <2>5, ConcatProperties
<1> HIDE DEF s
<1>2. n \in Nat /\ DOMAIN s = 1..n
  BY <1>1
<1>3. op \in [A \X Achievement -> A]
  BY EarnOne
<1>4. \A l \in A, e \in Achievement : op[<<l, e>>] = Earn(earned, l, e)
  OBVIOUS
<1> HIDE DEF op
<1>5. PICK g : FoldsBy(op, earned, s, A, Achievement, g)
  BY <1>1, <1>3, FoldExists
<1>6. ASSUME NEW T \in SUBSET DOMAIN s
      PROVE  g[T] = IF T = {} THEN earned ELSE Earn(earned, g[T \ {Max(T)}], s[Max(T)])
  BY <1>4, <1>5 DEF FoldsBy
<1>7. EarnFolds(earned, s, g)
  BY <1>5, <1>6 DEF EarnFolds, FoldsBy
<1> DEFINE f == CHOOSE f : EarnFolds(earned, s, f)
<1>8. EarnFolds(earned, s, f) /\ all = f[1..n]
  <2>1. all = f[DOMAIN s]
    BY EarnFoldDef DEF s
  <2> HIDE DEF all
  <2>2. QED
    BY <1>2, <1>7, <2>1
<1> HIDE DEF f, all, n
<1>9. \A T \in SUBSET DOMAIN s :
        f[T] = IF T = {} THEN earned ELSE Earn(earned, f[T \ {Max(T)}], s[Max(T)])
  BY <1>8 DEF EarnFolds
<1> DEFINE Good == {k \in 0..n : f[1..k] \in A /\ Keys(earned) \subseteq Keys(f[1..k])}
<1>10. 0 \in Good /\ Good \in SUBSET (0..n) /\ n \in 0..n
  <2>1. 0 \in 0..n /\ 1..0 = {}
    BY <1>2
  <2>2. f[{}] = earned
    BY <1>9
  <2>3. QED
    BY <1>2, <2>1, <2>2
<1>11. ASSUME NEW k \in 1..n, k - 1 \in Good PROVE k \in Good
  <2>1. k \in Nat /\ k # 0 /\ k \in 0..n /\ 1..k \in SUBSET DOMAIN s /\ s[k] \in Achievement
    BY <1>1, <1>2 DEF n
  <2>2. 1..k # {} /\ Max(1..k) = k /\ (1..k) \ {Max(1..k)} = 1..(k - 1)
    BY <2>1, LastOfPrefix
  <2>3. f[1..k] = Earn(earned, f[1..(k - 1)], s[k])
    BY <1>9, <2>1, <2>2
  <2>4. f[1..(k - 1)] \in A /\ Keys(earned) \subseteq Keys(f[1..(k - 1)])
    BY <1>11
  <2> DEFINE d == f[1..k]
             c == f[1..(k - 1)]
  <2> HIDE DEF d, c
  <2>5. d \in A /\ Keys(c) \subseteq Keys(d)
    <3>1. d = Earn(earned, c, s[k]) /\ c \in A
      BY <2>3, <2>4 DEF d, c
    <3>2. QED
      BY <2>1, <3>1, EarnOne
  <2>6. Keys(earned) \subseteq Keys(d)
    BY <2>4, <2>5 DEF c
  <2>7. QED
    BY <2>1, <2>5, <2>6 DEF d
<1> HIDE DEF Good
<1>12. n \in Good
  BY <1>2, <1>10, <1>11, UpTo
<1>13. QED
  BY <1>8, <1>12 DEF Good, all

-----------------------------------------------------------------------------
(* The inductive invariant of the summary.                                 *)

ColumnsRead ==
    [issues       : Issues,
     format       : {"null", "object", "text"},
     achievements : Seq(Achievement),
     answer       : [new : Seq(AllIssues), resolved : Seq(AllIssues)]]

ColumnsTyped ==
    /\ IssuesTypeOK
    /\ issues \in Issues
    /\ achievements \in Seq(Achievement)
    /\ local \in [Actors -> ColumnsRead]
    /\ reported \in [Types -> Nat]
    /\ shifted \in BOOLEAN

\* An attempt that asks its model is the delivery of a message.
AttemptsHaveMessages ==
    \A t \in Tasks : phase[t] \in {"asked", "answered"} => queue[t] \in 1..(Dead - 1)

\* What was read is what is stored, unless someone has written since.
ReadsAreCurrent ==
    \A a \in Asking \ stale :
        /\ local[a].issues = issues
        /\ local[a].format = format
        /\ local[a].achievements = achievements

\* Neither what is stored nor what was read counts more than the models reported.
FrequenciesRead ==
    ~shifted => \A t \in Types :
        /\ TypeFrequency(issues, t) <= reported[t]
        /\ \A a \in Asking : TypeFrequency(local[a].issues, t) <= reported[t]

IssuesInv == ColumnsTyped /\ AttemptsHaveMessages /\ ReadsAreCurrent /\ FrequenciesRead

LEMMA AnswersAreLists ==
    /\ UpToTwo(AllIssues) \subseteq Seq(AllIssues)
    /\ Seq(AllIssues) \subseteq Issues
    /\ <<>> \in Issues /\ <<>> \in Seq(AllIssues) /\ <<>> \in Seq(Achievement)
    /\ <<Earned>> \in Seq(Achievement)
<1>1. UpToTwo(AllIssues) \subseteq Seq(AllIssues)
  <2>1. \A S : <<>> \in Seq(S) /\ \A x \in S, y \in S : <<x>> \in Seq(S) /\ <<x, y>> \in Seq(S)
    OBVIOUS
  <2> DEFINE S == AllIssues
  <2> HIDE DEF S
  <2>2. ASSUME NEW s \in UpToTwo(S)
        PROVE  s = <<>> \/ (\E x \in S : s = <<x>>) \/ (\E x \in S, y \in S : s = <<x, y>>)
    BY DEF UpToTwo
  <2>3. UpToTwo(S) \subseteq Seq(S)
    BY <2>1, <2>2
  <2>4. QED
    BY <2>3 DEF S
<1>2. Seq(AllIssues) \subseteq Issues
  <2>1. <<>> \in Issues
    BY DEF Issues
  <2>2. QED
    BY <2>1, TypesAdded
<1>3. Earned \in Achievement
  BY DEF Achievement
<1>4. QED
  BY <1>1, <1>2, <1>3 DEF Issues

LEMMA IssuesInitInv == IssuesInit => IssuesInv
<1>1. SUFFICES ASSUME IssuesInit PROVE IssuesInv
  OBVIOUS
<1>2. /\ issues = <<>> /\ format = "null" /\ achievements = <<>>
      /\ phase = [a \in Actors |-> "idle"] /\ local = [a \in Actors |-> Nothing]
      /\ queue = [t \in Tasks |-> NoMessage] /\ triggered = {} /\ redelivered = 0
      /\ reported = [t \in Types |-> 0] /\ shifted = FALSE /\ stale = {}
  BY <1>1 DEF IssuesInit
<1>3. Nothing \in ColumnsRead
  BY AnswersAreLists DEF Nothing, NoAnswer, ColumnsRead
<1>4. Asking = {}
  BY <1>2 DEF Asking
<1>5. ColumnsTyped
  <2>1. IssuesTypeOK
    <3>1. NoMessage \in NoMessage..Dead /\ 0 \in 0..MaxRedeliveries
      BY BoundsAssumption DEF NoMessage, Dead
    <3>2. QED
      BY <1>2, <3>1 DEF IssuesTypeOK
  <2>2. issues \in Issues /\ achievements \in Seq(Achievement)
    BY <1>2, AnswersAreLists
  <2>3. QED
    BY <1>2, <1>3, <2>1, <2>2 DEF ColumnsTyped
<1>6. AttemptsHaveMessages
  BY <1>2 DEF AttemptsHaveMessages, Actors
<1>7. ReadsAreCurrent
  BY <1>4 DEF ReadsAreCurrent
<1>8. FrequenciesRead
  <2>1. ASSUME NEW t \in Types PROVE TypeFrequency(issues, t) <= reported[t]
    <3>1. TypeFrequency(issues, t) = 0
      BY <1>2, AnswersAreLists, FrequencyIsShare, ShareOfNone
    <3>2. reported[t] = 0
      BY <1>2
    <3>3. QED
      BY <3>1, <3>2
  <2>2. QED
    BY <1>4, <2>1 DEF FrequenciesRead
<1>9. QED
  BY <1>5, <1>6, <1>7, <1>8 DEF IssuesInv

\* The facts of the invariant that a step needs of one actor.
LEMMA ReadTyped ==
    ASSUME IssuesInv, NEW a \in Actors
    PROVE  /\ local[a] \in ColumnsRead
           /\ local[a].issues \in Issues /\ local[a].achievements \in Seq(Achievement)
           /\ local[a].answer.new \in Seq(AllIssues) /\ local[a].answer.resolved \in Seq(AllIssues)
           /\ local[a].answer.new \in Issues /\ local[a].answer.resolved \in Issues
           /\ Held(a) \in Issues
<1>1. local[a] \in ColumnsRead
  BY DEF IssuesInv, ColumnsTyped
<1>2. QED
  BY <1>1, AnswersAreLists DEF ColumnsRead, Held

SameRead(x, y) == x.issues = y.issues /\ x.format = y.format /\ x.achievements = y.achievements

\* Who asks after a step asked before it, with what it had read, or has just read the columns.
ReadsKept(a) ==
    \/ /\ a \in Asking /\ (a \in stale => a \in stale')
       /\ SameRead(local'[a], local[a])
    \/ /\ local'[a].issues = issues
       /\ local'[a].format = format
       /\ local'[a].achievements = achievements

\* A step that writes no column.
LEMMA NothingWritten ==
    ASSUME IssuesInv, UNCHANGED <<columns, reported, shifted>>,
           \A a \in Actors : phase'[a] \in {"asked", "answered"} => ReadsKept(a)
    PROVE  ReadsAreCurrent' /\ FrequenciesRead'
<1>1. UNCHANGED <<issues, format, achievements, reported, shifted>>
  BY DEF columns
<1>2. ReadsAreCurrent /\ FrequenciesRead
  BY DEF IssuesInv
<1>3. \A a \in Asking' : a \in Actors /\ ReadsKept(a)
  BY DEF Asking
<1>4. ASSUME NEW a \in Asking' \ stale'
      PROVE  local'[a].issues = issues' /\ local'[a].format = format' /\ local'[a].achievements = achievements'
  <2>1. a \in Asking \ stale =>
          local[a].issues = issues /\ local[a].format = format /\ local[a].achievements = achievements
    BY <1>2 DEF ReadsAreCurrent
  <2>2. QED
    BY <1>1, <1>3, <1>4, <2>1 DEF ReadsKept, SameRead
<1>5. ASSUME ~shifted', NEW t \in Types
      PROVE  /\ TypeFrequency(issues', t) <= reported'[t]
             /\ \A a \in Asking' : TypeFrequency(local'[a].issues, t) <= reported'[t]
  <2>1. /\ TypeFrequency(issues, t) <= reported[t]
        /\ \A a \in Asking : TypeFrequency(local[a].issues, t) <= reported[t]
    BY <1>1, <1>2, <1>5 DEF FrequenciesRead
  <2>2. ASSUME NEW a \in Asking' PROVE TypeFrequency(local'[a].issues, t) <= reported[t]
    <3>1. \/ a \in Asking /\ local'[a].issues = local[a].issues
          \/ local'[a].issues = issues
      BY <1>3 DEF ReadsKept, SameRead
    <3>2. QED
      BY <2>1, <3>1
  <2>3. QED
    BY <1>1, <2>1, <2>2
<1>6. QED
  BY <1>4, <1>5 DEF ReadsAreCurrent, FrequenciesRead

\* A step that neither reads, nor answers, nor writes.
LEMMA RestKeepsInv ==
    ASSUME IssuesInv, UNCHANGED <<columns, local, issueHistory>>,
           phase' \in [Actors -> {"idle", "asked", "answered", "written", "unchanged", "failed"}],
           queue' \in [Tasks -> NoMessage..Dead], triggered' \subseteq Tasks,
           redelivered' \in 0..MaxRedeliveries,
           \A a \in Actors : phase'[a] \in {"asked", "answered"} =>
               phase[a] \in {"asked", "answered"} /\ (a \in Tasks => queue'[a] = queue[a])
    PROVE  IssuesInv'
<1>1. UNCHANGED <<issues, format, achievements, local, reported, shifted, stale>>
  BY DEF columns, issueHistory
<1>2. ColumnsTyped /\ AttemptsHaveMessages
  BY DEF IssuesInv
<1>3. ColumnsTyped'
  BY <1>1, <1>2 DEF ColumnsTyped, IssuesTypeOK
<1>4. AttemptsHaveMessages'
  BY <1>2 DEF AttemptsHaveMessages, Actors
<1>5. \A a \in Actors : phase'[a] \in {"asked", "answered"} => ReadsKept(a)
  BY <1>1 DEF ReadsKept, SameRead, Asking
<1>6. UNCHANGED <<columns, reported, shifted>>
  BY <1>1 DEF columns
<1>7. ReadsAreCurrent' /\ FrequenciesRead'
  BY <1>5, <1>6, NothingWritten
<1>8. QED
  BY <1>3, <1>4, <1>7 DEF IssuesInv

\* What a move does to the phases.
LEMMA MoveTyped ==
    ASSUME IssuesInv, NEW a \in Actors, NEW from,
           NEW to \in {"idle", "asked", "answered", "written", "unchanged", "failed"}, Moves(a, from, to)
    PROVE  /\ phase[a] = from
           /\ phase' \in [Actors -> {"idle", "asked", "answered", "written", "unchanged", "failed"}]
           /\ phase'[a] = to /\ \A b \in Actors : b # a => phase'[b] = phase[b]
<1>1. phase \in [Actors -> {"idle", "asked", "answered", "written", "unchanged", "failed"}]
  BY DEF IssuesInv, ColumnsTyped, IssuesTypeOK
<1>2. phase[a] = from /\ phase' = [phase EXCEPT ![a] = to]
  BY DEF Moves
<1>3. QED
  BY <1>1, <1>2

LEMMA RestStep ==
    ASSUME IssuesInv
    PROVE  /\ \A a \in Analyses : NoUsefulAnswer(a) \/ MergeRaises(a) => IssuesInv'
           /\ \A t \in Tasks :
                SubmissionDecided(t) \/ SendTask(t) \/ GiveUp(t) \/ CommitUnchanged(t) \/ TaskRaises(t)
                 \/ Redeliver(t)
                  => IssuesInv'
<1>1. /\ phase \in [Actors -> {"idle", "asked", "answered", "written", "unchanged", "failed"}]
      /\ queue \in [Tasks -> NoMessage..Dead] /\ triggered \subseteq Tasks
      /\ redelivered \in 0..MaxRedeliveries /\ AttemptsHaveMessages
  BY DEF IssuesInv, ColumnsTyped, IssuesTypeOK
<1>2. Analyses \subseteq Actors /\ Tasks \subseteq Actors /\ \A a \in Analyses : a \notin Tasks
  BY ActorsAssumption DEF Actors
<1>3. NoMessage \in NoMessage..Dead /\ 1 \in NoMessage..Dead /\ Dead \in Nat /\ NoMessage = 0
      /\ MaxRedeliveries \in Nat
  BY BoundsAssumption DEF NoMessage, Dead
<1>4. ASSUME NEW a \in Analyses, NoUsefulAnswer(a) \/ MergeRaises(a)
      PROVE  IssuesInv'
  <2>1. /\ UNCHANGED <<columns, local, issueHistory>> /\ UNCHANGED <<queue, triggered, redelivered>>
        /\ Moves(a, "asked", "unchanged") \/ Moves(a, "answered", "failed")
    BY <1>4 DEF NoUsefulAnswer, MergeRaises
  <2>2. /\ phase' \in [Actors -> {"idle", "asked", "answered", "written", "unchanged", "failed"}]
        /\ phase'[a] \in {"unchanged", "failed"} /\ \A b \in Actors : b # a => phase'[b] = phase[b]
    BY <1>2, <2>1, MoveTyped
  <2>3. QED
    BY <1>1, <1>2, <2>1, <2>2, RestKeepsInv
<1>5. ASSUME NEW t \in Tasks,
             SubmissionDecided(t) \/ SendTask(t) \/ GiveUp(t) \/ CommitUnchanged(t) \/ TaskRaises(t)
                 \/ Redeliver(t)
      PROVE  IssuesInv'
  <2>1. UNCHANGED <<columns, local, issueHistory>>
    BY <1>5 DEF SubmissionDecided, SendTask, GiveUp, CommitUnchanged, TaskRaises, Redeliver
  <2>2. CASE SubmissionDecided(t)
    <3>1. triggered' \subseteq Tasks /\ UNCHANGED <<phase, queue, redelivered>>
      BY <1>1, <2>2 DEF SubmissionDecided
    <3>2. QED
      BY <1>1, <2>1, <3>1, RestKeepsInv
  <2>3. CASE SendTask(t)
    <3>1. /\ phase[t] = "idle" /\ queue' = [queue EXCEPT ![t] = 1]
          /\ UNCHANGED <<phase, triggered, redelivered>>
      BY <2>3 DEF SendTask
    <3>2. queue' \in [Tasks -> NoMessage..Dead] /\ \A s \in Tasks : s # t => queue'[s] = queue[s]
      BY <1>1, <1>3, <3>1
    <3>3. QED
      BY <1>1, <2>1, <3>1, <3>2, RestKeepsInv
  <2>4. CASE GiveUp(t) \/ CommitUnchanged(t)
    <3>1. /\ Moves(t, "asked", "unchanged") \/ Moves(t, "answered", "unchanged")
          /\ queue' = [queue EXCEPT ![t] = NoMessage]
          /\ UNCHANGED <<triggered, redelivered>>
      BY <2>4 DEF GiveUp, CommitUnchanged
    <3>2. queue' \in [Tasks -> NoMessage..Dead] /\ \A s \in Tasks : s # t => queue'[s] = queue[s]
      BY <1>1, <1>3, <3>1
    <3>3. /\ phase' \in [Actors -> {"idle", "asked", "answered", "written", "unchanged", "failed"}]
          /\ phase'[t] = "unchanged" /\ \A b \in Actors : b # t => phase'[b] = phase[b]
      BY <1>2, <3>1, MoveTyped
    <3>4. QED
      BY <1>1, <2>1, <3>1, <3>2, <3>3, RestKeepsInv
  <2>5. CASE TaskRaises(t)
    <3>1. /\ phase[t] \in {"asked", "answered"} /\ phase' = [phase EXCEPT ![t] = "idle"]
          /\ queue' = [queue EXCEPT ![t] = queue[t] + 1] /\ UNCHANGED <<triggered, redelivered>>
      BY <2>5 DEF TaskRaises
    <3>2. queue[t] \in 1..(Dead - 1)
      BY <1>1, <3>1 DEF AttemptsHaveMessages
    <3>3. queue[t] + 1 \in NoMessage..Dead
      BY <1>3, <3>2
    <3>4. queue' \in [Tasks -> NoMessage..Dead] /\ \A s \in Tasks : s # t => queue'[s] = queue[s]
      <4> DEFINE n == queue[t] + 1
      <4>1. n \in NoMessage..Dead /\ queue' = [queue EXCEPT ![t] = n]
        BY <3>1, <3>3
      <4> HIDE DEF n
      <4>2. QED
        BY <1>1, <4>1
    <3>5. /\ phase' \in [Actors -> {"idle", "asked", "answered", "written", "unchanged", "failed"}]
          /\ phase'[t] = "idle" /\ \A b \in Actors : b # t => phase'[b] = phase[b]
      BY <1>1, <1>2, <3>1
    <3>6. QED
      BY <1>1, <2>1, <3>1, <3>4, <3>5, RestKeepsInv
  <2>6. CASE Redeliver(t)
    <3>1. /\ redelivered < MaxRedeliveries /\ redelivered' = redelivered + 1
          /\ phase' = [phase EXCEPT ![t] = "idle"] /\ queue' = [queue EXCEPT ![t] = 1]
          /\ UNCHANGED triggered
      BY <2>6 DEF Redeliver
    <3>2. redelivered' \in 0..MaxRedeliveries
      BY <1>1, <1>3, <3>1
    <3>3. queue' \in [Tasks -> NoMessage..Dead] /\ \A s \in Tasks : s # t => queue'[s] = queue[s]
      BY <1>1, <1>3, <3>1
    <3>4. /\ phase' \in [Actors -> {"idle", "asked", "answered", "written", "unchanged", "failed"}]
          /\ phase'[t] = "idle" /\ \A b \in Actors : b # t => phase'[b] = phase[b]
      BY <1>1, <1>2, <3>1
    <3>5. QED
      BY <1>1, <2>1, <3>1, <3>2, <3>3, <3>4, RestKeepsInv
  <2>7. QED
    BY <1>5, <2>2, <2>3, <2>4, <2>5, <2>6
<1>6. QED
  BY <1>4, <1>5

\* The columns are read.
LEMMA ReadStep ==
    ASSUME IssuesInv, NEW a \in Actors, ReadsColumns(a), a \in Tasks => queue[a] \notin {NoMessage, Dead},
           UNCHANGED <<columns, queue, triggered, redelivered, reported, shifted>>
    PROVE  IssuesInv'
<1> DEFINE r == [issues |-> issues, format |-> format, achievements |-> achievements, answer |-> NoAnswer]
<1>1. /\ UNCHANGED <<issues, format, achievements, queue, triggered, redelivered, reported, shifted>>
      /\ UNCHANGED <<columns, reported, shifted>>
  BY DEF columns
<1>2. ColumnsTyped /\ AttemptsHaveMessages /\ IssuesTypeOK
  BY DEF IssuesInv, ColumnsTyped
<1>3. /\ phase' \in [Actors -> {"idle", "asked", "answered", "written", "unchanged", "failed"}]
      /\ \A b \in Actors : b # a => phase'[b] = phase[b]
  BY MoveTyped DEF ReadsColumns
<1>4. r \in ColumnsRead
  BY <1>2, AnswersAreLists DEF ColumnsTyped, IssuesTypeOK, ColumnsRead, NoAnswer
<1>5. /\ r.issues = issues /\ r.format = format /\ r.achievements = achievements
      /\ local' = [local EXCEPT ![a] = r] /\ stale' = stale \ {a}
  BY DEF ReadsColumns
<1> HIDE DEF r
<1>6. /\ local' \in [Actors -> ColumnsRead] /\ local'[a] = r /\ \A b \in Actors : b # a => local'[b] = local[b]
  BY <1>2, <1>4, <1>5 DEF ColumnsTyped
<1>7. ColumnsTyped'
  BY <1>1, <1>2, <1>3, <1>5, <1>6 DEF ColumnsTyped, IssuesTypeOK
<1>8. AttemptsHaveMessages'
  <2>1. a \in Tasks => queue[a] \in 1..(Dead - 1)
    <3>1. \A n \in NoMessage..Dead : n \notin {NoMessage, Dead} => n \in 1..(Dead - 1)
      BY BoundsAssumption DEF NoMessage, Dead
    <3>2. a \in Tasks => queue[a] \in NoMessage..Dead
      BY <1>2 DEF IssuesTypeOK
    <3>3. QED
      BY <3>1, <3>2
  <2>2. QED
    BY <1>1, <1>2, <1>3, <2>1 DEF AttemptsHaveMessages, Actors
<1>9. \A b \in Actors : phase'[b] \in {"asked", "answered"} => ReadsKept(b)
  <2>1. ReadsKept(a)
    BY <1>5, <1>6 DEF ReadsKept
  <2>2. ASSUME NEW b \in Actors, b # a, phase'[b] \in {"asked", "answered"} PROVE ReadsKept(b)
    BY <1>3, <1>5, <1>6, <2>2 DEF ReadsKept, SameRead, Asking
  <2>3. QED
    BY <2>1, <2>2
<1>10. ReadsAreCurrent' /\ FrequenciesRead'
  BY <1>1, <1>9, NothingWritten
<1>11. QED
  BY <1>7, <1>8, <1>10 DEF IssuesInv

\* The model answers.
LEMMA AnswerStep ==
    ASSUME IssuesInv, NEW a \in Actors, Moves(a, "asked", "answered"),
           NEW new \in Seq(AllIssues), NEW resolved \in Seq(AllIssues),
           local' = [local EXCEPT ![a].answer = [new |-> new, resolved |-> resolved]],
           UNCHANGED <<columns, queue, triggered, redelivered, issueHistory>>
    PROVE  IssuesInv'
<1> DEFINE r == [issues |-> local[a].issues, format |-> local[a].format,
                 achievements |-> local[a].achievements,
                 answer |-> [new |-> new, resolved |-> resolved]]
<1>1. /\ UNCHANGED <<issues, format, achievements, queue, triggered, redelivered, reported, shifted, stale>>
      /\ UNCHANGED <<columns, reported, shifted>>
  BY DEF columns, issueHistory
<1>2. ColumnsTyped /\ AttemptsHaveMessages /\ IssuesTypeOK
  BY DEF IssuesInv, ColumnsTyped
<1>3. /\ phase' \in [Actors -> {"idle", "asked", "answered", "written", "unchanged", "failed"}]
      /\ phase[a] = "asked" /\ \A b \in Actors : b # a => phase'[b] = phase[b]
  BY MoveTyped
<1>4. local[a] \in ColumnsRead
  BY ReadTyped
<1>5. r \in ColumnsRead /\ SameRead(r, local[a])
  BY <1>4 DEF ColumnsRead, SameRead
<1>6. /\ local' \in [Actors -> ColumnsRead] /\ local'[a] = r /\ \A b \in Actors : b # a => local'[b] = local[b]
  <2>1. [local[a] EXCEPT !.answer = [new |-> new, resolved |-> resolved]] = r
    BY <1>4, SMTT(30) DEF ColumnsRead
  <2>2. local' = [local EXCEPT ![a] = [local[a] EXCEPT !.answer = [new |-> new, resolved |-> resolved]]]
    OBVIOUS
  <2>3. local' = [local EXCEPT ![a] = r]
    BY <2>1, <2>2
  <2> HIDE DEF r
  <2>4. QED
    BY <1>2, <1>5, <2>3 DEF ColumnsTyped
<1> HIDE DEF r
<1>7. ColumnsTyped'
  BY <1>1, <1>2, <1>3, <1>6 DEF ColumnsTyped, IssuesTypeOK
<1>8. AttemptsHaveMessages'
  BY <1>1, <1>2, <1>3 DEF AttemptsHaveMessages, Actors
<1>9. \A b \in Actors : phase'[b] \in {"asked", "answered"} => ReadsKept(b)
  <2>1. ReadsKept(a)
    BY <1>1, <1>3, <1>5, <1>6 DEF ReadsKept, Asking
  <2>2. ASSUME NEW b \in Actors, b # a, phase'[b] \in {"asked", "answered"} PROVE ReadsKept(b)
    BY <1>1, <1>3, <1>6, <2>2 DEF ReadsKept, SameRead, Asking
  <2>3. QED
    BY <2>1, <2>2
<1>10. ReadsAreCurrent' /\ FrequenciesRead'
  BY <1>1, <1>9, NothingWritten
<1>11. QED
  BY <1>7, <1>8, <1>10 DEF IssuesInv

\* The columns are written, with what an answer adds.
LEMMA WriteStep ==
    ASSUME IssuesInv, NEW a \in Actors, Moves(a, "answered", "written"),
           issues' \in Issues, format' \in {"object", "text"}, achievements' \in Seq(Achievement),
           NEW new \in Issues, Wrote(a, new), shifted' \in BOOLEAN, shifted => shifted',
           queue' \in [Tasks -> NoMessage..Dead], \A t \in Tasks : t # a => queue'[t] = queue[t],
           UNCHANGED <<local, triggered, redelivered>>,
           ~shifted' => \A t \in Types :
               TypeFrequency(issues', t) <= reported[t] + TypeFrequency(new, t)
    PROVE  IssuesInv'
<1>1. ColumnsTyped /\ AttemptsHaveMessages /\ IssuesTypeOK /\ FrequenciesRead
  BY DEF IssuesInv, ColumnsTyped
<1>2. /\ phase' \in [Actors -> {"idle", "asked", "answered", "written", "unchanged", "failed"}]
      /\ phase[a] = "answered" /\ phase'[a] = "written"
      /\ \A b \in Actors : b # a => phase'[b] = phase[b]
  BY MoveTyped
<1>3. /\ stale' = stale \cup (Asking \ {a})
      /\ reported' = [t \in Types |-> reported[t] + TypeFrequency(new, t)]
  BY DEF Wrote
<1>4. ASSUME NEW t \in Types
      PROVE  /\ reported[t] \in Nat /\ TypeFrequency(new, t) \in Nat
             /\ reported'[t] = reported[t] + TypeFrequency(new, t)
             /\ reported[t] + TypeFrequency(new, t) \in Nat
  <2>1. reported[t] \in Nat
    BY <1>1 DEF ColumnsTyped
  <2>2. TypeFrequency(new, t) \in Nat
    BY FrequencyIsShare, ShareIsNat
  <2> DEFINE m == TypeFrequency(new, t)
             n == reported[t]
  <2>3. reported'[t] = n + m /\ m \in Nat /\ n \in Nat
    BY <1>3, <2>1, <2>2
  <2> HIDE DEF m, n
  <2>4. n + m \in Nat
    BY <2>3
  <2>5. QED
    BY <2>3, <2>4 DEF m, n
<1>5. reported' \in [Types -> Nat]
  <2> DEFINE f(t) == reported[t] + TypeFrequency(new, t)
  <2>1. reported' = [t \in Types |-> f(t)] /\ \A t \in Types : f(t) \in Nat
    BY <1>3, <1>4
  <2> HIDE DEF f
  <2>2. QED
    BY <2>1
<1>6. Asking' = Asking \ {a}
  BY <1>2 DEF Asking
<1>7. IssuesTypeOK'
  <2>1. \A i \in DOMAIN issues' : /\ issues'[i].type \in Types
                                  /\ issues'[i].description \in Descriptions
                                  /\ issues'[i].frequency \in Nat \ {0}
    <3> DEFINE l == issues'
    <3>1. l \in Issues
      OBVIOUS
    <3> HIDE DEF l
    <3>2. \A i \in DOMAIN l : l[i] \in Issue
      BY <3>1, ListFacts
    <3>3. \A i \in DOMAIN l : l[i].type \in Types /\ l[i].description \in Descriptions
                              /\ l[i].frequency \in Nat \ {0}
      BY <3>2 DEF Issue
    <3>4. QED
      BY <3>3 DEF l
  <2>2. stale' \subseteq Actors
    BY <1>1, <1>3 DEF IssuesTypeOK, Asking
  <2>3. QED
    BY <1>1, <1>2, <2>1, <2>2 DEF IssuesTypeOK
<1>8. ColumnsTyped'
  BY <1>1, <1>5, <1>7 DEF ColumnsTyped
<1>9. AttemptsHaveMessages'
  BY <1>1, <1>2 DEF AttemptsHaveMessages, Actors
<1>10. ReadsAreCurrent'
  BY <1>3, <1>6 DEF ReadsAreCurrent
<1>11. ASSUME ~shifted', NEW t \in Types
       PROVE  /\ TypeFrequency(issues', t) <= reported'[t]
              /\ \A b \in Asking' : TypeFrequency(local'[b].issues, t) <= reported'[t]
  <2>1. TypeFrequency(issues', t) <= reported'[t]
    BY <1>4, <1>11
  <2>2. ASSUME NEW b \in Asking' PROVE TypeFrequency(local'[b].issues, t) <= reported'[t]
    <3>1. b \in Asking /\ b \in Actors /\ ~shifted /\ local'[b] = local[b]
      BY <1>6, <1>11, <2>2 DEF Asking
    <3>2. TypeFrequency(local[b].issues, t) <= reported[t]
      BY <1>1, <3>1 DEF FrequenciesRead
    <3>3. TypeFrequency(local[b].issues, t) \in Nat
      BY <3>1, ReadTyped, FrequencyIsShare, ShareIsNat
    <3> DEFINE x == TypeFrequency(local[b].issues, t)
               m == TypeFrequency(new, t)
               n == reported[t]
               k == reported'[t]
    <3>4. x <= n /\ x \in Nat /\ n \in Nat /\ m \in Nat /\ k = n + m
      BY <1>4, <3>2, <3>3
    <3> HIDE DEF x, m, n, k
    <3>5. x <= k
      BY <3>4
    <3>6. QED
      BY <3>1, <3>5 DEF x, k
  <2>3. QED
    BY <2>1, <2>2
<1>12. FrequenciesRead'
  BY <1>11 DEF FrequenciesRead
<1>13. QED
  BY <1>8, <1>9, <1>10, <1>12 DEF IssuesInv

\* What an actor holds counts no more than was reported.
LEMMA HeldIsReported ==
    ASSUME IssuesInv, NEW a \in Actors, phase[a] = "answered", ~shifted, NEW t \in Types
    PROVE  /\ TypeFrequency(local[a].issues, t) <= reported[t]
           /\ TypeFrequency(Held(a), t) <= reported[t]
<1>1. a \in Asking
  BY DEF Asking
<1>2. TypeFrequency(local[a].issues, t) <= reported[t]
  BY <1>1 DEF IssuesInv, FrequenciesRead
<1>3. TypeFrequency(<<>>, t) = 0
  BY FrequencyIsShare, ShareOfNone
<1>4. reported[t] \in Nat
  BY DEF IssuesInv, ColumnsTyped
<1>5. 0 <= reported[t]
  BY <1>4
<1>6. QED
  BY <1>2, <1>3, <1>5 DEF Held

LEMMA AnalysisStep ==
    ASSUME IssuesInv, NEW a \in Analyses, WriteAnalysis(a)
    PROVE  IssuesInv' /\ DisappearResolved /\ AchievementsStay
<1> DEFINE held == Held(a)
           new == local[a].answer.new
           resolved == local[a].answer.resolved
           m == MergedIssues(a)
<1>1. /\ Moves(a, "answered", "written") /\ m # Raised /\ issues' = m /\ format' = "object"
      /\ achievements' = process_achievements(local[a].achievements, <<Earned>>, resolved)
      /\ shifted' = (shifted \/ ~Unambiguous(held, new, resolved))
      /\ Wrote(a, new) /\ UNCHANGED <<local, queue, triggered, redelivered>>
  BY DEF WriteAnalysis
<1>2. a \in Actors /\ a \notin Tasks
  BY ActorsAssumption DEF Actors
<1>3. /\ held \in Issues /\ new \in Issues /\ resolved \in Issues /\ resolved \in Seq(AllIssues)
      /\ local[a].achievements \in Seq(Achievement)
  BY <1>2, ReadTyped
<1>4. phase[a] = "answered" /\ phase'[a] = "written" /\ a \in Asking
  BY <1>1, <1>2, MoveTyped DEF Asking
<1>5. m = process_issues(held, new, resolved)
  BY DEF MergedIssues
<1>6. /\ Keys(local[a].achievements) \subseteq Keys(achievements')
      /\ achievements' \in Seq(Achievement)
  BY <1>1, <1>3, AnswersAreLists, EarnedStays
<1>7. ColumnsTyped /\ IssuesTypeOK /\ ReadsAreCurrent
  BY DEF IssuesInv, ColumnsTyped
<1> HIDE DEF held, new, resolved, m
<1>8. m \in Issues
  BY <1>1, <1>3, <1>5, MergeType DEF Lists
<1>9. Unambiguous(held, new, resolved) =>
        /\ \A K : Share(m, K) <= Share(held, K) + Share(new, K)
        /\ Keys(held) \ Keys(resolved) \subseteq Keys(m)
  BY <1>3, <1>5, MergeIs
<1>10. ASSUME ~shifted', NEW t \in Types
       PROVE  TypeFrequency(issues', t) <= reported[t] + TypeFrequency(new, t)
  <2>1. ~shifted /\ Unambiguous(held, new, resolved)
    BY <1>1, <1>10
  <2>2. TypeFrequency(held, t) <= reported[t] /\ reported[t] \in Nat
    BY <1>2, <1>4, <1>7, <2>1, HeldIsReported DEF held, ColumnsTyped
  <2>3. Share(m, OfType(t)) <= Share(held, OfType(t)) + Share(new, OfType(t))
    BY <1>9, <2>1
  <2>4. /\ TypeFrequency(m, t) = Share(m, OfType(t)) /\ TypeFrequency(new, t) = Share(new, OfType(t))
        /\ TypeFrequency(held, t) = Share(held, OfType(t))
        /\ Share(m, OfType(t)) \in Nat /\ Share(new, OfType(t)) \in Nat /\ Share(held, OfType(t)) \in Nat
    BY <1>3, <1>8, FrequencyIsShare, ShareIsNat
  <2> DEFINE x == TypeFrequency(m, t)
             y == TypeFrequency(held, t)
             z == TypeFrequency(new, t)
             n == reported[t]
  <2>5. x <= y + z /\ y <= n /\ x \in Nat /\ y \in Nat /\ z \in Nat /\ n \in Nat
    BY <2>2, <2>3, <2>4
  <2> HIDE DEF x, y, z, n
  <2>6. x <= n + z
    BY <2>5
  <2>7. QED
    BY <1>1, <2>6 DEF x, z, n
<1>11. shifted' \in BOOLEAN /\ (shifted => shifted')
  BY <1>1
<1>12. IssuesInv'
  <2>1. queue' \in [Tasks -> NoMessage..Dead] /\ (\A t \in Tasks : t # a => queue'[t] = queue[t])
        /\ UNCHANGED <<local, triggered, redelivered>>
    BY <1>1, <1>7 DEF IssuesTypeOK
  <2>2. issues' \in Issues /\ format' \in {"object", "text"}
    BY <1>1, <1>8
  <2>3. QED
    BY <1>1, <1>2, <1>3, <1>6, <1>10, <1>11, <2>1, <2>2, WriteStep
<1>13. DisappearResolved
  <2>1. ASSUME NEW k \in Keys(issues) \ Keys(issues')
        PROVE  k \in Keys(resolved) \/ a \in stale \/ local[a].format = "text" \/ shifted'
    <3>1. SUFFICES ASSUME k \notin Keys(resolved), a \notin stale, local[a].format # "text", ~shifted'
                   PROVE  FALSE
      OBVIOUS
    <3>2. local[a].issues = issues /\ local[a].format = format
      BY <1>4, <1>7, <3>1 DEF ReadsAreCurrent
    <3>3. format # "null"
      <4>1. issues # <<>>
        BY <2>1 DEF Keys
      <4>2. QED
        BY <1>7, <4>1 DEF IssuesTypeOK
    <3>4. held = issues
      BY <1>7, <3>1, <3>2, <3>3 DEF held, Held, IssuesTypeOK
    <3>5. Keys(issues) \ Keys(resolved) \subseteq Keys(m)
      BY <1>1, <1>9, <3>1, <3>4
    <3>6. QED
      BY <1>1, <2>1, <3>1, <3>5
  <2>2. QED
    BY <1>2, <1>4, <2>1 DEF DisappearResolved, resolved
<1>14. AchievementsStay
  <2>1. a \notin stale => local[a].achievements = achievements
    BY <1>4, <1>7 DEF ReadsAreCurrent
  <2>2. QED
    BY <1>4, <1>6, <2>1 DEF AchievementsStay
<1>15. QED
  BY <1>12, <1>13, <1>14

LEMMA CommitStep ==
    ASSUME IssuesInv, NEW a \in Tasks, CommitTask(a)
    PROVE  IssuesInv' /\ DisappearResolved /\ AchievementsStay
<1> DEFINE list == local[a].issues
           new == local[a].answer.new
           m == FoldLeft(AddByType, list, new)
<1>1. /\ Moves(a, "answered", "written") /\ issues' = m /\ format' = "text"
      /\ queue' = [queue EXCEPT ![a] = NoMessage]
      /\ Wrote(a, new) /\ UNCHANGED <<achievements, local, triggered, redelivered, shifted>>
  BY DEF CommitTask
<1>2. a \in Actors
  BY DEF Actors
<1>3. list \in Issues /\ new \in Issues /\ new \in Seq(AllIssues)
  BY <1>2, ReadTyped
<1>4. phase[a] = "answered" /\ phase'[a] = "written" /\ a \in Asking
  BY <1>1, <1>2, MoveTyped DEF Asking
<1>5. ColumnsTyped /\ IssuesTypeOK /\ ReadsAreCurrent
  BY DEF IssuesInv, ColumnsTyped
<1>6. /\ m \in Issues /\ Keys(list) \subseteq Keys(m)
      /\ \A t : Share(m, OfType(t)) = Share(list, OfType(t)) + Share(new, OfType(t))
  <2> HIDE DEF list, new
  <2>1. QED
    BY <1>3, TypesAdded
<1> HIDE DEF list, new, m
<1>7. ASSUME ~shifted', NEW t \in Types
      PROVE  TypeFrequency(issues', t) <= reported[t] + TypeFrequency(new, t)
  <2>1. TypeFrequency(list, t) <= reported[t] /\ reported[t] \in Nat
    BY <1>1, <1>2, <1>4, <1>5, <1>7, HeldIsReported DEF list, ColumnsTyped
  <2>2. /\ TypeFrequency(m, t) = Share(m, OfType(t)) /\ TypeFrequency(new, t) = Share(new, OfType(t))
        /\ TypeFrequency(list, t) = Share(list, OfType(t))
        /\ Share(m, OfType(t)) \in Nat /\ Share(new, OfType(t)) \in Nat /\ Share(list, OfType(t)) \in Nat
    BY <1>3, <1>6, FrequencyIsShare, ShareIsNat
  <2> DEFINE x == TypeFrequency(m, t)
             y == TypeFrequency(list, t)
             z == TypeFrequency(new, t)
             n == reported[t]
  <2>3. x = y + z /\ y <= n /\ y \in Nat /\ z \in Nat /\ n \in Nat
    BY <1>6, <2>1, <2>2
  <2> HIDE DEF x, y, z, n
  <2>4. x <= n + z
    BY <2>3
  <2>5. QED
    BY <1>1, <2>4 DEF x, z, n
<1>8. shifted' \in BOOLEAN /\ (shifted => shifted') /\ achievements' \in Seq(Achievement)
  BY <1>1, <1>5 DEF ColumnsTyped
<1>9. IssuesInv'
  <2>1. queue' \in [Tasks -> NoMessage..Dead] /\ \A t \in Tasks : t # a => queue'[t] = queue[t]
    <3>1. NoMessage \in NoMessage..Dead
      BY BoundsAssumption DEF NoMessage, Dead
    <3>2. QED
      BY <1>1, <1>5, <3>1 DEF IssuesTypeOK
  <2>2. issues' \in Issues /\ format' \in {"object", "text"} /\ UNCHANGED <<local, triggered, redelivered>>
    BY <1>1, <1>6
  <2>3. QED
    BY <1>1, <1>2, <1>3, <1>7, <1>8, <2>1, <2>2, WriteStep
<1>10. DisappearResolved
  <2>1. a \notin stale => list = issues
    BY <1>4, <1>5 DEF ReadsAreCurrent, list
  <2>2. a \notin stale => Keys(issues) \subseteq Keys(issues')
    BY <1>1, <1>6, <2>1
  <2>3. QED
    BY <1>2, <1>4, <2>2 DEF DisappearResolved
<1>11. AchievementsStay
  BY <1>1 DEF AchievementsStay
<1>12. QED
  BY <1>9, <1>10, <1>11

\* The rest leaves the columns.
LEMMA ColumnsStay ==
    UNCHANGED <<issues, achievements>> => DisappearResolved /\ AchievementsStay
BY DEF DisappearResolved, AchievementsStay

LEMMA IssuesStep == IssuesInv /\ [IssuesNext]_issueVars
                      => IssuesInv' /\ [DisappearResolved /\ AchievementsStay]_issueVars
<1>1. SUFFICES ASSUME IssuesInv, [IssuesNext]_issueVars
               PROVE  IssuesInv' /\ DisappearResolved /\ AchievementsStay
  OBVIOUS
<1>2. Analyses \subseteq Actors /\ Tasks \subseteq Actors /\ \A a \in Analyses : a \notin Tasks
  BY ActorsAssumption DEF Actors
<1>3. CASE UNCHANGED issueVars
  <2>1. /\ UNCHANGED <<issues, format, achievements, phase, local, queue, triggered, redelivered>>
        /\ UNCHANGED <<reported, shifted, stale>>
    BY <1>3 DEF issueVars, columns, issueHistory
  <2>2. IssuesInv'
    BY <1>1, <2>1 DEF IssuesInv, ColumnsTyped, IssuesTypeOK, AttemptsHaveMessages, ReadsAreCurrent,
                      FrequenciesRead, Asking
  <2>3. QED
    BY <2>1, <2>2, ColumnsStay
<1>4. ASSUME NEW a \in Analyses, ReadCourse(a) PROVE IssuesInv' /\ UNCHANGED columns
  BY <1>1, <1>2, <1>4, ReadStep DEF ReadCourse
<1>5. ASSUME NEW a \in Analyses, Answer(a) PROVE IssuesInv' /\ UNCHANGED columns
  <2>1. PICK new \in UpToTwo(AllIssues), resolved \in UpToTwo(AllIssues) :
          local' = [local EXCEPT ![a].answer = [new |-> new, resolved |-> resolved]]
    BY <1>5 DEF Answer
  <2>2. new \in Seq(AllIssues) /\ resolved \in Seq(AllIssues)
    BY AnswersAreLists
  <2>3. /\ Moves(a, "asked", "answered") /\ UNCHANGED columns
        /\ UNCHANGED <<columns, queue, triggered, redelivered, issueHistory>>
    BY <1>5 DEF Answer
  <2>4. QED
    BY <1>1, <1>2, <2>1, <2>2, <2>3, AnswerStep
<1>6. ASSUME NEW a \in Analyses, NoUsefulAnswer(a) \/ MergeRaises(a) PROVE IssuesInv' /\ UNCHANGED columns
  BY <1>1, <1>6, RestStep DEF NoUsefulAnswer, MergeRaises
<1>7. ASSUME NEW t \in Tasks, StartTask(t) PROVE IssuesInv' /\ UNCHANGED columns
  BY <1>1, <1>2, <1>7, ReadStep DEF StartTask
<1>8. ASSUME NEW t \in Tasks, AnswerTask(t) PROVE IssuesInv' /\ UNCHANGED columns
  <2>1. PICK new \in UpToTwo(AllIssues) :
          local' = [local EXCEPT ![t].answer = [new |-> new, resolved |-> <<>>]]
    BY <1>8 DEF AnswerTask
  <2>2. new \in Seq(AllIssues) /\ <<>> \in Seq(AllIssues)
    BY AnswersAreLists
  <2>3. /\ Moves(t, "asked", "answered") /\ UNCHANGED columns
        /\ UNCHANGED <<columns, queue, triggered, redelivered, issueHistory>>
    BY <1>8 DEF AnswerTask
  <2>4. QED
    BY <1>1, <1>2, <2>1, <2>2, <2>3, AnswerStep
<1>9. ASSUME NEW t \in Tasks,
             SubmissionDecided(t) \/ SendTask(t) \/ GiveUp(t) \/ CommitUnchanged(t) \/ TaskRaises(t)
                 \/ Redeliver(t)
      PROVE  IssuesInv' /\ UNCHANGED columns
  BY <1>1, <1>9, RestStep DEF SubmissionDecided, SendTask, GiveUp, CommitUnchanged, TaskRaises, Redeliver
<1>10. UNCHANGED columns => DisappearResolved /\ AchievementsStay
  BY ColumnsStay DEF columns
<1>11. QED
  BY <1>1, <1>3, <1>4, <1>5, <1>6, <1>7, <1>8, <1>9, <1>10, AnalysisStep, CommitStep DEF IssuesNext

\* The types of the summary and its readers, the values of the columns among them, in every
\* reachable state.
THEOREM IssuesTypesHold == IssuesSpec => []IssuesTypeOK
<1>1. IssuesInv => IssuesTypeOK
  BY DEF IssuesInv, ColumnsTyped
<1>2. QED
  BY <1>1, IssuesInitInv, IssuesStep, PTL DEF IssuesSpec

\* process_issues computes the merge it is for (module.py), on lists of any length, unless
\* they are ambiguous.
THEOREM MergesAreRight == IssuesSpec => []MergeIsReference
<1>1. ASSUME IssuesInv PROVE MergeIsReference
  <2>1. ASSUME NEW a \in Analyses, Unambiguous(Held(a), local[a].answer.new, local[a].answer.resolved)
        PROVE  AsFunction(MergedIssues(a)) = Merged(Held(a), local[a].answer.new, local[a].answer.resolved)
    <3>1. a \in Actors
      BY DEF Actors
    <3> DEFINE held == Held(a)
               new == local[a].answer.new
               resolved == local[a].answer.resolved
    <3>2. held \in Issues /\ new \in Issues /\ resolved \in Issues
      BY <1>1, <3>1, ReadTyped
    <3>3. Unambiguous(held, new, resolved)
      BY <2>1
    <3>4. MergedIssues(a) = process_issues(held, new, resolved)
      BY DEF MergedIssues
    <3> HIDE DEF held, new, resolved
    <3>5. AsFunction(process_issues(held, new, resolved)) = Merged(held, new, resolved)
      BY <3>2, <3>3, MergeIs
    <3>6. QED
      BY <3>4, <3>5 DEF held, new, resolved
  <2>2. QED
    BY <2>1 DEF MergeIsReference
<1>2. QED
  BY <1>1, IssuesInitInv, IssuesStep, PTL DEF IssuesSpec

\* No type of issues ever counts more than the models reported of it, whatever is retried,
\* delivered again or overwritten, as long as no merge misplaced an issue.
THEOREM FrequenciesStayReported == IssuesSpec => []FrequenciesAreReported
<1>1. IssuesInv => FrequenciesAreReported
  BY DEF IssuesInv, FrequenciesRead, FrequenciesAreReported
<1>2. QED
  BY <1>1, IssuesInitInv, IssuesStep, PTL DEF IssuesSpec

\* In every step only what is resolved disappears, and no achievement, but for the writers
\* that read before another wrote (module.py:689).
THEOREM IssuesDisappearResolved == IssuesSpec => OnlyResolvedDisappear
BY IssuesInitInv, IssuesStep, PTL DEF IssuesSpec, OnlyResolvedDisappear

-----------------------------------------------------------------------------
(* The scenes.                                                             *)

\* Whichever scene is played, conversations, chunks, summaries and their requests keep their
\* types (controllers/exercises.py, chunk_manager.py, update_issues_summary.py): a scene is
\* a behaviour of one component beside which the others rest.
THEOREM ScenesKeepTypes == MCSpec => []TypesOK
<1>1. MCSpec => []ConversationInv
  <2>1. MCInit => Init
    BY DEF MCInit, AskedInit
  <2>2. [MCNext]_<<scene, vars, chunkVars, issueVars>> => [Next]_vars
    BY DEF MCNext
  <2>3. QED
    BY <2>1, <2>2, ConversationInit, ConversationStep, PTL DEF MCSpec
<1>2. MCSpec => []ChunkInv
  <2>1. MCInit => ChunksInit
    BY DEF MCInit, DataInit
  <2>2. [MCNext]_<<scene, vars, chunkVars, issueVars>> => [ChunksNext]_chunkVars
    BY DEF MCNext
  <2>3. QED
    BY <2>1, <2>2, ChunksInitInv, ChunksNextInv, PTL DEF MCSpec
<1>3. MCSpec => []IssuesInv
  <2>1. MCInit => IssuesInit
    BY DEF MCInit
  <2>2. [MCNext]_<<scene, vars, chunkVars, issueVars>> => [IssuesNext]_issueVars
    BY DEF MCNext
  <2>3. QED
    BY <2>1, <2>2, IssuesInitInv, IssuesStep, PTL DEF MCSpec
<1>4. ConversationInv /\ ChunkInv /\ IssuesInv => TypesOK
  BY DEF ConversationInv, ChunkInv, IssuesInv, ColumnsTyped, TypesOK
<1>5. QED
  BY <1>1, <1>2, <1>3, <1>4, PTL

=============================================================================
