---------------------------- MODULE People_proofs ----------------------------
(***************************************************************************)
(* Proofs about Accounts, for any sets of requests, codes and passwords,   *)
(* and about UserDirectory, for any users, of which there are finitely     *)
(* many, and any requests.                                                 *)
(*                                                                         *)
(* Of a directory the invariant says how far each request has come and     *)
(* what the rows owe to it: a creation the users that it has made, alone;  *)
(* an edit the fields that nobody else gives; a list the users of the      *)
(* tables behind it, and a count their number.  It is kept because a step  *)
(* moves the rows one way only: users come, none goes, and the status of   *)
(* one that is changed at most once does not change after it has settled.  *)
(***************************************************************************)
EXTENDS MCPeople, FiniteSetTheorems, TLAPS

-----------------------------------------------------------------------------
(* The inductive invariant of the accounts.                                *)

\* What a request that is going to write has read, and whether it brings a code.
Prepared(q) ==
    /\ seen[q] # NoRow => account[Table(q)] # NoRow
    /\ \/ call[q].kind = "login" /\ seen[q] = NoRow /\ code[q] \in Codes
       \/ /\ call[q].kind = "login" /\ seen[q] # NoRow /\ seen[q].password # "unset"
          /\ ~ seen[q].verified /\ code[q] \in Codes
       \/ call[q].kind \in {"resend", "forgot"} /\ seen[q] # NoRow /\ code[q] \in Codes
       \/ /\ pc[q] = "write" /\ seen[q] # NoRow /\ code[q] = NoCode
          /\ \/ call[q].kind = "login" /\ seen[q].password = "unset"
             \/ call[q].kind \in {"verify", "verifyReset"}
             \/ /\ call[q].kind = "reset" /\ seen[q].rcode = call[q].code
                /\ [purpose |-> "reset", code |-> call[q].code] \in mailed

RequestInv(q) ==
    /\ pc[q] \in {"idle", "lookup", "read"} => code[q] = NoCode
    /\ pc[q] \in {"mail", "write"} => Prepared(q)
    /\ pc[q] = "write" /\ code[q] # NoCode => [purpose |-> Purpose(q), code |-> code[q]] \in mailed

\* The last mail of an undisturbed purpose is stored, or about to be by the only request
\* that is storing a code.
MailInv(p) ==
    latest[p] # NoMail /\ ~ disturbed[p] =>
        \/ /\ Storing(p) = {}
           /\ \A t \in Tables : t = latest[p].table => StoredCode(t, p) = latest[p].code
        \/ \E q \in Requests :
              Storing(p) = {q} /\ code[q] = latest[p].code /\ Table(q) = latest[p].table

IInv ==
    /\ TypeOK
    /\ \A q \in Requests : RequestInv(q)
    /\ CodesReachTheUser
    /\ \A p \in Purposes : MailInv(p)

-----------------------------------------------------------------------------
(* Values, and what a step of one request leaves of the others.            *)

Places == {"idle", "lookup", "read", "mail", "write", "refused", "failed", "ok", "tokens"}

Same(x) == /\ pc'[x] = pc[x] /\ call'[x] = call[x] /\ role'[x] = role[x]
           /\ seen'[x] = seen[x] /\ code'[x] = code[x]

\* Whether a request has mailed a code that it has not stored yet.
Brings(q) == pc[q] = "write" /\ code[q] # NoCode

LEMMA Values ==
    /\ NewRow \in Rows /\ NoRow \notin Rows
    /\ NewRow.vcode = NoCode /\ NewRow.rcode = NoCode
    /\ NoMail \notin [code : Codes, table : Tables]
<1>1. NewRow \in Rows /\ NewRow.vcode = NoCode /\ NewRow.rcode = NoCode
  BY DEF NewRow, Rows
<1>2. NoRow \notin Rows
  BY DEF NoRow, Rows
<1>3. NoMail \notin [code : Codes, table : Tables]
  BY ValuesAssumption DEF NoMail
<1>4. QED
  BY <1>1, <1>2, <1>3

LEMMA TableType ==
    ASSUME TypeOK, NEW q \in Requests
    PROVE  Table(q) \in Tables /\ Purpose(q) \in Purposes
BY DEF TypeOK, Table, Purpose, Tables, Purposes

LEMMA InitInv == Init => IInv
<1> SUFFICES ASSUME Init PROVE IInv
  OBVIOUS
<1>1. Earlier \subseteq Rows \cup {NoRow}
  <2>1. \A p \in Passwords, c \in Codes :
          [NewRow EXCEPT !.password = p, !.vcode = c, !.vlive = TRUE] \in Rows
    BY DEF NewRow, Rows
  <2>2. \A p \in Passwords, c \in Codes :
          [NewRow EXCEPT !.password = p, !.verified = TRUE, !.active = TRUE,
                         !.rcode = c, !.rlive = TRUE] \in Rows
    BY DEF NewRow, Rows
  <2> DEFINE Asked(p, c) == [NewRow EXCEPT !.password = p, !.vcode = c, !.vlive = TRUE]
             Used(p, c) == [NewRow EXCEPT !.password = p, !.verified = TRUE, !.active = TRUE,
                                          !.rcode = c, !.rlive = TRUE]
  <2>3. Earlier = {NoRow, NewRow} \cup {Asked(p, c) : p \in Passwords, c \in Codes}
                                 \cup {Used(p, c) : p \in Passwords, c \in Codes}
    BY DEF Earlier
  <2>4. \A p \in Passwords, c \in Codes : Asked(p, c) \in Rows /\ Used(p, c) \in Rows
    BY <2>1, <2>2
  <2> HIDE DEF Asked, Used
  <2>5. QED
    BY <2>3, <2>4, Values
<1>2. TypeOK
  <2>1. account \in [Tables -> Rows \cup {NoRow}]
    BY <1>1 DEF Init
  <2>2. QED
    BY <2>1 DEF Init, TypeOK
<1>3. \A q \in Requests : RequestInv(q)
  BY DEF Init, RequestInv
<1>4. CodesReachTheUser
  <2> SUFFICES ASSUME NEW t \in Tables, NEW p \in Purposes, StoredCode(t, p) # NoCode
               PROVE  [purpose |-> p, code |-> StoredCode(t, p)] \in mailed
    BY DEF CodesReachTheUser
  <2>1. account[t] \in Rows \cup {NoRow}
    BY <1>2 DEF TypeOK
  <2>2. StoredCode(t, p) \in Codes
    BY <2>1 DEF StoredCode, Rows
  <2>3. QED
    BY <2>2 DEF Init
<1>5. \A p \in Purposes : MailInv(p)
  BY DEF Init, MailInv
<1>6. QED
  BY <1>2, <1>3, <1>4, <1>5 DEF IInv

LEMMA Moved ==
    ASSUME TypeOK, NEW q \in Requests, NEW to \in Places, pc' = [pc EXCEPT ![q] = to]
    PROVE  /\ pc' \in [Requests -> Places] /\ pc'[q] = to
           /\ \A x \in Requests \ {q} : pc'[x] = pc[x]
BY DEF TypeOK, Places

\* What others do leaves a request's reading as it is: rows do not go, mails are not taken back.
LEMMA OthersKeep ==
    ASSUME NEW x \in Requests, RequestInv(x), Same(x), Table(x) \in Tables,
           mailed \subseteq mailed',
           \A t \in Tables : account[t] # NoRow => account'[t] # NoRow
    PROVE  RequestInv(x)'
<1>1. Table(x)' = Table(x) /\ Purpose(x)' = Purpose(x)
  BY DEF Same, Table, Purpose
<1>2. Prepared(x) => Prepared(x)'
  BY <1>1 DEF Prepared, Same
<1>3. QED
  BY <1>1, <1>2 DEF RequestInv, Same

LEMMA StoringKeeps ==
    ASSUME NEW q \in Requests, \A x \in Requests \ {q} : Same(x), NEW p,
           Brings(q) \/ Brings(q)' => Same(q)
    PROVE  Storing(p)' = Storing(p) /\ \A x \in Storing(p) : Same(x)
<1>1. \A x \in Requests : Brings(x)' /\ Purpose(x)' = p <=> Brings(x) /\ Purpose(x) = p
  BY DEF Same, Brings, Purpose
<1>2. Storing(p) = {x \in Requests : Brings(x) /\ Purpose(x) = p}
  BY DEF Storing, Brings
<1>3. Storing(p)' = {x \in Requests : Brings(x)' /\ Purpose(x)' = p}
  BY DEF Storing, Brings
<1>4. QED
  BY <1>1, <1>2, <1>3

LEMMA MailKeeps ==
    ASSUME TypeOK, NEW p \in Purposes, MailInv(p),
           latest'[p] = latest[p], disturbed[p] => disturbed'[p],
           Storing(p)' = Storing(p), \A x \in Storing(p) : Same(x),
           \A t \in Tables : StoredCode(t, p) # NoCode => StoredCode(t, p)' = StoredCode(t, p)
    PROVE  MailInv(p)'
<1> SUFFICES ASSUME latest[p] # NoMail, ~ disturbed[p]
             PROVE  \/ /\ Storing(p) = {}
                       /\ \A t \in Tables : t = latest[p].table => StoredCode(t, p)' = latest[p].code
                    \/ \E q \in Requests : /\ Storing(p) = {q} /\ code'[q] = latest[p].code
                                           /\ Table(q)' = latest[p].table
  BY DEF MailInv
<1>1. latest[p].code \in Codes
  BY DEF TypeOK
<1>2. CASE /\ Storing(p) = {}
           /\ \A t \in Tables : t = latest[p].table => StoredCode(t, p) = latest[p].code
  BY <1>1, <1>2, ValuesAssumption
<1>3. ASSUME NEW q \in Requests, Storing(p) = {q}, code[q] = latest[p].code, Table(q) = latest[p].table
      PROVE  Storing(p) = {q} /\ code'[q] = latest[p].code /\ Table(q)' = latest[p].table
  BY <1>3 DEF Same, Table
<1>4. QED
  BY <1>2, <1>3 DEF MailInv

LEMMA CodesKeep ==
    ASSUME CodesReachTheUser, mailed \subseteq mailed',
           \A t \in Tables, p \in Purposes : StoredCode(t, p)' \in {StoredCode(t, p), NoCode}
    PROVE  CodesReachTheUser'
BY DEF CodesReachTheUser

\* A new row brings no code.
LEMMA NewRowsKeep ==
    ASSUME \A t \in Tables : \/ account'[t] = account[t]
                             \/ account[t] = NoRow /\ account'[t] = NewRow
    PROVE  /\ \A t \in Tables, p \in Purposes : StoredCode(t, p)' = StoredCode(t, p)
           /\ \A t \in Tables : account[t] # NoRow => account'[t] # NoRow
<1> SUFFICES ASSUME NEW t \in Tables, NEW p \in Purposes
             PROVE  /\ StoredCode(t, p)' = StoredCode(t, p)
                    /\ account[t] # NoRow => account'[t] # NoRow
  BY DEF Purposes
<1>1. CASE account'[t] = account[t]
  BY <1>1 DEF StoredCode
<1>2. CASE account[t] = NoRow /\ account'[t] = NewRow
  BY <1>2, Values DEF StoredCode
<1>3. QED
  BY <1>1, <1>2

\* A step that mails and stores nothing.
LEMMA QuietStep ==
    ASSUME IInv, TypeOK', NEW q \in Requests, \A x \in Requests \ {q} : Same(x),
           \A t \in Tables : \/ account'[t] = account[t]
                             \/ account[t] = NoRow /\ account'[t] = NewRow,
           mailed' = mailed, latest' = latest, disturbed' = disturbed,
           ~ Brings(q), ~ Brings(q)', RequestInv(q)'
    PROVE  IInv'
<1> USE DEF IInv
<1>1. /\ \A t \in Tables, p \in Purposes : StoredCode(t, p)' = StoredCode(t, p)
      /\ \A t \in Tables : account[t] # NoRow => account'[t] # NoRow
  BY NewRowsKeep
<1>2. ASSUME NEW x \in Requests PROVE RequestInv(x)'
  <2>1. CASE x = q
    BY <2>1
  <2>2. CASE x # q
    BY <1>1, <2>2, TableType, OthersKeep
  <2>3. QED
    BY <2>1, <2>2
<1>3. CodesReachTheUser'
  BY <1>1, CodesKeep
<1>4. ASSUME NEW p \in Purposes PROVE MailInv(p)'
  BY <1>1, StoringKeeps, MailKeeps
<1>5. QED
  BY <1>2, <1>3, <1>4

-----------------------------------------------------------------------------
(* The lookup and the readings.                                            *)

LEMMA LookupInv ==
    ASSUME IInv, NEW q \in Requests, Start(q) \/ Found(q) \/ AskNextTable(q) \/ NotFound(q)
    PROVE  IInv'
<1> USE DEF IInv
<1>1. /\ mailed' = mailed /\ latest' = latest /\ disturbed' = disturbed
      /\ seen' = seen /\ code' = code /\ pc[q] \in {"idle", "lookup"}
  BY DEF Start, Found, AskNextTable, NotFound, Goto
<1>2. /\ pc' \in [Requests -> Places] /\ pc'[q] \in {"lookup", "read"}
      /\ \A x \in Requests \ {q} : pc'[x] = pc[x]
  BY DEF Start, Found, AskNextTable, NotFound, Goto, TypeOK, Places
<1>3. /\ call' \in [Requests -> Calls \cup {NoCall}]
      /\ \A x \in Requests \ {q} : call'[x] = call[x]
  BY DEF Start, Found, AskNextTable, NotFound, TypeOK
<1>4. /\ role' \in [Requests -> Tables \cup {"none"}]
      /\ \A x \in Requests \ {q} : role'[x] = role[x]
  BY DEF Start, Found, AskNextTable, NotFound, TypeOK, Tables
<1>5. /\ account' \in [Tables -> Rows \cup {NoRow}]
      /\ \A t \in Tables : \/ account'[t] = account[t]
                           \/ account[t] = NoRow /\ account'[t] = NewRow
  <2>1. CASE account' = account
    BY <2>1 DEF TypeOK
  <2>2. CASE account' = [account EXCEPT !["admin"] = NewRow] /\ account["admin"] = NoRow
    BY <2>2, Values DEF TypeOK, Tables
  <2>3. QED
    BY <2>1, <2>2 DEF Start, Found, AskNextTable, NotFound
<1>6. TypeOK'
  BY <1>1, <1>2, <1>3, <1>4, <1>5 DEF TypeOK, Places
<1>7. RequestInv(q)'
  BY <1>1, <1>2 DEF RequestInv
<1>8. ~ Brings(q) /\ ~ Brings(q)' /\ \A x \in Requests \ {q} : Same(x)
  BY <1>1, <1>2, <1>3, <1>4 DEF Brings, Same
<1>9. QED
  BY <1>1, <1>5, <1>6, <1>7, <1>8, QuietStep

\* A reading remembers the row, and has no code before.
LEMMA ReadsFacts ==
    ASSUME IInv, NEW q \in Requests, NEW kinds, NEW to, Reads(q, kinds, to)
    PROVE  /\ call[q].kind \in kinds /\ account' = account /\ mailed' = mailed
           /\ call' = call /\ role' = role /\ latest' = latest /\ disturbed' = disturbed
           /\ pc[q] = "read" /\ pc' = [pc EXCEPT ![q] = to] /\ code[q] = NoCode
           /\ seen'[q] = Row(q) /\ Row(q) \in Rows \cup {NoRow}
           /\ seen' \in [Requests -> Rows \cup {NoRow}]
           /\ \A x \in Requests \ {q} : seen'[x] = seen[x]
           /\ Table(q)' = Table(q) /\ account'[Table(q)] = Row(q)
<1> USE DEF IInv
<1>1. /\ account' = account /\ mailed' = mailed /\ call' = call /\ role' = role
      /\ latest' = latest /\ disturbed' = disturbed /\ call[q].kind \in kinds
      /\ pc[q] = "read" /\ pc' = [pc EXCEPT ![q] = to]
      /\ seen' = [seen EXCEPT ![q] = Row(q)]
  BY DEF Reads, Goto, Row
<1>2. Row(q) \in Rows \cup {NoRow}
  BY TableType DEF Row, TypeOK
<1>3. /\ seen' \in [Requests -> Rows \cup {NoRow}] /\ seen'[q] = Row(q)
      /\ \A x \in Requests \ {q} : seen'[x] = seen[x]
  BY <1>1, <1>2 DEF TypeOK
<1>4. code[q] = NoCode
  BY <1>1 DEF RequestInv
<1>5. Table(q)' = Table(q) /\ account'[Table(q)] = Row(q)
  BY <1>1 DEF Table, Row
<1>6. QED
  BY <1>1, <1>2, <1>3, <1>4, <1>5

\* A code is generated for a mail only.
LEMMA CodeFacts ==
    ASSUME TypeOK, NEW q \in Requests, NewCode(q)
    PROVE  /\ code' \in [Requests -> Codes \cup {NoCode}] /\ code'[q] \in Codes
           /\ \A x \in Requests \ {q} : code'[x] = code[x]
BY DEF TypeOK, NewCode

LEMMA ReadsInv ==
    ASSUME IInv, NEW q \in Requests, NEW kinds, NEW to \in Places, Reads(q, kinds, to),
           \/ NewCode(q) /\ to = "mail"
           \/ NoNewCode /\ to \in {"write", "refused", "ok", "tokens"},
           to \in {"mail", "write"} => Prepared(q)'
    PROVE  IInv'
<1> USE DEF IInv
<1>1. /\ account' = account /\ mailed' = mailed /\ call' = call /\ role' = role
      /\ latest' = latest /\ disturbed' = disturbed /\ pc[q] = "read" /\ code[q] = NoCode
      /\ seen' \in [Requests -> Rows \cup {NoRow}]
      /\ \A x \in Requests \ {q} : seen'[x] = seen[x]
  BY ReadsFacts
<1>2. /\ pc' \in [Requests -> Places] /\ pc'[q] = to
      /\ \A x \in Requests \ {q} : pc'[x] = pc[x]
  BY ReadsFacts, Moved
<1>3. /\ code' \in [Requests -> Codes \cup {NoCode}]
      /\ \A x \in Requests \ {q} : code'[x] = code[x]
      /\ to = "write" => code'[q] = NoCode
  BY <1>1, CodeFacts DEF TypeOK, NoNewCode
<1>4. TypeOK'
  BY <1>1, <1>2, <1>3 DEF TypeOK, Places
<1>5. RequestInv(q)'
  BY <1>2, <1>3 DEF RequestInv
<1>6. ~ Brings(q) /\ ~ Brings(q)' /\ \A x \in Requests \ {q} : Same(x)
  BY <1>1, <1>2, <1>3 DEF Brings, Same
<1>7. QED
  BY <1>1, <1>4, <1>5, <1>6, QuietStep

LEMMA LoginReadsInv ==
    ASSUME IInv, NEW q \in Requests, LoginReads(q)
    PROVE  IInv'
<1>1. CASE Row(q) = NoRow /\ Reads(q, {"login"}, "mail") /\ NewCode(q)
  <2>1. Prepared(q)'
    BY <1>1, ReadsFacts, CodeFacts DEF Prepared, IInv
  <2>2. QED
    BY <1>1, <2>1, ReadsInv DEF Places
<1>2. CASE /\ Row(q) # NoRow /\ Row(q).password = "unset"
           /\ Reads(q, {"login"}, "write") /\ NoNewCode
  <2>1. pc'[q] = "write"
    BY <1>2, ReadsFacts, Moved DEF IInv, Places
  <2>2. Prepared(q)'
    BY <1>2, <2>1, ReadsFacts DEF Prepared, NoNewCode
  <2>3. QED
    BY <1>2, <2>2, ReadsInv DEF Places
<1>3. CASE Reads(q, {"login"}, "refused") /\ NoNewCode
  BY <1>3, ReadsInv DEF Places
<1>4. CASE /\ Row(q) # NoRow /\ Row(q).password = call[q].password /\ ~ Row(q).verified
           /\ Reads(q, {"login"}, "mail") /\ NewCode(q)
  <2>1. call[q].password # "unset"
    <3>1. call[q].kind = "login" /\ call[q] \in Calls \cup {NoCall}
      BY <1>4, ReadsFacts DEF IInv, TypeOK
    <3>2. call[q].password \in Passwords
      BY <3>1 DEF Calls, NoCall
    <3>3. QED
      BY <3>2, ValuesAssumption
  <2>2. Prepared(q)'
    BY <1>4, <2>1, ReadsFacts, CodeFacts DEF Prepared, IInv
  <2>3. QED
    BY <1>4, <2>2, ReadsInv DEF Places
<1>5. CASE Reads(q, {"login"}, "tokens") /\ NoNewCode
  BY <1>5, ReadsInv DEF Places
<1>6. QED
  BY <1>1, <1>2, <1>3, <1>4, <1>5 DEF LoginReads

\* Verification and reset: what was accepted has been mailed.
LEMMA AcceptReadsInv ==
    ASSUME IInv, NEW q \in Requests, VerifyReads(q) \/ ResetReads(q)
    PROVE  IInv'
<1>1. CASE VerifyReads(q)
  <2>1. PICK accepted \in BOOLEAN :
          /\ accepted => Row(q) # NoRow
          /\ Reads(q, {"verify", "verifyReset"}, IF accepted THEN "write" ELSE "refused")
    BY <1>1 DEF VerifyReads
  <2>2. NoNewCode
    BY <1>1 DEF VerifyReads
  <2>3. CASE accepted
    <3>1. Reads(q, {"verify", "verifyReset"}, "write") /\ Row(q) # NoRow
      BY <2>1, <2>3
    <3>2. pc'[q] = "write"
      BY <3>1, ReadsFacts, Moved DEF IInv, Places
    <3>3. Prepared(q)'
      BY <2>2, <3>1, <3>2, ReadsFacts DEF Prepared, NoNewCode
    <3>4. QED
      BY <2>2, <3>1, <3>3, ReadsInv DEF Places
  <2>4. CASE ~ accepted
    BY <2>1, <2>2, <2>4, ReadsInv DEF Places
  <2>5. QED
    BY <2>3, <2>4
<1>2. CASE ResetReads(q)
  <2> DEFINE accepted == Row(q) # NoRow /\ Row(q).rcode = call[q].code /\ Row(q).rlive
  <2>1. Reads(q, {"reset"}, IF accepted THEN "write" ELSE "refused") /\ NoNewCode
    BY <1>2 DEF ResetReads
  <2>2. CASE accepted
    <3>1. Reads(q, {"reset"}, "write")
      BY <2>1, <2>2
    <3>2. pc'[q] = "write"
      BY <3>1, ReadsFacts, Moved DEF IInv, Places
    <3>3. [purpose |-> "reset", code |-> call[q].code] \in mailed
      <4>1. call[q].kind = "reset" /\ call[q] \in Calls \cup {NoCall}
        BY <3>1, ReadsFacts DEF IInv, TypeOK
      <4>2. call[q].code \in Codes
        BY <4>1 DEF Calls, NoCall
      <4>3. StoredCode(Table(q), "reset") = call[q].code
        BY <2>2 DEF StoredCode, Row
      <4>4. QED
        BY <4>2, <4>3, TableType, ValuesAssumption DEF IInv, CodesReachTheUser, Purposes
    <3>4. Prepared(q)'
      BY <2>1, <2>2, <3>1, <3>2, <3>3, ReadsFacts DEF Prepared, NoNewCode
    <3>5. QED
      BY <2>1, <3>1, <3>4, ReadsInv DEF Places
  <2>3. CASE ~ accepted
    BY <2>1, <2>3, ReadsInv DEF Places
  <2>4. QED
    BY <2>2, <2>3
<1>3. QED
  BY <1>1, <1>2

\* New codes, for the address or for a reset; and Google.
LEMMA AskReadsInv ==
    ASSUME IInv, NEW q \in Requests, ResendReads(q) \/ ForgotReads(q) \/ GoogleReads(q)
    PROVE  IInv'
<1>1. ASSUME NEW kind \in {"resend", "forgot"},
             Row(q) # NoRow, Reads(q, {kind}, "mail"), NewCode(q)
      PROVE  IInv'
  <2>1. Prepared(q)'
    BY <1>1, ReadsFacts, CodeFacts DEF Prepared, IInv
  <2>2. QED
    BY <1>1, <2>1, ReadsInv DEF Places
<1>2. ASSUME NEW kind, Reads(q, {kind}, "refused"), NoNewCode
      PROVE  IInv'
  BY <1>2, ReadsInv DEF Places
<1>3. CASE GoogleReads(q)
  <2>1. PICK answer \in {"refused", "ok", "tokens"} : Reads(q, {"google"}, answer) /\ NoNewCode
    BY <1>3 DEF GoogleReads
  <2>2. QED
    BY <2>1, ReadsInv DEF Places
<1>4. QED
  BY <1>1, <1>2, <1>3 DEF ResendReads, ForgotReads

-----------------------------------------------------------------------------
(* Mails, failures and writes.                                             *)

\* The code that is mailed is about to be stored, by its request alone or disturbed.
LEMMA SendMailInv ==
    ASSUME IInv, NEW q \in Requests, SendMail(q)
    PROVE  IInv'
<1> USE DEF IInv
<1> DEFINE mail == [purpose |-> Purpose(q), code |-> code[q]]
           last == [code |-> code[q], table |-> Table(q)]
<1>1. /\ account' = account /\ call' = call /\ role' = role /\ seen' = seen /\ code' = code
      /\ mailed' = mailed \cup {mail} /\ pc[q] = "mail"
      /\ latest' = [latest EXCEPT ![Purpose(q)] = last]
      /\ disturbed' = [disturbed EXCEPT ![Purpose(q)] = Storing(Purpose(q)) # {}]
  BY DEF SendMail, Goto
<1>2. /\ pc' \in [Requests -> Places] /\ pc'[q] = "write"
      /\ \A x \in Requests \ {q} : pc'[x] = pc[x]
  BY Moved DEF SendMail, Goto, Places
<1>3. Prepared(q) /\ code[q] \in Codes
  BY <1>1 DEF RequestInv, Prepared
<1>4. mail \in [purpose : Purposes, code : Codes] /\ last \in [code : Codes, table : Tables]
  BY <1>3, TableType
<1>5. /\ latest'[Purpose(q)] = last /\ disturbed'[Purpose(q)] = (Storing(Purpose(q)) # {})
      /\ \A p \in Purposes \ {Purpose(q)} : latest'[p] = latest[p] /\ disturbed'[p] = disturbed[p]
  BY <1>1, TableType DEF TypeOK
<1>6. TypeOK'
  <2>1. latest' \in [Purposes -> [code : Codes, table : Tables] \cup {NoMail}]
    BY <1>1, <1>4 DEF TypeOK
  <2>2. disturbed' \in [Purposes -> BOOLEAN]
    BY <1>1 DEF TypeOK
  <2>3. mailed' \subseteq [purpose : Purposes, code : Codes]
    BY <1>1, <1>4 DEF TypeOK
  <2>4. QED
    BY <1>1, <1>2, <2>1, <2>2, <2>3 DEF TypeOK, Places
<1> HIDE DEF last
<1>7. \A x \in Requests \ {q} : Same(x)
  BY <1>1, <1>2 DEF Same
<1>8. Purpose(q)' = Purpose(q) /\ Table(q)' = Table(q)
  BY <1>1 DEF Purpose, Table
<1>9. ASSUME NEW x \in Requests PROVE RequestInv(x)'
  <2>1. CASE x = q
    <3>1. Prepared(q)'
      BY <1>1, <1>2, <1>3, <1>8 DEF Prepared
    <3>2. [purpose |-> Purpose(q)', code |-> code'[q]] \in mailed'
      BY <1>1, <1>8
    <3>3. QED
      BY <1>2, <2>1, <3>1, <3>2 DEF RequestInv
  <2>2. CASE x # q
    BY <1>1, <1>7, <2>2, TableType, OthersKeep
  <2>3. QED
    BY <2>1, <2>2
<1>10. \A t \in Tables, p \in Purposes : StoredCode(t, p)' = StoredCode(t, p)
  BY <1>1 DEF StoredCode
<1>11. CodesReachTheUser'
  BY <1>1, <1>10, CodesKeep
<1>12. ASSUME NEW p \in Purposes PROVE MailInv(p)'
  <2>1. Storing(p)' = IF p = Purpose(q) THEN Storing(p) \cup {q} ELSE Storing(p)
    <3>1. \A x \in Requests : Purpose(x)' = Purpose(x)
      BY <1>1 DEF Purpose
    <3>2. q \notin Storing(p) /\ code[q] # NoCode
      BY <1>1, <1>3, ValuesAssumption DEF Storing
    <3>3. QED
      BY <1>1, <1>2, <3>1, <3>2 DEF Storing
  <2>2. CASE p = Purpose(q)
    <3>1. Storing(p) = {} => Storing(p)' = {q} /\ code'[q] = last.code /\ Table(q)' = last.table
      BY <1>1, <1>8, <2>1, <2>2 DEF last
    <3>2. QED
      BY <1>5, <2>2, <3>1 DEF MailInv
  <2>3. CASE p # Purpose(q)
    <3>1. \A x \in Storing(p) : Same(x)
      BY <1>1, <1>7 DEF Storing
    <3>2. latest'[p] = latest[p] /\ disturbed'[p] = disturbed[p]
      BY <1>5, <2>3
    <3>3. QED
      BY <1>10, <2>1, <2>3, <3>1, <3>2, MailKeeps
  <2>4. QED
    BY <2>2, <2>3
<1>13. QED
  BY <1>6, <1>9, <1>11, <1>12

\* A request that ends with an error disturbs the purpose that it was storing a code for.
LEMMA EndsInv ==
    ASSUME IInv, NEW q \in Requests, pc' = [pc EXCEPT ![q] = "failed"],
           UNCHANGED <<account, mailed, call, role, seen, code, latest>>,
           disturbed' \in [Purposes -> BOOLEAN],
           \A p \in Purposes : disturbed[p] \/ q \in Storing(p) => disturbed'[p]
    PROVE  IInv'
<1> USE DEF IInv
<1>1. /\ pc' \in [Requests -> Places] /\ pc'[q] = "failed"
      /\ \A x \in Requests \ {q} : pc'[x] = pc[x]
  BY Moved DEF Places
<1>2. TypeOK'
  BY <1>1 DEF TypeOK, Places
<1>3. \A x \in Requests \ {q} : Same(x)
  BY <1>1 DEF Same
<1>4. ASSUME NEW x \in Requests PROVE RequestInv(x)'
  <2>1. CASE x = q
    BY <1>1, <2>1 DEF RequestInv
  <2>2. CASE x # q
    BY <1>3, <2>2, TableType, OthersKeep
  <2>3. QED
    BY <2>1, <2>2
<1>5. \A t \in Tables, p \in Purposes : StoredCode(t, p)' = StoredCode(t, p)
  BY DEF StoredCode
<1>6. CodesReachTheUser'
  BY <1>5, CodesKeep
<1>7. ASSUME NEW p \in Purposes PROVE MailInv(p)'
  <2>1. CASE q \in Storing(p)
    BY <2>1 DEF MailInv
  <2>2. CASE q \notin Storing(p)
    <3>1. \A x \in Requests : Purpose(x)' = Purpose(x)
      BY DEF Purpose
    <3>2. Storing(p)' = Storing(p)
      BY <1>1, <2>2, <3>1 DEF Storing
    <3>3. \A x \in Storing(p) : Same(x)
      BY <1>3, <2>2 DEF Storing
    <3>4. QED
      BY <1>5, <3>2, <3>3, MailKeeps
  <2>3. QED
    BY <2>1, <2>2
<1>8. QED
  BY <1>2, <1>4, <1>6, <1>7

LEMMA FailsInv ==
    ASSUME IInv, NEW q \in Requests, Fails(q) \/ DuplicateAccount(q)
    PROVE  IInv'
<1>1. CASE Fails(q)
  BY <1>1, EndsInv DEF Fails, IInv, TypeOK
<1>2. CASE DuplicateAccount(q)
  <2>1. \A p \in Purposes : q \in Storing(p) => p = "verify"
    BY <1>2 DEF DuplicateAccount, Storing, Purpose
  <2>2. /\ disturbed' \in [Purposes -> BOOLEAN]
        /\ \A p \in Purposes : disturbed[p] \/ q \in Storing(p) => disturbed'[p]
    BY <1>2, <2>1 DEF DuplicateAccount, IInv, TypeOK, Purposes
  <2>3. QED
    BY <1>2, <2>2, EndsInv DEF DuplicateAccount, Goto
<1>3. QED
  BY <1>1, <1>2

\* The column of a row for the codes of a purpose.
Column(row, p) == IF p = "verify" THEN row.vcode ELSE row.rcode

\* What every write does, with whatever codes its row has.
LEMMA WriteFacts ==
    ASSUME IInv, NEW q \in Requests, NEW row \in Rows, NEW answer \in {"ok", "tokens"},
           Writes(q, row, answer)
    PROVE  /\ account' \in [Tables -> Rows \cup {NoRow}] /\ account'[Table(q)] = row
           /\ \A t \in Tables : t # Table(q) => account'[t] = account[t]
           /\ \A t \in Tables : account[t] # NoRow => account'[t] # NoRow
           /\ pc[q] = "write" /\ pc' \in [Requests -> Places] /\ pc'[q] = answer
           /\ \A x \in Requests \ {q} : Same(x)
           /\ mailed' = mailed /\ call' = call /\ role' = role /\ seen' = seen /\ code' = code
           /\ \A x \in Requests : RequestInv(x)'
           /\ \A p \in Purposes : Storing(p)' = Storing(p) \ {q}
           /\ \A t \in Tables, p \in Purposes :
                StoredCode(t, p)' = IF t = Table(q) THEN Column(row, p) ELSE StoredCode(t, p)
<1> USE DEF IInv
<1>1. /\ account' = [account EXCEPT ![Table(q)] = row] /\ pc[q] = "write"
      /\ mailed' = mailed /\ call' = call /\ role' = role /\ seen' = seen /\ code' = code
  BY DEF Writes, Goto
<1>2. /\ pc' \in [Requests -> Places] /\ pc'[q] = answer
      /\ \A x \in Requests \ {q} : pc'[x] = pc[x]
  BY Moved DEF Writes, Goto, Places
<1>3. /\ account' \in [Tables -> Rows \cup {NoRow}] /\ account'[Table(q)] = row
      /\ \A t \in Tables : t # Table(q) => account'[t] = account[t]
  BY <1>1, TableType DEF TypeOK
<1>4. row # NoRow /\ \A t \in Tables : account[t] # NoRow => account'[t] # NoRow
  BY <1>3, Values
<1>5. \A x \in Requests \ {q} : Same(x)
  BY <1>1, <1>2 DEF Same
<1>6. ASSUME NEW x \in Requests PROVE RequestInv(x)'
  <2>1. CASE x = q
    BY <1>2, <2>1 DEF RequestInv
  <2>2. CASE x # q
    BY <1>1, <1>4, <1>5, <2>2, TableType, OthersKeep
  <2>3. QED
    BY <2>1, <2>2
<1>7. \A p \in Purposes : Storing(p)' = Storing(p) \ {q}
  <2>1. \A x \in Requests : Purpose(x)' = Purpose(x)
    BY <1>1 DEF Purpose
  <2>2. QED
    BY <1>1, <1>2, <2>1 DEF Storing
<1>8. \A t \in Tables, p \in Purposes :
        StoredCode(t, p)' = IF t = Table(q) THEN Column(row, p) ELSE StoredCode(t, p)
  <2> SUFFICES ASSUME NEW t \in Tables, NEW p \in Purposes
               PROVE  StoredCode(t, p)' = IF t = Table(q) THEN Column(row, p) ELSE StoredCode(t, p)
    BY DEF Purposes
  <2>1. CASE t = Table(q)
    BY <1>3, <1>4, <2>1 DEF StoredCode, Column
  <2>2. CASE t # Table(q)
    BY <1>3, <2>2 DEF StoredCode
  <2>3. QED
    BY <2>1, <2>2
<1>9. QED
  BY <1>1, <1>2, <1>3, <1>4, <1>5, <1>6, <1>7, <1>8

\* Who stores a code stores the one it has mailed, and other columns stay.
LEMMA MailWritten ==
    ASSUME IInv, NEW q \in Requests, NEW row \in Rows, NEW answer \in {"ok", "tokens"},
           Writes(q, row, answer), NEW p \in Purposes,
           Column(row, p) = IF q \in Storing(p) THEN code[q] ELSE StoredCode(Table(q), p),
           latest'[p] = latest[p], disturbed[p] => disturbed'[p]
    PROVE  MailInv(p)'
<1> USE DEF IInv
<1>1. /\ Storing(p)' = Storing(p) \ {q}
      /\ \A t \in Tables : StoredCode(t, p)' = IF t = Table(q) THEN Column(row, p) ELSE StoredCode(t, p)
      /\ \A x \in Requests \ {q} : Same(x)
  BY WriteFacts
<1>2. CASE q \in Storing(p)
  <2> SUFFICES ASSUME latest[p] # NoMail, ~ disturbed[p]
               PROVE  /\ Storing(p)' = {}
                      /\ \A t \in Tables : t = latest[p].table => StoredCode(t, p)' = latest[p].code
    BY DEF MailInv
  <2>1. Storing(p) = {q} /\ code[q] = latest[p].code /\ Table(q) = latest[p].table
    BY <1>2 DEF MailInv
  <2>2. QED
    BY <1>1, <1>2, <2>1
<1>3. CASE q \notin Storing(p)
  <2>1. Storing(p)' = Storing(p) /\ \A x \in Storing(p) : Same(x)
    BY <1>1, <1>3 DEF Storing
  <2>2. \A t \in Tables : StoredCode(t, p)' = StoredCode(t, p)
    BY <1>1, <1>3
  <2>3. QED
    BY <2>1, <2>2, MailKeeps
<1>4. QED
  BY <1>2, <1>3

LEMMA WriteInv ==
    ASSUME IInv, NEW q \in Requests, NEW row \in Rows, NEW answer \in {"ok", "tokens"},
           Writes(q, row, answer), latest' = latest, disturbed' = disturbed,
           \A p \in Purposes :
             Column(row, p) = IF q \in Storing(p) THEN code[q] ELSE StoredCode(Table(q), p)
    PROVE  IInv'
<1> USE DEF IInv
<1>1. TypeOK'
  BY WriteFacts DEF TypeOK, Places
<1>2. \A x \in Requests : RequestInv(x)'
  BY WriteFacts
<1>3. CodesReachTheUser'
  <2> SUFFICES ASSUME NEW t \in Tables, NEW p \in Purposes, StoredCode(t, p)' # NoCode
               PROVE  [purpose |-> p, code |-> StoredCode(t, p)'] \in mailed'
    BY DEF CodesReachTheUser, Purposes
  <2>1. /\ mailed' = mailed
        /\ StoredCode(t, p)' = IF t = Table(q) THEN Column(row, p) ELSE StoredCode(t, p)
    BY WriteFacts
  <2>2. CASE t = Table(q) /\ q \in Storing(p)
    <3>1. Purpose(q) = p /\ pc[q] = "write" /\ code[q] # NoCode
      BY <2>2 DEF Storing
    <3>2. [purpose |-> p, code |-> code[q]] \in mailed
      BY <3>1 DEF RequestInv
    <3>3. QED
      BY <2>1, <2>2, <3>2
  <2>3. CASE t # Table(q) \/ q \notin Storing(p)
    BY <2>1, <2>3 DEF CodesReachTheUser
  <2>4. QED
    BY <2>2, <2>3
<1>4. \A p \in Purposes : MailInv(p)'
  BY MailWritten
<1>5. QED
  BY <1>1, <1>2, <1>3, <1>4

\* What a writer knows of its row and of its code.
LEMMA WriterFacts ==
    ASSUME IInv, NEW q \in Requests, pc[q] = "write"
    PROVE  /\ Prepared(q) /\ Row(q) \in Rows \cup {NoRow}
           /\ seen[q] # NoRow => Row(q) \in Rows
           /\ \A p \in Purposes : q \in Storing(p) <=> code[q] # NoCode /\ Purpose(q) = p
           /\ Row(q) # NoRow => \A p \in Purposes : StoredCode(Table(q), p) = Column(Row(q), p)
           /\ Row(q) = NoRow => \A p \in Purposes : StoredCode(Table(q), p) = NoCode
<1>1. Prepared(q) /\ Row(q) \in Rows \cup {NoRow} /\ (seen[q] # NoRow => Row(q) # NoRow)
  BY TableType DEF IInv, RequestInv, Prepared, Row, TypeOK
<1>2. \A p \in Purposes : q \in Storing(p) <=> code[q] # NoCode /\ Purpose(q) = p
  BY DEF Storing
<1>3. QED
  BY <1>1, <1>2 DEF StoredCode, Column, Row

LEMMA CallPassword ==
    ASSUME TypeOK, NEW q \in Requests, call[q].kind \in {"login", "reset"}
    PROVE  call[q].password \in Passwords
BY DEF TypeOK, Calls, NoCall

LEMMA LoginWritesInv ==
    ASSUME IInv, NEW q \in Requests, CreateAccount(q) \/ SetFirstPassword(q) \/ RenewCode(q)
    PROVE  IInv'
<1>1. /\ call[q].kind = "login" /\ pc[q] = "write" /\ Purpose(q) = "verify"
      /\ call[q].password \in Passwords /\ code[q] \in Codes \cup {NoCode}
  BY CallPassword DEF IInv, TypeOK, CreateAccount, SetFirstPassword, RenewCode, Writes, Goto, Purpose
<1>2. CASE CreateAccount(q)
  <2> DEFINE row == [NewRow EXCEPT !.password = call[q].password,
                                   !.vcode = code[q], !.vlive = TRUE]
  <2>1. row \in Rows /\ row.vcode = code[q] /\ row.rcode = NoCode
    BY <1>1 DEF NewRow, Rows
  <2>2. /\ Writes(q, row, "ok") /\ latest' = latest /\ disturbed' = disturbed
        /\ Row(q) = NoRow
    BY <1>2 DEF CreateAccount
  <2> HIDE DEF row
  <2>3. \A p \in Purposes :
          Column(row, p) = IF q \in Storing(p) THEN code[q] ELSE StoredCode(Table(q), p)
    BY <1>1, <2>1, <2>2, WriterFacts DEF Column, Purposes
  <2>4. QED
    BY <2>1, <2>2, <2>3, WriteInv
<1>3. CASE SetFirstPassword(q)
  <2> DEFINE row == [Row(q) EXCEPT !.password = call[q].password]
  <2>1. /\ Writes(q, row, "tokens") /\ latest' = latest /\ disturbed' = disturbed
        /\ seen[q] # NoRow /\ seen[q].password = "unset"
    BY <1>3 DEF SetFirstPassword
  <2>2. Row(q) \in Rows /\ code[q] = NoCode
    BY <1>1, <2>1, WriterFacts DEF Prepared
  <2>3. row \in Rows /\ row.vcode = Row(q).vcode /\ row.rcode = Row(q).rcode
    BY <1>1, <2>2 DEF Rows
  <2> HIDE DEF row
  <2>4. \A p \in Purposes :
          Column(row, p) = IF q \in Storing(p) THEN code[q] ELSE StoredCode(Table(q), p)
    BY <1>1, <2>2, <2>3, WriterFacts, Values DEF Column
  <2>5. QED
    BY <2>1, <2>3, <2>4, WriteInv
<1>4. CASE RenewCode(q)
  <2> DEFINE row == [Row(q) EXCEPT !.verified = FALSE, !.vcode = code[q], !.vlive = TRUE]
  <2>1. /\ Writes(q, row, "ok") /\ latest' = latest /\ disturbed' = disturbed
        /\ seen[q] # NoRow /\ seen[q].password # "unset"
    BY <1>4 DEF RenewCode
  <2>2. Row(q) \in Rows /\ code[q] # NoCode
    BY <1>1, <2>1, WriterFacts, ValuesAssumption DEF Prepared
  <2>3. row \in Rows /\ row.vcode = code[q] /\ row.rcode = Row(q).rcode
    BY <1>1, <2>2 DEF Rows
  <2> HIDE DEF row
  <2>4. \A p \in Purposes :
          Column(row, p) = IF q \in Storing(p) THEN code[q] ELSE StoredCode(Table(q), p)
    BY <1>1, <2>2, <2>3, WriterFacts, Values DEF Column, Purposes
  <2>5. QED
    BY <2>1, <2>3, <2>4, WriteInv
<1>5. QED
  BY <1>2, <1>3, <1>4

LEMMA CodeWritesInv ==
    ASSUME IInv, NEW q \in Requests, VerifyWrites(q) \/ ResendWrites(q) \/ ForgotWrites(q)
    PROVE  IInv'
<1>1. pc[q] = "write" /\ code[q] \in Codes \cup {NoCode}
  BY DEF IInv, TypeOK, VerifyWrites, ResendWrites, ForgotWrites, Writes, Goto
<1>2. call[q].kind \in {"verify", "verifyReset", "resend", "forgot"}
  BY DEF VerifyWrites, ResendWrites, ForgotWrites
<1>3. Row(q) \in Rows
  BY <1>1, <1>2, WriterFacts DEF Prepared
<1>4. CASE VerifyWrites(q)
  <2> DEFINE row == [Row(q) EXCEPT !.verified = TRUE, !.active = TRUE]
  <2>1. /\ Writes(q, row, "ok") /\ latest' = latest /\ disturbed' = disturbed
        /\ call[q].kind \in {"verify", "verifyReset"}
    BY <1>4 DEF VerifyWrites
  <2>2. code[q] = NoCode
    BY <1>1, <2>1, WriterFacts DEF Prepared
  <2>3. row \in Rows /\ row.vcode = Row(q).vcode /\ row.rcode = Row(q).rcode
    BY <1>3 DEF Rows
  <2> HIDE DEF row
  <2>4. \A p \in Purposes :
          Column(row, p) = IF q \in Storing(p) THEN code[q] ELSE StoredCode(Table(q), p)
    BY <1>1, <1>3, <2>2, <2>3, WriterFacts, Values DEF Column
  <2>5. QED
    BY <2>1, <2>3, <2>4, WriteInv
<1>5. CASE ResendWrites(q)
  <2> DEFINE row == [Row(q) EXCEPT !.vcode = code[q], !.vlive = TRUE]
  <2>1. /\ Writes(q, row, "ok") /\ latest' = latest /\ disturbed' = disturbed
        /\ Purpose(q) = "verify" /\ call[q].kind = "resend"
    BY <1>5 DEF ResendWrites, Purpose
  <2>2. code[q] # NoCode
    BY <1>1, <2>1, WriterFacts, ValuesAssumption DEF Prepared
  <2>3. row \in Rows /\ row.vcode = code[q] /\ row.rcode = Row(q).rcode
    BY <1>1, <1>3 DEF Rows
  <2> HIDE DEF row
  <2>4. \A p \in Purposes :
          Column(row, p) = IF q \in Storing(p) THEN code[q] ELSE StoredCode(Table(q), p)
    BY <1>1, <1>3, <2>1, <2>2, <2>3, WriterFacts, Values DEF Column, Purposes
  <2>5. QED
    BY <2>1, <2>3, <2>4, WriteInv
<1>6. CASE ForgotWrites(q)
  <2> DEFINE row == [Row(q) EXCEPT !.rcode = code[q], !.rlive = TRUE]
  <2>1. /\ Writes(q, row, "ok") /\ latest' = latest /\ disturbed' = disturbed
        /\ Purpose(q) = "reset" /\ call[q].kind = "forgot"
    BY <1>6 DEF ForgotWrites, Purpose
  <2>2. code[q] # NoCode
    BY <1>1, <2>1, WriterFacts, ValuesAssumption DEF Prepared
  <2>3. row \in Rows /\ row.rcode = code[q] /\ row.vcode = Row(q).vcode
    BY <1>1, <1>3 DEF Rows
  <2> HIDE DEF row
  <2>4. \A p \in Purposes :
          Column(row, p) = IF q \in Storing(p) THEN code[q] ELSE StoredCode(Table(q), p)
    BY <1>1, <1>3, <2>1, <2>2, <2>3, WriterFacts, Values DEF Column, Purposes
  <2>5. QED
    BY <2>1, <2>3, <2>4, WriteInv
<1>7. QED
  BY <1>4, <1>5, <1>6

\* A reset clears the code that it was accepted with, and else disturbs.
LEMMA ResetWritesInv ==
    ASSUME IInv, NEW q \in Requests, ResetWrites(q)
    PROVE  IInv'
<1> USE DEF IInv
<1> DEFINE row == [Row(q) EXCEPT !.password = call[q].password, !.rcode = NoCode, !.rlive = FALSE]
           replaced == Row(q).rcode # call[q].code
<1>1. call[q].kind = "reset" /\ pc[q] = "write" /\ Writes(q, row, "ok")
  BY DEF ResetWrites, Writes, Goto
<1>2. /\ disturbed' = [disturbed EXCEPT !["reset"] = @ \/ replaced]
      /\ latest' = IF replaced \/ latest["reset"].code # call[q].code
                   THEN latest ELSE [latest EXCEPT !["reset"] = NoMail]
  BY DEF ResetWrites
<1>3. /\ Row(q) \in Rows /\ code[q] = NoCode /\ call[q].password \in Passwords
      /\ \A p \in Purposes : q \notin Storing(p)
  BY <1>1, WriterFacts, CallPassword DEF Prepared
<1>4. row \in Rows /\ row.vcode = Row(q).vcode /\ row.rcode = NoCode
  BY <1>3 DEF Rows
<1> HIDE DEF row
<1>5. /\ latest' \in [Purposes -> [code : Codes, table : Tables] \cup {NoMail}]
      /\ disturbed' \in [Purposes -> BOOLEAN]
      /\ latest'["verify"] = latest["verify"] /\ disturbed'["verify"] = disturbed["verify"]
  BY <1>2 DEF TypeOK, Purposes
<1>6. TypeOK' /\ \A x \in Requests : RequestInv(x)'
  <2>1. /\ account' \in [Tables -> Rows \cup {NoRow}] /\ pc' \in [Requests -> Places]
        /\ mailed' = mailed /\ call' = call /\ role' = role /\ seen' = seen /\ code' = code
        /\ \A x \in Requests : RequestInv(x)'
    BY <1>1, <1>4, WriteFacts
  <2>2. QED
    BY <1>5, <2>1 DEF TypeOK, Places
<1>7. \A p \in Purposes : StoredCode(Table(q), p) = Column(Row(q), p)
  BY <1>1, <1>3, WriterFacts, Values
<1>8. Column(row, "verify") = StoredCode(Table(q), "verify") /\ Column(row, "reset") = NoCode
  BY <1>4, <1>7 DEF Column, Purposes
<1>9. \A t \in Tables, p \in Purposes :
        StoredCode(t, p)' = IF t = Table(q) THEN Column(row, p) ELSE StoredCode(t, p)
  BY <1>1, <1>4, WriteFacts
<1>10. CodesReachTheUser'
  <2>1. mailed' = mailed
    BY <1>1, <1>4, WriteFacts
  <2>2. QED
    BY <1>8, <1>9, <2>1, CodesKeep DEF Purposes
<1>11. MailInv("verify")'
  BY <1>1, <1>3, <1>4, <1>5, <1>8, MailWritten DEF Purposes
<1>12. MailInv("reset")'
  <2>1. "reset" \in Purposes
    BY DEF Purposes
  <2>2. CASE replaced
    BY <1>2, <2>1, <2>2 DEF TypeOK, MailInv
  <2>3. CASE ~ replaced /\ latest["reset"].code = call[q].code
    BY <1>2, <2>1, <2>3 DEF TypeOK, MailInv
  <2>4. CASE ~ replaced /\ latest["reset"].code # call[q].code
    <3>1. latest' = latest /\ disturbed'["reset"] = disturbed["reset"]
      BY <1>2, <2>1, <2>4 DEF TypeOK
    <3>2. StoredCode(Table(q), "reset") = call[q].code
      BY <1>7, <2>1, <2>4 DEF Column
    <3>3. Storing("reset")' = Storing("reset") /\ \A x \in Storing("reset") : Same(x)
      <4>1. /\ Storing("reset")' = Storing("reset") \ {q}
            /\ \A x \in Requests \ {q} : Same(x)
        BY <1>1, <1>4, <2>1, WriteFacts
      <4>2. QED
        BY <1>3, <2>1, <4>1 DEF Storing
    <3> SUFFICES ASSUME latest["reset"] # NoMail, ~ disturbed["reset"]
                 PROVE  \/ /\ Storing("reset") = {}
                           /\ \A t \in Tables : t = latest["reset"].table =>
                                StoredCode(t, "reset")' = latest["reset"].code
                        \/ \E x \in Requests : /\ Storing("reset") = {x} /\ code'[x] = latest["reset"].code
                                               /\ Table(x)' = latest["reset"].table
      BY <3>1, <3>3 DEF MailInv
    <3>4. CASE /\ Storing("reset") = {}
               /\ \A t \in Tables : t = latest["reset"].table =>
                    StoredCode(t, "reset") = latest["reset"].code
      <4>1. Table(q) # latest["reset"].table
        BY <2>4, <3>2, <3>4, TableType
      <4>2. QED
        BY <1>9, <2>1, <3>4, <4>1
    <3>5. ASSUME NEW x \in Requests, Storing("reset") = {x}, code[x] = latest["reset"].code,
                 Table(x) = latest["reset"].table
          PROVE  code'[x] = latest["reset"].code /\ Table(x)' = latest["reset"].table
      BY <3>3, <3>5 DEF Same, Table
    <3>6. QED
      BY <2>1, <3>4, <3>5 DEF MailInv
  <2>5. QED
    BY <2>2, <2>3, <2>4
<1>13. QED
  BY <1>6, <1>10, <1>11, <1>12 DEF Purposes

\* A row of the administrator's, and the end of a code: the codes stay what they are.
LEMMA EnvironmentInv ==
    ASSUME IInv, NEW t \in Tables, AdminCreates(t) \/ ExpireCode(t)
    PROVE  IInv'
<1> USE DEF IInv
<1>1. /\ mailed' = mailed /\ pc' = pc /\ call' = call /\ role' = role /\ seen' = seen /\ code' = code
      /\ latest' = latest /\ disturbed' = disturbed
  BY DEF AdminCreates, ExpireCode, requestVars
<1>2. /\ account' \in [Tables -> Rows \cup {NoRow}]
      /\ \A s \in Tables : account[s] # NoRow => account'[s] # NoRow
      /\ \A s \in Tables, p \in Purposes : StoredCode(s, p)' = StoredCode(s, p)
  <2>1. CASE AdminCreates(t)
    <3>1. \A s \in Tables : \/ account'[s] = account[s]
                            \/ account[s] = NoRow /\ account'[s] = NewRow
      BY <2>1 DEF AdminCreates, TypeOK
    <3>2. account' \in [Tables -> Rows \cup {NoRow}]
      BY <2>1, Values DEF AdminCreates, TypeOK
    <3>3. QED
      BY <3>1, <3>2, NewRowsKeep
  <2>2. CASE ExpireCode(t)
    <3>1. account[t] \in Rows /\ account[t] # NoRow
      BY <2>2 DEF ExpireCode, TypeOK
    <3>2. PICK row \in Rows : /\ account' = [account EXCEPT ![t] = row]
                              /\ row.vcode = account[t].vcode /\ row.rcode = account[t].rcode
      <4>1. CASE account' = [account EXCEPT ![t].vlive = FALSE]
        <5> DEFINE row == [account[t] EXCEPT !.vlive = FALSE]
        <5>1. row \in Rows /\ row.vcode = account[t].vcode /\ row.rcode = account[t].rcode
          BY <3>1 DEF Rows
        <5>2. QED
          BY <4>1, <5>1
      <4>2. CASE account' = [account EXCEPT ![t].rlive = FALSE]
        <5> DEFINE row == [account[t] EXCEPT !.rlive = FALSE]
        <5>1. row \in Rows /\ row.vcode = account[t].vcode /\ row.rcode = account[t].rcode
          BY <3>1 DEF Rows
        <5>2. QED
          BY <4>2, <5>1
      <4>3. QED
        BY <2>2, <4>1, <4>2 DEF ExpireCode
    <3>3. /\ account' \in [Tables -> Rows \cup {NoRow}] /\ account'[t] = row
          /\ \A s \in Tables : s # t => account'[s] = account[s]
      BY <3>2 DEF TypeOK
    <3>4. QED
      BY <3>1, <3>2, <3>3, Values DEF StoredCode
  <2>3. QED
    BY <2>1, <2>2
<1>3. TypeOK'
  BY <1>1, <1>2 DEF TypeOK
<1>4. \A x \in Requests : Same(x)
  BY <1>1 DEF Same
<1>5. \A x \in Requests : RequestInv(x)'
  BY <1>1, <1>2, <1>4, TableType, OthersKeep
<1>6. CodesReachTheUser'
  BY <1>1, <1>2, CodesKeep
<1>7. ASSUME NEW p \in Purposes PROVE MailInv(p)'
  <2>1. Storing(p)' = Storing(p) /\ \A x \in Storing(p) : Same(x)
    BY <1>1, <1>4 DEF Storing, Purpose
  <2>2. QED
    BY <1>1, <1>2, <2>1, MailKeeps
<1>8. QED
  BY <1>3, <1>5, <1>6, <1>7

-----------------------------------------------------------------------------
(* The theorems.                                                           *)

LEMMA NextInv == IInv /\ [Next]_vars => IInv'
<1> SUFFICES ASSUME IInv, [Next]_vars PROVE IInv'
  OBVIOUS
<1>1. CASE UNCHANGED vars
  <2>1. /\ mailed' = mailed /\ pc' = pc /\ call' = call /\ role' = role /\ seen' = seen
        /\ code' = code /\ latest' = latest /\ disturbed' = disturbed /\ account' = account
    BY <1>1 DEF vars, requestVars
  <2>2. TypeOK' /\ CodesReachTheUser'
    BY <2>1 DEF IInv, TypeOK, CodesReachTheUser, StoredCode
  <2>3. \A x \in Requests : RequestInv(x)'
    BY <2>1 DEF IInv, RequestInv, Prepared, Table, Purpose
  <2>4. \A p \in Purposes : MailInv(p)'
    BY <2>1 DEF IInv, MailInv, Storing, Purpose, StoredCode, Table
  <2>5. QED
    BY <2>2, <2>3, <2>4 DEF IInv
<1>2. ASSUME NEW q \in Requests, RequestStep(q) PROVE IInv'
  <2>1. CASE Start(q) \/ Found(q) \/ AskNextTable(q) \/ NotFound(q)
    BY <2>1, LookupInv
  <2>2. CASE LoginReads(q)
    BY <2>2, LoginReadsInv
  <2>3. CASE VerifyReads(q) \/ ResetReads(q)
    BY <2>3, AcceptReadsInv
  <2>4. CASE ResendReads(q) \/ ForgotReads(q) \/ GoogleReads(q)
    BY <2>4, AskReadsInv
  <2>5. CASE SendMail(q)
    BY <2>5, SendMailInv
  <2>6. CASE Fails(q) \/ DuplicateAccount(q)
    BY <2>6, FailsInv
  <2>7. CASE CreateAccount(q) \/ SetFirstPassword(q) \/ RenewCode(q)
    BY <2>7, LoginWritesInv
  <2>8. CASE VerifyWrites(q) \/ ResendWrites(q) \/ ForgotWrites(q)
    BY <2>8, CodeWritesInv
  <2>9. CASE ResetWrites(q)
    BY <2>9, ResetWritesInv
  <2>10. QED
    BY <1>2, <2>1, <2>2, <2>3, <2>4, <2>5, <2>6, <2>7, <2>8, <2>9 DEF RequestStep
<1>3. ASSUME NEW t \in Tables, AdminCreates(t) \/ ExpireCode(t) PROVE IInv'
  BY <1>3, EnvironmentInv
<1>4. QED
  BY <1>1, <1>2, <1>3 DEF Next

LEMMA Inductive == Spec => []IInv
BY InitInv, NextInv, PTL DEF Spec

\* Every variable keeps its type: a row holds codes and passwords that somebody chose or
\* generated, or the NULL of its column, whatever the requests of machine/api/v1/auth.py do
\* to each other.
THEOREM TypeCorrect == Spec => []TypeOK
<1>1. IInv => TypeOK
  BY DEF IInv
<1>2. QED
  BY <1>1, Inductive, PTL

\* The codes that are stored are codes that were mailed for the purpose they are stored for,
\* and the last one mailed is the one stored unless requests for it overlapped or failed:
\* machine/api/v1/auth.py sends the mail before it writes, and asks for no lock.
THEOREM StoredCodesWereMailed == Spec => []MailedCodes
<1>1. IInv => LastMailedIsStored
  <2> SUFFICES ASSUME IInv, NEW p \in Purposes,
                      latest[p] # NoMail, ~ disturbed[p], Storing(p) = {}
               PROVE  StoredCode(latest[p].table, p) = latest[p].code
    BY DEF LastMailedIsStored
  <2>1. latest[p].table \in Tables
    BY DEF IInv, TypeOK
  <2>2. QED
    BY <2>1 DEF IInv, MailInv
<1>2. IInv => MailedCodes
  BY <1>1 DEF IInv, MailedCodes
<1>3. QED
  BY <1>2, Inductive, PTL

\* What a step may do to a row that was there: the body of UndoneOnlyByStaleReads.
UndoneByAStaleRead(t) ==
    account[t] # NoRow =>
      /\ account'[t] # NoRow
      /\ account[t].password \notin {"unset", account'[t].password} =>
           \E q \in Requests :
              /\ pc[q] = "write" /\ Table(q) = t
              /\ \/ call[q].kind = "login" /\ seen[q].password = "unset"
                 \/ call[q].kind = "reset" /\ seen[q].rcode = call[q].code
                    /\ [purpose |-> "reset", code |-> call[q].code] \in mailed
      /\ account[t].verified /\ ~ account'[t].verified =>
           \E q \in Requests : pc[q] = "write" /\ Table(q) = t /\ ~ seen[q].verified

\* A write changes its own row, which keeps every column that it does not name.
LEMMA WriteUndoes ==
    ASSUME TypeOK, NEW q \in Requests, NEW row \in Rows, NEW answer, Writes(q, row, answer),
           Row(q) # NoRow =>
             /\ Row(q).password \notin {"unset", row.password} =>
                  \/ call[q].kind = "login" /\ seen[q].password = "unset"
                  \/ call[q].kind = "reset" /\ seen[q].rcode = call[q].code
                     /\ [purpose |-> "reset", code |-> call[q].code] \in mailed
             /\ Row(q).verified /\ ~ row.verified => ~ seen[q].verified,
           NEW t \in Tables
    PROVE  UndoneByAStaleRead(t)
<1>1. pc[q] = "write" /\ account' = [account EXCEPT ![Table(q)] = row]
  BY DEF Writes, Goto
<1>2. account'[t] = IF t = Table(q) THEN row ELSE account[t]
  BY <1>1 DEF TypeOK
<1>3. CASE t = Table(q)
  <2>1. account[t] = Row(q) /\ account'[t] = row /\ row # NoRow
    BY <1>2, <1>3, Values DEF Row
  <2>2. QED
    BY <1>1, <1>3, <2>1 DEF UndoneByAStaleRead
<1>4. CASE t # Table(q)
  BY <1>2, <1>4 DEF UndoneByAStaleRead
<1>5. QED
  BY <1>3, <1>4

LEMMA WritersUndo ==
    ASSUME IInv, NEW q \in Requests, NEW t \in Tables,
           \/ CreateAccount(q) \/ SetFirstPassword(q) \/ RenewCode(q)
           \/ VerifyWrites(q) \/ ResendWrites(q) \/ ForgotWrites(q) \/ ResetWrites(q)
    PROVE  UndoneByAStaleRead(t)
<1>1. /\ pc[q] = "write" /\ code[q] \in Codes \cup {NoCode}
      /\ call[q].kind \in {"login", "reset"} => call[q].password \in Passwords
  BY CallPassword DEF IInv, TypeOK, CreateAccount, SetFirstPassword, RenewCode, VerifyWrites,
                      ResendWrites, ForgotWrites, ResetWrites, Writes, Goto
<1>2. TypeOK /\ Prepared(q) /\ (seen[q] # NoRow => Row(q) \in Rows)
  BY <1>1, WriterFacts DEF IInv
<1>3. CASE CreateAccount(q)
  <2> DEFINE row == [NewRow EXCEPT !.password = call[q].password,
                                   !.vcode = code[q], !.vlive = TRUE]
  <2>1. Writes(q, row, "ok") /\ Row(q) = NoRow /\ call[q].kind = "login"
    BY <1>3 DEF CreateAccount
  <2>2. row \in Rows
    BY <1>1, <2>1 DEF NewRow, Rows
  <2> HIDE DEF row
  <2>3. QED
    BY <1>2, <2>1, <2>2, WriteUndoes
<1>4. CASE SetFirstPassword(q)
  <2> DEFINE row == [Row(q) EXCEPT !.password = call[q].password]
  <2>1. /\ Writes(q, row, "tokens") /\ call[q].kind = "login"
        /\ seen[q] # NoRow /\ seen[q].password = "unset"
    BY <1>4 DEF SetFirstPassword
  <2>2. row \in Rows /\ row.verified = Row(q).verified
    BY <1>1, <1>2, <2>1 DEF Rows
  <2> HIDE DEF row
  <2>3. QED
    BY <1>2, <2>1, <2>2, WriteUndoes
<1>5. CASE RenewCode(q)
  <2> DEFINE row == [Row(q) EXCEPT !.verified = FALSE, !.vcode = code[q], !.vlive = TRUE]
  <2>1. /\ Writes(q, row, "ok") /\ call[q].kind = "login"
        /\ seen[q] # NoRow /\ seen[q].password # "unset"
    BY <1>5 DEF RenewCode
  <2>2. row \in Rows /\ row.password = Row(q).password
    BY <1>1, <1>2, <2>1 DEF Rows
  <2>3. ~ seen[q].verified
    BY <1>2, <2>1 DEF Prepared
  <2> HIDE DEF row
  <2>4. QED
    BY <1>2, <2>1, <2>2, <2>3, WriteUndoes
<1>6. CASE VerifyWrites(q)
  <2> DEFINE row == [Row(q) EXCEPT !.verified = TRUE, !.active = TRUE]
  <2>1. Writes(q, row, "ok") /\ call[q].kind \in {"verify", "verifyReset"}
    BY <1>6 DEF VerifyWrites
  <2>2. Row(q) \in Rows
    BY <1>2, <2>1 DEF Prepared
  <2>3. row \in Rows /\ row.password = Row(q).password /\ row.verified
    BY <2>2 DEF Rows
  <2> HIDE DEF row
  <2>4. QED
    BY <1>2, <2>1, <2>3, WriteUndoes
<1>7. CASE ResendWrites(q)
  <2> DEFINE row == [Row(q) EXCEPT !.vcode = code[q], !.vlive = TRUE]
  <2>1. Writes(q, row, "ok") /\ call[q].kind = "resend"
    BY <1>7 DEF ResendWrites
  <2>2. Row(q) \in Rows
    BY <1>2, <2>1 DEF Prepared
  <2>3. row \in Rows /\ row.password = Row(q).password /\ row.verified = Row(q).verified
    BY <1>1, <2>2 DEF Rows
  <2> HIDE DEF row
  <2>4. QED
    BY <1>2, <2>1, <2>3, WriteUndoes
<1>8. CASE ForgotWrites(q)
  <2> DEFINE row == [Row(q) EXCEPT !.rcode = code[q], !.rlive = TRUE]
  <2>1. Writes(q, row, "ok") /\ call[q].kind = "forgot"
    BY <1>8 DEF ForgotWrites
  <2>2. Row(q) \in Rows
    BY <1>2, <2>1 DEF Prepared
  <2>3. row \in Rows /\ row.password = Row(q).password /\ row.verified = Row(q).verified
    BY <1>1, <2>2 DEF Rows
  <2> HIDE DEF row
  <2>4. QED
    BY <1>2, <2>1, <2>3, WriteUndoes
<1>9. CASE ResetWrites(q)
  <2> DEFINE row == [Row(q) EXCEPT !.password = call[q].password,
                                   !.rcode = NoCode, !.rlive = FALSE]
  <2>1. Writes(q, row, "ok") /\ call[q].kind = "reset"
    BY <1>9 DEF ResetWrites
  <2>2. /\ Row(q) \in Rows /\ seen[q].rcode = call[q].code
        /\ [purpose |-> "reset", code |-> call[q].code] \in mailed
    BY <1>2, <2>1 DEF Prepared
  <2>3. row \in Rows /\ row.verified = Row(q).verified
    BY <1>1, <2>1, <2>2 DEF Rows
  <2> HIDE DEF row
  <2>4. QED
    BY <1>2, <2>1, <2>2, <2>3, WriteUndoes
<1>10. QED
  BY <1>3, <1>4, <1>5, <1>6, <1>7, <1>8, <1>9

LEMMA StepsUndo ==
    ASSUME IInv, [Next]_vars, NEW t \in Tables
    PROVE  UndoneByAStaleRead(t)
<1>1. ASSUME \/ account' = account
             \/ \A s \in Tables : \/ account'[s] = account[s]
                                  \/ account[s] = NoRow
      PROVE  UndoneByAStaleRead(t)
  BY <1>1 DEF UndoneByAStaleRead
<1>2. CASE UNCHANGED vars
  BY <1>1, <1>2 DEF vars
<1>3. ASSUME NEW q \in Requests, RequestStep(q) PROVE UndoneByAStaleRead(t)
  <2>1. CASE \/ Start(q) \/ Found(q) \/ AskNextTable(q)
             \/ SendMail(q) \/ Fails(q) \/ DuplicateAccount(q)
    BY <1>1, <2>1 DEF Start, Found, AskNextTable, SendMail, Fails, DuplicateAccount
  <2>2. CASE \/ LoginReads(q) \/ VerifyReads(q) \/ ResendReads(q)
             \/ ForgotReads(q) \/ ResetReads(q) \/ GoogleReads(q)
    BY <1>1, <2>2 DEF LoginReads, VerifyReads, ResendReads, ForgotReads, ResetReads, GoogleReads, Reads
  <2>3. CASE NotFound(q)
    BY <1>1, <2>3 DEF NotFound, IInv, TypeOK
  <2>4. CASE \/ CreateAccount(q) \/ SetFirstPassword(q) \/ RenewCode(q)
             \/ VerifyWrites(q) \/ ResendWrites(q) \/ ForgotWrites(q) \/ ResetWrites(q)
    BY <2>4, WritersUndo
  <2>5. QED
    BY <1>3, <2>1, <2>2, <2>3, <2>4 DEF RequestStep
<1>4. ASSUME NEW s \in Tables, AdminCreates(s) PROVE UndoneByAStaleRead(t)
  BY <1>1, <1>4 DEF AdminCreates, IInv, TypeOK
<1>5. ASSUME NEW s \in Tables, ExpireCode(s) PROVE UndoneByAStaleRead(t)
  <2>1. account[s] \in Rows
    BY <1>5 DEF ExpireCode, IInv, TypeOK
  <2>2. CASE s = t
    <3>1. PICK row \in Rows : /\ account'[t] = row /\ row.password = account[t].password
                              /\ row.verified = account[t].verified
      <4>1. CASE account' = [account EXCEPT ![s].vlive = FALSE]
        <5> DEFINE row == [account[s] EXCEPT !.vlive = FALSE]
        <5>1. row \in Rows /\ row.password = account[t].password /\ row.verified = account[t].verified
          BY <2>1, <2>2 DEF Rows
        <5>2. account'[t] = row
          BY <2>2, <4>1 DEF IInv, TypeOK
        <5>3. QED
          BY <5>1, <5>2
      <4>2. CASE account' = [account EXCEPT ![s].rlive = FALSE]
        <5> DEFINE row == [account[s] EXCEPT !.rlive = FALSE]
        <5>1. row \in Rows /\ row.password = account[t].password /\ row.verified = account[t].verified
          BY <2>1, <2>2 DEF Rows
        <5>2. account'[t] = row
          BY <2>2, <4>2 DEF IInv, TypeOK
        <5>3. QED
          BY <5>1, <5>2
      <4>3. QED
        BY <1>5, <4>1, <4>2 DEF ExpireCode
    <3>2. QED
      BY <3>1, Values DEF UndoneByAStaleRead
  <2>3. CASE s # t
    BY <1>5, <2>3 DEF ExpireCode, IInv, TypeOK, UndoneByAStaleRead
  <2>4. QED
    BY <2>2, <2>3
<1>6. QED
  BY <1>2, <1>3, <1>4, <1>5 DEF Next

\* A committed password is replaced only by a reset whose code was accepted and mailed, or by
\* a first login that saw none, and a verification is lost only to a login that saw the
\* address unverified: what machine/api/v1/auth.py writes is what it decided on before its
\* last await, and nothing else undoes a commit.
THEOREM CommitsStay == Spec => UndoneOnlyByStaleReads
<1>1. IInv /\ [Next]_vars => [\A t \in Tables : UndoneByAStaleRead(t)]_vars
  BY StepsUndo
<1>2. QED
  BY <1>1, Inductive, PTL DEF Spec, UndoneOnlyByStaleReads, UndoneByAStaleRead

-----------------------------------------------------------------------------
(* The inductive invariant of the directory.                               *)

Inputs ==
    /\ target \in [Edits \cup Toggles \cup Shows -> Users]
    /\ \A e \in Edits : target[e] \in Known
    /\ wanted \in [Creates -> Users \X Users]
    /\ given \in [Edits -> SUBSET Fields]
    /\ filter \in [Lists -> (1..3 \cup {0}) \X {"any", "active", "inactive"}]

UserTables ==
    /\ Inputs
    /\ users = [u \in Users |-> users[u]]
    /\ step = [r \in UserCalls |-> step[r]]
    /\ found = [r \in UserCalls |-> found[r]]
    /\ before = [r \in Lists \cup Counts |-> before[r]]

RowFits(row) ==
    row = NoUser \/ /\ DOMAIN row = {"name", "avatar", "active"}
                    /\ row.name \in {Old} \cup Edits
                    /\ row.avatar \in {Old} \cup stored
                    /\ row.active \in BOOLEAN
RowsFit == (\A u \in Users : RowFits(users[u])) /\ Known \subseteq There(users)

\* The users that a creation has made are there and its own.
CreateFits(r) ==
    /\ step[r] \in {"idle", "answered", "failed"} /\ found[r] \in 0..2
    /\ step[r] = "answered" => found[r] = 2
    /\ \A i \in 1..2 : i <= found[r] => wanted[r][i] \in There(users) \ Known
MadeOnce ==
    \A q, r \in Creates, i, j \in 1..2 :
      i <= found[q] /\ j <= found[r] /\ wanted[q][i] = wanted[r][j] => q = r /\ i = j

\* Of the users that r edits nobody else gives this field.
AloneGives(r, f) == \A q \in Edits \ {r} : target[q] = target[r] => f \notin given[q]
EditFits(r) ==
    /\ step[r] \in {"idle", "failed", "upload", "save", "answered"}
    /\ r \in stored => "avatar" \in given[r]
    /\ step[r] = "upload" => "avatar" \in given[r]
    /\ step[r] = "save" /\ "avatar" \in given[r] => r \in stored
    /\ step[r] = "answered" => \A f \in given[r] : AloneGives(r, f) => users[target[r]][f] = r

ToggleFits(r) ==
    /\ step[r] \in {"idle", "set", "answered"}
    /\ step[r] = "set" => found[r].active \in BOOLEAN

\* The tables that a list or a count has read when it is at table i.
At(r, i) == (i \in 1..3 /\ step[r] = Roles[i]) \/ (i = 4 /\ step[r] = "answered")
UpTo(i)  == UNION {UsersIn(k) : k \in 1..(i - 1)}

ReadFits(r) ==
    /\ step[r] = "idle" \/ \E i \in 1..4 : At(r, i)
    /\ There(before[r]) \subseteq There(users)
    /\ \A u \in Users : before[r][u] = NoUser \/ before[r][u].active \in BOOLEAN

CountFits(r) ==
    /\ found[r] \in 0..Cardinality(Users)
    /\ \A i \in 1..4 :
         At(r, i) => /\ found[r] >= Cardinality(There(before[r]) \cap UpTo(i))
                     /\ found[r] <= Cardinality(There(users) \cap UpTo(i))

\* The users whose status is changed at most once, and the status of one at first.
Once        == {u \in Users : \A p, q \in Toggles : target[p] = u /\ target[q] = u => p = q}
First(r, u) == IF before[r][u] = NoUser THEN NewUser ELSE before[r][u]
Settled(u)  == \A q \in Toggles : target[q] = u => step[q] = "answered"

\* A list has read the users of the tables behind it; whose status is not that at first
\* has had it changed already.
ListFits(r) ==
    /\ \A u \in Once \cap There(users) :
         step[r] # "idle" /\ First(r, u).active # users[u].active => Settled(u)
    /\ \A i \in 1..4 :
         At(r, i) =>
           /\ found[r] \subseteq There(users) \cap UpTo(i)
           /\ \A u \in found[r] : filter[r][1] \in {0, TableOf(u)}
           /\ \A u \in Once \cap There(users) :
                filter[r][2] = "any" \/ First(r, u).active = users[u].active =>
                  /\ u \in found[r] => Matches(users, u, filter[r])
                  /\ u \in There(before[r]) \cap UpTo(i) /\ Matches(users, u, filter[r]) => u \in found[r]

Fits(r) ==
    /\ r \in Creates => CreateFits(r)
    /\ r \in Edits => EditFits(r)
    /\ r \in Toggles => ToggleFits(r)
    /\ r \in Lists \cup Counts => ReadFits(r)
    /\ r \in Counts => CountFits(r)
    /\ r \in Lists => ListFits(r)

UserInv ==
    /\ UserTables /\ RowsFit /\ MadeOnce
    /\ stored \subseteq Edits
    /\ \A r \in UserCalls : Fits(r)

-----------------------------------------------------------------------------
(* The tables, and their parts.                                            *)

LEMMA TableFacts ==
    /\ UsersIn(1) = Students /\ UsersIn(2) = Professors /\ UsersIn(3) = Admins
    /\ UpTo(1) = {} /\ UpTo(2) = Students /\ UpTo(3) = Students \cup Professors /\ UpTo(4) = Users
    /\ \A i \in 1..3 : UpTo(i + 1) = UpTo(i) \cup UsersIn(i) /\ UpTo(i) \cap UsersIn(i) = {}
                       /\ UsersIn(i) \subseteq Users /\ UpTo(i) \subseteq Users
<1>1. UsersIn(1) = Students /\ UsersIn(2) = Professors /\ UsersIn(3) = Admins
  BY DEF UsersIn
<1>2. /\ {UsersIn(k) : k \in 1..0} = {}
      /\ {UsersIn(k) : k \in 1..1} = {UsersIn(1)}
      /\ {UsersIn(k) : k \in 1..2} = {UsersIn(1), UsersIn(2)}
      /\ {UsersIn(k) : k \in 1..3} = {UsersIn(1), UsersIn(2), UsersIn(3)}
  <2>1. 1..0 = {} /\ 1..1 = {1} /\ 1..2 = {1, 2} /\ 1..3 = {1, 2, 3}
    OBVIOUS
  <2>2. QED
    BY <2>1
<1>3. UpTo(1) = {} /\ UpTo(2) = Students /\ UpTo(3) = Students \cup Professors /\ UpTo(4) = Users
  BY <1>1, <1>2 DEF UpTo, Users
<1>4. ASSUME NEW i \in 1..3
      PROVE  /\ UpTo(i + 1) = UpTo(i) \cup UsersIn(i) /\ UpTo(i) \cap UsersIn(i) = {}
             /\ UsersIn(i) \subseteq Users /\ UpTo(i) \subseteq Users
  <2>1. CASE i = 1
    BY <1>1, <1>3, <2>1 DEF Users
  <2>2. CASE i = 2
    BY <1>1, <1>3, <2>2, KindsAssumption DEF Users
  <2>3. CASE i = 3
    BY <1>1, <1>3, <2>3, KindsAssumption DEF Users
  <2>4. QED
    BY <2>1, <2>2, <2>3
<1>5. QED
  BY <1>1, <1>3, <1>4

LEMMA TableOfFacts ==
    /\ \A u \in Users : TableOf(u) \in 1..3 /\ u \in UsersIn(TableOf(u))
    /\ \A u \in Users, i \in 1..3 : u \in UsersIn(i) <=> TableOf(u) = i
<1>1. \A u \in Users : \E i \in 1..3 : u \in UsersIn(i)
  BY TableFacts DEF Users
<1>2. \A u \in Users : TableOf(u) \in 1..3 /\ u \in UsersIn(TableOf(u))
  BY <1>1 DEF TableOf
<1>3. ASSUME NEW u \in Users, NEW i \in 1..3, NEW j \in 1..3, u \in UsersIn(i), u \in UsersIn(j)
      PROVE  i = j
  BY <1>3, TableFacts, KindsAssumption
<1>4. QED
  BY <1>2, <1>3

LEMMA RoleFacts ==
    /\ Roles[1] = "student" /\ Roles[2] = "professor" /\ Roles[3] = "admin"
    /\ \A i, j \in 1..3 : Roles[i] = Roles[j] => i = j
    /\ \A i \in 1..3 : Roles[i] # "answered" /\ Roles[i] # "idle"
<1>1. Roles[1] = "student" /\ Roles[2] = "professor" /\ Roles[3] = "admin"
  BY DEF Roles
<1>2. \A i \in 1..3 : i = 1 \/ i = 2 \/ i = 3
  OBVIOUS
<1>3. QED
  BY <1>1, <1>2

\* A request is at one table.
LEMMA AtOne ==
    ASSUME NEW r, NEW i \in 1..4, NEW j \in 1..4, At(r, i), At(r, j)
    PROVE  i = j
<1>1. (i \in 1..3 /\ step[r] = Roles[i]) \/ (i = 4 /\ step[r] = "answered")
  BY DEF At
<1>2. (j \in 1..3 /\ step[r] = Roles[j]) \/ (j = 4 /\ step[r] = "answered")
  BY DEF At
<1>3. QED
  BY <1>1, <1>2, RoleFacts

LEMMA KindsApart ==
    /\ \A r \in Creates : r \notin Edits \cup Toggles \cup Shows \cup Lists \cup Counts
    /\ \A r \in Edits : r \notin Toggles \cup Shows \cup Lists \cup Counts
    /\ \A r \in Toggles : r \notin Shows \cup Lists \cup Counts
    /\ \A r \in Shows : r \notin Lists \cup Counts
    /\ \A r \in Lists : r \notin Counts
BY KindsAssumption

-----------------------------------------------------------------------------
(* What a step leaves of it.                                               *)

\* Rows come, and the status of one changes at the last change of it that there is.
RowsMove ==
    /\ users' = [u \in Users |-> users'[u]]
    /\ \A u \in Users : users[u] = NoUser => users'[u] = NoUser \/ users'[u] = NewUser
    /\ \A u \in There(users) :
         /\ users'[u] # NoUser
         /\ \/ users'[u].active = users[u].active
            \/ u \in Once => Settled(u)' /\ ~Settled(u)

\* The steps of one request.
StepsAlone(r) ==
    /\ UNCHANGED inputs
    /\ step' = [step EXCEPT ![r] = step'[r]] /\ step[r] # "answered"
    /\ found' = [x \in UserCalls |-> found'[x]]
    /\ \A x \in UserCalls \ {r} : found'[x] = found[x]
    /\ before' = [x \in Lists \cup Counts |-> before'[x]]
    /\ \A x \in (Lists \cup Counts) \ {r} : before'[x] = before[x]
    /\ stored \subseteq stored' /\ stored' \subseteq stored \cup ({r} \cap Edits)

LEMMA ThereGrows ==
    ASSUME UserInv, RowsMove
    PROVE  There(users) \subseteq There(users')
BY DEF RowsMove, There

LEMMA CreateKept ==
    ASSUME UserInv, RowsMove, NEW x \in Creates, step'[x] = step[x], found'[x] = found[x],
           UNCHANGED inputs
    PROVE  CreateFits(x)'
<1>1. CreateFits(x)
  BY DEF UserInv, Fits, UserCalls
<1>2. There(users) \subseteq There(users')
  BY ThereGrows
<1>3. QED
  BY <1>1, <1>2 DEF CreateFits, inputs

LEMMA CountKept ==
    ASSUME UserInv, RowsMove, NEW x \in Counts, step'[x] = step[x], found'[x] = found[x],
           before'[x] = before[x]
    PROVE  CountFits(x)'
<1>1. CountFits(x)
  BY DEF UserInv, Fits, UserCalls
<1>2. There(users) \subseteq There(users') /\ There(users') \subseteq Users /\ There(users) \subseteq Users
  BY ThereGrows DEF There
<1>3. ASSUME NEW i \in 1..4, At(x, i)'
      PROVE  /\ found'[x] >= Cardinality(There(before'[x]) \cap UpTo(i))
             /\ found'[x] <= Cardinality(There(users') \cap UpTo(i))
  <2>1. At(x, i)
    BY <1>3 DEF At
  <2>2. /\ IsFiniteSet(There(users') \cap UpTo(i)) /\ IsFiniteSet(There(users) \cap UpTo(i))
        /\ There(users) \cap UpTo(i) \subseteq There(users') \cap UpTo(i)
    BY <1>2, FS_Subset, KindsAssumption
  <2>3. /\ Cardinality(There(users) \cap UpTo(i)) <= Cardinality(There(users') \cap UpTo(i))
        /\ Cardinality(There(users) \cap UpTo(i)) \in Nat /\ Cardinality(There(users') \cap UpTo(i)) \in Nat
        /\ Cardinality(There(before[x]) \cap UpTo(i)) \in Nat
    <3>1. There(before[x]) \cap UpTo(i) \subseteq Users
      BY DEF There
    <3>2. QED
      BY <2>2, <3>1, FS_Subset, FS_CardinalityType, KindsAssumption
  <2>4. found[x] \in Nat
    BY <1>1, KindsAssumption, FS_CardinalityType DEF CountFits
  <2>5. /\ found[x] >= Cardinality(There(before[x]) \cap UpTo(i))
        /\ found[x] <= Cardinality(There(users) \cap UpTo(i))
    BY <1>1, <2>1 DEF CountFits
  <2> DEFINE a == Cardinality(There(users) \cap UpTo(i))
             b == Cardinality(There(users') \cap UpTo(i))
             c == Cardinality(There(before[x]) \cap UpTo(i))
  <2>6. /\ a <= b /\ a \in Nat /\ b \in Nat /\ found[x] \in Nat /\ found[x] >= c /\ found[x] <= a /\ c \in Nat
    BY <2>3, <2>4, <2>5
  <2> HIDE DEF a, b, c
  <2>7. found[x] >= c /\ found[x] <= b
    BY <2>6
  <2>8. QED
    BY <2>7 DEF b, c
<1>4. QED
  BY <1>1, <1>3 DEF CountFits

LEMMA ReadKept ==
    ASSUME UserInv, RowsMove, NEW x \in Lists \cup Counts, step'[x] = step[x], before'[x] = before[x]
    PROVE  ReadFits(x)'
<1>1. ReadFits(x)
  BY DEF UserInv, Fits, UserCalls
<1>2. There(users) \subseteq There(users')
  BY ThereGrows
<1>3. \A i : At(x, i)' <=> At(x, i)
  BY DEF At
<1>4. QED
  BY <1>1, <1>2, <1>3 DEF ReadFits

LEMMA ListKept ==
    ASSUME UserInv, RowsMove, NEW x \in Lists, step'[x] = step[x], found'[x] = found[x],
           before'[x] = before[x], UNCHANGED inputs,
           \A q \in Toggles : step[q] = "answered" => step'[q] = "answered"
    PROVE  ListFits(x)'
<1>1. ListFits(x) /\ ReadFits(x) /\ RowsFit /\ UserTables
  BY DEF UserInv, Fits, UserCalls
<1>2. There(users) \subseteq There(users')
  BY ThereGrows
<1>3. /\ filter' = filter /\ target' = target /\ Once' = Once
      /\ \A u : First(x, u)' = First(x, u)
      /\ \A u : Settled(u) => Settled(u)'
      /\ \A i : At(x, i)' <=> At(x, i)
  BY DEF inputs, Once, First, Settled, At
<1>4. \A u \in There(users') : u \notin There(users) =>
         users'[u] = NewUser /\ First(x, u) = NewUser /\ u \notin There(before[x])
  <2>1. ASSUME NEW u \in There(users'), u \notin There(users)
        PROVE  users'[u] = NewUser /\ First(x, u) = NewUser /\ u \notin There(before[x])
    <3>1. u \in Users /\ users'[u] # NoUser /\ users[u] = NoUser
      BY <2>1 DEF There
    <3>2. users'[u] = NewUser
      BY <3>1 DEF RowsMove
    <3>3. u \notin There(before[x]) /\ before[x][u] = NoUser
      BY <1>1, <2>1, <3>1 DEF ReadFits, There
    <3>4. QED
      BY <3>2, <3>3 DEF First
  <2>2. QED
    BY <2>1
<1>5. ASSUME NEW u \in Once, u \in There(users'), step[x] # "idle", First(x, u).active # users'[u].active
      PROVE  Settled(u)'
  <2>1. u \in There(users)
    BY <1>4, <1>5
  <2>2. CASE First(x, u).active # users[u].active
    BY <1>1, <1>3, <1>5, <2>1, <2>2 DEF ListFits
  <2>3. CASE First(x, u).active = users[u].active
    BY <1>5, <2>1, <2>3 DEF RowsMove
  <2>4. QED
    BY <2>2, <2>3
<1>6. ASSUME NEW i \in 1..4, At(x, i)
      PROVE  /\ found[x] \subseteq There(users') \cap UpTo(i)
             /\ \A u \in found[x] : filter[x][1] \in {0, TableOf(u)}
             /\ \A u \in Once \cap There(users') :
                  filter[x][2] = "any" \/ First(x, u).active = users'[u].active =>
                    /\ u \in found[x] => Matches(users', u, filter[x])
                    /\ u \in There(before[x]) \cap UpTo(i) /\ Matches(users', u, filter[x]) => u \in found[x]
  <2>1. found[x] \subseteq There(users) \cap UpTo(i) /\ \A u \in found[x] : filter[x][1] \in {0, TableOf(u)}
    BY <1>1, <1>6 DEF ListFits
  <2>2. ASSUME NEW u \in Once, u \in There(users'),
               filter[x][2] = "any" \/ First(x, u).active = users'[u].active
        PROVE  /\ u \in found[x] => Matches(users', u, filter[x])
               /\ u \in There(before[x]) \cap UpTo(i) /\ Matches(users', u, filter[x]) => u \in found[x]
    <3>1. CASE u \notin There(users)
      BY <1>4, <2>1, <2>2, <3>1
    <3>2. CASE u \in There(users)
      <4>1. /\ filter[x][2] = "any" \/ First(x, u).active = users[u].active
            /\ filter[x][2] = "any" \/ users'[u].active = users[u].active
        <5>1. CASE filter[x][2] = "any"
          BY <5>1
        <5>2. CASE users'[u].active = users[u].active
          BY <2>2, <5>2
        <5>3. CASE filter[x][2] # "any" /\ users'[u].active # users[u].active
          <6>1. First(x, u).active # users[u].active
            BY <2>2, <5>3
          <6>2. step[x] # "idle"
            BY <1>6, RoleFacts DEF At
          <6>3. Settled(u)
            BY <1>1, <2>2, <3>2, <6>1, <6>2 DEF ListFits
          <6>4. ~Settled(u)
            BY <2>2, <3>2, <5>3 DEF RowsMove
          <6>5. QED
            BY <6>3, <6>4
        <5>4. QED
          BY <5>1, <5>2, <5>3
      <4>2. Matches(users', u, filter[x]) <=> Matches(users, u, filter[x])
        BY <4>1 DEF Matches
      <4>3. QED
        BY <1>1, <1>6, <2>2, <3>2, <4>1, <4>2 DEF ListFits
    <3>3. QED
      BY <3>1, <3>2
  <2>3. QED
    BY <1>2, <2>1, <2>2
<1>7. QED
  BY <1>3, <1>5, <1>6 DEF ListFits

\* What a step writes of a row is what its own edit gives.
FieldsMove(r) ==
    \A u \in There(users), f \in Fields :
      users'[u][f] = users[u][f] \/ (r \in Edits /\ target[r] = u /\ f \in given[r])

LEMMA EditKept ==
    ASSUME UserInv, NEW r \in UserCalls, StepsAlone(r), FieldsMove(r), NEW x \in Edits, x # r
    PROVE  EditFits(x)'
<1>1. EditFits(x) /\ Inputs /\ RowsFit
  BY DEF UserInv, Fits, UserCalls, UserTables
<1>2. /\ target' = target /\ given' = given /\ step'[x] = step[x] /\ (x \in stored' <=> x \in stored)
      /\ \A f : AloneGives(x, f)' <=> AloneGives(x, f)
  BY DEF StepsAlone, inputs, AloneGives, UserInv, UserTables, UserCalls
<1>3. ASSUME step[x] = "answered", NEW f \in given[x], AloneGives(x, f)
      PROVE  users'[target[x]][f] = x
  <2>1. f \in Fields /\ target[x] \in There(users)
    BY <1>1 DEF Inputs, RowsFit
  <2>2. ~(r \in Edits /\ target[r] = target[x] /\ f \in given[r])
    BY <1>3 DEF AloneGives
  <2>3. users'[target[x]][f] = users[target[x]][f]
    BY <2>1, <2>2 DEF FieldsMove
  <2>4. QED
    BY <1>1, <1>3, <2>3 DEF EditFits
<1>4. QED
  BY <1>1, <1>2, <1>3 DEF EditFits

LEMMA StepKept ==
    ASSUME UserInv, NEW r \in UserCalls, StepsAlone(r), RowsMove, FieldsMove(r), RowsFit',
           r \in Creates => MadeOnce', Fits(r)'
    PROVE  UserInv'
<1>1. UserTables /\ stored \subseteq Edits /\ MadeOnce
  BY DEF UserInv
<1>2. /\ UNCHANGED inputs
      /\ \A x \in UserCalls \ {r} : step'[x] = step[x] /\ found'[x] = found[x]
      /\ \A x \in (Lists \cup Counts) \ {r} : before'[x] = before[x]
      /\ \A q \in Toggles : step[q] = "answered" => step'[q] = "answered"
  BY <1>1 DEF StepsAlone, UserTables, UserCalls
<1>3. UserTables'
  BY <1>1, <1>2 DEF StepsAlone, RowsMove, UserTables, Inputs, inputs
<1>4. MadeOnce'
  <2>1. CASE r \in Creates
    BY <2>1
  <2>2. CASE r \notin Creates
    <3>1. \A q \in Creates : found'[q] = found[q]
      BY <1>2, <2>2 DEF UserCalls
    <3>2. wanted' = wanted
      BY <1>2 DEF inputs
    <3>3. QED
      BY <1>1, <3>1, <3>2 DEF MadeOnce
  <2>3. QED
    BY <2>1, <2>2
<1>5. ASSUME NEW x \in UserCalls, x # r
      PROVE  Fits(x)'
  <2>1. x \in Creates => CreateFits(x)'
    BY <1>2, <1>5, CreateKept
  <2>2. x \in Edits => EditFits(x)'
    BY <1>5, EditKept
  <2>3. x \in Toggles => ToggleFits(x)'
    BY <1>2, <1>5 DEF UserInv, Fits, ToggleFits
  <2>4. x \in Lists \cup Counts => ReadFits(x)'
    BY <1>2, <1>5, ReadKept
  <2>5. x \in Counts => CountFits(x)'
    BY <1>2, <1>5, CountKept
  <2>6. x \in Lists => ListFits(x)'
    BY <1>2, <1>5, ListKept
  <2>7. QED
    BY <2>1, <2>2, <2>3, <2>4, <2>5, <2>6 DEF Fits
<1>6. stored' \subseteq Edits
  BY <1>1 DEF StepsAlone
<1>7. QED
  BY <1>3, <1>4, <1>5, <1>6 DEF UserInv

LEMMA RowsStay ==
    ASSUME UserInv, NEW r, users' = users, stored \subseteq stored'
    PROVE  RowsMove /\ FieldsMove(r) /\ RowsFit'
<1>1. UserTables /\ RowsFit
  BY DEF UserInv
<1>2. RowsMove
  BY <1>1 DEF RowsMove, UserTables, There
<1>3. FieldsMove(r)
  BY DEF FieldsMove
<1>4. RowsFit'
  BY <1>1 DEF RowsFit, RowFits, There
<1>5. QED
  BY <1>2, <1>3, <1>4

\* The step of a request, where a table of the model is written at it.
LEMMA TurnAlone ==
    ASSUME UserInv, NEW r \in UserCalls, NEW a, NEW b, Turn(r, a, b), a # "answered",
           UNCHANGED inputs
    PROVE  /\ step' = [step EXCEPT ![r] = step'[r]] /\ step[r] # "answered" /\ step[r] = a /\ step'[r] = b
           /\ found' = found => found' = [x \in UserCalls |-> found'[x]]
           /\ before' = before => before' = [x \in Lists \cup Counts |-> before'[x]]
           /\ \A v : found' = [found EXCEPT ![r] = v] =>
                 /\ found' = [x \in UserCalls |-> found'[x]] /\ found'[r] = v
                 /\ \A x \in UserCalls \ {r} : found'[x] = found[x]
<1>1. UserTables
  BY DEF UserInv
<1>2. step'[r] = b /\ step[r] = a
  BY <1>1 DEF UserTables, Turn
<1>3. QED
  BY <1>1, <1>2 DEF UserTables, Turn

-----------------------------------------------------------------------------
(* Each action keeps it.                                                   *)

LEMMA InsertKeeps ==
    ASSUME UserInv, NEW r \in UserCalls, NEW u \in Users, u \notin There(users), Insert(u),
           stored' = stored
    PROVE  /\ RowsMove /\ FieldsMove(r) /\ RowsFit'
           /\ There(users') = There(users) \cup {u}
<1>1. UserTables /\ RowsFit /\ users[u] = NoUser
  BY DEF UserInv, There
<1>2. users' = [users EXCEPT ![u] = NewUser] /\ users' = [x \in Users |-> users'[x]]
  BY <1>1 DEF Insert, UserTables
<1>3. users'[u] = NewUser /\ \A x \in Users \ {u} : users'[x] = users[x]
  BY <1>1, <1>2 DEF UserTables
<1>4. /\ DOMAIN NewUser = {"name", "avatar", "active"} /\ NewUser.name = Old
      /\ NewUser.avatar = Old /\ NewUser.active = FALSE
  BY DEF NewUser
<1>5. NewUser # NoUser
  <2>1. DOMAIN NoUser = {"name"}
    BY DEF NoUser
  <2>2. QED
    BY <1>4, <2>1
<1>6. There(users') = There(users) \cup {u}
  BY <1>1, <1>3, <1>5 DEF There
<1>7. RowsMove
  BY <1>1, <1>2, <1>3 DEF RowsMove, There
<1>8. FieldsMove(r)
  BY <1>1, <1>3 DEF FieldsMove, There
<1>9. RowsFit'
  <2>1. \A x \in Users : RowFits(users[x])'
    <3>1. ASSUME NEW x \in Users
          PROVE  RowFits(users[x])'
      <4>1. CASE x = u
        BY <1>3, <1>4, <4>1 DEF RowFits
      <4>2. CASE x # u
        BY <1>1, <1>3, <4>2 DEF RowFits, RowsFit
      <4>3. QED
        BY <4>1, <4>2
    <3>2. QED
      BY <3>1
  <2>2. QED
    BY <1>1, <1>6, <2>1 DEF RowsFit, RowFits
<1>10. QED
  BY <1>6, <1>7, <1>8, <1>9

LEMMA CreateKeeps ==
    ASSUME UserInv, NEW r \in Creates, NEW i \in 1..2, CreateNext(r, i)
    PROVE  UserInv'
<1>1. UserTables /\ CreateFits(r) /\ MadeOnce /\ r \in UserCalls /\ RowsFit
  BY DEF UserInv, Fits, UserCalls
<1>2. i = found[r] + 1 /\ UNCHANGED inputs /\ stored' = stored /\ before' = before
  BY DEF CreateNext
<1>3. r \notin Edits \cup Toggles \cup Shows \cup Lists \cup Counts
  BY KindsApart
<1>4. CASE wanted[r][i] \in There(users)
  <2>1. Turn(r, "idle", "failed") /\ users' = users /\ found' = found
    BY <1>4 DEF CreateNext
  <2>2. StepsAlone(r) /\ step'[r] = "failed"
    BY <1>1, <1>2, <2>1, TurnAlone DEF StepsAlone
  <2>3. CreateFits(r)'
    BY <1>1, <1>2, <2>1, <2>2 DEF CreateFits, inputs
  <2>4. RowsMove /\ FieldsMove(r) /\ RowsFit'
    BY <1>2, <2>1, RowsStay
  <2>5. MadeOnce'
    BY <1>1, <1>2, <2>1 DEF MadeOnce, inputs
  <2>6. Fits(r)'
    BY <1>3, <2>3 DEF Fits
  <2>7. QED
    BY <1>1, <2>2, <2>4, <2>5, <2>6, StepKept
<1>5. CASE wanted[r][i] \notin There(users)
  <2> DEFINE u == wanted[r][i]
  <2>1. Turn(r, "idle", IF i = 2 THEN "answered" ELSE "idle") /\ Insert(u) /\ found' = [found EXCEPT ![r] = i]
    BY <1>5 DEF CreateNext
  <2>2. StepsAlone(r) /\ found'[r] = i /\ step'[r] = IF i = 2 THEN "answered" ELSE "idle"
    <3> DEFINE b == IF i = 2 THEN "answered" ELSE "idle"
    <3>1. Turn(r, "idle", b) /\ "idle" # "answered" /\ UNCHANGED inputs
      BY <1>2, <2>1
    <3> HIDE DEF b
    <3>2. /\ step' = [step EXCEPT ![r] = step'[r]] /\ step[r] # "answered" /\ step'[r] = b
          /\ before' = before => before' = [x \in Lists \cup Counts |-> before'[x]]
          /\ \A v : found' = [found EXCEPT ![r] = v] =>
                /\ found' = [x \in UserCalls |-> found'[x]] /\ found'[r] = v
                /\ \A x \in UserCalls \ {r} : found'[x] = found[x]
      BY <1>1, <3>1, TurnAlone
    <3>3. /\ found' = [x \in UserCalls |-> found'[x]] /\ found'[r] = i
          /\ \A x \in UserCalls \ {r} : found'[x] = found[x]
      BY ONLY <2>1, <3>2, Zenon
    <3>4. /\ before' = [x \in Lists \cup Counts |-> before'[x]]
          /\ \A x \in (Lists \cup Counts) \ {r} : before'[x] = before[x]
      BY ONLY <1>2, <3>2, Zenon
    <3>5. stored \subseteq stored' /\ stored' \subseteq stored \cup ({r} \cap Edits)
      BY <1>2
    <3>6. StepsAlone(r)
      BY ONLY <1>2, <3>2, <3>3, <3>4, <3>5, Zenon DEF StepsAlone
    <3>7. QED
      BY <3>2, <3>3, <3>6 DEF b
  <2>3. u \in Users /\ u \notin There(users)
    BY <1>1, <1>5 DEF UserTables, Inputs
  <2> HIDE DEF u
  <2>4. /\ RowsMove /\ FieldsMove(r) /\ RowsFit'
        /\ There(users') = There(users) \cup {u}
    BY <1>1, <1>2, <2>1, <2>3, InsertKeeps
  <2>5. u \notin Known
    BY <1>1, <2>3 DEF RowsFit
  <2>6. wanted' = wanted
    BY <1>2 DEF inputs
  <2>7. CreateFits(r)'
    <3>1. /\ step'[r] \in {"idle", "answered", "failed"} /\ found'[r] \in 0..2
          /\ step'[r] = "answered" => found'[r] = 2
      BY <2>2
    <3>2. ASSUME NEW j \in 1..2, j <= found'[r]
          PROVE  wanted[r][j] \in There(users') \ Known
      <4>1. CASE j = i
        BY <2>4, <2>5, <4>1 DEF u
      <4>2. CASE j # i
        <5>1. j <= found[r]
          BY <1>1, <1>2, <2>2, <3>2, <4>2 DEF CreateFits
        <5>2. QED
          BY <1>1, <2>4, <5>1 DEF CreateFits
      <4>3. QED
        BY <4>1, <4>2
    <3>3. QED
      BY <2>6, <3>1, <3>2 DEF CreateFits
  <2>8. MadeOnce'
    <3>1. ASSUME NEW p \in Creates, NEW q \in Creates, NEW j \in 1..2, NEW k \in 1..2,
                 j <= found'[p], k <= found'[q], wanted[p][j] = wanted[q][k]
          PROVE  p = q /\ j = k
      <4>1. ASSUME NEW x \in Creates, NEW l \in 1..2, l <= found'[x]
            PROVE  (x = r /\ l = i) \/ (l <= found[x] /\ wanted[x][l] \in There(users))
        <5>1. CASE x = r
          BY <1>1, <1>2, <2>2, <4>1, <5>1 DEF CreateFits
        <5>2. CASE x # r
          <6>1. found'[x] = found[x] /\ CreateFits(x)
            BY <2>2, <5>2 DEF StepsAlone, UserInv, Fits, UserCalls
          <6>2. QED
            BY <4>1, <6>1 DEF CreateFits
        <5>3. QED
          BY <5>1, <5>2
      <4>2. CASE p = r /\ j = i
        BY <1>5, <3>1, <4>1, <4>2
      <4>3. CASE q = r /\ k = i
        BY <1>5, <3>1, <4>1, <4>3
      <4>4. CASE ~(p = r /\ j = i) /\ ~(q = r /\ k = i)
        BY <1>1, <3>1, <4>1, <4>4 DEF MadeOnce
      <4>5. QED
        BY <4>2, <4>3, <4>4
    <3>2. QED
      BY <2>6, <3>1 DEF MadeOnce
  <2>9. Fits(r)'
    BY <1>3, <2>7 DEF Fits
  <2>10. QED
    BY <1>1, <2>2, <2>4, <2>8, <2>9, StepKept
<1>6. QED
  BY <1>4, <1>5

LEMMA LookUpKeeps ==
    ASSUME UserInv, NEW r \in Edits, LookUp(r)
    PROVE  UserInv'
<1>1. UserTables /\ EditFits(r) /\ r \in UserCalls
  BY DEF UserInv, Fits, UserCalls
<1>2. /\ UNCHANGED inputs /\ stored' = stored /\ before' = before /\ users' = users
      /\ found' = [found EXCEPT ![r] = users[target[r]]]
  BY DEF LookUp
<1>3. r \notin Creates \cup Toggles \cup Shows \cup Lists \cup Counts
  BY KindsApart
<1>4. PICK b \in {"failed", "upload", "save"} :
        /\ Turn(r, "idle", b)
        /\ b = "upload" => "avatar" \in given[r]
        /\ b = "save" => "avatar" \notin given[r]
  BY DEF LookUp
<1>5. StepsAlone(r) /\ step'[r] = b
  BY <1>1, <1>2, <1>4, TurnAlone DEF StepsAlone
<1>6. RowsMove /\ FieldsMove(r) /\ RowsFit'
  BY <1>2, RowsStay
<1>7. EditFits(r)'
  BY <1>1, <1>2, <1>4, <1>5 DEF EditFits, inputs
<1>8. Fits(r)'
  BY <1>3, <1>7 DEF Fits
<1>9. QED
  BY <1>1, <1>3, <1>5, <1>6, <1>8, StepKept

LEMMA UploadKeeps ==
    ASSUME UserInv, NEW r \in Edits, Upload(r)
    PROVE  UserInv'
<1>1. UserTables /\ EditFits(r) /\ r \in UserCalls
  BY DEF UserInv, Fits, UserCalls
<1>2. UNCHANGED inputs /\ before' = before /\ users' = users /\ found' = found
  BY DEF Upload
<1>3. r \notin Creates \cup Toggles \cup Shows \cup Lists \cup Counts
  BY KindsApart
<1>4. PICK b \in {"failed", "save"} :
        /\ Turn(r, "upload", b) /\ stored \subseteq stored' /\ stored' \subseteq stored \cup {r}
        /\ b = "save" => r \in stored'
  BY DEF Upload
<1>5. StepsAlone(r) /\ step'[r] = b /\ step[r] = "upload"
  BY <1>1, <1>2, <1>4, TurnAlone, ZenonT(40) DEF StepsAlone
<1>6. RowsMove /\ FieldsMove(r) /\ RowsFit'
  BY <1>2, <1>4, RowsStay
<1>7. EditFits(r)'
  BY <1>1, <1>2, <1>4, <1>5 DEF EditFits, inputs
<1>8. Fits(r)'
  BY <1>3, <1>7 DEF Fits
<1>9. QED
  BY <1>1, <1>3, <1>5, <1>6, <1>8, StepKept

LEMMA SaveKeeps ==
    ASSUME UserInv, NEW r \in Edits, Save(r)
    PROVE  UserInv'
<1>1. UserTables /\ EditFits(r) /\ r \in UserCalls /\ RowsFit
  BY DEF UserInv, Fits, UserCalls
<1>2. UNCHANGED inputs /\ before' = before /\ found' = found /\ stored' = stored /\ Turn(r, "save", "answered")
  BY DEF Save
<1>3. r \notin Creates \cup Toggles \cup Shows \cup Lists \cup Counts
  BY KindsApart
<1>4. StepsAlone(r) /\ step'[r] = "answered" /\ step[r] = "save"
  BY <1>1, <1>2, TurnAlone DEF StepsAlone
<1> DEFINE t   == target[r]
           row == [f \in DOMAIN NewUser |-> IF f \in given[r] THEN r ELSE users[t][f]]
<1>5. users' = [users EXCEPT ![t] = row]
  BY DEF Save
<1>6. t \in Users /\ t \in There(users) /\ users[t] # NoUser /\ given[r] \subseteq {"name", "avatar"}
  BY <1>1 DEF UserTables, Inputs, RowsFit, There, Fields
<1>7. /\ DOMAIN row = {"name", "avatar", "active"}
      /\ \A f \in {"name", "avatar"} : row[f] = IF f \in given[r] THEN r ELSE users[t][f]
      /\ row.active = users[t].active
  <2>1. DOMAIN NewUser = {"name", "avatar", "active"}
    BY DEF NewUser
  <2>2. QED
    BY <1>6, <2>1
<1> HIDE DEF row, t
<1>8. row # NoUser
  <2>1. DOMAIN NoUser = {"name"}
    BY DEF NoUser
  <2>2. QED
    BY <1>7, <2>1
<1>9. /\ users'[t] = row /\ \A x \in Users \ {t} : users'[x] = users[x]
      /\ users' = [x \in Users |-> users'[x]]
  BY <1>1, <1>5, <1>6 DEF UserTables
<1>10. RowsMove
  BY <1>1, <1>6, <1>7, <1>8, <1>9 DEF RowsMove, There
<1>11. FieldsMove(r)
  BY <1>6, <1>7, <1>9 DEF FieldsMove, There, Fields, t
<1>12. RowsFit'
  <2>1. RowFits(users[t])'
    <3>1. row.name \in {Old} \cup Edits
      BY <1>1, <1>6, <1>7 DEF RowsFit, RowFits
    <3>2. row.avatar \in {Old} \cup stored
      BY <1>1, <1>4, <1>6, <1>7 DEF RowsFit, RowFits, EditFits
    <3>3. row.active \in BOOLEAN
      BY <1>1, <1>6, <1>7 DEF RowsFit, RowFits
    <3>4. t' = t
      BY <1>2 DEF t, inputs
    <3>5. QED
      BY <1>2, <1>7, <1>9, <3>1, <3>2, <3>3, <3>4 DEF RowFits
  <2>2. \A x \in Users : RowFits(users[x])'
    <3>1. t' = t
      BY <1>2 DEF t, inputs
    <3>2. QED
      BY <1>1, <1>2, <1>9, <2>1, <3>1 DEF RowsFit, RowFits
  <2>3. Known \subseteq There(users')
    BY <1>1, <1>6, <1>8, <1>9 DEF RowsFit, There
  <2>4. QED
    BY <2>2, <2>3 DEF RowsFit
<1>13. EditFits(r)'
  <2>1. given' = given /\ target' = target
    BY <1>2 DEF inputs
  <2>2. \A f \in given[r] : users'[target[r]][f] = r
    BY <1>6, <1>7, <1>9 DEF t
  <2>3. QED
    BY <1>1, <1>2, <1>4, <2>1, <2>2 DEF EditFits
<1>14. Fits(r)'
  BY <1>3, <1>13 DEF Fits
<1>15. QED
  BY <1>1, <1>3, <1>4, <1>10, <1>11, <1>12, <1>14, StepKept

LEMMA ReadStatusKeeps ==
    ASSUME UserInv, NEW r \in Toggles, ReadStatus(r)
    PROVE  UserInv'
<1>1. UserTables /\ RowsFit /\ r \in UserCalls
  BY DEF UserInv, UserCalls
<1>2. UNCHANGED inputs /\ before' = before /\ users' = users /\ stored' = stored /\ Turn(r, "idle", "set")
  BY DEF ReadStatus
<1>3. r \notin Creates \cup Edits \cup Shows \cup Lists \cup Counts
  BY KindsApart
<1>4. PICK u \in FirstFound :
        found' = [found EXCEPT ![r] = [table |-> TableOf(u), of |-> u, active |-> users[u].active]]
  BY DEF ReadStatus
<1>5. u \in Users /\ users[u] # NoUser
  BY DEF FirstFound, There
<1> DEFINE v == [table |-> TableOf(u), of |-> u, active |-> users[u].active]
<1> HIDE DEF v
<1>6. found' = [found EXCEPT ![r] = v]
  BY <1>4 DEF v
<1>7. StepsAlone(r) /\ step'[r] = "set" /\ found'[r] = v
  BY <1>1, <1>2, <1>6, TurnAlone DEF StepsAlone
<1>8. found'[r].active = users[u].active
  BY <1>7 DEF v
<1>9. users[u].active \in BOOLEAN
  BY <1>1, <1>5 DEF RowsFit, RowFits
<1>10. RowsMove /\ FieldsMove(r) /\ RowsFit'
  BY <1>2, RowsStay
<1>11. Fits(r)'
  BY <1>3, <1>7, <1>8, <1>9 DEF Fits, ToggleFits
<1>12. QED
  BY <1>1, <1>3, <1>7, <1>10, <1>11, StepKept

LEMMA SetStatusKeeps ==
    ASSUME UserInv, NEW r \in Toggles, SetStatus(r)
    PROVE  UserInv'
<1>1. UserTables /\ RowsFit /\ r \in UserCalls /\ ToggleFits(r)
  BY DEF UserInv, UserCalls, Fits
<1>2. UNCHANGED inputs /\ before' = before /\ found' = found /\ stored' = stored /\ Turn(r, "set", "answered")
  BY DEF SetStatus
<1>3. r \notin Creates \cup Edits \cup Shows \cup Lists \cup Counts
  BY KindsApart
<1>4. StepsAlone(r) /\ step'[r] = "answered" /\ step[r] = "set"
  BY <1>1, <1>2, TurnAlone DEF StepsAlone
<1>5. found[r].active \in BOOLEAN
  BY <1>1, <1>4 DEF ToggleFits
<1>6. RowsMove /\ FieldsMove(r) /\ RowsFit'
  <2>0. PICK u \in Users : u = target[r]
    BY <1>1 DEF UserTables, Inputs
  <2> DEFINE w == ~ found[r].active
  <2>1. CASE users' = users
    BY <1>2, <2>1, RowsStay
  <2>2. CASE users' # users
    <3>1. u \in There(users) /\ users' = [users EXCEPT ![u].active = w]
      BY <2>0, <2>2 DEF SetStatus
    <3>2. w \in BOOLEAN /\ u \in Users /\ users[u] # NoUser
      BY <1>5, <3>1 DEF There
    <3> HIDE DEF w
    <3>3. /\ DOMAIN users[u] = {"name", "avatar", "active"} /\ RowFits(users[u])
      BY <1>1, <3>2 DEF RowsFit, RowFits
    <3>4. /\ users' = [x \in Users |-> users'[x]]
          /\ \A x \in Users \ {u} : users'[x] = users[x]
          /\ DOMAIN users'[u] = {"name", "avatar", "active"}
          /\ users'[u].name = users[u].name /\ users'[u].avatar = users[u].avatar
          /\ users'[u].active = w
      BY <1>1, <3>1, <3>2, <3>3 DEF UserTables
    <3>5. users'[u] # NoUser
      <4>1. DOMAIN NoUser = {"name"}
        BY DEF NoUser
      <4>2. QED
        BY <3>4, <4>1
    <3>6. u \in Once => Settled(u)' /\ ~Settled(u)
      <4>1. target' = target /\ target[r] = u
        BY <1>2, <2>0 DEF inputs
      <4>2. u \in Once => \A q \in Toggles : target[q] = u => q = r
        BY <4>1 DEF Once
      <4>3. ~Settled(u)
        BY <1>4, <4>1 DEF Settled
      <4>4. QED
        BY <1>4, <4>1, <4>2, <4>3 DEF Settled, Once
    <3>7. RowsMove
      BY <3>2, <3>4, <3>5, <3>6 DEF RowsMove, There
    <3>8. FieldsMove(r)
      BY <3>2, <3>4 DEF FieldsMove, There, Fields
    <3>9. \A x \in Users : RowFits(users[x])'
      <4>1. RowFits(users'[u])
        BY <3>2, <3>3, <3>4 DEF RowFits
      <4>2. \A x \in Users : RowFits(users'[x])
        BY <1>1, <3>4, <4>1 DEF RowsFit
      <4>3. QED
        BY <1>2, <4>2 DEF RowFits
    <3>10. Known \subseteq There(users')
      BY <1>1, <3>2, <3>4, <3>5 DEF RowsFit, There
    <3>11. QED
      BY <3>7, <3>8, <3>9, <3>10 DEF RowsFit
  <2>3. QED
    BY <2>1, <2>2
<1>7. Fits(r)'
  BY <1>3, <1>4 DEF Fits, ToggleFits
<1>8. QED
  BY <1>1, <1>3, <1>4, <1>6, <1>7, StepKept

LEMMA ShowKeeps ==
    ASSUME UserInv, NEW r \in Shows, Show(r)
    PROVE  UserInv'
<1>1. UserTables /\ r \in UserCalls
  BY DEF UserInv, UserCalls
<1>2. UNCHANGED inputs /\ before' = before /\ users' = users /\ stored' = stored /\ Turn(r, "idle", "answered")
  BY DEF Show
<1>3. r \notin Creates \cup Edits \cup Toggles \cup Lists \cup Counts
  BY KindsApart
<1>4. PICK u \in FirstFound : found' = [found EXCEPT ![r] = u]
  BY DEF Show
<1>5. StepsAlone(r)
  BY <1>1, <1>2, <1>4, TurnAlone DEF StepsAlone
<1>6. RowsMove /\ FieldsMove(r) /\ RowsFit'
  BY <1>2, RowsStay
<1>7. Fits(r)'
  BY <1>3 DEF Fits
<1>8. QED
  BY <1>1, <1>3, <1>5, <1>6, <1>7, StepKept

LEMMA BeginKeeps ==
    ASSUME UserInv, NEW r \in Lists \cup Counts, Begin(r)
    PROVE  UserInv'
<1>1. UserTables /\ RowsFit /\ r \in UserCalls
  BY DEF UserInv, UserCalls
<1>2. /\ UNCHANGED inputs /\ users' = users /\ stored' = stored /\ Turn(r, "idle", "student")
      /\ before' = [before EXCEPT ![r] = users]
      /\ found' = [found EXCEPT ![r] = IF r \in Lists THEN {} ELSE 0]
  BY DEF Begin
<1>3. r \notin Creates \cup Edits \cup Toggles \cup Shows
  BY KindsApart
<1>4. /\ StepsAlone(r) /\ step'[r] = "student" /\ before'[r] = users
      /\ found'[r] = IF r \in Lists THEN {} ELSE 0
  BY <1>1, <1>2, TurnAlone DEF StepsAlone, UserTables
<1>5. RowsMove /\ FieldsMove(r) /\ RowsFit'
  BY <1>2, RowsStay
<1>6. \A i \in 1..4 : At(r, i)' <=> i = 1
  <2>1. At(r, 1)'
    BY <1>4, RoleFacts DEF At
  <2>2. ASSUME NEW i \in 1..4, At(r, i)'
        PROVE  i = 1
    <3>1. (i \in 1..3 /\ step'[r] = Roles[i]) \/ (i = 4 /\ step'[r] = "answered")
      BY <2>2 DEF At
    <3>2. QED
      BY <1>4, <3>1, RoleFacts
  <2>3. QED
    BY <2>1, <2>2
<1>7. ReadFits(r)'
  <2>1. \A u \in Users : users[u] = NoUser \/ users[u].active \in BOOLEAN
    BY <1>1 DEF RowsFit, RowFits
  <2>2. \E i \in 1..4 : At(r, i)'
    BY <1>6
  <2>3. QED
    BY <1>2, <1>4, <2>1, <2>2 DEF ReadFits
<1>8. UpTo(1) = {}
  BY TableFacts
<1>9. r \in Counts => CountFits(r)'
  <2>1. ASSUME r \in Counts
        PROVE  CountFits(r)'
    <3>1. found'[r] = 0
      BY <1>4, <2>1, KindsApart
    <3>2. Cardinality(Users) \in Nat /\ Cardinality({}) = 0
      BY KindsAssumption, FS_CardinalityType, FS_EmptySet
    <3>3. ASSUME NEW i \in 1..4, At(r, i)'
          PROVE  /\ 0 >= Cardinality(There(before'[r]) \cap UpTo(i))
                 /\ 0 <= Cardinality(There(users') \cap UpTo(i))
      <4>1. There(before'[r]) \cap UpTo(i) = {} /\ There(users') \cap UpTo(i) = {}
        BY <1>6, <1>8, <3>3
      <4>2. QED
        BY <3>2, <4>1
    <3>4. QED
      BY <3>1, <3>2, <3>3 DEF CountFits
  <2>2. QED
    BY <2>1
<1>10. r \in Lists => ListFits(r)'
  <2>1. ASSUME r \in Lists
        PROVE  ListFits(r)'
    <3>1. found'[r] = {}
      BY <1>4, <2>1
    <3>2. \A u \in There(users) : First(r, u)' = users[u]
      BY <1>4 DEF First, There
    <3>3. QED
      BY <1>2, <1>6, <1>8, <3>1, <3>2 DEF ListFits
  <2>2. QED
    BY <2>1
<1>11. Fits(r)'
  BY <1>3, <1>7, <1>9, <1>10 DEF Fits
<1>12. QED
  BY <1>1, <1>3, <1>4, <1>5, <1>11, StepKept

\* A table read brings a request to the next.
LEMMA TableTurn ==
    ASSUME UserInv, NEW r \in Lists \cup Counts, NEW i \in 1..3, Turn(r, Roles[i], Then(i)),
           users' = users, stored' = stored, before' = before, UNCHANGED inputs
    PROVE  /\ At(r, i) /\ \A j \in 1..4 : At(r, j)' <=> j = i + 1
           /\ RowsMove /\ FieldsMove(r) /\ RowsFit' /\ r \in UserCalls /\ ReadFits(r)'
           /\ \A v : found' = [found EXCEPT ![r] = v] => StepsAlone(r) /\ found'[r] = v
<1>1. UserTables /\ RowsFit /\ r \in UserCalls /\ ReadFits(r)
  BY DEF UserInv, UserCalls, Fits
<1>2. Roles[i] # "answered"
  BY RoleFacts
<1>3. step[r] = Roles[i] /\ step'[r] = Then(i)
  BY <1>1, <1>2, TurnAlone
<1>4. At(r, i)
  BY <1>3 DEF At
<1>5. At(r, i + 1)'
  <2>1. CASE i = 3
    BY <1>3, <2>1 DEF At, Then
  <2>2. CASE i # 3
    BY <1>3, <2>2 DEF At, Then
  <2>3. QED
    BY <2>1, <2>2
<1>6. ASSUME NEW j \in 1..4, At(r, j)'
      PROVE  j = i + 1
  <2>1. (j \in 1..3 /\ step'[r] = Roles[j]) \/ (j = 4 /\ step'[r] = "answered")
    BY <1>6 DEF At
  <2>2. (i + 1 \in 1..3 /\ step'[r] = Roles[i + 1]) \/ (i = 3 /\ step'[r] = "answered")
    BY <1>5 DEF At
  <2>3. QED
    BY <2>1, <2>2, RoleFacts
<1>7. \A j \in 1..4 : At(r, j)' <=> j = i + 1
  BY <1>5, <1>6
<1>8. ReadFits(r)'
  BY <1>1, <1>7 DEF ReadFits
<1>9. RowsMove /\ FieldsMove(r) /\ RowsFit'
  BY RowsStay
<1>10. \A v : found' = [found EXCEPT ![r] = v] => StepsAlone(r) /\ found'[r] = v
  BY <1>1, <1>2, TurnAlone DEF StepsAlone
<1>11. QED
  BY <1>1, <1>4, <1>7, <1>8, <1>9, <1>10

LEMMA ListTableKeeps ==
    ASSUME UserInv, NEW r \in Lists, NEW i \in 1..3, ListTable(r, i)
    PROVE  UserInv'
<1> DEFINE S == {u \in There(users) \cap UsersIn(i) : Matches(users, u, filter[r])}
<1>1. UserTables /\ ListFits(r) /\ ReadFits(r)
  BY DEF UserInv, Fits, UserCalls
<1>2. /\ UNCHANGED inputs /\ users' = users /\ stored' = stored /\ before' = before
      /\ Turn(r, Roles[i], Then(i)) /\ found' = [found EXCEPT ![r] = found[r] \cup S]
  BY DEF ListTable
<1>3. r \notin Creates \cup Edits \cup Toggles \cup Shows \cup Counts
  BY KindsApart
<1> HIDE DEF S
<1>4. /\ At(r, i) /\ \A j \in 1..4 : At(r, j)' <=> j = i + 1
      /\ RowsMove /\ FieldsMove(r) /\ RowsFit' /\ r \in UserCalls /\ ReadFits(r)'
      /\ StepsAlone(r) /\ found'[r] = found[r] \cup S
  BY <1>2, TableTurn
<1>5. /\ UpTo(i + 1) = UpTo(i) \cup UsersIn(i)
      /\ found[r] \subseteq There(users) \cap UpTo(i)
      /\ \A u \in found[r] : filter[r][1] \in {0, TableOf(u)}
  BY <1>1, <1>4, TableFacts DEF ListFits
<1>6. /\ step[r] # "idle" /\ Once' = Once /\ filter' = filter
      /\ \A u : First(r, u)' = First(r, u)
      /\ \A u : Settled(u) => Settled(u)'
  <2>1. step[r] # "idle"
    BY <1>4, RoleFacts DEF At
  <2>2. \A q \in Toggles : step[q] = "answered" => step'[q] = "answered"
    BY <1>1, <1>4 DEF StepsAlone, UserTables, UserCalls
  <2>3. QED
    BY <1>2, <2>1, <2>2 DEF Once, First, Settled, inputs
<1>7. \A u \in Once \cap There(users) : First(r, u).active # users[u].active => Settled(u)'
  BY <1>1, <1>6 DEF ListFits
<1>8. found[r] \cup S \subseteq There(users) \cap UpTo(i + 1)
  BY <1>5 DEF S
<1>9. \A u \in found[r] \cup S : filter[r][1] \in {0, TableOf(u)}
  BY <1>5 DEF S, Matches
<1>10. ASSUME NEW u \in Once \cap There(users), filter[r][2] = "any" \/ First(r, u).active = users[u].active
       PROVE  /\ u \in found[r] \cup S => Matches(users, u, filter[r])
              /\ u \in There(before[r]) \cap UpTo(i + 1) /\ Matches(users, u, filter[r]) => u \in found[r] \cup S
  <2>1. /\ u \in found[r] => Matches(users, u, filter[r])
        /\ u \in There(before[r]) \cap UpTo(i) /\ Matches(users, u, filter[r]) => u \in found[r]
    BY <1>1, <1>4, <1>10 DEF ListFits
  <2>2. QED
    BY <1>5, <1>10, <2>1 DEF S
<1>11. ListFits(r)'
  BY <1>2, <1>4, <1>6, <1>7, <1>8, <1>9, <1>10 DEF ListFits
<1>12. Fits(r)'
  BY <1>3, <1>4, <1>11 DEF Fits
<1>13. QED
  BY <1>3, <1>4, <1>12, StepKept

\* How many of a set are in the tables up to the next.
LEMMA TableNumbers ==
    ASSUME NEW X, X \subseteq Users, NEW i \in 1..3
    PROVE  /\ Cardinality(X \cap UpTo(i + 1)) = Cardinality(X \cap UpTo(i)) + Cardinality(X \cap UsersIn(i))
           /\ Cardinality(X \cap UpTo(i + 1)) \in Nat /\ Cardinality(X \cap UpTo(i + 1)) <= Cardinality(Users)
           /\ Cardinality(X \cap UpTo(i)) \in Nat /\ Cardinality(X \cap UsersIn(i)) \in Nat
           /\ \A Y : Y \subseteq X => Cardinality(Y \cap UsersIn(i)) <= Cardinality(X \cap UsersIn(i))
                                      /\ Cardinality(Y \cap UsersIn(i)) \in Nat
<1> DEFINE A == X \cap UpTo(i)
           B == X \cap UsersIn(i)
           C == X \cap UpTo(i + 1)
<1>1. C = A \cup B /\ A \cap B = {}
  BY TableFacts
<1>2. IsFiniteSet(Users) /\ A \subseteq Users /\ B \subseteq Users /\ C \subseteq Users
  BY KindsAssumption
<1>3. \A Y : Y \subseteq X => Y \cap UsersIn(i) \subseteq B
  OBVIOUS
<1> HIDE DEF A, B, C
<1>4. IsFiniteSet(A) /\ IsFiniteSet(B) /\ IsFiniteSet(C) /\ Cardinality(C) <= Cardinality(Users)
  BY <1>2, FS_Subset
<1>5. Cardinality(A) \in Nat /\ Cardinality(B) \in Nat /\ Cardinality(C) \in Nat
  BY <1>4, FS_CardinalityType
<1>6. Cardinality(C) = Cardinality(A) + Cardinality(B)
  <2>1. Cardinality(A \cap B) = 0
    BY <1>1, FS_EmptySet
  <2>2. Cardinality(A \cup B) = Cardinality(A) + Cardinality(B) - Cardinality(A \cap B)
    BY <1>4, FS_Union
  <2>3. QED
    BY <1>1, <1>5, <2>1, <2>2
<1>7. \A Y : Y \subseteq X => Cardinality(Y \cap UsersIn(i)) <= Cardinality(B) /\ Cardinality(Y \cap UsersIn(i)) \in Nat
  <2>1. ASSUME NEW Y, Y \subseteq X
        PROVE  Cardinality(Y \cap UsersIn(i)) <= Cardinality(B) /\ Cardinality(Y \cap UsersIn(i)) \in Nat
    <3> DEFINE D == Y \cap UsersIn(i)
    <3>1. D \subseteq B
      BY <1>3, <2>1
    <3> HIDE DEF D
    <3>2. IsFiniteSet(D) /\ Cardinality(D) <= Cardinality(B)
      BY <1>4, <3>1, FS_Subset
    <3>3. Cardinality(D) \in Nat
      BY <3>2, FS_CardinalityType
    <3>4. QED
      BY <3>2, <3>3 DEF D
  <2>2. QED
    BY <2>1
<1>8. QED
  BY <1>4, <1>5, <1>6, <1>7 DEF A, B, C

LEMMA CountTableKeeps ==
    ASSUME UserInv, NEW r \in Counts, NEW i \in 1..3, CountTable(r, i)
    PROVE  UserInv'
<1> DEFINE n == Cardinality(There(users) \cap UsersIn(i))
           a == Cardinality(There(users) \cap UpTo(i))
           b == Cardinality(There(users) \cap UpTo(i + 1))
           p == Cardinality(There(before[r]) \cap UsersIn(i))
           c == Cardinality(There(before[r]) \cap UpTo(i))
           d == Cardinality(There(before[r]) \cap UpTo(i + 1))
           all == Cardinality(Users)
<1>1. UserTables /\ CountFits(r) /\ ReadFits(r)
  BY DEF UserInv, Fits, UserCalls
<1>2. /\ UNCHANGED inputs /\ users' = users /\ stored' = stored /\ before' = before
      /\ Turn(r, Roles[i], Then(i)) /\ found' = [found EXCEPT ![r] = found[r] + n]
  BY DEF CountTable
<1>3. r \notin Creates \cup Edits \cup Toggles \cup Shows \cup Lists
  BY KindsApart
<1>4. There(users) \subseteq Users /\ There(before[r]) \subseteq Users /\ There(before[r]) \subseteq There(users)
  BY <1>1 DEF There, ReadFits
<1>5. /\ b = a + n /\ d = c + p /\ p <= n /\ b <= all
      /\ a \in Nat /\ b \in Nat /\ c \in Nat /\ d \in Nat /\ n \in Nat /\ p \in Nat
  BY <1>4, TableNumbers
<1>6. all \in Nat
  BY KindsAssumption, FS_CardinalityType
<1> HIDE DEF n, a, b, c, d, p, all
<1>7. /\ At(r, i) /\ \A j \in 1..4 : At(r, j)' <=> j = i + 1
      /\ RowsMove /\ FieldsMove(r) /\ RowsFit' /\ r \in UserCalls /\ ReadFits(r)'
      /\ StepsAlone(r) /\ found'[r] = found[r] + n
  BY <1>2, TableTurn
<1>8. found[r] \in 0..all /\ found[r] >= c /\ found[r] <= a
  <2>1. i \in 1..4
    OBVIOUS
  <2>2. QED
    BY <1>1, <1>7, <2>1 DEF CountFits, a, c, all
<1>9. found'[r] \in 0..all /\ found'[r] >= d /\ found'[r] <= b
  BY <1>5, <1>6, <1>7, <1>8
<1>10. CountFits(r)'
  BY <1>2, <1>7, <1>9 DEF CountFits, b, d, all
<1>11. Fits(r)'
  BY <1>3, <1>7, <1>10 DEF Fits
<1>12. QED
  BY <1>3, <1>7, <1>11, StepKept

-----------------------------------------------------------------------------
(* The invariant, and what follows from it.                                *)

LEMMA UserInitInv == UserInit => UserInv
<1> SUFFICES ASSUME UserInit
             PROVE  UserInv
  OBVIOUS
<1>1. PICK on \in SUBSET Known :
        users = [u \in Users |-> IF u \in Known THEN [NewUser EXCEPT !.active = u \in on] ELSE NoUser]
  BY DEF UserInit
<1>2. /\ stored = {} /\ step = [r \in UserCalls |-> "idle"] /\ found = [r \in UserCalls |-> 0]
      /\ before = [r \in Lists \cup Counts |-> users]
      /\ Inputs
  BY DEF UserInit, Inputs
<1>3. UserTables
  BY <1>1, <1>2 DEF UserTables
<1>4. ASSUME NEW u \in Known
      PROVE  /\ DOMAIN users[u] = {"name", "avatar", "active"} /\ users[u].name = Old
             /\ users[u].avatar = Old /\ users[u].active \in BOOLEAN /\ users[u] # NoUser
  <2> DEFINE row == [NewUser EXCEPT !.active = u \in on]
  <2>1. users[u] = row
    BY <1>1, KnownAssumption
  <2>2. (u \in on) \in BOOLEAN
    OBVIOUS
  <2>3. /\ DOMAIN row = {"name", "avatar", "active"} /\ row.name = Old /\ row.avatar = Old
        /\ row.active = (u \in on)
    BY DEF NewUser
  <2>4. DOMAIN NoUser = {"name"}
    BY DEF NoUser
  <2> HIDE DEF row
  <2>5. QED
    BY <2>1, <2>2, <2>3, <2>4
<1>5. \A u \in Users \ Known : users[u] = NoUser
  BY <1>1
<1>6. RowsFit
  BY <1>4, <1>5, KnownAssumption DEF RowsFit, RowFits, There
<1>7. MadeOnce
  BY <1>2 DEF MadeOnce, UserCalls
<1>8. ASSUME NEW r \in UserCalls
      PROVE  Fits(r)
  <2>1. step[r] = "idle" /\ found[r] = 0
    BY <1>2
  <2>2. r \in Creates => CreateFits(r)
    BY <2>1 DEF CreateFits
  <2>3. r \in Edits => EditFits(r)
    BY <1>2, <2>1 DEF EditFits
  <2>4. r \in Toggles => ToggleFits(r)
    BY <2>1 DEF ToggleFits
  <2>5. r \in Lists \cup Counts => before[r] = users /\ ReadFits(r)
    <3>1. \A u \in Users : users[u] = NoUser \/ users[u].active \in BOOLEAN
      BY <1>4, <1>5
    <3>2. QED
      BY <1>2, <2>1, <3>1 DEF ReadFits
  <2>6. \A i \in 1..4 : ~ At(r, i)
    BY <2>1, RoleFacts DEF At
  <2>7. r \in Counts => CountFits(r)
    <3>1. Cardinality(Users) \in Nat
      BY KindsAssumption, FS_CardinalityType
    <3>2. found[r] \in 0..Cardinality(Users)
      BY <2>1, <3>1
    <3>3. QED
      BY <2>6, <3>2 DEF CountFits
  <2>8. r \in Lists => ListFits(r)
    BY <2>1, <2>6 DEF ListFits
  <2>9. QED
    BY <2>2, <2>3, <2>4, <2>5, <2>7, <2>8 DEF Fits
<1>9. QED
  BY <1>2, <1>3, <1>6, <1>7, <1>8 DEF UserInv

LEMMA UserNextInv == UserInv /\ [UserNext]_userVars => UserInv'
<1> SUFFICES ASSUME UserInv, [UserNext]_userVars
             PROVE  UserInv'
  OBVIOUS
<1>1. CASE Create
  BY <1>1, CreateKeeps DEF Create
<1>2. CASE Edit
  BY <1>2, LookUpKeeps, UploadKeeps, SaveKeeps DEF Edit
<1>3. CASE Toggle
  BY <1>3, ReadStatusKeeps, SetStatusKeeps DEF Toggle
<1>4. CASE Read
  <2>1. PICK r \in Lists \cup Counts : Begin(r) \/ \E i \in 1..3 : ListTable(r, i) \/ CountTable(r, i)
    BY <1>4 DEF Read
  <2>2. CASE Begin(r)
    BY <2>2, BeginKeeps
  <2>3. ASSUME NEW i \in 1..3, ListTable(r, i)
        PROVE  UserInv'
    BY <2>3, ListTableKeeps DEF ListTable
  <2>4. ASSUME NEW i \in 1..3, CountTable(r, i)
        PROVE  UserInv'
    BY <2>4, CountTableKeeps DEF CountTable
  <2>5. QED
    BY <2>1, <2>2, <2>3, <2>4
<1>5. CASE \E r \in Shows : Show(r)
  BY <1>5, ShowKeeps
<1>6. CASE UNCHANGED userVars
  <2>1. /\ users' = users /\ stored' = stored /\ step' = step /\ target' = target /\ wanted' = wanted
        /\ given' = given /\ filter' = filter /\ found' = found /\ before' = before
    BY <1>6 DEF userVars
  <2>2. UserTables' /\ RowsFit' /\ MadeOnce' /\ stored' \subseteq Edits
    <3>1. UserTables'
      BY <2>1 DEF UserInv, UserTables, Inputs
    <3>2. RowsFit'
      BY <2>1, RowsStay
    <3>3. MadeOnce' /\ stored' \subseteq Edits
      BY <2>1 DEF UserInv, MadeOnce
    <3>4. QED
      BY <3>1, <3>2, <3>3
  <2>3. ASSUME NEW r \in UserCalls
        PROVE  Fits(r)'
    <3>1. Fits(r)
      BY DEF UserInv
    <3>2. r \in Creates => CreateFits(r)'
      BY <2>1, <3>1 DEF Fits, CreateFits
    <3>3. r \in Edits => EditFits(r)'
      BY <2>1, <3>1 DEF Fits, EditFits, AloneGives
    <3>4. r \in Toggles => ToggleFits(r)'
      BY <2>1, <3>1 DEF Fits, ToggleFits
    <3>5. \A i : At(r, i)' <=> At(r, i)
      BY <2>1 DEF At
    <3>6. r \in Lists \cup Counts => ReadFits(r)'
      BY <2>1, <3>1, <3>5 DEF Fits, ReadFits
    <3>7. r \in Counts => CountFits(r)'
      BY <2>1, <3>1, <3>5 DEF Fits, CountFits
    <3>8. r \in Lists => ListFits(r)'
      <4>1. Once' = Once /\ (\A u : First(r, u)' = First(r, u)) /\ (\A u : Settled(u)' <=> Settled(u))
        BY <2>1 DEF Once, First, Settled
      <4>2. QED
        BY <2>1, <3>1, <3>5, <4>1 DEF Fits, ListFits
    <3>9. QED
      BY <3>2, <3>3, <3>4, <3>6, <3>7, <3>8 DEF Fits
  <2>4. QED
    BY <2>2, <2>3 DEF UserInv
<1>7. QED
  BY <1>1, <1>2, <1>3, <1>4, <1>5, <1>6 DEF UserNext

\* The users, their requests and what they have read have their types.
LEMMA TypesFollow == UserInv => UserTypeOK
<1> SUFFICES ASSUME UserInv
             PROVE  UserTypeOK
  OBVIOUS
<1>1. RowsFit /\ stored \subseteq Edits
  BY DEF UserInv
<1>2. \A u \in There(users) : /\ users[u].active \in BOOLEAN
                              /\ users[u].name \in {Old} \cup Edits
                              /\ users[u].avatar \in {Old} \cup stored
  BY <1>1 DEF RowsFit, RowFits, There
<1>3. \A e \in stored : "avatar" \in given[e]
  BY <1>1 DEF UserInv, Fits, EditFits, UserCalls
<1>4. \A r \in Counts : found[r] \in 0..Cardinality(Users)
  BY DEF UserInv, Fits, CountFits, UserCalls
<1>5. QED
  BY <1>1, <1>2, <1>3, <1>4 DEF UserTypeOK, RowsFit

LEMMA CreationsFollow == UserInv => AnsweredCreationsAreWhole
<1> SUFFICES ASSUME UserInv, NEW r \in Creates, step[r] = "answered"
             PROVE  /\ \A i \in 1..2 : wanted[r][i] \in There(users) \ Known
                    /\ wanted[r][1] # wanted[r][2]
                    /\ \A q \in Creates \ {r}, i, j \in 1..2 :
                         step[q] = "answered" => wanted[q][i] # wanted[r][j]
  BY DEF AnsweredCreationsAreWhole
<1>1. MadeOnce /\ \A q \in Creates : CreateFits(q)
  BY DEF UserInv, Fits, UserCalls
<1>2. \A q \in Creates : step[q] = "answered" => \A i \in 1..2 : i <= found[q]
  BY <1>1 DEF CreateFits
<1>3. \A i \in 1..2 : wanted[r][i] \in There(users) \ Known
  BY <1>1, <1>2 DEF CreateFits
<1>4. wanted[r][1] # wanted[r][2]
  BY <1>1, <1>2 DEF MadeOnce
<1>5. \A q \in Creates \ {r}, i, j \in 1..2 : step[q] = "answered" => wanted[q][i] # wanted[r][j]
  BY <1>1, <1>2 DEF MadeOnce
<1>6. QED
  BY <1>3, <1>4, <1>5

LEMMA EditsFollow == UserInv => EditsAreKept
<1> SUFFICES ASSUME UserInv, NEW r \in Edits, NEW f \in given[r], step[r] = "answered",
                    \A q \in Edits \ {r} : target[q] = target[r] => f \notin given[q]
             PROVE  users[target[r]][f] = r
  BY DEF EditsAreKept
<1>1. EditFits(r)
  BY DEF UserInv, Fits, UserCalls
<1>2. AloneGives(r, f)
  BY DEF AloneGives
<1>3. QED
  BY <1>1, <1>2 DEF EditFits

LEMMA ListsFollow == UserInv => ListsWhoMatches
<1> SUFFICES ASSUME UserInv, NEW r \in Lists, step[r] = "answered"
             PROVE  LET first(u) == IF before[r][u] = NoUser THEN NewUser ELSE before[r][u]
                        wants(row, u) == /\ filter[r][1] # 0 => u \in UsersIn(filter[r][1])
                                         /\ filter[r][2] = "active" => row.active
                                         /\ filter[r][2] = "inactive" => ~ row.active
                        once == {u \in Users : \A p, q \in Toggles : target[p] = u /\ target[q] = u => p = q}
                    IN /\ \A u \in There(before[r]) \cap once :
                            wants(before[r][u], u) /\ wants(users[u], u) => u \in found[r]
                       /\ \A u \in found[r] \cap once : wants(users[u], u) \/ wants(first(u), u)
  BY DEF ListsWhoMatches
<1> DEFINE wants(row, u) == /\ filter[r][1] # 0 => u \in UsersIn(filter[r][1])
                            /\ filter[r][2] = "active" => row.active
                            /\ filter[r][2] = "inactive" => ~ row.active
<1>1. ReadFits(r) /\ ListFits(r) /\ RowsFit /\ Inputs /\ At(r, 4)
  BY DEF UserInv, Fits, UserCalls, UserTables, At
<1>2. UpTo(4) = Users
  BY TableFacts
<1>3. /\ found[r] \subseteq There(users)
      /\ \A u \in found[r] : filter[r][1] \in {0, TableOf(u)}
      /\ \A u \in Once \cap There(users) :
           filter[r][2] = "any" \/ First(r, u).active = users[u].active =>
             /\ u \in found[r] => Matches(users, u, filter[r])
             /\ u \in There(before[r]) /\ Matches(users, u, filter[r]) => u \in found[r]
  BY <1>1, <1>2 DEF ListFits, There
<1>4. filter[r][1] \in 0..3 /\ filter[r][2] \in {"any", "active", "inactive"}
  BY <1>1 DEF Inputs
<1>5. \A u \in There(users) : users[u].active \in BOOLEAN /\ First(r, u).active \in BOOLEAN /\ u \in Users
  <2>1. NewUser.active \in BOOLEAN
    BY DEF NewUser
  <2>2. QED
    BY <1>1, <2>1 DEF RowsFit, RowFits, ReadFits, First, There
<1>6. \A u \in Users : filter[r][1] \in {0, TableOf(u)} <=> (filter[r][1] # 0 => u \in UsersIn(filter[r][1]))
  <2>1. \A u \in Users : filter[r][1] # 0 => (u \in UsersIn(filter[r][1]) <=> TableOf(u) = filter[r][1])
    BY <1>4, TableOfFacts
  <2>2. QED
    BY <2>1
<1>7. ASSUME NEW u \in There(before[r]) \cap Once, wants(before[r][u], u), wants(users[u], u)
      PROVE  u \in found[r]
  <2>1. u \in There(users) /\ First(r, u) = before[r][u] /\ u \in Users
    BY <1>1, <1>7 DEF ReadFits, First, There
  <2>2. filter[r][2] = "any" \/ First(r, u).active = users[u].active
    BY <1>4, <1>5, <1>7, <2>1
  <2>3. Matches(users, u, filter[r])
    BY <1>4, <1>5, <1>6, <1>7, <2>1 DEF Matches
  <2>4. QED
    BY <1>3, <1>7, <2>1, <2>2, <2>3
<1>8. ASSUME NEW u \in found[r] \cap Once
      PROVE  wants(users[u], u) \/ wants(First(r, u), u)
  <2>1. u \in There(users) /\ u \in Users
    BY <1>3, <1>8 DEF There
  <2>2. filter[r][1] # 0 => u \in UsersIn(filter[r][1])
    BY <1>3, <1>6, <1>8, <2>1
  <2>3. CASE First(r, u).active = users[u].active /\ filter[r][2] # "any"
    <3>1. Matches(users, u, filter[r])
      BY <1>3, <1>8, <2>1, <2>3
    <3>2. QED
      BY <1>4, <1>5, <2>1, <2>2, <2>3, <3>1 DEF Matches
  <2>4. CASE First(r, u).active # users[u].active \/ filter[r][2] = "any"
    BY <1>4, <1>5, <2>1, <2>2, <2>4
  <2>5. QED
    BY <2>3, <2>4
<1>9. QED
  BY <1>7, <1>8 DEF Once, First

LEMMA CountsFollow == UserInv => CountIsBetween
<1> SUFFICES ASSUME UserInv, NEW r \in Counts, step[r] = "answered"
             PROVE  /\ found[r] >= Cardinality(There(before[r]))
                    /\ found[r] <= Cardinality(There(users))
  BY DEF CountIsBetween
<1>1. CountFits(r) /\ At(r, 4) /\ UpTo(4) = Users
  BY TableFacts DEF UserInv, Fits, UserCalls, At
<1>2. There(before[r]) \cap UpTo(4) = There(before[r]) /\ There(users) \cap UpTo(4) = There(users)
  BY <1>1 DEF There
<1>3. /\ found[r] >= Cardinality(There(before[r]) \cap UpTo(4))
      /\ found[r] <= Cardinality(There(users) \cap UpTo(4))
  BY <1>1 DEF CountFits
<1>4. QED
  BY <1>2, <1>3

\* The rows of the users, the avatars and what the requests have read have their types,
\* and who was known stays (user.py).
THEOREM UserTypesHold == UserSpec => []UserTypeOK
<1>1. UserSpec => []UserInv
  BY UserInitInv, UserNextInv, PTL DEF UserSpec
<1>2. QED
  BY <1>1, TypesFollow, PTL

\* What an answer says of users is so, whatever overlaps: of every number of users, edits,
\* creations and status changes, an edit stays until another gives the same field
\* (user.py:166), and a creation that is answered has made all of its users itself
\* (user.py:39).
THEOREM AnswersOnUsersHold == UserSpec => []UsersAreAsAnswered
<1>1. UserSpec => []UserInv
  BY UserInitInv, UserNextInv, PTL DEF UserSpec
<1>2. UserInv => UsersAreAsAnswered
  BY EditsFollow, CreationsFollow DEF UsersAreAsAnswered
<1>3. QED
  BY <1>1, <1>2, PTL

\* A list and a count that read three tables one after the other, while users are created
\* and their status changes, show what was so at some time of their reading (user.py:406).
THEOREM ReadingsOfUsersHold == UserSpec => []UsersAreRead
<1>1. UserSpec => []UserInv
  BY UserInitInv, UserNextInv, PTL DEF UserSpec
<1>2. UserInv => UsersAreRead
  BY ListsFollow, CountsFollow DEF UsersAreRead
<1>3. QED
  BY <1>1, <1>2, PTL

-----------------------------------------------------------------------------
(* The scenes.                                                             *)

\* Whichever scene is played, accounts, codes, users and their requests keep their types
\* (machine/api/v1/auth.py, user.py): a scene is a behaviour of one component beside which
\* the other rests.
THEOREM ScenesKeepTypes == MCSpec => []TypesOK
<1>1. MCSpec => Spec
  <2>1. MCInit => Init
    BY DEF MCInit, AccountsInit
  <2>2. [MCNext]_<<scene, vars, userVars>> => [Next]_vars
    BY DEF MCNext, DirectoryScene
  <2>3. QED
    BY <2>1, <2>2, PTL DEF MCSpec, Spec
<1>2. MCSpec => UserSpec
  <2>1. MCInit => UserInit
    BY DEF MCInit, DirectoryInit
  <2>2. [MCNext]_<<scene, vars, userVars>> => [UserNext]_userVars
    BY DEF MCNext, DirectoryScene
  <2>3. QED
    BY <2>1, <2>2, PTL DEF MCSpec, UserSpec
<1>3. TypeOK /\ UserTypeOK => TypesOK
  BY DEF TypesOK
<1>4. QED
  BY <1>1, <1>2, <1>3, TypeCorrect, UserTypesHold, PTL

=============================================================================
