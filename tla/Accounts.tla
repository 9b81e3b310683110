------------------------------ MODULE Accounts ------------------------------
(***************************************************************************)
(* The account behind one e-mail address (machine/api/v1/auth.py): login,  *)
(* which also creates accounts and sets a first password, verification of  *)
(* the address, resending of the code, forgotten and reset passwords, and  *)
(* Google login; beside them, an administrator who creates users           *)
(* (machine/api/v1/user.py).                                               *)
(*                                                                         *)
(* Every request is a process cut at its awaits: it looks the address up   *)
(* in the three tables one after the other, reads the account, possibly    *)
(* mails a new code, and then writes and commits.  Nothing is locked       *)
(* between the read and the write.                                         *)
(***************************************************************************)
EXTENDS Naturals

CONSTANTS
    Requests,   \* the requests users make, one call each
    Codes,      \* the codes generate_code may return
    Passwords,
    BuiltIn     \* whether the address is the one that login makes an admin of

ASSUME BuiltInAssumption == BuiltIn \in BOOLEAN

VARIABLES
    account,    \* the row of the address in each of the tables, or NoRow
    mailed,     \* the codes that have been mailed, with their purpose
    pc,         \* where each request stands
    call,       \* what it was called with
    role,       \* the table it asks, then the role it has found
    seen,       \* the account as it has read it
    code,       \* the code it has generated
    latest,     \* history: the last code mailed for each purpose, and its table
    disturbed   \* history: purposes whose last mail met another request or an error

requestVars == <<pc, call, role, seen, code>>
vars == <<account, mailed, requestVars, latest, disturbed>>

-----------------------------------------------------------------------------
Tables   == {"student", "professor", "admin"}
Purposes == {"verify", "reset"}
NoRow    == [password |-> "none"]
NoCode   == "none"

\* A code is never the NULL of its column, and neither is a password.
ASSUME ValuesAssumption == NoCode \notin Codes /\ "unset" \notin Passwords

Rows == [password : Passwords \cup {"unset"}, verified : BOOLEAN, active : BOOLEAN,
         vcode : Codes \cup {NoCode}, vlive : BOOLEAN,
         rcode : Codes \cup {NoCode}, rlive : BOOLEAN]

\* A row as the administrator creates it: no password, no code, nothing verified.
NewRow == [password |-> "unset", verified |-> FALSE, active |-> FALSE,
           vcode |-> NoCode, vlive |-> FALSE, rcode |-> NoCode, rlive |-> FALSE]

Calls ==
    [kind : {"login"}, password : Passwords, code : {NoCode}] \cup
    [kind : {"verify", "verifyReset"}, password : {"unset"}, code : Codes] \cup
    [kind : {"resend", "forgot", "google"}, password : {"unset"}, code : {NoCode}] \cup
    [kind : {"reset"}, password : Passwords, code : Codes]

NoCall == [kind |-> "none", password |-> "unset", code |-> NoCode]
NoMail == [code |-> NoCode, table |-> "none"]

\* The table a request reads and writes: without a role, the students'.
Table(q) == IF role[q] = "none" THEN "student" ELSE role[q]

Purpose(q) == IF call[q].kind = "forgot" THEN "reset" ELSE "verify"

\* Requests that have mailed a code and not stored it yet.
Storing(p) == {q \in Requests : pc[q] = "write" /\ code[q] # NoCode /\ Purpose(q) = p}

StoredCode(t, p) ==
    IF account[t] = NoRow THEN NoCode
    ELSE IF p = "verify" THEN account[t].vcode ELSE account[t].rcode

TypeOK ==
    /\ account \in [Tables -> Rows \cup {NoRow}]
    /\ mailed \subseteq [purpose : Purposes, code : Codes]
    /\ pc \in [Requests -> {"idle", "lookup", "read", "mail", "write",
                            "refused", "failed", "ok", "tokens"}]
    /\ call \in [Requests -> Calls \cup {NoCall}]
    /\ role \in [Requests -> Tables \cup {"none"}]
    /\ seen \in [Requests -> Rows \cup {NoRow}]
    /\ code \in [Requests -> Codes \cup {NoCode}]
    /\ latest \in [Purposes -> [code : Codes, table : Tables] \cup {NoMail}]
    /\ disturbed \in [Purposes -> BOOLEAN]

\* Accounts the address may have had before: none, one made by the administrator, one
\* that was sent a code when it logged in first, and one in use that forgot its password.
Earlier ==
    {NoRow, NewRow} \cup
    {[NewRow EXCEPT !.password = p, !.vcode = c, !.vlive = TRUE] : p \in Passwords, c \in Codes} \cup
    {[NewRow EXCEPT !.password = p, !.verified = TRUE, !.active = TRUE,
                    !.rcode = c, !.rlive = TRUE] : p \in Passwords, c \in Codes}

Init ==
    /\ account \in [Tables -> Earlier]
    /\ mailed = {m \in [purpose : Purposes, code : Codes] :
                    \E t \in Tables : StoredCode(t, m.purpose) = m.code}
    /\ pc = [q \in Requests |-> "idle"]
    /\ call = [q \in Requests |-> NoCall]
    /\ role = [q \in Requests |-> "none"]
    /\ seen = [q \in Requests |-> NoRow]
    /\ code = [q \in Requests |-> NoCode]
    /\ latest = [p \in Purposes |-> NoMail]
    /\ disturbed = [p \in Purposes |-> FALSE]

-----------------------------------------------------------------------------
(* What all the handlers do first.                                         *)

Goto(q, from, to) ==
    /\ pc[q] = from
    /\ pc' = [pc EXCEPT ![q] = to]

Start(q) ==
    /\ Goto(q, "idle", "lookup")
    /\ call' \in {[call EXCEPT ![q] = c] : c \in Calls}
    /\ role' = [role EXCEPT ![q] = "student"]
    /\ UNCHANGED <<account, mailed, seen, code, latest, disturbed>>

\* check_exist_and_get_role_for_user: one table after the other.
Found(q) ==
    /\ Goto(q, "lookup", "read")
    /\ account[role[q]] # NoRow
    /\ UNCHANGED <<account, mailed, call, role, seen, code, latest, disturbed>>

AskNextTable(q) ==
    /\ pc[q] = "lookup"
    /\ account[role[q]] = NoRow
    /\ role[q] # "admin"
    /\ role' = [role EXCEPT ![q] = IF @ = "student" THEN "professor" ELSE "admin"]
    /\ UNCHANGED <<account, mailed, pc, call, seen, code, latest, disturbed>>

\* In no table: the built-in address gets its administrator's row at once.
NotFound(q) ==
    /\ Goto(q, "lookup", "read")
    /\ role[q] = "admin"
    /\ account["admin"] = NoRow
    /\ role' = [role EXCEPT ![q] = IF BuiltIn THEN "admin" ELSE "none"]
    /\ account' = IF BuiltIn THEN [account EXCEPT !["admin"] = NewRow] ELSE account
    /\ UNCHANGED <<mailed, call, seen, code, latest, disturbed>>

\* The account is read, and everything up to the next await is decided on it.
Reads(q, kinds, to) ==
    /\ call[q].kind \in kinds
    /\ Goto(q, "read", to)
    /\ seen' = [seen EXCEPT ![q] = account[Table(q)]]
    /\ UNCHANGED <<account, mailed, call, role, latest, disturbed>>

NoNewCode   == UNCHANGED code
NewCode(q)  == \E c \in Codes : code' = [code EXCEPT ![q] = c]

\* send_email_to_user, before anything is stored.
SendMail(q) ==
    /\ Goto(q, "mail", "write")
    /\ mailed' = mailed \cup {[purpose |-> Purpose(q), code |-> code[q]]}
    /\ latest' = [latest EXCEPT ![Purpose(q)] = [code |-> code[q], table |-> Table(q)]]
    /\ disturbed' = [disturbed EXCEPT ![Purpose(q)] = Storing(Purpose(q)) # {}]
    /\ UNCHANGED <<account, call, role, seen, code>>

\* Any await may raise, and the client may be gone: nothing was committed.
Fails(q) ==
    /\ pc[q] \in {"lookup", "read", "mail", "write"}
    /\ pc' = [pc EXCEPT ![q] = "failed"]
    /\ disturbed' = [p \in Purposes |-> disturbed[p] \/ q \in Storing(p)]
    /\ UNCHANGED <<account, mailed, call, role, seen, code, latest>>

\* The UPDATE of the row and its commit, or the INSERT of a new one.
Writes(q, row, answer) ==
    /\ Goto(q, "write", answer)
    /\ account' = [account EXCEPT ![Table(q)] = row]
    /\ UNCHANGED <<mailed, call, role, seen, code>>

Row(q) == account[Table(q)]

-----------------------------------------------------------------------------
(* login                                                                   *)

\* Mutant: a verified address is sent a new code, too.
LoginReads_AlwaysVerifies(q) ==
    LET row == Row(q) IN
    \/ row = NoRow /\ Reads(q, {"login"}, "mail") /\ NewCode(q)
    \/ row # NoRow /\ row.password = "unset" /\ Reads(q, {"login"}, "write") /\ NoNewCode
    \/ /\ row # NoRow /\ row.password \notin {"unset", call[q].password}
       /\ Reads(q, {"login"}, "refused") /\ NoNewCode
    \/ /\ row # NoRow /\ row.password = call[q].password
       /\ Reads(q, {"login"}, "mail") /\ NewCode(q)

LoginReads(q) ==
    LET row == Row(q) IN
    \/ row = NoRow /\ Reads(q, {"login"}, "mail") /\ NewCode(q)
    \/ row # NoRow /\ row.password = "unset" /\ Reads(q, {"login"}, "write") /\ NoNewCode
    \/ /\ row # NoRow /\ row.password \notin {"unset", call[q].password}
       /\ Reads(q, {"login"}, "refused") /\ NoNewCode
    \/ /\ row # NoRow /\ row.password = call[q].password /\ ~ row.verified
       /\ Reads(q, {"login"}, "mail") /\ NewCode(q)
    \/ /\ row # NoRow /\ row.password = call[q].password /\ row.verified
       /\ Reads(q, {"login"}, "tokens") /\ NoNewCode

\* `if not user`: the account is created, unless somebody was faster.
CreateAccount(q) ==
    /\ call[q].kind = "login" /\ seen[q] = NoRow /\ Row(q) = NoRow
    /\ Writes(q, [NewRow EXCEPT !.password = call[q].password,
                                !.vcode = code[q], !.vlive = TRUE], "ok")
    /\ UNCHANGED <<latest, disturbed>>

\* The unique constraint on the address raises IntegrityError.
DuplicateAccount(q) ==
    /\ call[q].kind = "login" /\ seen[q] = NoRow /\ Row(q) # NoRow
    /\ Goto(q, "write", "failed")
    /\ disturbed' = [disturbed EXCEPT !["verify"] = TRUE]
    /\ UNCHANGED <<account, mailed, call, role, seen, code, latest>>

\* `if not user.password`: the first login sets the password.
SetFirstPassword(q) ==
    /\ call[q].kind = "login" /\ seen[q] # NoRow /\ seen[q].password = "unset"
    /\ Writes(q, [Row(q) EXCEPT !.password = call[q].password], "tokens")
    /\ UNCHANGED <<latest, disturbed>>

\* `if not user.is_email_verified`: a new code, and is_email_verified written as False.
RenewCode(q) ==
    /\ call[q].kind = "login" /\ seen[q] # NoRow /\ seen[q].password # "unset"
    /\ Writes(q, [Row(q) EXCEPT !.verified = FALSE, !.vcode = code[q], !.vlive = TRUE], "ok")
    /\ UNCHANGED <<latest, disturbed>>

-----------------------------------------------------------------------------
(* verify_email, resend_verification_code, forgot_password, reset_password *)

VerifyReads(q) ==
    LET row == Row(q)
        accepted ==
            /\ row # NoRow
            /\ \/ call[q].kind = "verify" /\ row.vcode = call[q].code /\ row.vlive
               \/ call[q].kind = "verifyReset" /\ row.rcode = call[q].code /\ row.rlive
    IN  /\ Reads(q, {"verify", "verifyReset"}, IF accepted THEN "write" ELSE "refused")
        /\ NoNewCode

VerifyWrites(q) ==
    /\ call[q].kind \in {"verify", "verifyReset"}
    /\ Writes(q, [Row(q) EXCEPT !.verified = TRUE, !.active = TRUE], "ok")
    /\ UNCHANGED <<latest, disturbed>>

ResendReads(q) ==
    \/ Row(q) = NoRow /\ Reads(q, {"resend"}, "refused") /\ NoNewCode
    \/ Row(q) # NoRow /\ Reads(q, {"resend"}, "mail") /\ NewCode(q)

ResendWrites(q) ==
    /\ call[q].kind = "resend"
    /\ Writes(q, [Row(q) EXCEPT !.vcode = code[q], !.vlive = TRUE], "ok")
    /\ UNCHANGED <<latest, disturbed>>

\* Mutant: the code is stored without waiting for the mail.
ForgotReads_StoresFirst(q) ==
    \/ Row(q) = NoRow /\ Reads(q, {"forgot"}, "refused") /\ NoNewCode
    \/ Row(q) # NoRow /\ Reads(q, {"forgot"}, "write") /\ NewCode(q)

ForgotReads(q) ==
    \/ Row(q) = NoRow /\ Reads(q, {"forgot"}, "refused") /\ NoNewCode
    \/ Row(q) # NoRow /\ Reads(q, {"forgot"}, "mail") /\ NewCode(q)

ForgotWrites(q) ==
    /\ call[q].kind = "forgot"
    /\ Writes(q, [Row(q) EXCEPT !.rcode = code[q], !.rlive = TRUE], "ok")
    /\ UNCHANGED <<latest, disturbed>>

ResetReads(q) ==
    LET row == Row(q)
        accepted == row # NoRow /\ row.rcode = call[q].code /\ row.rlive
    IN  /\ Reads(q, {"reset"}, IF accepted THEN "write" ELSE "refused")
        /\ NoNewCode

\* Mutant: the columns are swapped, and the None of the code ends up in the password.
ResetWrites_SwappedColumns(q) ==
    /\ call[q].kind = "reset"
    /\ Writes(q, [Row(q) EXCEPT !.password = NoCode, !.rlive = FALSE], "ok")
    /\ UNCHANGED <<latest, disturbed>>

\* Whatever reset code is stored by now is cleared with the password set.
ResetWrites(q) ==
    LET replaced == Row(q).rcode # call[q].code
    IN  /\ call[q].kind = "reset"
        /\ Writes(q, [Row(q) EXCEPT !.password = call[q].password,
                                    !.rcode = NoCode, !.rlive = FALSE], "ok")
        /\ disturbed' = [disturbed EXCEPT !["reset"] = @ \/ replaced]
        /\ latest' = IF replaced \/ latest["reset"].code # call[q].code
                     THEN latest ELSE [latest EXCEPT !["reset"] = NoMail]

\* google_login: tokens for an account with a password; nothing is written, since
\* an address in no table is refused.
GoogleReads(q) ==
    LET answer == IF role[q] = "none" THEN "refused"
                  ELSE IF Row(q).password = "unset" THEN "ok" ELSE "tokens"
    IN  Reads(q, {"google"}, answer) /\ NoNewCode

-----------------------------------------------------------------------------
\* _create_individual_user, for any of the three roles.
AdminCreates(t) ==
    /\ account[t] = NoRow
    /\ account' = [account EXCEPT ![t] = NewRow]
    /\ UNCHANGED <<mailed, requestVars, latest, disturbed>>

\* Ten minutes have passed since a code was stored.
ExpireCode(t) ==
    /\ account[t] # NoRow
    /\ \/ account[t].vlive /\ account' = [account EXCEPT ![t].vlive = FALSE]
       \/ account[t].rlive /\ account' = [account EXCEPT ![t].rlive = FALSE]
    /\ UNCHANGED <<mailed, requestVars, latest, disturbed>>

RequestStep(q) ==
    \/ Start(q) \/ Found(q) \/ AskNextTable(q) \/ NotFound(q)
    \/ SendMail(q) \/ Fails(q)
    \/ LoginReads(q) \/ CreateAccount(q) \/ DuplicateAccount(q)
    \/ SetFirstPassword(q) \/ RenewCode(q)
    \/ VerifyReads(q) \/ VerifyWrites(q) \/ ResendReads(q) \/ ResendWrites(q)
    \/ ForgotReads(q) \/ ForgotWrites(q) \/ ResetReads(q) \/ ResetWrites(q)
    \/ GoogleReads(q)

Next ==
    \/ \E q \in Requests : RequestStep(q)
    \/ \E t \in Tables : AdminCreates(t) \/ ExpireCode(t)

Spec == Init /\ [][Next]_vars

-----------------------------------------------------------------------------
\* No code is stored that was not mailed to the address for the purpose it is
\* stored for: a mail that fails, a request that stops half-way and two requests that
\* overtake each other leave no code the user cannot know (auth.py mails first).
CodesReachTheUser ==
    \A t \in Tables, p \in Purposes :
        StoredCode(t, p) # NoCode => [purpose |-> p, code |-> StoredCode(t, p)] \in mailed

\* The last code mailed is the one that is accepted, once its request has stored it:
\* unless two requests were mailing for the same purpose at once, a request failed
\* between its mail and its commit, or a reset that had read an older code cleared it.
LastMailedIsStored ==
    \A p \in Purposes :
        latest[p] # NoMail /\ ~ disturbed[p] /\ Storing(p) = {} =>
            StoredCode(latest[p].table, p) = latest[p].code

\* The codes that are stored and the codes that are mailed are the same codes.
MailedCodes == CodesReachTheUser /\ LastMailedIsStored

\* What one request has committed to an account is undone by another only if that one
\* had read the account before: a password is replaced by a reset whose code was
\* accepted, or by a first login that had seen no password; a verified
\* address loses its verification only to a login that had seen it unverified.
UndoneOnlyByStaleReads ==
    [][\A t \in Tables :
          account[t] # NoRow =>
            /\ account'[t] # NoRow
            /\ account[t].password \notin {"unset", account'[t].password} =>
                 \E q \in Requests :
                    /\ pc[q] = "write" /\ Table(q) = t
                    /\ \/ call[q].kind = "login" /\ seen[q].password = "unset"
                       \/ call[q].kind = "reset" /\ seen[q].rcode = call[q].code
                          /\ [purpose |-> "reset", code |-> call[q].code] \in mailed
            /\ account[t].verified /\ ~ account'[t].verified =>
                 \E q \in Requests : pc[q] = "write" /\ Table(q) = t /\ ~ seen[q].verified
      ]_vars

\* "Verify Email Address for Student, Professor, and Admin" (auth.py:328): an address that
\* was verified stays so.  A login that read it before writes False.
VerifiedStays ==
    [][\A t \in Tables :
          account[t] # NoRow /\ account[t].verified => account'[t].verified]_vars

=============================================================================
