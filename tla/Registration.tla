---------------------------- MODULE Registration ----------------------------
(***************************************************************************)
(* The registration of one e-mail address: register, resendVerification,   *)
(* verifyEmailByToken, verifyEmailByCode and completeEmailVerification of  *)
(* AuthService (src/backend/src/modules/auth/auth.service.ts), the script  *)
(* that purges what has expired, and the mails.                            *)
(*                                                                         *)
(* A submission waits as the row PendingRegistration of its address until  *)
(* a link or a code proves the address; only then the account is created.  *)
(* The row keeps its id when it is submitted again, and a link names the   *)
(* id.  No two statements are in one transaction: each is a step.          *)
(*                                                                         *)
(* Codes are counted.  A submission and a new row are called by the code   *)
(* generated with them.                                                    *)
(***************************************************************************)
EXTENDS Naturals, FiniteSets

CONSTANTS
    Requests,    \* requests that may be under way at once
    None,        \* no row, no account, no mail
    MaxAttempts, \* MAX_VERIFICATION_CODE_ATTEMPTS
    MaxCodes     \* bound on the codes generated

Row == [id : Nat, data : Nat, code : Nat, attempts : Nat, overdue : BOOLEAN]
Mail == [id : Nat, code : Nat]

ASSUME NoneAssumption == None \notin Nat \cup Row \cup Mail
ASSUME RequestsAssumption == IsFiniteSet(Requests)
ASSUME BoundAssumption == MaxAttempts \in Nat /\ MaxCodes \in Nat

VARIABLES
    pending,   \* the PendingRegistration of the address
    account,   \* the submission its User was made from
    links,     \* mails that arrived and whose link has not expired
    lastMail,  \* the last mail that arrived
    codes,     \* codes generated so far
    submitted, \* the last submission written
    welcome,   \* how far the completion that deleted the row has got since
    req,       \* requests under way
    crossed,   \* a submission was written beside a completion, or after it
    withdrawn, \* the row was deleted under a completion by somebody else
    cut,       \* a completion died between the account and the row
    spoiled    \* something happened to what the last mail stands for

rows == <<pending, account, codes, submitted>>
mails == <<links, lastMail>>
history == <<welcome, crossed, withdrawn, cut, spoiled>>
vars == <<pending, account, links, lastMail, codes, submitted, welcome, req,
          crossed, withdrawn, cut, spoiled>>

-----------------------------------------------------------------------------
Steps == {"idle", "registering", "renewing", "mailing", "counting", "reading",
          "checking", "creating", "clearing", "announcing", "opening", "removing"}

\* What a request holds: the id of a row, and a code or the data it has read.
Request == [pc : Steps, id : Nat, held : Nat]

Idle == [pc |-> "idle", id |-> 0, held |-> 0]

\* The event student.created, then the session; or the completion died.
Welcomes == {"none", "announced", "signedIn", "stopped"}

TypeOK ==
    /\ pending \in Row \cup {None}
    /\ account \in Nat \cup {None}
    /\ links \subseteq Mail
    /\ lastMail \in Mail \cup {None}
    /\ codes \in Nat /\ submitted \in Nat
    /\ req \in [Requests -> Request]
    /\ welcome \in Welcomes /\ crossed \in BOOLEAN /\ withdrawn \in BOOLEAN
    /\ cut \in BOOLEAN /\ spoiled \in BOOLEAN

Init ==
    /\ pending = None /\ account = None
    /\ links = {} /\ lastMail = None
    /\ codes = 0 /\ submitted = 0
    /\ welcome = "none"
    /\ req = [r \in Requests |-> Idle]
    /\ crossed = FALSE /\ withdrawn = FALSE /\ cut = FALSE /\ spoiled = FALSE

HasRow(id) == pending # None /\ pending.id = id
Without(id) == IF HasRow(id) THEN None ELSE pending

Doing(r, steps) == req[r].pc \in steps
Mailing(r) == \E q \in Requests \ {r} : Doing(q, {"mailing"})
Completing == \E q \in Requests : Doing(q, {"checking", "creating", "clearing"})

\* Request r goes on to step pc.
Goes(r, pc, id, held) == req' = [req EXCEPT ![r] = [pc |-> pc, id |-> id, held |-> held]]

Ends(r) == req' = [req EXCEPT ![r] = Idle]

-----------------------------------------------------------------------------
(* Submitting, and asking for another code *)

\* register: the address has no account; the password is then hashed.
BeginRegister(r) ==
    /\ Doing(r, {"idle"})
    /\ account = None
    /\ Goes(r, "registering", 0, 0)
    /\ UNCHANGED <<rows, mails, history>>

\* Variant of Upserted that makes a new row.
Recreated(n) == [id |-> n, data |-> n, code |-> n, attempts |-> 0, overdue |-> FALSE]

\* Variant of Upserted that renews the code only.
Refreshed(n) ==
    [id |-> IF pending = None THEN n ELSE pending.id,
     data |-> IF pending = None THEN n ELSE pending.data,
     code |-> n, attempts |-> 0, overdue |-> FALSE]

\* The row after the upsert on the address.
Upserted(n) ==
    [id |-> IF pending = None THEN n ELSE pending.id,
     data |-> n, code |-> n, attempts |-> 0, overdue |-> FALSE]

Submit(r) ==
    /\ Doing(r, {"registering"})
    /\ codes < MaxCodes
    /\ codes' = codes + 1
    /\ pending' = Upserted(codes + 1)
    /\ submitted' = codes + 1
    /\ Goes(r, "mailing", pending'.id, codes + 1)
    /\ crossed' = (crossed \/ account # None \/ Completing)
    /\ spoiled' = (spoiled \/ Mailing(r))
    /\ UNCHANGED <<account, mails, welcome, withdrawn, cut>>

\* resendVerification.
BeginResend(r) ==
    /\ Doing(r, {"idle"})
    /\ pending # None
    /\ Goes(r, "renewing", pending.id, 0)
    /\ UNCHANGED <<rows, mails, history>>

\* Variant of Renewed that keeps the hash of the former code.
Prolonged(n) == [pending EXCEPT !.attempts = 0, !.overdue = FALSE]

Renewed(n) == [pending EXCEPT !.code = n, !.attempts = 0, !.overdue = FALSE]

Renew(r) ==
    /\ Doing(r, {"renewing"})
    /\ HasRow(req[r].id)
    /\ codes < MaxCodes
    /\ codes' = codes + 1
    /\ pending' = Renewed(codes + 1)
    /\ Goes(r, "mailing", req[r].id, codes + 1)
    /\ spoiled' = (spoiled \/ Mailing(r))
    /\ UNCHANGED <<account, submitted, mails, welcome, crossed, withdrawn, cut>>

\* sendVerificationEmail: a link that names the row, and the code.
MailArrives(r) ==
    LET mail == [id |-> req[r].id, code |-> req[r].held] IN
    /\ Doing(r, {"mailing"})
    /\ links' = links \cup {mail}
    /\ lastMail' = mail
    /\ spoiled' = (spoiled /\ ~(HasRow(mail.id) /\ pending.code = mail.code /\ ~Mailing(r)))
    /\ Ends(r)
    /\ UNCHANGED <<rows, welcome, crossed, withdrawn, cut>>

\* The sending failed: the row goes, by its id.
MailFails(r) ==
    /\ Doing(r, {"mailing"})
    /\ pending' = Without(req[r].id)
    /\ withdrawn' = (withdrawn \/ (HasRow(req[r].id) /\ Completing))
    /\ spoiled' = (spoiled \/ HasRow(req[r].id))
    /\ Ends(r)
    /\ UNCHANGED <<account, codes, submitted, mails, welcome, crossed, cut>>

-----------------------------------------------------------------------------
(* Proving the address *)

\* verifyEmailByCode, the row read.
BeginCode(r) ==
    /\ Doing(r, {"idle"})
    /\ pending # None

FindOverdue(r) ==
    /\ BeginCode(r)
    /\ pending.overdue
    /\ Goes(r, "removing", pending.id, 0)
    /\ UNCHANGED <<rows, mails, history>>

\* Variant of TriesLeft that lets one try too many pass.
TryLeft == pending.attempts <= MaxAttempts

TriesLeft == pending.attempts < MaxAttempts

\* A code mistyped, or that of an earlier mail.
TryWrongCode(r) ==
    /\ BeginCode(r)
    /\ ~pending.overdue /\ TriesLeft
    /\ Goes(r, "counting", pending.id, 0)
    /\ UNCHANGED <<rows, mails, history>>

TryRightCode(r) ==
    /\ BeginCode(r)
    /\ ~pending.overdue /\ TriesLeft
    /\ \E mail \in links : mail.code = pending.code
    /\ Goes(r, "reading", pending.id, 0)
    /\ UNCHANGED <<rows, mails, history>>

CountTry(r) ==
    /\ Doing(r, {"counting"})
    /\ HasRow(req[r].id)
    /\ pending' = [pending EXCEPT !.attempts = @ + 1]
    /\ Ends(r)
    /\ UNCHANGED <<account, codes, submitted, mails, history>>

\* verifyEmailByToken.
FollowLink(r, mail) ==
    /\ Doing(r, {"idle"})
    /\ Goes(r, "reading", mail.id, 0)
    /\ UNCHANGED <<rows, mails, history>>

\* completeEmailVerification: the row, if it is there,
ReadRow(r) ==
    /\ Doing(r, {"reading"})
    /\ HasRow(req[r].id)
    /\ Goes(r, IF pending.overdue THEN "removing" ELSE "checking", pending.id, pending.data)
    /\ UNCHANGED <<rows, mails, history>>

\* the account, if there is one,
CheckUser(r) ==
    /\ Doing(r, {"checking"})
    /\ Goes(r, IF account = None THEN "creating" ELSE "removing", req[r].id, req[r].held)
    /\ UNCHANGED <<rows, mails, history>>

\* the account created from what was read: the address is unique,
CreateUser(r) ==
    /\ Doing(r, {"creating"})
    /\ account = None
    /\ account' = req[r].held
    /\ Goes(r, "clearing", req[r].id, 0)
    /\ UNCHANGED <<pending, codes, submitted, mails, history>>

\* Variant of ClearRow that leaves the row.
KeepRow(r) ==
    /\ Doing(r, {"clearing"})
    /\ Goes(r, "announcing", 0, 0)
    /\ UNCHANGED <<rows, mails, history>>

\* the row deleted,
ClearRow(r) ==
    /\ Doing(r, {"clearing"})
    /\ HasRow(req[r].id)
    /\ pending' = None
    /\ Goes(r, "announcing", 0, 0)
    /\ UNCHANGED <<account, codes, submitted, mails, history>>

\* student.created handed to n8n, whose answer nobody awaits,
Announce(r) ==
    /\ Doing(r, {"announcing"})
    /\ welcome' = "announced"
    /\ Goes(r, "opening", 0, 0)
    /\ UNCHANGED <<rows, mails, crossed, withdrawn, cut, spoiled>>

\* and the session opened by issueTokens.
SignIn(r) ==
    /\ Doing(r, {"opening"})
    /\ welcome' = "signedIn"
    /\ Ends(r)
    /\ UNCHANGED <<rows, mails, crossed, withdrawn, cut, spoiled>>

\* What has expired, or belongs to somebody who has an account, is deleted.
RemoveRow(r) ==
    /\ Doing(r, {"removing"})
    /\ pending' = Without(req[r].id)
    /\ withdrawn' = (withdrawn \/ (HasRow(req[r].id) /\ Completing))
    /\ spoiled' = (spoiled \/ (account = None /\ HasRow(req[r].id) /\ ~pending.overdue))
    /\ Ends(r)
    /\ UNCHANGED <<account, codes, submitted, mails, welcome, crossed, cut>>

\* An update, a delete or a read that finds no row, or the unique address:
\* the request ends with an error.
Refused(r) ==
    /\ \/ Doing(r, {"renewing", "counting", "reading", "clearing"}) /\ ~HasRow(req[r].id)
       \/ Doing(r, {"creating"}) /\ account # None
    /\ Ends(r)
    /\ UNCHANGED <<rows, mails, history>>

\* The server stops, or the database fails, before the next statement.
Dies(r) ==
    /\ ~Doing(r, {"idle"})
    /\ cut' = (cut \/ Doing(r, {"clearing"}))
    /\ welcome' = IF Doing(r, {"announcing", "opening"}) THEN "stopped" ELSE welcome
    /\ spoiled' = (spoiled \/ Doing(r, {"mailing"}))
    /\ Ends(r)
    /\ UNCHANGED <<rows, mails, crossed, withdrawn>>

-----------------------------------------------------------------------------
(* Time *)

\* A day after the last code was generated.  Its mail has long been sent, and
\* every link that arrived is as old.
Expire ==
    /\ pending # None
    /\ ~pending.overdue
    /\ \A r \in Requests : ~(Doing(r, {"mailing"}) /\ req[r].held = pending.code)
    /\ pending' = [pending EXCEPT !.overdue = TRUE]
    /\ links' = {}
    /\ UNCHANGED <<account, codes, submitted, lastMail, req, history>>

\* The link of an earlier mail.
LinkExpires(mail) ==
    /\ pending # None => mail.code # pending.code
    /\ links' = links \ {mail}
    /\ UNCHANGED <<rows, lastMail, req, history>>

\* The script purge-expired-pending-registrations.
Purge ==
    /\ pending # None
    /\ pending.overdue
    /\ pending' = None
    /\ withdrawn' = (withdrawn \/ Completing)
    /\ UNCHANGED <<account, codes, submitted, mails, req, welcome, crossed, cut, spoiled>>

Next ==
    \/ \E r \in Requests :
          \/ BeginRegister(r) \/ Submit(r) \/ BeginResend(r) \/ Renew(r)
          \/ MailArrives(r) \/ MailFails(r)
          \/ FindOverdue(r) \/ TryWrongCode(r) \/ TryRightCode(r) \/ CountTry(r)
          \/ ReadRow(r) \/ CheckUser(r) \/ CreateUser(r)
          \/ ClearRow(r) \/ Announce(r) \/ SignIn(r)
          \/ RemoveRow(r) \/ Refused(r) \/ Dies(r)
          \/ \E mail \in links : FollowLink(r, mail)
    \/ \E mail \in links : LinkExpires(mail)
    \/ Expire \/ Purge

Spec == Init /\ [][Next]_vars

-----------------------------------------------------------------------------
(* Properties *)

\* An address has a row beside its account only while the completion is about
\* to delete it, unless that completion died or a submission crossed it: the
\* comment of PendingRegistration in schema.prisma, and the two statements of
\* completeEmailVerification that are no transaction.
RowBesideAccount ==
    account # None /\ pending # None =>
        \/ \E r \in Requests : Doing(r, {"clearing"}) /\ HasRow(req[r].id)
        \/ crossed \/ cut

\* The account is made from what was submitted last, whichever mail is used:
\* register overwrites the row and completeEmailVerification reads it late.
\* Only a submission that crosses a completion is lost.
AccountIsLastSubmission ==
    account # None => account = submitted \/ crossed

\* However the tries of verifyEmailByCode overlap, they exceed the limit by
\* the other requests under way at most: codeAttempts is read, then raised.
TriesBounded ==
    pending # None => pending.attempts < MaxAttempts + Cardinality(Requests)

\* The last mail that arrived can be used until it expires, unless a newer is
\* on its way or something went wrong since: two sendings overlapped, one
\* failed or died, or a row renewed meanwhile was deleted as expired.
LastMailWorks ==
    account = None /\ lastMail \in links =>
        \/ HasRow(lastMail.id) /\ pending.code = lastMail.code
        \/ \E r \in Requests : Doing(r, {"mailing"})
        \/ spoiled

\* Who creates the account is announced and signed in, as the comment of
\* completeEmailVerification says (auth.service.ts:225), unless the completion
\* died before, or the row was deleted under it: by a second completion that
\* finds the account (the double click of line 250), by a sending that fails, as
\* expired.  A submission that crosses it does not keep it from signing in.
CompletionSignsIn ==
    account # None =>
        \/ welcome \in {"signedIn", "stopped"} \/ cut \/ withdrawn
        \/ \E r \in Requests : Doing(r, {"clearing", "announcing", "opening"})
=============================================================================
