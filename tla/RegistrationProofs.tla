------------------------- MODULE RegistrationProofs -------------------------
(***************************************************************************)
(* Proofs about Registration, for any number of requests, codes and tries. *)
(***************************************************************************)
EXTENDS Registration, FiniteSetTheorems, TLAPS

-----------------------------------------------------------------------------
(* The inductive invariant *)

\* The row holds what was submitted last.
RowIsLast == pending # None => pending.data = submitted

\* What a completion has read is the last submission, and its row still the
\* row of the address, until a submission crosses it.
Reads(r) == Doing(r, {"checking", "creating"}) => req[r].held = submitted
Holds(r) == Doing(r, {"checking", "creating", "clearing"}) /\ pending # None => HasRow(req[r].id)
CompletionsHold == ~crossed => \A r \in Requests : Reads(r) /\ Holds(r)

\* Only who has created the account is about to delete the row.
ClearingIsLast == \A r \in Requests : Doing(r, {"clearing"}) => account # None

\* A code whose mail is on its way, or whose link has not expired, is in time.
SendsInTime ==
    \A r \in Requests : Doing(r, {"mailing"}) /\ pending # None /\ req[r].held = pending.code => ~pending.overdue
LinksInTime ==
    \A mail \in links : pending # None /\ mail.code = pending.code => ~pending.overdue

\* Until something spoils it there is one mail on its way, and it stands for
\* the row.
OneSending ==
    ~spoiled => \A q, r \in Requests : Doing(q, {"mailing"}) /\ Doing(r, {"mailing"}) => q = r
SendsHold ==
    ~spoiled /\ account = None =>
        \A r \in Requests : Doing(r, {"mailing"}) => HasRow(req[r].id) /\ pending.code = req[r].held

\* Until it is withdrawn, a completion has its row: before the account exists,
\* and when it is about to delete it.
RowsKept ==
    ~withdrawn => \A r \in Requests :
        \/ Doing(r, {"checking", "creating"}) /\ account = None
        \/ Doing(r, {"clearing"})
        => HasRow(req[r].id)
OneClearing == \A q, r \in Requests : Doing(q, {"clearing"}) /\ Doing(r, {"clearing"}) => q = r

\* Every try counted or about to be counted was let pass by the limit.
Counting == {r \in Requests : Doing(r, {"counting"})}
TriesAccounted ==
    pending # None => pending.attempts + Cardinality(Counting) < MaxAttempts + Cardinality(Requests)

IInv ==
    /\ TypeOK
    /\ RowIsLast /\ CompletionsHold /\ ClearingIsLast
    /\ AccountIsLastSubmission /\ RowBesideAccount
    /\ RowsKept /\ OneClearing /\ CompletionSignsIn
    /\ SendsInTime /\ LinksInTime /\ OneSending /\ SendsHold /\ LastMailWorks
    /\ TriesAccounted

-----------------------------------------------------------------------------
(* Steps of a request *)

\* What happens to the requests when one goes on, or ends.
LEMMA GoesEffect ==
    ASSUME TypeOK, NEW r \in Requests, NEW pc \in Steps, NEW id \in Nat, NEW held \in Nat,
           Goes(r, pc, id, held)
    PROVE  /\ req' \in [Requests -> Request]
           /\ req'[r].pc = pc /\ req'[r].id = id /\ req'[r].held = held
           /\ \A q \in Requests \ {r} : req'[q] = req[q]
BY DEF TypeOK, Goes, Request

LEMMA EndsEffect ==
    ASSUME TypeOK, NEW r \in Requests, Ends(r)
    PROVE  /\ req' \in [Requests -> Request]
           /\ req'[r].pc = "idle"
           /\ \A q \in Requests \ {r} : req'[q] = req[q]
BY DEF TypeOK, Ends, Idle, Request, Steps

\* The fields of a row.
LEMMA RowTypes ==
    ASSUME TypeOK, pending # None
    PROVE  /\ pending \in Row
           /\ pending.id \in Nat /\ pending.data \in Nat /\ pending.code \in Nat
           /\ pending.attempts \in Nat /\ pending.overdue \in BOOLEAN
BY DEF TypeOK, Row

\* Every row written is a row.
LEMMA UpsertedType ==
    ASSUME TypeOK
    PROVE  /\ Upserted(codes + 1) \in Row
           /\ Upserted(codes + 1).data = codes + 1 /\ Upserted(codes + 1).code = codes + 1
           /\ Upserted(codes + 1).attempts = 0 /\ Upserted(codes + 1).overdue = FALSE
           /\ pending # None => Upserted(codes + 1).id = pending.id
BY RowTypes DEF TypeOK, Upserted, Row

LEMMA RenewedType ==
    ASSUME TypeOK, pending # None
    PROVE  /\ Renewed(codes + 1) \in Row
           /\ Renewed(codes + 1).id = pending.id
           /\ Renewed(codes + 1).data = pending.data /\ Renewed(codes + 1).code = codes + 1
           /\ Renewed(codes + 1).attempts = 0 /\ Renewed(codes + 1).overdue = FALSE
<1>1. pending \in Row /\ codes + 1 \in Nat
  BY RowTypes DEF TypeOK
<1>2. QED
  BY <1>1 DEF Renewed, Row

\* A row is not None.
LEMMA RowsAreThere == \A row \in Row : row # None
BY NoneAssumption

-----------------------------------------------------------------------------
(* What the actions do to the requests *)

LEMMA BeginRegisterEffect ==
    ASSUME TypeOK, NEW r \in Requests, BeginRegister(r)
    PROVE  /\ req' \in [Requests -> Request]
           /\ req'[r].pc = "registering"
           /\ req'[r].id = 0 /\ req'[r].held = 0
           /\ \A q \in Requests \ {r} : req'[q] = req[q]
BY GoesEffect DEF BeginRegister, Steps

LEMMA SubmitEffect ==
    ASSUME TypeOK, NEW r \in Requests, Submit(r)
    PROVE  /\ req' \in [Requests -> Request]
           /\ req'[r].pc = "mailing"
           /\ req'[r].id = pending'.id /\ req'[r].held = codes + 1
           /\ \A q \in Requests \ {r} : req'[q] = req[q]
<1>1. pending'.id \in Nat /\ codes + 1 \in Nat
  BY UpsertedType DEF Submit, Row, TypeOK
<1>2. QED
  BY <1>1, GoesEffect DEF Submit, Steps

LEMMA BeginResendEffect ==
    ASSUME TypeOK, NEW r \in Requests, BeginResend(r)
    PROVE  /\ req' \in [Requests -> Request]
           /\ req'[r].pc = "renewing"
           /\ req'[r].id = pending.id /\ req'[r].held = 0
           /\ \A q \in Requests \ {r} : req'[q] = req[q]
<1>1. pending.id \in Nat
  BY RowTypes DEF BeginResend
<1>2. QED
  BY <1>1, GoesEffect DEF BeginResend, Steps

LEMMA RenewEffect ==
    ASSUME TypeOK, NEW r \in Requests, Renew(r)
    PROVE  /\ req' \in [Requests -> Request]
           /\ req'[r].pc = "mailing"
           /\ req'[r].id = req[r].id /\ req'[r].held = codes + 1
           /\ \A q \in Requests \ {r} : req'[q] = req[q]
<1>1. req[r].id \in Nat /\ codes + 1 \in Nat
  BY DEF TypeOK, Request
<1>2. QED
  BY <1>1, GoesEffect DEF Renew, Steps

LEMMA MailArrivesEffect ==
    ASSUME TypeOK, NEW r \in Requests, MailArrives(r)
    PROVE  /\ req' \in [Requests -> Request]
           /\ req'[r].pc = "idle"
           /\ \A q \in Requests \ {r} : req'[q] = req[q]
BY EndsEffect DEF MailArrives

LEMMA MailFailsEffect ==
    ASSUME TypeOK, NEW r \in Requests, MailFails(r)
    PROVE  /\ req' \in [Requests -> Request]
           /\ req'[r].pc = "idle"
           /\ \A q \in Requests \ {r} : req'[q] = req[q]
BY EndsEffect DEF MailFails

LEMMA FindOverdueEffect ==
    ASSUME TypeOK, NEW r \in Requests, FindOverdue(r)
    PROVE  /\ req' \in [Requests -> Request]
           /\ req'[r].pc = "removing"
           /\ req'[r].id = pending.id /\ req'[r].held = 0
           /\ \A q \in Requests \ {r} : req'[q] = req[q]
<1>1. pending.id \in Nat
  BY RowTypes DEF FindOverdue, BeginCode
<1>2. QED
  BY <1>1, GoesEffect DEF FindOverdue, Steps

LEMMA TryWrongCodeEffect ==
    ASSUME TypeOK, NEW r \in Requests, TryWrongCode(r)
    PROVE  /\ req' \in [Requests -> Request]
           /\ req'[r].pc = "counting"
           /\ req'[r].id = pending.id /\ req'[r].held = 0
           /\ \A q \in Requests \ {r} : req'[q] = req[q]
<1>1. pending.id \in Nat
  BY RowTypes DEF TryWrongCode, BeginCode
<1>2. QED
  BY <1>1, GoesEffect DEF TryWrongCode, Steps

LEMMA TryRightCodeEffect ==
    ASSUME TypeOK, NEW r \in Requests, TryRightCode(r)
    PROVE  /\ req' \in [Requests -> Request]
           /\ req'[r].pc = "reading"
           /\ req'[r].id = pending.id /\ req'[r].held = 0
           /\ \A q \in Requests \ {r} : req'[q] = req[q]
<1>1. pending.id \in Nat
  BY RowTypes DEF TryRightCode, BeginCode
<1>2. QED
  BY <1>1, GoesEffect DEF TryRightCode, Steps

LEMMA CountTryEffect ==
    ASSUME TypeOK, NEW r \in Requests, CountTry(r)
    PROVE  /\ req' \in [Requests -> Request]
           /\ req'[r].pc = "idle"
           /\ \A q \in Requests \ {r} : req'[q] = req[q]
BY EndsEffect DEF CountTry

LEMMA ReadRowEffect ==
    ASSUME TypeOK, NEW r \in Requests, ReadRow(r)
    PROVE  /\ req' \in [Requests -> Request]
           /\ req'[r].pc = (IF pending.overdue THEN "removing" ELSE "checking")
           /\ req'[r].id = pending.id /\ req'[r].held = pending.data
           /\ \A q \in Requests \ {r} : req'[q] = req[q]
<1>1. pending.id \in Nat /\ pending.data \in Nat
  BY RowTypes DEF ReadRow, HasRow
<1>2. QED
  BY <1>1, GoesEffect DEF ReadRow, Steps

LEMMA CheckUserEffect ==
    ASSUME TypeOK, NEW r \in Requests, CheckUser(r)
    PROVE  /\ req' \in [Requests -> Request]
           /\ req'[r].pc = (IF account = None THEN "creating" ELSE "removing")
           /\ req'[r].id = req[r].id /\ req'[r].held = req[r].held
           /\ \A q \in Requests \ {r} : req'[q] = req[q]
<1>1. req[r].id \in Nat /\ req[r].held \in Nat
  BY DEF TypeOK, Request
<1>2. QED
  BY <1>1, GoesEffect DEF CheckUser, Steps

LEMMA CreateUserEffect ==
    ASSUME TypeOK, NEW r \in Requests, CreateUser(r)
    PROVE  /\ req' \in [Requests -> Request]
           /\ req'[r].pc = "clearing"
           /\ req'[r].id = req[r].id /\ req'[r].held = 0
           /\ \A q \in Requests \ {r} : req'[q] = req[q]
<1>1. req[r].id \in Nat
  BY DEF TypeOK, Request
<1>2. QED
  BY <1>1, GoesEffect DEF CreateUser, Steps

LEMMA ClearRowEffect ==
    ASSUME TypeOK, NEW r \in Requests, ClearRow(r)
    PROVE  /\ req' \in [Requests -> Request]
           /\ req'[r].pc = "announcing"
           /\ \A q \in Requests \ {r} : req'[q] = req[q]
BY GoesEffect DEF ClearRow, Steps

\* What is left of a completion once its row is deleted: the event, the session.
Welcoming(r) == Announce(r) \/ SignIn(r)

LEMMA WelcomingEffect ==
    ASSUME TypeOK, NEW r \in Requests, Welcoming(r)
    PROVE  /\ req' \in [Requests -> Request]
           /\ UNCHANGED <<rows, mails, crossed, withdrawn, cut, spoiled>>
           /\ welcome' \in Welcomes
           /\ req[r].pc \in {"announcing", "opening"} /\ req'[r].pc \in {"opening", "idle"}
           /\ req'[r].pc = "idle" => welcome' = "signedIn"
           /\ \A q \in Requests \ {r} : req'[q] = req[q]
<1>1. CASE Announce(r)
  BY <1>1, GoesEffect DEF Announce, Steps, Doing, Welcomes
<1>2. CASE SignIn(r)
  BY <1>2, EndsEffect DEF SignIn, Doing, Welcomes
<1>3. QED
  BY <1>1, <1>2 DEF Welcoming

LEMMA RemoveRowEffect ==
    ASSUME TypeOK, NEW r \in Requests, RemoveRow(r)
    PROVE  /\ req' \in [Requests -> Request]
           /\ req'[r].pc = "idle"
           /\ \A q \in Requests \ {r} : req'[q] = req[q]
BY EndsEffect DEF RemoveRow

LEMMA RefusedEffect ==
    ASSUME TypeOK, NEW r \in Requests, Refused(r)
    PROVE  /\ req' \in [Requests -> Request]
           /\ req'[r].pc = "idle"
           /\ \A q \in Requests \ {r} : req'[q] = req[q]
BY EndsEffect DEF Refused

LEMMA DiesEffect ==
    ASSUME TypeOK, NEW r \in Requests, Dies(r)
    PROVE  /\ req' \in [Requests -> Request]
           /\ req'[r].pc = "idle"
           /\ \A q \in Requests \ {r} : req'[q] = req[q]
BY EndsEffect DEF Dies

LEMMA FollowLinkEffect ==
    ASSUME TypeOK, NEW r \in Requests, NEW mail \in links, FollowLink(r, mail)
    PROVE  /\ req' \in [Requests -> Request]
           /\ req'[r].pc = "reading"
           /\ req'[r].id = mail.id /\ req'[r].held = 0
           /\ \A q \in Requests \ {r} : req'[q] = req[q]
<1>1. mail.id \in Nat
  BY DEF TypeOK, Mail
<1>2. QED
  BY <1>1, GoesEffect DEF FollowLink, Steps

-----------------------------------------------------------------------------
(* Types *)

LEMMA TypeStep == ASSUME TypeOK, [Next]_vars PROVE TypeOK'
<1>1. ASSUME NEW r \in Requests, BeginRegister(r)
      PROVE  TypeOK'
  BY <1>1, BeginRegisterEffect DEF BeginRegister, TypeOK, rows, mails, history
<1>2. ASSUME NEW r \in Requests, Submit(r)
      PROVE  TypeOK'
  <2>1. pending' \in Row
    BY <1>2, UpsertedType DEF Submit
  <2>2. QED
    BY <1>2, <2>1, SubmitEffect DEF Submit, TypeOK, mails
<1>3. ASSUME NEW r \in Requests, BeginResend(r)
      PROVE  TypeOK'
  BY <1>3, BeginResendEffect DEF BeginResend, TypeOK, rows, mails, history
<1>4. ASSUME NEW r \in Requests, Renew(r)
      PROVE  TypeOK'
  <2>1. pending' \in Row
    BY <1>4, RenewedType DEF Renew, HasRow
  <2>2. QED
    BY <1>4, <2>1, RenewEffect DEF Renew, TypeOK, mails
<1>5. ASSUME NEW r \in Requests, MailArrives(r)
      PROVE  TypeOK'
  <2>1. [id |-> req[r].id, code |-> req[r].held] \in Mail
    BY DEF TypeOK, Request, Mail
  <2>2. QED
    BY <1>5, <2>1, MailArrivesEffect DEF MailArrives, TypeOK, rows
<1>6. ASSUME NEW r \in Requests, MailFails(r)
      PROVE  TypeOK'
  BY <1>6, MailFailsEffect DEF MailFails, TypeOK, Without, mails
<1>7. ASSUME NEW r \in Requests, FindOverdue(r)
      PROVE  TypeOK'
  BY <1>7, FindOverdueEffect DEF FindOverdue, TypeOK, rows, mails, history
<1>8. ASSUME NEW r \in Requests, TryWrongCode(r)
      PROVE  TypeOK'
  BY <1>8, TryWrongCodeEffect DEF TryWrongCode, TypeOK, rows, mails, history
<1>9. ASSUME NEW r \in Requests, TryRightCode(r)
      PROVE  TypeOK'
  BY <1>9, TryRightCodeEffect DEF TryRightCode, TypeOK, rows, mails, history
<1>10. ASSUME NEW r \in Requests, CountTry(r)
      PROVE  TypeOK'
  <2>1. pending \in Row /\ pending.attempts + 1 \in Nat
    BY <1>10, RowTypes DEF CountTry, HasRow
  <2>2. pending' \in Row
    BY <1>10, <2>1 DEF CountTry, Row
  <2>3. QED
    BY <1>10, <2>2, CountTryEffect DEF CountTry, TypeOK, mails, history
<1>11. ASSUME NEW r \in Requests, ReadRow(r)
      PROVE  TypeOK'
  BY <1>11, ReadRowEffect DEF ReadRow, TypeOK, rows, mails, history
<1>12. ASSUME NEW r \in Requests, CheckUser(r)
      PROVE  TypeOK'
  BY <1>12, CheckUserEffect DEF CheckUser, TypeOK, rows, mails, history
<1>13. ASSUME NEW r \in Requests, CreateUser(r)
      PROVE  TypeOK'
  BY <1>13, CreateUserEffect DEF CreateUser, TypeOK, mails, history, Request
<1>14. ASSUME NEW r \in Requests, ClearRow(r)
      PROVE  TypeOK'
  BY <1>14, ClearRowEffect DEF ClearRow, TypeOK, mails, history
<1>15. ASSUME NEW r \in Requests, Welcoming(r)
      PROVE  TypeOK'
  BY <1>15, WelcomingEffect DEF TypeOK, rows, mails
<1>16. ASSUME NEW r \in Requests, RemoveRow(r)
      PROVE  TypeOK'
  BY <1>16, RemoveRowEffect DEF RemoveRow, TypeOK, Without, mails
<1>17. ASSUME NEW r \in Requests, Refused(r)
      PROVE  TypeOK'
  BY <1>17, RefusedEffect DEF Refused, TypeOK, rows, mails, history
<1>18. ASSUME NEW r \in Requests, Dies(r)
      PROVE  TypeOK'
  BY <1>18, DiesEffect DEF Dies, TypeOK, Welcomes, rows, mails
<1>19. ASSUME NEW r \in Requests, NEW mail \in links, FollowLink(r, mail)
      PROVE  TypeOK'
  BY <1>19, FollowLinkEffect DEF FollowLink, TypeOK, rows, mails, history
<1>20. ASSUME NEW mail \in links, LinkExpires(mail)
      PROVE  TypeOK'
  BY <1>20 DEF LinkExpires, TypeOK, rows, history
<1>21. CASE Expire
  <2>1. pending \in Row
    BY <1>21, RowTypes DEF Expire
  <2>2. pending' \in Row
    BY <1>21, <2>1 DEF Expire, Row
  <2>3. QED
    BY <1>21, <2>2 DEF Expire, TypeOK, mails, history
<1>22. CASE Purge
  BY <1>22 DEF Purge, TypeOK, mails
<1>23. CASE UNCHANGED vars
  BY <1>23 DEF vars, TypeOK
<1>24. QED
  BY <1>1, <1>2, <1>3, <1>4, <1>5, <1>6, <1>7, <1>8, <1>9, <1>10, <1>11, <1>12, <1>13, <1>14, <1>15, <1>16, <1>17, <1>18, <1>19, <1>20, <1>21, <1>22, <1>23 DEF Next, Welcoming

-----------------------------------------------------------------------------
(* Steps that begin a request and do nothing else *)

Quiet(r) ==
    \/ BeginRegister(r) \/ BeginResend(r) \/ FindOverdue(r) \/ TryRightCode(r)
    \/ \E mail \in links : FollowLink(r, mail)

LEMMA QuietEffect ==
    ASSUME TypeOK, NEW r \in Requests, Quiet(r)
    PROVE  /\ UNCHANGED <<rows, mails, history>>
           /\ req[r].pc = "idle" /\ req'[r].pc \in {"registering", "renewing", "reading", "removing"}
           /\ \A q \in Requests \ {r} : req'[q] = req[q]
<1>1. CASE BeginRegister(r)
  BY <1>1, BeginRegisterEffect DEF BeginRegister, Doing
<1>2. CASE BeginResend(r)
  BY <1>2, BeginResendEffect DEF BeginResend, Doing
<1>3. CASE FindOverdue(r)
  BY <1>3, FindOverdueEffect DEF FindOverdue, Doing, BeginCode
<1>4. CASE TryRightCode(r)
  BY <1>4, TryRightCodeEffect DEF TryRightCode, Doing, BeginCode
<1>5. ASSUME NEW mail \in links, FollowLink(r, mail)
      PROVE  /\ UNCHANGED <<rows, mails, history>>
             /\ req[r].pc = "idle" /\ req'[r].pc = "reading"
             /\ \A q \in Requests \ {r} : req'[q] = req[q]
  BY <1>5, FollowLinkEffect DEF FollowLink, Doing
<1>6. QED
  BY <1>1, <1>2, <1>3, <1>4, <1>5 DEF Quiet

-----------------------------------------------------------------------------
(* The row, the account and the completions *)

\* A try that is counted, and the passing of a day, change one field.
LEMMA CountTryRow ==
    ASSUME TypeOK, NEW r \in Requests, CountTry(r)
    PROVE  /\ pending # None /\ pending' # None
           /\ pending'.id = pending.id /\ pending'.data = pending.data
           /\ pending'.code = pending.code /\ pending'.overdue = pending.overdue
           /\ pending'.attempts = pending.attempts + 1
<1>1. pending \in Row /\ pending.attempts + 1 \in Nat
  BY RowTypes DEF CountTry, HasRow
<1>2. pending' \in Row
  BY <1>1 DEF CountTry, Row
<1>3. QED
  BY <1>1, <1>2, RowsAreThere DEF CountTry, HasRow, Row

LEMMA ExpireRow ==
    ASSUME TypeOK, Expire
    PROVE  /\ pending # None /\ pending' # None
           /\ pending'.id = pending.id /\ pending'.data = pending.data
           /\ pending'.code = pending.code /\ pending'.attempts = pending.attempts
<1>1. pending \in Row
  BY RowTypes DEF Expire
<1>2. pending' \in Row
  BY <1>1 DEF Expire, Row
<1>3. QED
  BY <1>1, <1>2, RowsAreThere DEF Expire, Row

\* The row follows the last submission.
LEMMA RowIsLastStep ==
    ASSUME TypeOK, RowIsLast, [Next]_vars
    PROVE  RowIsLast'
<1>1. ASSUME NEW r \in Requests, Quiet(r)
      PROVE  RowIsLast'
  BY <1>1, QuietEffect DEF RowIsLast, rows, mails, history
<1>2. ASSUME NEW r \in Requests, Submit(r)
      PROVE  RowIsLast'
  BY <1>2, UpsertedType DEF Submit, RowIsLast
<1>3. ASSUME NEW r \in Requests, Renew(r)
      PROVE  RowIsLast'
  BY <1>3, RenewedType DEF Renew, RowIsLast, HasRow
<1>4. ASSUME NEW r \in Requests, MailArrives(r)
      PROVE  RowIsLast'
  BY <1>4 DEF MailArrives, RowIsLast, rows
<1>5. ASSUME NEW r \in Requests, MailFails(r)
      PROVE  RowIsLast'
  BY <1>5 DEF MailFails, RowIsLast, HasRow, Without
<1>6. ASSUME NEW r \in Requests, TryWrongCode(r)
      PROVE  RowIsLast'
  BY <1>6 DEF TryWrongCode, RowIsLast, rows, history
<1>7. ASSUME NEW r \in Requests, CountTry(r)
      PROVE  RowIsLast'
  BY <1>7, CountTryRow DEF CountTry, RowIsLast, HasRow, history
<1>8. ASSUME NEW r \in Requests, ReadRow(r)
      PROVE  RowIsLast'
  BY <1>8 DEF ReadRow, RowIsLast, rows, history
<1>9. ASSUME NEW r \in Requests, CheckUser(r)
      PROVE  RowIsLast'
  BY <1>9 DEF CheckUser, RowIsLast, rows, history
<1>10. ASSUME NEW r \in Requests, CreateUser(r)
      PROVE  RowIsLast'
  BY <1>10 DEF CreateUser, RowIsLast, history
<1>11. ASSUME NEW r \in Requests, ClearRow(r)
      PROVE  RowIsLast'
  BY <1>11 DEF ClearRow, RowIsLast, history
<1>12. ASSUME NEW r \in Requests, Welcoming(r)
      PROVE  RowIsLast'
  BY <1>12, WelcomingEffect DEF RowIsLast, rows, mails
<1>13. ASSUME NEW r \in Requests, RemoveRow(r)
      PROVE  RowIsLast'
  BY <1>13 DEF RemoveRow, RowIsLast, HasRow, Without
<1>14. ASSUME NEW r \in Requests, Refused(r)
      PROVE  RowIsLast'
  BY <1>14 DEF Refused, RowIsLast, rows, history
<1>15. ASSUME NEW r \in Requests, Dies(r)
      PROVE  RowIsLast'
  BY <1>15 DEF Dies, RowIsLast, rows
<1>16. ASSUME NEW mail \in links, LinkExpires(mail)
      PROVE  RowIsLast'
  BY <1>16 DEF LinkExpires, RowIsLast, rows, history
<1>17. CASE Expire
  BY <1>17, ExpireRow DEF Expire, RowIsLast, history
<1>18. CASE Purge
  BY <1>18 DEF Purge, RowIsLast
<1>19. CASE UNCHANGED vars
  BY <1>19 DEF vars, RowIsLast, Doing, HasRow
<1>20. QED
  BY <1>1, <1>2, <1>3, <1>4, <1>5, <1>6, <1>7, <1>8, <1>9, <1>10, <1>11, <1>12, <1>13, <1>14, <1>15, <1>16, <1>17, <1>18, <1>19 DEF Next, Quiet, Welcoming

\* The account is there before its row is deleted.
LEMMA ClearingStep ==
    ASSUME TypeOK, ClearingIsLast, [Next]_vars
    PROVE  ClearingIsLast'
<1>1. ASSUME NEW r \in Requests, Quiet(r)
      PROVE  ClearingIsLast'
  BY <1>1, QuietEffect DEF ClearingIsLast, TypeOK, Doing, HasRow, rows, mails, history
<1>2. ASSUME NEW r \in Requests, Submit(r)
      PROVE  ClearingIsLast'
  BY <1>2, SubmitEffect, UpsertedType, RowsAreThere DEF Submit, ClearingIsLast, TypeOK, Doing, HasRow, mails
<1>3. ASSUME NEW r \in Requests, Renew(r)
      PROVE  ClearingIsLast'
  BY <1>3, RenewEffect, RenewedType, RowsAreThere DEF Renew, ClearingIsLast, TypeOK, Doing, HasRow, mails
<1>4. ASSUME NEW r \in Requests, MailArrives(r)
      PROVE  ClearingIsLast'
  BY <1>4, MailArrivesEffect DEF MailArrives, ClearingIsLast, TypeOK, Doing, HasRow, rows
<1>5. ASSUME NEW r \in Requests, MailFails(r)
      PROVE  ClearingIsLast'
  BY <1>5, MailFailsEffect DEF MailFails, ClearingIsLast, TypeOK, Doing, HasRow, Without, mails
<1>6. ASSUME NEW r \in Requests, TryWrongCode(r)
      PROVE  ClearingIsLast'
  BY <1>6, TryWrongCodeEffect DEF TryWrongCode, ClearingIsLast, TypeOK, Doing, HasRow, BeginCode, rows, mails, history
<1>7. ASSUME NEW r \in Requests, CountTry(r)
      PROVE  ClearingIsLast'
  BY <1>7, CountTryEffect, CountTryRow DEF CountTry, ClearingIsLast, TypeOK, Doing, HasRow, mails, history
<1>8. ASSUME NEW r \in Requests, ReadRow(r)
      PROVE  ClearingIsLast'
  BY <1>8, ReadRowEffect DEF ReadRow, ClearingIsLast, TypeOK, Doing, HasRow, rows, mails, history
<1>9. ASSUME NEW r \in Requests, CheckUser(r)
      PROVE  ClearingIsLast'
  BY <1>9, CheckUserEffect DEF CheckUser, ClearingIsLast, TypeOK, Doing, HasRow, rows, mails, history
<1>10. ASSUME NEW r \in Requests, CreateUser(r)
      PROVE  ClearingIsLast'
  <2>1. account' # None
    BY <1>10, NoneAssumption DEF CreateUser, TypeOK, Request
  <2>2. QED
    BY <1>10, <2>1, CreateUserEffect DEF ClearingIsLast, Doing
<1>11. ASSUME NEW r \in Requests, ClearRow(r)
      PROVE  ClearingIsLast'
  BY <1>11, ClearRowEffect DEF ClearRow, ClearingIsLast, TypeOK, Doing, HasRow, mails, history
<1>12. ASSUME NEW r \in Requests, Welcoming(r)
      PROVE  ClearingIsLast'
  BY <1>12, WelcomingEffect DEF ClearingIsLast, TypeOK, Doing, HasRow, rows, mails
<1>13. ASSUME NEW r \in Requests, RemoveRow(r)
      PROVE  ClearingIsLast'
  BY <1>13, RemoveRowEffect DEF RemoveRow, ClearingIsLast, TypeOK, Doing, HasRow, Without, mails
<1>14. ASSUME NEW r \in Requests, Refused(r)
      PROVE  ClearingIsLast'
  BY <1>14, RefusedEffect DEF Refused, ClearingIsLast, TypeOK, Doing, HasRow, rows, mails, history
<1>15. ASSUME NEW r \in Requests, Dies(r)
      PROVE  ClearingIsLast'
  BY <1>15, DiesEffect DEF Dies, ClearingIsLast, TypeOK, Doing, HasRow, rows, mails
<1>16. ASSUME NEW mail \in links, LinkExpires(mail)
      PROVE  ClearingIsLast'
  BY <1>16 DEF LinkExpires, ClearingIsLast, TypeOK, Doing, HasRow, rows, history
<1>17. CASE Expire
  BY <1>17, ExpireRow DEF Expire, ClearingIsLast, TypeOK, Doing, HasRow, mails, history
<1>18. CASE Purge
  BY <1>18 DEF Purge, ClearingIsLast, TypeOK, Doing, HasRow, mails
<1>19. CASE UNCHANGED vars
  BY <1>19 DEF vars, ClearingIsLast, TypeOK, Doing, HasRow
<1>20. QED
  BY <1>1, <1>2, <1>3, <1>4, <1>5, <1>6, <1>7, <1>8, <1>9, <1>10, <1>11, <1>12, <1>13, <1>14, <1>15, <1>16, <1>17, <1>18, <1>19 DEF Next, Quiet, Welcoming

\* A completion keeps what it has read.
LEMMA CompletionsStep ==
    ASSUME TypeOK, RowIsLast, CompletionsHold, [Next]_vars
    PROVE  CompletionsHold'
<1>1. ASSUME NEW r \in Requests, Quiet(r)
      PROVE  CompletionsHold'
  BY <1>1, QuietEffect DEF RowIsLast, CompletionsHold, Reads, Holds, Doing, HasRow, rows, mails, history
<1>2. ASSUME NEW r \in Requests, Submit(r)
      PROVE  CompletionsHold'
  BY <1>2, SubmitEffect, UpsertedType, RowsAreThere DEF Submit, RowIsLast, CompletionsHold, Completing, Reads, Holds, Doing, HasRow, mails
<1>3. ASSUME NEW r \in Requests, Renew(r)
      PROVE  CompletionsHold'
  BY <1>3, RenewEffect, RenewedType, RowsAreThere DEF Renew, RowIsLast, CompletionsHold, Reads, Holds, Doing, HasRow, mails
<1>4. ASSUME NEW r \in Requests, MailArrives(r)
      PROVE  CompletionsHold'
  BY <1>4, MailArrivesEffect DEF MailArrives, RowIsLast, CompletionsHold, Reads, Holds, Doing, HasRow, rows
<1>5. ASSUME NEW r \in Requests, MailFails(r)
      PROVE  CompletionsHold'
  BY <1>5, MailFailsEffect DEF MailFails, RowIsLast, CompletionsHold, Reads, Holds, Doing, HasRow, Without, mails
<1>6. ASSUME NEW r \in Requests, TryWrongCode(r)
      PROVE  CompletionsHold'
  BY <1>6, TryWrongCodeEffect DEF TryWrongCode, RowIsLast, CompletionsHold, Reads, Holds, Doing, HasRow, BeginCode, rows, mails, history
<1>7. ASSUME NEW r \in Requests, CountTry(r)
      PROVE  CompletionsHold'
  BY <1>7, CountTryEffect, CountTryRow DEF CountTry, RowIsLast, CompletionsHold, Reads, Holds, Doing, HasRow, mails, history
<1>8. ASSUME NEW r \in Requests, ReadRow(r)
      PROVE  CompletionsHold'
  BY <1>8, ReadRowEffect DEF ReadRow, RowIsLast, CompletionsHold, Reads, Holds, Doing, HasRow, rows, mails, history
<1>9. ASSUME NEW r \in Requests, CheckUser(r)
      PROVE  CompletionsHold'
  BY <1>9, CheckUserEffect DEF CheckUser, RowIsLast, CompletionsHold, Reads, Holds, Doing, HasRow, rows, mails, history
<1>10. ASSUME NEW r \in Requests, CreateUser(r)
      PROVE  CompletionsHold'
  BY <1>10, CreateUserEffect DEF CreateUser, RowIsLast, CompletionsHold, Reads, Holds, Doing, HasRow, mails, history
<1>11. ASSUME NEW r \in Requests, ClearRow(r)
      PROVE  CompletionsHold'
  BY <1>11, ClearRowEffect DEF ClearRow, RowIsLast, CompletionsHold, Reads, Holds, Doing, HasRow, mails, history
<1>12. ASSUME NEW r \in Requests, Welcoming(r)
      PROVE  CompletionsHold'
  BY <1>12, WelcomingEffect DEF RowIsLast, CompletionsHold, Reads, Holds, Doing, HasRow, rows, mails
<1>13. ASSUME NEW r \in Requests, RemoveRow(r)
      PROVE  CompletionsHold'
  BY <1>13, RemoveRowEffect DEF RemoveRow, RowIsLast, CompletionsHold, Reads, Holds, Doing, HasRow, Without, mails
<1>14. ASSUME NEW r \in Requests, Refused(r)
      PROVE  CompletionsHold'
  BY <1>14, RefusedEffect DEF Refused, RowIsLast, CompletionsHold, Reads, Holds, Doing, HasRow, rows, mails, history
<1>15. ASSUME NEW r \in Requests, Dies(r)
      PROVE  CompletionsHold'
  BY <1>15, DiesEffect DEF Dies, RowIsLast, CompletionsHold, Reads, Holds, Doing, HasRow, rows, mails
<1>16. ASSUME NEW mail \in links, LinkExpires(mail)
      PROVE  CompletionsHold'
  BY <1>16 DEF LinkExpires, RowIsLast, CompletionsHold, Reads, Holds, Doing, HasRow, rows, history
<1>17. CASE Expire
  BY <1>17, ExpireRow DEF Expire, RowIsLast, CompletionsHold, Reads, Holds, Doing, HasRow, mails, history
<1>18. CASE Purge
  BY <1>18 DEF Purge, RowIsLast, CompletionsHold, Reads, Holds, Doing, HasRow, mails
<1>19. CASE UNCHANGED vars
  BY <1>19 DEF vars, RowIsLast, CompletionsHold, Reads, Holds, Doing, HasRow
<1>20. QED
  BY <1>1, <1>2, <1>3, <1>4, <1>5, <1>6, <1>7, <1>8, <1>9, <1>10, <1>11, <1>12, <1>13, <1>14, <1>15, <1>16, <1>17, <1>18, <1>19 DEF Next, Quiet, Welcoming

\* The account is made from the last submission.
LEMMA AccountStep ==
    ASSUME TypeOK, CompletionsHold, AccountIsLastSubmission, [Next]_vars
    PROVE  AccountIsLastSubmission'
<1>1. ASSUME NEW r \in Requests, Quiet(r)
      PROVE  AccountIsLastSubmission'
  BY <1>1, QuietEffect DEF AccountIsLastSubmission, rows, mails, history
<1>2. ASSUME NEW r \in Requests, Submit(r)
      PROVE  AccountIsLastSubmission'
  BY <1>2, UpsertedType DEF Submit, AccountIsLastSubmission
<1>3. ASSUME NEW r \in Requests, Renew(r)
      PROVE  AccountIsLastSubmission'
  BY <1>3, RenewedType DEF Renew, AccountIsLastSubmission
<1>4. ASSUME NEW r \in Requests, MailArrives(r)
      PROVE  AccountIsLastSubmission'
  BY <1>4 DEF MailArrives, AccountIsLastSubmission, rows
<1>5. ASSUME NEW r \in Requests, MailFails(r)
      PROVE  AccountIsLastSubmission'
  BY <1>5 DEF MailFails, AccountIsLastSubmission, Without
<1>6. ASSUME NEW r \in Requests, TryWrongCode(r)
      PROVE  AccountIsLastSubmission'
  BY <1>6 DEF TryWrongCode, AccountIsLastSubmission, rows, history
<1>7. ASSUME NEW r \in Requests, CountTry(r)
      PROVE  AccountIsLastSubmission'
  BY <1>7, CountTryRow DEF CountTry, AccountIsLastSubmission, history
<1>8. ASSUME NEW r \in Requests, ReadRow(r)
      PROVE  AccountIsLastSubmission'
  BY <1>8 DEF ReadRow, AccountIsLastSubmission, rows, history
<1>9. ASSUME NEW r \in Requests, CheckUser(r)
      PROVE  AccountIsLastSubmission'
  BY <1>9 DEF CheckUser, AccountIsLastSubmission, rows, history
<1>10. ASSUME NEW r \in Requests, CreateUser(r)
      PROVE  AccountIsLastSubmission'
  BY <1>10 DEF CreateUser, AccountIsLastSubmission, CompletionsHold, Reads, Doing, history
<1>11. ASSUME NEW r \in Requests, ClearRow(r)
      PROVE  AccountIsLastSubmission'
  BY <1>11 DEF ClearRow, AccountIsLastSubmission, history
<1>12. ASSUME NEW r \in Requests, Welcoming(r)
      PROVE  AccountIsLastSubmission'
  BY <1>12, WelcomingEffect DEF AccountIsLastSubmission, rows, mails
<1>13. ASSUME NEW r \in Requests, RemoveRow(r)
      PROVE  AccountIsLastSubmission'
  BY <1>13 DEF RemoveRow, AccountIsLastSubmission, Without
<1>14. ASSUME NEW r \in Requests, Refused(r)
      PROVE  AccountIsLastSubmission'
  BY <1>14 DEF Refused, AccountIsLastSubmission, rows, history
<1>15. ASSUME NEW r \in Requests, Dies(r)
      PROVE  AccountIsLastSubmission'
  BY <1>15 DEF Dies, AccountIsLastSubmission, rows
<1>16. ASSUME NEW mail \in links, LinkExpires(mail)
      PROVE  AccountIsLastSubmission'
  BY <1>16 DEF LinkExpires, AccountIsLastSubmission, rows, history
<1>17. CASE Expire
  BY <1>17, ExpireRow DEF Expire, AccountIsLastSubmission, history
<1>18. CASE Purge
  BY <1>18 DEF Purge, AccountIsLastSubmission
<1>19. CASE UNCHANGED vars
  BY <1>19 DEF vars, AccountIsLastSubmission, Doing, HasRow
<1>20. QED
  BY <1>1, <1>2, <1>3, <1>4, <1>5, <1>6, <1>7, <1>8, <1>9, <1>10, <1>11, <1>12, <1>13, <1>14, <1>15, <1>16, <1>17, <1>18, <1>19 DEF Next, Quiet, Welcoming

\* A row beside the account has its cause.
LEMMA RowBesideStep ==
    ASSUME TypeOK, CompletionsHold, RowBesideAccount, [Next]_vars
    PROVE  RowBesideAccount'
<1>1. ASSUME NEW r \in Requests, Quiet(r)
      PROVE  RowBesideAccount'
  BY <1>1, QuietEffect DEF CompletionsHold, Holds, RowBesideAccount, Doing, HasRow, rows, mails, history
<1>2. ASSUME NEW r \in Requests, Submit(r)
      PROVE  RowBesideAccount'
  BY <1>2, SubmitEffect, UpsertedType, RowsAreThere DEF Submit, CompletionsHold, Holds, RowBesideAccount, Doing, HasRow, mails
<1>3. ASSUME NEW r \in Requests, Renew(r)
      PROVE  RowBesideAccount'
  BY <1>3, RenewEffect, RenewedType, RowsAreThere DEF Renew, CompletionsHold, Holds, RowBesideAccount, Doing, HasRow, mails
<1>4. ASSUME NEW r \in Requests, MailArrives(r)
      PROVE  RowBesideAccount'
  BY <1>4, MailArrivesEffect DEF MailArrives, CompletionsHold, Holds, RowBesideAccount, Doing, HasRow, rows
<1>5. ASSUME NEW r \in Requests, MailFails(r)
      PROVE  RowBesideAccount'
  BY <1>5, MailFailsEffect DEF MailFails, CompletionsHold, Holds, RowBesideAccount, Doing, HasRow, Without, mails
<1>6. ASSUME NEW r \in Requests, TryWrongCode(r)
      PROVE  RowBesideAccount'
  BY <1>6, TryWrongCodeEffect DEF TryWrongCode, CompletionsHold, Holds, RowBesideAccount, Doing, HasRow, BeginCode, rows, mails, history
<1>7. ASSUME NEW r \in Requests, CountTry(r)
      PROVE  RowBesideAccount'
  BY <1>7, CountTryEffect, CountTryRow DEF CountTry, CompletionsHold, Holds, RowBesideAccount, Doing, HasRow, mails, history
<1>8. ASSUME NEW r \in Requests, ReadRow(r)
      PROVE  RowBesideAccount'
  BY <1>8, ReadRowEffect DEF ReadRow, CompletionsHold, Holds, RowBesideAccount, Doing, HasRow, rows, mails, history
<1>9. ASSUME NEW r \in Requests, CheckUser(r)
      PROVE  RowBesideAccount'
  BY <1>9, CheckUserEffect DEF CheckUser, CompletionsHold, Holds, RowBesideAccount, Doing, HasRow, rows, mails, history
<1>10. ASSUME NEW r \in Requests, CreateUser(r)
      PROVE  RowBesideAccount'
  BY <1>10, CreateUserEffect DEF CreateUser, CompletionsHold, Holds, RowBesideAccount, Doing, HasRow, mails, history
<1>11. ASSUME NEW r \in Requests, ClearRow(r)
      PROVE  RowBesideAccount'
  BY <1>11, ClearRowEffect DEF ClearRow, CompletionsHold, Holds, RowBesideAccount, Doing, HasRow, mails, history
<1>12. ASSUME NEW r \in Requests, Welcoming(r)
      PROVE  RowBesideAccount'
  BY <1>12, WelcomingEffect DEF CompletionsHold, Holds, RowBesideAccount, Doing, HasRow, rows, mails
<1>13. ASSUME NEW r \in Requests, RemoveRow(r)
      PROVE  RowBesideAccount'
  BY <1>13, RemoveRowEffect DEF RemoveRow, CompletionsHold, Holds, RowBesideAccount, Doing, HasRow, Without, mails
<1>14. ASSUME NEW r \in Requests, Refused(r)
      PROVE  RowBesideAccount'
  BY <1>14, RefusedEffect DEF Refused, CompletionsHold, Holds, RowBesideAccount, Doing, HasRow, rows, mails, history
<1>15. ASSUME NEW r \in Requests, Dies(r)
      PROVE  RowBesideAccount'
  BY <1>15, DiesEffect DEF Dies, CompletionsHold, Holds, RowBesideAccount, Doing, HasRow, rows, mails
<1>16. ASSUME NEW mail \in links, LinkExpires(mail)
      PROVE  RowBesideAccount'
  BY <1>16 DEF LinkExpires, CompletionsHold, Holds, RowBesideAccount, Doing, HasRow, rows, history
<1>17. CASE Expire
  BY <1>17, ExpireRow DEF Expire, CompletionsHold, Holds, RowBesideAccount, Doing, HasRow, mails, history
<1>18. CASE Purge
  BY <1>18 DEF Purge, CompletionsHold, Holds, RowBesideAccount, Doing, HasRow, mails
<1>19. CASE UNCHANGED vars
  BY <1>19 DEF vars, CompletionsHold, Holds, RowBesideAccount, Doing, HasRow
<1>20. QED
  BY <1>1, <1>2, <1>3, <1>4, <1>5, <1>6, <1>7, <1>8, <1>9, <1>10, <1>11, <1>12, <1>13, <1>14, <1>15, <1>16, <1>17, <1>18, <1>19 DEF Next, Quiet, Welcoming

\* Who has created the account is alone.
LEMMA OneClearingStep ==
    ASSUME TypeOK, ClearingIsLast, OneClearing, [Next]_vars
    PROVE  OneClearing'
<1>1. ASSUME NEW r \in Requests, Quiet(r)
      PROVE  OneClearing'
  BY <1>1, QuietEffect DEF ClearingIsLast, OneClearing, Doing, HasRow, rows, mails, history
<1>2. ASSUME NEW r \in Requests, Submit(r)
      PROVE  OneClearing'
  BY <1>2, SubmitEffect, UpsertedType, RowsAreThere DEF Submit, ClearingIsLast, OneClearing, Doing, HasRow, mails
<1>3. ASSUME NEW r \in Requests, Renew(r)
      PROVE  OneClearing'
  BY <1>3, RenewEffect, RenewedType, RowsAreThere DEF Renew, ClearingIsLast, OneClearing, Doing, HasRow, mails
<1>4. ASSUME NEW r \in Requests, MailArrives(r)
      PROVE  OneClearing'
  BY <1>4, MailArrivesEffect DEF MailArrives, ClearingIsLast, OneClearing, Doing, HasRow, rows
<1>5. ASSUME NEW r \in Requests, MailFails(r)
      PROVE  OneClearing'
  BY <1>5, MailFailsEffect DEF MailFails, ClearingIsLast, OneClearing, Doing, HasRow, Without, mails
<1>6. ASSUME NEW r \in Requests, TryWrongCode(r)
      PROVE  OneClearing'
  BY <1>6, TryWrongCodeEffect DEF TryWrongCode, ClearingIsLast, OneClearing, Doing, HasRow, BeginCode, rows, mails, history
<1>7. ASSUME NEW r \in Requests, CountTry(r)
      PROVE  OneClearing'
  BY <1>7, CountTryEffect, CountTryRow DEF CountTry, ClearingIsLast, OneClearing, Doing, HasRow, mails, history
<1>8. ASSUME NEW r \in Requests, ReadRow(r)
      PROVE  OneClearing'
  BY <1>8, ReadRowEffect DEF ReadRow, ClearingIsLast, OneClearing, Doing, HasRow, rows, mails, history
<1>9. ASSUME NEW r \in Requests, CheckUser(r)
      PROVE  OneClearing'
  BY <1>9, CheckUserEffect DEF CheckUser, ClearingIsLast, OneClearing, Doing, HasRow, rows, mails, history
<1>10. ASSUME NEW r \in Requests, CreateUser(r)
      PROVE  OneClearing'
  BY <1>10, CreateUserEffect DEF CreateUser, ClearingIsLast, OneClearing, Doing, HasRow, mails, history
<1>11. ASSUME NEW r \in Requests, ClearRow(r)
      PROVE  OneClearing'
  BY <1>11, ClearRowEffect DEF ClearRow, ClearingIsLast, OneClearing, Doing, HasRow, mails, history
<1>12. ASSUME NEW r \in Requests, Welcoming(r)
      PROVE  OneClearing'
  BY <1>12, WelcomingEffect DEF ClearingIsLast, OneClearing, Doing, HasRow, rows, mails
<1>13. ASSUME NEW r \in Requests, RemoveRow(r)
      PROVE  OneClearing'
  BY <1>13, RemoveRowEffect DEF RemoveRow, ClearingIsLast, OneClearing, Doing, HasRow, Without, mails
<1>14. ASSUME NEW r \in Requests, Refused(r)
      PROVE  OneClearing'
  BY <1>14, RefusedEffect DEF Refused, ClearingIsLast, OneClearing, Doing, HasRow, rows, mails, history
<1>15. ASSUME NEW r \in Requests, Dies(r)
      PROVE  OneClearing'
  BY <1>15, DiesEffect DEF Dies, ClearingIsLast, OneClearing, Doing, HasRow, rows, mails
<1>16. ASSUME NEW mail \in links, LinkExpires(mail)
      PROVE  OneClearing'
  BY <1>16 DEF LinkExpires, ClearingIsLast, OneClearing, Doing, HasRow, rows, history
<1>17. CASE Expire
  BY <1>17, ExpireRow DEF Expire, ClearingIsLast, OneClearing, Doing, HasRow, mails, history
<1>18. CASE Purge
  BY <1>18 DEF Purge, ClearingIsLast, OneClearing, Doing, HasRow, mails
<1>19. CASE UNCHANGED vars
  BY <1>19 DEF vars, ClearingIsLast, OneClearing, Doing, HasRow
<1>20. QED
  BY <1>1, <1>2, <1>3, <1>4, <1>5, <1>6, <1>7, <1>8, <1>9, <1>10, <1>11, <1>12, <1>13, <1>14, <1>15, <1>16, <1>17, <1>18, <1>19 DEF Next, Quiet, Welcoming

\* A completion has its row until it is withdrawn.
LEMMA RowsKeptStep ==
    ASSUME TypeOK, ClearingIsLast, OneClearing, RowsKept, [Next]_vars
    PROVE  RowsKept'
<1>1. ASSUME NEW r \in Requests, Quiet(r)
      PROVE  RowsKept'
  BY <1>1, QuietEffect DEF ClearingIsLast, OneClearing, RowsKept, Completing, Doing, HasRow, rows, mails, history
<1>2. ASSUME NEW r \in Requests, Submit(r)
      PROVE  RowsKept'
  BY <1>2, SubmitEffect, UpsertedType, RowsAreThere DEF Submit, ClearingIsLast, OneClearing, RowsKept, Completing, Doing, HasRow, mails
<1>3. ASSUME NEW r \in Requests, Renew(r)
      PROVE  RowsKept'
  BY <1>3, RenewEffect, RenewedType, RowsAreThere DEF Renew, ClearingIsLast, OneClearing, RowsKept, Completing, Doing, HasRow, mails
<1>4. ASSUME NEW r \in Requests, MailArrives(r)
      PROVE  RowsKept'
  BY <1>4, MailArrivesEffect DEF MailArrives, ClearingIsLast, OneClearing, RowsKept, Completing, Doing, HasRow, rows
<1>5. ASSUME NEW r \in Requests, MailFails(r)
      PROVE  RowsKept'
  BY <1>5, MailFailsEffect DEF MailFails, ClearingIsLast, OneClearing, RowsKept, Completing, Doing, HasRow, Without, mails
<1>6. ASSUME NEW r \in Requests, TryWrongCode(r)
      PROVE  RowsKept'
  BY <1>6, TryWrongCodeEffect DEF TryWrongCode, ClearingIsLast, OneClearing, RowsKept, Completing, Doing, HasRow, BeginCode, rows, mails, history
<1>7. ASSUME NEW r \in Requests, CountTry(r)
      PROVE  RowsKept'
  BY <1>7, CountTryEffect, CountTryRow DEF CountTry, ClearingIsLast, OneClearing, RowsKept, Completing, Doing, HasRow, mails, history
<1>8. ASSUME NEW r \in Requests, ReadRow(r)
      PROVE  RowsKept'
  BY <1>8, ReadRowEffect DEF ReadRow, ClearingIsLast, OneClearing, RowsKept, Completing, Doing, HasRow, rows, mails, history
<1>9. ASSUME NEW r \in Requests, CheckUser(r)
      PROVE  RowsKept'
  BY <1>9, CheckUserEffect DEF CheckUser, ClearingIsLast, OneClearing, RowsKept, Completing, Doing, HasRow, rows, mails, history
<1>10. ASSUME NEW r \in Requests, CreateUser(r)
      PROVE  RowsKept'
  BY <1>10, CreateUserEffect DEF CreateUser, ClearingIsLast, OneClearing, RowsKept, Completing, Doing, HasRow, mails, history
<1>11. ASSUME NEW r \in Requests, ClearRow(r)
      PROVE  RowsKept'
  BY <1>11, ClearRowEffect DEF ClearRow, ClearingIsLast, OneClearing, RowsKept, Completing, Doing, HasRow, mails, history
<1>12. ASSUME NEW r \in Requests, Welcoming(r)
      PROVE  RowsKept'
  BY <1>12, WelcomingEffect DEF ClearingIsLast, OneClearing, RowsKept, Completing, Doing, HasRow, rows, mails
<1>13. ASSUME NEW r \in Requests, RemoveRow(r)
      PROVE  RowsKept'
  BY <1>13, RemoveRowEffect DEF RemoveRow, ClearingIsLast, OneClearing, RowsKept, Completing, Doing, HasRow, Without, mails
<1>14. ASSUME NEW r \in Requests, Refused(r)
      PROVE  RowsKept'
  BY <1>14, RefusedEffect DEF Refused, ClearingIsLast, OneClearing, RowsKept, Completing, Doing, HasRow, rows, mails, history
<1>15. ASSUME NEW r \in Requests, Dies(r)
      PROVE  RowsKept'
  BY <1>15, DiesEffect DEF Dies, ClearingIsLast, OneClearing, RowsKept, Completing, Doing, HasRow, rows, mails
<1>16. ASSUME NEW mail \in links, LinkExpires(mail)
      PROVE  RowsKept'
  BY <1>16 DEF LinkExpires, ClearingIsLast, OneClearing, RowsKept, Completing, Doing, HasRow, rows, history
<1>17. CASE Expire
  BY <1>17, ExpireRow DEF Expire, ClearingIsLast, OneClearing, RowsKept, Completing, Doing, HasRow, mails, history
<1>18. CASE Purge
  BY <1>18 DEF Purge, ClearingIsLast, OneClearing, RowsKept, Completing, Doing, HasRow, mails
<1>19. CASE UNCHANGED vars
  BY <1>19 DEF vars, ClearingIsLast, OneClearing, RowsKept, Completing, Doing, HasRow
<1>20. QED
  BY <1>1, <1>2, <1>3, <1>4, <1>5, <1>6, <1>7, <1>8, <1>9, <1>10, <1>11, <1>12, <1>13, <1>14, <1>15, <1>16, <1>17, <1>18, <1>19 DEF Next, Quiet, Welcoming

\* Who creates the account goes on to sign in.
LEMMA SignsInStep ==
    ASSUME TypeOK, RowsKept, CompletionSignsIn, [Next]_vars
    PROVE  CompletionSignsIn'
<1>1. ASSUME NEW r \in Requests, Quiet(r)
      PROVE  CompletionSignsIn'
  BY <1>1, QuietEffect DEF RowsKept, CompletionSignsIn, Doing, HasRow, rows, mails, history
<1>2. ASSUME NEW r \in Requests, Submit(r)
      PROVE  CompletionSignsIn'
  BY <1>2, SubmitEffect, UpsertedType, RowsAreThere DEF Submit, RowsKept, CompletionSignsIn, Doing, HasRow, mails
<1>3. ASSUME NEW r \in Requests, Renew(r)
      PROVE  CompletionSignsIn'
  BY <1>3, RenewEffect, RenewedType, RowsAreThere DEF Renew, RowsKept, CompletionSignsIn, Doing, HasRow, mails
<1>4. ASSUME NEW r \in Requests, MailArrives(r)
      PROVE  CompletionSignsIn'
  BY <1>4, MailArrivesEffect DEF MailArrives, RowsKept, CompletionSignsIn, Doing, HasRow, rows
<1>5. ASSUME NEW r \in Requests, MailFails(r)
      PROVE  CompletionSignsIn'
  BY <1>5, MailFailsEffect DEF MailFails, RowsKept, CompletionSignsIn, Doing, HasRow, Without, mails
<1>6. ASSUME NEW r \in Requests, TryWrongCode(r)
      PROVE  CompletionSignsIn'
  BY <1>6, TryWrongCodeEffect DEF TryWrongCode, RowsKept, CompletionSignsIn, Doing, HasRow, BeginCode, rows, mails, history
<1>7. ASSUME NEW r \in Requests, CountTry(r)
      PROVE  CompletionSignsIn'
  BY <1>7, CountTryEffect, CountTryRow DEF CountTry, RowsKept, CompletionSignsIn, Doing, HasRow, mails, history
<1>8. ASSUME NEW r \in Requests, ReadRow(r)
      PROVE  CompletionSignsIn'
  BY <1>8, ReadRowEffect DEF ReadRow, RowsKept, CompletionSignsIn, Doing, HasRow, rows, mails, history
<1>9. ASSUME NEW r \in Requests, CheckUser(r)
      PROVE  CompletionSignsIn'
  BY <1>9, CheckUserEffect DEF CheckUser, RowsKept, CompletionSignsIn, Doing, HasRow, rows, mails, history
<1>10. ASSUME NEW r \in Requests, CreateUser(r)
      PROVE  CompletionSignsIn'
  BY <1>10, CreateUserEffect DEF CreateUser, RowsKept, CompletionSignsIn, Doing, HasRow, mails, history
<1>11. ASSUME NEW r \in Requests, ClearRow(r)
      PROVE  CompletionSignsIn'
  BY <1>11, ClearRowEffect DEF ClearRow, RowsKept, CompletionSignsIn, Doing, HasRow, mails, history
<1>12. ASSUME NEW r \in Requests, Welcoming(r)
      PROVE  CompletionSignsIn'
  BY <1>12, WelcomingEffect DEF RowsKept, CompletionSignsIn, Doing, HasRow, rows, mails
<1>13. ASSUME NEW r \in Requests, RemoveRow(r)
      PROVE  CompletionSignsIn'
  BY <1>13, RemoveRowEffect DEF RemoveRow, RowsKept, CompletionSignsIn, Doing, HasRow, Without, mails
<1>14. ASSUME NEW r \in Requests, Refused(r)
      PROVE  CompletionSignsIn'
  BY <1>14, RefusedEffect DEF Refused, RowsKept, CompletionSignsIn, Doing, HasRow, rows, mails, history
<1>15. ASSUME NEW r \in Requests, Dies(r)
      PROVE  CompletionSignsIn'
  BY <1>15, DiesEffect DEF Dies, RowsKept, CompletionSignsIn, Doing, HasRow, rows, mails
<1>16. ASSUME NEW mail \in links, LinkExpires(mail)
      PROVE  CompletionSignsIn'
  BY <1>16 DEF LinkExpires, RowsKept, CompletionSignsIn, Doing, HasRow, rows, history
<1>17. CASE Expire
  BY <1>17, ExpireRow DEF Expire, RowsKept, CompletionSignsIn, Doing, HasRow, mails, history
<1>18. CASE Purge
  BY <1>18 DEF Purge, RowsKept, CompletionSignsIn, Doing, HasRow, mails
<1>19. CASE UNCHANGED vars
  BY <1>19 DEF vars, RowsKept, CompletionSignsIn, Doing, HasRow
<1>20. QED
  BY <1>1, <1>2, <1>3, <1>4, <1>5, <1>6, <1>7, <1>8, <1>9, <1>10, <1>11, <1>12, <1>13, <1>14, <1>15, <1>16, <1>17, <1>18, <1>19 DEF Next, Quiet, Welcoming

-----------------------------------------------------------------------------
(* The mails *)

\* A mail is sent in time.
LEMMA SendsInTimeStep ==
    ASSUME TypeOK, SendsInTime, [Next]_vars
    PROVE  SendsInTime'
<1>1. ASSUME NEW r \in Requests, Quiet(r)
      PROVE  SendsInTime'
  BY <1>1, QuietEffect DEF SendsInTime, Doing, HasRow, rows, mails, history
<1>2. ASSUME NEW r \in Requests, Submit(r)
      PROVE  SendsInTime'
  BY <1>2, SubmitEffect, UpsertedType, RowsAreThere DEF Submit, SendsInTime, Doing, HasRow, mails
<1>3. ASSUME NEW r \in Requests, Renew(r)
      PROVE  SendsInTime'
  BY <1>3, RenewEffect, RenewedType, RowsAreThere DEF Renew, SendsInTime, Doing, HasRow, mails
<1>4. ASSUME NEW r \in Requests, MailArrives(r)
      PROVE  SendsInTime'
  BY <1>4, MailArrivesEffect DEF MailArrives, SendsInTime, Doing, HasRow, rows
<1>5. ASSUME NEW r \in Requests, MailFails(r)
      PROVE  SendsInTime'
  BY <1>5, MailFailsEffect DEF MailFails, SendsInTime, Doing, HasRow, Without, mails
<1>6. ASSUME NEW r \in Requests, TryWrongCode(r)
      PROVE  SendsInTime'
  BY <1>6, TryWrongCodeEffect DEF TryWrongCode, SendsInTime, Doing, HasRow, BeginCode, rows, mails, history
<1>7. ASSUME NEW r \in Requests, CountTry(r)
      PROVE  SendsInTime'
  BY <1>7, CountTryEffect, CountTryRow DEF CountTry, SendsInTime, Doing, HasRow, mails, history
<1>8. ASSUME NEW r \in Requests, ReadRow(r)
      PROVE  SendsInTime'
  BY <1>8, ReadRowEffect DEF ReadRow, SendsInTime, Doing, HasRow, rows, mails, history
<1>9. ASSUME NEW r \in Requests, CheckUser(r)
      PROVE  SendsInTime'
  BY <1>9, CheckUserEffect DEF CheckUser, SendsInTime, Doing, HasRow, rows, mails, history
<1>10. ASSUME NEW r \in Requests, CreateUser(r)
      PROVE  SendsInTime'
  BY <1>10, CreateUserEffect DEF CreateUser, SendsInTime, Doing, HasRow, mails, history
<1>11. ASSUME NEW r \in Requests, ClearRow(r)
      PROVE  SendsInTime'
  BY <1>11, ClearRowEffect DEF ClearRow, SendsInTime, Doing, HasRow, mails, history
<1>12. ASSUME NEW r \in Requests, Welcoming(r)
      PROVE  SendsInTime'
  BY <1>12, WelcomingEffect DEF SendsInTime, Doing, HasRow, rows, mails
<1>13. ASSUME NEW r \in Requests, RemoveRow(r)
      PROVE  SendsInTime'
  BY <1>13, RemoveRowEffect DEF RemoveRow, SendsInTime, Doing, HasRow, Without, mails
<1>14. ASSUME NEW r \in Requests, Refused(r)
      PROVE  SendsInTime'
  BY <1>14, RefusedEffect DEF Refused, SendsInTime, Doing, HasRow, rows, mails, history
<1>15. ASSUME NEW r \in Requests, Dies(r)
      PROVE  SendsInTime'
  BY <1>15, DiesEffect DEF Dies, SendsInTime, Doing, HasRow, rows, mails
<1>16. ASSUME NEW mail \in links, LinkExpires(mail)
      PROVE  SendsInTime'
  BY <1>16 DEF LinkExpires, SendsInTime, Doing, HasRow, rows, history
<1>17. CASE Expire
  BY <1>17, ExpireRow DEF Expire, SendsInTime, Doing, HasRow, mails, history
<1>18. CASE Purge
  BY <1>18 DEF Purge, SendsInTime, Doing, HasRow, mails
<1>19. CASE UNCHANGED vars
  BY <1>19 DEF vars, SendsInTime, Doing, HasRow
<1>20. QED
  BY <1>1, <1>2, <1>3, <1>4, <1>5, <1>6, <1>7, <1>8, <1>9, <1>10, <1>11, <1>12, <1>13, <1>14, <1>15, <1>16, <1>17, <1>18, <1>19 DEF Next, Quiet, Welcoming

\* A link that has not expired is that of a code in time.
LEMMA LinksInTimeStep ==
    ASSUME TypeOK, SendsInTime, LinksInTime, [Next]_vars
    PROVE  LinksInTime'
<1>1. ASSUME NEW r \in Requests, Quiet(r)
      PROVE  LinksInTime'
  BY <1>1, QuietEffect DEF SendsInTime, LinksInTime, Doing, HasRow, rows, mails, history
<1>2. ASSUME NEW r \in Requests, Submit(r)
      PROVE  LinksInTime'
  BY <1>2, SubmitEffect, UpsertedType, RowsAreThere DEF Submit, SendsInTime, LinksInTime, Doing, HasRow, mails
<1>3. ASSUME NEW r \in Requests, Renew(r)
      PROVE  LinksInTime'
  BY <1>3, RenewEffect, RenewedType, RowsAreThere DEF Renew, SendsInTime, LinksInTime, Doing, HasRow, mails
<1>4. ASSUME NEW r \in Requests, MailArrives(r)
      PROVE  LinksInTime'
  BY <1>4, MailArrivesEffect DEF MailArrives, SendsInTime, LinksInTime, Doing, HasRow, rows
<1>5. ASSUME NEW r \in Requests, MailFails(r)
      PROVE  LinksInTime'
  BY <1>5, MailFailsEffect DEF MailFails, SendsInTime, LinksInTime, Doing, HasRow, Without, mails
<1>6. ASSUME NEW r \in Requests, TryWrongCode(r)
      PROVE  LinksInTime'
  BY <1>6, TryWrongCodeEffect DEF TryWrongCode, SendsInTime, LinksInTime, Doing, HasRow, BeginCode, rows, mails, history
<1>7. ASSUME NEW r \in Requests, CountTry(r)
      PROVE  LinksInTime'
  BY <1>7, CountTryEffect, CountTryRow DEF CountTry, SendsInTime, LinksInTime, Doing, HasRow, mails, history
<1>8. ASSUME NEW r \in Requests, ReadRow(r)
      PROVE  LinksInTime'
  BY <1>8, ReadRowEffect DEF ReadRow, SendsInTime, LinksInTime, Doing, HasRow, rows, mails, history
<1>9. ASSUME NEW r \in Requests, CheckUser(r)
      PROVE  LinksInTime'
  BY <1>9, CheckUserEffect DEF CheckUser, SendsInTime, LinksInTime, Doing, HasRow, rows, mails, history
<1>10. ASSUME NEW r \in Requests, CreateUser(r)
      PROVE  LinksInTime'
  BY <1>10, CreateUserEffect DEF CreateUser, SendsInTime, LinksInTime, Doing, HasRow, mails, history
<1>11. ASSUME NEW r \in Requests, ClearRow(r)
      PROVE  LinksInTime'
  BY <1>11, ClearRowEffect DEF ClearRow, SendsInTime, LinksInTime, Doing, HasRow, mails, history
<1>12. ASSUME NEW r \in Requests, Welcoming(r)
      PROVE  LinksInTime'
  BY <1>12, WelcomingEffect DEF SendsInTime, LinksInTime, Doing, HasRow, rows, mails
<1>13. ASSUME NEW r \in Requests, RemoveRow(r)
      PROVE  LinksInTime'
  BY <1>13, RemoveRowEffect DEF RemoveRow, SendsInTime, LinksInTime, Doing, HasRow, Without, mails
<1>14. ASSUME NEW r \in Requests, Refused(r)
      PROVE  LinksInTime'
  BY <1>14, RefusedEffect DEF Refused, SendsInTime, LinksInTime, Doing, HasRow, rows, mails, history
<1>15. ASSUME NEW r \in Requests, Dies(r)
      PROVE  LinksInTime'
  BY <1>15, DiesEffect DEF Dies, SendsInTime, LinksInTime, Doing, HasRow, rows, mails
<1>16. ASSUME NEW mail \in links, LinkExpires(mail)
      PROVE  LinksInTime'
  BY <1>16 DEF LinkExpires, SendsInTime, LinksInTime, Doing, HasRow, rows, history
<1>17. CASE Expire
  BY <1>17, ExpireRow DEF Expire, SendsInTime, LinksInTime, Doing, HasRow, mails, history
<1>18. CASE Purge
  BY <1>18 DEF Purge, SendsInTime, LinksInTime, Doing, HasRow, mails
<1>19. CASE UNCHANGED vars
  BY <1>19 DEF vars, SendsInTime, LinksInTime, Doing, HasRow
<1>20. QED
  BY <1>1, <1>2, <1>3, <1>4, <1>5, <1>6, <1>7, <1>8, <1>9, <1>10, <1>11, <1>12, <1>13, <1>14, <1>15, <1>16, <1>17, <1>18, <1>19 DEF Next, Quiet, Welcoming

\* Two mails on their way spoil each other.
LEMMA OneSendingStep ==
    ASSUME TypeOK, OneSending, [Next]_vars
    PROVE  OneSending'
<1>1. ASSUME NEW r \in Requests, Quiet(r)
      PROVE  OneSending'
  BY <1>1, QuietEffect DEF OneSending, Mailing, Doing, HasRow, rows, mails, history
<1>2. ASSUME NEW r \in Requests, Submit(r)
      PROVE  OneSending'
  <2>1. /\ spoiled' = (spoiled \/ Mailing(r))
        /\ \A q \in Requests \ {r} : req'[q] = req[q]
    BY <1>2, SubmitEffect DEF Submit
  <2>2. QED
    BY ONLY <2>1, OneSending, r \in Requests DEF OneSending, Mailing, Doing
<1>3. ASSUME NEW r \in Requests, Renew(r)
      PROVE  OneSending'
  <2>1. /\ spoiled' = (spoiled \/ Mailing(r))
        /\ \A q \in Requests \ {r} : req'[q] = req[q]
    BY <1>3, RenewEffect DEF Renew
  <2>2. QED
    BY ONLY <2>1, OneSending, r \in Requests DEF OneSending, Mailing, Doing
<1>4. ASSUME NEW r \in Requests, MailArrives(r)
      PROVE  OneSending'
  BY <1>4, MailArrivesEffect DEF MailArrives, OneSending, Mailing, Doing, HasRow, rows
<1>5. ASSUME NEW r \in Requests, MailFails(r)
      PROVE  OneSending'
  BY <1>5, MailFailsEffect DEF MailFails, OneSending, Mailing, Doing, HasRow, Without, mails
<1>6. ASSUME NEW r \in Requests, TryWrongCode(r)
      PROVE  OneSending'
  BY <1>6, TryWrongCodeEffect DEF TryWrongCode, OneSending, Mailing, Doing, HasRow, BeginCode, rows, mails, history
<1>7. ASSUME NEW r \in Requests, CountTry(r)
      PROVE  OneSending'
  BY <1>7, CountTryEffect, CountTryRow DEF CountTry, OneSending, Mailing, Doing, HasRow, mails, history
<1>8. ASSUME NEW r \in Requests, ReadRow(r)
      PROVE  OneSending'
  BY <1>8, ReadRowEffect DEF ReadRow, OneSending, Mailing, Doing, HasRow, rows, mails, history
<1>9. ASSUME NEW r \in Requests, CheckUser(r)
      PROVE  OneSending'
  BY <1>9, CheckUserEffect DEF CheckUser, OneSending, Mailing, Doing, HasRow, rows, mails, history
<1>10. ASSUME NEW r \in Requests, CreateUser(r)
      PROVE  OneSending'
  BY <1>10, CreateUserEffect DEF CreateUser, OneSending, Mailing, Doing, HasRow, mails, history
<1>11. ASSUME NEW r \in Requests, ClearRow(r)
      PROVE  OneSending'
  BY <1>11, ClearRowEffect DEF ClearRow, OneSending, Mailing, Doing, HasRow, mails, history
<1>12. ASSUME NEW r \in Requests, Welcoming(r)
      PROVE  OneSending'
  BY <1>12, WelcomingEffect DEF OneSending, Mailing, Doing, HasRow, rows, mails
<1>13. ASSUME NEW r \in Requests, RemoveRow(r)
      PROVE  OneSending'
  BY <1>13, RemoveRowEffect DEF RemoveRow, OneSending, Mailing, Doing, HasRow, Without, mails
<1>14. ASSUME NEW r \in Requests, Refused(r)
      PROVE  OneSending'
  BY <1>14, RefusedEffect DEF Refused, OneSending, Mailing, Doing, HasRow, rows, mails, history
<1>15. ASSUME NEW r \in Requests, Dies(r)
      PROVE  OneSending'
  BY <1>15, DiesEffect DEF Dies, OneSending, Mailing, Doing, HasRow, rows, mails
<1>16. ASSUME NEW mail \in links, LinkExpires(mail)
      PROVE  OneSending'
  BY <1>16 DEF LinkExpires, OneSending, Mailing, Doing, HasRow, rows, history
<1>17. CASE Expire
  BY <1>17, ExpireRow DEF Expire, OneSending, Mailing, Doing, HasRow, mails, history
<1>18. CASE Purge
  BY <1>18 DEF Purge, OneSending, Mailing, Doing, HasRow, mails
<1>19. CASE UNCHANGED vars
  BY <1>19 DEF vars, OneSending, Mailing, Doing, HasRow
<1>20. QED
  BY <1>1, <1>2, <1>3, <1>4, <1>5, <1>6, <1>7, <1>8, <1>9, <1>10, <1>11, <1>12, <1>13, <1>14, <1>15, <1>16, <1>17, <1>18, <1>19 DEF Next, Quiet, Welcoming

\* The mail on its way stands for the row.
LEMMA SendsHoldStep ==
    ASSUME TypeOK, ClearingIsLast, SendsInTime, OneSending, SendsHold, [Next]_vars
    PROVE  SendsHold'
<1>1. ASSUME NEW r \in Requests, Quiet(r)
      PROVE  SendsHold'
  BY <1>1, QuietEffect DEF ClearingIsLast, SendsInTime, OneSending, SendsHold, Mailing, Doing, HasRow, rows, mails, history
<1>2. ASSUME NEW r \in Requests, Submit(r)
      PROVE  SendsHold'
  BY <1>2, SubmitEffect, UpsertedType, RowsAreThere DEF Submit, ClearingIsLast, SendsInTime, OneSending, SendsHold, Mailing, Doing, HasRow, mails
<1>3. ASSUME NEW r \in Requests, Renew(r)
      PROVE  SendsHold'
  BY <1>3, RenewEffect, RenewedType, RowsAreThere DEF Renew, ClearingIsLast, SendsInTime, OneSending, SendsHold, Mailing, Doing, HasRow, mails
<1>4. ASSUME NEW r \in Requests, MailArrives(r)
      PROVE  SendsHold'
  BY <1>4, MailArrivesEffect DEF MailArrives, ClearingIsLast, SendsInTime, OneSending, SendsHold, Mailing, Doing, HasRow, rows
<1>5. ASSUME NEW r \in Requests, MailFails(r)
      PROVE  SendsHold'
  BY <1>5, MailFailsEffect DEF MailFails, ClearingIsLast, SendsInTime, OneSending, SendsHold, Mailing, Doing, HasRow, Without, mails
<1>6. ASSUME NEW r \in Requests, TryWrongCode(r)
      PROVE  SendsHold'
  BY <1>6, TryWrongCodeEffect DEF TryWrongCode, ClearingIsLast, SendsInTime, OneSending, SendsHold, Mailing, Doing, HasRow, BeginCode, rows, mails, history
<1>7. ASSUME NEW r \in Requests, CountTry(r)
      PROVE  SendsHold'
  BY <1>7, CountTryEffect, CountTryRow DEF CountTry, ClearingIsLast, SendsInTime, OneSending, SendsHold, Mailing, Doing, HasRow, mails, history
<1>8. ASSUME NEW r \in Requests, ReadRow(r)
      PROVE  SendsHold'
  BY <1>8, ReadRowEffect DEF ReadRow, ClearingIsLast, SendsInTime, OneSending, SendsHold, Mailing, Doing, HasRow, rows, mails, history
<1>9. ASSUME NEW r \in Requests, CheckUser(r)
      PROVE  SendsHold'
  <2>1. /\ ~Doing(r, {"mailing"})' /\ \A q \in Requests \ {r} : req'[q] = req[q]
        /\ UNCHANGED <<pending, account, spoiled>>
    BY <1>9, CheckUserEffect DEF CheckUser, Doing, rows, history
  <2>2. QED
    BY ONLY <2>1, SendsHold DEF SendsHold, Doing, HasRow
<1>10. ASSUME NEW r \in Requests, CreateUser(r)
      PROVE  SendsHold'
  BY <1>10, CreateUserEffect DEF CreateUser, ClearingIsLast, SendsInTime, OneSending, SendsHold, Mailing, Doing, HasRow, mails, history
<1>11. ASSUME NEW r \in Requests, ClearRow(r)
      PROVE  SendsHold'
  BY <1>11, ClearRowEffect DEF ClearRow, ClearingIsLast, SendsInTime, OneSending, SendsHold, Mailing, Doing, HasRow, mails, history
<1>12. ASSUME NEW r \in Requests, Welcoming(r)
      PROVE  SendsHold'
  BY <1>12, WelcomingEffect DEF ClearingIsLast, SendsInTime, OneSending, SendsHold, Mailing, Doing, HasRow, rows, mails
<1>13. ASSUME NEW r \in Requests, RemoveRow(r)
      PROVE  SendsHold'
  BY <1>13, RemoveRowEffect DEF RemoveRow, ClearingIsLast, SendsInTime, OneSending, SendsHold, Mailing, Doing, HasRow, Without, mails
<1>14. ASSUME NEW r \in Requests, Refused(r)
      PROVE  SendsHold'
  BY <1>14, RefusedEffect DEF Refused, ClearingIsLast, SendsInTime, OneSending, SendsHold, Mailing, Doing, HasRow, rows, mails, history
<1>15. ASSUME NEW r \in Requests, Dies(r)
      PROVE  SendsHold'
  BY <1>15, DiesEffect DEF Dies, ClearingIsLast, SendsInTime, OneSending, SendsHold, Mailing, Doing, HasRow, rows, mails
<1>16. ASSUME NEW mail \in links, LinkExpires(mail)
      PROVE  SendsHold'
  BY <1>16 DEF LinkExpires, ClearingIsLast, SendsInTime, OneSending, SendsHold, Mailing, Doing, HasRow, rows, history
<1>17. CASE Expire
  BY <1>17, ExpireRow DEF Expire, ClearingIsLast, SendsInTime, OneSending, SendsHold, Mailing, Doing, HasRow, mails, history
<1>18. CASE Purge
  BY <1>18 DEF Purge, ClearingIsLast, SendsInTime, OneSending, SendsHold, Mailing, Doing, HasRow, mails
<1>19. CASE UNCHANGED vars
  BY <1>19 DEF vars, ClearingIsLast, SendsInTime, OneSending, SendsHold, Mailing, Doing, HasRow
<1>20. QED
  BY <1>1, <1>2, <1>3, <1>4, <1>5, <1>6, <1>7, <1>8, <1>9, <1>10, <1>11, <1>12, <1>13, <1>14, <1>15, <1>16, <1>17, <1>18, <1>19 DEF Next, Quiet, Welcoming

\* The last mail stands for the row, unless a newer is on its way.
LEMMA LastMailStep ==
    ASSUME TypeOK, ClearingIsLast, LinksInTime, SendsHold, LastMailWorks, [Next]_vars
    PROVE  LastMailWorks'
<1>1. ASSUME NEW r \in Requests, Quiet(r)
      PROVE  LastMailWorks'
  BY <1>1, QuietEffect DEF ClearingIsLast, LinksInTime, SendsHold, LastMailWorks, Mailing, Doing, HasRow, rows, mails, history
<1>2. ASSUME NEW r \in Requests, Submit(r)
      PROVE  LastMailWorks'
  BY <1>2, SubmitEffect, UpsertedType, RowsAreThere DEF Submit, ClearingIsLast, LinksInTime, SendsHold, LastMailWorks, Mailing, Doing, HasRow, mails
<1>3. ASSUME NEW r \in Requests, Renew(r)
      PROVE  LastMailWorks'
  BY <1>3, RenewEffect, RenewedType, RowsAreThere DEF Renew, ClearingIsLast, LinksInTime, SendsHold, LastMailWorks, Mailing, Doing, HasRow, mails
<1>4. ASSUME NEW r \in Requests, MailArrives(r)
      PROVE  LastMailWorks'
  BY <1>4, MailArrivesEffect DEF MailArrives, ClearingIsLast, LinksInTime, SendsHold, LastMailWorks, Mailing, Doing, HasRow, rows
<1>5. ASSUME NEW r \in Requests, MailFails(r)
      PROVE  LastMailWorks'
  BY <1>5, MailFailsEffect DEF MailFails, ClearingIsLast, LinksInTime, SendsHold, LastMailWorks, Mailing, Doing, HasRow, Without, mails
<1>6. ASSUME NEW r \in Requests, TryWrongCode(r)
      PROVE  LastMailWorks'
  BY <1>6, TryWrongCodeEffect DEF TryWrongCode, ClearingIsLast, LinksInTime, SendsHold, LastMailWorks, Mailing, Doing, HasRow, BeginCode, rows, mails, history
<1>7. ASSUME NEW r \in Requests, CountTry(r)
      PROVE  LastMailWorks'
  BY <1>7, CountTryEffect, CountTryRow DEF CountTry, ClearingIsLast, LinksInTime, SendsHold, LastMailWorks, Mailing, Doing, HasRow, mails, history
<1>8. ASSUME NEW r \in Requests, ReadRow(r)
      PROVE  LastMailWorks'
  BY <1>8, ReadRowEffect DEF ReadRow, ClearingIsLast, LinksInTime, SendsHold, LastMailWorks, Mailing, Doing, HasRow, rows, mails, history
<1>9. ASSUME NEW r \in Requests, CheckUser(r)
      PROVE  LastMailWorks'
  BY <1>9, CheckUserEffect DEF CheckUser, ClearingIsLast, LinksInTime, SendsHold, LastMailWorks, Mailing, Doing, HasRow, rows, mails, history
<1>10. ASSUME NEW r \in Requests, CreateUser(r)
      PROVE  LastMailWorks'
  BY <1>10, CreateUserEffect DEF CreateUser, ClearingIsLast, LinksInTime, SendsHold, LastMailWorks, Mailing, Doing, HasRow, mails, history
<1>11. ASSUME NEW r \in Requests, ClearRow(r)
      PROVE  LastMailWorks'
  BY <1>11, ClearRowEffect DEF ClearRow, ClearingIsLast, LinksInTime, SendsHold, LastMailWorks, Mailing, Doing, HasRow, mails, history
<1>12. ASSUME NEW r \in Requests, Welcoming(r)
      PROVE  LastMailWorks'
  BY <1>12, WelcomingEffect DEF ClearingIsLast, LinksInTime, SendsHold, LastMailWorks, Mailing, Doing, HasRow, rows, mails
<1>13. ASSUME NEW r \in Requests, RemoveRow(r)
      PROVE  LastMailWorks'
  BY <1>13, RemoveRowEffect DEF RemoveRow, ClearingIsLast, LinksInTime, SendsHold, LastMailWorks, Mailing, Doing, HasRow, Without, mails
<1>14. ASSUME NEW r \in Requests, Refused(r)
      PROVE  LastMailWorks'
  BY <1>14, RefusedEffect DEF Refused, ClearingIsLast, LinksInTime, SendsHold, LastMailWorks, Mailing, Doing, HasRow, rows, mails, history
<1>15. ASSUME NEW r \in Requests, Dies(r)
      PROVE  LastMailWorks'
  BY <1>15, DiesEffect DEF Dies, ClearingIsLast, LinksInTime, SendsHold, LastMailWorks, Mailing, Doing, HasRow, rows, mails
<1>16. ASSUME NEW mail \in links, LinkExpires(mail)
      PROVE  LastMailWorks'
  BY <1>16 DEF LinkExpires, ClearingIsLast, LinksInTime, SendsHold, LastMailWorks, Mailing, Doing, HasRow, rows, history
<1>17. CASE Expire
  BY <1>17, ExpireRow DEF Expire, ClearingIsLast, LinksInTime, SendsHold, LastMailWorks, Mailing, Doing, HasRow, mails, history
<1>18. CASE Purge
  BY <1>18 DEF Purge, ClearingIsLast, LinksInTime, SendsHold, LastMailWorks, Mailing, Doing, HasRow, mails
<1>19. CASE UNCHANGED vars
  BY <1>19 DEF vars, ClearingIsLast, LinksInTime, SendsHold, LastMailWorks, Mailing, Doing, HasRow
<1>20. QED
  BY <1>1, <1>2, <1>3, <1>4, <1>5, <1>6, <1>7, <1>8, <1>9, <1>10, <1>11, <1>12, <1>13, <1>14, <1>15, <1>16, <1>17, <1>18, <1>19 DEF Next, Quiet, Welcoming

-----------------------------------------------------------------------------
(* The tries *)

LEMMA CountingFinite ==
    /\ IsFiniteSet(Counting) /\ Cardinality(Counting) \in Nat
    /\ Cardinality(Requests) \in Nat /\ Cardinality(Counting) <= Cardinality(Requests)
BY RequestsAssumption, FS_Subset, FS_CardinalityType DEF Counting

\* With no more tries about to be counted, the sum does not grow.
LEMMA FewerCounting ==
    ASSUME TypeOK, TriesAccounted, Counting' \subseteq Counting,
           pending' # None => pending # None /\ pending'.attempts = pending.attempts
    PROVE  TriesAccounted'
<1>1. Cardinality(Counting') \in Nat /\ Cardinality(Counting') <= Cardinality(Counting)
  BY CountingFinite, FS_Subset, FS_CardinalityType
<1>2. CASE pending' = None
  BY <1>2 DEF TriesAccounted
<1>3. CASE pending' # None
  BY <1>1, <1>3, CountingFinite, RowTypes, BoundAssumption DEF TriesAccounted
<1>4. QED
  BY <1>2, <1>3

\* A code renewed by a request that is not counting.
LEMMA NoTryCounted ==
    ASSUME TypeOK, NEW r \in Requests, r \notin Counting',
           pending' # None => pending'.attempts = 0
    PROVE  TriesAccounted'
<1>1. /\ Counting' \subseteq Requests \ {r}
      /\ IsFiniteSet(Requests \ {r})
      /\ Cardinality(Requests \ {r}) = Cardinality(Requests) - 1
  BY RequestsAssumption, FS_RemoveElement DEF Counting
<1>2. Cardinality(Counting') \in Nat /\ Cardinality(Counting') <= Cardinality(Requests) - 1
  BY <1>1, FS_Subset, FS_CardinalityType
<1>3. QED
  BY <1>2, CountingFinite, BoundAssumption DEF TriesAccounted

\* The tries counted and about to be counted stay below the bound.
LEMMA TriesStep ==
    ASSUME TypeOK, TriesAccounted, [Next]_vars
    PROVE  TriesAccounted'
<1>1. ASSUME NEW r \in Requests, Quiet(r)
      PROVE  TriesAccounted'
  <2>1. Counting' \subseteq Counting /\ pending' = pending
    BY <1>1, QuietEffect DEF Counting, Doing, rows
  <2>2. QED
    BY <2>1, FewerCounting
<1>2. ASSUME NEW r \in Requests, Submit(r)
      PROVE  TriesAccounted'
  <2>1. r \notin Counting'
    BY <1>2, SubmitEffect DEF Counting, Doing
  <2>2. pending'.attempts = 0
    BY <1>2, UpsertedType DEF Submit, HasRow
  <2>3. QED
    BY <2>1, <2>2, NoTryCounted
<1>3. ASSUME NEW r \in Requests, Renew(r)
      PROVE  TriesAccounted'
  <2>1. r \notin Counting'
    BY <1>3, RenewEffect DEF Counting, Doing
  <2>2. pending'.attempts = 0
    BY <1>3, RenewedType DEF Renew, HasRow
  <2>3. QED
    BY <2>1, <2>2, NoTryCounted
<1>4. ASSUME NEW r \in Requests, MailArrives(r)
      PROVE  TriesAccounted'
  <2>1. Counting' \subseteq Counting
    BY <1>4, MailArrivesEffect DEF MailArrives, Counting, Doing, history
  <2>2. pending' # None => pending # None /\ pending'.attempts = pending.attempts
    BY <1>4 DEF MailArrives, rows
  <2>3. QED
    BY <2>1, <2>2, FewerCounting
<1>5. ASSUME NEW r \in Requests, MailFails(r)
      PROVE  TriesAccounted'
  <2>1. Counting' \subseteq Counting
    BY <1>5, MailFailsEffect DEF MailFails, Counting, Doing, history
  <2>2. pending' # None => pending # None /\ pending'.attempts = pending.attempts
    BY <1>5 DEF MailFails, rows, Without
  <2>3. QED
    BY <2>1, <2>2, FewerCounting
<1>6. ASSUME NEW r \in Requests, TryWrongCode(r)
      PROVE  TriesAccounted'
  <2>1. Counting' \subseteq Requests /\ pending' = pending
    BY <1>6, TryWrongCodeEffect DEF TryWrongCode, Counting, rows
  <2>2. Cardinality(Counting') \in Nat /\ Cardinality(Counting') <= Cardinality(Requests)
    BY <2>1, RequestsAssumption, FS_Subset, FS_CardinalityType
  <2>3. pending.attempts \in Nat /\ pending.attempts < MaxAttempts
    BY <1>6, RowTypes DEF TryWrongCode, BeginCode, TriesLeft
  <2>4. QED
    BY <2>1, <2>2, <2>3, CountingFinite, BoundAssumption DEF TriesAccounted
<1>7. ASSUME NEW r \in Requests, CountTry(r)
      PROVE  TriesAccounted'
  <2>1. Counting' = Counting \ {r} /\ r \in Counting
    BY <1>7, CountTryEffect DEF CountTry, Counting, Doing
  <2>2. Cardinality(Counting') = Cardinality(Counting) - 1
    BY <2>1, CountingFinite, FS_RemoveElement
  <2>3. pending # None /\ pending.attempts \in Nat /\ pending'.attempts = pending.attempts + 1
    BY <1>7, CountTryRow, RowTypes
  <2>4. QED
    BY <2>2, <2>3, CountingFinite, BoundAssumption DEF TriesAccounted
<1>8. ASSUME NEW r \in Requests, ReadRow(r)
      PROVE  TriesAccounted'
  <2>1. Counting' \subseteq Counting
    BY <1>8, ReadRowEffect DEF ReadRow, Counting, Doing, history
  <2>2. pending' # None => pending # None /\ pending'.attempts = pending.attempts
    BY <1>8 DEF ReadRow, rows
  <2>3. QED
    BY <2>1, <2>2, FewerCounting
<1>9. ASSUME NEW r \in Requests, CheckUser(r)
      PROVE  TriesAccounted'
  <2>1. Counting' \subseteq Counting
    BY <1>9, CheckUserEffect DEF CheckUser, Counting, Doing, history
  <2>2. pending' # None => pending # None /\ pending'.attempts = pending.attempts
    BY <1>9 DEF CheckUser, rows
  <2>3. QED
    BY <2>1, <2>2, FewerCounting
<1>10. ASSUME NEW r \in Requests, CreateUser(r)
      PROVE  TriesAccounted'
  <2>1. Counting' \subseteq Counting
    BY <1>10, CreateUserEffect DEF CreateUser, Counting, Doing, history
  <2>2. pending' # None => pending # None /\ pending'.attempts = pending.attempts
    BY <1>10 DEF CreateUser, rows
  <2>3. QED
    BY <2>1, <2>2, FewerCounting
<1>11. ASSUME NEW r \in Requests, ClearRow(r)
      PROVE  TriesAccounted'
  <2>1. Counting' \subseteq Counting
    BY <1>11, ClearRowEffect DEF ClearRow, Counting, Doing, history
  <2>2. pending' # None => pending # None /\ pending'.attempts = pending.attempts
    BY <1>11 DEF ClearRow, rows
  <2>3. QED
    BY <2>1, <2>2, FewerCounting
<1>12. ASSUME NEW r \in Requests, Welcoming(r)
      PROVE  TriesAccounted'
  <2>1. Counting' \subseteq Counting /\ pending' = pending
    BY <1>12, WelcomingEffect DEF Counting, Doing, rows
  <2>2. QED
    BY <2>1, FewerCounting
<1>13. ASSUME NEW r \in Requests, RemoveRow(r)
      PROVE  TriesAccounted'
  <2>1. Counting' \subseteq Counting
    BY <1>13, RemoveRowEffect DEF RemoveRow, Counting, Doing, history
  <2>2. pending' # None => pending # None /\ pending'.attempts = pending.attempts
    BY <1>13 DEF RemoveRow, rows, Without
  <2>3. QED
    BY <2>1, <2>2, FewerCounting
<1>14. ASSUME NEW r \in Requests, Refused(r)
      PROVE  TriesAccounted'
  <2>1. Counting' \subseteq Counting
    BY <1>14, RefusedEffect DEF Refused, Counting, Doing, history
  <2>2. pending' # None => pending # None /\ pending'.attempts = pending.attempts
    BY <1>14 DEF Refused, rows
  <2>3. QED
    BY <2>1, <2>2, FewerCounting
<1>15. ASSUME NEW r \in Requests, Dies(r)
      PROVE  TriesAccounted'
  <2>1. Counting' \subseteq Counting
    BY <1>15, DiesEffect DEF Dies, Counting, Doing, history
  <2>2. pending' # None => pending # None /\ pending'.attempts = pending.attempts
    BY <1>15 DEF Dies, rows
  <2>3. QED
    BY <2>1, <2>2, FewerCounting
<1>16. ASSUME NEW mail \in links, LinkExpires(mail)
      PROVE  TriesAccounted'
  <2>1. Counting' \subseteq Counting
    BY <1>16 DEF LinkExpires, Counting, Doing, history
  <2>2. pending' # None => pending # None /\ pending'.attempts = pending.attempts
    BY <1>16 DEF LinkExpires, rows
  <2>3. QED
    BY <2>1, <2>2, FewerCounting
<1>17. CASE Expire
  <2>1. Counting' \subseteq Counting
    BY <1>17, ExpireRow DEF Expire, Counting, Doing, history
  <2>2. pending' # None => pending # None /\ pending'.attempts = pending.attempts
    BY <1>17, ExpireRow DEF Expire, rows
  <2>3. QED
    BY <2>1, <2>2, FewerCounting
<1>18. CASE Purge
  <2>1. Counting' \subseteq Counting
    BY <1>18 DEF Purge, Counting, Doing, history
  <2>2. pending' # None => pending # None /\ pending'.attempts = pending.attempts
    BY <1>18 DEF Purge, rows
  <2>3. QED
    BY <2>1, <2>2, FewerCounting
<1>19. CASE UNCHANGED vars
  <2>1. Counting' \subseteq Counting /\ pending' = pending
    BY <1>19 DEF vars, Counting, Doing
  <2>2. QED
    BY <2>1, FewerCounting
<1>20. QED
  BY <1>1, <1>2, <1>3, <1>4, <1>5, <1>6, <1>7, <1>8, <1>9, <1>10, <1>11, <1>12, <1>13, <1>14, <1>15, <1>16, <1>17, <1>18, <1>19 DEF Next, Quiet, Welcoming

-----------------------------------------------------------------------------
(* The theorems *)

LEMMA InvInit == Init => IInv
<1> SUFFICES ASSUME Init PROVE IInv
  OBVIOUS
<1>1. \A r \in Requests : req[r].pc = "idle" /\ req[r] \in Request
  BY DEF Init, Idle, Request, Steps
<1>2. TypeOK
  BY <1>1 DEF Init, TypeOK, Welcomes
<1>3. RowIsLast /\ CompletionsHold /\ ClearingIsLast /\ AccountIsLastSubmission /\ RowBesideAccount
  BY <1>1 DEF Init, RowIsLast, CompletionsHold, Reads, Holds, ClearingIsLast, Doing,
     AccountIsLastSubmission, RowBesideAccount
<1>4. RowsKept /\ OneClearing /\ CompletionSignsIn
  BY <1>1 DEF Init, RowsKept, OneClearing, CompletionSignsIn, Doing
<1>5. SendsInTime /\ LinksInTime /\ OneSending /\ SendsHold /\ LastMailWorks /\ TriesAccounted
  BY <1>1 DEF Init, SendsInTime, LinksInTime, OneSending, SendsHold, LastMailWorks, TriesAccounted, Doing
<1>6. QED
  BY <1>2, <1>3, <1>4, <1>5 DEF IInv

LEMMA InvStep == IInv /\ [Next]_vars => IInv'
<1> SUFFICES ASSUME IInv, [Next]_vars PROVE IInv'
  OBVIOUS
<1>1. TypeOK' /\ RowIsLast' /\ CompletionsHold' /\ ClearingIsLast'
  BY TypeStep, RowIsLastStep, CompletionsStep, ClearingStep DEF IInv
<1>2. AccountIsLastSubmission' /\ RowBesideAccount'
  BY AccountStep, RowBesideStep DEF IInv
<1>3. SendsInTime' /\ LinksInTime' /\ OneSending' /\ SendsHold' /\ LastMailWorks'
  BY SendsInTimeStep, LinksInTimeStep, OneSendingStep, SendsHoldStep, LastMailStep DEF IInv
<1>4. RowsKept' /\ OneClearing' /\ CompletionSignsIn'
  BY RowsKeptStep, OneClearingStep, SignsInStep DEF IInv
<1>5. TriesAccounted'
  BY TriesStep DEF IInv
<1>6. QED
  BY <1>1, <1>2, <1>3, <1>4, <1>5 DEF IInv

\* What each completion and each mail under way stands for, and what is known
\* of the row: the inductive invariant holds at every moment.
THEOREM RegistrationInductive == Spec => []IInv
BY InvInit, InvStep, PTL DEF Spec

\* The row, the account, the mails and the requests keep their types.
THEOREM RegistrationTypes == Spec => []TypeOK
<1>1. IInv => TypeOK
  BY DEF IInv
<1>2. QED
  BY <1>1, RegistrationInductive, PTL

\* A row beside the account is about to be deleted, was crossed by a
\* submission, or its completion died (completeEmailVerification).
THEOREM RowHasACause == Spec => []RowBesideAccount
<1>1. IInv => RowBesideAccount
  BY DEF IInv
<1>2. QED
  BY <1>1, RegistrationInductive, PTL

\* Whichever mail is used, the account is made from the last submission that
\* did not cross its completion (register, completeEmailVerification).
THEOREM LastSubmissionWins == Spec => []AccountIsLastSubmission
<1>1. IInv => AccountIsLastSubmission
  BY DEF IInv
<1>2. QED
  BY <1>1, RegistrationInductive, PTL

\* The tries of a code stay below the limit and the number of requests, for
\* any of both (verifyEmailByCode).
THEOREM TriesStayBounded == Spec => []TriesBounded
<1>1. IInv => TriesBounded
  <2> SUFFICES ASSUME IInv, pending # None
               PROVE  pending.attempts < MaxAttempts + Cardinality(Requests)
    BY DEF TriesBounded
  <2>1. pending.attempts \in Nat
    BY RowTypes DEF IInv
  <2>2. QED
    BY <2>1, CountingFinite, BoundAssumption DEF IInv, TriesAccounted
<1>2. QED
  BY <1>1, RegistrationInductive, PTL

\* Who creates the account is signed in and announced, unless its completion
\* died or somebody else deleted the row under it (completeEmailVerification).
THEOREM CreatorSignsIn == Spec => []CompletionSignsIn
<1>1. IInv => CompletionSignsIn
  BY DEF IInv
<1>2. QED
  BY <1>1, RegistrationInductive, PTL

\* The last mail works until it expires, unless a newer is on its way or one
\* of the four accidents happened (sendVerificationEmail).
THEOREM LastMailGood == Spec => []LastMailWorks
<1>1. IInv => LastMailWorks
  BY DEF IInv
<1>2. QED
  BY <1>1, RegistrationInductive, PTL
=============================================================================
