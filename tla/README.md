# Verification of the GET platform

GET is a platform for higher-education admissions in Madagascar: candidates
apply to the offers of schools, schools decide, accepted candidates pay, and
paying makes them students with courses and a timetable. This directory holds
TLA+ models of its backend (`src/backend`), the TLC runs that check them and
the proofs checked by TLAPS.

Paths below are relative to `src/backend/src/modules/` unless they start with
`src/`.

## 1. Inventory

The backend is a NestJS server over PostgreSQL through Prisma. Several server
processes and many requests run at once; **all shared state is in the
database**, and requests meet only there. A request is a sequence of awaited
statements; between any two of them any other request may run. A
`prisma.$transaction` runs at PostgreSQL's default level, Read Committed, except
in two places, `initiatePayment` and the `updateStatus` of an offer with a
capacity, which ask for Serializable. Two outside actors call in: the payment
provider (webhooks) and n8n (scheduled workflows). There is no job or timer
inside the backend: whatever must happen later happens because somebody calls.

| Component | State it keeps | Operations | What is hard | What makes it correct |
|---|---|---|---|---|
| **payment** (`payment/`) | `Payment`, `Transaction`, `Refund`; writes `Application.status`, `StudentEnrollment` | `initiatePayment`, `handleWebhook` / `handleStripeWebhook` → `reconcilePayment`, `processRefund` | webhooks repeated, late, out of order; overlapping transactions; provider calls that fail or crash half-way; attempts that expire here and are paid there | one attempt in progress, no lost or invented payment, one settlement and at most one refund asked for per payment, a trace of all money |
| **application** (`application/`) | `Application.status`, its timeline, attachments | `submitApplications`, `updateStatus`, `scheduleTest`, `scheduleInterview`, `recordScore`, waitlist promotion | check of the transition long before the write; capacity counted while others accept; promotion of somebody else's application | capacity, final states, acceptance only from statuses that allow it, an enrollment attempt for each acceptance |
| **auth** (`auth/`, the client `src/frontend/lib/api-client.ts`) | `User`, `RefreshSession`, `PendingRegistration`, the cookies of each browser | register, verify e-mail, login, MFA, refresh, revoke, log out, forgot, reset and change password, suspend (`user/`) | a token presented by two tabs at once, answers lost or late, revocation against refresh, steps without a transaction | a token that is over stays over, one successor per token, no session outlives its password, nobody is signed out without a cause |
| **school: enrollment** (`school/school.service.ts`) | programs, academic years, `StudentEnrollment`, `CourseEnrollment`, courses | `enrollStudent`, `updateEnrollment`, `bulkEnroll`, `syncCourseEnrollments`, `createAcademicYear`, `createCourse`, ... | synchronisation of two tables changed from both sides, the single current year | an active student follows exactly the courses of his program and level; one current year |
| **school: scheduling** (`school/scheduling.service.ts`, `schedule-generation.service.ts`), **teacher-availability** | rooms, slots, classes, requirements, `CourseSlot`, unavailabilities, travel buffers | slot create/update/delete, generation of a week, declaration of unavailability | check-then-write on rooms; the database excludes only double-booked teachers | no teacher, room or class in two places at once |
| **academic-year** | the platform's years | create, update, delete | two updates without a transaction | one current year |
| **integration** + n8n workflows | `reminderSentAt` marks | list, send reminder, weekly report | send then mark | a reminder at most once, and in the end |
| **notification** | preferences, in-app notifications | send, batch, mark as read | best effort, channels that fail | failure of a channel never fails the caller |
| **offer** | offers | create, update, delete, open/close | capacity lowered under seats taken | — (inputs of the others) |
| student, teaching, message, announcement, ministry, audit, user, admin-dashboard | rows of their own | edits and listings | little: one writer each, append-only, or one transaction | access rights, formatting |
| landing, competition, fee-bracket, financial-partner, platform-city, system-settings | reference data | create, read, update, delete | none found | — |
| storage, encryption, HTTP plumbing, frontend | files, none | input and output | — | — |

How they interact. `application` and `payment` both write
`Application.status` and both upsert `StudentEnrollment`, then call
`SchoolService.syncCourseEnrollments` in their own transaction. `payment` reads
an application before and inside its transactions while `application` may be
deciding on it. `school` defines the program and the current year that decide
whether an automatic enrollment succeeds. `notification` and `audit` are called
after commit and never change the outcome. `teacher-availability` is asked by
the scheduling of `school`.

What is hard to test in this code is listed, at its line, under `hazards` in
`PROJECT.json`.

## 2. Plan

In the order of importance for the people concerned: money first, then seats and
timetables, then accounts, then the school year.

1. `Payments`, with `PaymentSettlement` as its abstract specification. *Done:
   modelled, checked, proved.*
2. `Admission`. *Done: modelled, checked, proved.*
3. `Timetable`: courses, their slots, rooms and teachers. *Done: modelled,
   checked, proved.*
4. `Sessions`, with `SessionPromise` as its abstract specification. *Done:
   modelled, checked, proved.* `Registration`: an account from an e-mail address.
   *Done: modelled, checked, proved.* Left: the verification of the MFA code, the lock-out
   counter.
5. `Enrollment` with the school's academic years. *Done: modelled, checked,
   proved.* Left: the label `enrolledYear` and its refreshes.
6. `Generation`: the generation of a week, statement by statement, two at once.
   *Done: modelled, checked, proved.* Left: the filters of a generation.
7. `Reminders`: n8n and integration, at-least-once delivery. *Not written.*
8. A composition of `Admission` and `Payments` over the application they share.
   *Not written*: `Payments` has the decisions that matter to it as
   `CancelApplication` and `EnrollByHand`.

## 3. What is modelled

### Payments (`Payments.tla`, `PaymentSettlement.tla`)

Processes: `Requests` are calls of `initiatePayment`, `Deliveries` are webhook
deliveries. An idle slot takes any new call, so their number bounds only how
many run at once. The database rows are the variables `appStatus`, `enrolled`,
`pay`, `hasRef` (providerRef is stored), `overdue` (expiresAt is past), `ledger`
(Transaction rows), `note` (what the timeline says) and `refund`; the provider's
own state is `session`, `refundCalls` (refunds it accepted) and `moneyBack` (how
far their money is).

| Code (`payment/payment.service.ts`) | Actions |
|---|---|
| `initiatePayment`, read of the application (48-72) | `BeginInitiate` |
| its Serializable transaction (80-144) | `CreatePayment`, `RefusePayment` |
| call of the provider and its outcome (146-179) | `StoreReference`, `ProviderFails`, `RequestDies` |
| expiry after 15 minutes (126) | `BecomeOverdue` |
| webhook, look-up, `confirmPayment` (204-311) | `Confirm`, `Decline` |
| `updateMany` that claims the payment (330-345) | `Claim`, `MarkFailed` |
| search for another completed payment (350-384) | `FindNoOther`, `FlagDuplicate` |
| eligibility, refund row, enrollment (385-537) | `MarkForRefund`, `LeaveUnplaced`, `PlanEnrollment`, `Enroll` |
| `processRefund` (566-588) | `RefundAtProvider`, `RefundRefused`, `RecordRefund` |
| crash, database error, exception anywhere | `DeliveryDies` |
| `updateStatus` of an accepted application | `CancelApplication`, `EnrollByHand` |
| the provider and the student (external) | `StudentPays`, `SessionExpires`, `RefundSettles` |

*Isolation.* The transaction of `initiatePayment` is Serializable and is one
step: with other Serializable transactions it is as if it ran alone, and the
only other writers of payments are single conditional updates of rows; where it
would update a row that an open reconciliation holds, it waits and then fails as
a conflict, which `CreatePayment`'s guard `~Locked` and `RefusePayment` express.
A reconciliation runs at Read Committed: each read is a step of its own that
sees what is committed then. Its first statement locks the payment row until
commit (`Locked`). Its last writes and its commit are one step because no one
sees them apart.

*Provider.* `FlakyProvider = FALSE` is Stripe: FAILED only for an expired
session. `TRUE` is the mock provider, which draws FAILED at random, so that
FAILED may come before and after COMPLETED. The mock keeps no sessions: its draw
of COMPLETED is `StudentPays` followed by `Confirm`.

*Refunds.* `refundPayment` takes Stripe's `pending` for success as well as
`succeeded` (`stripe-payment.provider.ts:135`), and `processRefund` stores
COMPLETED for both. `RefundAtProvider` therefore accepts a refund whose money is
back or pending, and `RefundSettles` decides a pending one later, with nobody
here to hear of it: `RefundedOnce` says that COMPLETED means accepted, not paid
back. Its answer for a session without a payment intent (line 124) cannot come,
since only paid sessions are refunded.

*Timing.* A provider call ends within the 15 minutes a payment lives
(`BecomeOverdue` waits for it). The SDK gives up much earlier; without this
assumption a provider answer could reach a payment already EXPIRED and set it
PROCESSING beside a newer one.

*Left out.* Amounts and currencies (one fee per offer, compared for equality
before anything is done), signatures (a delivery that fails its check does
nothing), and the courses that `syncCourseEnrollments` adds.

`PaymentSettlement` says what reconciliation promises without transactions,
locks or sessions: each payment is settled at most once, in one of four ways;
exactly the payments settled as `cancelled` owe a refund, closed at most once.
`RefinesSettlement` maps `settled` to `note` and `owed` to `refund`.

### Admission (`Admission.tla`)

One offer; `status` is `Application.status`, `attempted` the applications whose
timeline tells of an automatic enrollment, done or impossible; `req` holds, for
each decision under way, what it read (`prev`), what it wants (`to`), whom it
will promote (`next`) and whether it has lost the race (`beaten`).

| Code (`application/application.service.ts`) | Definitions |
|---|---|
| `APPLICATION_STATUS_TRANSITIONS` (dto, 35-99), `assertValidTransition` | `Transitions`, `ValidTransition` |
| `submitApplications` (74-140) | `Submit` |
| read and check, of `updateStatus` and of the three direct routes | `ReadApplication` |
| `freesASeat`, `touchesCapacity` (477-491) | `FreesASeat`, `Serializable` |
| capacity check (510-528), choice of the candidate to promote (720-728) | `RoomLeft`, `Promotable`, in `BeginDecision` |
| commit of status, enrollment attempt, promotion (596-755) | `CommitDecision`, `Attempt` |
| transactions that read nothing, and the direct routes (765-937) | `Overwrite` |
| refusal, P2034, crash | `Abandon` |

*Isolation.* A Serializable transaction reads its snapshot at `BeginDecision`
and takes effect at `CommitDecision`. If another Serializable transaction has
committed since, or a row it updates has changed, it is `beaten` and may only
abandon. PostgreSQL sometimes lets such a transaction commit, namely when some
serial order explains both; that outcome is the behaviour in which the two run
one after the other, which the model has. Transactions at the default level are
not checked against what Serializable ones read, only against the rows they
update: the model lets them in between, and this is where the findings are.
Rows are locked from their first update to the end (`Locked`).

*Environment.* `OneAtATime = TRUE` says that no two decisions are under way on
one application at once (a school with one person on a file). Decisions on
different applications, and a promotion of an application on which a decision is
under way, interleave freely in both cases. Candidates submit in the order of
`Rank`; naming them so loses nothing.

*Left out.* Notifications and audit (after commit, best effort), scores and
reasons, several offers (they share nothing), and a capacity edited meanwhile.

### Timetable (`Timetable.tla`)

The courses of several schools and the weekly slots of each. `teacherOf` is
`Course.teacherId`; `slot` holds the `CourseSlot` rows, each with its own copy
of the teacher, because the database excludes overlapping rows of one teacher
(`no_teacher_double_booking`, over all schools); `req` holds, for each request,
what it has read and checked. Three histories, read by no guard, say what the
properties are allowed to blame: `unseen`, in each request, the rows of the school
written since it read them; `blind`, the rows written while another, or their own
former content, was unseen; `adrift`, the courses whose change of teacher stopped
half-way or crossed a request that had read the former teacher.

| Code (`school/school.service.ts`) | Definitions |
|---|---|
| `createCourseSlot` (1628-1652): course read, room checked, teacher checked, row written | `BeginCreate`, `CheckRoom`, `CheckTeacher`, `CreateSlot` |
| `updateCourseSlot` (1654-1689): course read, row read, the same checks with what the request does not give taken from the row, the fields given written | `BeginUpdate`, `ReadSlot`, `CheckRoom`, `CheckTeacher`, `UpdateSlot` |
| `assertSlotTimes` | `LastsLongEnough` |
| `deleteCourseSlot` (1691-1700) | `DeleteSlot` |
| `updateCourse` (1832-1915): course read, course written, slots written | `BeginUpdateCourse`, `UpdateCourse`, `MoveSlots` |
| the second write refused, or a crash before it | `LeaveSlots` |
| `ensureNoRoomConflict` (1973-1996), `isTeacherFree` | `RoomTaken` with `Overlap`, the guard of `CheckTeacher` |
| the constraints of the database | `Constraints`, with `RangesOverlap`, which every write must leave true |
| any refusal or crash before a write | `Refuse` |

*Interleaving.* No operation opens a transaction, so each statement is a step,
and any number of requests edit a school at once: nothing in the code keeps them
apart. The properties therefore say what the checks achieve all the same. A room
is shared only by sessions one of which was written without seeing the other
(`RoomsSharedUnseen`), the shown teacher is in two places only where a change of
teacher went wrong (`ShownTeacherIsFree`).

*What the model shows of the code.* An update checks the row it has read,
completed with the fields given, and writes only these (`UpdateSlot`). Two updates
at once, of the start and of the end, may so leave a session whose end is its
start, or (refused by the database) before it. An empty session overlaps nothing:
neither the constraint of the database nor the checks see it from then on.
`SessionsHaveLength` names this as the only way.

*Left out.* Unavailabilities and travel times (they only refuse, which `Refuse`
may always do), rooms and classes as tables, the notification of the teacher,
the other fields of a course.

### Sessions (`Sessions.tla`, `SessionPromise.tla`)

One user. `version`, `password`, `active` and `link` are columns of `User`
(`sessionVersion`, `password`, `isActive`, `resetTokenHash`); `rows` holds the
`currentJti` of his `RefreshSession` rows; `token` what each signed token says;
`jar` the refresh cookie of each device; `req` the requests under way, up to the
answer that sets the cookie. Passwords, versions and links are counted, so that
"the current one" can be told from a former one. `next`, `lost`, `swept`, `outlived`
and `redeemed` are history: no action reads them.

| Code (`auth/auth.service.ts` where nothing else is said) | Actions |
|---|---|
| `login` (373-417, 434-448): user read and password compared, then `issueTokens` (899-920) | `BeginLogin`, `OpenSession` |
| `login` with a second factor (418-432): a challenge; `completeMfaLogin` (460-506): user read again, then `issueTokens` | `Challenge`; `CompleteMfaLogin`, `OpenSession` |
| `refreshTokens` (521-608): user read, row rotated or not found | `BeginRefresh`, `Rotate`, `FindReuse` |
| `revokeSession` (621-629) after a reuse; by `logout` (`auth.controller.ts` 346-373) | `RevokeOnReuse`, `Logout` |
| `setSessionCookies` (`auth.controller.ts` 68-97) when the answer arrives | `Deliver` |
| time-out of 10 s of the client (`api-client.ts` 27-34), lost connection, crash after the write | `LoseAnswer` |
| `changePassword` (`student.service.ts` 853-870, `teaching.service.ts` 159-175) | `BeginChange`, `ChangePassword` |
| `forgotPassword` (642-704), expiry after an hour | `SendLink`, `ExpireLink` |
| `resetPassword` (720-757): link looked up, one conditional `updateMany`, clean-up | `BeginReset`, `Reset`, `Sweep` |
| `setActive` (`user.service.ts` 73-80) | `SetActive` |
| 401, error, crash before a write | `GiveUp` |

*What the model shows of the code.* A failed refresh does not clear the cookies.
A log-out revokes only while the browser still sends an access cookie (15
minutes), although its comment speaks of an expired one. The clean-up of a reset
deletes the rows of logins made since. A reuse ends the sessions of *all*
devices (as the comment at 570-576 says), while `schema.prisma:92-93` speaks of
the one chain; and a refresh whose answer is lost is followed by one.

With a second factor, the challenge names the user and carries neither his version
nor his password (424-427), and `completeMfaLogin` signs the version it reads when
the code comes: a former password, given just before a change or a reset, still
opens a session of the *new* version if the code follows within the five minutes of
the challenge. `TokensFollowPassword` excepts exactly these sessions (`outlived`);
TLC refutes it without the exception. The inventory of rules is older than the code
in two of its lines (`src/docs/expression-des-besoins/_inventaire/regles-gestion.md`):
GET-RG-015 (32) says that a reset link stays usable until it expires, whereas
`resetPassword` (733-745) clears it in the statement that changes the password and
`LinkWorksOnce` proves that it works once; GET-RG-013 (30) knows no `/auth/refresh`.

*Left out.* How the code of a second factor is verified, enabling and disabling it
(a user of either kind may log in either way), the lock-out counter, the seven days
a refresh token lives.

`SessionPromise` knows tokens only: unknown, live, over. `KeepsPromise` maps
`live` to the rows whose token is of the current version and `over` to the other
tokens issued: none of them lives again, each has one successor at most.

### Registration (`Registration.tla`)

One e-mail address. `pending` is its `PendingRegistration` row (unique by
address), `account` the submission its `User` was made from. A new code is a new
number, and a submission, or a row created by it, is called by the code generated
with it. `links` are the mails that arrived and whose link is still good,
`lastMail` the last to arrive. `req` holds the requests under way, each between
two statements, with the id it works on and what it has read. `welcome` is how
far the completion that deleted the row has got: the event, the session, or its
death before them. `crossed`, `withdrawn`, `cut` and `spoiled` are history, read by
no guard: what the
properties are allowed to blame.

| Code (`auth/auth.service.ts` where nothing else is said) | Actions |
|---|---|
| `register` (61-119): address free, password hashed; row upserted | `BeginRegister`; `Submit` |
| `resendVerification` (190-218): row read; code renewed | `BeginResend`; `Renew` |
| `sendVerificationEmail` (321-360): sent; failed, row deleted by its id | `MailArrives`; `MailFails` |
| `verifyEmailByCode` (153-183): row read, overdue, wrong or right; try counted | `FindOverdue`, `TryWrongCode`, `TryRightCode`; `CountTry` |
| `verifyEmailByToken` (132-143) | `FollowLink` |
| `completeEmailVerification` (228-297): row, user, account, row deleted, event, session | `ReadRow`, `CheckUser`, `CreateUser`, `ClearRow`, `Announce`, `SignIn` |
| its deletes of a row that has expired or whose address has an account (163, 239, 251) | `RemoveRow` |
| a read, update or delete that finds no row; the unique address | `Refused` |
| crash, error of the database | `Dies` |
| 24 hours; the script `2026-08-10-purge-expired-pending-registrations.ts` | `Expire`, `LinkExpires`; `Purge` |

*Interleaving.* Nothing here is a transaction: every statement is a step.

*Assumptions.* A sending reported as failed has not arrived, and one reported as
done has; a sending ends within the 24 hours its code lives; the link of a mail
expires with the code beside it. Where a provider breaks the first, a person may
hold a mail whose row is gone, which `MailFails` on a resent row shows as well.

*What the model shows of the code.* The comment at 225-226 says that a verified
address is announced and signed in, and 250 provides for a double click. A second
completion that comes between the two statements of the first finds the account
and deletes the row (251); the delete of the first (286) then throws, after the
account was created: both requests end in an error, nobody is signed in and
`student.created` is not announced. `CompletionSignsIn` excepts this
(`withdrawn`); without the exception TLC refutes it. The same is left by a
completion that dies after the row is gone, before the event (288) or the session
(290): the account is there, no request will sign its owner in, and he has to log
in himself (`welcome` = `stopped`). A sending that fails deletes
the row (353) that earlier mails, still "valable 24h" (346), stand for: these stop
working, which is one of the ways into `spoiled`.

*Left out.* What is submitted (names, password, the invitation), the rate limits,
the hash of the code, and the e-mail as such.

### Enrollment (`Enrollment.tla`)

One school. `enrolled` is `StudentEnrollment` without its year, `follows` the
`CourseEnrollment` rows, `course` and `duration` the courses and programs,
`current` the years with `isCurrent`. `req` holds what an operation under way has
read. Three histories say what the properties are allowed to blame: `crossed`
(students on whom two operations ran at once, or one died half-way), `changed`
(students whose program and level got other courses since they were aligned) and
`switched` (two switches of the current year at once); an operation that runs
alone (`clean`) takes its student, or the switch, out again. No guard reads them.

| Code (`school/school.service.ts` where nothing else is said) | Actions |
|---|---|
| `enrollStudent` (775-851), `bulkEnrollStudents` row by row | `BeginEnroll`, `WriteEnrollment`, `ReadCourses`, `Synchronise` |
| `updateEnrollment` (865-915), ACTIVE; another status | `BeginUpdateEnrollment` and the same; `LeaveSchool` |
| automatic enrollment (`payment.service.ts` 429-490, `application.service.ts` 640-690) | `BeginAutomatic`, `CommitAutomatic` |
| `syncCourseEnrollments` (72-114): list read; rows deleted and upserted | `ReadCourses`; `Aligned` |
| `createCourse`, `updateCourse` (the count 1842-1857 before the write) | `CreateCourse`, `EditCourse`, `BeginClose`, `CloseCourse` |
| `updateProgram` (457-494), shorter; longer | `BeginShorten`, `ShortenProgram`; `LengthenProgram` |
| `createAcademicYear`, `updateAcademicYear` (511-578) | `BeginSwitch`, `Switch`, `EndYear` |
| refusal, error, crash between two statements | `GiveUp` |

*Isolation.* A statement of `enrollStudent` and its kin is a step. The
transactions (alignment, automatic enrollment, switch of the year) run at Read
Committed: what they read is a step, their writes and commit another.

*Left out.* The label `enrolledYear` with `refreshProgramEnrollmentLabels` and
`refreshAcademicYearEnrollmentLabels` (597-656: read, then write, so that a label
may keep the level of before), archived programs and enrollment periods (they
only refuse), other schools (they share nothing but the student).

### Generation (`Generation.tla`)

The requirements of the classes of a school, the courses and sessions made for
them, and `Runs`, the generations under way. A run is the local state of
`generate`: what it read of each requirement (`jobs`), the job at hand, the time
and the rooms left to try, and what it has given away (`usedTeachers`,
`usedRooms`). `steady` and the variables `madeFor`, `crossed`, `orphaned` and
`untold` are history.

| Code (`school/schedule-generation.service.ts` where nothing else is said) | Actions |
|---|---|
| the reads (86-122), the order of the jobs (142-149) | `Start`, `IsNext` |
| no teacher, or nothing to place (177-196) | `SkipJob` |
| the next job (192-199) | `BeginJob` |
| `createCourse` (201-209) and the link (210-214), or an exception (215-219) | `CreateCourse`, `LinkCourse`, `RefuseCourse`, `FailToLink` |
| the time given away, the class busy (230-231) | `SkipTime`, `TakeTime` |
| the rooms (233-235), none left | `LeaveTime` |
| `createCourseSlot` (`school.service.ts` 1628-1652): checks; row; notification | `CheckRoom`; `WriteSlot`, `RefuseSlot`; `TellTeacher`, `FailToTell` |
| end of a job, of the run | `EndJob`, `EndRun` |
| crash, exception outside of the `try` blocks | `Crash` |
| `scheduling.service.ts`: requirements (435-496) and assignments (511-544) | `CreateRequirement`, `DeleteRequirement`, `Assign` |
| sessions by hand | `AddByHand`, `DeleteSlot` |

*What the model shows of the code.* GET-RG-084
(`src/docs/expression-des-besoins/_inventaire/regles-gestion.md:151`) says that a
generation keeps a class from two sessions at once and is idempotent. Both hold
for one generation at a time; two at once break both, and a deleted requirement
the first (`ClassNeverTwice`, `NeedNotExceeded` name exactly these exceptions). A
notification that fails after its session was written costs a session too many.
The two catches take any exception: after a passing error of the database a course
that was created and not linked (215-219) stays published and unknown to its
requirement (`orphaned`), and a room that was free, at last a time that was, counts
as refused (247-250), so that a job is reported for want of a time it had (`steady`
is false then: the report is no longer vouched for).
A new assignment leaves the course with the former teacher, whom the generation
then books while it keeps the times of the new one (`UnresolvedIsReal` needs a run
that is `steady`: nobody else wrote during it, the courses it found had the teachers
assigned, and no error was taken for a refusal).

*Left out.* The filters of a generation, classes without a program (their jobs
are skipped), lengths of sessions and overlapping time slots, travel times,
edits of rooms, time slots and hours per week. The reads of `generate` are taken
as one, and so are the two checks of `createCourseSlot`.

## 4. Runs

| Run | Instance | What it shows |
|---|---|---|
| `payments` | 1 application, 3 payments, 2 requests, 2 deliveries, flaky provider | all safety properties of `Payments` and the refinement |
| `payments_live` | 2 payments, 1 request, 1 delivery, flaky provider | a payment made is in the end recorded |
| `silent_double_charge` | 2 payments, 2 deliveries, Stripe | **violation**, finding 1 |
| `cancelled_then_enrolled` | the same | **violation**, finding 2 |
| `admission` | 4 candidates, 2 seats, 3 decisions at once, one per candidate | capacity, final states, acceptance by the table |
| `admission_terminal` | 3 candidates, 1 seat, 2 decisions, also on one application | **violation**, finding 3 |
| `timetable` | 2 schools with a course each, 2 teachers, 1 room name, 2 slots, 3 hours, 2 requests, updates of the start or of the end, crashes | when a room is shared, a session empty, a teacher shown in two places, and that there is no other way |
| `timetable_rooms` | the same with both courses in one school, no crash | **violation**, finding 4 |
| `sessions` | 3 tokens, 2 devices, 2 requests, with or without a second factor, 2 versions after the first, 2 links | no session outlives its password, nobody is signed out without a cause, a link works once, and the refinement |
| `registration` | 3 requests under way, 3 codes, a limit of 2 tries | whose account is created, what may stand beside it, how many tries a code allows, when the last mail stops working, who is signed in |
| `enrollment` | 1 student, 2 programs of 1 or 2 years, 1 course, 2 academic years, 2 operations | how the tables of a school may come to disagree, and how not |
| `generation` | 2 requirements of one class (2 sessions and 1), 2 teachers, one absence, 2 times, 2 rooms, 2 courses, 2 runs, 1 edit | what a generation promises, and the only ways in which it fails |

*Bounds.* Three payments are an attempt that expired, one that failed and one in
progress, which is every mixture `initiatePayment` distinguishes; two requests
and two deliveries are needed for every race, and a third one meets the same row
lock. Applications share no state in `Payments`, so one is enough. In
`Admission`, two seats and four candidates give a full offer with a waiting list
longer than one and a candidate left over; three decisions allow a cancellation,
an acceptance and a decision on the promoted candidate at once. The targets are
those that decide about seats and one status of the direct routes; the others
walk the table in the same way. In `Timetable` every property is about two rows,
so two slots are enough; three hours give sessions that overlap, that only touch,
and, from one update of the start and one of the end, one without length; two
courses of two schools have the conflicts over all schools (teachers), and the two
sessions of one course those within a school (rooms); `timetable_rooms` has two
courses of one school. In `Sessions`
(`MaxVersion`, `MaxLinks`, and tokens that are used up) three tokens are a login,
a refresh and either a second login or a refresh of the refreshed; every property
is about one token, its successor and one device, and two requests are needed for
every race between statements (a challenge counts as a request until it is
answered). In
`Registration` (`MaxCodes`) three codes are a submission, its renewal and a
second submission; three requests are two completions with a sending or a
submission between their statements. In `Enrollment` each property is about one student
and one course or two years; two programs and two levels tell a right course from
a wrong one in both respects. In `Generation` (`MaxStarts`, `MaxEdits`) two
sessions of one requirement and one of another compete for two times with one
absence, so that jobs succeed, fail and end half done; two runs in a row or at
once are what idempotence and crossing are about. Nothing else is bounded: the
state spaces are finite and explored whole. Runs do not check for deadlock: when
every payment row is used, every application closed, every slot deleted or a
bound reached, the system stops.

*Fairness* (`FairSpec`, only in `payments_live`). The provider resends an event
until it is acknowledged (`payment.service.ts:317-319` counts on it), which
makes `Confirm` happen if it is possible again and again; failures do not hit
every delivery at the same step forever, hence strong fairness of the steps of
the transaction. No fairness is given to students, schools, requests or crashes.

## 5. Findings

1. **Two payments may both enroll in silence** (`payment.service.ts:357`). An
   attempt expires, the student opens a second one and pays both; both webhooks
   are processed at once, and each looks for another COMPLETED payment before
   the other has committed. `SilentDuplicatesNeedOverlap` shows that overlap is
   the only way to it.
2. **A cancelled application may become ENROLLED** (`payment.service.ts:456`):
   cancellation between the eligibility check and the unconditional write. The
   payment is then not refunded, nor has it a Refund row.
3. **A closed application may reopen** (`application.service.ts:785`): a refusal
   committed between the check of a transition and the write that follows it.
4. **Two sessions may take one room** (`school.service.ts:1645`): two requests
   at once both find it free. Teachers are protected by the database, rooms are
   not.

3 needs two decisions at once on one application; with one at a time the property
holds and is proved.

Seen while modelling, without a run of their own: a second late payment of a
cancelled application meets the search for another COMPLETED payment (350-385)
before the look at the application (386-403) and is flagged as a duplicate, with
no Refund row, where the comments at `payment.service.ts:196-199` and 275-279
promise one for every late payment of a closed application (`MoneyIsExplained`
says what the code keeps: a Refund row exactly for the payments found alone on a
closed application); a refused change of teacher is
half done (`school.service.ts:1905`: the new teacher is busy at the time of one
slot, the database refuses to move the slots, and the course has already been
given to him; sending the same request again does not repair it, and no crash or
second user is needed: `ShownTeacherIsFree` has to except courses `adrift`); two
updates of one session at once, of its start and of its end, may leave it without
length (`school.service.ts:1683`), where `assertSlotTimes` refuses that
(`SessionsHaveLength`); a stale decision ACCEPTED →
ENROLLED may take back a seat given away meanwhile (`application.service.ts:611`,
the same cause as 3; without `OneAtATime` TLC refutes `CapacityRespected`); a
candidate promoted from the waiting list is ACCEPTED with no enrollment attempted
(`application.service.ts:730`, against GET-RG-046, plain from `CommitDecision`);
and what *What the model shows of the code* says of sessions, registration and
the generation above.

## 6. Proofs

The theorems hold for every value of the constants that satisfies the named
assumptions of the module (`PaymentsProofs`: `AppOfAssumption`,
`DeliveriesAssumption`, `FlakyAssumption`, `NothingAssumption`; `AdmissionProofs`: `AppsAssumption`,
`OfferAssumption`; `TimetableProofs`: `InputsAssumption`, `RowsAssumption`;
`SessionsProofs`: `NoneAssumption`, `BoundsAssumption`; `RegistrationProofs`:
`NoneAssumption`, `RequestsAssumption`, `BoundAssumption`; `EnrollmentProofs`:
`LevelAssumption`, `NoneAssumption`; `GenerationProofs` and `GenerationRunProofs`:
`RequirementAssumption`, `WeekAssumption`, `BoundAssumption`, `NoneAssumption`).

*Payments.* `IInv` is the conjunction of the safety properties and of three
facts that make it inductive: a call to the provider owns its payment, which is
PENDING, in time and without a reference (`CallsOwnTheirPayment`: without it
`StoreReference` could set an EXPIRED payment PROCESSING and break
`OneLivePayment`); nothing is known of a payment before its reference is stored
(`ReferenceComesFirst`); and a delivery in its transaction is alone there, on a
payment that was paid and is not COMPLETED, while one in `processRefund` is
alone and knows how far the refund is (`DeliveriesInOrder`: without it `Settle`
could run twice, `RefundAtProvider` twice). `InvStep` has one step per action.
`Refinement` and `CompletedStays` follow from `IInv` by one step each.
`SilentDuplicatesOverlap` counts (`PlacesSuffice`): a payment that enrolled the
student stands in the place of the delivery that found no other payment, and
`FindNoOther` finds none only where nothing has enrolled the student yet; hence
such payments and the deliveries about to add one are never more than the
deliveries. With one delivery at a time this is the claim of finding 1
(`NoSilentDoubleChargeAlone`): overlap is all that refutes it.

*Admission.* `TypeCorrect` holds always. The four others assume `OneAtATime`;
without it TLC refutes each of the four (`TerminalIsFinal` is finding 3). Three of
them assume also that the offer has a capacity (`Capacity # 0`): an acceptance
and a promotion are then serializable. `Capacity = 0` stands for an offer without
one (`Offer.capacity` may be null; when it is given it is at least 1,
`create-offer.dto.ts`). For such an offer the code (`application.service.ts:490`)
runs the promotion of the next candidate at Read Committed, and TLC refutes
`TerminalIsFinal` and `AcceptedByTheTable`; `CapacityRespected` says nothing then.
`EnrollmentOnlyAfterAcceptance` needs no capacity: its invariant `AttemptsKnown`
says only that a decision is alone on its candidate and, where his enrollment was
attempted, can but leave him seated or cancel him.
`IInv` adds that a decision under way knows the status of its application,
unless a promotion has made it ACCEPTED (`DecisionsAreCurrent`), and that an
open transaction that is not beaten still has room and its candidate still waits
(`OpenDecisionsHold`). The counting lemmas `FewerSeats`, `OneMoreSeat` and
`SeatHandedOver` say how each kind of write changes the number of seats taken.

*Timetable.* Nothing is assumed of the editors. `IInv` has, beside the three
properties on rooms, lengths and rows, the constraints of the database (every write
leaves them true) and two facts. What a request has checked still holds of every
row it has seen: the room is free of them, and the row it updates is the one it
read unless that one is unseen by now (`ChecksStillHold`: without it `CreateSlot`
could write into a room taken before it looked). And the teacher a request is about
to write is that of the course, unless the course is adrift (`TeachersRead`: without
it a creation that crossed a change of teacher would leave a row of the former one
beside a course that is not adrift). The proofs go by what a step does to the rows:
`WriteEffect` for the two writes of a slot, `RoomWritten` for what they do to
rooms, `TeachersStep` for the course. `ShownTeachersCorrect` follows: of two rows
that follow their courses and overlap, the constraint allows no common teacher,
over all schools.

*Sessions.* The invariant says where every token is. One that was exchanged has
no row (`TokensKnown`: without it `Rotate` could give a second successor); one
without a row was exchanged, swept, or is of a former version
(`TokensAccounted`); one in a jar, a request or an answer is in the hands of one
device (`OneDevice`), an answer is nowhere else yet (`AnswersAreNew`), and the
successor of a token in a jar is on its way there or was lost
(`SuccessorsKnown`), from which `SignedOut` follows. `VersionsFollow` says that
the version and the password a login has read belong together, unless its
challenge was answered with a password changed since (`outdated`, and the tokens
`outlived`), and
`LinksInOrder` that only the last link can be redeemed and has not been.
`SessionsKeepPromise` shows that each step is one of `SessionPromise`:
`OpenSession` an `Open`, `Rotate` an `Exchange` or `ExchangeTooLate`, a
revocation, a change and a reset of the password an `EndAll`.

*Registration.* The row holds the last submission (`RowIsLast`); unless a
submission crossed it, a completion under way has read that submission and its
row is the one of the address (`CompletionsHold`), which gives
`AccountIsLastSubmission` and, with `ClearingIsLast` (who is about to delete has
created the account), `RowBesideAccount`. `RowsKept` and `OneClearing` say that
the row is there when its completion deletes it, from which `CompletionSignsIn`
follows. `OneSending`, `SendsHold`, `SendsInTime` and `LinksInTime` say what the
mail on its way and the links stand for, for `LastMailWorks`: a link in time
never names an overdue row. `TriesBounded` is a counting argument
(`TriesAccounted`): the tries counted and those about to be, each read below the
limit, stay below the sum of the limit and the number of requests.

*Enrollment.* The five properties say what may be blamed, so the invariant says
what is true when nothing may: an operation under way that is `clean` is alone on
its student (`CleanAlone`) or among the switches (`CleanSwitch`); what it checked
(`ChecksHold`: a course being closed has no students, a program being shortened
nobody above), what it wrote before aligning (`EnrollmentsHold`) and the years it
is about to clear (`SwitchesHold`) still hold unless its student is `crossed`.

*Generation.* `ClassNeverTwice` and `OrphansHaveACause` rest on what a run may
rely on between its statements. As long as no two runs have crossed there is one
at most (`OneRun`), and at the slot it is about to try there is no other session
of its class (`ClassFree`), because `isClassBusy` was asked and nobody else
writes. `JobsKnown` says what a run works from: the job it has, one course it is
linked to, the requirements it serves and read. `LinksApart` says that a course
is that of one requirement, `PlacesKnown` and `CoursesKnown` that a row points
at something that was created, `NothingLinked` that a requirement read without a
course has none yet. A step moves one run at most, and most steps touch the rows
of one kind only (`Quiet`, `RunMoves`): the proof takes each part of the
invariant by the kinds it reads.

`GenerationRunProofs` adds what a run counts and what it reports.
`NeedNotExceeded` follows from `CountsHold`, which holds as long as no two runs
crossed: the sessions of the job at hand that a run wrote and those still to place
are no more than the need, where the session just written counts twice until it
is announced (`CountedFor`); and the sessions a run read of a job
it has not begun are still the most there are, since only deletions can have
changed them (`ReadFor`). `UnresolvedIsReal`
follows from `SteadyRunsHonest`: as long as a run is `steady`, what it knows is
true (`Honest`) - the teachers it read are those assigned (`TeachersRead`,
`TeacherAtWork`), what it holds for given away is taken (`UsedIsTaken`), each time
and each room it passed over cannot take the job (`TimesTried`, `RoomsTried`), and
what it reports has no free time (`ReportsHold`). A step of another run or of an
editor either only adds sessions, which leaves all this true (`Grows`,
`KnowledgeStays`), or ends the steadiness of the run (`OthersKnow`), as does an
error that it takes for a refusal; any other step of its own is the lemma `OwnStep`,
one case per statement of the loop. Both were
checked by TLC on the instance of `generation` before they were proved.

The type invariants of `Registration` (`RegistrationTypes`) and of `Timetable`
(`TimetableProofs!TypeCorrect`) are only proved: their runs have none, and the other
runs check theirs.

*Only model-checked*: `PaidIsRecorded`, because liveness under fairness is beyond
the prover, and that the four claims of section 5 are refuted. Every other
property of a passing run is a theorem. The three theorems of `AdmissionProofs`
on capacity and transitions, and those that assume one delivery or no crossing, say
under which discipline a claim holds; where the code does not have that discipline,
section 5 says what happens.

## 7. Not modelled

The components marked `not_modelled` in `PROJECT.json`, each with its reason, and
what the modelled ones leave out, above. In short: the reference data, listings,
statistics, exports, messages and announcements keep rows that one writer edits
and have no protocol; notifications, audit, files and mails are output whose
failure the callers swallow (where it is not swallowed, `FailToTell` has it); the
pages of the frontend show what the backend answers; the seeds fill an empty
database. Two things would still be worth modelling. The reminders of `integration`
send and then mark (`integration.service.ts:73`): two overlapping runs of the
workflow, or a crash between the two, send twice, against
`src/docs/n8n/01-cadrage-et-conception.md:95-96`. And `Admission` and `Payments`, which share
`Application.status`, are checked apart: `Payments` has the decisions that matter
to it as `CancelApplication` and `EnrollByHand`, `Admission` has no payments.
