------------------------------ MODULE Sessions ------------------------------
(***************************************************************************)
(* The sessions of one user: login, completeMfaLogin, refreshTokens,       *)
(* revokeSession, forgotPassword and resetPassword of AuthService          *)
(* (src/backend/src/modules/auth/auth.service.ts), logout of               *)
(* AuthController, changePassword of StudentService and TeachingService,   *)
(* setActive of UserService, and the browsers that keep the tokens.        *)
(*                                                                         *)
(* A token is signed and carries the sessionVersion it was issued under;   *)
(* the row RefreshSession of a chain names its one current token.  Each    *)
(* awaited statement is a step.  The tabs of a device share one cookie jar *)
(* and each may have a request under way; answers may be lost or late.     *)
(*                                                                         *)
(* Passwords, versions and links are counted: the n-th password the user   *)
(* chose, the n-th link he was sent.                                       *)
(***************************************************************************)
EXTENDS Naturals, FiniteSets

CONSTANTS
    Tokens,     \* refresh tokens (their jti) that may come to exist
    Devices,    \* browsers, each with its cookie jar
    Requests,   \* requests that may be under way at once
    None,       \* no token, no device
    MaxVersion, \* bound on sessionVersion
    MaxLinks    \* bound on the reset links sent

ASSUME NoneAssumption ==
    None \notin Tokens \cup Devices \cup [version : Nat, password : Nat]
ASSUME BoundsAssumption == MaxVersion \in Nat /\ MaxLinks \in Nat

VARIABLES
    version,    \* User.sessionVersion
    password,   \* User.password
    active,     \* User.isActive
    link,       \* the link whose hash is in User.resetTokenHash; 0 is null
    sent,       \* links sent so far
    rows,       \* the currentJti of the user's RefreshSession rows
    token,      \* what the tokens issued carry
    jar,        \* the refresh_token cookie of each device
    req,        \* requests under way
    next,       \* the token each token was exchanged for
    lost,       \* tokens whose answer never reached its device
    swept,      \* live tokens deleted by the clean-up of a reset
    outlived,   \* tokens whose challenge outlived the password given for it
    redeemed    \* how often each link changed the password

server == <<version, password, active, link, sent, rows, token>>
history == <<next, lost, swept, outlived, redeemed>>
vars == <<server, jar, req, history>>

-----------------------------------------------------------------------------
Steps == {"idle", "loggingIn", "challenged", "outdated", "refreshing", "reused", "answered",
          "changing", "resetting", "sweeping"}

Request == [pc : Steps, device : Devices \cup {None}, token : Tokens \cup {None},
            version : Nat, password : Nat, link : Nat]

Idle == [pc |-> "idle", device |-> None, token |-> None,
         version |-> 0, password |-> 0, link |-> 0]

Carried == [version : Nat, password : Nat]

TypeOK ==
    /\ version \in Nat /\ password \in Nat /\ link \in Nat /\ sent \in Nat
    /\ active \in BOOLEAN
    /\ rows \subseteq Tokens
    /\ token \in [Tokens -> Carried \cup {None}]
    /\ jar \in [Devices -> Tokens \cup {None}]
    /\ req \in [Requests -> Request]
    /\ next \in [Tokens -> Tokens \cup {None}]
    /\ lost \subseteq Tokens /\ swept \subseteq Tokens /\ outlived \subseteq Tokens
    /\ redeemed \in [1 .. MaxLinks -> Nat]

Init ==
    /\ version = 0 /\ password = 0 /\ active = TRUE
    /\ link = 0 /\ sent = 0
    /\ rows = {}
    /\ token = [t \in Tokens |-> None]
    /\ jar = [d \in Devices |-> None]
    /\ req = [r \in Requests |-> Idle]
    /\ next = [t \in Tokens |-> None]
    /\ lost = {} /\ swept = {} /\ outlived = {}
    /\ redeemed = [l \in 1 .. MaxLinks |-> 0]

Unissued == {t \in Tokens : token[t] = None}
Current(t) == token[t] # None /\ token[t].version = version
Live == {t \in rows : Current(t)}

\* What JwtStrategy.validate asks of the access token issued with t, and
\* refreshTokens of t itself.
Accepted(t) == t # None /\ active /\ Current(t)

Ends(r) == req' = [req EXCEPT ![r] = Idle]

\* Variant of Revoke that takes the version back.
RevokeBack ==
    /\ version < MaxVersion
    /\ version' = version - 1
    /\ rows' = {}

\* revokeSession: one transaction.
Revoke ==
    /\ version < MaxVersion
    /\ version' = version + 1
    /\ rows' = {}

-----------------------------------------------------------------------------
(* Login *)

\* The user is read, and the password given is the one read.  isActive is not
\* asked here.
BeginLogin(r, d) ==
    /\ req[r].pc = "idle"
    /\ req' = [req EXCEPT ![r] = [Idle EXCEPT !.pc = "loggingIn", !.device = d,
                                              !.version = version, !.password = password]]
    /\ UNCHANGED <<server, jar, history>>

\* If the user has enabled a second factor, which is left open here, the answer
\* is a challenge.  It names the user and not his version.  (One that is
\* presented twice is as good as two.)
Challenge(r) ==
    /\ req[r].pc = "idle"
    /\ req' = [req EXCEPT ![r] = [Idle EXCEPT !.pc = "challenged", !.password = password]]
    /\ UNCHANGED <<server, jar, history>>

\* completeMfaLogin: the challenge is not older than five minutes and the code is
\* good; the user is read again, with the version he has by now, and whether the
\* password given is still his is not asked.
CompleteMfaLogin(r, d) ==
    /\ req[r].pc = "challenged"
    /\ req' = [req EXCEPT ![r].version = version, ![r].device = d,
                           ![r].pc = IF req[r].password = password THEN "loggingIn"
                                     ELSE "outdated"]
    /\ UNCHANGED <<server, jar, history>>

\* Variant of OpenSession that signs the token with the version of the row.
OpenCurrentSession(r) ==
    /\ req[r].pc \in {"loggingIn", "outdated"}
    /\ \E new \in Unissued :
          /\ rows' = rows \cup {new}
          /\ token' = [token EXCEPT ![new] = [version |-> version,
                                              password |-> req[r].password]]
          /\ outlived' = IF req[r].pc = "outdated" THEN outlived \cup {new} ELSE outlived
          /\ req' = [req EXCEPT ![r].pc = "answered", ![r].token = new]
    /\ UNCHANGED <<version, password, active, link, sent, jar, next, lost, swept, redeemed>>

\* issueTokens: a row, and a token signed with the version read before.
OpenSession(r) ==
    /\ req[r].pc \in {"loggingIn", "outdated"}
    /\ \E new \in Unissued :
          /\ rows' = rows \cup {new}
          /\ token' = [token EXCEPT ![new] = [version |-> req[r].version,
                                              password |-> req[r].password]]
          /\ outlived' = IF req[r].pc = "outdated" THEN outlived \cup {new} ELSE outlived
          /\ req' = [req EXCEPT ![r].pc = "answered", ![r].token = new]
    /\ UNCHANGED <<version, password, active, link, sent, jar, next, lost, swept, redeemed>>

-----------------------------------------------------------------------------
(* Refresh *)

\* The token of the jar is presented; the user is read, active and of the
\* version of the token.  Otherwise 401, and nothing changes.
BeginRefresh(r, d) ==
    /\ req[r].pc = "idle"
    /\ Accepted(jar[d])
    /\ req' = [req EXCEPT ![r] = [Idle EXCEPT !.pc = "refreshing", !.device = d,
                                              !.token = jar[d], !.version = version]]
    /\ UNCHANGED <<server, jar, history>>

\* Variant of RowsAfter that matches the rows by user only.
AllRowsAfter(old, new) == {new}

\* The updateMany of the rotation: the row whose currentJti is the token.
RowsAfter(old, new) == (rows \ {old}) \cup {new}

\* Variant of HasRow that trusts the version checked before.
HadRow(t) == token[t] # None

HasRow(t) == t \in rows

Rotate(r) ==
    LET old == req[r].token IN
    /\ req[r].pc = "refreshing"
    /\ HasRow(old)
    /\ \E new \in Unissued :
          /\ rows' = RowsAfter(old, new)
          /\ token' = [token EXCEPT ![new] = [version |-> req[r].version,
                                              password |-> token[old].password]]
          /\ next' = [next EXCEPT ![old] = new]
          /\ outlived' = IF old \in outlived THEN outlived \cup {new} ELSE outlived
          /\ req' = [req EXCEPT ![r].pc = "answered", ![r].token = new]
    /\ UNCHANGED <<version, password, active, link, sent, jar, lost, swept, redeemed>>

\* count = 0: taken for the reuse of a token already exchanged.
FindReuse(r) ==
    /\ req[r].pc = "refreshing"
    /\ req[r].token \notin rows
    /\ req' = [req EXCEPT ![r].pc = "reused"]
    /\ UNCHANGED <<server, jar, history>>

RevokeOnReuse(r) ==
    /\ req[r].pc = "reused"
    /\ Revoke
    /\ Ends(r)
    /\ UNCHANGED <<password, active, link, sent, token, jar, history>>

\* Set-Cookie, at whatever time the answer arrives.
Deliver(r) ==
    /\ req[r].pc = "answered"
    /\ jar' = [jar EXCEPT ![req[r].device] = req[r].token]
    /\ Ends(r)
    /\ UNCHANGED <<server, history>>

\* The connection is lost, the client has given up after 10 seconds, or the
\* server dies after the write.
LoseAnswer(r) ==
    /\ req[r].pc = "answered"
    /\ lost' = lost \cup {req[r].token}
    /\ Ends(r)
    /\ UNCHANGED <<server, jar, next, swept, outlived, redeemed>>

-----------------------------------------------------------------------------
(* Logout and suspension *)

\* The sessions of all devices end, if the browser still has an access token;
\* its cookie lives 15 minutes.  The answer clears the jar.
Logout(d) ==
    /\ jar[d] # None
    /\ \/ Revoke
       \/ UNCHANGED <<version, rows>>
    /\ \/ jar' = [jar EXCEPT ![d] = None]
       \/ UNCHANGED jar
    /\ UNCHANGED <<password, active, link, sent, token, req, history>>

SetActive ==
    /\ active' = ~active
    /\ UNCHANGED <<version, password, link, sent, rows, token, jar, req, history>>

-----------------------------------------------------------------------------
(* Passwords *)

\* changePassword: authenticated, the user is read and the password given is
\* the one read.
BeginChange(r, d) ==
    /\ req[r].pc = "idle"
    /\ Accepted(jar[d])
    /\ req' = [req EXCEPT ![r] = [Idle EXCEPT !.pc = "changing"]]
    /\ UNCHANGED <<server, jar, history>>

\* The rows stay; no token of theirs has the new version.
ChangePassword(r) ==
    /\ req[r].pc = "changing"
    /\ version < MaxVersion
    /\ password' = password + 1
    /\ version' = version + 1
    /\ Ends(r)
    /\ UNCHANGED <<active, link, sent, rows, token, jar, history>>

\* forgotPassword: a new link takes the place of the former one.
SendLink ==
    /\ sent < MaxLinks
    /\ sent' = sent + 1
    /\ link' = sent + 1
    /\ UNCHANGED <<version, password, active, rows, token, jar, req, history>>

\* One hour later.
ExpireLink ==
    /\ link # 0
    /\ link' = 0
    /\ UNCHANGED <<version, password, active, sent, rows, token, jar, req, history>>

\* resetPassword: the user of the link is read.  A link that is not the
\* current one finds nobody, now or later.
BeginReset(r) ==
    /\ req[r].pc = "idle"
    /\ link # 0
    /\ req' = [req EXCEPT ![r] = [Idle EXCEPT !.pc = "resetting", !.link = link]]
    /\ UNCHANGED <<server, jar, history>>

\* Variant of LinkMatches that relies on the user read before.
LinkMatched(r) == TRUE

\* The condition of the updateMany.
LinkMatches(r) == req[r].link = link

Reset(r) ==
    /\ req[r].pc = "resetting"
    /\ LinkMatches(r)
    /\ version < MaxVersion
    /\ password' = password + 1
    /\ version' = version + 1
    /\ link' = 0
    /\ redeemed' = [redeemed EXCEPT ![req[r].link] = @ + 1]
    /\ req' = [req EXCEPT ![r].pc = "sweeping"]
    /\ UNCHANGED <<active, sent, rows, token, jar, next, lost, swept, outlived>>

\* The clean-up deletes all rows of the user, those of logins made since the
\* reset included.
Sweep(r) ==
    /\ req[r].pc = "sweeping"
    /\ rows' = {}
    /\ swept' = swept \cup Live
    /\ Ends(r)
    /\ UNCHANGED <<version, password, active, link, sent, token, jar, next, lost, outlived, redeemed>>

-----------------------------------------------------------------------------
\* 401, 400, an error, or a crash before the write.  A crash after a write is
\* LoseAnswer, or a clean-up that never happens.
GiveUp(r) ==
    /\ req[r].pc \in Steps \ {"idle", "answered"}
    /\ Ends(r)
    /\ UNCHANGED <<server, jar, history>>

Next ==
    \/ \E r \in Requests :
          \/ \E d \in Devices :
                \/ BeginLogin(r, d) \/ CompleteMfaLogin(r, d)
                \/ BeginRefresh(r, d) \/ BeginChange(r, d)
          \/ Challenge(r) \/ OpenSession(r) \/ Rotate(r) \/ FindReuse(r) \/ RevokeOnReuse(r)
          \/ Deliver(r) \/ LoseAnswer(r)
          \/ ChangePassword(r) \/ BeginReset(r) \/ Reset(r) \/ Sweep(r)
          \/ GiveUp(r)
    \/ \E d \in Devices : Logout(d)
    \/ SetActive \/ SendLink \/ ExpireLink

Spec == Init /\ [][Next]_vars

-----------------------------------------------------------------------------
(* Properties *)

\* Whoever holds a token of the current version got it with the current
\* password, or by exchanging a token that was: no login, refresh, change or
\* reset that overlaps another lets a token of a former password through.
\* (The version is read with the password and raised with it.)  But for one way:
\* a challenge given for a former password and answered after its change.
TokensFollowPassword ==
    \A t \in Tokens : Current(t) => token[t].password = password \/ t \in outlived

\* A device is signed out for a cause: if the token in its jar is of the
\* current version and has no row, then the token was exchanged and the answer
\* is on its way to that device or was lost, or a reset has swept it.
\* (Rotation moves one row only; whoever ends all sessions raises the version.)
SignedOutForACause ==
    \A d \in Devices :
        jar[d] # None /\ Current(jar[d]) /\ jar[d] \notin rows
        => \/ jar[d] \in swept
           \/ /\ next[jar[d]] # None
              /\ \/ next[jar[d]] \in lost
                 \/ \E r \in Requests : /\ req[r].pc = "answered"
                                        /\ req[r].device = d
                                        /\ req[r].token = next[jar[d]]

RedeemsLastLink ==
    \A l \in 1 .. MaxLinks : redeemed'[l] # redeemed[l] => redeemed[l] = 0 /\ l = sent

\* A reset link changes the password once, and only while it is the last one
\* sent, however often it is presented and whatever is sent meanwhile.  (The
\* inventory of business rules, regles-gestion.md:32, says the contrary: that a
\* link stays usable until it expires.  The condition of the updateMany, 733-745,
\* has made it out of date.)
LinkWorksOnce == [][RedeemsLastLink]_vars

Issued == Tokens \ Unissued

Promise == INSTANCE SessionPromise WITH live <- Live, over <- Issued \ Live

\* The refresh tokens keep what SessionPromise says: a token that is over never
\* lives again, each is exchanged for one successor at most, and sessions end
\* one by one by exchange or all at once.
KeepsPromise == Promise!Spec
=============================================================================
