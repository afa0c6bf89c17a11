--------------------------- MODULE SessionsProofs ---------------------------
(***************************************************************************)
(* Proofs about Sessions, for any tokens, devices and requests and for any *)
(* bounds on versions and links.                                           *)
(***************************************************************************)
EXTENDS Sessions, TLAPS

\* Requests that bear a token of a device.
Bearing(r) == req[r].pc \in {"refreshing", "answered"}

\* What is stored, kept or presented was issued; a token exchanged has no row.
TokensKnown ==
    /\ rows \subseteq Issued
    /\ \A d \in Devices : jar[d] # None => jar[d] \in Issued
    /\ \A r \in Requests :
          /\ req[r].pc \in {"loggingIn", "outdated", "refreshing", "answered"} => req[r].device \in Devices
          /\ Bearing(r) => req[r].token \in Issued
    /\ \A t \in Tokens : next[t] # None => t \in Issued \ rows /\ next[t] \in Issued

\* Versions never run ahead, and the current version goes with the current
\* password, in tokens and in what a login has read.
VersionsFollow ==
    /\ \A t \in Issued : token[t].version <= version
    /\ TokensFollowPassword
    /\ \A r \in Requests :
          /\ req[r].pc \in {"loggingIn", "outdated"} => req[r].version <= version
          /\ req[r].pc = "loggingIn" /\ req[r].version = version => req[r].password = password
          /\ req[r].pc = "refreshing" => req[r].version = token[req[r].token].version

\* Only the last link sent can still be redeemed, and it has not been.
LinksInOrder ==
    /\ sent <= MaxLinks
    /\ link \in {0, sent}
    /\ \A r \in Requests : req[r].pc = "resetting" => req[r].link \in 1 .. MaxLinks
    /\ \A l \in 1 .. MaxLinks : redeemed[l] # 0 => l # link /\ l <= sent

\* What became of every token issued.
TokensAccounted ==
    \A t \in Issued :
        t \in rows \/ next[t] # None \/ t \in swept \/ token[t].version < version

\* A token is in the hands of one device.
OneDevice ==
    /\ \A d, e \in Devices : jar[d] # None /\ jar[d] = jar[e] => d = e
    /\ \A d \in Devices, r \in Requests :
          Bearing(r) /\ jar[d] = req[r].token => d = req[r].device
    /\ \A q, r \in Requests :
          Bearing(q) /\ Bearing(r) /\ req[q].token = req[r].token
          => req[q].device = req[r].device

\* A token on its way to its device is nowhere else, and not yet exchanged.
AnswersAreNew ==
    \A r \in Requests : req[r].pc = "answered" =>
        /\ next[req[r].token] = None
        /\ \A d \in Devices : jar[d] # req[r].token
        /\ \A q \in Requests \ {r} : Bearing(q) => req[q].token # req[r].token

\* The successor of a token in a jar is on its way there, or was lost.
SuccessorsKnown ==
    \A d \in Devices : jar[d] # None /\ next[jar[d]] # None =>
        \/ next[jar[d]] \in lost
        \/ \E r \in Requests : /\ req[r].pc = "answered"
                               /\ req[r].device = d
                               /\ req[r].token = next[jar[d]]

IInv ==
    /\ TypeOK
    /\ TokensKnown
    /\ VersionsFollow
    /\ LinksInOrder
    /\ TokensAccounted
    /\ OneDevice
    /\ AnswersAreNew
    /\ SuccessorsKnown

\* The answer that a request has ready for its device.
LEMMA AnswerTyped ==
    ASSUME TypeOK, NEW r \in Requests, NEW new \in Tokens
    PROVE  [req EXCEPT ![r].pc = "answered", ![r].token = new] \in [Requests -> Request]
<1>1. req[r] \in Request
  BY DEF TypeOK
<1>2. [req[r] EXCEPT !.pc = "answered", !.token = new] \in Request
  BY <1>1 DEF Request, Steps
<1>3. QED
  BY <1>2 DEF TypeOK

\* Every step leaves each variable in its type; what a rotation writes is
\* well formed because the row it finds belongs to a token issued.
LEMMA TypeStep == TypeOK /\ TokensKnown /\ [Next]_vars => TypeOK'
<1> SUFFICES ASSUME TypeOK, TokensKnown, [Next]_vars PROVE TypeOK'
  OBVIOUS
<1> USE DEF TypeOK, Request, Steps, Idle, Carried, server, history, Unissued, Issued, Ends, Revoke, Accepted, Current, Live
<1>1. ASSUME NEW r \in Requests, NEW d \in Devices, BeginLogin(r, d)
      PROVE  TypeOK'
  BY <1>1 DEF BeginLogin
<1>2. ASSUME NEW r \in Requests, NEW d \in Devices, BeginRefresh(r, d)
      PROVE  TypeOK'
  BY <1>2 DEF BeginRefresh
<1>3. ASSUME NEW r \in Requests, NEW d \in Devices, BeginChange(r, d)
      PROVE  TypeOK'
  BY <1>3 DEF BeginChange
<1>3a. ASSUME NEW r \in Requests, Challenge(r)
      PROVE  TypeOK'
  BY <1>3a DEF Challenge
<1>3b. ASSUME NEW r \in Requests, NEW d \in Devices, CompleteMfaLogin(r, d)
      PROVE  TypeOK'
  <2>1. req[r] \in Request
    OBVIOUS
  <2>2. PICK pc \in {"loggingIn", "outdated"} :
           req' = [req EXCEPT ![r].version = version, ![r].device = d, ![r].pc = pc]
    BY <1>3b DEF CompleteMfaLogin
  <2>3. [req[r] EXCEPT !.version = version, !.device = d, !.pc = pc] \in Request
    BY <2>1
  <2>4. req' \in [Requests -> Request]
    BY <2>2, <2>3
  <2>5. QED
    BY <1>3b, <2>4 DEF CompleteMfaLogin
<1>4. ASSUME NEW r \in Requests, OpenSession(r)
      PROVE  TypeOK'
  <2>1. PICK new \in Unissued :
           /\ rows' = rows \cup {new}
           /\ token' = [token EXCEPT ![new] = [version |-> req[r].version,
                                               password |-> req[r].password]]
           /\ req' = [req EXCEPT ![r].pc = "answered", ![r].token = new]
    BY <1>4 DEF OpenSession
  <2>2. token' \in [Tokens -> Carried \cup {None}] /\ rows' \subseteq Tokens
    BY <2>1
  <2>3. req' \in [Requests -> Request]
    BY <2>1, AnswerTyped
  <2>4. QED
    BY <1>4, <2>2, <2>3 DEF OpenSession
<1>5. ASSUME NEW r \in Requests, Rotate(r)
      PROVE  TypeOK'
  <2>1. PICK new \in Unissued :
           /\ rows' = RowsAfter(req[r].token, new)
           /\ token' = [token EXCEPT ![new] = [version |-> req[r].version,
                                               password |-> token[req[r].token].password]]
           /\ next' = [next EXCEPT ![req[r].token] = new]
           /\ req' = [req EXCEPT ![r].pc = "answered", ![r].token = new]
    BY <1>5 DEF Rotate
  <2>2. req[r].token \in rows /\ token[req[r].token] \in Carried
    BY <1>5 DEF Rotate, HasRow, TokensKnown
  <2>3. token' \in [Tokens -> Carried \cup {None}] /\ rows' \subseteq Tokens
    BY <2>1, <2>2 DEF RowsAfter
  <2>4. req' \in [Requests -> Request] /\ next' \in [Tokens -> Tokens \cup {None}]
    BY <2>1, AnswerTyped
  <2>5. QED
    BY <1>5, <2>3, <2>4 DEF Rotate
<1>6. ASSUME NEW r \in Requests, FindReuse(r)
      PROVE  TypeOK'
  BY ZenonT(60), <1>6 DEF FindReuse
<1>7. ASSUME NEW r \in Requests, RevokeOnReuse(r)
      PROVE  TypeOK'
  BY <1>7 DEF RevokeOnReuse
<1>8. ASSUME NEW r \in Requests, Deliver(r)
      PROVE  TypeOK'
  BY <1>8 DEF Deliver
<1>9. ASSUME NEW r \in Requests, LoseAnswer(r)
      PROVE  TypeOK'
  BY <1>9 DEF LoseAnswer, TokensKnown, Bearing
<1>10. ASSUME NEW r \in Requests, ChangePassword(r)
      PROVE  TypeOK'
  BY <1>10 DEF ChangePassword
<1>11. ASSUME NEW r \in Requests, BeginReset(r)
      PROVE  TypeOK'
  BY <1>11 DEF BeginReset
<1>12. ASSUME NEW r \in Requests, Reset(r)
      PROVE  TypeOK'
  <2>1. redeemed' \in [1 .. MaxLinks -> Nat]
    <3> DEFINE l == req[r].link
    <3>1. redeemed' = [redeemed EXCEPT ![l] = redeemed[l] + 1]
      BY <1>12 DEF Reset
    <3>2. l \in 1 .. MaxLinks => redeemed[l] + 1 \in Nat
      OBVIOUS
    <3> HIDE DEF l
    <3>3. QED
      BY <3>1, <3>2
  <2>2. req' \in [Requests -> Request]
    BY ZenonT(60), <1>12 DEF Reset
  <2>3. version' \in Nat /\ password' \in Nat /\ link' \in Nat
    BY <1>12 DEF Reset
  <2>4. UNCHANGED <<active, sent, rows, token, jar, next, lost, swept, outlived>>
    BY <1>12 DEF Reset
  <2>5. QED
    BY <2>1, <2>2, <2>3, <2>4
<1>13. ASSUME NEW r \in Requests, Sweep(r)
      PROVE  TypeOK'
  BY <1>13 DEF Sweep
<1>14. ASSUME NEW r \in Requests, GiveUp(r)
      PROVE  TypeOK'
  BY <1>14 DEF GiveUp
<1>15. ASSUME NEW d \in Devices, Logout(d)
      PROVE  TypeOK'
  BY <1>15 DEF Logout
<1>16. ASSUME SetActive \/ SendLink \/ ExpireLink
      PROVE  TypeOK'
  <2>1. CASE SetActive
    BY <2>1 DEF SetActive
  <2>2. CASE SendLink \/ ExpireLink
    BY <2>2 DEF SendLink, ExpireLink
  <2>3. QED
    BY <1>16, <2>1, <2>2
<1>17. CASE UNCHANGED vars
  BY <1>17 DEF vars
<1>18. QED
  BY <1>1, <1>2, <1>3, <1>3a, <1>3b, <1>4, <1>5, <1>6, <1>7, <1>8, <1>9, <1>10, <1>11, <1>12, <1>13, <1>14, <1>15, <1>16, <1>17 DEF Next

\* Only tokens issued get about.
LEMMA KnownStep == TypeOK /\ TokensKnown /\ [Next]_vars => TokensKnown'
<1> SUFFICES ASSUME TypeOK, TokensKnown, [Next]_vars PROVE TokensKnown'
  OBVIOUS
<1> USE DEF TypeOK, Request, Steps, Idle, Carried, server, history, Unissued, Issued, Ends, Revoke, TokensKnown, Bearing, RowsAfter, HasRow, Accepted, Current
<1>1. ASSUME NEW r \in Requests, NEW d \in Devices, BeginLogin(r, d)
      PROVE  TokensKnown'
  BY <1>1 DEF BeginLogin
<1>2. ASSUME NEW r \in Requests, NEW d \in Devices, BeginRefresh(r, d)
      PROVE  TokensKnown'
  BY <1>2 DEF BeginRefresh
<1>3. ASSUME NEW r \in Requests, NEW d \in Devices, BeginChange(r, d)
      PROVE  TokensKnown'
  BY <1>3 DEF BeginChange
<1>3a. ASSUME NEW r \in Requests, Challenge(r)
      PROVE  TokensKnown'
  BY <1>3a DEF Challenge
<1>3b. ASSUME NEW r \in Requests, NEW d \in Devices, CompleteMfaLogin(r, d)
      PROVE  TokensKnown'
  BY <1>3b DEF CompleteMfaLogin
<1>4. ASSUME NEW r \in Requests, OpenSession(r)
      PROVE  TokensKnown'
  <2>1. PICK new \in Unissued :
           /\ rows' = rows \cup {new}
           /\ token' = [token EXCEPT ![new] = [version |-> req[r].version,
                                               password |-> req[r].password]]
           /\ req' = [req EXCEPT ![r].pc = "answered", ![r].token = new]
    BY <1>4 DEF OpenSession
  <2>2. Issued' = Issued \cup {new} /\ rows' \subseteq Issued'
    BY <2>1, NoneAssumption
  <2>3. \A q \in Requests :
           /\ req'[q].pc \in {"loggingIn", "outdated", "refreshing", "answered"} => req'[q].device \in Devices
           /\ req'[q].pc \in {"refreshing", "answered"} => req'[q].token \in Issued'
    BY <1>4, <2>1, <2>2 DEF OpenSession
  <2>4. QED
    BY <1>4, <2>1, <2>2, <2>3 DEF OpenSession
<1>5. ASSUME NEW r \in Requests, Rotate(r)
      PROVE  TokensKnown'
  BY <1>5 DEF Rotate
<1>6. ASSUME NEW r \in Requests, FindReuse(r)
      PROVE  TokensKnown'
  BY <1>6 DEF FindReuse
<1>7. ASSUME NEW r \in Requests, RevokeOnReuse(r)
      PROVE  TokensKnown'
  BY <1>7 DEF RevokeOnReuse
<1>8. ASSUME NEW r \in Requests, Deliver(r)
      PROVE  TokensKnown'
  BY <1>8 DEF Deliver
<1>9. ASSUME NEW r \in Requests, LoseAnswer(r)
      PROVE  TokensKnown'
  BY <1>9 DEF LoseAnswer
<1>10. ASSUME NEW r \in Requests, ChangePassword(r)
      PROVE  TokensKnown'
  BY <1>10 DEF ChangePassword
<1>11. ASSUME NEW r \in Requests, BeginReset(r)
      PROVE  TokensKnown'
  BY <1>11 DEF BeginReset
<1>12. ASSUME NEW r \in Requests, Reset(r)
      PROVE  TokensKnown'
  BY <1>12 DEF Reset
<1>13. ASSUME NEW r \in Requests, Sweep(r)
      PROVE  TokensKnown'
  BY <1>13 DEF Sweep
<1>14. ASSUME NEW r \in Requests, GiveUp(r)
      PROVE  TokensKnown'
  BY <1>14 DEF GiveUp
<1>15. ASSUME NEW d \in Devices, Logout(d)
      PROVE  TokensKnown'
  BY <1>15 DEF Logout
<1>16. ASSUME SetActive \/ SendLink \/ ExpireLink
      PROVE  TokensKnown'
  BY <1>16 DEF SetActive, SendLink, ExpireLink
<1>17. CASE UNCHANGED vars
  BY <1>17 DEF vars
<1>18. QED
  BY <1>1, <1>2, <1>3, <1>3a, <1>3b, <1>4, <1>5, <1>6, <1>7, <1>8, <1>9, <1>10, <1>11, <1>12, <1>13, <1>14, <1>15, <1>16, <1>17 DEF Next

\* The version moves with the password, and a token is signed with what was
\* read with it.
LEMMA VersionsStep == TypeOK /\ TokensKnown /\ VersionsFollow /\ [Next]_vars => VersionsFollow'
<1> SUFFICES ASSUME TypeOK, TokensKnown, VersionsFollow, [Next]_vars PROVE VersionsFollow'
  OBVIOUS
<1> USE DEF TypeOK, Request, Steps, Idle, Carried, server, history, Unissued, Issued, Ends, Revoke, TokensKnown, VersionsFollow, TokensFollowPassword, Bearing, HasRow, Accepted, Current
<1>1. ASSUME NEW r \in Requests, NEW d \in Devices, BeginLogin(r, d)
      PROVE  VersionsFollow'
  BY <1>1 DEF BeginLogin
<1>2. ASSUME NEW r \in Requests, NEW d \in Devices, BeginRefresh(r, d)
      PROVE  VersionsFollow'
  BY <1>2 DEF BeginRefresh
<1>3. ASSUME NEW r \in Requests, NEW d \in Devices, BeginChange(r, d)
      PROVE  VersionsFollow'
  BY <1>3 DEF BeginChange
<1>3a. ASSUME NEW r \in Requests, Challenge(r)
      PROVE  VersionsFollow'
  BY <1>3a DEF Challenge
<1>3b. ASSUME NEW r \in Requests, NEW d \in Devices, CompleteMfaLogin(r, d)
      PROVE  VersionsFollow'
  BY <1>3b DEF CompleteMfaLogin
<1>4. ASSUME NEW r \in Requests, OpenSession(r)
      PROVE  VersionsFollow'
  BY <1>4 DEF OpenSession
<1>5. ASSUME NEW r \in Requests, Rotate(r)
      PROVE  VersionsFollow'
  BY <1>5 DEF Rotate
<1>6. ASSUME NEW r \in Requests, FindReuse(r)
      PROVE  VersionsFollow'
  BY <1>6 DEF FindReuse
<1>7. ASSUME NEW r \in Requests, RevokeOnReuse(r)
      PROVE  VersionsFollow'
  BY <1>7 DEF RevokeOnReuse
<1>8. ASSUME NEW r \in Requests, Deliver(r)
      PROVE  VersionsFollow'
  BY <1>8 DEF Deliver
<1>9. ASSUME NEW r \in Requests, LoseAnswer(r)
      PROVE  VersionsFollow'
  BY <1>9 DEF LoseAnswer
<1>10. ASSUME NEW r \in Requests, ChangePassword(r)
      PROVE  VersionsFollow'
  BY <1>10 DEF ChangePassword
<1>11. ASSUME NEW r \in Requests, BeginReset(r)
      PROVE  VersionsFollow'
  BY <1>11 DEF BeginReset
<1>12. ASSUME NEW r \in Requests, Reset(r)
      PROVE  VersionsFollow'
  BY <1>12 DEF Reset
<1>13. ASSUME NEW r \in Requests, Sweep(r)
      PROVE  VersionsFollow'
  BY <1>13 DEF Sweep
<1>14. ASSUME NEW r \in Requests, GiveUp(r)
      PROVE  VersionsFollow'
  BY <1>14 DEF GiveUp
<1>15. ASSUME NEW d \in Devices, Logout(d)
      PROVE  VersionsFollow'
  BY <1>15 DEF Logout
<1>16. ASSUME SetActive \/ SendLink \/ ExpireLink
      PROVE  VersionsFollow'
  BY <1>16 DEF SetActive, SendLink, ExpireLink
<1>17. CASE UNCHANGED vars
  BY <1>17 DEF vars
<1>18. QED
  BY <1>1, <1>2, <1>3, <1>3a, <1>3b, <1>4, <1>5, <1>6, <1>7, <1>8, <1>9, <1>10, <1>11, <1>12, <1>13, <1>14, <1>15, <1>16, <1>17 DEF Next

\* A link takes the place of the former one, and a redeemed link is erased.
LEMMA LinksStep == TypeOK /\ LinksInOrder /\ [Next]_vars => LinksInOrder'
<1> SUFFICES ASSUME TypeOK, LinksInOrder, [Next]_vars PROVE LinksInOrder'
  OBVIOUS
<1> USE DEF TypeOK, Request, Steps, Idle, Carried, server, history, Unissued, Issued, Ends, Revoke, LinksInOrder, LinkMatches
<1>1. ASSUME NEW r \in Requests, NEW d \in Devices, BeginLogin(r, d)
      PROVE  LinksInOrder'
  BY <1>1 DEF BeginLogin
<1>2. ASSUME NEW r \in Requests, NEW d \in Devices, BeginRefresh(r, d)
      PROVE  LinksInOrder'
  BY <1>2 DEF BeginRefresh
<1>3. ASSUME NEW r \in Requests, NEW d \in Devices, BeginChange(r, d)
      PROVE  LinksInOrder'
  BY <1>3 DEF BeginChange
<1>3a. ASSUME NEW r \in Requests, Challenge(r)
      PROVE  LinksInOrder'
  BY <1>3a DEF Challenge
<1>3b. ASSUME NEW r \in Requests, NEW d \in Devices, CompleteMfaLogin(r, d)
      PROVE  LinksInOrder'
  BY <1>3b DEF CompleteMfaLogin
<1>4. ASSUME NEW r \in Requests, OpenSession(r)
      PROVE  LinksInOrder'
  BY <1>4 DEF OpenSession
<1>5. ASSUME NEW r \in Requests, Rotate(r)
      PROVE  LinksInOrder'
  BY <1>5 DEF Rotate
<1>6. ASSUME NEW r \in Requests, FindReuse(r)
      PROVE  LinksInOrder'
  BY <1>6 DEF FindReuse
<1>7. ASSUME NEW r \in Requests, RevokeOnReuse(r)
      PROVE  LinksInOrder'
  BY <1>7 DEF RevokeOnReuse
<1>8. ASSUME NEW r \in Requests, Deliver(r)
      PROVE  LinksInOrder'
  BY <1>8 DEF Deliver
<1>9. ASSUME NEW r \in Requests, LoseAnswer(r)
      PROVE  LinksInOrder'
  BY <1>9 DEF LoseAnswer
<1>10. ASSUME NEW r \in Requests, ChangePassword(r)
      PROVE  LinksInOrder'
  BY <1>10 DEF ChangePassword
<1>11. ASSUME NEW r \in Requests, BeginReset(r)
      PROVE  LinksInOrder'
  BY <1>11 DEF BeginReset
<1>12. ASSUME NEW r \in Requests, Reset(r)
      PROVE  LinksInOrder'
  BY <1>12 DEF Reset
<1>13. ASSUME NEW r \in Requests, Sweep(r)
      PROVE  LinksInOrder'
  BY <1>13 DEF Sweep
<1>14. ASSUME NEW r \in Requests, GiveUp(r)
      PROVE  LinksInOrder'
  BY <1>14 DEF GiveUp
<1>15. ASSUME NEW d \in Devices, Logout(d)
      PROVE  LinksInOrder'
  BY <1>15 DEF Logout
<1>16. ASSUME SetActive \/ SendLink \/ ExpireLink
      PROVE  LinksInOrder'
  <2>1. CASE SetActive
    BY <2>1 DEF SetActive
  <2>2. CASE SendLink
    BY <2>2, BoundsAssumption DEF SendLink
  <2>3. CASE ExpireLink
    BY <2>3, BoundsAssumption DEF ExpireLink
  <2>4. QED
    BY <1>16, <2>1, <2>2, <2>3
<1>17. CASE UNCHANGED vars
  BY <1>17 DEF vars
<1>18. QED
  BY <1>1, <1>2, <1>3, <1>3a, <1>3b, <1>4, <1>5, <1>6, <1>7, <1>8, <1>9, <1>10, <1>11, <1>12, <1>13, <1>14, <1>15, <1>16, <1>17 DEF Next

\* A row goes by an exchange, a clean-up, or with the version.
LEMMA AccountedStep == TypeOK /\ TokensKnown /\ VersionsFollow /\ TokensAccounted /\ [Next]_vars => TokensAccounted'
<1> SUFFICES ASSUME TypeOK, TokensKnown, VersionsFollow, TokensAccounted, [Next]_vars PROVE TokensAccounted'
  OBVIOUS
<1> USE DEF TypeOK, Request, Steps, Idle, Carried, server, history, Unissued, Issued, Ends, Revoke, TokensKnown, VersionsFollow, TokensAccounted, Bearing, RowsAfter, HasRow, Current, Live
<1>1. ASSUME NEW r \in Requests, NEW d \in Devices, BeginLogin(r, d)
      PROVE  TokensAccounted'
  BY <1>1 DEF BeginLogin
<1>2. ASSUME NEW r \in Requests, NEW d \in Devices, BeginRefresh(r, d)
      PROVE  TokensAccounted'
  BY <1>2 DEF BeginRefresh
<1>3. ASSUME NEW r \in Requests, NEW d \in Devices, BeginChange(r, d)
      PROVE  TokensAccounted'
  BY <1>3 DEF BeginChange
<1>3a. ASSUME NEW r \in Requests, Challenge(r)
      PROVE  TokensAccounted'
  BY <1>3a DEF Challenge
<1>3b. ASSUME NEW r \in Requests, NEW d \in Devices, CompleteMfaLogin(r, d)
      PROVE  TokensAccounted'
  BY <1>3b DEF CompleteMfaLogin
<1>4. ASSUME NEW r \in Requests, OpenSession(r)
      PROVE  TokensAccounted'
  BY <1>4 DEF OpenSession
<1>5. ASSUME NEW r \in Requests, Rotate(r)
      PROVE  TokensAccounted'
  BY <1>5 DEF Rotate
<1>6. ASSUME NEW r \in Requests, FindReuse(r)
      PROVE  TokensAccounted'
  BY <1>6 DEF FindReuse
<1>7. ASSUME NEW r \in Requests, RevokeOnReuse(r)
      PROVE  TokensAccounted'
  BY <1>7 DEF RevokeOnReuse
<1>8. ASSUME NEW r \in Requests, Deliver(r)
      PROVE  TokensAccounted'
  BY <1>8 DEF Deliver
<1>9. ASSUME NEW r \in Requests, LoseAnswer(r)
      PROVE  TokensAccounted'
  BY <1>9 DEF LoseAnswer
<1>10. ASSUME NEW r \in Requests, ChangePassword(r)
      PROVE  TokensAccounted'
  BY <1>10 DEF ChangePassword
<1>11. ASSUME NEW r \in Requests, BeginReset(r)
      PROVE  TokensAccounted'
  BY <1>11 DEF BeginReset
<1>12. ASSUME NEW r \in Requests, Reset(r)
      PROVE  TokensAccounted'
  BY <1>12 DEF Reset
<1>13. ASSUME NEW r \in Requests, Sweep(r)
      PROVE  TokensAccounted'
  BY <1>13 DEF Sweep
<1>14. ASSUME NEW r \in Requests, GiveUp(r)
      PROVE  TokensAccounted'
  BY <1>14 DEF GiveUp
<1>15. ASSUME NEW d \in Devices, Logout(d)
      PROVE  TokensAccounted'
  BY <1>15 DEF Logout
<1>16. ASSUME SetActive \/ SendLink \/ ExpireLink
      PROVE  TokensAccounted'
  BY <1>16 DEF SetActive, SendLink, ExpireLink
<1>17. CASE UNCHANGED vars
  BY <1>17 DEF vars
<1>18. QED
  BY <1>1, <1>2, <1>3, <1>3a, <1>3b, <1>4, <1>5, <1>6, <1>7, <1>8, <1>9, <1>10, <1>11, <1>12, <1>13, <1>14, <1>15, <1>16, <1>17 DEF Next

\* A step after which the jars are the same and no request bears another token
\* than before puts no token into other hands.
LEMMA NoNewBearer ==
    ASSUME OneDevice, jar' = jar,
           \A q \in Requests :
               Bearing(q)' => /\ Bearing(q)
                              /\ req'[q].token = req[q].token
                              /\ req'[q].device = req[q].device
    PROVE  OneDevice'
BY DEF OneDevice

\* A token passes from a request to the jar of its device, nowhere else.
LEMMA DeviceStep == TypeOK /\ TokensKnown /\ AnswersAreNew /\ OneDevice /\ [Next]_vars => OneDevice'
<1> SUFFICES ASSUME TypeOK, TokensKnown, AnswersAreNew, OneDevice, [Next]_vars PROVE OneDevice'
  OBVIOUS
<1> USE DEF TypeOK, Request, Steps, Idle, Carried, server, history, Unissued, Issued, Ends, Revoke, TokensKnown, AnswersAreNew, OneDevice, Bearing, Accepted, Current
<1>1. ASSUME NEW r \in Requests, NEW d \in Devices, BeginLogin(r, d)
      PROVE  OneDevice'
  <2>1. jar' = jar /\ req'[r].pc = "loggingIn" /\ \A q \in Requests \ {r} : req'[q] = req[q]
    BY <1>1 DEF BeginLogin
  <2>2. QED
    BY <2>1, NoNewBearer
<1>2. ASSUME NEW r \in Requests, NEW d \in Devices, BeginRefresh(r, d)
      PROVE  OneDevice'
  <2>1. /\ jar' = jar /\ jar[d] # None
        /\ req'[r].token = jar[d] /\ req'[r].device = d
        /\ \A q \in Requests \ {r} : req'[q] = req[q]
    BY <1>2 DEF BeginRefresh
  <2>2. ASSUME NEW e \in Devices, NEW q \in Requests, Bearing(q)', jar[e] = req'[q].token
        PROVE  e = req'[q].device
    <3>1. CASE q = r
      BY <2>1, <2>2, <3>1
    <3>2. CASE q # r
      <4>1. req'[q] = req[q]
        BY <2>1, <3>2
      <4>2. QED
        BY <2>2, <4>1
    <3>3. QED
      BY <3>1, <3>2
  <2>3. ASSUME NEW p \in Requests, NEW q \in Requests, Bearing(p)', Bearing(q)',
               req'[p].token = req'[q].token
        PROVE  req'[p].device = req'[q].device
    <3>1. CASE p = r
      BY <2>1, <2>2, <2>3, <3>1
    <3>2. CASE q = r
      BY <2>1, <2>2, <2>3, <3>2
    <3>3. CASE p # r /\ q # r
      <4>1. req'[p] = req[p] /\ req'[q] = req[q]
        BY <2>1, <3>3
      <4>2. QED
        BY <2>3, <4>1
    <3>4. QED
      BY <3>1, <3>2, <3>3
  <2>4. QED
    BY <2>1, <2>2, <2>3
<1>3. ASSUME NEW r \in Requests, NEW d \in Devices, BeginChange(r, d)
      PROVE  OneDevice'
  <2>1. jar' = jar /\ req'[r].pc = "changing" /\ \A q \in Requests \ {r} : req'[q] = req[q]
    BY <1>3 DEF BeginChange
  <2>2. QED
    BY <2>1, NoNewBearer
<1>3a. ASSUME NEW r \in Requests, Challenge(r)
      PROVE  OneDevice'
  <2>1. jar' = jar /\ req'[r].pc = "challenged" /\ \A q \in Requests \ {r} : req'[q] = req[q]
    BY <1>3a DEF Challenge
  <2>2. QED
    BY <2>1, NoNewBearer
<1>3b. ASSUME NEW r \in Requests, NEW d \in Devices, CompleteMfaLogin(r, d)
      PROVE  OneDevice'
  <2>1. /\ jar' = jar /\ req'[r].pc \in {"loggingIn", "outdated"}
        /\ \A q \in Requests \ {r} : req'[q] = req[q]
    BY <1>3b DEF CompleteMfaLogin
  <2>2. QED
    BY <2>1, NoNewBearer
<1>4. ASSUME NEW r \in Requests, OpenSession(r)
      PROVE  OneDevice'
  <2>1. PICK new \in Unissued :
           /\ rows' = rows \cup {new}
           /\ token' = [token EXCEPT ![new] = [version |-> req[r].version,
                                               password |-> req[r].password]]
           /\ req' = [req EXCEPT ![r].pc = "answered", ![r].token = new]
    BY <1>4 DEF OpenSession
  <2>2. \A q \in Requests \ {r} : req'[q] = req[q]
    BY <2>1
  <2>3. req'[r].pc = "answered" /\ req'[r].token = new /\ req'[r].device = req[r].device
    BY <2>1
  <2>4. /\ \A d \in Devices : jar[d] # new
        /\ \A q \in Requests : Bearing(q) => req[q].token # new
    BY <2>1, NoneAssumption
  <2>5. jar' = jar
    BY <1>4 DEF OpenSession
  <2>6. ASSUME NEW d \in Devices, NEW q \in Requests, Bearing(q)', jar[d] = req'[q].token
        PROVE  d = req'[q].device
    BY SMTT(30), <2>2, <2>3, <2>4, <2>6
  <2>7. ASSUME NEW p \in Requests, NEW q \in Requests, Bearing(p)', Bearing(q)',
               req'[p].token = req'[q].token
        PROVE  req'[p].device = req'[q].device
    <3>1. CASE p = r \/ q = r
      BY <2>2, <2>3, <2>4, <2>7, <3>1
    <3>2. CASE p # r /\ q # r
      <4>1. req'[p] = req[p] /\ req'[q] = req[q]
        BY <2>2, <3>2
      <4>2. QED
        BY <2>7, <4>1
    <3>3. QED
      BY <3>1, <3>2
  <2>8. QED
    BY <2>5, <2>6, <2>7
<1>5. ASSUME NEW r \in Requests, Rotate(r)
      PROVE  OneDevice'
  BY <1>5 DEF Rotate
<1>6. ASSUME NEW r \in Requests, FindReuse(r)
      PROVE  OneDevice'
  <2>1. jar' = jar /\ req'[r].pc = "reused" /\ \A q \in Requests \ {r} : req'[q] = req[q]
    BY <1>6 DEF FindReuse
  <2>2. QED
    BY <2>1, NoNewBearer
<1>7. ASSUME NEW r \in Requests, RevokeOnReuse(r)
      PROVE  OneDevice'
  BY <1>7 DEF RevokeOnReuse
<1>8. ASSUME NEW r \in Requests, Deliver(r)
      PROVE  OneDevice'
  BY <1>8 DEF Deliver
<1>9. ASSUME NEW r \in Requests, LoseAnswer(r)
      PROVE  OneDevice'
  BY <1>9 DEF LoseAnswer
<1>10. ASSUME NEW r \in Requests, ChangePassword(r)
      PROVE  OneDevice'
  BY <1>10 DEF ChangePassword
<1>11. ASSUME NEW r \in Requests, BeginReset(r)
      PROVE  OneDevice'
  BY <1>11 DEF BeginReset
<1>12. ASSUME NEW r \in Requests, Reset(r)
      PROVE  OneDevice'
  <2>1. jar' = jar
    BY <1>12 DEF Reset
  <2>2. \A q \in Requests : Bearing(q)' => Bearing(q) /\ req'[q] = req[q]
    BY <1>12 DEF Reset
  <2>3. QED
    BY <2>1, <2>2, NoNewBearer
<1>13. ASSUME NEW r \in Requests, Sweep(r)
      PROVE  OneDevice'
  BY <1>13 DEF Sweep
<1>14. ASSUME NEW r \in Requests, GiveUp(r)
      PROVE  OneDevice'
  BY <1>14 DEF GiveUp
<1>15. ASSUME NEW d \in Devices, Logout(d)
      PROVE  OneDevice'
  <2>1. \A e \in Devices : jar'[e] \in {jar[e], None}
    BY <1>15 DEF Logout
  <2>2. req' = req
    BY <1>15 DEF Logout
  <2>3. QED
    BY <2>1, <2>2, NoneAssumption
<1>16. ASSUME SetActive \/ SendLink \/ ExpireLink
      PROVE  OneDevice'
  BY <1>16 DEF SetActive, SendLink, ExpireLink
<1>17. CASE UNCHANGED vars
  BY <1>17 DEF vars
<1>18. QED
  BY <1>1, <1>2, <1>3, <1>3a, <1>3b, <1>4, <1>5, <1>6, <1>7, <1>8, <1>9, <1>10, <1>11, <1>12, <1>13, <1>14, <1>15, <1>16, <1>17 DEF Next

\* A token just issued is in its answer and nowhere else.
LEMMA AnswersStep == TypeOK /\ TokensKnown /\ AnswersAreNew /\ OneDevice /\ [Next]_vars => AnswersAreNew'
<1> SUFFICES ASSUME TypeOK, TokensKnown, AnswersAreNew, OneDevice, [Next]_vars PROVE AnswersAreNew'
  OBVIOUS
<1> USE DEF TypeOK, Request, Steps, Idle, Carried, server, history, Unissued, Issued, Ends, Revoke, TokensKnown, AnswersAreNew, Bearing, HasRow, Accepted, Current
<1>1. ASSUME NEW r \in Requests, NEW d \in Devices, BeginLogin(r, d)
      PROVE  AnswersAreNew'
  BY <1>1 DEF BeginLogin
<1>2. ASSUME NEW r \in Requests, NEW d \in Devices, BeginRefresh(r, d)
      PROVE  AnswersAreNew'
  BY <1>2 DEF BeginRefresh
<1>3. ASSUME NEW r \in Requests, NEW d \in Devices, BeginChange(r, d)
      PROVE  AnswersAreNew'
  BY <1>3 DEF BeginChange
<1>3a. ASSUME NEW r \in Requests, Challenge(r)
      PROVE  AnswersAreNew'
  BY <1>3a DEF Challenge
<1>3b. ASSUME NEW r \in Requests, NEW d \in Devices, CompleteMfaLogin(r, d)
      PROVE  AnswersAreNew'
  BY <1>3b DEF CompleteMfaLogin
<1>4. ASSUME NEW r \in Requests, OpenSession(r)
      PROVE  AnswersAreNew'
  <2>1. PICK new \in Unissued :
           /\ rows' = rows \cup {new}
           /\ token' = [token EXCEPT ![new] = [version |-> req[r].version,
                                               password |-> req[r].password]]
           /\ req' = [req EXCEPT ![r].pc = "answered", ![r].token = new]
    BY <1>4 DEF OpenSession
  <2>2. \A q \in Requests \ {r} : req'[q] = req[q]
    BY <2>1
  <2>3. req'[r].pc = "answered" /\ req'[r].token = new /\ req'[r].device = req[r].device
    BY <2>1
  <2>4. /\ \A d \in Devices : jar[d] # new
        /\ \A q \in Requests : Bearing(q) => req[q].token # new
    BY <2>1, NoneAssumption
  <2>5. jar' = jar /\ next'[new] = None
    BY <1>4, <2>1 DEF OpenSession
  <2>6. \A q \in Requests : req[q].pc = "answered" => next'[req[q].token] = None
    BY <1>4, <2>1 DEF OpenSession
  <2>7. ASSUME NEW q \in Requests, req'[q].pc = "answered"
        PROVE  /\ next'[req'[q].token] = None
               /\ \A d \in Devices : jar'[d] # req'[q].token
               /\ \A p \in Requests \ {q} : Bearing(p)' => req'[p].token # req'[q].token
    <3>1. CASE q = r
      BY <2>2, <2>3, <2>4, <2>5, <3>1
    <3>2. CASE q # r
      <4>1. req'[q] = req[q]
        BY <2>2, <3>2
      <4>2. next'[req[q].token] = None /\ \A d \in Devices : jar'[d] # req[q].token
        BY <2>5, <2>6, <2>7, <4>1
      <4>3. ASSUME NEW p \in Requests \ {q}, Bearing(p)'
            PROVE  req'[p].token # req[q].token
        <5>1. CASE p = r
          BY <2>3, <2>4, <2>7, <4>1, <5>1
        <5>2. CASE p # r
          BY <2>2, <2>7, <4>1, <4>3, <5>2
        <5>3. QED
          BY <5>1, <5>2
      <4>4. QED
        BY <4>1, <4>2, <4>3
    <3>3. QED
      BY <3>1, <3>2
  <2>8. QED
    BY <2>7
<1>5. ASSUME NEW r \in Requests, Rotate(r)
      PROVE  AnswersAreNew'
  <2>1. PICK new \in Unissued :
           /\ rows' = RowsAfter(req[r].token, new)
           /\ token' = [token EXCEPT ![new] = [version |-> req[r].version,
                                               password |-> token[req[r].token].password]]
           /\ next' = [next EXCEPT ![req[r].token] = new]
           /\ req' = [req EXCEPT ![r].pc = "answered", ![r].token = new]
    BY <1>5 DEF Rotate
  <2>2. \A q \in Requests \ {r} : req'[q] = req[q]
    BY <2>1
  <2>3. req'[r].pc = "answered" /\ req'[r].token = new /\ req'[r].device = req[r].device
    BY <2>1
  <2>4. /\ \A d \in Devices : jar[d] # new
        /\ \A q \in Requests : Bearing(q) => req[q].token # new
    BY <2>1, NoneAssumption
  <2>5. jar' = jar /\ next'[new] = None
    BY <1>5, <2>1 DEF Rotate
  <2>6. \A q \in Requests \ {r} : req[q].pc = "answered" => next'[req[q].token] = None
    BY <1>5, <2>1 DEF Rotate
  <2>7. ASSUME NEW q \in Requests, req'[q].pc = "answered"
        PROVE  /\ next'[req'[q].token] = None
               /\ \A d \in Devices : jar'[d] # req'[q].token
               /\ \A p \in Requests \ {q} : Bearing(p)' => req'[p].token # req'[q].token
    <3>1. CASE q = r
      BY <2>2, <2>3, <2>4, <2>5, <3>1
    <3>2. CASE q # r
      <4>1. req'[q] = req[q]
        BY <2>2, <3>2
      <4>2. next'[req[q].token] = None /\ \A d \in Devices : jar'[d] # req[q].token
        BY <2>5, <2>6, <2>7, <3>2, <4>1
      <4>3. ASSUME NEW p \in Requests \ {q}, Bearing(p)'
            PROVE  req'[p].token # req[q].token
        <5>1. CASE p = r
          BY <2>3, <2>4, <2>7, <4>1, <5>1
        <5>2. CASE p # r
          BY <2>2, <2>7, <4>1, <4>3, <5>2
        <5>3. QED
          BY <5>1, <5>2
      <4>4. QED
        BY <4>1, <4>2, <4>3
    <3>3. QED
      BY <3>1, <3>2
  <2>8. QED
    BY <2>7
<1>6. ASSUME NEW r \in Requests, FindReuse(r)
      PROVE  AnswersAreNew'
  BY <1>6 DEF FindReuse
<1>7. ASSUME NEW r \in Requests, RevokeOnReuse(r)
      PROVE  AnswersAreNew'
  BY <1>7 DEF RevokeOnReuse
<1>8. ASSUME NEW r \in Requests, Deliver(r)
      PROVE  AnswersAreNew'
  BY <1>8 DEF Deliver
<1>9. ASSUME NEW r \in Requests, LoseAnswer(r)
      PROVE  AnswersAreNew'
  BY <1>9 DEF LoseAnswer
<1>10. ASSUME NEW r \in Requests, ChangePassword(r)
      PROVE  AnswersAreNew'
  BY <1>10 DEF ChangePassword
<1>11. ASSUME NEW r \in Requests, BeginReset(r)
      PROVE  AnswersAreNew'
  BY <1>11 DEF BeginReset
<1>12. ASSUME NEW r \in Requests, Reset(r)
      PROVE  AnswersAreNew'
  BY <1>12 DEF Reset
<1>13. ASSUME NEW r \in Requests, Sweep(r)
      PROVE  AnswersAreNew'
  BY <1>13 DEF Sweep
<1>14. ASSUME NEW r \in Requests, GiveUp(r)
      PROVE  AnswersAreNew'
  BY <1>14 DEF GiveUp
<1>15. ASSUME NEW d \in Devices, Logout(d)
      PROVE  AnswersAreNew'
  <2>1. \A e \in Devices : jar'[e] \in {jar[e], None}
    BY <1>15 DEF Logout
  <2>2. req' = req /\ next' = next
    BY <1>15 DEF Logout
  <2>3. QED
    BY <2>1, <2>2, NoneAssumption
<1>16. ASSUME SetActive \/ SendLink \/ ExpireLink
      PROVE  AnswersAreNew'
  BY <1>16 DEF SetActive, SendLink, ExpireLink
<1>17. CASE UNCHANGED vars
  BY <1>17 DEF vars
<1>18. QED
  BY <1>1, <1>2, <1>3, <1>3a, <1>3b, <1>4, <1>5, <1>6, <1>7, <1>8, <1>9, <1>10, <1>11, <1>12, <1>13, <1>14, <1>15, <1>16, <1>17 DEF Next

\* The token of a jar is exchanged on behalf of its device, which waits for
\* the answer until it comes or is lost.
LEMMA SuccessorsStep == TypeOK /\ TokensKnown /\ AnswersAreNew /\ OneDevice /\ SuccessorsKnown /\ [Next]_vars => SuccessorsKnown'
<1> SUFFICES ASSUME TypeOK, TokensKnown, AnswersAreNew, OneDevice, SuccessorsKnown, [Next]_vars PROVE SuccessorsKnown'
  OBVIOUS
<1> USE DEF TypeOK, Request, Steps, Idle, Carried, server, history, Unissued, Issued, Ends, Revoke, TokensKnown, AnswersAreNew, OneDevice, SuccessorsKnown, Bearing, HasRow
<1>1. ASSUME NEW r \in Requests, NEW d \in Devices, BeginLogin(r, d)
      PROVE  SuccessorsKnown'
  BY <1>1 DEF BeginLogin
<1>2. ASSUME NEW r \in Requests, NEW d \in Devices, BeginRefresh(r, d)
      PROVE  SuccessorsKnown'
  BY <1>2 DEF BeginRefresh
<1>3. ASSUME NEW r \in Requests, NEW d \in Devices, BeginChange(r, d)
      PROVE  SuccessorsKnown'
  BY <1>3 DEF BeginChange
<1>3a. ASSUME NEW r \in Requests, Challenge(r)
      PROVE  SuccessorsKnown'
  BY <1>3a DEF Challenge
<1>3b. ASSUME NEW r \in Requests, NEW d \in Devices, CompleteMfaLogin(r, d)
      PROVE  SuccessorsKnown'
  BY <1>3b DEF CompleteMfaLogin
<1>4. ASSUME NEW r \in Requests, OpenSession(r)
      PROVE  SuccessorsKnown'
  <2>1. PICK new \in Unissued :
           /\ rows' = rows \cup {new}
           /\ token' = [token EXCEPT ![new] = [version |-> req[r].version,
                                               password |-> req[r].password]]
           /\ req' = [req EXCEPT ![r].pc = "answered", ![r].token = new]
    BY <1>4 DEF OpenSession
  <2>2. \A q \in Requests \ {r} : req'[q] = req[q]
    BY <2>1
  <2>3. req'[r].pc = "answered" /\ req'[r].token = new /\ req'[r].device = req[r].device
    BY <2>1
  <2>4. /\ \A d \in Devices : jar[d] # new
        /\ \A q \in Requests : Bearing(q) => req[q].token # new
    BY <2>1, NoneAssumption
  <2>5. jar' = jar /\ next' = next /\ lost' = lost /\ req[r].pc \in {"loggingIn", "outdated"}
    BY <1>4 DEF OpenSession
  <2>6. ASSUME NEW d \in Devices, jar[d] # None, next[jar[d]] # None, next[jar[d]] \notin lost
        PROVE  \E q \in Requests : /\ req'[q].pc = "answered"
                                  /\ req'[q].device = d
                                  /\ req'[q].token = next[jar[d]]
    <3>1. PICK q \in Requests : /\ req[q].pc = "answered"
                                /\ req[q].device = d
                                /\ req[q].token = next[jar[d]]
      BY <2>6
    <3>2. q # r /\ req'[q] = req[q]
      BY <2>2, <2>5, <3>1
    <3>3. QED
      BY <3>1, <3>2
  <2>7. QED
    BY <2>5, <2>6
<1>5. ASSUME NEW r \in Requests, Rotate(r)
      PROVE  SuccessorsKnown'
  <2> DEFINE old == req[r].token
  <2>1. PICK new \in Unissued :
           /\ next' = [next EXCEPT ![old] = new]
           /\ req' = [req EXCEPT ![r].pc = "answered", ![r].token = new]
    BY <1>5 DEF Rotate
  <2>2. jar' = jar /\ lost' = lost /\ req[r].pc = "refreshing" /\ old \in Tokens
    BY <1>5 DEF Rotate
  <2>3. /\ \A q \in Requests \ {r} : req'[q] = req[q]
        /\ req'[r].pc = "answered" /\ req'[r].token = new /\ req'[r].device = req[r].device
    BY <2>1
  <2>4. next'[old] = new /\ \A t \in Tokens \ {old} : next'[t] = next[t]
    BY <2>1, <2>2
  <2>5. ASSUME NEW d \in Devices, jar[d] # None, next'[jar[d]] # None, next'[jar[d]] \notin lost
        PROVE  \E q \in Requests : /\ req'[q].pc = "answered"
                                  /\ req'[q].device = d
                                  /\ req'[q].token = next'[jar[d]]
    <3>1. CASE jar[d] = old
      <4>1. d = req[r].device
        BY <2>2, <3>1
      <4>2. QED
        BY <2>3, <2>4, <3>1, <4>1
    <3>2. CASE jar[d] # old
      <4>1. next'[jar[d]] = next[jar[d]]
        BY <2>4, <2>5, <3>2
      <4>2. PICK q \in Requests : /\ req[q].pc = "answered"
                                  /\ req[q].device = d
                                  /\ req[q].token = next[jar[d]]
        BY <2>5, <4>1
      <4>3. req'[q] = req[q]
        BY <2>2, <2>3, <4>2
      <4>4. QED
        BY <4>1, <4>2, <4>3
    <3>3. QED
      BY <3>1, <3>2
  <2>6. QED
    BY <2>2, <2>5
<1>6. ASSUME NEW r \in Requests, FindReuse(r)
      PROVE  SuccessorsKnown'
  BY <1>6 DEF FindReuse
<1>7. ASSUME NEW r \in Requests, RevokeOnReuse(r)
      PROVE  SuccessorsKnown'
  BY <1>7 DEF RevokeOnReuse
<1>8. ASSUME NEW r \in Requests, Deliver(r)
      PROVE  SuccessorsKnown'
  <2> DEFINE e == req[r].device
  <2>1. /\ next' = next /\ lost' = lost
        /\ jar'[e] = req[r].token /\ next[jar'[e]] = None
        /\ \A d \in Devices \ {e} : jar'[d] = jar[d]
    BY <1>8 DEF Deliver
  <2>2. \A q \in Requests \ {r} : req'[q] = req[q]
    BY <1>8 DEF Deliver
  <2>3. ASSUME NEW d \in Devices, jar'[d] # None, next'[jar'[d]] # None, next'[jar'[d]] \notin lost'
        PROVE  \E q \in Requests : /\ req'[q].pc = "answered"
                                  /\ req'[q].device = d
                                  /\ req'[q].token = next'[jar'[d]]
    <3>1. d # e /\ jar'[d] = jar[d]
      BY <2>1, <2>3
    <3>2. PICK q \in Requests : /\ req[q].pc = "answered"
                                /\ req[q].device = d
                                /\ req[q].token = next[jar[d]]
      BY <2>1, <2>3, <3>1
    <3>3. q # r
      BY <3>1, <3>2
    <3>4. req'[q] = req[q]
      BY <2>2, <3>3
    <3>5. next'[jar'[d]] = next[jar[d]]
      BY <2>1, <3>1
    <3>6. QED
      BY <3>2, <3>4, <3>5
  <2>4. QED
    BY <2>3
<1>9. ASSUME NEW r \in Requests, LoseAnswer(r)
      PROVE  SuccessorsKnown'
  BY <1>9 DEF LoseAnswer
<1>10. ASSUME NEW r \in Requests, ChangePassword(r)
      PROVE  SuccessorsKnown'
  BY <1>10 DEF ChangePassword
<1>11. ASSUME NEW r \in Requests, BeginReset(r)
      PROVE  SuccessorsKnown'
  BY <1>11 DEF BeginReset
<1>12. ASSUME NEW r \in Requests, Reset(r)
      PROVE  SuccessorsKnown'
  BY <1>12 DEF Reset
<1>13. ASSUME NEW r \in Requests, Sweep(r)
      PROVE  SuccessorsKnown'
  BY <1>13 DEF Sweep
<1>14. ASSUME NEW r \in Requests, GiveUp(r)
      PROVE  SuccessorsKnown'
  BY <1>14 DEF GiveUp
<1>15. ASSUME NEW d \in Devices, Logout(d)
      PROVE  SuccessorsKnown'
  BY <1>15 DEF Logout
<1>16. ASSUME SetActive \/ SendLink \/ ExpireLink
      PROVE  SuccessorsKnown'
  BY <1>16 DEF SetActive, SendLink, ExpireLink
<1>17. CASE UNCHANGED vars
  BY <1>17 DEF vars
<1>18. QED
  BY <1>1, <1>2, <1>3, <1>3a, <1>3b, <1>4, <1>5, <1>6, <1>7, <1>8, <1>9, <1>10, <1>11, <1>12, <1>13, <1>14, <1>15, <1>16, <1>17 DEF Next

\* The inductive invariant.
THEOREM SessionsInductive == Spec => []IInv
<1>1. Init => IInv
  BY BoundsAssumption
     DEF Init, IInv, TypeOK, Request, Steps, Idle, Carried, Issued, Unissued, TokensKnown,
         VersionsFollow, TokensFollowPassword, Current, LinksInOrder, TokensAccounted,
         OneDevice, AnswersAreNew, SuccessorsKnown, Bearing
<1>2. IInv /\ [Next]_vars => IInv'
  BY TypeStep, KnownStep, VersionsStep, LinksStep, AccountedStep, DeviceStep, AnswersStep,
     SuccessorsStep DEF IInv
<1>3. QED
  BY <1>1, <1>2, PTL DEF Spec

\* Users, tokens, jars and requests keep their types.
THEOREM SessionTypes == Spec => []TypeOK
<1>1. IInv => TypeOK
  BY DEF IInv
<1>2. QED
  BY <1>1, SessionsInductive, PTL

\* No token of the current version descends from a former password, whatever
\* logins, refreshes, changes and resets overlap, but for a challenge that
\* outlived the password.
THEOREM TokensFollow == Spec => []TokensFollowPassword
<1>1. IInv => TokensFollowPassword
  BY DEF IInv, VersionsFollow
<1>2. QED
  BY <1>1, SessionsInductive, PTL

\* A device finds its token without a row only if the answer that replaces it
\* is on its way or was lost, or a reset has swept it.
THEOREM SignedOut == Spec => []SignedOutForACause
<1>1. IInv => SignedOutForACause
  <2> SUFFICES ASSUME IInv, NEW d \in Devices,
                      jar[d] # None, Current(jar[d]), jar[d] \notin rows
               PROVE  \/ jar[d] \in swept
                      \/ /\ next[jar[d]] # None
                         /\ \/ next[jar[d]] \in lost
                            \/ \E r \in Requests : /\ req[r].pc = "answered"
                                                   /\ req[r].device = d
                                                   /\ req[r].token = next[jar[d]]
    BY DEF SignedOutForACause
  <2>1. jar[d] \in Issued /\ token[jar[d]].version = version /\ version \in Nat
    BY DEF IInv, TokensKnown, Current, TypeOK
  <2>2. jar[d] \in swept \/ next[jar[d]] # None
    BY <2>1 DEF IInv, TokensAccounted
  <2>3. QED
    BY <2>2 DEF IInv, SuccessorsKnown
<1>2. QED
  BY <1>1, SessionsInductive, PTL

\* A reset link changes the password once, and only while it is the last sent.
THEOREM LinksOnce == Spec => LinkWorksOnce
<1>1. IInv /\ [Next]_vars => RedeemsLastLink
  <2> SUFFICES ASSUME IInv, [Next]_vars, NEW l \in 1 .. MaxLinks, redeemed'[l] # redeemed[l]
               PROVE  redeemed[l] = 0 /\ l = sent
    BY DEF RedeemsLastLink
  <2>1. redeemed' = redeemed \/ \E r \in Requests : Reset(r)
    BY DEF Next, vars, server, history, BeginLogin, Challenge, CompleteMfaLogin,
           BeginRefresh, BeginChange, OpenSession, Rotate, FindReuse, RevokeOnReuse, Deliver, LoseAnswer, ChangePassword, BeginReset,
           Sweep, GiveUp, Logout, SetActive, SendLink, ExpireLink
  <2>2. PICK r \in Requests : Reset(r)
    BY <2>1
  <2>3. req[r].link = link /\ redeemed' = [redeemed EXCEPT ![req[r].link] = @ + 1]
    BY <2>2 DEF Reset, LinkMatches
  <2>4. l = link
    BY <2>3 DEF IInv, TypeOK
  <2>5. QED
    BY <2>4 DEF IInv, LinksInOrder, TypeOK
<1>2. QED
  BY <1>1, SessionsInductive, PTL DEF LinkWorksOnce, Spec

-----------------------------------------------------------------------------
(* What SessionPromise says *)

\* When the version moves on or the rows go, every live token is over.
LEMMA AllEnd ==
    ASSUME IInv, next' = next, token' = token,
           \/ version' = version + 1 /\ rows' \subseteq rows
           \/ version' = version /\ rows' = {}
    PROVE  Promise!EndAll
<1>1. Live' = {}
  <2>1. \A t \in rows : token[t].version <= version /\ version \in Nat /\ token[t].version \in Nat
    BY DEF IInv, TypeOK, Carried, TokensKnown, VersionsFollow, Issued, Unissued
  <2>2. QED
    BY <2>1 DEF Live, Current
<1>2. Issued' = Issued /\ Live \subseteq Issued
  BY DEF Issued, Unissued, Live, IInv, TokensKnown
<1>3. QED
  BY <1>1, <1>2 DEF Promise!EndAll

\* A login opens one token; it is over at once if the version has moved.
LEMMA LoginOpens ==
    ASSUME IInv, NEW r \in Requests, OpenSession(r)
    PROVE  \E new \in Promise!Unknown : Promise!Open(new)
<1>1. PICK new \in Unissued :
         /\ rows' = rows \cup {new}
         /\ token' = [token EXCEPT ![new] = [version |-> req[r].version,
                                             password |-> req[r].password]]
  BY DEF OpenSession, history
<1>2. version' = version /\ next' = next
  BY DEF OpenSession, history
<1>3. new \in Tokens /\ new \notin Issued /\ new \notin Live /\ token \in [Tokens -> Carried \cup {None}]
  BY DEF Unissued, Issued, Live, Current, IInv, TypeOK
<1>4. Issued' = Issued \cup {new}
  BY <1>1, <1>3, NoneAssumption DEF Issued, Unissued, IInv, TypeOK, Request, Carried
<1>5. \A t \in rows : Current(t)' <=> Current(t)
  BY <1>1, <1>2, <1>3 DEF Current, IInv, TokensKnown, Issued, Unissued
<1>6. Live' \ {new} = Live
  BY <1>1, <1>3, <1>5 DEF Live
<1>7. new \in Promise!Unknown
  BY <1>3 DEF Promise!Unknown
<1>8. CASE new \in Live'
  <2>1. Live' = Live \cup {new} /\ (Issued \ Live)' = Issued \ Live
    BY <1>3, <1>4, <1>6, <1>8
  <2>2. QED
    BY <1>2, <1>3, <1>7, <2>1 DEF Promise!Open
<1>9. CASE new \notin Live'
  <2>1. Live' = Live /\ (Issued \ Live)' = (Issued \ Live) \cup {new}
    BY <1>3, <1>4, <1>6, <1>9
  <2>2. QED
    BY <1>2, <1>3, <1>7, <2>1 DEF Promise!Open
<1>10. QED
  BY <1>8, <1>9

\* A rotation exchanges a live token for a live one, or one that is over for
\* one that is over: the row of a token says whether it was exchanged before.
LEMMA RotationExchanges ==
    ASSUME IInv, NEW r \in Requests, Rotate(r)
    PROVE  \E new \in Promise!Unknown :
              \/ \E old \in Live : Promise!Exchange(old, new)
              \/ \E old \in Issued \ Live : Promise!ExchangeTooLate(old, new)
<1> DEFINE old == req[r].token
<1>1. PICK new \in Unissued :
         /\ rows' = (rows \ {old}) \cup {new}
         /\ token' = [token EXCEPT ![new] = [version |-> req[r].version,
                                             password |-> token[old].password]]
         /\ next' = [next EXCEPT ![old] = new]
  BY DEF Rotate, RowsAfter
<1>2. /\ version' = version
      /\ old \in rows /\ old \in Issued /\ old \in Tokens
      /\ next[old] = None
      /\ req[r].version = token[old].version
      /\ token \in [Tokens -> Carried \cup {None}]
      /\ token[old] \in Carried
  BY DEF Rotate, HasRow, IInv, TypeOK, TokensKnown, VersionsFollow, Issued, Unissued
<1>3. new \in Tokens /\ new \notin Issued /\ new \notin Live /\ new # old
  BY <1>2 DEF Unissued, Issued, Live, Current
<1> HIDE DEF old
<1>4. Issued' = Issued \cup {new}
  BY <1>1, <1>2, <1>3, NoneAssumption DEF Issued, Unissued, Carried
<1>5. /\ \A t \in rows : Current(t)' <=> Current(t)
      /\ Current(new)' <=> Current(old)
  <2>1. \A t \in rows : token'[t] = token[t]
    BY <1>1, <1>2, <1>3 DEF IInv, TokensKnown, Issued, Unissued
  <2>2. token'[new].version = token[old].version /\ token'[new] # None /\ token[old] # None
    BY <1>1, <1>2, <1>3, NoneAssumption DEF Carried
  <2>3. QED
    BY <1>2, <2>1, <2>2 DEF Current
<1>6. new \in Promise!Unknown
  BY <1>3 DEF Promise!Unknown
<1>7. CASE old \in Live
  <2>1. Live' = (Live \ {old}) \cup {new}
    BY <1>1, <1>2, <1>3, <1>5, <1>7 DEF Live
  <2>2. (Issued \ Live)' = (Issued \ Live) \cup {old}
    BY <1>2, <1>3, <1>4, <2>1
  <2>3. QED
    BY <1>1, <1>2, <1>3, <1>6, <1>7, <2>1, <2>2 DEF Promise!Exchange
<1>8. CASE old \notin Live
  <2>1. Live' = Live
    BY <1>1, <1>2, <1>3, <1>5, <1>8 DEF Live
  <2>2. (Issued \ Live)' = (Issued \ Live) \cup {new}
    BY <1>3, <1>4, <2>1
  <2>3. QED
    BY <1>1, <1>2, <1>3, <1>6, <1>8, <2>1, <2>2 DEF Promise!ExchangeTooLate
<1>9. QED
  BY <1>7, <1>8

\* Every step of the system is a step of the promise or changes nothing of it.
LEMMA PromiseStep == IInv /\ [Next]_vars => [Promise!Next]_(Promise!vars)
<1> SUFFICES ASSUME IInv, [Next]_vars PROVE [Promise!Next]_(Promise!vars)
  OBVIOUS
<1> USE DEF server, history
<1>1. CASE UNCHANGED <<version, rows, token, next>>
  BY <1>1 DEF Promise!vars, Live, Current, Issued, Unissued
<1>2. ASSUME NEW r \in Requests, OpenSession(r) PROVE Promise!Next
  BY <1>2, LoginOpens DEF Promise!Next
<1>3. ASSUME NEW r \in Requests, Rotate(r) PROVE Promise!Next
  BY <1>3, RotationExchanges DEF Promise!Next
<1>4. ASSUME NEW r \in Requests,
             RevokeOnReuse(r) \/ ChangePassword(r) \/ Reset(r) \/ Sweep(r)
      PROVE  Promise!Next
  <2>1. Promise!EndAll
    BY <1>4, AllEnd DEF RevokeOnReuse, ChangePassword, Reset, Sweep, Revoke
  <2>2. QED
    BY <2>1 DEF Promise!Next
<1>5. ASSUME NEW d \in Devices, Logout(d), ~UNCHANGED <<version, rows>> PROVE Promise!Next
  <2>1. Promise!EndAll
    BY <1>5, AllEnd DEF Logout, Revoke
  <2>2. QED
    BY <2>1 DEF Promise!Next
<1>6. QED
  BY <1>1, <1>2, <1>3, <1>4, <1>5
     DEF Next, vars, BeginLogin, Challenge, CompleteMfaLogin, BeginRefresh, BeginChange,
         FindReuse, Deliver, LoseAnswer, BeginReset, GiveUp, Logout, SetActive, SendLink, ExpireLink

\* Sessions implements SessionPromise.
THEOREM SessionsKeepPromise == Spec => KeepsPromise
<1>1. Init => Promise!Init
  BY DEF Init, Promise!Init, Live, Issued, Unissued
<1>2. QED
  BY <1>1, PromiseStep, SessionsInductive, PTL DEF Spec, KeepsPromise, Promise!Spec
=============================================================================
