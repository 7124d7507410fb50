------------------------------- MODULE Access -------------------------------
(***************************************************************************)
(* Who may ask the camera (src/internal/auth, src/internal/rtsp/auth.go    *)
(* and the authorize method of src/internal/onvif/server.go).              *)
(*                                                                         *)
(* A request comes through one of two doors, ONVIF over HTTP or RTSP, with *)
(* Basic or Digest credentials, with a WS-Security UsernameToken, or with  *)
(* none.  A door reads the account from the configuration at several       *)
(* moments of one request, and an administrator may change the account     *)
(* between them.  A refusal with 401 offers a nonce; the answer comes any  *)
(* time later, with the nonces ageing and a cleaner forgetting the old     *)
(* ones.                                                                   *)
(***************************************************************************)
EXTENDS Integers, FiniteSets

CONSTANTS
  Client,      \* ONVIF and RTSP clients
  User, Pass,  \* user names and passwords an account may have
  AuthType,    \* values of auth_type the configuration may have
  Nonce,       \* bound: nonces that are remembered or in a client's hands
  Skew,        \* minutes a client's clock may be off
  NoNonce,     \* no nonce
  Lifetime,    \* minutes a nonce and a UsernameToken are good for
  CleanEvery,  \* minutes between two rounds of cleanupLoop
  MaxChanges   \* bound: changes of the configuration

ASSUME AccessAssumption ==
  /\ AuthType \subseteq {"none", "basic", "Basic", "digest"}
  /\ NoNonce \notin Nonce /\ Skew \subseteq Int /\ 0 \in Skew
  /\ Lifetime \in Nat \ {0} /\ CleanEvery \in Nat \ {0} /\ MaxChanges \in Nat

VARIABLES
  account,     \* auth_type, auth_user and auth_pass of the configuration
  changes,     \* changes made to the configuration
  known,       \* the nonces DigestManager remembers
  age,         \* age of every nonce still in use, in minutes
  sinceClean,  \* minutes since the last round of cleanupLoop
  pc,          \* pc[c]: where the request of c is
  req,         \* req[c]: what c sent
  seen,        \* seen[c]: the account its door has read
  offered,     \* offered[c]: nonces of the 401s to c that c still has
  entitled,    \* history: the credentials of c were right at some moment of its request
  spoiled      \* history: the account changed since the last 401 to c

clockVars == <<known, age, sinceClean>>
requestVars == <<req, seen, offered, entitled, spoiled>>
accessVars == <<account, changes, clockVars, pc, requestVars>>

Account == [auth : AuthType, user : User, pass : Pass]
HeaderSchemes == {"basic", "digest", "malformed"}
TokenKinds == {"PasswordText", "PasswordDigest"}
\* "local" is an FFmpeg worker that publishes from the loopback address.
Schemes == {"absent", "local"} \cup HeaderSchemes \cup TokenKinds
Request ==
  [door : {"onvif", "rtsp"}, open : BOOLEAN, scheme : Schemes, user : User, pass : Pass,
   nonce : Nonce \cup {NoNonce}, skew : Skew]

Places == {"idle", "onvif", "header", "token", "rtsp", "basic", "digest", "challenge",
           "admitted", "refused"}

IsAuthEnabled(a) == a.auth # "none"

ValidateBasicCredentials(a, r) ==
  ~IsAuthEnabled(a) \/ (r.user = a.user /\ r.pass = a.pass)

\* Mutant: the token's time stamp alone makes it good.
VerifyUsernameToken_Stamp(a, r) ==
  r.user = a.user /\ (r.scheme = "PasswordDigest" \/ r.pass = a.pass)

\* A PasswordText token carries no time that is looked at.
VerifyUsernameToken(a, r) ==
  /\ r.user = a.user /\ r.pass = a.pass
  /\ r.scheme = "PasswordDigest" => r.skew \in -Lifetime .. Lifetime

\* GetSystemDateAndTime and GetCapabilities are answered to everybody.
Entitles(a, r) == r.open \/ r.scheme = "local" \/ ValidateBasicCredentials(a, r)

Goto(c, place) == pc' = [pc EXCEPT ![c] = place]

NoRequest == CHOOSE r \in Request : r.nonce = NoNonce /\ r.skew = 0

Init ==
  /\ account \in Account /\ changes = 0
  /\ known = {} /\ age = [n \in Nonce |-> 0] /\ sinceClean = 0
  /\ pc = [c \in Client |-> "idle"]
  /\ req = [c \in Client |-> NoRequest]
  /\ seen = [c \in Client |-> account]
  /\ offered = [c \in Client |-> {}]
  /\ entitled = [c \in Client |-> FALSE]
  /\ spoiled = [c \in Client |-> FALSE]

\* What a client can send: a Digest answers the last challenge or an earlier one,
\* whenever that was.
\* What a scheme does not carry has one value.
WellMade(c, r) ==
  /\ (r.scheme = "digest") = (r.nonce # NoNonce)
  /\ r.scheme = "digest" => r.nonce \in offered[c]
  /\ r.scheme \in TokenKinds \/ r.open => r.door = "onvif"
  /\ r.scheme = "local" => r.door = "rtsp"
  /\ r.scheme # "PasswordDigest" => r.skew = 0
  /\ r.scheme \in {"absent", "local", "malformed"} \/ r.open
       => r.user = NoRequest.user /\ r.pass = NoRequest.pass
  /\ r.open => r.scheme = "absent"

Arrive(c, r) ==
  /\ pc[c] = "idle" /\ WellMade(c, r)
  /\ Goto(c, r.door)
  /\ req' = [req EXCEPT ![c] = r]
  /\ entitled' = [entitled EXCEPT ![c] = Entitles(account, r)]
  /\ UNCHANGED <<account, changes, clockVars, seen, offered, spoiled>>

\* handleDeviceService and authorize of the ONVIF server: an Authorization header goes before a token.
Authorize(c) ==
  /\ pc[c] = "onvif"
  /\ Goto(c, IF req[c].open \/ ~IsAuthEnabled(account) THEN "admitted"
             ELSE IF req[c].scheme \in HeaderSchemes THEN "header"
             ELSE IF req[c].scheme \in TokenKinds THEN "token" ELSE "challenge")
  /\ UNCHANGED <<account, changes, clockVars, requestVars>>

\* What a door does with the header once it has read the account.
ByHeader(c) ==
  /\ seen' = [seen EXCEPT ![c] = account]
  /\ Goto(c, IF ~IsAuthEnabled(account) THEN "admitted"
             ELSE IF req[c].scheme \in {"basic", "digest"} THEN req[c].scheme ELSE "challenge")
  /\ UNCHANGED <<account, changes, clockVars, req, offered, entitled, spoiled>>

CheckHTTP(c) == pc[c] = "header" /\ ByHeader(c)

\* The RTSP server lets its own workers publish whatever the account is.
AuthorizeRequest(c) ==
  /\ pc[c] = "rtsp"
  /\ \/ /\ req[c].scheme = "local" /\ Goto(c, "admitted")
        /\ seen' = [seen EXCEPT ![c] = account]
        /\ UNCHANGED <<account, changes, clockVars, req, offered, entitled, spoiled>>
     \/ req[c].scheme # "local" /\ ByHeader(c)

\* ValidateUsernameToken; a bad token is a fault, without a challenge.
CheckToken(c) ==
  /\ pc[c] = "token"
  /\ Goto(c, IF ~IsAuthEnabled(account) \/ VerifyUsernameToken(account, req[c])
             THEN "admitted" ELSE "refused")
  /\ UNCHANGED <<account, changes, clockVars, requestVars>>

\* Basic credentials are compared with the account as it is by then.
CheckBasic(c) ==
  /\ pc[c] = "basic"
  /\ Goto(c, IF ValidateBasicCredentials(account, req[c]) THEN "admitted" ELSE "challenge")
  /\ UNCHANGED <<account, changes, clockVars, requestVars>>

Expired(n) == age[n] > Lifetime

\* ValidateDigest, with the account the door has read: the user name is looked at
\* first, then the nonce, which goes when it is too old, then the response.
CheckDigest(c) ==
  LET r == req[c]
      sameUser == r.user = seen[c].user
      fresh == r.nonce \in known /\ ~Expired(r.nonce)
  IN /\ pc[c] = "digest"
     /\ known' = IF sameUser /\ ~fresh THEN known \ {r.nonce} ELSE known
     /\ Goto(c, IF sameUser /\ fresh /\ r.pass = seen[c].pass THEN "admitted" ELSE "challenge")
     /\ UNCHANGED <<account, changes, age, sinceClean, requestVars>>

\* A nonce nobody has: 16 random bytes.
Unused(n) == n \notin known /\ \A c \in Client : n \notin offered[c]

\* The 401.  HTTP asks for Basic only when auth_type is exactly "basic", as it is
\* by then; RTSP whatever its case is, as it was when the request was read.  The
\* client may go on using nonces it has.
Challenge(c) ==
  LET basic == IF req[c].door = "rtsp" THEN seen[c].auth \in {"basic", "Basic"}
               ELSE account.auth = "basic"
  IN /\ pc[c] = "challenge"
     /\ Goto(c, "refused")
     /\ \/ basic /\ UNCHANGED <<clockVars, offered, spoiled>>
        \/ ~basic /\ \E n \in Nonce :
             /\ Unused(n)
             /\ known' = known \cup {n} /\ age' = [age EXCEPT ![n] = 0]
             /\ \E kept \in SUBSET offered[c] : offered' = [offered EXCEPT ![c] = kept \cup {n}]
             /\ spoiled' = [spoiled EXCEPT ![c] = FALSE]
             /\ UNCHANGED sinceClean
     /\ UNCHANGED <<account, changes, req, seen, entitled>>

\* The request is over: its answer is on the way.
Finish(c) ==
  /\ Goto(c, "idle")
  /\ req' = [req EXCEPT ![c] = NoRequest]
  /\ seen' = [seen EXCEPT ![c] = CHOOSE a \in Account : TRUE]
  /\ entitled' = [entitled EXCEPT ![c] = FALSE]
  /\ UNCHANGED <<account, changes, clockVars, offered, spoiled>>

Refused(c) == pc[c] = "refused" /\ Finish(c)

\* The handler answers; what it answers is in OnvifService and in RtspServer.
Served(c) == pc[c] = "admitted" /\ Finish(c)

Check(c) ==
  \/ Authorize(c) \/ CheckHTTP(c) \/ AuthorizeRequest(c)
  \/ CheckToken(c) \/ CheckBasic(c) \/ CheckDigest(c) \/ Challenge(c)

\* PUT /api/config and a factory reset give the configuration another account.
ChangeAccount(a) ==
  /\ changes < MaxChanges /\ changes' = changes + 1
  /\ account' = a
  /\ entitled' = [c \in Client |-> entitled[c] \/ (pc[c] # "idle" /\ Entitles(a, req[c]))]
  /\ spoiled' = [c \in Client |-> spoiled[c] \/ (offered[c] # {} /\ a # account)]
  /\ UNCHANGED <<clockVars, pc, req, seen, offered>>

\* A minute passes.  The ages of nonces nobody holds are not told apart.
Tick ==
  /\ sinceClean < CleanEvery /\ sinceClean' = sinceClean + 1
  /\ age' = [n \in Nonce |-> IF Unused(n) THEN 0
                             ELSE IF age[n] > Lifetime + CleanEvery THEN age[n] ELSE age[n] + 1]
  /\ UNCHANGED <<account, changes, known, pc, requestVars>>

\* Mutants: forgets a nonce in the minute it is still good for; late by one.
Outlived_Early == {n \in known : age[n] >= Lifetime}
Outlived_Late == {n \in known : age[n] > Lifetime + CleanEvery}
Outlived == {n \in known : Expired(n)}

\* A round of cleanupLoop.
Cleanup ==
  /\ sinceClean = CleanEvery /\ sinceClean' = 0
  /\ known' = known \ Outlived
  /\ UNCHANGED <<account, changes, age, pc, requestVars>>

Next ==
  \/ \E c \in Client :
       \/ pc[c] = "idle" /\ \E r \in Request : Arrive(c, r)
       \/ Check(c) \/ Refused(c) \/ Served(c)
  \/ \E a \in Account : ChangeAccount(a)
  \/ Tick \/ Cleanup

Spec == Init /\ [][Next]_accessVars

-----------------------------------------------------------------------------
(* Properties.                                                             *)

AccessTypeOK ==
  /\ account \in Account /\ changes \in 0 .. MaxChanges
  /\ known \subseteq Nonce /\ age \in [Nonce -> 0 .. Lifetime + CleanEvery + 1]
  /\ sinceClean \in 0 .. CleanEvery
  /\ pc \in [Client -> Places] /\ req \in [Client -> Request] /\ seen \in [Client -> Account]
  /\ offered \in [Client -> SUBSET Nonce]
  /\ entitled \in [Client -> BOOLEAN] /\ spoiled \in [Client -> BOOLEAN]

\* Nobody is let in on credentials that were wrong all the time: however often the
\* account is read and changed during a request, one that is admitted had, at some
\* moment of it, the credentials of the account, or needed none.
AdmittedWereEntitled ==
  \A c \in Client : pc[c] = "admitted" => entitled[c]

\* A Digest answer with the right user and password is accepted as long as the
\* nonce is good, however late it comes, whatever nonces were offered since and
\* however the cleaner runs beside it, unless the account has changed since the
\* last challenge.
GoodAnswerAdmitted ==
  [][\A c \in Client :
       /\ pc[c] = "digest" /\ pc'[c] = "challenge"
       /\ req[c].user = account.user /\ req[c].pass = account.pass
       => spoiled[c] \/ Expired(req[c].nonce)]_accessVars

\* A nonce nobody answers is forgotten, so that challenges do not pile up: the
\* cleaner leaves none older than a lifetime and one of its own periods.
NoncesForgotten ==
  \A n \in known : age[n] <= Lifetime + CleanEvery

-----------------------------------------------------------------------------
(* The inductive invariant.                                                *)

\* Credentials that are right now, or were for the account a door has read, have
\* been right at some moment of the request.
EntitledInv ==
  \A c \in Client :
    /\ pc[c] # "idle" /\ Entitles(account, req[c]) => entitled[c]
    /\ pc[c] \in {"basic", "digest"} /\ Entitles(seen[c], req[c]) => entitled[c]

\* A Digest answer brings a nonce its client was offered, until it is challenged
\* again.
AnswerInv ==
  \A c \in Client :
    /\ pc[c] = "digest" => req[c].scheme = "digest"
    /\ pc[c] \notin {"idle", "refused"} /\ req[c].scheme = "digest"
         => req[c].nonce \in offered[c]

\* A nonce in a client's hands is remembered until it expires.
OfferInv ==
  \A c \in Client : \A n \in offered[c] : n \in known \/ Expired(n)

\* A door works with the account as it is unless that has changed since the challenge.
UnspoiledInv ==
  \A c \in Client : pc[c] = "digest" /\ ~spoiled[c] => seen[c] = account

\* What is remembered is as young as the last round of the cleaner left it.
AgeInv == \A n \in known : age[n] <= Lifetime + sinceClean

AccessInv ==
  /\ AccessTypeOK /\ EntitledInv /\ AdmittedWereEntitled
  /\ AnswerInv /\ OfferInv /\ UnspoiledInv /\ AgeInv

=============================================================================
