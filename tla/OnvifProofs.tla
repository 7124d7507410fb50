----------------------------- MODULE OnvifProofs -----------------------------
(***************************************************************************)
(* Proofs about ONVIF.  Access and Discovery: who is let in and who is     *)
(* answered, for any number of clients, accounts, nonces and datagrams,    *)
(* and every lifetime and period of the cleaner.  OnvifService: what is    *)
(* answered, for every configuration that validation lets in.              *)
(***************************************************************************)
EXTENDS Access, Discovery, OnvifService, ListLemmas

-----------------------------------------------------------------------------
(* Access.                                                                 *)

\* There is an account, so there is a request without credentials.
LEMMA NoRequestIsOne ==
  ASSUME account \in Account
  PROVE  NoRequest \in Request /\ NoRequest.nonce = NoNonce /\ NoRequest.skew = 0
  <1> DEFINE r == [door |-> "onvif", open |-> FALSE, scheme |-> "absent", user |-> account.user,
                   pass |-> account.pass, nonce |-> NoNonce, skew |-> 0]
  <1>1. r \in Request
    BY AccessAssumption DEF Request, Account, Schemes
  <1>2. r.nonce = NoNonce /\ r.skew = 0
    OBVIOUS
  <1> HIDE DEF r
  <1>3. QED
    BY <1>1, <1>2 DEF NoRequest

\* Nobody has asked for anything.
LEMMA InitAccessInv == Init => AccessInv
  <1> SUFFICES ASSUME Init PROVE AccessInv
    OBVIOUS
  <1> USE AccessAssumption DEF Init
  <1>1. account \in Account
    OBVIOUS
  <1>2. age \in [Nonce -> 0 .. Lifetime + CleanEvery + 1] /\ sinceClean \in 0 .. CleanEvery /\ changes \in 0 .. MaxChanges
    OBVIOUS
  <1>3. pc \in [Client -> Places] /\ req \in [Client -> Request]
    BY <1>1, NoRequestIsOne DEF Places
  <1>4. seen \in [Client -> Account] /\ offered \in [Client -> SUBSET Nonce]
    BY <1>1
  <1>5. entitled \in [Client -> BOOLEAN] /\ spoiled \in [Client -> BOOLEAN]
    OBVIOUS
  <1>6. AccessTypeOK
    BY <1>1, <1>2, <1>3, <1>4, <1>5 DEF AccessTypeOK
  <1>7. EntitledInv /\ AdmittedWereEntitled /\ AnswerInv /\ OfferInv /\ UnspoiledInv /\ AgeInv
    BY DEF EntitledInv, AdmittedWereEntitled, AnswerInv, OfferInv, UnspoiledInv, AgeInv
  <1>8. QED
    BY <1>6, <1>7 DEF AccessInv

\* A request comes in, is worked on by one door and ends.
LEMMA ClientStep ==
  ASSUME AccessInv, NEW c \in Client,
         (\E r \in Request : Arrive(c, r)) \/ Check(c) \/ Refused(c) \/ Served(c)
  PROVE  AccessInv'
  <1> USE AccessAssumption DEF AccessInv, AccessTypeOK, clockVars, requestVars, Goto
  <1>1. ASSUME NEW r \in Request, Arrive(c, r) PROVE AccessInv'
    <2>1. AccessTypeOK'
      <3>1. entitled' \in [Client -> BOOLEAN]
        BY <1>1 DEF Arrive, Entitles, Request
      <3>2. QED
        BY <1>1, <3>1 DEF Arrive, Places, Request
    <2>2. EntitledInv' /\ AdmittedWereEntitled'
      BY <1>1 DEF Arrive, EntitledInv, AdmittedWereEntitled, Request
    <2>3. AnswerInv' /\ OfferInv' /\ UnspoiledInv' /\ AgeInv'
      BY <1>1 DEF Arrive, WellMade, AnswerInv, OfferInv, Expired, UnspoiledInv, AgeInv, Request
    <2>4. QED
      BY <2>1, <2>2, <2>3
  <1>2. CASE Authorize(c)
    <2>1. AccessTypeOK'
      BY <1>2 DEF Authorize, Places
    <2>2. EntitledInv' /\ AdmittedWereEntitled'
      BY <1>2 DEF Authorize, EntitledInv, AdmittedWereEntitled, Entitles, ValidateBasicCredentials
    <2>3. AnswerInv' /\ OfferInv' /\ UnspoiledInv' /\ AgeInv'
      BY <1>2 DEF Authorize, AnswerInv, OfferInv, Expired, UnspoiledInv, AgeInv
    <2>4. QED
      BY <2>1, <2>2, <2>3
  <1>3. ASSUME pc[c] \in {"header", "rtsp"}, ByHeader(c) PROVE AccessInv'
    <2>1. AccessTypeOK'
      BY <1>3 DEF ByHeader, Places
    <2>2. EntitledInv' /\ AdmittedWereEntitled'
      BY <1>3 DEF ByHeader, EntitledInv, AdmittedWereEntitled, Entitles, ValidateBasicCredentials
    <2>3. AnswerInv' /\ OfferInv' /\ UnspoiledInv' /\ AgeInv'
      BY <1>3 DEF ByHeader, AnswerInv, OfferInv, Expired, UnspoiledInv, AgeInv
    <2>4. QED
      BY <2>1, <2>2, <2>3
  <1>4. CASE pc[c] = "rtsp" /\ req[c].scheme = "local" /\ AuthorizeRequest(c)
    <2>1. AccessTypeOK'
      BY <1>4 DEF AuthorizeRequest, Places
    <2>2. EntitledInv' /\ AdmittedWereEntitled'
      BY <1>4 DEF AuthorizeRequest, EntitledInv, AdmittedWereEntitled, Entitles
    <2>3. AnswerInv' /\ OfferInv' /\ UnspoiledInv' /\ AgeInv'
      BY <1>4 DEF AuthorizeRequest, AnswerInv, OfferInv, Expired, UnspoiledInv, AgeInv
    <2>4. QED
      BY <2>1, <2>2, <2>3
  <1>5. CASE CheckToken(c)
    <2>1. AccessTypeOK'
      BY <1>5 DEF CheckToken, Places
    <2>2. EntitledInv' /\ AdmittedWereEntitled'
      BY <1>5 DEF CheckToken, VerifyUsernameToken, EntitledInv, AdmittedWereEntitled, Entitles, ValidateBasicCredentials
    <2>3. AnswerInv' /\ OfferInv' /\ UnspoiledInv' /\ AgeInv'
      BY <1>5 DEF CheckToken, AnswerInv, OfferInv, Expired, UnspoiledInv, AgeInv
    <2>4. QED
      BY <2>1, <2>2, <2>3
  <1>6. CASE CheckBasic(c)
    <2>1. AccessTypeOK'
      BY <1>6 DEF CheckBasic, Places
    <2>2. EntitledInv' /\ AdmittedWereEntitled'
      BY <1>6 DEF CheckBasic, EntitledInv, AdmittedWereEntitled, Entitles
    <2>3. AnswerInv' /\ OfferInv' /\ UnspoiledInv' /\ AgeInv'
      BY <1>6 DEF CheckBasic, AnswerInv, OfferInv, Expired, UnspoiledInv, AgeInv
    <2>4. QED
      BY <2>1, <2>2, <2>3
  <1>7. CASE CheckDigest(c)
    <2>1. AccessTypeOK'
      BY <1>7 DEF CheckDigest, Places
    <2>2. EntitledInv' /\ AdmittedWereEntitled'
      BY <1>7 DEF CheckDigest, EntitledInv, AdmittedWereEntitled, Entitles, ValidateBasicCredentials
    <2>3. AnswerInv' /\ OfferInv' /\ UnspoiledInv' /\ AgeInv'
      BY <1>7 DEF CheckDigest, AnswerInv, OfferInv, Expired, UnspoiledInv, AgeInv
    <2>4. QED
      BY <2>1, <2>2, <2>3
  <1>8. CASE Challenge(c)
    <2>1. AccessTypeOK'
      <3>1. age' \in [Nonce -> 0 .. Lifetime + CleanEvery + 1]
        BY <1>8 DEF Challenge
      <3>2. known' \subseteq Nonce /\ offered' \in [Client -> SUBSET Nonce]
        BY <1>8 DEF Challenge
      <3>3. spoiled' \in [Client -> BOOLEAN] /\ sinceClean' \in 0 .. CleanEvery
        BY <1>8 DEF Challenge
      <3>4. pc' \in [Client -> Places] /\ UNCHANGED <<account, changes, req, seen, entitled>>
        BY <1>8 DEF Challenge, Places
      <3>5. QED
        BY <3>1, <3>2, <3>3, <3>4
    <2>2. EntitledInv' /\ AdmittedWereEntitled'
      BY <1>8 DEF Challenge, EntitledInv, AdmittedWereEntitled
    <2>3. AnswerInv' /\ UnspoiledInv'
      BY <1>8 DEF Challenge, AnswerInv, UnspoiledInv
    <2>4. OfferInv' /\ AgeInv'
      BY <1>8 DEF Challenge, Unused, OfferInv, Expired, AgeInv
    <2>5. QED
      BY <2>1, <2>2, <2>3, <2>4
  <1>9. ASSUME Finish(c) PROVE AccessInv'
    <2>1. AccessTypeOK'
      <3>1. (CHOOSE a \in Account : TRUE) \in Account
        OBVIOUS
      <3>2. NoRequest \in Request
        BY NoRequestIsOne
      <3>3. QED
        BY <1>9, <3>1, <3>2 DEF Finish, Places
    <2>2. EntitledInv' /\ AdmittedWereEntitled'
      BY <1>9 DEF Finish, EntitledInv, AdmittedWereEntitled
    <2>3. AnswerInv' /\ OfferInv' /\ UnspoiledInv' /\ AgeInv'
      BY <1>9 DEF Finish, AnswerInv, OfferInv, Expired, UnspoiledInv, AgeInv
    <2>4. QED
      BY <2>1, <2>2, <2>3
  <1>10. CASE CheckHTTP(c) \/ AuthorizeRequest(c)
    BY <1>3, <1>4, <1>10 DEF CheckHTTP, AuthorizeRequest
  <1>11. QED
    BY <1>1, <1>2, <1>5, <1>6, <1>7, <1>8, <1>9, <1>10 DEF Check, Refused, Served

\* The account changes under the requests, and time goes by.
LEMMA WorldStep ==
  ASSUME AccessInv, (\E a \in Account : ChangeAccount(a)) \/ Tick \/ Cleanup
  PROVE  AccessInv'
  <1> USE AccessAssumption DEF AccessInv, AccessTypeOK, clockVars, requestVars
  <1>1. ASSUME NEW a \in Account, ChangeAccount(a) PROVE AccessInv'
    <2>1. changes' \in 0 .. MaxChanges
      BY <1>1 DEF ChangeAccount
    <2>2. entitled' \in [Client -> BOOLEAN] /\ spoiled' \in [Client -> BOOLEAN]
      BY <1>1 DEF ChangeAccount
    <2>3. AccessTypeOK'
      BY <1>1, <2>1, <2>2 DEF ChangeAccount
    <2>4. EntitledInv' /\ AdmittedWereEntitled'
      BY <1>1 DEF ChangeAccount, EntitledInv, AdmittedWereEntitled
    <2>5. AnswerInv' /\ OfferInv' /\ UnspoiledInv' /\ AgeInv'
      BY <1>1 DEF ChangeAccount, AnswerInv, OfferInv, Expired, UnspoiledInv, AgeInv
    <2>6. QED
      BY <2>3, <2>4, <2>5
  <1>2. CASE Tick
    <2>1. /\ age' \in [Nonce -> 0 .. Lifetime + CleanEvery + 1] /\ sinceClean' \in 0 .. CleanEvery
          /\ \A n \in Nonce : Unused(n) \/ age'[n] \in {age[n], age[n] + 1}
          /\ \A n \in known : age'[n] \in {age[n], age[n] + 1}
      BY <1>2 DEF Tick, Unused
    <2>2. AccessTypeOK'
      BY <1>2, <2>1 DEF Tick
    <2>3. EntitledInv' /\ AdmittedWereEntitled' /\ AnswerInv' /\ UnspoiledInv'
      BY <1>2 DEF Tick, EntitledInv, AdmittedWereEntitled, AnswerInv, UnspoiledInv
    <2>4. OfferInv'
      BY <1>2, <2>1 DEF Tick, OfferInv, Expired, Unused
    <2>5. AgeInv'
      BY <1>2, <2>1 DEF Tick, AgeInv
    <2>6. QED
      BY <2>2, <2>3, <2>4, <2>5
  <1>3. CASE Cleanup
    <2>1. AccessTypeOK'
      BY <1>3 DEF Cleanup
    <2>2. EntitledInv' /\ AdmittedWereEntitled' /\ AnswerInv' /\ UnspoiledInv'
      BY <1>3 DEF Cleanup, EntitledInv, AdmittedWereEntitled, AnswerInv, UnspoiledInv
    <2>3. OfferInv' /\ AgeInv'
      BY <1>3 DEF Cleanup, Outlived, Expired, OfferInv, AgeInv
    <2>4. QED
      BY <2>1, <2>2, <2>3
  <1>4. QED
    BY <1>1, <1>2, <1>3

\* The inductive invariant of the doors holds in every reachable state.
THEOREM AccessInvariant == Spec => []AccessInv
  <1>1. AccessInv /\ [Next]_accessVars => AccessInv'
    <2> SUFFICES ASSUME AccessInv, [Next]_accessVars PROVE AccessInv'
      OBVIOUS
    <2>1. CASE Next
      BY <2>1, ClientStep, WorldStep DEF Next
    <2>2. CASE UNCHANGED accessVars
      BY <2>2 DEF accessVars, clockVars, requestVars, AccessInv, AccessTypeOK, EntitledInv,
         AdmittedWereEntitled, AnswerInv, OfferInv, Expired, UnspoiledInv, AgeInv
    <2>3. QED
      BY <2>1, <2>2
  <1>2. QED
    BY <1>1, InitAccessInv, PTL DEF Spec

\* However the account changes while it is read, nobody is let in whose credentials
\* were wrong all the time.
THEOREM OnlyTheEntitledEnter == Spec => []AdmittedWereEntitled
  <1>1. AccessInv => AdmittedWereEntitled
    BY DEF AccessInv
  <1>2. QED
    BY <1>1, AccessInvariant, PTL

\* No nonce outlives its lifetime by more than a period of the cleaner.
THEOREM NoncesDoNotPileUp == Spec => []NoncesForgotten
  <1>1. AccessInv => NoncesForgotten
    BY AccessAssumption DEF AccessInv, AccessTypeOK, AgeInv, NoncesForgotten
  <1>2. QED
    BY <1>1, AccessInvariant, PTL

\* A right answer to a nonce that is still good is accepted, unless the account has
\* changed since the last challenge.
THEOREM RightAnswersEnter == Spec => GoodAnswerAdmitted
  <1> DEFINE Turned(c) == /\ pc[c] = "digest" /\ pc'[c] = "challenge"
                          /\ req[c].user = account.user /\ req[c].pass = account.pass
  <1>1. ASSUME AccessInv, Next, NEW c \in Client, Turned(c)
        PROVE  spoiled[c] \/ Expired(req[c].nonce)
    <2> USE AccessAssumption DEF AccessInv, AccessTypeOK
    <2>1. ASSUME NEW d \in Client, ~CheckDigest(c),
                 (\E r \in Request : Arrive(d, r)) \/ Check(d) \/ Refused(d) \/ Served(d)
          PROVE  FALSE
      BY <1>1, <2>1 DEF Check, Arrive, Authorize, CheckHTTP, ByHeader, AuthorizeRequest, CheckToken,
         CheckBasic, CheckDigest, Challenge, Refused, Served, Finish, Goto
    <2>2. CheckDigest(c)
      BY <1>1, <2>1 DEF Next, ChangeAccount, Tick, Cleanup
    <2>3. SUFFICES ASSUME ~spoiled[c], ~Expired(req[c].nonce) PROVE FALSE
      OBVIOUS
    <2>4. seen[c] = account
      BY <1>1, <2>3 DEF UnspoiledInv
    <2>5. req[c].nonce \in known
      BY <1>1, <2>3 DEF AnswerInv, OfferInv
    <2>6. QED
      BY <1>1, <2>2, <2>3, <2>4, <2>5 DEF CheckDigest, Goto
  <1>2. AccessInv /\ [Next]_accessVars
          => [\A c \in Client : Turned(c) => spoiled[c] \/ Expired(req[c].nonce)]_accessVars
    BY <1>1
  <1>3. QED
    BY <1>2, AccessInvariant, PTL DEF Spec, GoodAnswerAdmitted

-----------------------------------------------------------------------------
(* Discovery.                                                              *)

\* The inductive invariant of discovery holds in every reachable state.
THEOREM DiscoveryInvariant == DiscoverySpec => []DiscoveryInv
  <1> USE DiscoveryAssumption DEF Number
  <1>1. DiscoveryInit => DiscoveryInv
    BY DEF DiscoveryInit, DiscoveryInv, DiscoveryTypeOK, GoroutineInv, BufferInv, AnswersRelate
  <1>2. DiscoveryInv /\ [DiscoveryNext]_discoveryVars => DiscoveryInv'
    <2> SUFFICES ASSUME DiscoveryInv, [DiscoveryNext]_discoveryVars PROVE DiscoveryInv'
      OBVIOUS
    <2> USE DEF DiscoveryInv, DiscoveryTypeOK, Step
    <2>1. ASSUME NEW d \in Datagram, Read(d) PROVE DiscoveryInv'
      <3>1. count' \in 0 .. MaxDatagrams
        BY <2>1 DEF Read
      <3>2. DiscoveryTypeOK'
        BY <2>1, <3>1 DEF Read
      <3>3. GoroutineInv'
        BY <2>1 DEF Read, GoroutineInv
      <3>4. BufferInv' /\ AnswersRelate'
        BY <2>1 DEF Read, BufferInv, AnswersRelate
      <3>5. QED
        BY <3>2, <3>3, <3>4
    <2>2. CASE Copied
      <3>1. DiscoveryTypeOK' /\ GoroutineInv'
        BY <2>2 DEF Copied, GoroutineInv
      <3>2. BufferInv' /\ AnswersRelate'
        BY <2>2 DEF Copied, BufferInv, AnswersRelate
      <3>3. QED
        BY <3>1, <3>2
    <2>3. CASE Decide
      <3>1. DiscoveryTypeOK' /\ GoroutineInv'
        BY <2>3 DEF Decide, GoroutineInv
      <3>2. BufferInv'
        BY <2>3 DEF Decide, GoroutineInv, BufferInv
      <3>3. AnswersRelate'
        BY <2>3 DEF Decide, GoroutineInv, AnswersRelate
      <3>4. QED
        BY <3>1, <3>2, <3>3
    <2>4. ASSUME NEW i \in Number, BuildProbeMatches(i) PROVE DiscoveryInv'
      <3>1. PICK id \in ProbeMessageID(payload[i].size) : relates' = [relates EXCEPT ![i] = id]
        BY <2>4 DEF BuildProbeMatches
      <3>2. id \in Prober \cup {Placeholder}
        BY <3>1 DEF ProbeMessageID, ParsedAs, Datagram, Blank
      <3>3. DiscoveryTypeOK' /\ GoroutineInv'
        BY <2>4, <3>1, <3>2 DEF BuildProbeMatches, GoroutineInv
      <3>4. BufferInv'
        BY <2>4, <3>1 DEF BuildProbeMatches, BufferInv, ProbeMessageID
      <3>5. AnswersRelate'
        BY <2>4, <3>1 DEF BuildProbeMatches, GoroutineInv, AnswersRelate
      <3>6. QED
        BY <3>3, <3>4, <3>5
    <2>5. ASSUME NEW i \in Number, WriteToUDP(i) PROVE DiscoveryInv'
      <3>1. replies' \subseteq replies \cup {<<i, payload[i].from, relates[i]>>}
        BY <2>5 DEF WriteToUDP, Sender
      <3>2. DiscoveryTypeOK' /\ GoroutineInv'
        BY <2>5, <3>1 DEF WriteToUDP, GoroutineInv
      <3>3. BufferInv' /\ AnswersRelate'
        BY <2>5, <3>1 DEF WriteToUDP, BufferInv, AnswersRelate
      <3>4. QED
        BY <3>2, <3>3
    <2>6. CASE CloseDiscovery \/ LoopEnds \/ UNCHANGED discoveryVars
      BY <2>6 DEF CloseDiscovery, LoopEnds, discoveryVars, GoroutineInv, BufferInv, AnswersRelate
    <2>7. QED
      BY <2>1, <2>2, <2>3, <2>4, <2>5, <2>6 DEF DiscoveryNext
  <1>3. QED
    BY <1>1, <1>2, PTL DEF DiscoverySpec

\* Every answer goes to the prober it is for, under the identity of its probe unless
\* that was written over before it was parsed.
THEOREM ProbersAreAnswered == DiscoverySpec => []AnswersRelate
  <1>1. DiscoveryInv => AnswersRelate
    BY DEF DiscoveryInv
  <1>2. QED
    BY <1>1, DiscoveryInvariant, PTL

-----------------------------------------------------------------------------
(* OnvifService: what is listed resolves.                                  *)

\* Where no place is asked for, nothing is selected.
LEMMA SelectedNone ==
  ASSUME NEW S, NEW s \in Seq(S), NEW I, \A i \in 1 .. Len(s) : i \notin I
  PROVE  Selected(s, I) = << >>
  <1>1. Selected(s, I) \in Seq(S) /\ \E m : Comes(m, Selected(s, I), s, I, Len(s))
    BY SelectedComes
  <1> DEFINE t == Selected(s, I)
  <1> HIDE DEF t
  <1>2. 1 \notin 1 .. Len(t)
    BY <1>1 DEF Comes, t
  <1>3. t \in Seq(S) /\ t = << >>
    BY <1>1, <1>2 DEF t
  <1>4. QED
    BY <1>3 DEF t

\* The profile of a token is found, and no other.
LEMMA CalledAlone ==
  ASSUME Configured, NEW i \in 1 .. Len(config.profiles)
  PROVE  ProfilesCalled(config, config.profiles[i].token) = <<config.profiles[i]>>
  <1> DEFINE s == config.profiles
             I == {j \in DOMAIN s : s[j].token = s[i].token}
  <1>1. s \in Seq(Settings) /\ DOMAIN s = 1 .. Len(s)
    BY DEF Configured
  <1>2. \A j \in 1 .. Len(s) : j \in I <=> j = i
    BY <1>1 DEF Configured, Validate
  <1> HIDE DEF s, I
  <1>3. Selected(s, I) = <<s[i]>>
    BY <1>1, <1>2, SelectedOne DEF s
  <1>4. QED
    BY <1>3 DEF s, I, ProfilesCalled

\* Of one profile it is known whether it sounds.
LEMMA SoundOfOne ==
  ASSUME NEW p \in Settings
  PROVE  WithSound(<<p>>) = IF p.audio.enabled THEN <<p>> ELSE << >>
  <1> DEFINE s == <<p>>
             I == {j \in DOMAIN s : s[j].audio.enabled}
  <1>1. s \in Seq(Settings) /\ Len(s) = 1 /\ s[1] = p
    OBVIOUS
  <1>2. \A j \in 1 .. Len(s) : j \in I <=> p.audio.enabled
    OBVIOUS
  <1> HIDE DEF s, I
  <1>3. CASE p.audio.enabled
    <2>1. 1 \in 1 .. Len(s) /\ \A j \in 1 .. Len(s) : j \in I <=> j = 1
      BY <1>1, <1>2, <1>3
    <2>2. Selected(s, I) = <<s[1]>>
      BY <1>1, <2>1, SelectedOne
    <2>3. QED
      BY <1>1, <1>3, <2>2 DEF s, I, WithSound
  <1>4. CASE ~p.audio.enabled
    <2>1. Selected(s, I) = << >>
      BY <1>1, <1>2, <1>4, SelectedNone
    <2>2. QED
      BY <1>4, <2>1 DEF s, I, WithSound
  <1>5. QED
    BY <1>3, <1>4

\* Every profile with sound is among those with sound, and no other.
LEMMA SoundingProfiles ==
  ASSUME Configured
  PROVE  \A p : (\E k \in DOMAIN Sounding(config) : Sounding(config)[k] = p)
                  <=> \E i \in 1 .. Len(config.profiles) : config.profiles[i] = p /\ p.audio.enabled
  <1> DEFINE s == config.profiles
             I == {j \in DOMAIN s : s[j].audio.enabled}
  <1>1. s \in Seq(Settings) /\ DOMAIN s = 1 .. Len(s)
    BY DEF Configured
  <1>2. \A j \in 1 .. Len(s) : j \in I <=> s[j].audio.enabled
    BY <1>1
  <1> HIDE DEF s, I
  <1>3. Selected(s, I) \in Seq(Settings)
    BY <1>1, SelectedComes
  <1>4. \A p : (\E k \in 1 .. Len(Selected(s, I)) : Selected(s, I)[k] = p)
                 <=> \E i \in 1 .. Len(s) : i \in I /\ s[i] = p
    BY <1>1, SelectedElements
  <1>5. DOMAIN Selected(s, I) = 1 .. Len(Selected(s, I))
    BY <1>3
  <1>6. Sounding(config) = Selected(s, I)
    BY DEF Sounding, WithSound, s, I
  <1>7. QED
    BY <1>2, <1>4, <1>5, <1>6 DEF s

\* Every action that takes the handle accepts it and answers about it.
Resolves(h) ==
  \A a \in AskedWith(h, config) : a.fault = "none" /\ (a.handles # {} => h \in a.handles)

\* A request with one tag.
LEMMA Tags ==
  ASSUME NEW x
  PROVE  /\ [NoTags EXCEPT !.profile = x].profile = x
         /\ [NoTags EXCEPT !.profile = x].config.token = Absent
         /\ [NoTags EXCEPT !.config = x].config = x
         /\ [NoTags EXCEPT !.node = x].node = x
         /\ [NoTags EXCEPT !.ptzConfig = x].ptzConfig = x
  BY DEF NoTags, Handle

\* A handle, and an answer, have the fields they are made of.
LEMMA HandleFields ==
  ASSUME NEW k, NEW x
  PROVE  Handle(k, x).kind = k /\ Handle(k, x).token = x
  BY DEF Handle

LEMMA AnswerFields ==
  ASSUME NEW H, NEW t
  PROVE  Answer(H, t).fault = "none" /\ Answer(H, t).handles = H /\ Answer(H, t).told = t
  BY DEF Answer

\* The actions by which a client asks on, for each kind of handle.
LEMMA AskedProfile ==
  ASSUME NEW h, h.kind = "profile"
  PROVE  AskedWith(h, config) = {handleMediaService(a, [NoTags EXCEPT !.profile = h.token], config) :
    a \in {"GetProfile", "GetStreamUri", "GetSnapshotUri", "GetVideoEncoderConfigurationOptions"}}
  BY DEF AskedWith

LEMMA AskedVSC ==
  ASSUME NEW h, h.kind = "VSC_"
  PROVE  AskedWith(h, config) =
           {handleMediaService("GetVideoSourceConfiguration", [NoTags EXCEPT !.config = h], config)}
  BY DEF AskedWith

LEMMA AskedVEC ==
  ASSUME NEW h, h.kind = "VEC_"
  PROVE  AskedWith(h, config) =
           {handleMediaService(a, [NoTags EXCEPT !.config = h], config) :
              a \in {"GetVideoEncoderConfiguration", "GetVideoEncoderConfigurationOptions"}}
  BY DEF AskedWith

LEMMA AskedASC ==
  ASSUME NEW h, h.kind = "ASC_"
  PROVE  AskedWith(h, config) = {handleMediaService("GetAudioSourceConfigurations", NoTags, config)}
  BY DEF AskedWith

LEMMA AskedAEC ==
  ASSUME NEW h, h.kind = "AEC_"
  PROVE  AskedWith(h, config) =
           {handleMediaService("GetAudioEncoderConfiguration", [NoTags EXCEPT !.config = h], config)}
  BY DEF AskedWith

LEMMA AskedNode ==
  ASSUME NEW h, h.kind = "node"
  PROVE  AskedWith(h, config) = {handlePTZService("GetNode", [NoTags EXCEPT !.node = h.token], config)}
  BY DEF AskedWith

LEMMA AskedPtz ==
  ASSUME NEW h, h.kind = ""
  PROVE  AskedWith(h, config) = {handlePTZService("GetConfiguration", [NoTags EXCEPT !.ptzConfig = h], config),
                    handlePTZService("GetConfigurationOptions", [NoTags EXCEPT !.config = h], config)}
  BY DEF AskedWith

\* The action that is asked for is the handler that answers.
LEMMA Dispatch ==
  ASSUME NEW q
  PROVE  /\ handleMediaService("GetProfile", q, config) = HandleGetProfile(q, config)
         /\ handleMediaService("GetStreamUri", q, config) = HandleGetStreamUri(q, config)
         /\ handleMediaService("GetSnapshotUri", q, config) = HandleGetSnapshotUri(q, config)
         /\ handleMediaService("GetVideoSourceConfiguration", q, config) =
              HandleGetVideoSourceConfiguration(q, config)
         /\ handleMediaService("GetVideoEncoderConfiguration", q, config) =
              HandleGetVideoEncoderConfiguration(q, config)
         /\ handleMediaService("GetVideoEncoderConfigurationOptions", q, config) =
              HandleGetVideoEncoderConfigurationOptions(q, config)
         /\ handleMediaService("GetAudioSourceConfigurations", q, config) =
              HandleGetAudioSourceConfigurations(config)
         /\ handleMediaService("GetAudioEncoderConfiguration", q, config) =
              HandleGetAudioEncoderConfiguration(q, config)
         /\ handlePTZService("GetNode", q, config) = HandleGetNode(q, config)
         /\ handlePTZService("GetConfiguration", q, config) = HandleGetConfiguration(q, config)
         /\ handlePTZService("GetConfigurationOptions", q, config) = HandleGetConfigurationOptions(q)
  BY DEF handleMediaService, handlePTZService

\* A profile has settings, and a token.
LEMMA SettingsOfProfile ==
  ASSUME Configured, NEW i \in 1 .. Len(config.profiles)
  PROVE  config.profiles[i] \in Settings /\ config.profiles[i].token # Absent
  <1>1. \A p \in Settings : p.token # Absent
    BY DEF Settings
  <1>2. config.profiles[i] \in Settings
    BY DEF Configured
  <1> QED BY <1>1, <1>2

\* The token of a profile is accepted by all that take one.
LEMMA ProfileResolves ==
  ASSUME Configured, NEW i \in 1 .. Len(config.profiles)
  PROVE  Resolves(Handle("profile", config.profiles[i].token))
  <1> DEFINE p == config.profiles[i]
             h == Handle("profile", p.token)
             q == [NoTags EXCEPT !.profile = h.token]
  <1>1. p \in Settings /\ p.token # Absent
    BY SettingsOfProfile
  <1>2. h.kind = "profile" /\ h.token = p.token
    BY HandleFields
  <1>3. q.profile = p.token /\ q.config.token = Absent
    BY <1>2, Tags
  <1>4. ProfilesCalled(config, p.token) = <<p>>
    BY CalledAlone
  <1> HIDE DEF p, h, q
  <1>5. lookupProfile(q, config) = <<p>>
    BY <1>1, <1>3, <1>4 DEF lookupProfile
  <1>6. ASSUME NEW a \in AskedWith(h, config)
        PROVE  a \in {HandleGetProfile(q, config), HandleGetStreamUri(q, config),
                      HandleGetSnapshotUri(q, config), HandleGetVideoEncoderConfigurationOptions(q, config)}
    BY <1>2, AskedProfile, Dispatch DEF q
  <1>7. Head(<<p>>) = p /\ <<p>> # << >>
    OBVIOUS
  <1>8. HandleGetProfile(q, config).fault = "none" /\ h \in HandleGetProfile(q, config).handles
    BY <1>5, <1>7 DEF HandleGetProfile, About, renderProfileXML, Answer, h
  <1>9. HandleGetStreamUri(q, config).fault = "none" /\ HandleGetStreamUri(q, config).handles = {}
    BY <1>5, <1>7 DEF HandleGetStreamUri, About, MediaUri, Answer
  <1>10. HandleGetSnapshotUri(q, config).fault = "none" /\ HandleGetSnapshotUri(q, config).handles = {}
    BY <1>5, <1>7 DEF HandleGetSnapshotUri, About, MediaUri, Answer
  <1>11. HandleGetVideoEncoderConfigurationOptions(q, config).fault = "none"
         /\ HandleGetVideoEncoderConfigurationOptions(q, config).handles = {}
    BY <1>3, <1>5, <1>7 DEF HandleGetVideoEncoderConfigurationOptions, About, Answer
  <1>12. Resolves(h)
    BY <1>6, <1>8, <1>9, <1>10, <1>11 DEF Resolves
  <1> QED BY <1>12 DEF h, p

\* So are the video configurations of a profile, ...
LEMMA VideoResolves ==
  ASSUME Configured, NEW i \in 1 .. Len(config.profiles)
  PROVE  /\ Resolves(Handle("VSC_", config.profiles[i].token))
         /\ Resolves(Handle("VEC_", config.profiles[i].token))
  <1> DEFINE p == config.profiles[i]
  <1>1. p \in Settings /\ p.token # Absent
    BY SettingsOfProfile
  <1>2. ProfilesCalled(config, p.token) = <<p>>
    BY CalledAlone
  <1>3. Head(<<p>>) = p /\ <<p>> # << >>
    OBVIOUS
  <1> HIDE DEF p
  <1>4. ASSUME NEW h, h = Handle("VSC_", p.token) PROVE Resolves(h)
    <2>1. h.kind = "VSC_" /\ h.token = p.token
      BY <1>4, HandleFields
    <2> DEFINE q == [NoTags EXCEPT !.config = h]
    <2>2. q.config = h
      BY Tags
    <2>3. AskedWith(h, config) = {HandleGetVideoSourceConfiguration(q, config)}
      BY <2>1, AskedVSC, Dispatch
    <2> HIDE DEF q
    <2>4. profileByConfigToken(q, "VSC_", config) = <<p>>
      BY <1>2, <2>1, <2>2 DEF profileByConfigToken
    <2>5. HandleGetVideoSourceConfiguration(q, config) = VideoSourceConfiguration(p)
      BY <1>3, <2>4 DEF HandleGetVideoSourceConfiguration, About
    <2>6. QED
      BY <1>4, <2>3, <2>5 DEF Resolves, VideoSourceConfiguration, Answer
  <1>5. ASSUME NEW h, h = Handle("VEC_", p.token) PROVE Resolves(h)
    <2>1. h.kind = "VEC_" /\ h.token = p.token
      BY <1>5, HandleFields
    <2> DEFINE q == [NoTags EXCEPT !.config = h]
    <2>2. q.config = h
      BY Tags
    <2>3. AskedWith(h, config) =
            {HandleGetVideoEncoderConfiguration(q, config), HandleGetVideoEncoderConfigurationOptions(q, config)}
      BY <2>1, AskedVEC, Dispatch
    <2> HIDE DEF q
    <2>4. profileByConfigToken(q, "VEC_", config) = <<p>>
      BY <1>2, <2>1, <2>2 DEF profileByConfigToken
    <2>5. HandleGetVideoEncoderConfiguration(q, config) = VideoEncoderConfiguration(p)
      BY <1>3, <2>4 DEF HandleGetVideoEncoderConfiguration, About
    <2>6. h \in VideoEncoderConfiguration(p).handles /\ VideoEncoderConfiguration(p).fault = "none"
      BY <1>5 DEF VideoEncoderConfiguration, Answer
    <2>7. HandleGetVideoEncoderConfigurationOptions(q, config).fault = "none"
          /\ HandleGetVideoEncoderConfigurationOptions(q, config).handles = {}
      BY <1>1, <1>3, <2>1, <2>2, <2>4 DEF HandleGetVideoEncoderConfigurationOptions, About, Answer
    <2>8. QED
      BY <2>3, <2>5, <2>6, <2>7 DEF Resolves
  <1> QED BY <1>4, <1>5 DEF p

\* ... the audio configurations of a profile with sound, ...
LEMMA SoundResolves ==
  ASSUME Configured, NEW i \in 1 .. Len(config.profiles), config.profiles[i].audio.enabled
  PROVE  /\ Resolves(Handle("ASC_", config.profiles[i].token))
         /\ Resolves(Handle("AEC_", config.profiles[i].token))
  <1> DEFINE p == config.profiles[i]
  <1>1. p \in Settings
    BY DEF Configured
  <1>2. ProfilesCalled(config, p.token) = <<p>>
    BY CalledAlone
  <1>3. Head(<<p>>) = p /\ <<p>> # << >>
    OBVIOUS
  <1>4. WithSound(<<p>>) = <<p>>
    BY <1>1, SoundOfOne
  <1>5. PICK k \in DOMAIN Sounding(config) : Sounding(config)[k] = p
    BY SoundingProfiles
  <1> HIDE DEF p
  <1>6. ASSUME NEW h, h = Handle("ASC_", p.token) PROVE Resolves(h)
    <2>1. h.kind = "ASC_"
      BY <1>6, HandleFields
    <2>2. AskedWith(h, config) = {HandleGetAudioSourceConfigurations(config)}
      BY <2>1, AskedASC, Dispatch
    <2>3. HandleGetAudioSourceConfigurations(config).fault = "none"
      BY DEF HandleGetAudioSourceConfigurations, List, Answer
    <2>4. h \in AudioSourceConfiguration(p).handles
      BY <1>6 DEF AudioSourceConfiguration, Answer
    <2>5. h \in HandleGetAudioSourceConfigurations(config).handles
      BY <1>5, <2>4 DEF HandleGetAudioSourceConfigurations, List, Answer
    <2>6. QED
      BY <2>2, <2>3, <2>5 DEF Resolves
  <1>7. ASSUME NEW h, h = Handle("AEC_", p.token) PROVE Resolves(h)
    <2>1. h.kind = "AEC_" /\ h.token = p.token
      BY <1>7, HandleFields
    <2> DEFINE q == [NoTags EXCEPT !.config = h]
    <2>2. q.config = h
      BY Tags
    <2>3. AskedWith(h, config) = {HandleGetAudioEncoderConfiguration(q, config)}
      BY <2>1, AskedAEC, Dispatch
    <2> HIDE DEF q
    <2>4. profileByConfigToken(q, "AEC_", config) = <<p>>
      BY <1>2, <2>1, <2>2 DEF profileByConfigToken
    <2>5. HandleGetAudioEncoderConfiguration(q, config) = AudioEncoderConfiguration(p)
      BY <1>3, <1>4, <2>4 DEF HandleGetAudioEncoderConfiguration, About
    <2>6. QED
      BY <1>7, <2>3, <2>5 DEF Resolves, AudioEncoderConfiguration, Answer
  <1> QED BY <1>6, <1>7 DEF p

\* ... and the node and the configuration of PTZ, of which there is one each.
LEMMA PtzResolves ==
  Resolves(Handle("node", config.ptz.node)) /\ Resolves(Handle("", "PTZConfig_1"))
  <1>1. ASSUME NEW h, h = Handle("node", config.ptz.node) PROVE Resolves(h)
    <2>1. h.kind = "node" /\ h.token = config.ptz.node
      BY <1>1, HandleFields
    <2> DEFINE q == [NoTags EXCEPT !.node = h.token]
    <2>2. q.node = config.ptz.node
      BY <2>1, Tags
    <2>3. AskedWith(h, config) = {HandleGetNode(q, config)}
      BY <2>1, AskedNode, Dispatch
    <2> HIDE DEF q
    <2>4. HandleGetNode(q, config) = renderNodeXML(config.ptz.node)
      BY <2>2 DEF HandleGetNode
    <2>5. QED
      BY <1>1, <2>3, <2>4 DEF Resolves, renderNodeXML, Answer
  <1>2. ASSUME NEW h, h = Handle("", "PTZConfig_1") PROVE Resolves(h)
    <2>1. h.kind = ""
      BY <1>2, HandleFields
    <2> DEFINE q == [NoTags EXCEPT !.ptzConfig = h]
               r == [NoTags EXCEPT !.config = h]
    <2>2. q.ptzConfig = h /\ r.config = h
      BY Tags
    <2>3. AskedWith(h, config) = {HandleGetConfiguration(q, config), HandleGetConfigurationOptions(r)}
      BY <2>1, AskedPtz, Dispatch
    <2> HIDE DEF q, r
    <2>4. HandleGetConfiguration(q, config) = PTZConfiguration(config)
      BY <1>2, <2>2 DEF HandleGetConfiguration
    <2>5. HandleGetConfigurationOptions(r) = Answer({}, <<"PT1S", "PT60S">>)
      BY <1>2, <2>2 DEF HandleGetConfigurationOptions
    <2>6. h \in PTZConfiguration(config).handles /\ PTZConfiguration(config).fault = "none"
      BY <1>2 DEF PTZConfiguration, Answer
    <2>7. Answer({}, <<"PT1S", "PT60S">>).fault = "none" /\ Answer({}, <<"PT1S", "PT60S">>).handles = {}
      BY AnswerFields
    <2>8. QED
      BY <2>3, <2>4, <2>5, <2>6, <2>7 DEF Resolves
  <1> QED BY <1>1, <1>2

\* What can be listed are these handles: those of sound only for profiles with sound.
LEMMA ListedHandles ==
  ASSUME Configured, NEW h \in Listed(config)
  PROVE  \/ h = Handle("node", config.ptz.node) \/ h = Handle("", "PTZConfig_1")
         \/ \E i \in 1 .. Len(config.profiles) :
              LET p == config.profiles[i] IN
              \/ h \in {Handle("profile", p.token), Handle("VSC_", p.token), Handle("VEC_", p.token)}
              \/ p.audio.enabled /\ h \in {Handle("ASC_", p.token), Handle("AEC_", p.token)}
  <1> DEFINE s == config.profiles
             t == Sounding(config)
  <1>1. DOMAIN s = 1 .. Len(s)
    BY DEF Configured
  <1>2. \A p : (\E k \in DOMAIN t : t[k] = p) => \E i \in 1 .. Len(s) : s[i] = p /\ p.audio.enabled
    BY SoundingProfiles
  <1> HIDE DEF t
  <1>3. PTZConfiguration(config).handles = {Handle("", "PTZConfig_1"), Handle("node", config.ptz.node)}
    BY DEF PTZConfiguration, Answer
  <1>4. CASE h \in HandleGetProfiles(config).handles
    <2>1. PICK i \in DOMAIN s : h \in renderProfileXML(s[i], config).handles
      BY <1>4 DEF HandleGetProfiles, List, Answer
    <2> DEFINE p == s[i]
    <2>2. renderProfileXML(p, config).handles = {Handle("profile", p.token)} \cup ProfileHandles(p, config)
      BY DEF renderProfileXML, Answer
    <2>3. /\ VideoSourceConfiguration(p).handles = {Handle("VSC_", p.token)}
          /\ VideoEncoderConfiguration(p).handles = {Handle("VEC_", p.token)}
          /\ AudioSourceConfiguration(p).handles = {Handle("ASC_", p.token)}
          /\ AudioEncoderConfiguration(p).handles = {Handle("AEC_", p.token)}
      BY DEF VideoSourceConfiguration, VideoEncoderConfiguration, AudioSourceConfiguration,
             AudioEncoderConfiguration, Answer
    <2> HIDE DEF p
    <2>4. h \in ProfileHandles(p, config) =>
            \/ h \in {Handle("VSC_", p.token), Handle("VEC_", p.token)}
            \/ p.audio.enabled /\ h \in {Handle("ASC_", p.token), Handle("AEC_", p.token)}
            \/ h \in PTZConfiguration(config).handles
      BY <2>3 DEF ProfileHandles
    <2> QED
      BY <2>1, <2>2, <2>4, <1>1, <1>3 DEF p
  <1>5. CASE h \in HandleGetVideoSourceConfigurations(config).handles
    <2>1. PICK i \in DOMAIN s : h \in VideoSourceConfiguration(s[i]).handles
      BY <1>5 DEF HandleGetVideoSourceConfigurations, List, Answer
    <2> QED BY <2>1, <1>1 DEF VideoSourceConfiguration, Answer
  <1>6. CASE h \in HandleGetVideoEncoderConfigurations(config).handles
    <2>1. PICK i \in DOMAIN s : h \in VideoEncoderConfiguration(s[i]).handles
      BY <1>6 DEF HandleGetVideoEncoderConfigurations, List, Answer
    <2> QED BY <2>1, <1>1 DEF VideoEncoderConfiguration, Answer
  <1>7. CASE h \in HandleGetAudioSourceConfigurations(config).handles
    <2>1. PICK k \in DOMAIN t : h \in AudioSourceConfiguration(t[k]).handles
      BY <1>7 DEF HandleGetAudioSourceConfigurations, List, Answer, t
    <2> QED BY <2>1, <1>2 DEF AudioSourceConfiguration, Answer
  <1>8. CASE h \in HandleGetAudioEncoderConfigurations(config).handles
    <2>1. PICK k \in DOMAIN t : h \in AudioEncoderConfiguration(t[k]).handles
      BY <1>8 DEF HandleGetAudioEncoderConfigurations, List, Answer, t
    <2> QED BY <2>1, <1>2 DEF AudioEncoderConfiguration, Answer
  <1>9. CASE h \in HandleGetNodes(config).handles
    BY <1>9 DEF HandleGetNodes, renderNodeXML, Answer
  <1>10. CASE h \in HandleGetConfigurations(config).handles
    BY <1>10, <1>3 DEF HandleGetConfigurations
  <1> QED
    BY <1>4, <1>5, <1>6, <1>7, <1>8, <1>9, <1>10 DEF Listed

\* All that a client can list resolves.
LEMMA ConfiguredResolves ==
  ASSUME Configured
  PROVE  HandlesResolve
  <1>1. ASSUME NEW h \in Listed(config) PROVE Resolves(h)
    BY ListedHandles, ProfileResolves, VideoResolves, SoundResolves, PtzResolves
  <1>2. HandleGetCapabilities(config) = HandleGetServices(config)
    BY DEF HandleGetCapabilities, HandleGetServices, Answer
  <1> QED BY <1>1, <1>2 DEF HandlesResolve, Resolves

\* Whatever a client lists, of whatever settings, the other actions accept.
THEOREM ListedHandlesResolve == ConfigSpec => []HandlesResolve
  <1>1. Configured => HandlesResolve
    BY ConfiguredResolves
  <1>2. Configured /\ [Configured']_config => Configured'
    BY DEF Configured
  <1> QED BY <1>1, <1>2, PTL DEF ConfigSpec

-----------------------------------------------------------------------------
(* OnvifService: what is described is what FFmpeg is told.                 *)

\* A codec that validation lets in, without blanks, has the same name on both sides.
LEMMA VideoName ==
  ASSUME NEW p, p.codec.word \in validVideoCodecs, p.codec.spelt # "blanks"
  PROVE  onvifVideoEncoding(p.codec) = videoEncoder(p)
  <1> DEFINE c == p.codec.word
  <1>1. c \in {"H264", "H265", "HEVC", "VP9", "AV1", ""}
    BY DEF validVideoCodecs
  <1>2. onvifVideoEncoding(p.codec) =
          IF c \in {"", "H264"} THEN "H264" ELSE IF c \in {"HEVC", "H265"} THEN "H265" ELSE c
    BY DEF onvifVideoEncoding, Folded
  <1>3. videoEncoder(p) =
          IF c \in {"H265", "HEVC"} THEN "H265" ELSE IF c \in {"VP9", "AV1"} THEN c ELSE "H264"
    BY DEF videoEncoder, Trimmed
  <1> HIDE DEF c
  <1>4. CASE c = "H264"
    BY <1>2, <1>3, <1>4
  <1>5. CASE c = "H265"
    BY <1>2, <1>3, <1>5
  <1>6. CASE c = "HEVC"
    BY <1>2, <1>3, <1>6
  <1>7. CASE c = "VP9"
    BY <1>2, <1>3, <1>7
  <1>8. CASE c = "AV1"
    BY <1>2, <1>3, <1>8
  <1>9. CASE c = ""
    BY <1>2, <1>3, <1>9
  <1> QED BY <1>1, <1>4, <1>5, <1>6, <1>7, <1>8, <1>9

\* The parts of the command line.
LEMMA PictureCommand ==
  ASSUME NEW p, NEW rtsp, NEW http
  PROVE  /\ BuildFFmpegArgs(p, rtsp, http).vcodec = videoEncoder(p)
         /\ BuildFFmpegArgs(p, rtsp, http).gop = Default(p.gop, 30)
         /\ BuildFFmpegArgs(p, rtsp, http).rate = rateControl(p)
         /\ BuildFFmpegArgs(p, rtsp, http).video = videoInput(p)
         /\ BuildFFmpegArgs(p, rtsp, http).acodec = audioEncoder(p)
         /\ BuildFFmpegArgs(p, rtsp, http).url = [port |-> rtsp, path |-> <<"live", p.token>>]
  BY DEF BuildFFmpegArgs, BuildFFmpegArgsWith

\* A profile without sound has no audio encoder.
LEMMA SilentCommand ==
  ASSUME NEW p, NEW rtsp, NEW http, ~p.audio.enabled
  PROVE  BuildFFmpegArgs(p, rtsp, http).acodec.codec = "none"
  <1>1. BuildFFmpegArgs(p, rtsp, http).acodec = audioEncoder(p)
    BY PictureCommand
  <1>2. audioEncoder(p) = [codec |-> "none"]
    BY DEF audioEncoder
  <1> QED BY <1>1, <1>2

\* The rate, and what a generated picture looks like.
LEMMA RateAndSource ==
  ASSUME NEW p
  PROVE  /\ rateControl(p).maxrate = Default(p.kbps, 4000)
         /\ videoInput(p).from # "file" => /\ videoInput(p).fps = Default(p.fps, 30)
                                       /\ videoInput(p).size = generatorSize(p)
  <1>1. rateControl(p).maxrate = Default(p.kbps, 4000)
    BY DEF rateControl
  <1>2. videoInput(p).from # "file" => /\ videoInput(p).fps = Default(p.fps, 30)
                                       /\ videoInput(p).size = generatorSize(p)
    BY DEF videoInput
  <1> QED BY <1>1, <1>2

\* A zero is described where the default is used.
LEMMA AgreeDefault ==
  ASSUME NEW n \in Nat, NEW d \in Nat
  PROVE  Agree(n, Default(n, d), d)
  BY DEF Agree, Default

\* What validation leaves of the numbers and names of a profile.
LEMMA ValidFields ==
  ASSUME NEW p \in Settings, ValidateProfile(p)
  PROVE  /\ p.width \in Nat /\ p.height \in Nat /\ p.fps \in Nat /\ p.gop \in Nat /\ p.kbps \in Nat
         /\ p.audio.kbps \in Nat /\ p.audio.rate \in Nat
         /\ (p.width = 0) = (p.height = 0)
         /\ p.codec.word \in validVideoCodecs /\ p.audio.codec.word \in validAudioCodecs
  <1>1. p.width \in Int /\ p.height \in Int /\ p.fps \in Int /\ p.gop \in Int /\ p.kbps \in Int
        /\ p.audio.kbps \in Int /\ p.audio.rate \in Int
    BY DEF Settings
  <1>2. /\ upTo(p.width, 7680) /\ upTo(p.height, 4320) /\ (p.width = 0) = (p.height = 0)
        /\ upTo(p.fps, 240) /\ upTo(p.gop, 1000) /\ upTo(p.kbps, 200000)
        /\ upTo(p.audio.kbps, 1024) /\ upTo(p.audio.rate, 192000)
    BY DEF ValidateProfile, ValidSize
  <1>3. p.codec.word \in validVideoCodecs /\ p.audio.codec.word \in validAudioCodecs
    BY DEF ValidateProfile, oneOf, Trimmed
  <1> QED BY <1>1, <1>2, <1>3 DEF upTo

\* Width and height are both zero or both not, so the default is taken for both or none.
LEMMA SizeAgrees ==
  ASSUME NEW p \in Settings, ValidateProfile(p)
  PROVE  Agree(p.width, generatorSize(p)[1], 1920) /\ Agree(p.height, generatorSize(p)[2], 1080)
  BY ValidFields DEF Agree, generatorSize

\* The parts of a description.
LEMMA PictureDescribed ==
  ASSUME NEW p
  PROVE  /\ VideoEncoderConfiguration(p).told.encoding = onvifVideoEncoding(p.codec)
         /\ VideoEncoderConfiguration(p).told.kbps = p.kbps
         /\ VideoEncoderConfiguration(p).told.fps = p.fps
         /\ VideoEncoderConfiguration(p).told.width = p.width
         /\ VideoEncoderConfiguration(p).told.height = p.height
         /\ onvifVideoEncoding(p.codec) = "H264" => VideoEncoderConfiguration(p).told.gop = p.gop
  BY DEF VideoEncoderConfiguration, Answer

\* The sound is told in the words it is encoded in.
LEMMA SoundDescribed ==
  ASSUME NEW p
  PROVE  /\ AudioEncoderConfiguration(p).fault = "none"
         /\ AudioEncoderConfiguration(p).told.encoding = onvifAudioEncoding(p.audio.codec)
         /\ AudioEncoderConfiguration(p).told.kbps = p.audio.kbps
         /\ AudioEncoderConfiguration(p).told.rate = p.audio.rate
  BY DEF AudioEncoderConfiguration, Answer

\* The audio codecs that validation lets in belong to the same families on both sides.
LEMMA SoundNames ==
  ASSUME NEW p, p.audio.enabled, p.audio.codec.word \in validAudioCodecs
  PROVE  /\ audioEncoder(p).codec # "none"
         /\ p.audio.codec.spelt # "blanks" => onvifAudioEncoding(p.audio.codec) = Family(audioEncoder(p).codec)
         /\ audioEncoder(p).codec = "aac" =>
              /\ audioEncoder(p).kbps = Default(p.audio.kbps, 128)
              /\ audioEncoder(p).rate = Default(p.audio.rate, 44100)
  <1> DEFINE c == p.audio.codec.word
             e == audioEncoder(p)
             Goal == /\ e.codec # "none"
                     /\ p.audio.codec.spelt # "blanks" => onvifAudioEncoding(p.audio.codec) = Family(e.codec)
                     /\ e.codec = "aac" =>
                          e.kbps = Default(p.audio.kbps, 128) /\ e.rate = Default(p.audio.rate, 44100)
  <1> SUFFICES Goal
    OBVIOUS
  <1>1. \/ c \in {"G711A", "PCMA", "ALAW"} \/ c \in {"G711U", "PCMU", "MULAW"}
        \/ c \in {"G726", "ADPCM_G726"} \/ c \in {"AAC", ""}
    BY DEF validAudioCodecs
  <1>2. p.audio.codec.spelt # "blanks" => Folded(p.audio.codec) = c
    BY DEF Folded
  <1>3. c = Trimmed(p.audio.codec)
    BY DEF Trimmed
  <1> HIDE DEF c, e, Goal
  <1>4. CASE c \in {"G711A", "PCMA", "ALAW"}
    <2>1. e.codec = "alaw"
      BY <1>3, <1>4 DEF audioEncoder, e
    <2>2. Family("alaw") = "G711"
      BY DEF Family
    <2>3. Folded(p.audio.codec) = c => onvifAudioEncoding(p.audio.codec) = "G711"
      BY <1>4 DEF onvifAudioEncoding
    <2> QED BY <1>2, <2>1, <2>2, <2>3 DEF Goal
  <1>5. CASE c \in {"G711U", "PCMU", "MULAW"}
    <2>1. e.codec = "mulaw"
      BY <1>3, <1>5 DEF audioEncoder, e
    <2>2. Family("mulaw") = "G711"
      BY DEF Family
    <2>3. Folded(p.audio.codec) = c => onvifAudioEncoding(p.audio.codec) = "G711"
      BY <1>5 DEF onvifAudioEncoding
    <2> QED BY <1>2, <2>1, <2>2, <2>3 DEF Goal
  <1>6. CASE c \in {"G726", "ADPCM_G726"}
    <2>1. e.codec = "g726"
      BY <1>3, <1>6 DEF audioEncoder, e
    <2>2. Family("g726") = "G726"
      BY DEF Family
    <2>3. Folded(p.audio.codec) = c => onvifAudioEncoding(p.audio.codec) = "G726"
      BY <1>6 DEF onvifAudioEncoding
    <2> QED BY <1>2, <2>1, <2>2, <2>3 DEF Goal
  <1>7. CASE c \in {"AAC", ""}
    <2>1. e = [codec |-> "aac", kbps |-> Default(p.audio.kbps, 128), rate |-> sampleRate(p)]
      <3>1. /\ c \notin {"G711A", "PCMA", "ALAW"} /\ c \notin {"G711U", "PCMU", "MULAW"}
            /\ c \notin {"G726", "ADPCM_G726"}
        <4>1. CASE c = "AAC" BY <4>1
        <4>2. CASE c = "" BY <4>2
        <4> QED BY <1>7, <4>1, <4>2
      <3> QED BY <1>3, <3>1 DEF audioEncoder, e
    <2>2. Family("aac") = "AAC"
      BY DEF Family
    <2>3. Folded(p.audio.codec) = c => onvifAudioEncoding(p.audio.codec) = "AAC"
      BY <1>7 DEF onvifAudioEncoding
    <2> QED BY <1>2, <2>1, <2>2, <2>3 DEF Goal, sampleRate
  <1> QED BY <1>1, <1>4, <1>5, <1>6, <1>7

\* What is said of the picture agrees with what FFmpeg is told.
LEMMA PictureAgrees ==
  ASSUME NEW p \in Settings, ValidateProfile(p), NEW rtsp, NEW http,
         NEW ffmpeg, ffmpeg = BuildFFmpegArgs(p, rtsp, http),
         NEW picture, picture = VideoEncoderConfiguration(p).told
  PROVE  PictureTold(p, picture, ffmpeg)
  <1>1. /\ p.fps \in Nat /\ p.gop \in Nat /\ p.kbps \in Nat
        /\ p.codec.word \in validVideoCodecs
    BY ValidFields
  <1>2. /\ Agree(p.kbps, Default(p.kbps, 4000), 4000) /\ Agree(p.gop, Default(p.gop, 30), 30)
        /\ Agree(p.fps, Default(p.fps, 30), 30)
    BY <1>1, AgreeDefault
  <1>3. /\ ffmpeg.vcodec = videoEncoder(p) /\ ffmpeg.gop = Default(p.gop, 30)
        /\ ffmpeg.rate = rateControl(p) /\ ffmpeg.video = videoInput(p)
    BY PictureCommand
  <1>4. /\ picture.encoding = onvifVideoEncoding(p.codec) /\ picture.kbps = p.kbps
        /\ picture.fps = p.fps /\ picture.width = p.width /\ picture.height = p.height
        /\ picture.encoding = "H264" => picture.gop = p.gop
    BY PictureDescribed
  <1>5. p.codec.spelt # "blanks" => onvifVideoEncoding(p.codec) = videoEncoder(p)
    BY <1>1, VideoName
  <1> QED
    BY <1>2, <1>3, <1>4, <1>5, RateAndSource, SizeAgrees DEF PictureTold

\* What is said of the sound agrees with what FFmpeg is told.
LEMMA SoundAgrees ==
  ASSUME NEW p \in Settings, ValidateProfile(p), p.audio.enabled, NEW rtsp, NEW http,
         NEW ffmpeg, ffmpeg = BuildFFmpegArgs(p, rtsp, http),
         NEW sound, sound = AudioEncoderConfiguration(p).told
  PROVE  ffmpeg.acodec.codec # "none" /\ SoundTold(p, sound, ffmpeg)
  <1>1. /\ p.audio.kbps \in Nat /\ p.audio.rate \in Nat
        /\ p.audio.codec.word \in validAudioCodecs
    BY ValidFields
  <1>2. /\ Agree(p.audio.kbps, Default(p.audio.kbps, 128), 128)
        /\ Agree(p.audio.rate, Default(p.audio.rate, 44100), 44100)
    BY <1>1, AgreeDefault
  <1>3. ffmpeg.acodec = audioEncoder(p)
    BY PictureCommand
  <1>4. /\ sound.encoding = onvifAudioEncoding(p.audio.codec)
        /\ sound.kbps = p.audio.kbps /\ sound.rate = p.audio.rate
    BY SoundDescribed
  <1> QED
    BY <1>1, <1>2, <1>3, <1>4, SoundNames DEF SoundTold

\* Every profile is described as it is encoded.
LEMMA ConfiguredDescribes ==
  ASSUME Configured
  PROVE  DescribedAsEncoded
  <1> DEFINE sound(p) == HandleGetAudioEncoderConfiguration([NoTags EXCEPT !.config = Handle("AEC_", p.token)],
                                                            config)
             uri(p) == HandleGetStreamUri([NoTags EXCEPT !.profile = p.token], config).told
  <1>1. SUFFICES ASSUME NEW i \in DOMAIN config.profiles, NEW p, p = config.profiles[i],
                        NEW ffmpeg, ffmpeg = BuildFFmpegArgs(p, config.server.rtsp, config.server.http)
                 PROVE  /\ uri(p).port = ffmpeg.url.port /\ uri(p).path = ffmpeg.url.path
                        /\ PictureTold(p, VideoEncoderConfiguration(p).told, ffmpeg)
                        /\ (sound(p).fault = "none") = (ffmpeg.acodec.codec # "none")
                        /\ sound(p).fault = "none" => SoundTold(p, sound(p).told, ffmpeg)
    BY DEF DescribedAsEncoded
  <1>2. i \in 1 .. Len(config.profiles)
    BY DEF Configured
  <1>3. p \in Settings /\ p.token # Absent
    BY <1>1, <1>2, SettingsOfProfile
  <1>4. ValidateProfile(p)
    BY <1>1, <1>2 DEF Configured, Validate
  <1>5. ProfilesCalled(config, p.token) = <<p>>
    BY <1>1, <1>2, CalledAlone
  <1>6. Head(<<p>>) = p /\ <<p>> # << >>
    OBVIOUS
  <1>7. PictureTold(p, VideoEncoderConfiguration(p).told, ffmpeg)
    BY <1>1, <1>3, <1>4, PictureAgrees
  <1>8. uri(p).port = ffmpeg.url.port /\ uri(p).path = ffmpeg.url.path
    <2>1. ffmpeg.url = [port |-> config.server.rtsp, path |-> <<"live", p.token>>]
      BY <1>1, PictureCommand
    <2> DEFINE r == [NoTags EXCEPT !.profile = p.token]
    <2>2. r.profile = p.token
      BY Tags
    <2> HIDE DEF r
    <2>3. HandleGetStreamUri(r, config).told = [scheme |-> "rtsp", port |-> config.server.rtsp,
                                                path |-> <<"live", p.token>>]
      BY <1>3, <1>5, <1>6, <2>2 DEF HandleGetStreamUri, lookupProfile, About, MediaUri, Answer
    <2> QED BY <2>1, <2>3 DEF r
  <1>9. sound(p) = IF p.audio.enabled THEN AudioEncoderConfiguration(p) ELSE Fault(NoConfig)
    <2> DEFINE q == [NoTags EXCEPT !.config = Handle("AEC_", p.token)]
    <2>1. q.config.kind = "AEC_" /\ q.config.token = p.token
      BY Tags, HandleFields
    <2>2. WithSound(<<p>>) = IF p.audio.enabled THEN <<p>> ELSE << >>
      BY <1>3, SoundOfOne
    <2> HIDE DEF q
    <2>3. HandleGetAudioEncoderConfiguration(q, config) =
            IF p.audio.enabled THEN AudioEncoderConfiguration(p) ELSE Fault(NoConfig)
      BY <1>5, <1>6, <2>1, <2>2 DEF HandleGetAudioEncoderConfiguration, profileByConfigToken, About
    <2> QED BY <2>3 DEF q
  <1> HIDE DEF sound, uri
  <1>10. CASE p.audio.enabled
    <2>1. sound(p) = AudioEncoderConfiguration(p)
      BY <1>9, <1>10
    <2>2. sound(p).fault = "none"
      BY <2>1, SoundDescribed
    <2>3. ffmpeg.acodec.codec # "none" /\ SoundTold(p, sound(p).told, ffmpeg)
      BY <1>1, <1>3, <1>4, <1>10, <2>1, SoundAgrees
    <2> QED BY <1>7, <1>8, <2>2, <2>3
  <1>11. CASE ~p.audio.enabled
    <2>1. sound(p).fault # "none"
      BY <1>9, <1>11 DEF Fault, NoConfig
    <2>2. ffmpeg.acodec.codec = "none"
      BY <1>1, <1>11, SilentCommand
    <2> QED BY <1>7, <1>8, <2>1, <2>2
  <1> QED
    BY <1>10, <1>11

\* ONVIF describes every profile of every configuration that is let in the way
\* FFmpeg is told to make it.
THEOREM SettingsDescribedAsEncoded == ConfigSpec => []DescribedAsEncoded
  <1>1. Configured => DescribedAsEncoded
    BY ConfiguredDescribes
  <1>2. Configured /\ [Configured']_config => Configured'
    BY DEF Configured
  <1> QED BY <1>1, <1>2, PTL DEF ConfigSpec

=============================================================================
