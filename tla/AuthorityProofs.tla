--------------------------- MODULE AuthorityProofs ---------------------------
(***************************************************************************)
(* Inductive invariants of the services that decide who gets what: the     *)
(* nonces, accounts and orders of the ACME endpoint, what a host's agent   *)
(* may obtain, sign-in, the directory of users and the rate limiter, the   *)
(* rules of templates and policies, and of the audit chain that records    *)
(* it. ServicesProofs lifts them to the specification that the runs check. *)
(***************************************************************************)
EXTENDS AcmeNonces, AcmeAccounts, AgentIssuance, AcmeOrders, SignIn, Accounts,
        RateLimit, IssuanceRules, TemplateVersions, AuditChain,
        FiniteSetTheorems, WellFoundedInduction, TLAPS

-----------------------------------------------------------------------------
(* Nonces.                                                                 *)

\* A nonce that was accepted is remembered, or has expired: what the sweep
\* forgets is refused by the clock.
SpentIsRemembered ==
    \A n \in Nonces : accepted[n] # 0 => minted[n] # 0 /\ (n \in usedNonces \/ minted[n] <= ticks)

\* Only a nonce that was handed out is being spent.
SpendingMinted == \A s \in Spends : spend[s] # Nil => minted[spend[s]] # 0

NoncesInv == NoncesTypeOK /\ NonceAcceptedOnce /\ SpentIsRemembered /\ SpendingMinted

LEMMA NoncesInitInv == NoncesInit => NoncesInv
BY NoncesAssumption
DEF NoncesInit, NoncesInv, NoncesTypeOK, NonceAcceptedOnce, SpentIsRemembered, SpendingMinted

LEMMA NoncesStepInv ==
    ASSUME NoncesInv, [NoncesNext]_noncesVars
    PROVE  NoncesInv'
<1> USE NoncesAssumption
    DEF NoncesInv, NoncesTypeOK, NonceAcceptedOnce, SpentIsRemembered, SpendingMinted
<1>1. ASSUME NEW n \in Nonces, MintNonce(n) PROVE NoncesInv'
  BY <1>1 DEF MintNonce
<1>2. ASSUME NEW n \in Nonces, NEW s \in Spends, SpendNonce(s, n) PROVE NoncesInv'
  BY <1>2 DEF SpendNonce
<1>3. ASSUME NEW s \in Spends, ClaimACMENonce(s) PROVE NoncesInv'
  <2> PICK n \in Nonces : n = spend[s] /\ minted[n] # 0
    BY <1>3 DEF ClaimACMENonce
  <2>1. /\ usedNonces' = usedNonces \cup {n}
        /\ accepted' = IF FirstUse(n) /\ minted[n] > ticks THEN [accepted EXCEPT ![n] = @ + 1] ELSE accepted
        /\ spend' = [spend EXCEPT ![s] = Nil]
        /\ minted' = minted /\ ticks' = ticks
    BY <1>3 DEF ClaimACMENonce
  <2>2. FirstUse(n) /\ minted[n] > ticks => accepted[n] = 0
    BY DEF FirstUse
  <2> QED BY <2>1, <2>2
<1>4. CASE SweepACMENonces
  BY <1>4 DEF SweepACMENonces
<1>5. CASE NonceTick
  BY <1>5 DEF NonceTick
<1>6. CASE UNCHANGED noncesVars
  BY <1>6 DEF noncesVars
<1> QED BY <1>1, <1>2, <1>3, <1>4, <1>5, <1>6 DEF NoncesNext

-----------------------------------------------------------------------------
(* Accounts.                                                               *)

\* A call knows the credential it is about, and its key.
CallsAreMeant ==
    \A q \in AcmeCalls : acmeCall[q].at # "idle" =>
        /\ acmeCall[q].cred \in Creds
        /\ acmeCall[q].at \in {"create acmeAccount", "change key"} => acmeCall[q].key \in AcmeKeys

\* An update that is in flight for a revoked credential had begun before the
\* revocation: such a credential is marked.
UpdatesOfRevoked ==
    \A q \in AcmeCalls :
        acmeCall[q].at = "update acmeAccount" /\ credRevoked[acmeCall[q].cred] =>
            acmeCall[q].cred \in overtaken

AcmeAccountsInv ==
    AcmeAccountsTypeOK /\ CallsAreMeant /\ UpdatesOfRevoked /\ RevokedCredentialStaysOut /\ AccountKeysDistinct

LEMMA AcmeAccountsInitInv == AcmeAccountsInit => AcmeAccountsInv
<1> SUFFICES ASSUME AcmeAccountsInit PROVE AcmeAccountsInv
  OBVIOUS
<1>1. AcmeAccountsTypeOK
  BY DEF AcmeAccountsInit, AcmeAccountsTypeOK, AcmeAccountRow, CallState, NoCall
<1>2. CallsAreMeant /\ UpdatesOfRevoked
  BY DEF AcmeAccountsInit, CallsAreMeant, UpdatesOfRevoked, NoCall
<1>3. RevokedCredentialStaysOut /\ AccountKeysDistinct
  BY DEF AcmeAccountsInit, RevokedCredentialStaysOut, AccountKeysDistinct
<1> QED BY <1>1, <1>2, <1>3 DEF AcmeAccountsInv

\* What a call that begins changes, and what one that ends leaves.
LEMMA CallBegins ==
    ASSUME AcmeAccountsInv,
           NEW q \in AcmeCalls, NEW at, NEW c \in Creds, NEW k, NEW status,
           [at |-> at, cred |-> c, key |-> k, status |-> status] \in CallState,
           at \in {"create acmeAccount", "change key"} => k \in AcmeKeys,
           at = "update acmeAccount" => (credRevoked[c] => c \in overtaken),
           BeginCall(q, at, c, k, status)
    PROVE  AcmeAccountsInv'
<1> DEFINE s == [at |-> at, cred |-> c, key |-> k, status |-> status]
<1>1. /\ acmeCall' = [acmeCall EXCEPT ![q] = s]
      /\ credRevoked' = credRevoked /\ acmeAccount' = acmeAccount /\ overtaken' = overtaken
  BY DEF BeginCall
<1>2. s \in CallState /\ s.at = at /\ s.cred = c /\ s.key = k
  OBVIOUS
<1> HIDE DEF s
<1>3. AcmeAccountsTypeOK'
  BY <1>1, <1>2 DEF AcmeAccountsInv, AcmeAccountsTypeOK
<1>4. CallsAreMeant'
  BY <1>1, <1>2 DEF AcmeAccountsInv, AcmeAccountsTypeOK, CallsAreMeant
<1>5. UpdatesOfRevoked'
  BY <1>1, <1>2 DEF AcmeAccountsInv, AcmeAccountsTypeOK, UpdatesOfRevoked
<1>6. RevokedCredentialStaysOut' /\ AccountKeysDistinct'
  BY <1>1 DEF AcmeAccountsInv, RevokedCredentialStaysOut, AccountKeysDistinct
<1> QED BY <1>3, <1>4, <1>5, <1>6 DEF AcmeAccountsInv

LEMMA CallEnds ==
    ASSUME AcmeAccountsInv, NEW q \in AcmeCalls, AnswerCall(q)
    PROVE  /\ acmeCall' \in [AcmeCalls -> CallState]
           /\ credRevoked' = credRevoked /\ overtaken' = overtaken
           /\ CallsAreMeant' /\ UpdatesOfRevoked'
<1>1. NoCall \in CallState /\ NoCall.at = "idle"
  BY DEF NoCall, CallState
<1> QED
  BY <1>1 DEF AnswerCall, AcmeAccountsInv, AcmeAccountsTypeOK, CallsAreMeant, UpdatesOfRevoked

LEMMA AcmeAccountsStepInv ==
    ASSUME AcmeAccountsInv, [AcmeAccountsNext]_acmeAccountsVars
    PROVE  AcmeAccountsInv'
<1>1. ASSUME NEW q \in AcmeCalls, NEW c \in Creds, NEW k \in AcmeKeys,
             CheckBinding(q, c, k) \/ KeyChange(q, c, k)
      PROVE  AcmeAccountsInv'
  <2>1. CASE CheckBinding(q, c, k)
    BY <2>1, CallBegins DEF CheckBinding, CallState
  <2>2. CASE KeyChange(q, c, k)
    BY <2>2, CallBegins DEF KeyChange, CallState
  <2> QED BY <1>1, <2>1, <2>2
<1>2. ASSUME NEW q \in AcmeCalls, NEW c \in Creds, NEW status \in {"valid", "deactivated"},
             Account(q, c, status)
      PROVE  AcmeAccountsInv'
  <2>1. credRevoked[c] => c \in overtaken
    BY <1>2 DEF Account, AccountFromKID, AcmeAccountsInv, RevokedCredentialStaysOut
  <2> QED BY <1>2, <2>1, CallBegins DEF Account, CallState
<1>3. ASSUME NEW q \in AcmeCalls, CreateACMEAccount(q) PROVE AcmeAccountsInv'
  <2> PICK c \in Creds, k \in AcmeKeys : c = acmeCall[q].cred /\ k = acmeCall[q].key
    BY <1>3 DEF CreateACMEAccount, AcmeAccountsInv, CallsAreMeant
  <2>1. /\ acmeAccount' = IF MayRegister(c, k)
                     THEN [acmeAccount EXCEPT ![c] = [status |-> "valid", key |-> k]] ELSE acmeAccount
        /\ AnswerCall(q)
    BY <1>3 DEF CreateACMEAccount
  <2>2. AcmeAccountsTypeOK'
    BY <2>1, CallEnds DEF AcmeAccountsInv, AcmeAccountsTypeOK, AcmeAccountRow
  <2>3. RevokedCredentialStaysOut'
    BY <2>1, CallEnds DEF MayRegister, AcmeAccountsInv, AcmeAccountsTypeOK, RevokedCredentialStaysOut
  <2>4. AccountKeysDistinct'
    BY <2>1, AcmeAccountsAssumption
    DEF MayRegister, KeyFree, AcmeAccountsInv, AcmeAccountsTypeOK, AccountKeysDistinct
  <2> QED BY <2>1, <2>2, <2>3, <2>4, CallEnds DEF AcmeAccountsInv
<1>4. ASSUME NEW q \in AcmeCalls, UpdateACMEAccount(q) PROVE AcmeAccountsInv'
  <2> PICK c \in Creds : c = acmeCall[q].cred
    BY <1>4 DEF UpdateACMEAccount, AcmeAccountsInv, CallsAreMeant
  <2>1. /\ acmeCall[q].at = "update acmeAccount"
        /\ acmeAccount' = [acmeAccount EXCEPT ![c].status = acmeCall[q].status]
        /\ AnswerCall(q)
    BY <1>4 DEF UpdateACMEAccount
  <2>s. acmeCall[q].status \in {"none", "valid", "deactivated"}
    BY DEF AcmeAccountsInv, AcmeAccountsTypeOK, CallState
  <2>2. AcmeAccountsTypeOK'
    BY <2>1, <2>s, CallEnds DEF AcmeAccountsInv, AcmeAccountsTypeOK, AcmeAccountRow
  <2>3. RevokedCredentialStaysOut'
    BY <2>1, CallEnds
    DEF AcmeAccountsInv, AcmeAccountsTypeOK, RevokedCredentialStaysOut, UpdatesOfRevoked
  <2>4. \A d \in Creds : acmeAccount'[d].key = acmeAccount[d].key
    BY <2>1 DEF AcmeAccountsInv, AcmeAccountsTypeOK, AcmeAccountRow
  <2>5. AccountKeysDistinct'
    BY <2>4 DEF AcmeAccountsInv, AccountKeysDistinct
  <2> QED BY <2>1, <2>2, <2>3, <2>5, CallEnds DEF AcmeAccountsInv
<1>5. ASSUME NEW q \in AcmeCalls, UpdateACMEAccountKey(q) PROVE AcmeAccountsInv'
  <2> PICK c \in Creds, k \in AcmeKeys : c = acmeCall[q].cred /\ k = acmeCall[q].key
    BY <1>5 DEF UpdateACMEAccountKey, AcmeAccountsInv, CallsAreMeant
  <2>1. /\ acmeAccount' = IF KeyFree(c, k) THEN [acmeAccount EXCEPT ![c].key = k] ELSE acmeAccount
        /\ AnswerCall(q)
    BY <1>5 DEF UpdateACMEAccountKey
  <2>2. AcmeAccountsTypeOK'
    BY <2>1, CallEnds DEF AcmeAccountsInv, AcmeAccountsTypeOK, AcmeAccountRow
  <2>3. \A d \in Creds : acmeAccount'[d].status = acmeAccount[d].status
    BY <2>1 DEF AcmeAccountsInv, AcmeAccountsTypeOK, AcmeAccountRow
  <2>4. RevokedCredentialStaysOut'
    BY <2>1, <2>3, CallEnds DEF AcmeAccountsInv, RevokedCredentialStaysOut
  <2>5. AccountKeysDistinct'
    BY <2>1, AcmeAccountsAssumption
    DEF KeyFree, AcmeAccountsInv, AcmeAccountsTypeOK, AcmeAccountRow, AccountKeysDistinct
  <2> QED BY <2>1, <2>2, <2>4, <2>5, CallEnds DEF AcmeAccountsInv
<1>6. ASSUME NEW q \in AcmeCalls, CallLost(q) PROVE AcmeAccountsInv'
  <2>1. AnswerCall(q) /\ acmeAccount' = acmeAccount
    BY <1>6 DEF CallLost
  <2> QED
    BY <2>1, CallEnds DEF AcmeAccountsInv, AcmeAccountsTypeOK, RevokedCredentialStaysOut, AccountKeysDistinct
<1>7. ASSUME NEW c \in Creds, RevokeACMEEABCredential(c) PROVE AcmeAccountsInv'
  <2>1. /\ credRevoked' = [credRevoked EXCEPT ![c] = TRUE]
        /\ acmeAccount' = [acmeAccount EXCEPT ![c].status = IF @ = "valid" THEN "deactivated" ELSE @]
        /\ acmeCall' = acmeCall
    BY <1>7 DEF RevokeACMEEABCredential
  <2>2. \A d \in Creds : d \in overtaken' <=>
           \/ d \in overtaken
           \/ d = c /\ \E q \in AcmeCalls : acmeCall[q].cred = c /\ acmeCall[q].at = "update acmeAccount"
    BY <1>7 DEF RevokeACMEEABCredential
  <2>3. overtaken' \subseteq Creds
    BY <1>7 DEF RevokeACMEEABCredential, AcmeAccountsInv, AcmeAccountsTypeOK
  <2>4. credRevoked' \in [Creds -> BOOLEAN] /\ \A d \in Creds \ {c} : credRevoked'[d] = credRevoked[d]
    BY <2>1 DEF AcmeAccountsInv, AcmeAccountsTypeOK
  <2>5. AcmeAccountsTypeOK'
    BY <2>1, <2>3, <2>4 DEF AcmeAccountsInv, AcmeAccountsTypeOK, AcmeAccountRow
  <2>6. CallsAreMeant'
    BY <2>1 DEF AcmeAccountsInv, CallsAreMeant
  <2>7. UpdatesOfRevoked'
    BY <2>1, <2>2, <2>4 DEF AcmeAccountsInv, CallsAreMeant, UpdatesOfRevoked
  <2>8. RevokedCredentialStaysOut'
    BY <2>1, <2>2, <2>4, ZenonT(30) DEF AcmeAccountsInv, AcmeAccountsTypeOK, AcmeAccountRow, RevokedCredentialStaysOut
  <2>9. \A d \in Creds : acmeAccount'[d].key = acmeAccount[d].key
    BY <2>1 DEF AcmeAccountsInv, AcmeAccountsTypeOK, AcmeAccountRow
  <2>10. AccountKeysDistinct'
    BY <2>9 DEF AcmeAccountsInv, AccountKeysDistinct
  <2> QED BY <2>5, <2>6, <2>7, <2>8, <2>10 DEF AcmeAccountsInv
<1>8. CASE UNCHANGED acmeAccountsVars
  BY <1>8
  DEF acmeAccountsVars, AcmeAccountsInv, AcmeAccountsTypeOK, CallsAreMeant, UpdatesOfRevoked,
      RevokedCredentialStaysOut, AccountKeysDistinct
<1> QED BY <1>1, <1>2, <1>3, <1>4, <1>5, <1>6, <1>7, <1>8 DEF AcmeAccountsNext

-----------------------------------------------------------------------------
(* Issuance for hosts.                                                     *)

\* A request under way was permitted as a whole by the grant it holds.
AsksArePermitted ==
    \A q \in Asks : ask[q].at # "idle" =>
        /\ ask[q].host \in Hosts /\ ask[q].grant \in Grants
        /\ ask[q].names \subseteq GrantNames[ask[q].grant]
        /\ ask[q].host \in GrantHosts[ask[q].grant]

\* The record that a request will write over is, and stays, one of its host.
AsksReplaceOwn ==
    \A q \in Asks : ask[q].at # "idle" /\ ask[q].over # Nil =>
        hostRec[ask[q].over].status # "none" /\ hostRec[ask[q].over].holder = ask[q].host

IssuanceInv == IssuanceTypeOK /\ AsksArePermitted /\ AsksReplaceOwn /\ OneGrantPermits

LEMMA IssuanceInitInv == IssuanceInit => IssuanceInv
<1> SUFFICES ASSUME IssuanceInit PROVE IssuanceInv
  OBVIOUS
<1>1. NoRec \in HostRecRow /\ NoAsk \in AskState /\ NoAsk.at = "idle" /\ NoRec.status = "none"
  BY IssuanceAssumption DEF NoRec, NoAsk, HostRecRow, AskState
<1>2. IssuanceTypeOK
  BY <1>1, IssuanceAssumption DEF IssuanceInit, IssuanceTypeOK
<1>3. AsksArePermitted /\ AsksReplaceOwn /\ OneGrantPermits
  BY <1>1 DEF IssuanceInit, AsksArePermitted, AsksReplaceOwn, OneGrantPermits
<1> QED BY <1>2, <1>3 DEF IssuanceInv

\* A step that changes one request only, to one that is permitted.
LEMMA AskMoves ==
    ASSUME IssuanceInv, NEW q \in Asks, NEW s \in AskState,
           ask' = [ask EXCEPT ![q] = s],
           hostRec' = hostRec /\ grantRevoked' = grantRevoked,
           made' \in 0..MaxMade /\ made <= made' /\ crossed' \subseteq Hosts,
           s.at = "record" => s.fp \in 1..made',
           s.at # "idle" => /\ s.host \in Hosts /\ s.grant \in Grants
                            /\ s.names \subseteq GrantNames[s.grant]
                            /\ s.host \in GrantHosts[s.grant],
           s.at # "idle" /\ s.over # Nil =>
               hostRec[s.over].status # "none" /\ hostRec[s.over].holder = s.host
    PROVE  IssuanceInv'
<1>1. IssuanceTypeOK'
  BY DEF IssuanceInv, IssuanceTypeOK
<1>2. AsksArePermitted'
  BY DEF IssuanceInv, IssuanceTypeOK, AsksArePermitted
<1>3. AsksReplaceOwn'
  BY DEF IssuanceInv, IssuanceTypeOK, AsksReplaceOwn
<1>4. OneGrantPermits'
  BY DEF IssuanceInv, OneGrantPermits
<1> QED BY <1>1, <1>2, <1>3, <1>4 DEF IssuanceInv

LEMMA IssuanceStepInv ==
    ASSUME IssuanceInv, [IssuanceNext]_issuanceVars
    PROVE  IssuanceInv'
<1>0. /\ ask \in [Asks -> AskState] /\ hostRec \in [HostRecs -> HostRecRow]
      /\ made \in 0..MaxMade /\ crossed \subseteq Hosts /\ MaxMade \in Nat
      /\ made <= made
      /\ NoAsk \in AskState /\ NoAsk.at = "idle"
  BY IssuanceAssumption DEF IssuanceInv, IssuanceTypeOK, AskState, NoAsk
<1>1. ASSUME NEW q \in Asks, NEW h \in Hosts, NEW names \in SUBSET HostNames,
             NEW key \in HostKeyTypes, NEW r \in HostRecs \cup {Nil}, Issue(q, h, names, key, r)
      PROVE  IssuanceInv'
  <2> PICK g \in Authorise(h, names) :
          ask' = [ask EXCEPT ![q] = [NoAsk EXCEPT !.at = "find", !.host = h, !.names = names, !.key = key,
                                                  !.grant = g, !.renews = r]]
    BY <1>1 DEF Issue
  <2>1. g \in Grants /\ names \subseteq GrantNames[g] /\ h \in GrantHosts[g]
    BY DEF Authorise, GetGrantsForAgent
  <2> DEFINE s == [NoAsk EXCEPT !.at = "find", !.host = h, !.names = names, !.key = key, !.grant = g,
                                !.renews = r]
  <2>2. /\ s \in AskState /\ s.at = "find" /\ s.host = h /\ s.names = names /\ s.grant = g
        /\ s.over = Nil
    BY <2>1, <1>0 DEF NoAsk, AskState
  <2>3. hostRec' = hostRec /\ grantRevoked' = grantRevoked /\ made' = made /\ crossed' \subseteq Hosts
    BY <1>1, <1>0 DEF Issue
  <2>4. ask' = [ask EXCEPT ![q] = s]
    OBVIOUS
  <2> HIDE DEF s
  <2> QED BY <1>0, <2>1, <2>2, <2>3, <2>4, AskMoves
<1>2. ASSUME NEW q \in Asks, FindReplaced(q) PROVE IssuanceInv'
  <2>1. /\ hostRec' = hostRec /\ grantRevoked' = grantRevoked /\ made' = made /\ crossed' \subseteq Hosts
        /\ ask[q].at = "find"
    <3>1. /\ hostRec' = hostRec /\ grantRevoked' = grantRevoked /\ made' = made /\ ask[q].at = "find"
          /\ crossed' = crossed \/ crossed' = crossed \cup {ask[q].host}
      BY <1>2 DEF FindReplaced
    <3>2. ask[q].host \in Hosts
      BY <3>1 DEF IssuanceInv, AsksArePermitted
    <3> QED BY <1>0, <3>1, <3>2
  <2>2. CASE ask' = [ask EXCEPT ![q] = NoAsk]
    BY <1>0, <2>1, <2>2, AskMoves
  <2>3. ASSUME ~(ask' = [ask EXCEPT ![q] = NoAsk]) PROVE IssuanceInv'
    <3>0. PICK beyond \in BOOLEAN : \E r \in Replaces(ask[q], beyond) :
            ask' = [ask EXCEPT ![q].at = "sign", ![q].over = r]
      BY <1>2, <2>3 DEF FindReplaced
    <3> PICK r \in Replaces(ask[q], beyond) :
            ask' = [ask EXCEPT ![q].at = "sign", ![q].over = r]
      BY <3>0
    <3>1. r = Nil \/ (r \in HostRecs /\ Renewable(r, ask[q].host, ask[q].names))
      <4>1. ask[q].renews \in HostRecs \cup {Nil}
        BY <1>0 DEF AskState
      <4> QED BY <4>1 DEF Replaces, Matching
    <3>2. r # Nil => hostRec[r].status # "none" /\ hostRec[r].holder = ask[q].host
      BY <3>1 DEF Renewable, HeldHere
    <3> DEFINE s == [ask[q] EXCEPT !.at = "sign", !.over = r]
    <3>3. /\ s \in AskState /\ s.at = "sign" /\ s.host = ask[q].host /\ s.names = ask[q].names
          /\ s.grant = ask[q].grant /\ s.over = r
      BY <1>0, <3>1 DEF AskState
    <3>4. ask' = [ask EXCEPT ![q] = s]
      BY <1>0
    <3> HIDE DEF s
    <3>5. /\ s.host \in Hosts /\ s.grant \in Grants
          /\ s.names \subseteq GrantNames[s.grant] /\ s.host \in GrantHosts[s.grant]
      BY <3>3, <2>1 DEF IssuanceInv, AsksArePermitted
    <3>6. s.over # Nil => hostRec[s.over].status # "none" /\ hostRec[s.over].holder = s.host
      BY <3>2, <3>3
    <3> QED BY <1>0, <2>1, <3>3, <3>4, <3>5, <3>6, AskMoves
  <2> QED BY <2>2, <2>3
<1>3. ASSUME NEW q \in Asks, SignForHost(q) PROVE IssuanceInv'
  <2>1. /\ hostRec' = hostRec /\ grantRevoked' = grantRevoked /\ crossed' = crossed
        /\ ask[q].at = "sign"
    BY <1>3 DEF SignForHost
  <2>2. CASE ask' = [ask EXCEPT ![q] = NoAsk] /\ made' = made
    BY <1>0, <2>1, <2>2, AskMoves
  <2>3. ASSUME made < MaxMade, made' = made + 1, ask' = [ask EXCEPT ![q] = Signed(@)]
        PROVE  IssuanceInv'
    <3> DEFINE s == [ask[q] EXCEPT !.at = "record", !.fp = made + 1]
    <3>1. ask' = [ask EXCEPT ![q] = s]
      BY <1>0, <2>3 DEF Signed
    <3>2. made' \in 0..MaxMade /\ made <= made' /\ made + 1 \in 0..MaxMade /\ made + 1 \in 1..made'
      BY <1>0, <2>3
    <3>3. /\ s \in AskState /\ s.at = "record" /\ s.host = ask[q].host /\ s.names = ask[q].names
          /\ s.grant = ask[q].grant /\ s.over = ask[q].over /\ s.fp = made + 1
      BY <1>0, <3>2 DEF AskState
    <3> HIDE DEF s
    <3>4. /\ s.host \in Hosts /\ s.grant \in Grants
          /\ s.names \subseteq GrantNames[s.grant] /\ s.host \in GrantHosts[s.grant]
      BY <3>3, <2>1 DEF IssuanceInv, AsksArePermitted
    <3>5. s.over # Nil => hostRec[s.over].status # "none" /\ hostRec[s.over].holder = s.host
      BY <3>3, <2>1 DEF IssuanceInv, AsksReplaceOwn
    <3> QED BY <1>0, <2>1, <3>1, <3>2, <3>3, <3>4, <3>5, AskMoves
  <2> QED BY <1>3, <2>2, <2>3 DEF SignForHost
<1>4. ASSUME NEW q \in Asks, RecordForHost(q) PROVE IssuanceInv'
  <2>1. /\ ask' = [ask EXCEPT ![q] = NoAsk] /\ ask[q].at = "record"
        /\ grantRevoked' = grantRevoked /\ made' = made /\ crossed' = crossed
    BY <1>4 DEF RecordForHost
  <2>2. CASE hostRec' = hostRec
    BY <1>0, <2>1, <2>2, AskMoves
  <2>3. /\ ask[q].host \in Hosts /\ ask[q].grant \in Grants /\ ask[q].names \subseteq HostNames
        /\ ask[q].names \subseteq GrantNames[ask[q].grant] /\ ask[q].host \in GrantHosts[ask[q].grant]
          /\ ask[q].fp \in 0..MaxMade /\ ask[q].key \in HostKeyTypes \cup {Nil}
    BY <1>0, <2>1 DEF IssuanceInv, AsksArePermitted, AskState
  <2>4. AsksArePermitted'
    BY <1>0, <2>1 DEF IssuanceInv, AsksArePermitted
  \* In both cases a record of this host ends with what this request was permitted.
  <2>5. ASSUME NEW r \in HostRecs, NEW row \in HostRecRow,
               hostRec' = [hostRec EXCEPT ![r] = row],
               row.status = "ISSUED" /\ row.names = ask[q].names /\ row.grant = ask[q].grant,
               row.holder = ask[q].host,
               hostRec[r].status # "none" => hostRec[r].holder = ask[q].host
        PROVE  IssuanceInv'
    <3>1. IssuanceTypeOK'
      BY <1>0, <2>1, <2>5 DEF IssuanceInv, IssuanceTypeOK
    <3>2. AsksReplaceOwn'
      BY <1>0, <2>1, <2>5 DEF IssuanceInv, AsksReplaceOwn
    <3>3. OneGrantPermits'
      BY <1>0, <2>3, <2>5 DEF IssuanceInv, OneGrantPermits
    <3> QED BY <2>4, <3>1, <3>2, <3>3 DEF IssuanceInv
  <2>6. ASSUME ask[q].over = Nil, hostRec' # hostRec PROVE IssuanceInv'
    <3> PICK r \in Unused : r = CHOOSE x \in Unused : TRUE
      BY <1>4, <2>6 DEF RecordForHost
    <3> DEFINE row == [status |-> "ISSUED", holder |-> ask[q].host, names |-> ask[q].names,
                       key |-> ask[q].key, fp |-> ask[q].fp, grant |-> ask[q].grant]
    <3>1. hostRec' = [hostRec EXCEPT ![r] = row]
      BY <1>4, <2>6 DEF RecordForHost
    <3>2. r \in HostRecs /\ hostRec[r].status = "none"
      BY DEF Unused
    <3>3. row \in HostRecRow
      BY <2>3 DEF HostRecRow
    <3> QED BY <2>5, <3>1, <3>2, <3>3
  <2>7. ASSUME ask[q].over # Nil, hostRec' # hostRec PROVE IssuanceInv'
    <3> PICK r \in HostRecs : r = ask[q].over
      BY <1>0, <2>7 DEF AskState
    <3> DEFINE row == [hostRec[r] EXCEPT !.fp = ask[q].fp, !.names = ask[q].names, !.key = ask[q].key,
                                           !.grant = ask[q].grant]
    <3>1. /\ hostRec' = [hostRec EXCEPT ![r].fp = ask[q].fp, ![r].names = ask[q].names,
                                          ![r].key = ask[q].key, ![r].grant = ask[q].grant]
          /\ hostRec[r].status = "ISSUED"
      BY <1>4, <2>7 DEF RecordForHost
    <3>2. hostRec' = [hostRec EXCEPT ![r] = row]
      BY <1>0, <3>1
    <3>3. hostRec[r].holder = ask[q].host
      BY <2>1, <2>7 DEF IssuanceInv, AsksReplaceOwn
    <3>4. /\ row \in HostRecRow /\ row.status = "ISSUED" /\ row.names = ask[q].names
          /\ row.grant = ask[q].grant /\ row.holder = ask[q].host
      <4>1. hostRec[r] \in HostRecRow /\ ask[q].names \in SUBSET HostNames
        BY <1>0, <2>3
      <4>2. /\ row \in HostRecRow /\ row.status = hostRec[r].status /\ row.names = ask[q].names
            /\ row.grant = ask[q].grant /\ row.holder = hostRec[r].holder
        BY <2>3, <4>1 DEF HostRecRow
      <4> QED BY <3>1, <3>3, <4>2
    <3> HIDE DEF row
    <3> QED BY <2>5, <3>2, <3>3, <3>4
  <2> QED BY <2>2, <2>6, <2>7
<1>5. ASSUME NEW g \in Grants, RevokeTemplateGrant(g) PROVE IssuanceInv'
  <2>1. /\ grantRevoked' = [grantRevoked EXCEPT ![g] = TRUE]
        /\ hostRec' = hostRec /\ ask' = ask /\ made' = made /\ crossed' = crossed
    BY <1>5 DEF RevokeTemplateGrant
  <2>2. IssuanceTypeOK'
    BY <2>1 DEF IssuanceInv, IssuanceTypeOK
  <2>3. AsksArePermitted' /\ AsksReplaceOwn' /\ OneGrantPermits'
    BY <2>1 DEF IssuanceInv, AsksArePermitted, AsksReplaceOwn, OneGrantPermits
  <2> QED BY <2>2, <2>3 DEF IssuanceInv
<1>6. ASSUME NEW r \in HostRecs, RevokeHostCert(r) PROVE IssuanceInv'
  <2>1. /\ hostRec' = [hostRec EXCEPT ![r].status = "REVOKED"] /\ hostRec[r].status = "ISSUED"
        /\ grantRevoked' = grantRevoked /\ ask' = ask /\ made' = made /\ crossed' = crossed
    BY <1>6 DEF RevokeHostCert
  <2> DEFINE row == [hostRec[r] EXCEPT !.status = "REVOKED"]
  <2>2. hostRec' = [hostRec EXCEPT ![r] = row]
    BY <1>0, <2>1
  <2>3. /\ row \in HostRecRow /\ row.status = "REVOKED" /\ row.holder = hostRec[r].holder
        /\ row.names = hostRec[r].names /\ row.grant = hostRec[r].grant
    BY <1>0 DEF HostRecRow
  <2> HIDE DEF row
  <2>4. IssuanceTypeOK'
    BY <2>1, <2>2, <2>3 DEF IssuanceInv, IssuanceTypeOK
  <2>5. AsksArePermitted'
    BY <2>1 DEF IssuanceInv, AsksArePermitted
  <2>6. AsksReplaceOwn'
    BY <1>0, <2>1, <2>2, <2>3 DEF IssuanceInv, AsksReplaceOwn
  <2>7. OneGrantPermits'
    BY <1>0, <2>1, <2>2, <2>3 DEF IssuanceInv, OneGrantPermits
  <2> QED BY <2>4, <2>5, <2>6, <2>7 DEF IssuanceInv
<1>7. CASE UNCHANGED issuanceVars
  BY <1>7
  DEF issuanceVars, IssuanceInv, IssuanceTypeOK, AsksArePermitted, AsksReplaceOwn, OneGrantPermits
<1> QED BY <1>1, <1>2, <1>3, <1>4, <1>5, <1>6, <1>7 DEF IssuanceNext

-----------------------------------------------------------------------------
(* Orders. Statements about overlapping requests are made for orders that  *)
(* are not disturbed, statements about proof for every order.              *)

Deciding == {"look", "order follows"}
Finalizing == {"resolve", "sign", "store", "complete", "fail"}

\* A challenge that the name may use can be answered for it.
Provable(n) ==
    \E kind \in {"dns-01"} \cup (IF n \in Wildcards THEN {} ELSE Challenges) : <<n, kind>> \in Answerable

\* A request that is past its first statement is about an order that exists.
Meant(s) ==
    /\ s.at \in {"idle", "create order"} => s.order = Nil
    /\ s.at \notin {"idle", "create order"} => s.order \in Orders /\ order[s.order].status # "none"
    /\ s.at = "create order" => s.names # {}
    /\ s.at \in Deciding => s.name \in AcmeNames
    /\ s.at = "complete" => s.target \in Records

\* What a request has read or decided says "valid" of names that can be
\* proved only, and what it finalizes can be proved if it has to be.
Proved(s) ==
    /\ s.at = "look" => s.kind \in ChallengeTypes(s.name)
    /\ s.at = "order follows" /\ s.status = "valid" => Provable(s.name)
    /\ s.at \in Deciding => \A n \in AcmeNames : s.seen[n] = "valid" => Provable(n)
    /\ s.at \in Finalizing \cup {"claim"} /\ s.acct \in ProofAccts => \A n \in s.names : Provable(n)

\* Until its authorizations exist an order is pending and nothing is decided.
Opening(s) ==
    s.at = "create authorizations" =>
        /\ order[s.order].status = "pending"
        /\ \A n \in AcmeNames : authz[s.order][n] \in {"none", "pending"}

\* What the request read is still so: validations work on a pending order,
\* a finalization has claimed its order and the CA has not signed for it.
Current(s) ==
    s.order \notin disturbed =>
        /\ s.at \in Deciding => order[s.order].status = "pending"
        /\ s.at = "look" => authz[s.order][s.name] = "pending" /\ s.seen = authz[s.order]
        /\ s.at = "order follows" =>
              \A n \in AcmeNames : authz[s.order][n] = IF n = s.name THEN s.status ELSE s.seen[n]
        /\ s.at = "claim" => order[s.order].status \notin {"none", "pending"}
        /\ s.at \in Finalizing => order[s.order].status = "processing"
        /\ s.at \in {"resolve", "sign"} => signedFor[s.order] = 0

\* Two requests about one order do not open, decide or finalize it together.
Compatible(s, t) ==
    s.order = t.order /\ s.order # Nil =>
        /\ s.at # "create authorizations" /\ t.at # "create authorizations"
        /\ s.order \notin disturbed =>
              ~(s.at \in Deciding /\ t.at \in Deciding) /\ ~(s.at \in Finalizing /\ t.at \in Finalizing)

RequestsInv ==
    /\ \A q \in Requests :
          /\ Meant(request[q]) /\ Proved(request[q]) /\ Opening(request[q]) /\ Current(request[q])
    /\ \A q, p \in Requests : q # p => Compatible(request[q], request[p])

\* An order that is ready, and an authorization that is valid, is for names
\* that can be proved; nothing is signed before the claim.
OrderInv(o) ==
    /\ order[o].status = "none" => \A n \in AcmeNames : authz[o][n] = "none"
    /\ order[o].status # "none" => order[o].names # {}
    /\ \A n \in AcmeNames : authz[o][n] = "valid" => Provable(n)
    /\ order[o].status = "ready" /\ order[o].owner \in ProofAccts => \A n \in order[o].names : Provable(n)
    /\ o \notin disturbed /\ order[o].status \in {"none", "pending", "ready"} => signedFor[o] = 0

OrdersInv == \A o \in Orders : OrderInv(o)

AcmeInv == AcmeTypeOK /\ RequestsInv /\ OrdersInv /\ OneCertificatePerOrder /\ OrderFollowsAuthorizations

LEMMA NoRequestFacts ==
    /\ NoRequest \in RequestState /\ NoRequest.at = "idle" /\ NoRequest.order = Nil
    /\ Meant(NoRequest) /\ Proved(NoRequest) /\ Opening(NoRequest)
<1>1. NoRequest \in RequestState /\ NoRequest.at = "idle" /\ NoRequest.order = Nil
  BY AcmeAssumption DEF NoRequest, RequestState, NoAuthz, AuthzStatus, OrderStatus, Fps
<1> QED BY <1>1 DEF Meant, Proved, Opening, Deciding, Finalizing

LEMMA OrderTypes ==
    ASSUME AcmeTypeOK
    PROVE  /\ order \in [Orders -> OrderRow] /\ authz \in [Orders -> [AcmeNames -> AuthzStatus]]
           /\ request \in [Requests -> RequestState] /\ signedFor \in [Orders -> Nat]
           /\ standing \subseteq Accts /\ expired \subseteq Orders /\ disturbed \subseteq Orders
           /\ record \in [Records -> RecordRow] /\ issued \in Fps /\ Nil \notin Orders
           /\ \A o \in Orders : order[o].status = "valid" => order[o].record # Nil
BY AcmeAssumption DEF AcmeTypeOK

LEMMA CurrentKept ==
    ASSUME NEW t, Current(t),
           order'[t.order] = order[t.order], authz'[t.order] = authz[t.order],
           signedFor'[t.order] = signedFor[t.order], t.order \in disturbed => t.order \in disturbed'
    PROVE  Current(t)'
BY DEF Current

LEMMA AcmeInitInv == AcmeInit => AcmeInv
<1> SUFFICES ASSUME AcmeInit PROVE AcmeInv
  OBVIOUS
<1>1. /\ NoOrder \in OrderRow /\ NoOrder.status = "none" /\ NoAuthz \in [AcmeNames -> AuthzStatus]
      /\ [status |-> "none", fp |-> 0, names |-> {}] \in RecordRow /\ 0 \in Fps
  BY AcmeAssumption DEF NoOrder, OrderRow, OrderStatus, NoAuthz, AuthzStatus, RecordRow, Fps
<1>2. AcmeTypeOK
  BY <1>1, NoRequestFacts DEF AcmeInit, AcmeTypeOK
<1>3. ASSUME NEW q \in Requests PROVE request[q] = NoRequest /\ Current(NoRequest)
  <2>1. request[q] = NoRequest
    BY DEF AcmeInit
  <2> QED BY <2>1, NoRequestFacts DEF Current, Deciding, Finalizing
<1>4. Compatible(NoRequest, NoRequest)
  BY NoRequestFacts DEF Compatible
<1>5. RequestsInv
  BY <1>3, <1>4, NoRequestFacts DEF RequestsInv
<1>6. ASSUME NEW o \in Orders PROVE OrderInv(o) /\ signedFor[o] = 0 /\ order[o].status = "none"
  <2>1. order[o].status = "none" /\ signedFor[o] = 0 /\ authz[o] = NoAuthz
    BY <1>1 DEF AcmeInit
  <2> QED BY <2>1 DEF OrderInv, NoAuthz
<1>7. OrdersInv /\ OneCertificatePerOrder /\ OrderFollowsAuthorizations
  BY <1>6 DEF OrdersInv, OneCertificatePerOrder, OrderFollowsAuthorizations
<1> QED BY <1>2, <1>5, <1>7 DEF AcmeInv

\* A step that moves one request and leaves orders and authorizations alone.
LEMMA RequestMoves ==
    ASSUME AcmeInv, NEW q \in Requests, NEW s \in RequestState,
           request' = [request EXCEPT ![q] = s],
           order' = order /\ authz' = authz /\ signedFor' = signedFor,
           disturbed \subseteq disturbed' /\ disturbed' \subseteq Orders,
           standing' \subseteq Accts /\ expired' \subseteq Orders,
           record' \in [Records -> RecordRow] /\ issued' \in Fps,
           Meant(s), Proved(s), Opening(s), Current(s)',
           \A p \in Requests \ {q} : Compatible(s, request[p])',
           \A o \in Orders \ disturbed' :
               (o = request[q].order /\ o # s.order /\ order[o].status = "pending") =>
                   ~(\A n \in order[o].names : authz[o][n] = "valid")
    PROVE  AcmeInv'
<1>0. AcmeTypeOK
  BY DEF AcmeInv
<1>t. request'[q] = s /\ \A p \in Requests \ {q} : request'[p] = request[p]
  BY <1>0, OrderTypes
<1>1. AcmeTypeOK'
  BY <1>0, OrderTypes DEF AcmeTypeOK
<1>2. ASSUME NEW p \in Requests
      PROVE  (Meant(request[p]) /\ Proved(request[p]) /\ Opening(request[p]) /\ Current(request[p]))'
  <2>1. CASE p = q
    <3>1. Meant(s)' /\ Opening(s)' /\ Proved(s)'
      BY DEF Meant, Opening, Proved
    <3>2. request'[p] = s
      BY <1>t, <2>1
    <3>3. Meant(request[p])'
      BY <3>1, <3>2 DEF Meant
    <3>4. Opening(request[p])' /\ Proved(request[p])'
      BY <3>1, <3>2 DEF Opening, Proved
    <3>5. Current(request[p])'
      BY <3>2 DEF Current
    <3> QED BY <3>3, <3>4, <3>5
  <2>2. CASE p # q
    <3>1. Meant(request[p]) /\ Proved(request[p]) /\ Opening(request[p]) /\ Current(request[p])
      BY DEF AcmeInv, RequestsInv
    <3>2. request'[p] = request[p]
      BY <1>t, <2>2
    <3>3. Meant(request[p])' /\ Proved(request[p])' /\ Opening(request[p])'
      BY <3>1, <3>2 DEF Meant, Proved, Opening
    <3>4. Current(request[p])'
      BY <3>1, <3>2, ZenonT(30) DEF Current
    <3> QED BY <3>3, <3>4
  <2> QED BY <2>1, <2>2
<1>3. ASSUME NEW p \in Requests, NEW r \in Requests, p # r
      PROVE  Compatible(request[p], request[r])'
  <2>1. CASE p = q
    BY <1>t, <1>3, <2>1 DEF Compatible
  <2>2. CASE r = q
    <3>1. Compatible(s, request[p])' /\ request'[r] = s
      BY <1>t, <1>3, <2>2
    <3> QED BY <3>1 DEF Compatible
  <2>3. CASE p # q /\ r # q
    <3>1. Compatible(request[p], request[r])
      BY <1>3 DEF AcmeInv, RequestsInv
    <3> QED BY <1>t, <2>3, <3>1 DEF Compatible
  <2> QED BY <2>1, <2>2, <2>3
<1>4. RequestsInv'
  BY <1>2, <1>3 DEF RequestsInv
<1>5. OrdersInv'
  BY DEF AcmeInv, OrdersInv, OrderInv
<1>6. OneCertificatePerOrder'
  BY DEF AcmeInv, OneCertificatePerOrder
<1>7. OrderFollowsAuthorizations'
  <2> SUFFICES ASSUME NEW o \in Orders \ disturbed', order[o].status = "pending",
                      \A n \in order[o].names : authz[o][n] = "valid"
               PROVE  \E p \in Requests : request'[p].order = o
    BY DEF OrderFollowsAuthorizations
  <2>1. PICK p \in Requests : request[p].order = o
    BY DEF AcmeInv, OrderFollowsAuthorizations
  <2>2. CASE p # q
    BY <1>t, <2>1, <2>2
  <2>3. CASE p = q
    BY <1>t, <2>1, <2>3
  <2> QED BY <2>2, <2>3
<1> QED BY <1>1, <1>4, <1>5, <1>6, <1>7 DEF AcmeInv

\* A request that is answered, when nothing waits for it.
LEMMA RequestAnswered ==
    ASSUME AcmeInv, NEW q \in Requests, AnswerOrder(q),
           order' = order /\ authz' = authz /\ signedFor' = signedFor,
           disturbed \subseteq disturbed' /\ disturbed' \subseteq Orders,
           standing' = standing /\ expired' = expired /\ record' = record /\ issued' = issued,
           \A o \in Orders \ disturbed' :
               (o = request[q].order /\ order[o].status = "pending") =>
                   ~(\A n \in order[o].names : authz[o][n] = "valid")
    PROVE  AcmeInv'
<1>0. AcmeTypeOK
  BY DEF AcmeInv
<1>1. Current(NoRequest)'
  BY NoRequestFacts DEF Current, Deciding, Finalizing, NoRequest, NoAuthz
<1>2. \A p \in Requests \ {q} : Compatible(NoRequest, request[p])'
  BY NoRequestFacts DEF Compatible, NoRequest, NoAuthz
<1>3. request' = [request EXCEPT ![q] = NoRequest]
  BY DEF AnswerOrder
<1>4. /\ standing' \subseteq Accts /\ expired' \subseteq Orders
      /\ record' \in [Records -> RecordRow] /\ issued' \in Fps
  BY <1>0, OrderTypes
<1>5. PICK s \in RequestState : s = NoRequest
  BY NoRequestFacts
<1>6. Meant(s) /\ Proved(s) /\ Opening(s) /\ Current(s)'
  BY <1>1, <1>5, NoRequestFacts
<1>7. \A p \in Requests \ {q} : Compatible(s, request[p])'
  BY <1>2, <1>5
<1>8. request' = [request EXCEPT ![q] = s]
  BY <1>3, <1>5
<1>9. \A o \in Orders \ disturbed' :
          (o = request[q].order /\ o # s.order /\ order[o].status = "pending") =>
              ~(\A n \in order[o].names : authz[o][n] = "valid")
  OBVIOUS
<1> QED BY ONLY AcmeInv, q \in Requests, s \in RequestState, order' = order /\ authz' = authz /\ signedFor' = signedFor,
              disturbed \subseteq disturbed' /\ disturbed' \subseteq Orders, <1>4, <1>6, <1>7, <1>8, <1>9, RequestMoves

\* A request that writes the end of its work on an order and is answered. It
\* had the order to itself, so that no other request finds it changed.
LEMMA OrderSettles ==
    ASSUME AcmeInv, NEW q \in Requests, AnswerOrder(q), NEW o \in Orders, o = request[q].order,
           NEW status \in {"ready", "valid", "invalid"}, NEW r \in Records \cup {Nil},
           SetOrder(o, status, r),
           status = "valid" => r # Nil,
           request[q].at \in {"create authorizations", "order follows", "complete", "fail"},
           status = "ready" => /\ request[q].at = "order follows"
                               /\ \A n \in order[o].names : Provable(n),
           authz' = authz /\ signedFor' = signedFor /\ disturbed' = disturbed,
           standing' = standing /\ expired' = expired /\ record' = record /\ issued' = issued
    PROVE  AcmeInv'
<1>0. AcmeTypeOK
  BY DEF AcmeInv
<1> DEFINE row == [order[o] EXCEPT !.status = status, !.record = r]
<1>1. order' = [order EXCEPT ![o] = row]
  BY <1>0, OrderTypes DEF SetOrder
<1>2. /\ row \in OrderRow /\ row.status = status /\ row.record = r
      /\ row.names = order[o].names /\ row.owner = order[o].owner
  <2>1. order[o] \in OrderRow
    BY <1>0, OrderTypes
  <2> QED BY <2>1 DEF OrderRow, OrderStatus
<1> HIDE DEF row
<1>3. order'[o] = row /\ \A x \in Orders \ {o} : order'[x] = order[x]
  BY <1>0, <1>1, OrderTypes
<1>s. \A x \in Orders : order[x].status # "none" => order'[x].status # "none"
  BY <1>2, <1>3
<1>4. request'[q] = NoRequest /\ \A p \in Requests \ {q} : request'[p] = request[p]
  BY <1>0, OrderTypes DEF AnswerOrder
<1>5. AcmeTypeOK'
  <2>1. order' \in [Orders -> OrderRow]
    BY <1>0, <1>1, <1>2, OrderTypes
  <2>2. request' \in [Requests -> RequestState]
    BY <1>0, OrderTypes, NoRequestFacts DEF AnswerOrder
  <2>3. \A x \in Orders : order'[x].status = "valid" => order'[x].record # Nil
    BY <1>0, <1>2, <1>3, OrderTypes
  <2> QED BY <1>0, <2>1, <2>2, <2>3, OrderTypes DEF AcmeTypeOK
<1>q. Meant(request[q]) /\ Current(request[q])
  BY DEF AcmeInv, RequestsInv
<1>6. ASSUME NEW p \in Requests
      PROVE  (Meant(request[p]) /\ Proved(request[p]) /\ Opening(request[p]) /\ Current(request[p]))'
  <2>1. CASE p = q
    <3>1. request'[p] = NoRequest /\ NoRequest.at = "idle" /\ NoRequest.order = Nil
      BY <1>4, <2>1, NoRequestFacts
    <3> QED BY <3>1 DEF Meant, Proved, Opening, Current, Deciding, Finalizing
  <2>2. ASSUME p # q
        PROVE  (Meant(request[p]) /\ Proved(request[p]) /\ Opening(request[p]) /\ Current(request[p]))'
    <3>1. /\ Meant(request[p]) /\ Proved(request[p]) /\ Opening(request[p]) /\ Current(request[p])
          /\ Compatible(request[q], request[p]) /\ request'[p] = request[p]
      BY <1>4, <2>2 DEF AcmeInv, RequestsInv
    <3>2. Meant(request[p])'
      BY <1>s, <3>1 DEF Meant
    <3>3. Proved(request[p])'
      BY <3>1 DEF Proved
    <3>4. ASSUME request[p].order # o
          PROVE  (Opening(request[p]) /\ Current(request[p]))'
      <4>1. CASE request[p].at \in {"idle", "create order"}
        BY <3>1, <4>1 DEF Opening, Current, Deciding, Finalizing
      <4>2. CASE request[p].at \notin {"idle", "create order"}
        <5>1. order'[request[p].order] = order[request[p].order]
          BY <1>3, <3>1, <3>4, <4>2 DEF Meant
        <5> QED BY <3>1, <5>1 DEF Opening, Current
      <4> QED BY <4>1, <4>2
    <3>5. ASSUME request[p].order = o
          PROVE  (Opening(request[p]) /\ Current(request[p]))'
      <4>1. o # Nil
        BY <1>0, OrderTypes
      <4>2. /\ request[p].at # "create authorizations" /\ request[q].at # "create authorizations"
            /\ o \notin disturbed => ~(request[q].at \in Deciding /\ request[p].at \in Deciding)
                                     /\ ~(request[q].at \in Finalizing /\ request[p].at \in Finalizing)
        BY <3>1, <3>5, <4>1 DEF Compatible
      <4>3. Opening(request[p])'
        BY <3>1, <4>2 DEF Opening
      <4>4. o \notin disturbed => request[p].at \notin Deciding /\ request[p].at \notin Finalizing
        BY <1>q, <3>1, <3>5, <4>2 DEF Current, Deciding, Finalizing
      <4>5. Current(request[p])'
        BY <1>2, <1>3, <3>1, <3>5, <4>4 DEF Current, Deciding, Finalizing
      <4> QED BY <4>3, <4>5
    <3> QED BY <3>2, <3>3, <3>4, <3>5
  <2> QED BY <2>1, <2>2
<1>7. ASSUME NEW p \in Requests, NEW x \in Requests, p # x
      PROVE  Compatible(request[p], request[x])'
  <2>1. Compatible(request[p], request[x])
    BY <1>7 DEF AcmeInv, RequestsInv
  <2>2. CASE p # q /\ x # q
    BY <1>4, <2>1, <2>2 DEF Compatible
  <2>3. CASE p = q \/ x = q
    BY <1>4, <2>3, NoRequestFacts DEF Compatible
  <2> QED BY <2>2, <2>3
<1>8. RequestsInv'
  BY <1>6, <1>7 DEF RequestsInv
<1>9. OrdersInv'
  <2>1. ASSUME NEW x \in Orders, x # o PROVE OrderInv(x)'
    <3>1. OrderInv(x)
      BY DEF AcmeInv, OrdersInv
    <3> QED BY <1>3, <2>1, <3>1 DEF OrderInv
  <2>2. OrderInv(o)'
    <3>1. OrderInv(o) /\ order[o].status # "none"
      BY <1>q DEF AcmeInv, OrdersInv, Meant
    <3>2. o \notin disturbed /\ status = "ready" => signedFor[o] = 0
      BY <1>q, <3>1 DEF OrderInv, Current, Deciding
    <3> QED BY <1>2, <1>3, <3>1, <3>2 DEF OrderInv
  <2> QED BY <2>1, <2>2 DEF OrdersInv
<1>10. OneCertificatePerOrder'
  BY DEF AcmeInv, OneCertificatePerOrder
<1>11. OrderFollowsAuthorizations'
  <2> SUFFICES ASSUME NEW x \in Orders \ disturbed, order'[x].status = "pending",
                      \A n \in order'[x].names : authz[x][n] = "valid"
               PROVE  \E p \in Requests : request'[p].order = x
    BY DEF OrderFollowsAuthorizations
  <2>1. x # o /\ order'[x] = order[x]
    BY <1>2, <1>3
  <2>2. PICK p \in Requests : request[p].order = x
    BY <2>1 DEF AcmeInv, OrderFollowsAuthorizations
  <2> QED BY <1>4, <2>1, <2>2
<1> QED BY <1>5, <1>8, <1>9, <1>10, <1>11 DEF AcmeInv

LEMMA NewOrderKeeps ==
    ASSUME AcmeInv, NEW q \in Requests, NEW c \in Accts, NEW ids \in SUBSET Identifiers,
           NEW r \in Records \cup {Nil}, NewOrder(q, c, ids, r)
    PROVE  AcmeInv'
<1>0. AcmeTypeOK
  BY DEF AcmeInv
<1>1. request[q].at = "idle" /\ request[q].order = Nil
  BY DEF NewOrder, VerifyOrder, AcmeInv, RequestsInv, Meant
<1>2. CleanIdentifiers(ids) \in SUBSET AcmeNames /\ CleanIdentifiers(ids) # {}
  BY DEF NewOrder, Orderable, CleanIdentifiers, Identifiers
<1>3. PICK fp \in Fps : fp = IF r = Nil THEN 0 ELSE record[r].fp
  BY <1>0, OrderTypes, AcmeAssumption DEF RecordRow, Fps
<1> DEFINE s == [OrderRequest(q, "create order", c) EXCEPT
                          !.names = CleanIdentifiers(ids), !.target = r, !.fp = fp]
<1>4. /\ s \in RequestState /\ s.at = "create order" /\ s.order = Nil
      /\ s.names = CleanIdentifiers(ids)
  BY <1>2, <1>3, NoRequestFacts DEF OrderRequest, RequestState, NoRequest, NoAuthz
<1>5. request' = [request EXCEPT ![q] = s]
  BY <1>3 DEF NewOrder
<1> HIDE DEF s
<1>6. Meant(s) /\ Proved(s) /\ Opening(s)
  BY <1>2, <1>4 DEF Meant, Proved, Opening, Deciding, Finalizing
<1>7. Current(s)' /\ \A p \in Requests \ {q} : Compatible(s, request[p])'
  BY <1>4 DEF Current, Compatible, Deciding, Finalizing
<1>8. /\ order' = order /\ authz' = authz /\ signedFor' = signedFor /\ disturbed' = disturbed
      /\ standing' = standing /\ expired' = expired /\ record' = record /\ issued' = issued
  BY DEF NewOrder
<1>9. /\ standing' \subseteq Accts /\ expired' \subseteq Orders
      /\ record' \in [Records -> RecordRow] /\ issued' \in Fps
      /\ disturbed \subseteq disturbed' /\ disturbed' \subseteq Orders
      /\ request[q].order \notin Orders
  BY <1>0, <1>1, <1>8, OrderTypes
<1> QED BY <1>4, <1>5, <1>6, <1>7, <1>8, <1>9, RequestMoves, ZenonT(30)

LEMMA RespondToChallengeKeeps ==
    ASSUME AcmeInv, NEW q \in Requests, NEW c \in Accts, NEW o \in Orders, NEW n \in AcmeNames,
           NEW kind \in Challenges, RespondToChallenge(q, c, o, n, kind)
    PROVE  AcmeInv'
<1>0. AcmeTypeOK
  BY DEF AcmeInv
<1>1. request[q].at = "idle" /\ request[q].order = Nil
  BY DEF RespondToChallenge, VerifyOrder, AcmeInv, RequestsInv, Meant
<1>2. order[o].status = "pending" /\ authz[o][n] = "pending" /\ kind \in ChallengeTypes(n)
  BY DEF RespondToChallenge, Undecided
<1>3. PICK seen \in [AcmeNames -> AuthzStatus] : seen = authz[o]
  BY <1>0, OrderTypes
<1> DEFINE s == [OrderRequest(q, "look", c) EXCEPT !.order = o, !.name = n, !.kind = kind, !.seen = seen]
<1>4. /\ s \in RequestState /\ s.at = "look" /\ s.order = o /\ s.name = n /\ s.kind = kind
      /\ s.seen = authz[o]
  BY <1>3, NoRequestFacts DEF OrderRequest, RequestState, NoRequest, NoAuthz
<1>5. request' = [request EXCEPT ![q] = s]
  BY <1>3 DEF RespondToChallenge
<1> HIDE DEF s
<1>6. /\ order' = order /\ authz' = authz /\ signedFor' = signedFor
      /\ standing' = standing /\ expired' = expired /\ record' = record /\ issued' = issued
  BY DEF RespondToChallenge
<1>7. /\ disturbed \subseteq disturbed' /\ disturbed' \subseteq Orders
      /\ o \notin disturbed' => \A d \in Requests : request[d].order = o => request[d].at \notin Deciding
  BY <1>0, OrderTypes DEF RespondToChallenge, Deciding
<1>8. Meant(s) /\ Opening(s)
  BY <1>2, <1>4 DEF Meant, Opening
<1>9. Proved(s)
  <2>1. \A m \in AcmeNames : authz[o][m] = "valid" => Provable(m)
    BY DEF AcmeInv, OrdersInv, OrderInv
  <2> QED BY <1>2, <1>4, <2>1 DEF Proved, Finalizing
<1>10. Current(s)'
  BY <1>2, <1>4, <1>6 DEF Current, Finalizing, Deciding
<1>11. ASSUME NEW p \in Requests \ {q} PROVE Compatible(s, request[p])'
  <2>1. request'[p] = request[p]
    BY <1>0, <1>5, OrderTypes
  <2>2. request[p].order = o => request[p].at # "create authorizations"
    BY DEF RespondToChallenge, OwnedOrder
  <2>3. request[p].order = o /\ o \notin disturbed' => request[p].at \notin Deciding
    BY <1>7
  <2> QED BY <1>4, <2>1, <2>2, <2>3 DEF Compatible, Finalizing
<1> QED BY <1>0, <1>1, <1>4, <1>5, <1>6, <1>7, <1>8, <1>9, <1>10, <1>11, OrderTypes, RequestMoves

LEMMA FinalizeKeeps ==
    ASSUME AcmeInv, NEW q \in Requests, NEW c \in Accts, NEW o \in Orders,
           NEW names \in SUBSET AcmeNames, Finalize(q, c, o, names)
    PROVE  AcmeInv'
<1>0. AcmeTypeOK
  BY DEF AcmeInv
<1>1. request[q].at = "idle" /\ request[q].order = Nil
  BY DEF Finalize, VerifyOrder, AcmeInv, RequestsInv, Meant
<1>2. order[o].status = "ready" /\ order[o].owner = c /\ names = order[o].names
  BY DEF Finalize, OwnedOrder, CsrMatchesOrder
<1> DEFINE s == [OrderRequest(q, "claim", c) EXCEPT !.order = o, !.names = names]
<1>3. /\ s \in RequestState /\ s.at = "claim" /\ s.order = o /\ s.names = names /\ s.acct = c
  BY NoRequestFacts DEF OrderRequest, RequestState, NoRequest, NoAuthz
<1>4. request' = [request EXCEPT ![q] = s]
  BY DEF Finalize
<1> HIDE DEF s
<1>5. /\ order' = order /\ authz' = authz /\ signedFor' = signedFor /\ disturbed' = disturbed
      /\ standing' = standing /\ expired' = expired /\ record' = record /\ issued' = issued
  BY DEF Finalize
<1>6. Meant(s) /\ Opening(s)
  BY <1>2, <1>3 DEF Meant, Opening, Deciding
<1>7. Proved(s)
  <2>1. c \in ProofAccts => \A n \in names : Provable(n)
    BY <1>2 DEF AcmeInv, OrdersInv, OrderInv
  <2> QED BY <1>3, <2>1 DEF Proved, Deciding
<1>8. Current(s)'
  BY <1>2, <1>3, <1>5 DEF Current, Finalizing, Deciding
<1>9. ASSUME NEW p \in Requests \ {q} PROVE Compatible(s, request[p])'
  <2>1. request'[p] = request[p]
    BY <1>0, <1>4, OrderTypes
  <2>2. request[p].order = o => request[p].at # "create authorizations"
    BY DEF Finalize, OwnedOrder
  <2> QED BY <1>3, <2>1, <2>2 DEF Compatible, Deciding, Finalizing
<1> QED BY <1>0, <1>1, <1>3, <1>4, <1>5, <1>6, <1>7, <1>8, <1>9, OrderTypes, RequestMoves

\* The steps between the claim and the end: the request goes on with the same
\* order, account and names.
LEMMA FinalizeMoves ==
    ASSUME AcmeInv, NEW q \in Requests, NEW s \in RequestState,
           request' = [request EXCEPT ![q] = s],
           order' = order /\ authz' = authz /\ signedFor' = signedFor /\ disturbed' = disturbed,
           standing' = standing /\ expired' = expired,
           record' \in [Records -> RecordRow] /\ issued' \in Fps,
           request[q].at \in Finalizing, s.at \in Finalizing \ {"resolve"},
           s.at = "sign" => request[q].at = "resolve",
           s.at = "complete" => s.target \in Records,
           s.order = request[q].order /\ s.acct = request[q].acct /\ s.names = request[q].names
    PROVE  AcmeInv'
<1>0. AcmeTypeOK
  BY DEF AcmeInv
<1>1. Meant(request[q]) /\ Proved(request[q]) /\ Current(request[q])
  BY DEF AcmeInv, RequestsInv
<1>2. Meant(s) /\ Opening(s)
  BY <1>1 DEF Meant, Opening, Finalizing, Deciding
<1>3. Proved(s)
  BY <1>1 DEF Proved, Finalizing, Deciding
<1>4. Current(s)'
  BY <1>1 DEF Current, Finalizing, Deciding
<1>5. ASSUME NEW p \in Requests \ {q} PROVE Compatible(s, request[p])'
  <2>1. request'[p] = request[p]
    BY <1>0, OrderTypes
  <2>2. Compatible(request[q], request[p])
    BY DEF AcmeInv, RequestsInv
  <2> QED BY <2>1, <2>2 DEF Compatible, Deciding, Finalizing
<1>6. \A p \in Requests \ {q} : Compatible(s, request[p])'
  BY <1>5
<1>7. standing' \subseteq Accts /\ expired' \subseteq Orders /\ disturbed' \subseteq Orders
  BY <1>0, OrderTypes
<1>8. /\ disturbed \subseteq disturbed'
      /\ \A o \in Orders \ disturbed' :
               (o = request[q].order /\ o # s.order /\ order[o].status = "pending") =>
                   ~(\A n \in order[o].names : authz[o][n] = "valid")
  OBVIOUS
<1> QED BY <1>2, <1>3, <1>4, <1>6, <1>7, <1>8, RequestMoves

\* What follows for two requests when only the first changed.
LEMMA CompatibleStep ==
    ASSUME AcmeInv, NEW q \in Requests, NEW s, disturbed' = disturbed,
           request'[q] = s, \A p \in Requests \ {q} : request'[p] = request[p],
           \A p \in Requests \ {q} : Compatible(s, request[p])
    PROVE  \A p, x \in Requests : p # x => Compatible(request[p], request[x])'
<1> SUFFICES ASSUME NEW p \in Requests, NEW x \in Requests, p # x
             PROVE  Compatible(request[p], request[x])'
  OBVIOUS
<1>1. CASE p = q
  <2>1. Compatible(s, request[x]) /\ request'[p] = s /\ request'[x] = request[x]
    BY <1>1
  <2> QED BY <2>1 DEF Compatible
<1>2. CASE x = q
  <2>1. Compatible(s, request[p]) /\ request'[x] = s /\ request'[p] = request[p]
    BY <1>2
  <2> QED BY <2>1 DEF Compatible
<1>3. CASE p # q /\ x # q
  <2>1. Compatible(request[p], request[x]) /\ request'[x] = request[x] /\ request'[p] = request[p]
    BY <1>3 DEF AcmeInv, RequestsInv
  <2> QED BY <2>1 DEF Compatible
<1> QED BY <1>1, <1>2, <1>3

LEMMA CreateACMEOrderKeeps ==
    ASSUME AcmeInv, NEW q \in Requests, NEW o \in Orders, CreateACMEOrder(q, o)
    PROVE  AcmeInv'
<1>0. AcmeTypeOK
  BY DEF AcmeInv
<1>r. request[q] \in RequestState
  BY <1>0, OrderTypes
<1>1. /\ request[q].at = "create order" /\ order[o].status = "none"
      /\ request[q].order = Nil /\ request[q].names # {}
  BY DEF CreateACMEOrder, AcmeInv, RequestsInv, Meant
<1>2. /\ authz' = authz /\ signedFor' = signedFor /\ disturbed' = disturbed
      /\ standing' = standing /\ expired' = expired /\ record' = record /\ issued' = issued
  BY DEF CreateACMEOrder
<1>3. PICK row \in OrderRow :
          /\ order' = [order EXCEPT ![o] = row]
          /\ row.status = OpeningStatus(request[q].acct) /\ row.owner = request[q].acct
          /\ row.names = request[q].names
  <2> DEFINE row == [status |-> OpeningStatus(request[q].acct), owner |-> request[q].acct,
                     names |-> request[q].names, record |-> Nil, replaces |-> request[q].fp,
                     replaced |-> request[q].target]
  <2>1. order' = [order EXCEPT ![o] = row]
    BY DEF CreateACMEOrder
  <2>2. row \in OrderRow
    BY <1>r DEF RequestState, OrderRow, OpeningStatus, OrderStatus
  <2> QED BY <2>1, <2>2
<1>4. row.status \in {"pending", "ready"} /\ (row.owner \in ProofAccts => row.status = "pending")
  BY <1>3 DEF OpeningStatus
<1>5. order'[o] = row /\ \A x \in Orders \ {o} : order'[x] = order[x]
  BY <1>0, <1>3, OrderTypes
<1>6. PICK s \in RequestState :
          /\ request' = [request EXCEPT ![q] = s]
          /\ \/ s = NoRequest
             \/ s.at = "create authorizations" /\ s.order = o /\ request[q].acct \in ProofAccts
  <2> DEFINE s == [request[q] EXCEPT !.at = "create authorizations", !.order = o]
  <2>1. s \in RequestState /\ s.at = "create authorizations" /\ s.order = o
    BY <1>r DEF RequestState
  <2>2. request' = [request EXCEPT ![q] = IF request[q].acct \in ProofAccts THEN s ELSE NoRequest]
    BY <1>0, OrderTypes DEF CreateACMEOrder
  <2> HIDE DEF s
  <2> QED BY <2>1, <2>2, NoRequestFacts
<1>7. request'[q] = s /\ \A p \in Requests \ {q} : request'[p] = request[p]
  BY <1>0, <1>6, OrderTypes
<1>8. AcmeTypeOK'
  <2>1. order' \in [Orders -> OrderRow] /\ request' \in [Requests -> RequestState]
    BY <1>0, <1>3, <1>6, OrderTypes
  <2>2. \A x \in Orders : order'[x].status = "valid" => order'[x].record # Nil
    BY <1>0, <1>4, <1>5, OrderTypes
  <2> QED BY <1>0, <1>2, <2>1, <2>2, OrderTypes DEF AcmeTypeOK
<1>9. ASSUME NEW p \in Requests \ {q} PROVE request[p].order # o
  BY <1>0, <1>1, OrderTypes DEF AcmeInv, RequestsInv, Meant
<1>10. OrderInv(o)
  BY DEF AcmeInv, OrdersInv
<1>11. ASSUME NEW p \in Requests
       PROVE  (Meant(request[p]) /\ Proved(request[p]) /\ Opening(request[p]) /\ Current(request[p]))'
  <2>1. CASE p = q
    <3>1. request'[p] = s
      BY <1>7, <2>1
    <3>2. CASE s = NoRequest
      <4>1. NoRequest.at = "idle" /\ NoRequest.order = Nil
        BY NoRequestFacts
      <4> QED BY <3>1, <3>2, <4>1 DEF Meant, Proved, Opening, Current, Deciding, Finalizing
    <3>3. ASSUME s.at = "create authorizations", s.order = o, request[q].acct \in ProofAccts
          PROVE  (Meant(request[p]) /\ Proved(request[p]) /\ Opening(request[p]) /\ Current(request[p]))'
      <4>1. order'[o].status = "pending"
        BY <1>3, <1>4, <1>5, <3>3
      <4>2. \A n \in AcmeNames : authz'[o][n] = "none"
        BY <1>1, <1>2, <1>10 DEF OrderInv
      <4> QED
        BY <3>1, <3>3, <4>1, <4>2 DEF Meant, Proved, Opening, Current, Deciding, Finalizing
    <3> QED BY <1>6, <3>2, <3>3
  <2>2. ASSUME p # q
        PROVE  (Meant(request[p]) /\ Proved(request[p]) /\ Opening(request[p]) /\ Current(request[p]))'
    <3>1. /\ Meant(request[p]) /\ Proved(request[p]) /\ Opening(request[p]) /\ Current(request[p])
          /\ request'[p] = request[p] /\ request[p].order # o
      BY <1>7, <1>9, <2>2 DEF AcmeInv, RequestsInv
    <3>2. CASE request[p].at \in {"idle", "create order"}
      BY <3>1, <3>2 DEF Meant, Proved, Opening, Current, Deciding, Finalizing
    <3>3. CASE request[p].at \notin {"idle", "create order"}
      <4>1. order'[request[p].order] = order[request[p].order]
        BY <1>5, <3>1, <3>3 DEF Meant
      <4>2. Meant(request[p])' /\ Proved(request[p])'
        BY <3>1, <4>1 DEF Meant, Proved
      <4>3. Opening(request[p])' /\ Current(request[p])'
        BY <1>2, <3>1, <4>1 DEF Opening, Current
      <4> QED BY <4>2, <4>3
    <3> QED BY <3>2, <3>3
  <2> QED BY <2>1, <2>2
<1>12. RequestsInv'
  <2>1. \A p \in Requests \ {q} : Compatible(s, request[p])
    BY <1>6, <1>9, NoRequestFacts DEF Compatible
  <2> QED BY <1>2, <1>7, <1>11, <2>1, CompatibleStep DEF RequestsInv
<1>13. OrdersInv'
  <2>1. ASSUME NEW x \in Orders, x # o PROVE OrderInv(x)'
    <3>1. OrderInv(x)
      BY DEF AcmeInv, OrdersInv
    <3> QED BY <1>2, <1>5, <2>1, <3>1 DEF OrderInv
  <2>2. OrderInv(o)'
    BY <1>1, <1>2, <1>3, <1>4, <1>5, <1>10 DEF OrderInv
  <2> QED BY <2>1, <2>2 DEF OrdersInv
<1>14. OneCertificatePerOrder'
  BY <1>2 DEF AcmeInv, OneCertificatePerOrder
<1>15. OrderFollowsAuthorizations'
  <2> SUFFICES ASSUME NEW x \in Orders \ disturbed, order'[x].status = "pending",
                      \A n \in order'[x].names : authz[x][n] = "valid"
               PROVE  \E p \in Requests : request'[p].order = x
    BY <1>2 DEF OrderFollowsAuthorizations
  <2>1. x # o
    <3>1. PICK n \in AcmeNames : n \in row.names
      BY <1>1, <1>3, <1>r DEF RequestState
    <3>2. authz[o][n] = "none"
      BY <1>1, <1>10 DEF OrderInv
    <3> QED BY <1>5, <3>1, <3>2
  <2>2. PICK p \in Requests : request[p].order = x
    BY <1>5, <2>1 DEF AcmeInv, OrderFollowsAuthorizations
  <2>3. p # q
    BY <1>0, <1>1, <2>2, OrderTypes
  <2> QED BY <1>7, <2>2, <2>3
<1> QED BY <1>8, <1>12, <1>13, <1>14, <1>15 DEF AcmeInv

\* One authorization is written, by the request that has the order to itself.
LEMMA AuthorizationWritten ==
    ASSUME AcmeInv, NEW q \in Requests, NEW s \in RequestState, NEW o \in Orders, o = request[q].order,
           NEW n \in AcmeNames, NEW status \in AuthzStatus \ {"none"},
           authz' \in [Orders -> [AcmeNames -> AuthzStatus]],
           authz'[o][n] = status, \A m \in AcmeNames \ {n} : authz'[o][m] = authz[o][m],
           \A x \in Orders \ {o} : authz'[x] = authz[x],
           request' \in [Requests -> RequestState],
           request'[q] = s, \A p \in Requests \ {q} : request'[p] = request[p],
           order' = order /\ signedFor' = signedFor /\ disturbed' = disturbed,
           standing' = standing /\ expired' = expired /\ record' = record /\ issued' = issued,
           request[q].at \in {"create authorizations", "look"},
           status = "valid" => Provable(n),
           s.order = o, Meant(s), Proved(s), Opening(s)', Current(s)',
           \A p \in Requests \ {q} : Compatible(s, request[p])
    PROVE  AcmeInv'
<1>0. AcmeTypeOK
  BY DEF AcmeInv
<1>1. request'[q] = s /\ \A p \in Requests \ {q} : request'[p] = request[p]
  OBVIOUS
<1>3. AcmeTypeOK'
  BY <1>0, OrderTypes DEF AcmeTypeOK
<1>4. ASSUME NEW p \in Requests
      PROVE  (Meant(request[p]) /\ Proved(request[p]) /\ Opening(request[p]) /\ Current(request[p]))'
  <2>1. CASE p = q
    <3>1. request'[p] = s
      BY <1>1, <2>1
    <3>2. Meant(request[p])' /\ Proved(request[p])'
      BY <3>1 DEF Meant, Proved
    <3>3. Opening(request[p])'
      BY <3>1 DEF Opening
    <3>4. Current(request[p])'
      BY <3>1 DEF Current
    <3> QED BY <3>2, <3>3, <3>4
  <2>2. ASSUME p # q
        PROVE  (Meant(request[p]) /\ Proved(request[p]) /\ Opening(request[p]) /\ Current(request[p]))'
    <3>1. /\ Meant(request[p]) /\ Proved(request[p]) /\ Opening(request[p]) /\ Current(request[p])
          /\ Compatible(request[q], request[p]) /\ request'[p] = request[p]
      BY <1>1, <2>2 DEF AcmeInv, RequestsInv
    <3>2. Meant(request[p])' /\ Proved(request[p])'
      BY <3>1 DEF Meant, Proved
    <3>3. CASE request[p].order # o
      <4>1. CASE request[p].at \in {"idle", "create order"}
        BY <3>1, <3>2, <4>1 DEF Opening, Current, Deciding, Finalizing
      <4>2. CASE request[p].at \notin {"idle", "create order"}
        <5>1. authz'[request[p].order] = authz[request[p].order]
          BY <3>1, <3>3, <4>2 DEF Meant
        <5>2. Opening(request[p])'
          BY <3>1, <5>1 DEF Opening
        <5>3. Current(request[p])'
          <6>1. PICK t : t = request[p]
            OBVIOUS
          <6>2. /\ Current(t) /\ authz'[t.order] = authz[t.order] /\ order'[t.order] = order[t.order]
                /\ signedFor'[t.order] = signedFor[t.order] /\ (t.order \in disturbed => t.order \in disturbed')
            BY <3>1, <5>1, <6>1
          <6>3. Current(t)'
            BY <6>2, CurrentKept
          <6>4. request'[p] = t
            BY <3>1, <6>1
          <6> QED BY <6>3, <6>4 DEF Current
        <5> QED BY <3>2, <5>2, <5>3
      <4> QED BY <4>1, <4>2
    <3>4. CASE request[p].order = o
      <4>1. o # Nil
        BY <1>0, OrderTypes
      <4>2. /\ request[p].at # "create authorizations" /\ request[q].at = "look"
            /\ o \notin disturbed => request[p].at \notin Deciding
        BY <3>1, <3>4, <4>1 DEF Compatible, Deciding
      <4>3. Opening(request[p])'
        BY <3>1, <4>2 DEF Opening
      <4>4. Current(request[p])'
        <5>1. request'[p] = request[p] /\ request[p].order = o
          BY <3>1, <3>4
        <5> QED BY <3>1, <4>2, <5>1, ZenonT(30) DEF Current, Deciding
      <4> QED BY <3>2, <4>3, <4>4
    <3> QED BY <3>3, <3>4
  <2> QED BY <2>1, <2>2
<1>5. RequestsInv'
  BY <1>1, <1>4, CompatibleStep DEF RequestsInv
<1>6. OrdersInv'
  <2>1. ASSUME NEW x \in Orders, x # o PROVE OrderInv(x)'
    <3>1. OrderInv(x)
      BY DEF AcmeInv, OrdersInv
    <3> QED BY <2>1, <3>1 DEF OrderInv
  <2>2. OrderInv(o)'
    <3>1. OrderInv(o) /\ order[o].status # "none"
      BY DEF AcmeInv, OrdersInv, RequestsInv, Meant
    <3> QED BY <3>1 DEF OrderInv
  <2> QED BY <2>1, <2>2 DEF OrdersInv
<1>7. OneCertificatePerOrder'
  BY DEF AcmeInv, OneCertificatePerOrder
<1>8. OrderFollowsAuthorizations'
  <2> SUFFICES ASSUME NEW x \in Orders \ disturbed, order[x].status = "pending",
                      \A m \in order[x].names : authz'[x][m] = "valid"
               PROVE  \E p \in Requests : request'[p].order = x
    BY DEF OrderFollowsAuthorizations
  <2>1. CASE x = o
    BY <1>1, <2>1
  <2>2. CASE x # o
    <3>1. OrderFollowsAuthorizations /\ authz'[x] = authz[x]
      BY <2>2 DEF AcmeInv
    <3>2. PICK p \in Requests : request[p].order = x
      BY <3>1, ZenonT(30) DEF OrderFollowsAuthorizations
    <3> QED BY <1>1, <2>2, <3>2
  <2> QED BY <2>1, <2>2
<1> QED BY <1>3, <1>5, <1>6, <1>7, <1>8 DEF AcmeInv

LEMMA CreateACMEAuthorizationKeeps ==
    ASSUME AcmeInv, NEW q \in Requests, CreateACMEAuthorization(q)
    PROVE  AcmeInv'
<1>0. AcmeTypeOK
  BY DEF AcmeInv
<1>1. /\ request[q].at = "create authorizations"
      /\ signedFor' = signedFor /\ disturbed' = disturbed
      /\ standing' = standing /\ expired' = expired /\ record' = record /\ issued' = issued
  BY DEF CreateACMEAuthorization
<1>2. request[q] \in RequestState /\ Meant(request[q]) /\ Proved(request[q]) /\ Opening(request[q])
  BY <1>0, OrderTypes DEF AcmeInv, RequestsInv
<1>3. PICK o \in Orders : o = request[q].order
  BY <1>1, <1>2 DEF Meant
<1> DEFINE missing == {n \in request[q].names : authz[o][n] = "none"}
<1>4. ASSUME NEW n \in missing, authz' = [authz EXCEPT ![o][n] = "pending"], request' = request, order' = order
      PROVE  AcmeInv'
  <2>1. n \in AcmeNames
    BY <1>2 DEF RequestState
  <2>2. PICK s \in RequestState : s = request[q]
    BY <1>2
  <2>3. /\ request' \in [Requests -> RequestState]
        /\ request'[q] = s /\ \A p \in Requests \ {q} : request'[p] = request[p]
    BY <1>0, <1>4, <2>2, OrderTypes
  <2>4. s.at = "create authorizations" /\ s.order = o
    BY <1>1, <1>3, <2>2
  <2>5. Meant(s) /\ Proved(s)
    BY <1>2, <2>2 DEF Meant, Proved
  <2>6. Opening(s)'
    <3>1. order[o].status = "pending" /\ \A m \in AcmeNames : authz[o][m] \in {"none", "pending"}
      BY <1>1, <1>2, <1>3 DEF Opening
    <3>2. \A m \in AcmeNames : authz'[o][m] \in {"none", "pending"}
      BY <1>0, <1>4, <2>1, <3>1, OrderTypes
    <3> QED BY <1>4, <2>4, <3>1, <3>2 DEF Opening
  <2>7. Current(s)'
    BY <2>4 DEF Current, Deciding, Finalizing
  <2>8. \A p \in Requests \ {q} : Compatible(s, request[p])
    BY <2>2 DEF AcmeInv, RequestsInv
  <2>9. "pending" \in AuthzStatus \ {"none"} /\ "pending" # "valid"
    BY DEF AuthzStatus
  <2>10. /\ authz' \in [Orders -> [AcmeNames -> AuthzStatus]]
         /\ authz'[o][n] = "pending" /\ \A m \in AcmeNames \ {n} : authz'[o][m] = authz[o][m]
         /\ \A x \in Orders \ {o} : authz'[x] = authz[x]
    BY <1>0, <1>4, <2>1, <2>9, OrderTypes
  <2> QED BY <1>1, <1>3, <1>4, <2>1, <2>10, <2>3, <2>4, <2>5, <2>6, <2>7, <2>8, <2>9, AuthorizationWritten
<1>5. ASSUME AnswerOrder(q), authz' = authz, order' = order PROVE AcmeInv'
  <2>1. ~(\A n \in order[o].names : authz[o][n] = "valid")
    <3>1. order[o].status = "pending" /\ \A m \in AcmeNames : authz[o][m] \in {"none", "pending"}
      BY <1>1, <1>2, <1>3 DEF Opening
    <3>2. order[o].names # {} /\ order[o].names \subseteq AcmeNames
      <4>1. order[o] \in OrderRow /\ OrderInv(o)
        BY <1>0, OrderTypes DEF AcmeInv, OrdersInv
      <4> QED BY <3>1, <4>1 DEF OrderRow, OrderInv
    <3> QED BY <3>1, <3>2
  <2>2. disturbed \subseteq disturbed' /\ disturbed' \subseteq Orders
    BY <1>0, <1>1, OrderTypes
  <2> QED BY <1>1, <1>3, <1>5, <2>1, <2>2, RequestAnswered
<1>6. ASSUME SetOrder(o, "invalid", Nil), AnswerOrder(q), authz' = authz PROVE AcmeInv'
  BY <1>1, <1>3, <1>6, OrderSettles
<1> QED BY <1>3, <1>4, <1>5, <1>6 DEF CreateACMEAuthorization

LEMMA UpdateACMEAuthorizationKeeps ==
    ASSUME AcmeInv, NEW q \in Requests, UpdateACMEAuthorization(q)
    PROVE  AcmeInv'
<1>0. AcmeTypeOK
  BY DEF AcmeInv
<1>1. /\ request[q].at = "look" /\ order' = order
      /\ signedFor' = signedFor /\ disturbed' = disturbed
      /\ standing' = standing /\ expired' = expired /\ record' = record /\ issued' = issued
  BY DEF UpdateACMEAuthorization
<1>2. /\ request[q] \in RequestState /\ Meant(request[q]) /\ Proved(request[q]) /\ Current(request[q])
  BY <1>0, OrderTypes DEF AcmeInv, RequestsInv
<1>3. PICK o \in Orders, n \in AcmeNames : o = request[q].order /\ n = request[q].name
  BY <1>1, <1>2 DEF Meant, Deciding
<1>4. PICK proof \in ProofHolds(n, request[q].kind, o) :
          LET status == IF proof THEN "valid" ELSE "invalid"
          IN /\ authz' = [authz EXCEPT ![o][n] = status]
             /\ request' = [request EXCEPT ![q].at = "order follows", ![q].status = status]
  BY <1>3 DEF UpdateACMEAuthorization
<1>5. PICK status \in {"valid", "invalid"} : status = IF proof THEN "valid" ELSE "invalid"
  OBVIOUS
<1>6. status = "valid" => Provable(n)
  <2>1. status = "valid" => <<n, request[q].kind>> \in Answerable
    BY <1>4, <1>5 DEF ProofHolds
  <2>2. request[q].kind \in ChallengeTypes(n)
    BY <1>1, <1>2, <1>3 DEF Proved
  <2> QED BY <2>1, <2>2 DEF ChallengeTypes, Provable
<1>7. PICK s \in RequestState :
          /\ request' = [request EXCEPT ![q] = s]
          /\ s.at = "order follows" /\ s.status = status /\ s.order = o /\ s.name = n
          /\ s.seen = request[q].seen
  <2> DEFINE s == [request[q] EXCEPT !.at = "order follows", !.status = status]
  <2>1. request' = [request EXCEPT ![q] = s]
    BY <1>0, <1>4, <1>5, OrderTypes
  <2>2. status \in OrderStatus
    BY <1>5 DEF OrderStatus
  <2>3. s \in RequestState
    BY <1>2, <2>2 DEF RequestState
  <2>4. /\ s.at = "order follows" /\ s.status = status
        /\ s.order = request[q].order /\ s.name = request[q].name /\ s.seen = request[q].seen
    BY <1>2 DEF RequestState
  <2> HIDE DEF s
  <2> QED BY <1>3, <2>1, <2>3, <2>4
<1>8. authz' = [authz EXCEPT ![o][n] = status]
  BY <1>4, <1>5
<1>9. Meant(s) /\ Opening(s)'
  BY <1>1, <1>2, <1>3, <1>7 DEF Meant, Opening, Deciding
<1>10. Proved(s)
  BY <1>1, <1>2, <1>6, <1>7 DEF Proved, Deciding, Finalizing
<1>11. Current(s)'
  <2> SUFFICES ASSUME o \notin disturbed
               PROVE  /\ order[o].status = "pending"
                      /\ \A m \in AcmeNames : authz'[o][m] = IF m = n THEN status ELSE s.seen[m]
    BY <1>1, <1>7 DEF Current, Deciding, Finalizing
  <2>1. order[o].status = "pending" /\ request[q].seen = authz[o]
    BY <1>1, <1>2, <1>3 DEF Current, Deciding
  <2>2. \A m \in AcmeNames : authz'[o][m] = IF m = n THEN status ELSE authz[o][m]
    BY <1>0, <1>8, OrderTypes
  <2> QED BY <1>7, <2>1, <2>2
<1>12. \A p \in Requests \ {q} : Compatible(s, request[p])
  <2>1. \A p \in Requests \ {q} : Compatible(request[q], request[p])
    BY DEF AcmeInv, RequestsInv
  <2> QED BY <1>1, <1>3, <1>7, <2>1 DEF Compatible, Deciding, Finalizing
<1>13. status \in AuthzStatus \ {"none"}
  BY DEF AuthzStatus
<1>14. /\ authz' \in [Orders -> [AcmeNames -> AuthzStatus]]
       /\ authz'[o][n] = status /\ \A m \in AcmeNames \ {n} : authz'[o][m] = authz[o][m]
       /\ \A x \in Orders \ {o} : authz'[x] = authz[x]
  BY <1>0, <1>8, <1>13, OrderTypes
<1>15. /\ request' \in [Requests -> RequestState]
       /\ request'[q] = s /\ \A p \in Requests \ {q} : request'[p] = request[p]
  BY <1>0, <1>7, OrderTypes
<1>16. s.order = o /\ request[q].at \in {"create authorizations", "look"}
  BY <1>1, <1>7
<1> QED BY <1>1, <1>3, <1>6, <1>14, <1>15, <1>16, <1>9, <1>10, <1>11, <1>12, <1>13, AuthorizationWritten

LEMMA OrderFollowsKeeps ==
    ASSUME AcmeInv, NEW q \in Requests, OrderFollows(q)
    PROVE  AcmeInv'
<1>0. AcmeTypeOK
  BY DEF AcmeInv
<1>1. /\ request[q].at = "order follows" /\ authz' = authz
      /\ signedFor' = signedFor /\ disturbed' = disturbed
      /\ standing' = standing /\ expired' = expired /\ record' = record /\ issued' = issued
      /\ AnswerOrder(q)
  BY DEF OrderFollows
<1>2. Meant(request[q]) /\ Proved(request[q]) /\ Current(request[q])
  BY DEF AcmeInv, RequestsInv
<1>3. PICK o \in Orders, n \in AcmeNames : o = request[q].order /\ n = request[q].name
  BY <1>1, <1>2 DEF Meant, Deciding
<1>4. order[o].names \subseteq AcmeNames
  <2>1. order[o] \in OrderRow
    BY <1>0, OrderTypes
  <2> QED BY <2>1 DEF OrderRow
<1>5. CASE SetOrder(o, "invalid", Nil)
  BY <1>1, <1>3, <1>5, OrderSettles
<1>6. ASSUME AllValid(o, request[q].seen, n, request[q].status), SetOrder(o, "ready", Nil)
      PROVE  AcmeInv'
  <2>1. \A m \in order[o].names : Provable(m)
    BY <1>1, <1>2, <1>3, <1>4, <1>6 DEF AllValid, Proved, Deciding
  <2> QED BY <1>1, <1>3, <1>6, <2>1, OrderSettles
<1>7. ASSUME ~AllValid(o, request[q].seen, n, request[q].status), order' = order
      PROVE  AcmeInv'
  <2>1. o \notin disturbed =>
           \A m \in AcmeNames : authz[o][m] = IF m = n THEN request[q].status ELSE request[q].seen[m]
    BY <1>1, <1>2, <1>3 DEF Current
  <2>2. o \notin disturbed => ~(\A m \in order[o].names : authz[o][m] = "valid")
    BY <1>4, <1>7, <2>1 DEF AllValid
  <2>3. disturbed \subseteq disturbed' /\ disturbed' \subseteq Orders
    BY <1>0, <1>1, OrderTypes
  <2> QED BY <1>1, <1>3, <1>7, <2>2, <2>3, RequestAnswered
<1> QED BY <1>3, <1>5, <1>6, <1>7 DEF OrderFollows

\* A request that only waits to claim does not mind what its order became.
LEMMA CurrentWaiting ==
    ASSUME NEW t, order'[t.order].status \notin {"none", "pending"},
           t.order \notin disturbed' => t.at \notin Deciding /\ t.at \notin Finalizing
    PROVE  Current(t)'
BY DEF Current, Deciding, Finalizing

\* The claim of a ready order, which nobody is deciding or finalizing.
LEMMA ClaimSucceeds ==
    ASSUME AcmeInv, NEW q \in Requests, NEW s \in RequestState, NEW o \in Orders, o = request[q].order,
           request[q].at = "claim", Claims(o),
           NEW row \in OrderRow, row.status = "processing" /\ row.names = order[o].names,
           order' \in [Orders -> OrderRow],
           order'[o] = row, \A x \in Orders \ {o} : order'[x] = order[x],
           request' \in [Requests -> RequestState],
           request'[q] = s, \A p \in Requests \ {q} : request'[p] = request[p],
           s.at = "resolve" /\ s.order = o /\ s.acct = request[q].acct /\ s.names = request[q].names,
           authz' = authz /\ signedFor' = signedFor /\ disturbed' = disturbed,
           standing' = standing /\ expired' = expired /\ record' = record /\ issued' = issued
    PROVE  AcmeInv'
<1>0. AcmeTypeOK
  BY DEF AcmeInv
<1>1. /\ order[o].status = "ready" /\ o # Nil
  BY <1>0, OrderTypes DEF Claims
<1>5. AcmeTypeOK'
  <2>1. \A x \in Orders : order'[x].status = "valid" => order'[x].record # Nil
    BY <1>0, OrderTypes
  <2> QED BY <1>0, <2>1, OrderTypes DEF AcmeTypeOK
<1>6. /\ Proved(request[q])
      /\ \A p \in Requests \ {q} : Compatible(request[q], request[p])
  BY DEF AcmeInv, RequestsInv
<1>7. OrderInv(o)
  BY DEF AcmeInv, OrdersInv
<1>8. ASSUME NEW p \in Requests \ {q}, request[p].order = o
      PROVE  /\ request[p].at # "create authorizations"
             /\ o \notin disturbed => request[p].at \notin Deciding /\ request[p].at \notin Finalizing
  <2>1. Current(request[p]) /\ Compatible(request[q], request[p])
    BY <1>6 DEF AcmeInv, RequestsInv
  <2> QED BY <1>1, <1>8, <2>1 DEF Current, Compatible
<1>9. ASSUME NEW p \in Requests
      PROVE  (Meant(request[p]) /\ Proved(request[p]) /\ Opening(request[p]) /\ Current(request[p]))'
  <2>1. CASE p = q
    <3>1. request'[p] = s /\ order'[o].status = "processing"
      BY <2>1
    <3>2. Meant(request[p])' /\ Opening(request[p])'
      BY <3>1 DEF Meant, Opening, Deciding
    <3>3. Proved(request[p])'
      BY <1>6, <3>1 DEF Proved, Deciding, Finalizing
    <3>4. Current(request[p])'
      <4>1. o \notin disturbed => signedFor[o] = 0
        BY <1>1, <1>7 DEF OrderInv
      <4>2. Current(s)'
        BY <3>1, <4>1 DEF Current, Deciding, Finalizing
      <4> QED BY <3>1, <4>2 DEF Current
    <3> QED BY <3>2, <3>3, <3>4
  <2>2. ASSUME p # q
        PROVE  (Meant(request[p]) /\ Proved(request[p]) /\ Opening(request[p]) /\ Current(request[p]))'
    <3>1. /\ Meant(request[p]) /\ Proved(request[p]) /\ Opening(request[p]) /\ Current(request[p])
          /\ request'[p] = request[p]
      BY <2>2 DEF AcmeInv, RequestsInv
    <3>2. \A x \in Orders : order[x].status # "none" => order'[x].status # "none"
      OBVIOUS
    <3>3. Meant(request[p])' /\ Proved(request[p])'
      BY <3>1, <3>2 DEF Meant, Proved
    <3>4. CASE request[p].at \in {"idle", "create order"}
      BY <3>1, <3>3, <3>4 DEF Opening, Current, Deciding, Finalizing
    <3>5. CASE request[p].at \notin {"idle", "create order"} /\ request[p].order # o
      <4>1. order'[request[p].order] = order[request[p].order]
        BY <3>1, <3>5 DEF Meant
      <4>2. Opening(request[p])'
        BY <3>1, <4>1 DEF Opening
      <4>3. PICK t : t = request[p]
        OBVIOUS
      <4>4. Current(t)'
        BY <3>1, <4>1, <4>3, CurrentKept
      <4>6. request'[p] = t
        BY <3>1, <4>3
      <4>5. Current(request[p])'
        BY <4>4, <4>6 DEF Current
      <4> QED BY <3>3, <4>2, <4>5
    <3>6. CASE request[p].order = o
      <4>1. /\ request[p].at # "create authorizations" /\ order'[o].status = "processing"
            /\ o \notin disturbed => request[p].at \notin Deciding /\ request[p].at \notin Finalizing
        BY <1>8, <2>2, <3>6
      <4>2. Opening(request[p])'
        BY <3>1, <4>1 DEF Opening
      <4>3. PICK t : t = request[p]
        OBVIOUS
      <4>4. Current(t)'
        BY <3>6, <4>1, <4>3, CurrentWaiting
      <4>6. request'[p] = t
        BY <3>1, <4>3
      <4>5. Current(request[p])'
        BY <4>4, <4>6 DEF Current
      <4> QED BY <3>3, <4>2, <4>5
    <3> QED BY <3>4, <3>5, <3>6
  <2> QED BY <2>1, <2>2
<1>10. RequestsInv'
  <2>1. \A p \in Requests \ {q} : Compatible(s, request[p])
    BY <1>8 DEF Compatible, Deciding, Finalizing
  <2> QED BY <1>9, <2>1, CompatibleStep DEF RequestsInv
<1>11. OrdersInv'
  <2>1. ASSUME NEW x \in Orders, x # o PROVE OrderInv(x)'
    <3>1. OrderInv(x)
      BY DEF AcmeInv, OrdersInv
    <3> QED BY <2>1, <3>1 DEF OrderInv
  <2>2. OrderInv(o)'
    BY <1>1, <1>7 DEF OrderInv
  <2> QED BY <2>1, <2>2 DEF OrdersInv
<1>12. OneCertificatePerOrder'
  BY DEF AcmeInv, OneCertificatePerOrder
<1>13. OrderFollowsAuthorizations'
  <2> SUFFICES ASSUME NEW x \in Orders \ disturbed, order'[x].status = "pending",
                      \A n \in order'[x].names : authz[x][n] = "valid"
               PROVE  \E p \in Requests : request'[p].order = x
    BY DEF OrderFollowsAuthorizations
  <2>1. x # o /\ order'[x] = order[x]
    OBVIOUS
  <2>2. PICK p \in Requests : request[p].order = x
    BY <2>1 DEF AcmeInv, OrderFollowsAuthorizations
  <2> QED BY <2>1, <2>2
<1> QED BY <1>5, <1>10, <1>11, <1>12, <1>13 DEF AcmeInv

LEMMA ClaimACMEOrderForFinalizeKeeps ==
    ASSUME AcmeInv, NEW q \in Requests, ClaimACMEOrderForFinalize(q)
    PROVE  AcmeInv'
<1>0. AcmeTypeOK
  BY DEF AcmeInv
<1>1. /\ request[q].at = "claim" /\ authz' = authz
      /\ signedFor' = signedFor /\ disturbed' = disturbed
      /\ standing' = standing /\ expired' = expired /\ record' = record /\ issued' = issued
  BY DEF ClaimACMEOrderForFinalize
<1>2. request[q] \in RequestState /\ Meant(request[q]) /\ Current(request[q])
  BY <1>0, OrderTypes DEF AcmeInv, RequestsInv
<1>3. PICK o \in Orders : o = request[q].order
  BY <1>1, <1>2 DEF Meant
<1>4. CASE Claims(o)
  <2>1. order' = [order EXCEPT ![o].status = "processing"]
    BY <1>3, <1>4 DEF ClaimACMEOrderForFinalize
  <2>2. PICK s \in RequestState :
            /\ request' = [request EXCEPT ![q] = s]
            /\ s.at = "resolve" /\ s.order = o /\ s.acct = request[q].acct /\ s.names = request[q].names
    <3> DEFINE s == [request[q] EXCEPT !.at = "resolve"]
    <3>1. request' = [request EXCEPT ![q] = s]
      BY <1>0, <1>3, <1>4, OrderTypes DEF ClaimACMEOrderForFinalize
    <3>2. /\ s \in RequestState /\ s.at = "resolve" /\ s.order = request[q].order
          /\ s.acct = request[q].acct /\ s.names = request[q].names
      BY <1>2 DEF RequestState
    <3> HIDE DEF s
    <3> QED BY <1>3, <3>1, <3>2
  <2>3. PICK row \in OrderRow : row.status = "processing" /\ row.names = order[o].names
                                /\ row = [order[o] EXCEPT !.status = "processing"]
    <3>1. order[o] \in OrderRow
      BY <1>0, OrderTypes
    <3> QED BY <3>1 DEF OrderRow, OrderStatus
  <2>4. /\ order' \in [Orders -> OrderRow]
        /\ order'[o] = row /\ \A x \in Orders \ {o} : order'[x] = order[x]
    BY <1>0, <2>1, <2>3, OrderTypes
  <2>5. /\ request' \in [Requests -> RequestState]
        /\ request'[q] = s /\ \A p \in Requests \ {q} : request'[p] = request[p]
    BY <1>0, <2>2, OrderTypes
  <2>6. s.at = "resolve" /\ s.order = o /\ s.acct = request[q].acct /\ s.names = request[q].names
    BY <2>2
  <2>7. row.status = "processing" /\ row.names = order[o].names
    BY <2>3
  <2> QED BY <1>1, <1>3, <1>4, <2>4, <2>5, <2>6, <2>7, ClaimSucceeds
<1>5. CASE ~Claims(o)
  <2>1. order' = order /\ AnswerOrder(q)
    BY <1>3, <1>5 DEF ClaimACMEOrderForFinalize, AnswerOrder
  <2>2. o \notin disturbed => order[o].status # "pending"
    BY <1>1, <1>2, <1>3 DEF Current
  <2>3. disturbed \subseteq disturbed' /\ disturbed' \subseteq Orders
    BY <1>0, <1>1, OrderTypes
  <2> QED BY <1>1, <1>3, <2>1, <2>2, <2>3, RequestAnswered
<1> QED BY <1>4, <1>5

LEMMA ResolveKeeps ==
    ASSUME AcmeInv, NEW q \in Requests, Resolve(q)
    PROVE  AcmeInv'
<1>0. AcmeTypeOK
  BY DEF AcmeInv
<1>1. /\ request[q].at = "resolve" /\ order' = order /\ authz' = authz
      /\ signedFor' = signedFor /\ disturbed' = disturbed
      /\ standing' = standing /\ expired' = expired
      /\ record' \in [Records -> RecordRow] /\ issued' \in Fps
  BY <1>0, OrderTypes DEF Resolve
<1>2. request[q] \in RequestState /\ Meant(request[q])
  BY <1>0, OrderTypes DEF AcmeInv, RequestsInv
<1>3. ASSUME NEW r \in Previous(request[q].acct, request[q].order, request[q].names),
             request' = [request EXCEPT ![q].at = "sign", ![q].target = r]
      PROVE  AcmeInv'
  <2>1. r \in Records \cup {Nil}
    <3>1. order[request[q].order] \in OrderRow
      BY <1>0, <1>1, <1>2, OrderTypes DEF Meant
    <3> QED BY <3>1 DEF Previous, ReplacedRecord, Renews, OrderRow
  <2> DEFINE s == [request[q] EXCEPT !.at = "sign", !.target = r]
  <2>2. /\ s \in RequestState /\ s.at = "sign" /\ s.order = request[q].order
        /\ s.acct = request[q].acct /\ s.names = request[q].names
    BY <1>2, <2>1 DEF RequestState
  <2>3. request' = [request EXCEPT ![q] = s]
    BY <1>0, <1>3, OrderTypes
  <2> HIDE DEF s
  <2>4. request[q].at \in Finalizing /\ s.at \in Finalizing \ {"resolve"}
    BY <1>1, <2>2 DEF Finalizing
  <2> QED BY <1>1, <2>2, <2>3, <2>4, FinalizeMoves
<1>4. ASSUME request' = [request EXCEPT ![q].at = "fail"] PROVE AcmeInv'
  <2> DEFINE s == [request[q] EXCEPT !.at = "fail"]
  <2>2. /\ s \in RequestState /\ s.at = "fail" /\ s.order = request[q].order
        /\ s.acct = request[q].acct /\ s.names = request[q].names
    BY <1>2 DEF RequestState
  <2>3. request' = [request EXCEPT ![q] = s]
    BY <1>0, <1>4, OrderTypes
  <2> HIDE DEF s
  <2>4. request[q].at \in Finalizing /\ s.at \in Finalizing \ {"resolve"}
    BY <1>1, <2>2 DEF Finalizing
  <2> QED BY <1>1, <2>2, <2>3, <2>4, FinalizeMoves
<1> QED BY <1>3, <1>4 DEF Resolve

\* The CA signs, once: a finalizing request that has not signed is the only one
\* and the order had no certificate.
LEMMA SignSucceeds ==
    ASSUME AcmeInv, NEW q \in Requests, NEW s \in RequestState, NEW o \in Orders, o = request[q].order,
           request[q].at = "sign", issued' \in Fps,
           signedFor' \in [Orders -> Nat], signedFor'[o] = signedFor[o] + 1,
           \A x \in Orders \ {o} : signedFor'[x] = signedFor[x],
           request' \in [Requests -> RequestState],
           request'[q] = s, \A p \in Requests \ {q} : request'[p] = request[p],
           s.at = "store" /\ s.order = o /\ s.acct = request[q].acct /\ s.names = request[q].names,
           order' = order /\ authz' = authz /\ disturbed' = disturbed,
           standing' = standing /\ expired' = expired /\ record' = record
    PROVE  AcmeInv'
<1>0. AcmeTypeOK
  BY DEF AcmeInv
<1>1. o # Nil
  BY <1>0, OrderTypes
<1>2. /\ Meant(request[q]) /\ Proved(request[q]) /\ Current(request[q]) /\ OrderInv(o)
      /\ \A p \in Requests \ {q} : Compatible(request[q], request[p])
  BY DEF AcmeInv, RequestsInv, OrdersInv
<1>3. o \notin disturbed => order[o].status = "processing" /\ signedFor[o] = 0
  BY <1>2 DEF Current, Finalizing
<1>4. AcmeTypeOK'
  BY <1>0, OrderTypes DEF AcmeTypeOK
<1>5. ASSUME NEW p \in Requests
      PROVE  (Meant(request[p]) /\ Proved(request[p]) /\ Opening(request[p]) /\ Current(request[p]))'
  <2>1. CASE p = q
    <3>1. request'[p] = s
      BY <2>1
    <3>2. Meant(s)' /\ Opening(s)'
      BY <1>2 DEF Meant, Opening, Deciding
    <3>3. Proved(s)'
      BY <1>2 DEF Proved, Deciding, Finalizing
    <3>4. Current(s)'
      BY <1>3 DEF Current, Deciding, Finalizing
    <3>5. Meant(request[p])' /\ Opening(request[p])'
      BY <3>1, <3>2 DEF Meant, Opening
    <3>6. Proved(request[p])'
      BY <3>1, <3>3 DEF Proved
    <3>7. Current(request[p])'
      BY <3>1, <3>4 DEF Current
    <3> QED BY <3>5, <3>6, <3>7
  <2>2. ASSUME p # q
        PROVE  (Meant(request[p]) /\ Proved(request[p]) /\ Opening(request[p]) /\ Current(request[p]))'
    <3>1. /\ Meant(request[p]) /\ Proved(request[p]) /\ Opening(request[p]) /\ Current(request[p])
          /\ request'[p] = request[p]
      BY <2>2 DEF AcmeInv, RequestsInv
    <3>2. Meant(request[p])' /\ Proved(request[p])' /\ Opening(request[p])'
      BY <3>1 DEF Meant, Proved, Opening
    <3>3. CASE request[p].at \in {"idle", "create order"}
      BY <3>1, <3>2, <3>3 DEF Current, Deciding, Finalizing
    <3>4. CASE request[p].at \notin {"idle", "create order"} /\ request[p].order # o
      <4>1. signedFor'[request[p].order] = signedFor[request[p].order]
        BY <3>1, <3>4 DEF Meant
      <4>2. PICK t : t = request[p]
        OBVIOUS
      <4>3. Current(t)'
        BY <3>1, <4>1, <4>2, CurrentKept
      <4>4. request'[p] = t
        BY <3>1, <4>2
      <4>5. Current(request[p])'
        BY <4>3, <4>4 DEF Current
      <4> QED BY <3>2, <4>5
    <3>5. CASE request[p].order = o
      <4>1. o \notin disturbed => request[p].at \notin {"resolve", "sign"}
        BY <1>1, <1>2, <2>2, <3>5 DEF Compatible, Finalizing
      <4>2. PICK t : t = request[p]
        OBVIOUS
      <4>3. Current(t) /\ t.order = o /\ (o \notin disturbed => t.at \notin {"resolve", "sign"})
        BY <3>1, <3>5, <4>1, <4>2
      <4>4. Current(t)'
        BY <4>3 DEF Current
      <4>5. request'[p] = t
        BY <3>1, <4>2
      <4>6. Current(request[p])'
        BY <4>4, <4>5 DEF Current
      <4> QED BY <3>2, <4>6
    <3> QED BY <3>3, <3>4, <3>5
  <2> QED BY <2>1, <2>2
<1>6. RequestsInv'
  <2>1. \A p \in Requests \ {q} : Compatible(s, request[p])
    BY <1>2 DEF Compatible, Deciding, Finalizing
  <2> QED BY <1>5, <2>1, CompatibleStep DEF RequestsInv
<1>7. OrdersInv'
  <2>1. ASSUME NEW x \in Orders, x # o PROVE OrderInv(x)'
    <3>1. OrderInv(x)
      BY DEF AcmeInv, OrdersInv
    <3> QED BY <2>1, <3>1 DEF OrderInv
  <2>2. OrderInv(o)'
    BY <1>2, <1>3 DEF OrderInv
  <2> QED BY <2>1, <2>2 DEF OrdersInv
<1>8. OneCertificatePerOrder'
  BY <1>0, <1>3 DEF AcmeInv, OneCertificatePerOrder
<1>9. OrderFollowsAuthorizations'
  <2> SUFFICES ASSUME NEW x \in Orders \ disturbed, order[x].status = "pending",
                      \A n \in order[x].names : authz[x][n] = "valid"
               PROVE  \E p \in Requests : request'[p].order = x
    BY DEF OrderFollowsAuthorizations
  <2>1. PICK p \in Requests : request[p].order = x
    BY DEF AcmeInv, OrderFollowsAuthorizations
  <2>2. CASE p = q
    BY <2>1, <2>2
  <2>3. CASE p # q
    BY <2>1, <2>3
  <2> QED BY <2>2, <2>3
<1> QED BY <1>4, <1>6, <1>7, <1>8, <1>9 DEF AcmeInv

LEMMA SignCSRKeeps ==
    ASSUME AcmeInv, NEW q \in Requests, SignCSR(q)
    PROVE  AcmeInv'
<1>0. AcmeTypeOK
  BY DEF AcmeInv
<1>1. /\ request[q].at = "sign" /\ order' = order /\ authz' = authz /\ disturbed' = disturbed
      /\ standing' = standing /\ expired' = expired /\ record' = record
  BY DEF SignCSR
<1>2. request[q] \in RequestState /\ Meant(request[q])
  BY <1>0, OrderTypes DEF AcmeInv, RequestsInv
<1>3. PICK o \in Orders : o = request[q].order
  BY <1>1, <1>2 DEF Meant
<1>4. ASSUME issued < MaxSigned, issued' = issued + 1,
             request' = [request EXCEPT ![q].at = "store", ![q].fp = issued + 1],
             signedFor' = [signedFor EXCEPT ![o] = @ + 1]
      PROVE  AcmeInv'
  <2>1. issued' \in Fps
    BY <1>0, <1>4, OrderTypes, AcmeAssumption DEF Fps
  <2>2. /\ signedFor' \in [Orders -> Nat] /\ signedFor'[o] = signedFor[o] + 1
        /\ \A x \in Orders \ {o} : signedFor'[x] = signedFor[x]
    BY <1>0, <1>4, OrderTypes
  <2>3. PICK s \in RequestState : /\ s.at = "store" /\ s.order = request[q].order
                                  /\ s.acct = request[q].acct /\ s.names = request[q].names
                                  /\ s = [request[q] EXCEPT !.at = "store", !.fp = issued']
    BY <1>2, <2>1 DEF RequestState
  <2>4. /\ request' \in [Requests -> RequestState]
        /\ request'[q] = s /\ \A p \in Requests \ {q} : request'[p] = request[p]
    BY <1>0, <1>4, <2>3, OrderTypes
  <2>5. s.at = "store" /\ s.order = o /\ s.acct = request[q].acct /\ s.names = request[q].names
    BY <1>3, <2>3
  <2> QED BY <1>1, <1>3, <2>1, <2>2, <2>4, <2>5, SignSucceeds
<1>5. ASSUME request' = [request EXCEPT ![q].at = "fail"], issued' = issued, signedFor' = signedFor
      PROVE  AcmeInv'
  <2> DEFINE s == [request[q] EXCEPT !.at = "fail"]
  <2>2. /\ s \in RequestState /\ s.at = "fail" /\ s.order = request[q].order
        /\ s.acct = request[q].acct /\ s.names = request[q].names
    BY <1>2 DEF RequestState
  <2>3. request' = [request EXCEPT ![q] = s]
    BY <1>0, <1>5, OrderTypes
  <2> HIDE DEF s
  <2>4. request[q].at \in Finalizing /\ s.at \in Finalizing \ {"resolve"}
    BY <1>1, <2>2 DEF Finalizing
  <2>5. record' \in [Records -> RecordRow] /\ issued' \in Fps
    BY <1>0, <1>1, <1>5, OrderTypes
  <2> QED BY <1>1, <1>5, <2>2, <2>3, <2>4, <2>5, FinalizeMoves
<1> QED BY <1>3, <1>4, <1>5 DEF SignCSR

LEMMA StoreCertificateKeeps ==
    ASSUME AcmeInv, NEW q \in Requests, StoreCertificate(q)
    PROVE  AcmeInv'
<1>0. AcmeTypeOK
  BY DEF AcmeInv
<1>1. /\ request[q].at = "store" /\ order' = order /\ authz' = authz
      /\ signedFor' = signedFor /\ disturbed' = disturbed
      /\ standing' = standing /\ expired' = expired /\ issued' \in Fps
  BY <1>0, OrderTypes DEF StoreCertificate
<1>2. request[q] \in RequestState
  BY <1>0, OrderTypes
<1>3. ASSUME NEW r \in Records,
             record' = [record EXCEPT ![r] = [status |-> "ISSUED", fp |-> request[q].fp, names |-> request[q].names]],
             request' = [request EXCEPT ![q].at = "complete", ![q].target = r]
      PROVE  AcmeInv'
  <2> DEFINE s == [request[q] EXCEPT !.at = "complete", !.target = r]
  <2>1. [status |-> "ISSUED", fp |-> request[q].fp, names |-> request[q].names] \in RecordRow
    BY <1>2 DEF RequestState, RecordRow
  <2>2. record' \in [Records -> RecordRow]
    BY <1>0, <1>3, <2>1, OrderTypes
  <2>3. /\ s \in RequestState /\ s.at = "complete" /\ s.order = request[q].order
        /\ s.acct = request[q].acct /\ s.names = request[q].names /\ s.target = r
    BY <1>2 DEF RequestState
  <2>4. request' = [request EXCEPT ![q] = s]
    BY <1>0, <1>3, OrderTypes
  <2> HIDE DEF s
  <2>5. request[q].at \in Finalizing /\ s.at \in Finalizing \ {"resolve"}
    BY <1>1, <2>3 DEF Finalizing
  <2> QED BY <1>1, <2>2, <2>3, <2>4, <2>5, FinalizeMoves
<1>4. ASSUME request' = [request EXCEPT ![q].at = "fail"], record' = record PROVE AcmeInv'
  <2> DEFINE s == [request[q] EXCEPT !.at = "fail"]
  <2>2. /\ s \in RequestState /\ s.at = "fail" /\ s.order = request[q].order
        /\ s.acct = request[q].acct /\ s.names = request[q].names
    BY <1>2 DEF RequestState
  <2>3. request' = [request EXCEPT ![q] = s]
    BY <1>0, <1>4, OrderTypes
  <2> HIDE DEF s
  <2>4. request[q].at \in Finalizing /\ s.at \in Finalizing \ {"resolve"}
    BY <1>1, <2>2 DEF Finalizing
  <2>5. record' \in [Records -> RecordRow]
    BY <1>0, <1>4, OrderTypes
  <2> QED BY <1>1, <2>2, <2>3, <2>4, <2>5, FinalizeMoves
<1> QED BY <1>3, <1>4 DEF StoreCertificate

LEMMA CompleteOrderKeeps ==
    ASSUME AcmeInv, NEW q \in Requests, CompleteOrder(q)
    PROVE  AcmeInv'
<1>1. /\ request[q].at \in {"complete", "fail"} /\ authz' = authz /\ AnswerOrder(q)
      /\ signedFor' = signedFor /\ disturbed' = disturbed
      /\ standing' = standing /\ expired' = expired /\ record' = record /\ issued' = issued
  BY DEF CompleteOrder
<1>2. Meant(request[q])
  BY DEF AcmeInv, RequestsInv
<1>3. PICK o \in Orders : o = request[q].order
  BY <1>1, <1>2 DEF Meant
<1>4. CASE request[q].at = "complete"
  <2>1. PICK r \in Records : r = request[q].target
    BY <1>2, <1>4 DEF Meant
  <2>2. SetOrder(o, "valid", r) /\ r # Nil
    BY <1>3, <1>4, <2>1, AcmeAssumption DEF CompleteOrder, Outcome
  <2> QED BY <1>1, <1>3, <2>2, OrderSettles
<1>5. CASE request[q].at = "fail"
  <2>1. SetOrder(o, "invalid", Nil)
    BY <1>3, <1>5 DEF CompleteOrder, Outcome
  <2> QED BY <1>1, <1>3, <2>1, OrderSettles
<1> QED BY <1>1, <1>4, <1>5

\* Accounts that end, revocations and the clock touch nothing the invariant is
\* about.
LEMMA AcmeElsewhere ==
    ASSUME AcmeInv, standing' \subseteq Accts, expired' \subseteq Orders, record' \in [Records -> RecordRow],
           UNCHANGED <<order, authz, request, issued, signedFor, disturbed>>
    PROVE  AcmeInv'
<1>1. AcmeTypeOK'
  BY DEF AcmeInv, AcmeTypeOK
<1>2. RequestsInv'
  <2>1. \A q \in Requests : Meant(request[q])' /\ Proved(request[q])' /\ Opening(request[q])'
    BY DEF AcmeInv, RequestsInv, Meant, Proved, Opening
  <2>2. \A q \in Requests : Current(request[q])'
    BY DEF AcmeInv, RequestsInv, Current
  <2>3. \A q, p \in Requests : q # p => Compatible(request[q], request[p])'
    BY DEF AcmeInv, RequestsInv, Compatible
  <2> QED BY <2>1, <2>2, <2>3 DEF RequestsInv
<1>3. OrdersInv' /\ OneCertificatePerOrder' /\ OrderFollowsAuthorizations'
  BY DEF AcmeInv, OrdersInv, OrderInv, OneCertificatePerOrder, OrderFollowsAuthorizations
<1> QED BY <1>1, <1>2, <1>3 DEF AcmeInv

LEMMA AcmeStepInv ==
    ASSUME AcmeInv, [AcmeNext]_acmeVars
    PROVE  AcmeInv'
<1>0. AcmeTypeOK
  BY DEF AcmeInv
<1>1. ASSUME NEW q \in Requests, ClientRequest(q) PROVE AcmeInv'
  <2> PICK c \in Accts :
       \/ \E ids \in SUBSET {id \in Identifiers : id.value \in NamesOf[c]}, r \in Records \cup {Nil} : NewOrder(q, c, ids, r)
       \/ \E o \in Orders, n \in AcmeNames, kind \in Challenges : RespondToChallenge(q, c, o, n, kind)
       \/ \E o \in Orders, names \in SUBSET AcmeNames : Finalize(q, c, o, names)
    BY <1>1 DEF ClientRequest
  <2>1. ASSUME NEW ids \in SUBSET {id \in Identifiers : id.value \in NamesOf[c]},
               NEW r \in Records \cup {Nil}, NewOrder(q, c, ids, r)
        PROVE  AcmeInv'
    <3>1. ids \in SUBSET Identifiers
      OBVIOUS
    <3> QED BY <2>1, <3>1, NewOrderKeeps
  <2> QED BY <2>1, RespondToChallengeKeeps, FinalizeKeeps
<1>2. ASSUME NEW q \in Requests, RequestStep(q) PROVE AcmeInv'
  BY <1>2, CreateACMEOrderKeeps, CreateACMEAuthorizationKeeps, UpdateACMEAuthorizationKeeps,
     OrderFollowsKeeps, ClaimACMEOrderForFinalizeKeeps, ResolveKeeps, SignCSRKeeps,
     StoreCertificateKeeps, CompleteOrderKeeps DEF RequestStep
<1>3. ASSUME NEW q \in Requests, RequestLost(q) PROVE AcmeInv'
  <2>1. /\ AnswerOrder(q) /\ order' = order /\ authz' = authz /\ signedFor' = signedFor
        /\ standing' = standing /\ expired' = expired /\ record' = record /\ issued' = issued
        /\ disturbed \subseteq disturbed'
    BY <1>3 DEF RequestLost
  <2>2. disturbed' \subseteq Orders /\ (request[q].order \in Orders => request[q].order \in disturbed')
    <3>1. request[q].order \in Orders \cup {Nil}
      <4>1. request[q] \in RequestState
        BY <1>0, OrderTypes
      <4> QED BY <4>1 DEF RequestState
    <3> QED BY <1>0, <1>3, <3>1, OrderTypes DEF RequestLost
  <2> QED BY <2>1, <2>2, RequestAnswered
<1>4. ASSUME NEW c \in Accts, AccountEnds(c) PROVE AcmeInv'
  BY <1>0, <1>4, OrderTypes, AcmeElsewhere DEF AccountEnds
<1>5. ASSUME NEW c \in Accts, NEW r \in Records, RevokeCert(c, r) PROVE AcmeInv'
  <2>1. record' \in [Records -> RecordRow]
    BY <1>0, <1>5, OrderTypes DEF RevokeCert, RecordRow
  <2> QED BY <1>0, <1>5, <2>1, OrderTypes, AcmeElsewhere DEF RevokeCert
<1>6. ASSUME NEW o \in Orders, OrderExpires(o) PROVE AcmeInv'
  BY <1>0, <1>6, OrderTypes, AcmeElsewhere DEF OrderExpires
<1>7. CASE UNCHANGED acmeVars
  BY <1>0, <1>7, OrderTypes, AcmeElsewhere DEF acmeVars
<1> QED BY <1>1, <1>2, <1>3, <1>4, <1>5, <1>6, <1>7 DEF AcmeNext

\* What is signed for a credential that requires proof can be proved.
LEMMA AcmeProvesNames == AcmeInv => OnlyProvedNames
BY DEF AcmeInv, RequestsInv, Proved, Provable, Finalizing, OnlyProvedNames

\* A step that decides an order or an authorization finds it undecided.
DecisionStands(o) ==
    /\ order[o].status \in {"valid", "invalid"} => order'[o].status = order[o].status
    /\ \A n \in AcmeNames : authz[o][n] \in {"valid", "invalid"} => authz'[o][n] = authz[o][n]

LEMMA AcmeDecidesOnce ==
    ASSUME AcmeInv, [AcmeNext]_acmeVars, NEW o \in Orders, o \notin disturbed'
    PROVE  DecisionStands(o)
<1>0. AcmeTypeOK
  BY DEF AcmeInv
<1>1. CASE order' = order /\ authz' = authz
  BY <1>1 DEF DecisionStands
<1>2. ASSUME NEW q \in Requests, RequestStep(q) PROVE DecisionStands(o)
  <2>0. /\ Meant(request[q]) /\ Opening(request[q]) /\ Current(request[q])
        /\ order \in [Orders -> OrderRow] /\ authz \in [Orders -> [AcmeNames -> AuthzStatus]]
    BY <1>0, OrderTypes DEF AcmeInv, RequestsInv
  <2>1. CASE \E x \in Orders : CreateACMEOrder(q, x)
    BY <2>0, <2>1 DEF CreateACMEOrder, DecisionStands
  <2>2. CASE CreateACMEAuthorization(q)
    <3>1. request[q].at = "create authorizations"
      BY <2>2 DEF CreateACMEAuthorization
    <3>2. PICK x \in Orders : x = request[q].order
      BY <2>0, <3>1 DEF Meant
    <3>3. order[x].status = "pending" /\ \A n \in AcmeNames : authz[x][n] \in {"none", "pending"}
      BY <2>0, <3>1, <3>2 DEF Opening
    <3>4. \/ order' = order /\ \E n : authz' = [authz EXCEPT ![x][n] = "pending"]
          \/ order' = order /\ authz' = authz
          \/ SetOrder(x, "invalid", Nil) /\ authz' = authz
      BY <2>2, <3>2 DEF CreateACMEAuthorization
    <3>5. CASE o = x
      BY <2>0, <3>3, <3>4, <3>5 DEF SetOrder, DecisionStands
    <3>6. CASE o # x
      BY <2>0, <3>4, <3>6 DEF SetOrder, DecisionStands
    <3> QED BY <3>5, <3>6
  <2>3. CASE UpdateACMEAuthorization(q)
    <3>1. request[q].at = "look" /\ order' = order /\ disturbed' = disturbed
      BY <2>3 DEF UpdateACMEAuthorization
    <3>2. PICK x \in Orders, n \in AcmeNames : x = request[q].order /\ n = request[q].name
      BY <2>0, <3>1 DEF Meant, Deciding
    <3>3. PICK status : authz' = [authz EXCEPT ![x][n] = status]
      BY <2>3, <3>2 DEF UpdateACMEAuthorization
    <3>4. x \notin disturbed => authz[x][n] = "pending"
      BY <2>0, <3>1, <3>2 DEF Current
    <3>5. CASE o = x
      BY <2>0, <3>1, <3>3, <3>4, <3>5 DEF DecisionStands
    <3>6. CASE o # x
      BY <2>0, <3>1, <3>3, <3>6 DEF DecisionStands
    <3> QED BY <3>5, <3>6
  <2>4. CASE OrderFollows(q)
    <3>1. request[q].at = "order follows" /\ authz' = authz /\ disturbed' = disturbed
      BY <2>4 DEF OrderFollows
    <3>2. PICK x \in Orders : x = request[q].order
      BY <2>0, <3>1 DEF Meant
    <3>3. order' = order \/ SetOrder(x, "invalid", Nil) \/ SetOrder(x, "ready", Nil)
      BY <2>4, <3>2 DEF OrderFollows
    <3>4. x \notin disturbed => order[x].status = "pending"
      BY <2>0, <3>1, <3>2 DEF Current, Deciding
    <3>5. CASE o = x
      BY <3>1, <3>4, <3>5 DEF DecisionStands
    <3>6. CASE o # x
      BY <2>0, <3>1, <3>3, <3>6 DEF SetOrder, DecisionStands
    <3> QED BY <3>5, <3>6
  <2>5. CASE ClaimACMEOrderForFinalize(q)
    <3>1. PICK x \in Orders : x = request[q].order
      BY <2>0, <2>5 DEF Meant, ClaimACMEOrderForFinalize
    <3>2. authz' = authz /\ (order' = order \/ (Claims(x) /\ order' = [order EXCEPT ![x].status = "processing"]))
      BY <2>5, <3>1 DEF ClaimACMEOrderForFinalize
    <3> QED BY <2>0, <3>1, <3>2 DEF Claims, DecisionStands
  <2>6. CASE CompleteOrder(q)
    <3>1. request[q].at \in {"complete", "fail"} /\ authz' = authz /\ disturbed' = disturbed
      BY <2>6 DEF CompleteOrder
    <3>2. PICK x \in Orders : x = request[q].order
      BY <2>0, <3>1 DEF Meant
    <3>3. \E status, r : SetOrder(x, status, r)
      BY <2>6, <3>2 DEF CompleteOrder, Outcome
    <3>4. x \notin disturbed => order[x].status = "processing"
      BY <2>0, <3>1, <3>2 DEF Current, Finalizing
    <3>5. CASE o = x
      BY <3>1, <3>4, <3>5 DEF DecisionStands
    <3>6. CASE o # x
      BY <2>0, <3>1, <3>3, <3>6 DEF SetOrder, DecisionStands
    <3> QED BY <3>5, <3>6
  <2>7. CASE Resolve(q) \/ SignCSR(q) \/ StoreCertificate(q)
    BY <1>1, <2>7 DEF Resolve, SignCSR, StoreCertificate
  <2> QED BY <1>2, <2>1, <2>2, <2>3, <2>4, <2>5, <2>6, <2>7 DEF RequestStep
<1>3. ASSUME NEW q \in Requests, ClientRequest(q) PROVE order' = order /\ authz' = authz
  BY <1>3 DEF ClientRequest, NewOrder, RespondToChallenge, Finalize
<1>4. ASSUME NEW q \in Requests, RequestLost(q) PROVE order' = order /\ authz' = authz
  BY <1>4 DEF RequestLost
<1>5. ASSUME NEW c \in Accts, AccountEnds(c) \/ \E r \in Records : RevokeCert(c, r)
      PROVE  order' = order /\ authz' = authz
  BY <1>5 DEF AccountEnds, RevokeCert
<1>6. ASSUME NEW x \in Orders, OrderExpires(x) PROVE order' = order /\ authz' = authz
  BY <1>6 DEF OrderExpires
<1>7. CASE UNCHANGED acmeVars
  BY <1>1, <1>7 DEF acmeVars
<1> QED BY <1>1, <1>2, <1>3, <1>4, <1>5, <1>6, <1>7 DEF AcmeNext

-----------------------------------------------------------------------------
(* Renewals by hosts. The record that a request replaces is found under the*)
(* lock of its names, so that one of them stays live.                      *)

\* A host whose requests do not cross has one under way at most, and that one
\* knows which live record has its names.
AsksAlone ==
    /\ \A q \in Asks : ask[q].at = "idle" => ask[q].host = Nil
    /\ \A p, q \in Asks : ask[p].at # "idle" /\ ask[p].host \notin crossed /\ ask[q].host = ask[p].host => p = q

\* A live record of the host that has the names and the key type of its request.
Alike(x, s) == Renewable(x, s.host, s.names) /\ hostRec[x].key = s.key

AsksFindTheLive ==
    \A q \in Asks : ask[q].at \in {"sign", "record"} /\ ask[q].host \notin crossed =>
        /\ ask[q].over = Nil => \A r \in HostRecs : ~Alike(r, ask[q])
        /\ ask[q].over # Nil => /\ hostRec[ask[q].over].names = ask[q].names
                                /\ hostRec[ask[q].over].key = ask[q].key

RenewalsReplace == AsksAlone /\ AsksFindTheLive /\ OneLivePerNames

\* One record per names: initially.
LEMMA RenewalsInit == IssuanceInit => RenewalsReplace
  <1> SUFFICES ASSUME IssuanceInit PROVE RenewalsReplace
    OBVIOUS
  <1>1. NoAsk.at = "idle" /\ NoAsk.host = Nil /\ NoRec.status = "none"
    BY DEF NoAsk, NoRec
  <1>2. AsksAlone
    BY <1>1 DEF IssuanceInit, AsksAlone
  <1>3. AsksFindTheLive
    BY <1>1 DEF IssuanceInit, AsksFindTheLive
  <1>4. OneLivePerNames
    BY <1>1 DEF IssuanceInit, OneLivePerNames
  <1> QED
    BY <1>2, <1>3, <1>4 DEF RenewalsReplace

\* One request moves, and stays alone if it was.
LEMMA AskGoesOn ==
    ASSUME IssuanceInv, RenewalsReplace, NEW q \in Asks, NEW s \in AskState,
           ask' = [ask EXCEPT ![q] = s], hostRec' = hostRec, crossed \subseteq crossed',
           s.at = "idle" => s.host = Nil,
           s.at # "idle" => /\ s.host \in Hosts
                            /\ s.host \notin crossed' => \A p \in Asks \ {q} : ask[p].host # s.host,
           s.at \in {"sign", "record"} /\ s.host \notin crossed' =>
               /\ s.over = Nil => \A r \in HostRecs : ~Alike(r, s)
               /\ s.over # Nil => hostRec[s.over].names = s.names /\ hostRec[s.over].key = s.key
    PROVE  RenewalsReplace'
  <1>1. ask \in [Asks -> AskState] /\ \A p \in Asks : ask'[p] = IF p = q THEN s ELSE ask[p]
    BY DEF IssuanceInv, IssuanceTypeOK
  <1>2. \A p \in Asks : ask[p].at # "idle" => ask[p].host \in Hosts
    BY DEF IssuanceInv, AsksArePermitted
  <1>3. Nil \notin Hosts
    BY IssuanceAssumption
  <1>4. AsksAlone'
    BY <1>1, <1>2, <1>3 DEF RenewalsReplace, AsksAlone
  <1>5. AsksFindTheLive'
    BY <1>1 DEF RenewalsReplace, AsksFindTheLive, Alike, Renewable, HeldHere
  <1>6. OneLivePerNames'
    BY DEF RenewalsReplace, OneLivePerNames
  <1> QED
    BY <1>4, <1>5, <1>6 DEF RenewalsReplace

\* The inductive step: a renewal is written over the record it replaces.
LEMMA RenewalsStep ==
    ASSUME IssuanceInv, RenewalsReplace, [IssuanceNext]_issuanceVars
    PROVE  RenewalsReplace'
  <1>0. /\ ask \in [Asks -> AskState] /\ hostRec \in [HostRecs -> HostRecRow]
        /\ NoAsk \in AskState /\ NoAsk.at = "idle" /\ NoAsk.host = Nil
    BY IssuanceAssumption DEF IssuanceInv, IssuanceTypeOK, AskState, NoAsk
  <1>1. ASSUME UNCHANGED issuanceVars PROVE RenewalsReplace'
    BY <1>1 DEF issuanceVars, RenewalsReplace, AsksAlone, AsksFindTheLive, OneLivePerNames, Alike, Renewable, HeldHere
  <1>2. ASSUME NEW q \in Asks, NEW h \in Hosts, NEW names \in SUBSET HostNames,
               NEW key \in HostKeyTypes, NEW r \in HostRecs \cup {Nil}, Issue(q, h, names, key, r)
        PROVE  RenewalsReplace'
    <2>1. PICK g \in Grants : ask' = [ask EXCEPT ![q] = [NoAsk EXCEPT !.at = "find", !.host = h, !.names = names,
                                                                  !.key = key, !.grant = g, !.renews = r]]
      BY <1>2 DEF Issue, Authorise, GetGrantsForAgent
    <2>2. PICK s : s = [NoAsk EXCEPT !.at = "find", !.host = h, !.names = names, !.key = key, !.grant = g,
                                     !.renews = r]
      OBVIOUS
    <2>3. s \in AskState /\ s.at = "find" /\ s.host = h
      BY <1>0, <2>2 DEF NoAsk, AskState
    <2>4. /\ hostRec' = hostRec /\ ask[q].at = "idle"
          /\ crossed' = IF \E p \in Asks : ask[p].host = h THEN crossed \cup {h} ELSE crossed
      BY <1>2 DEF Issue
    <2>5. h \notin crossed' => \A p \in Asks : ask[p].host # h
      BY <2>4
    <2> QED
      BY <2>1, <2>2, <2>3, <2>4, <2>5, AskGoesOn
  <1>3. ASSUME NEW q \in Asks, FindReplaced(q) PROVE RenewalsReplace'
    <2>1. hostRec' = hostRec /\ ask[q].at = "find" /\ crossed \subseteq crossed'
      BY <1>3 DEF FindReplaced
    <2>2. CASE ask' = [ask EXCEPT ![q] = NoAsk]
      BY <1>0, <2>1, <2>2, AskGoesOn
    <2>3. ASSUME ~(ask' = [ask EXCEPT ![q] = NoAsk]) PROVE RenewalsReplace'
      <3>0. PICK beyond \in BOOLEAN : \E r \in Replaces(ask[q], beyond) :
              /\ ask' = [ask EXCEPT ![q].at = "sign", ![q].over = r]
              /\ crossed' = IF NamesAnother(ask[q], r) \/ beyond THEN crossed \cup {ask[q].host} ELSE crossed
        BY <1>3, <2>3 DEF FindReplaced
      <3>1. PICK r \in Replaces(ask[q], beyond) :
              /\ ask' = [ask EXCEPT ![q].at = "sign", ![q].over = r]
              /\ crossed' = IF NamesAnother(ask[q], r) \/ beyond THEN crossed \cup {ask[q].host} ELSE crossed
        BY <3>0
      <3>2. ask[q] \in AskState /\ ask[q].renews \in HostRecs \cup {Nil}
        BY <1>0 DEF AskState
      <3>3. /\ r = Nil \/ (r \in HostRecs /\ Renewable(r, ask[q].host, ask[q].names))
            /\ r # Nil /\ ask[q].renews = Nil => hostRec[r].key = ask[q].key
        BY <3>2, IssuanceAssumption DEF Replaces, Matching
      <3>4. ASSUME ask[q].host \notin crossed'
            PROVE  /\ r = Nil => \A x \in HostRecs : ~Alike(x, ask[q])
                   /\ r # Nil => hostRec[r].names = ask[q].names /\ hostRec[r].key = ask[q].key
        <4>1. ~NamesAnother(ask[q], r) /\ ~beyond
          BY <3>1, <3>4
        <4>2. r = Nil => ask[q].renews = Nil
          BY <4>1 DEF NamesAnother
        <4>3. ASSUME r = Nil PROVE \A x \in HostRecs : ~Alike(x, ask[q])
          BY <3>1, <4>1, <4>2, <4>3, IssuanceAssumption DEF Replaces, Matching, Alike
        <4>4. r # Nil => hostRec[r].names = ask[q].names /\ hostRec[r].key = ask[q].key
          BY <3>3, <4>1 DEF NamesAnother, Renewable
        <4> QED
          BY <4>3, <4>4
      <3>5. PICK s : s = [ask[q] EXCEPT !.at = "sign", !.over = r]
        OBVIOUS
      <3>6. ask' = [ask EXCEPT ![q] = s]
        BY <1>0, <3>1, <3>5
      <3>7. /\ s \in AskState /\ s.at = "sign" /\ s.host = ask[q].host /\ s.names = ask[q].names /\ s.over = r
            /\ s.key = ask[q].key
        BY <3>2, <3>3, <3>5 DEF AskState
      <3>8. s.host \in Hosts /\ (s.host \notin crossed' => \A p \in Asks \ {q} : ask[p].host # s.host)
        BY <2>1, <3>7 DEF IssuanceInv, AsksArePermitted, RenewalsReplace, AsksAlone
      <3>9. s.host \notin crossed' =>
               /\ s.over = Nil => \A x \in HostRecs : ~Alike(x, s)
               /\ s.over # Nil => hostRec[s.over].names = s.names /\ hostRec[s.over].key = s.key
        BY <3>4, <3>7 DEF Alike
      <3> QED
        BY <2>1, <3>6, <3>7, <3>8, <3>9, AskGoesOn
    <2> QED
      BY <2>2, <2>3
  <1>4. ASSUME NEW q \in Asks, SignForHost(q) PROVE RenewalsReplace'
    <2>1. hostRec' = hostRec /\ crossed' = crossed /\ ask[q].at = "sign"
      BY <1>4 DEF SignForHost
    <2>2. CASE ask' = [ask EXCEPT ![q] = NoAsk]
      BY <1>0, <2>1, <2>2, AskGoesOn
    <2>3. ASSUME made < MaxMade, ask' = [ask EXCEPT ![q] = Signed(@)] PROVE RenewalsReplace'
      <3>1. PICK s : s = [ask[q] EXCEPT !.at = "record", !.fp = made + 1]
        OBVIOUS
      <3>2. ask' = [ask EXCEPT ![q] = s] /\ ask[q] \in AskState
        BY <1>0, <2>3, <3>1 DEF Signed
      <3>3. made + 1 \in 0..MaxMade
        BY <2>3, IssuanceAssumption DEF IssuanceInv, IssuanceTypeOK
      <3>4. /\ s \in AskState /\ s.at = "record" /\ s.host = ask[q].host /\ s.names = ask[q].names /\ s.over = ask[q].over
            /\ s.key = ask[q].key
        BY <3>1, <3>2, <3>3 DEF AskState
      <3>5. s.host \in Hosts /\ (s.host \notin crossed => \A p \in Asks \ {q} : ask[p].host # s.host)
        BY <2>1, <3>4 DEF IssuanceInv, AsksArePermitted, RenewalsReplace, AsksAlone
      <3>6. s.host \notin crossed =>
               /\ s.over = Nil => \A r \in HostRecs : ~Alike(r, s)
               /\ s.over # Nil => hostRec[s.over].names = s.names /\ hostRec[s.over].key = s.key
        BY <2>1, <3>4 DEF RenewalsReplace, AsksFindTheLive, Alike
      <3> QED
        BY <2>1, <3>2, <3>4, <3>5, <3>6, AskGoesOn
    <2> QED
      BY <1>4, <2>2, <2>3 DEF SignForHost
  <1>5. ASSUME NEW q \in Asks, RecordForHost(q) PROVE RenewalsReplace'
    <2>1. ask' = [ask EXCEPT ![q] = NoAsk] /\ ask[q].at = "record" /\ crossed' = crossed
      BY <1>5 DEF RecordForHost
    <2>2. CASE hostRec' = hostRec
      BY <1>0, <2>1, <2>2, AskGoesOn
    <2>3. /\ \A p \in Asks : ask'[p] = IF p = q THEN NoAsk ELSE ask[p]
          /\ ask[q].host \in Hosts /\ ask[q] \in AskState /\ Nil \notin Hosts
          /\ ask[q].host \notin crossed => \A p \in Asks \ {q} : ask[p].host # ask[q].host
          /\ ask[q].names \in SUBSET HostNames /\ ask[q].fp \in 0..MaxMade /\ ask[q].grant \in Grants
          /\ ask[q].key \in HostKeyTypes \cup {Nil}
      <3>1. \A p \in Asks : ask'[p] = IF p = q THEN NoAsk ELSE ask[p]
        BY <1>0, <2>1
      <3>2. ask[q].host \in Hosts /\ ask[q].grant \in Grants /\ Nil \notin Hosts
        BY <2>1, IssuanceAssumption DEF IssuanceInv, AsksArePermitted
      <3>3. ask[q].host \notin crossed => \A p \in Asks \ {q} : ask[p].host # ask[q].host
        BY <2>1 DEF RenewalsReplace, AsksAlone
      <3>4. ask[q].names \in SUBSET HostNames /\ ask[q].fp \in 0..MaxMade /\ ask[q].key \in HostKeyTypes \cup {Nil}
        BY <1>0 DEF AskState
      <3> QED
        BY <1>0, <3>1, <3>2, <3>3, <3>4
    <2>4. AsksAlone'
      <3>1. \A p \in Asks : ask[p].at # "idle" => ask[p].host \in Hosts
        BY DEF IssuanceInv, AsksArePermitted
      <3> QED
        BY <1>0, <2>1, <2>3, <3>1 DEF RenewalsReplace, AsksAlone
    \* In both cases the record is, of all of this host, the one with these names.
    <2>5. ASSUME NEW r \in HostRecs, NEW row \in HostRecRow, hostRec' = [hostRec EXCEPT ![r] = row],
                 row.status = "ISSUED", row.names = ask[q].names, row.holder = ask[q].host, row.key = ask[q].key,
                 hostRec[r].status # "none" => hostRec[r].holder = ask[q].host,
                 ask[q].host \notin crossed => \A x \in HostRecs \ {r} : ~Alike(x, ask[q])
          PROVE  RenewalsReplace'
      <3>1. \A x \in HostRecs : hostRec'[x] = IF x = r THEN row ELSE hostRec[x]
        BY <1>0, <2>5
      <3>2. OneLivePerNames'
        BY <2>1, <2>5, <3>1 DEF RenewalsReplace, OneLivePerNames, Alike, Renewable, HeldHere
      <3>3. ASSUME NEW p \in Asks, ask'[p].at \in {"sign", "record"}, ask'[p].host \notin crossed
            PROVE  /\ ask'[p] = ask[p] /\ ask[p].host # ask[q].host
                   /\ ask[p].over = Nil => \A x \in HostRecs : ~Alike(x, ask[p])
                   /\ ask[p].over # Nil => /\ hostRec[ask[p].over].names = ask[p].names
                                           /\ hostRec[ask[p].over].key = ask[p].key
                                           /\ hostRec[ask[p].over].status # "none"
                                           /\ hostRec[ask[p].over].holder = ask[p].host
                                           /\ ask[p].over \in HostRecs
        <4>1. p # q /\ ask'[p] = ask[p]
          BY <1>0, <2>3, <3>3
        <4>2. ask[p].host # ask[q].host
          BY <2>1, <2>3, <3>3, <4>1 DEF RenewalsReplace, AsksAlone
        <4>3. ask[p].over \in HostRecs \cup {Nil}
          BY <1>0 DEF AskState
        <4> QED
          BY <3>3, <4>1, <4>2, <4>3 DEF RenewalsReplace, AsksFindTheLive, IssuanceInv, AsksReplaceOwn
      <3>4. AsksFindTheLive'
        BY <2>1, <2>5, <3>1, <3>3 DEF AsksFindTheLive, Alike, Renewable, HeldHere
      <3> QED
        BY <2>4, <3>2, <3>4 DEF RenewalsReplace
    <2>6. ASSUME ask[q].over = Nil, hostRec' # hostRec PROVE RenewalsReplace'
      <3>1. PICK r \in Unused : r = CHOOSE x \in Unused : TRUE
        BY <1>5, <2>6 DEF RecordForHost
      <3>2. PICK row : row = [status |-> "ISSUED", holder |-> ask[q].host, names |-> ask[q].names,
                              key |-> ask[q].key, fp |-> ask[q].fp, grant |-> ask[q].grant]
        OBVIOUS
      <3>3. hostRec' = [hostRec EXCEPT ![r] = row]
        BY <1>5, <2>6, <3>1, <3>2 DEF RecordForHost
      <3>4. r \in HostRecs /\ hostRec[r].status = "none"
        BY DEF Unused
      <3>5. /\ row \in HostRecRow /\ row.status = "ISSUED" /\ row.names = ask[q].names /\ row.holder = ask[q].host
            /\ row.key = ask[q].key
        BY <2>3, <3>2 DEF HostRecRow, AskState
      <3>6. ask[q].host \notin crossed => \A x \in HostRecs : ~Alike(x, ask[q])
        BY <2>1, <2>6 DEF RenewalsReplace, AsksFindTheLive
      <3> QED
        BY <2>5, <3>3, <3>4, <3>5, <3>6
    <2>7. ASSUME ask[q].over # Nil, hostRec' # hostRec PROVE RenewalsReplace'
      <3>1. PICK r \in HostRecs : r = ask[q].over
        BY <2>3, <2>7 DEF AskState
      <3>2. PICK row : row = [hostRec[r] EXCEPT !.fp = ask[q].fp, !.names = ask[q].names, !.key = ask[q].key,
                                              !.grant = ask[q].grant]
        OBVIOUS
      <3>3. /\ hostRec' = [hostRec EXCEPT ![r].fp = ask[q].fp, ![r].names = ask[q].names,
                                              ![r].key = ask[q].key, ![r].grant = ask[q].grant]
            /\ hostRec[r].status = "ISSUED"
        BY <1>5, <2>7, <3>1 DEF RecordForHost
      <3>4. hostRec' = [hostRec EXCEPT ![r] = row]
        BY <1>0, <3>2, <3>3
      <3>5. hostRec[r].holder = ask[q].host
        BY <2>1, <2>7, <3>1 DEF IssuanceInv, AsksReplaceOwn
      <3>6. /\ row \in HostRecRow /\ row.status = "ISSUED" /\ row.names = ask[q].names /\ row.holder = ask[q].host
            /\ row.key = ask[q].key
        <4>1. hostRec[r] \in HostRecRow
          BY <1>0
        <4> QED
          BY <2>3, <3>2, <3>3, <3>5, <4>1 DEF HostRecRow
      <3>7. ask[q].host \notin crossed => \A x \in HostRecs \ {r} : ~Alike(x, ask[q])
        <4>1. ask[q].host \notin crossed => hostRec[r].names = ask[q].names /\ hostRec[r].key = ask[q].key
          BY <2>1, <2>7, <3>1 DEF RenewalsReplace, AsksFindTheLive
        <4> QED
          BY <3>3, <3>5, <4>1 DEF RenewalsReplace, OneLivePerNames, Alike, Renewable, HeldHere
      <3> QED
        BY <2>5, <3>3, <3>4, <3>5, <3>6, <3>7
    <2> QED
      BY <2>2, <2>6, <2>7
  <1>6. ASSUME NEW g \in Grants, RevokeTemplateGrant(g) PROVE RenewalsReplace'
    <2>1. UNCHANGED <<hostRec, ask, made, crossed>>
      BY <1>6 DEF RevokeTemplateGrant
    <2> QED
      BY <2>1 DEF RenewalsReplace, AsksAlone, AsksFindTheLive, OneLivePerNames, Alike, Renewable, HeldHere
  <1>7. ASSUME NEW r \in HostRecs, RevokeHostCert(r) PROVE RenewalsReplace'
    <2>1. hostRec' = [hostRec EXCEPT ![r].status = "REVOKED"] /\ UNCHANGED <<ask, crossed>>
      BY <1>7 DEF RevokeHostCert
    <2>2. \A x \in HostRecs : /\ hostRec'[x].names = hostRec[x].names /\ hostRec'[x].holder = hostRec[x].holder
                            /\ hostRec'[x].key = hostRec[x].key
                            /\ hostRec'[x].status = "ISSUED" => hostRec[x].status = "ISSUED"
      BY <1>0, <2>1 DEF HostRecRow
    <2>3. AsksAlone' /\ OneLivePerNames'
      BY <2>1, <2>2 DEF RenewalsReplace, AsksAlone, OneLivePerNames
    <2>4. \A q \in Asks : ask[q].over # Nil => ask[q].over \in HostRecs
      BY <1>0 DEF AskState
    <2>5. AsksFindTheLive'
      BY <2>1, <2>2, <2>4 DEF RenewalsReplace, AsksFindTheLive, Alike, Renewable, HeldHere
    <2> QED
      BY <2>3, <2>5 DEF RenewalsReplace
  <1>8. IssuanceNext \/ UNCHANGED issuanceVars
    OBVIOUS
  <1> QED
    BY <1>1, <1>2, <1>3, <1>4, <1>5, <1>6, <1>7, <1>8 DEF IssuanceNext

-----------------------------------------------------------------------------
(* Signing in. A session that a request began to open, or a guess, belongs *)
(* to the password that the request read.                                  *)

\* The sign-ins that are verifying a password.
Verifying == {l \in Logins : login[l].at = "verify"}

\* Sessions and the sign-ins that will become sessions belong to the present
\* era, the late ones aside.
AllOfTheEra ==
    /\ \A s \in Sessions : session[s].at = "live" /\ ~session[s].late => session[s].era = user.era
    /\ \A l \in Logins : login[l].at # "none" /\ ~login[l].late => login[l].era = user.era

EraKept == unended \/ ending \in {"revoke", "revoke_renew"} \/ AllOfTheEra

\* Every sign-in that is verifying may be one more guess; none is added once
\* the account is locked, and the count of an unlocked one has every guess.
GuessesCounted ==
    /\ guesses \in Nat /\ guesses + Cardinality(Verifying) < MaxFailed + Cardinality(Logins)
    /\ ~user.locked => guesses = 0 \/ (guesses <= user.failed /\ user.failed < MaxFailed)

SignInInv == SignInTypeOK /\ EraKept /\ GuessesCounted

\* The constants, and the counts of sign-ins.
LEMMA SignInFacts ==
    /\ MaxFailed \in Nat /\ MaxFailed >= 1 /\ MaxEras \in Nat /\ IsFiniteSet(Logins) /\ Cardinality(Logins) \in Nat
    /\ IsFiniteSet(Verifying) /\ Cardinality(Verifying) \in Nat /\ Cardinality(Verifying) <= Cardinality(Logins)
  <1>1. Verifying \subseteq Logins
    BY DEF Verifying
  <1> QED
    BY <1>1, SignInAssumption, FS_Subset, FS_CardinalityType

\* What the invariant has to do with the properties.
LEMMA SignInSays == SignInInv => SignInTypeOK /\ SessionsEndWithTheirEra /\ GuessesBounded
  <1> SUFFICES ASSUME SignInInv PROVE SessionsEndWithTheirEra /\ GuessesBounded
    BY DEF SignInInv
  <1>1. SessionsEndWithTheirEra
    BY DEF SignInInv, EraKept, AllOfTheEra, SessionsEndWithTheirEra
  <1>2. guesses < MaxFailed + Cardinality(Logins)
    BY SignInFacts DEF SignInInv, GuessesCounted
  <1> QED
    BY <1>1, <1>2 DEF GuessesBounded

\* In the beginning nobody signs in.
LEMMA SignInInitInv == SignInInit => SignInInv
  <1> SUFFICES ASSUME SignInInit PROVE SignInInv
    OBVIOUS
  <1>0. MaxFailed \in Nat /\ MaxFailed >= 1 /\ Cardinality(Logins) \in Nat /\ 0 \in Eras /\ 0 \in 0..MaxFailed
    BY SignInFacts DEF Eras
  <1>1. guesses = 0 /\ 0 \in 0..MaxFailed + Cardinality(Logins)
    BY <1>0 DEF SignInInit
  <1>2. user \in UserState
    BY <1>0 DEF SignInInit, UserState
  <1>3. login \in [Logins -> LoginState] /\ session \in [Sessions -> SessionState]
    BY <1>0 DEF SignInInit, NoLogin, NoSession, LoginState, SessionState
  <1>4. SignInTypeOK
    BY <1>1, <1>2, <1>3 DEF SignInInit, SignInTypeOK, Ending
  <1>5. EraKept
    BY DEF SignInInit, EraKept, AllOfTheEra, NoLogin, NoSession
  <1>6. Verifying = {}
    BY DEF SignInInit, Verifying, NoLogin
  <1>7. Cardinality(Verifying) = 0
    BY <1>6, FS_EmptySet
  <1>8. GuessesCounted
    BY <1>0, <1>1, <1>7 DEF GuessesCounted
  <1> QED
    BY <1>4, <1>5, <1>8 DEF SignInInv

\* A sign-in moves, to another state of its own, and guesses as it ends.
LEMMA LoginMoves ==
    ASSUME SignInInv, NEW l \in Logins, NEW new \in LoginState, login' = [login EXCEPT ![l] = new]
    PROVE  /\ login' \in [Logins -> LoginState] /\ login'[l] = new
           /\ \A m \in Logins : m # l => login'[m] = login[m]
           /\ new.at # "verify" => Cardinality(Verifying') = Cardinality(Verifying) - IF login[l].at = "verify" THEN 1 ELSE 0
           /\ Cardinality(Verifying') \in Nat /\ Cardinality(Verifying') <= Cardinality(Logins)
  <1>1. login \in [Logins -> LoginState]
    BY DEF SignInInv, SignInTypeOK
  <1>2. login' \in [Logins -> LoginState] /\ login'[l] = new /\ \A m \in Logins : m # l => login'[m] = login[m]
    BY <1>1
  <1>3. PICK V, W : V = Verifying /\ W = Verifying'
    OBVIOUS
  <1>4. V = {m \in Logins : login[m].at = "verify"} /\ W = {m \in Logins : login'[m].at = "verify"}
    BY <1>3 DEF Verifying
  <1>5. IsFiniteSet(V) /\ IsFiniteSet(Logins) /\ W \subseteq Logins /\ Cardinality(V) \in Nat
    BY <1>3, <1>4, SignInFacts
  <1>6. IsFiniteSet(W) /\ Cardinality(W) \in Nat /\ Cardinality(W) <= Cardinality(Logins)
    BY <1>5, FS_Subset, FS_CardinalityType
  <1>7. ASSUME new.at # "verify" PROVE W = V \ {l} /\ (l \in V <=> login[l].at = "verify")
    BY <1>2, <1>4, <1>7
  <1>8. new.at # "verify" => Cardinality(W) = Cardinality(V) - IF login[l].at = "verify" THEN 1 ELSE 0
    <2>1. Cardinality(V \ {l}) = IF l \in V THEN Cardinality(V) - 1 ELSE Cardinality(V)
      BY <1>5, FS_RemoveElement
    <2>2. PICK v \in Nat : v = Cardinality(V)
      BY <1>5
    <2>3. (IF l \in V THEN v - 1 ELSE v) = v - IF l \in V THEN 1 ELSE 0
      OBVIOUS
    <2> QED
      BY <1>7, <2>1, <2>2, <2>3
  <1> QED
    BY <1>2, <1>3, <1>6, <1>8

\* A step that leaves the account and the history alone, and takes nobody who
\* verifies a password: only the sessions and sign-ins that appear matter.
LEMMA NothingGuessed ==
    ASSUME SignInInv, user' = user, ending' = ending, unended' = unended, guesses' = guesses,
           login' \in [Logins -> LoginState], session' \in [Sessions -> SessionState],
           Cardinality(Verifying') \in Nat, Cardinality(Verifying') <= Cardinality(Verifying),
           \A s \in Sessions : session'[s].at = "live" /\ ~session'[s].late =>
               \/ session'[s] = session[s] \/ session'[s].era = user.era
               \/ \E l \in Logins : login[l].at # "none" /\ login[l].late = session'[s].late /\ login[l].era = session'[s].era,
           \A l \in Logins : login'[l].at # "none" /\ ~login'[l].late =>
               \/ login'[l].era = user.era
               \/ login[l].at # "none" /\ login[l].late = login'[l].late /\ login[l].era = login'[l].era
    PROVE  SignInInv'
  <1>1. SignInTypeOK'
    BY DEF SignInInv, SignInTypeOK
  <1>2. EraKept'
    <2> SUFFICES ASSUME AllOfTheEra PROVE AllOfTheEra'
      BY DEF SignInInv, EraKept
    <2>1. \A s \in Sessions : session'[s].at = "live" /\ ~session'[s].late => session'[s].era = user.era
      BY DEF AllOfTheEra
    <2>2. \A l \in Logins : login'[l].at # "none" /\ ~login'[l].late => login'[l].era = user.era
      BY DEF AllOfTheEra
    <2> QED
      BY <2>1, <2>2 DEF AllOfTheEra
  <1>3. GuessesCounted'
    <2>1. PICK v, w : v = Cardinality(Verifying) /\ w = Cardinality(Verifying')
      OBVIOUS
    <2>2. guesses \in Nat /\ guesses + v < MaxFailed + Cardinality(Logins)
      BY <2>1 DEF SignInInv, GuessesCounted
    <2>3. MaxFailed \in Nat /\ Cardinality(Logins) \in Nat /\ v \in Nat /\ w \in Nat /\ w <= v
      BY <2>1, SignInFacts
    <2>4. guesses + w < MaxFailed + Cardinality(Logins)
      BY <2>2, <2>3
    <2>5. (guesses + Cardinality(Verifying) < MaxFailed + Cardinality(Logins))'
      BY <2>1, <2>4
    <2> QED
      BY <2>2, <2>5 DEF SignInInv, GuessesCounted
  <1> QED
    BY <1>1, <1>2, <1>3 DEF SignInInv

\* The account is unlocked, and the guesses begin again.
LEMMA GuessesBeginAgain ==
    ASSUME SignInInv, guesses' = 0, Cardinality(Verifying') \in Nat, Cardinality(Verifying') <= Cardinality(Logins)
    PROVE  GuessesCounted' /\ guesses' \in 0..MaxFailed + Cardinality(Logins)
  <1>1. PICK w, n : w = Cardinality(Verifying') /\ n = Cardinality(Logins)
    OBVIOUS
  <1>2. w \in Nat /\ n \in Nat /\ w <= n /\ MaxFailed \in Nat /\ MaxFailed >= 1
    BY <1>1, SignInFacts
  <1>3. 0 + w < MaxFailed + n /\ 0 \in 0..MaxFailed + n
    BY <1>2
  <1>4. (guesses + Cardinality(Verifying) < MaxFailed + Cardinality(Logins))'
    BY <1>1, <1>3
  <1> QED
    BY <1>1, <1>3, <1>4 DEF GuessesCounted

\* A sign-in reads the account.
LEMMA SignInReads == \A l \in Logins : SignInInv /\ ReadAccount(l) => SignInInv'
  <1> SUFFICES ASSUME NEW l \in Logins, SignInInv, ReadAccount(l) PROVE SignInInv'
    OBVIOUS
  <1>1. PICK new : new = [at |-> "verify", era |-> user.era, failed |-> user.failed, late |-> FALSE]
    OBVIOUS
  <1>2. /\ login' = [login EXCEPT ![l] = new] /\ ~user.locked
        /\ user' = user /\ session' = session /\ ending' = ending /\ unended' = unended /\ guesses' = guesses
    BY <1>1 DEF ReadAccount
  <1>3. user \in UserState /\ user.failed \in 0..MaxFailed
    BY DEF SignInInv, SignInTypeOK, UserState
  <1>4. new \in LoginState /\ new.era = user.era
    BY <1>1, <1>3 DEF LoginState, UserState
  <1>5. /\ login' \in [Logins -> LoginState] /\ login'[l] = new /\ \A m \in Logins : m # l => login'[m] = login[m]
        /\ Cardinality(Verifying') \in Nat /\ Cardinality(Verifying') <= Cardinality(Logins)
    BY <1>2, <1>4, LoginMoves
  <1>6. SignInTypeOK'
    BY <1>2, <1>5 DEF SignInInv, SignInTypeOK
  <1>7. EraKept'
    BY <1>2, <1>4, <1>5 DEF SignInInv, EraKept, AllOfTheEra
  <1>8. GuessesCounted'
    <2>1. PICK w, n : w = Cardinality(Verifying') /\ n = Cardinality(Logins)
      OBVIOUS
    <2>2. guesses \in Nat /\ (guesses = 0 \/ (guesses <= user.failed /\ user.failed < MaxFailed))
      BY <1>2 DEF SignInInv, GuessesCounted
    <2>3. MaxFailed \in Nat /\ MaxFailed >= 1 /\ w \in Nat /\ n \in Nat /\ w <= n
      BY <1>5, <2>1, SignInFacts
    <2>4. guesses + w < MaxFailed + n
      <3>1. PICK f \in Int : f = user.failed
        BY <1>3
      <3> QED
        BY <2>2, <2>3, <3>1
    <2>5. (guesses + Cardinality(Verifying) < MaxFailed + Cardinality(Logins))'
      BY <1>2, <2>1, <2>4
    <2> QED
      BY <1>2, <2>2, <2>5 DEF GuessesCounted
  <1> QED
    BY <1>6, <1>7, <1>8 DEF SignInInv

\* A sign-in that does nothing to the account ends.
LEMMA SignInDies == \A l \in Logins : SignInInv /\ LoginDies(l) => SignInInv'
  <1> SUFFICES ASSUME NEW l \in Logins, SignInInv, LoginDies(l) PROVE SignInInv'
    OBVIOUS
  <1>1. /\ login' = [login EXCEPT ![l] = NoLogin]
        /\ user' = user /\ session' = session /\ ending' = ending /\ unended' = unended /\ guesses' = guesses
    BY DEF LoginDies
  <1>2. NoLogin \in LoginState /\ NoLogin.at = "none"
    BY SignInFacts DEF NoLogin, LoginState, Eras
  <1>3. /\ login' \in [Logins -> LoginState] /\ login'[l] = NoLogin /\ \A m \in Logins : m # l => login'[m] = login[m]
        /\ Cardinality(Verifying') = Cardinality(Verifying) - IF login[l].at = "verify" THEN 1 ELSE 0
        /\ Cardinality(Verifying') \in Nat
    BY <1>1, <1>2, LoginMoves
  <1>4. Cardinality(Verifying') <= Cardinality(Verifying)
    BY <1>3, SignInFacts
  <1>5. session \in [Sessions -> SessionState]
    BY DEF SignInInv, SignInTypeOK
  <1>6. \A m \in Logins : login'[m].at # "none" => login'[m] = login[m]
    BY <1>2, <1>3
  <1> QED
    BY <1>1, <1>3, <1>4, <1>5, <1>6, NothingGuessed

\* A wrong password is counted.
LEMMA SignInGuesses == \A l \in Logins : SignInInv /\ WrongPassword(l) => SignInInv'
  <1> SUFFICES ASSUME NEW l \in Logins, SignInInv, WrongPassword(l) PROVE SignInInv'
    OBVIOUS
  <1>1. PICK count : count = FailedNow(l)
    OBVIOUS
  <1>2. /\ login[l].at = "verify" /\ login' = [login EXCEPT ![l] = NoLogin] /\ guesses' = guesses + 1
        /\ user' = [user EXCEPT !.failed = count, !.locked = @ \/ count >= MaxFailed]
        /\ session' = session /\ ending' = ending /\ unended' = unended
    BY <1>1 DEF WrongPassword
  <1>3. user \in UserState /\ user.failed \in 0..MaxFailed /\ MaxFailed \in Nat /\ MaxFailed >= 1
    BY SignInFacts DEF SignInInv, SignInTypeOK, UserState
  <1>4. count \in 0..MaxFailed /\ (count < MaxFailed => user.failed < MaxFailed /\ count = user.failed + 1)
    BY <1>1, <1>3 DEF FailedNow
  <1>5. user' \in UserState /\ user'.era = user.era /\ user'.failed = count /\ (~user'.locked => ~user.locked /\ ~(count >= MaxFailed))
    <2>1. PICK lock : lock = (user.locked \/ count >= MaxFailed)
      OBVIOUS
    <2>2. lock \in BOOLEAN
      BY <2>1
    <2>3. user' = [user EXCEPT !.failed = count, !.locked = lock]
      BY <1>2, <2>1
    <2>4. user' \in UserState /\ user'.era = user.era /\ user'.failed = count /\ user'.locked = lock
      BY <1>3, <1>4, <2>2, <2>3 DEF UserState
    <2> QED
      BY <2>1, <2>4
  <1>6. NoLogin \in LoginState /\ NoLogin.at = "none"
    BY SignInFacts DEF NoLogin, LoginState, Eras
  <1>7. /\ login' \in [Logins -> LoginState] /\ login'[l] = NoLogin /\ \A m \in Logins : m # l => login'[m] = login[m]
        /\ Cardinality(Verifying') = Cardinality(Verifying) - 1 /\ Cardinality(Verifying') \in Nat
    BY <1>2, <1>6, LoginMoves
  <1>8. guesses \in Nat /\ guesses + 1 + Cardinality(Verifying') < MaxFailed + Cardinality(Logins) /\ Cardinality(Logins) \in Nat
    BY <1>3, <1>7, SignInFacts DEF SignInInv, GuessesCounted
  <1>9. GuessesCounted'
    <2>1. (guesses + Cardinality(Verifying) < MaxFailed + Cardinality(Logins))'
      BY <1>2, <1>8
    <2>2. ASSUME ~user'.locked PROVE guesses + 1 <= count /\ count < MaxFailed
      <3>1. ~user.locked /\ count < MaxFailed /\ count = user.failed + 1
        BY <1>3, <1>4, <1>5, <2>2
      <3>2. guesses = 0 \/ guesses <= user.failed
        BY <3>1 DEF SignInInv, GuessesCounted
      <3> QED
        BY <1>3, <1>8, <3>1, <3>2
    <2>3. ~user'.locked => guesses' <= user'.failed /\ user'.failed < MaxFailed
      BY <1>2, <1>5, <2>2
    <2> QED
      BY <1>2, <1>8, <2>1, <2>3 DEF GuessesCounted
  <1>10. guesses' \in 0..MaxFailed + Cardinality(Logins)
    BY <1>2, <1>3, <1>7, <1>8
  <1>11. SignInTypeOK'
    BY <1>2, <1>5, <1>7, <1>10 DEF SignInInv, SignInTypeOK
  <1>12. EraKept'
    BY <1>2, <1>5, <1>6, <1>7 DEF SignInInv, EraKept, AllOfTheEra
  <1> QED
    BY <1>9, <1>11, <1>12 DEF SignInInv

\* The right password.
LEMMA SignInSucceeds == \A l \in Logins : SignInInv /\ RightPassword(l) => SignInInv'
  <1> SUFFICES ASSUME NEW l \in Logins, SignInInv, RightPassword(l) PROVE SignInInv'
    OBVIOUS
  <1>0. login[l] \in LoginState /\ user \in UserState
    BY DEF SignInInv, SignInTypeOK
  <1>1. PICK new : new = [login[l] EXCEPT !.at = "create"]
    OBVIOUS
  <1>2. /\ login' = [login EXCEPT ![l] = new] /\ login[l].at = "verify"
        /\ session' = session /\ ending' = ending /\ unended' = unended
    BY <1>1 DEF RightPassword
  <1>3. new \in LoginState /\ new.at = "create" /\ new.era = login[l].era /\ new.late = login[l].late
    BY <1>0, <1>1 DEF LoginState
  <1>4. /\ login' \in [Logins -> LoginState] /\ login'[l] = new /\ \A m \in Logins : m # l => login'[m] = login[m]
        /\ Cardinality(Verifying') = Cardinality(Verifying) - 1
        /\ Cardinality(Verifying') \in Nat /\ Cardinality(Verifying') <= Cardinality(Logins)
    BY <1>2, <1>3, LoginMoves
  <1>5. ASSUME login[l].failed > 0 PROVE SignInInv'
    <2>1. user' = [user EXCEPT !.failed = 0, !.locked = FALSE] /\ guesses' = 0
      BY <1>5 DEF RightPassword
    <2>0. 0 \in 0..MaxFailed
      BY SignInFacts
    <2>2. user' \in UserState /\ user'.era = user.era
      BY <1>0, <2>0, <2>1 DEF UserState
    <2>3. GuessesCounted' /\ guesses' \in 0..MaxFailed + Cardinality(Logins)
      BY <1>4, <2>1, GuessesBeginAgain
    <2>4. SignInTypeOK'
      BY <1>2, <1>4, <2>2, <2>3 DEF SignInInv, SignInTypeOK
    <2>5. EraKept'
      BY <1>2, <1>3, <1>4, <2>2 DEF SignInInv, EraKept, AllOfTheEra
    <2> QED
      BY <2>3, <2>4, <2>5 DEF SignInInv
  <1>6. ASSUME ~(login[l].failed > 0) PROVE SignInInv'
    <2>1. user' = user /\ guesses' = guesses
      BY <1>6 DEF RightPassword
    <2>2. Cardinality(Verifying') <= Cardinality(Verifying)
      BY <1>4, SignInFacts
    <2>3. session \in [Sessions -> SessionState]
      BY DEF SignInInv, SignInTypeOK
    <2>4. \A m \in Logins : login'[m].at # "none" => login[m].at # "none" /\ login[m].late = login'[m].late /\ login[m].era = login'[m].era
      BY <1>2, <1>3, <1>4
    <2> QED
      BY <1>2, <1>4, <2>1, <2>2, <2>3, <2>4, NothingGuessed
  <1> QED
    BY <1>5, <1>6

\* The identity provider vouches.
LEMMA SignInVouched == \A l \in Logins : SignInInv /\ Callback(l) => SignInInv'
  <1> SUFFICES ASSUME NEW l \in Logins, SignInInv, Callback(l) PROVE SignInInv'
    OBVIOUS
  <1>1. PICK new : new = [at |-> "create", era |-> user.era, failed |-> 0, late |-> FALSE]
    OBVIOUS
  <1>2. /\ login' = [login EXCEPT ![l] = new] /\ login[l].at = "none"
        /\ user' = user /\ session' = session /\ ending' = ending /\ unended' = unended /\ guesses' = guesses
    BY <1>1 DEF Callback
  <1>3. new \in LoginState /\ new.at = "create" /\ new.era = user.era
    BY <1>1, SignInFacts DEF SignInInv, SignInTypeOK, UserState, LoginState
  <1>4. /\ login' \in [Logins -> LoginState] /\ login'[l] = new /\ \A m \in Logins : m # l => login'[m] = login[m]
        /\ Cardinality(Verifying') = Cardinality(Verifying) - 0 /\ Cardinality(Verifying') \in Nat
    BY <1>2, <1>3, LoginMoves
  <1>5. Cardinality(Verifying') <= Cardinality(Verifying)
    BY <1>4, SignInFacts
  <1>6. session \in [Sessions -> SessionState]
    BY DEF SignInInv, SignInTypeOK
  <1>7. \A m \in Logins : login'[m].era = user.era \/ login'[m] = login[m]
    BY <1>3, <1>4
  <1> QED
    BY <1>2, <1>4, <1>5, <1>6, <1>7, NothingGuessed

\* A sign-in gets its session.
LEMMA SignInGetsSession == \A l \in Logins : SignInInv /\ CreateSession(l) => SignInInv'
  <1> SUFFICES ASSUME NEW l \in Logins, SignInInv, CreateSession(l) PROVE SignInInv'
    OBVIOUS
  <1>0. login[l] \in LoginState /\ session \in [Sessions -> SessionState]
    BY DEF SignInInv, SignInTypeOK
  <1>1. PICK new : new = [at |-> "live", era |-> login[l].era, late |-> login[l].late]
    OBVIOUS
  <1>2. /\ login' = [login EXCEPT ![l] = NoLogin] /\ login[l].at = "create" /\ session' = [session EXCEPT ![NextSession] = new]
        /\ user' = user /\ ending' = ending /\ unended' = unended /\ guesses' = guesses
    BY <1>1 DEF CreateSession
  <1>3. NoLogin \in LoginState /\ NoLogin.at = "none"
    BY SignInFacts DEF NoLogin, LoginState, Eras
  <1>4. /\ login' \in [Logins -> LoginState] /\ login'[l] = NoLogin /\ \A m \in Logins : m # l => login'[m] = login[m]
        /\ Cardinality(Verifying') = Cardinality(Verifying) - 0 /\ Cardinality(Verifying') \in Nat
    BY <1>2, <1>3, LoginMoves
  <1>5. Cardinality(Verifying') <= Cardinality(Verifying)
    BY <1>4, SignInFacts
  <1>6. new \in SessionState /\ new.era = login[l].era /\ new.late = login[l].late
    BY <1>0, <1>1 DEF LoginState, SessionState
  <1>7. session' \in [Sessions -> SessionState] /\ \A s \in Sessions : session'[s] = session[s] \/ session'[s] = new
    BY <1>0, <1>2, <1>6
  <1>8. \A s \in Sessions : session'[s] = session[s] \/
            \E m \in Logins : login[m].at # "none" /\ login[m].late = session'[s].late /\ login[m].era = session'[s].era
    BY <1>2, <1>6, <1>7
  <1>9. \A m \in Logins : login'[m].at # "none" => login'[m] = login[m]
    BY <1>3, <1>4
  <1> QED
    BY <1>2, <1>4, <1>5, <1>7, <1>8, <1>9, NothingGuessed

\* A session that has ended.
LEMMA EndedIsSession == EndedSession \in SessionState /\ EndedSession.at = "ended"
  <1>1. PICK none : none = NoSession
    OBVIOUS
  <1>2. none = [at |-> "none", era |-> 0, late |-> FALSE] /\ EndedSession = [none EXCEPT !.at = "ended"]
    BY <1>1 DEF NoSession, EndedSession
  <1>3. 0 \in Eras
    BY SignInFacts DEF Eras
  <1> QED
    BY <1>2, <1>3 DEF SessionState

\* A session ends by itself, or one is renewed.
LEMMA SessionsMove == SignInInv /\ (RenewSession \/ \E s \in Sessions : EndSession(s)) => SignInInv'
  <1>1. ASSUME SignInInv, user' = user, login' = login, unended' = unended, guesses' = guesses,
               ending' = ending \/ (ending = "renew" /\ ending' = "none"),
               session' \in [Sessions -> SessionState],
               \A s \in Sessions : session'[s].at = "live" => session'[s] = session[s] \/ session'[s].era = user.era
        PROVE  SignInInv'
    <2>1. SignInTypeOK'
      BY <1>1 DEF SignInInv, SignInTypeOK, Ending
    <2>2. EraKept'
      BY <1>1 DEF SignInInv, EraKept, AllOfTheEra
    <2>3. Verifying' = Verifying
      BY <1>1 DEF Verifying
    <2>4. GuessesCounted'
      BY <1>1, <2>3 DEF SignInInv, GuessesCounted
    <2> QED
      BY <2>1, <2>2, <2>4 DEF SignInInv
  <1>2. ASSUME SignInInv, NEW s \in Sessions, EndSession(s) PROVE SignInInv'
    <2>0. EndedSession \in SessionState /\ EndedSession.at = "ended"
      BY EndedIsSession
    <2>1. /\ session' = [session EXCEPT ![s] = EndedSession] /\ session \in [Sessions -> SessionState]
          /\ user' = user /\ login' = login /\ ending' = ending /\ unended' = unended /\ guesses' = guesses
      BY <1>2 DEF EndSession, SignInInv, SignInTypeOK
    <2>2. session' \in [Sessions -> SessionState] /\ \A q \in Sessions : session'[q].at = "live" => session'[q] = session[q]
      BY <2>0, <2>1
    <2> QED
      BY <1>1, <1>2, <2>1, <2>2
  <1>3. ASSUME SignInInv, RenewSession PROVE SignInInv'
    <2>1. PICK new : new = [at |-> "live", era |-> user.era, late |-> FALSE]
      OBVIOUS
    <2>2. /\ ending = "renew" /\ ending' = "none" /\ user' = user /\ login' = login /\ unended' = unended /\ guesses' = guesses
          /\ session' = [session EXCEPT ![NextSession] = new] \/ session' = session
          /\ session \in [Sessions -> SessionState] /\ user \in UserState
      BY <1>3, <2>1 DEF RenewSession, SignInInv, SignInTypeOK
    <2>3. new \in SessionState /\ new.era = user.era
      BY <2>1, <2>2 DEF UserState, SessionState
    <2>4. session' \in [Sessions -> SessionState] /\ \A q \in Sessions : session'[q] = session[q] \/ session'[q] = new
      BY <2>2, <2>3
    <2> QED
      BY <1>1, <1>3, <2>2, <2>3, <2>4
  <1> QED
    BY <1>2, <1>3

\* The account changes by itself or by an administrator.
LEMMA AccountMoves == SignInInv /\ (LockoutEnds \/ Reinstate) => SignInInv'
  <1>1. ASSUME SignInInv, LockoutEnds PROVE SignInInv'
    <2>1. /\ user' = [user EXCEPT !.locked = FALSE] /\ user \in UserState /\ guesses' = 0
          /\ session' = session /\ ending' = ending /\ unended' = unended /\ login' = login
      BY <1>1 DEF LockoutEnds, SignInInv, SignInTypeOK
    <2>2. user' \in UserState /\ user'.era = user.era
      BY <2>1 DEF UserState
    <2>3. Verifying' = Verifying
      BY <2>1 DEF Verifying
    <2>4. GuessesCounted' /\ guesses' \in 0..MaxFailed + Cardinality(Logins)
      BY <1>1, <2>1, <2>3, GuessesBeginAgain, SignInFacts
    <2>5. SignInTypeOK' /\ EraKept'
      BY <1>1, <2>1, <2>2, <2>4 DEF SignInInv, SignInTypeOK, EraKept, AllOfTheEra
    <2> QED
      BY <2>4, <2>5 DEF SignInInv
  <1>2. ASSUME SignInInv, Reinstate PROVE SignInInv'
    <2>1. /\ user' = [user EXCEPT !.active = TRUE] /\ user \in UserState /\ guesses' = guesses
          /\ session' = session /\ ending' = ending /\ unended' = unended /\ login' = login
      BY <1>2 DEF Reinstate, SignInInv, SignInTypeOK
    <2>2. user' \in UserState /\ user'.era = user.era /\ user'.locked = user.locked /\ user'.failed = user.failed
      BY <2>1 DEF UserState
    <2>3. Verifying' = Verifying
      BY <2>1 DEF Verifying
    <2>4. GuessesCounted'
      BY <1>2, <2>1, <2>2, <2>3 DEF SignInInv, GuessesCounted
    <2>5. SignInTypeOK' /\ EraKept'
      BY <1>2, <2>1, <2>2 DEF SignInInv, SignInTypeOK, EraKept, AllOfTheEra
    <2> QED
      BY <2>4, <2>5 DEF SignInInv
  <1> QED
    BY <1>1, <1>2

\* A new era begins; the sessions of the old one are about to be ended.
LEMMA EraBegins == SignInInv /\ (Suspend \/ \E then \in {"revoke", "revoke_renew"} : SetUserPassword(then)) => SignInInv'
  <1>0. ASSUME SignInInv, user.era < MaxEras PROVE user \in UserState /\ user.era + 1 \in Eras
    <2>1. user \in UserState /\ user.era \in 0..MaxEras
      BY <1>0 DEF SignInInv, SignInTypeOK, UserState, Eras
    <2> QED
      BY <1>0, <2>1, SignInFacts DEF Eras
  <1>1. ASSUME SignInInv, Suspend PROVE SignInInv'
    <2>1. PICK era : era = user.era + 1
      OBVIOUS
    <2>2. /\ user' = [user EXCEPT !.era = era, !.active = FALSE] /\ ending' = "revoke" /\ guesses' = guesses
          /\ session' = session /\ unended' = unended /\ login' = login
      BY <1>1, <2>1 DEF Suspend, NewEra, AfterSuspend
    <2>3. user \in UserState /\ era \in Eras
      BY <1>0, <1>1, <2>1 DEF Suspend
    <2>4. user' \in UserState /\ user'.locked = user.locked /\ user'.failed = user.failed
      BY <2>2, <2>3 DEF UserState
    <2>5. Verifying' = Verifying
      BY <2>2 DEF Verifying
    <2>6. GuessesCounted'
      BY <1>1, <2>2, <2>4, <2>5 DEF SignInInv, GuessesCounted
    <2>7. SignInTypeOK' /\ EraKept'
      BY <1>1, <2>2, <2>4 DEF SignInInv, SignInTypeOK, EraKept, Ending
    <2> QED
      BY <2>6, <2>7 DEF SignInInv
  <1>2. ASSUME SignInInv, NEW then \in {"revoke", "revoke_renew"}, SetUserPassword(then) PROVE SignInInv'
    <2>1. PICK era : era = user.era + 1
      OBVIOUS
    <2>2. /\ user' = [user EXCEPT !.era = era, !.failed = 0, !.locked = FALSE] /\ ending' = then /\ guesses' = 0
          /\ session' = session /\ unended' = unended /\ login' = login
      BY <1>2, <2>1 DEF SetUserPassword, NewEra
    <2>3. user \in UserState /\ era \in Eras /\ 0 \in 0..MaxFailed
      BY <1>0, <1>2, <2>1, SignInFacts DEF SetUserPassword
    <2>4. user' \in UserState
      BY <2>2, <2>3 DEF UserState
    <2>5. Verifying' = Verifying
      BY <2>2 DEF Verifying
    <2>6. GuessesCounted' /\ guesses' \in 0..MaxFailed + Cardinality(Logins)
      BY <1>2, <2>2, <2>5, GuessesBeginAgain, SignInFacts
    <2>7. SignInTypeOK' /\ EraKept'
      BY <1>2, <2>2, <2>4, <2>6 DEF SignInInv, SignInTypeOK, EraKept, Ending
    <2> QED
      BY <2>6, <2>7 DEF SignInInv
  <1> QED
    BY <1>1, <1>2

\* The sessions are ended, or that fails.
LEMMA SessionsAreEnded == SignInInv /\ (RevokeSessionsForUser \/ RevokeFails) => SignInInv'
  <1>1. ASSUME SignInInv, RevokeFails PROVE SignInInv'
    <2>1. /\ user' = user /\ login' = login /\ session' = session /\ guesses' = guesses /\ unended' = TRUE /\ ending' \in Ending
      BY <1>1 DEF RevokeFails, AfterRevoke, Ending
    <2>2. Verifying' = Verifying
      BY <2>1 DEF Verifying
    <2> QED
      BY <1>1, <2>1, <2>2 DEF SignInInv, SignInTypeOK, EraKept, GuessesCounted
  <1>2. ASSUME SignInInv, RevokeSessionsForUser PROVE SignInInv'
    <2>0. EndedSession \in SessionState /\ EndedSession.at = "ended"
      BY EndedIsSession
    <2>1. /\ user' = user /\ guesses' = guesses /\ unended' = unended /\ ending' \in Ending
          /\ session' = [s \in Sessions |-> IF session[s].at = "live" THEN EndedSession ELSE session[s]]
          /\ login' = [l \in Logins |-> [login[l] EXCEPT !.late = login[l].at # "none"]]
          /\ session \in [Sessions -> SessionState] /\ login \in [Logins -> LoginState]
      BY <1>2 DEF RevokeSessionsForUser, AfterRevoke, Ending, SignInInv, SignInTypeOK
    <2>2. session' \in [Sessions -> SessionState] /\ \A s \in Sessions : session'[s].at # "live"
      BY <2>0, <2>1
    <2>3. ASSUME NEW l \in Logins
          PROVE  login'[l] \in LoginState /\ login'[l].at = login[l].at /\ (login'[l].at # "none" => login'[l].late)
      <3>1. PICK late : late = (login[l].at # "none")
        OBVIOUS
      <3>2. late \in BOOLEAN
        BY <3>1
      <3>3. login'[l] = [login[l] EXCEPT !.late = late] /\ login[l] \in LoginState
        BY <2>1, <3>1
      <3>4. login'[l] \in LoginState /\ login'[l].at = login[l].at /\ login'[l].late = late
        BY <3>2, <3>3 DEF LoginState
      <3> QED
        BY <3>1, <3>4
    <2>4. login' \in [Logins -> LoginState]
      BY <2>1, <2>3
    <2>5. Verifying' = Verifying
      BY <2>3 DEF Verifying
    <2>6. SignInTypeOK'
      BY <1>2, <2>1, <2>2, <2>4 DEF SignInInv, SignInTypeOK
    <2>7. AllOfTheEra'
      BY <2>2, <2>3 DEF AllOfTheEra
    <2>8. GuessesCounted'
      BY <1>2, <2>1, <2>5 DEF SignInInv, GuessesCounted
    <2> QED
      BY <2>6, <2>7, <2>8 DEF SignInInv, EraKept
  <1> QED
    BY <1>1, <1>2

\* Every step of signing in keeps the invariant.
LEMMA SignInStepInv == SignInInv /\ [SignInNext]_signInVars => SignInInv'
  <1> SUFFICES ASSUME SignInInv, [SignInNext]_signInVars PROVE SignInInv'
    OBVIOUS
  <1>1. ASSUME UNCHANGED signInVars PROVE SignInInv'
    <2>1. /\ user' = user /\ login' = login /\ session' = session /\ ending' = ending /\ unended' = unended /\ guesses' = guesses
      BY <1>1 DEF signInVars
    <2>2. Verifying' = Verifying
      BY <2>1 DEF Verifying
    <2> QED
      BY <2>1, <2>2 DEF SignInInv, SignInTypeOK, EraKept, AllOfTheEra, GuessesCounted
  <1> QED
    BY <1>1, SignInReads, SignInGuesses, SignInSucceeds, SignInVouched, SignInDies, SignInGetsSession, SessionsMove,
       AccountMoves, EraBegins, SessionsAreEnded DEF SignInNext

-----------------------------------------------------------------------------
(* The directory. An administrator remains, and who was demoted stays so.  *)

\* An update between its reads and its last write.
UnderWay(u) == updating[u].at \in {"role", "status"}

\* What a change takes away, as the handler sees it.
Removes(change) == change.role \notin {Nil, "admin"} \/ change.active = FALSE

\* Whatever is changed is an account, and one whose role was taken is not an
\* administrator.
AccountsStand ==
    /\ starting # Nil => account[starting].exists
    /\ creating # Nil => account[creating].exists
    /\ \A u \in Updates : UnderWay(u) => account[updating[u].email].exists
    /\ \A e \in demoted : account[e].exists /\ account[e].role # "admin"

\* Without a race one change at a time may take an administrator away, and it
\* leaves another.
OthersRemain ==
    ~raced =>
        /\ \A u, v \in Updates :
              UnderWay(u) /\ UnderWay(v) /\ Lowers(updating[u].change) /\ Lowers(updating[v].change) => u = v
        /\ \A u \in Updates : UnderWay(u) /\ Removes(updating[u].change) => Admins(account) \ {updating[u].email} # {}
        /\ hadAdmin => Admins(account) # {}

AccountsInv == AccountsTypeOK /\ AccountsStand /\ OthersRemain

\* What the invariant has to do with the properties.
LEMMA AccountsSay == AccountsInv => AccountsTypeOK /\ AdminRemains /\ DemotionSticks
  BY DEF AccountsInv, AccountsStand, OthersRemain, AdminRemains, DemotionSticks

\* An update that has not begun or has ended.
LEMMA NoUpdateTyped ==
    /\ NoUpdate \in UpdateState /\ NoUpdate.at = "none"
    /\ [NoUpdate EXCEPT !.at = "ended"] \in UpdateState /\ [NoUpdate EXCEPT !.at = "ended"].at = "ended"
  <1>1. PICK e, n : e = (CHOOSE x \in Emails : TRUE) /\ n = NoUpdate
    OBVIOUS
  <1>2. e \in Emails
    BY <1>1, AccountsAssumption
  <1>3. n = [at |-> "none", email |-> e, change |-> [role |-> Nil, active |-> Nil]]
    BY <1>1 DEF NoUpdate, NoChange
  <1>4. [role |-> Nil, active |-> Nil] \in Changes
    BY DEF Changes
  <1>5. n \in UpdateState /\ n.at = "none" /\ [n EXCEPT !.at = "ended"] \in UpdateState /\ [n EXCEPT !.at = "ended"].at = "ended"
    BY <1>2, <1>3, <1>4 DEF UpdateState
  <1> QED
    BY <1>1, <1>5

\* A change that takes away lowers.
LEMMA RemovesLowers == \A change \in Changes : Removes(change) => Lowers(change)
  BY DEF Changes, Roles, Removes, Lowers

\* In the beginning there are no accounts.
LEMMA AccountsInitInv == AccountsInit => AccountsInv
  <1> SUFFICES ASSUME AccountsInit PROVE AccountsInv
    OBVIOUS
  <1>1. NoAccount \in AccountRow
    BY DEF NoAccount, AccountRow, Roles
  <1>2. AccountsTypeOK
    BY <1>1, NoUpdateTyped DEF AccountsInit, AccountsTypeOK
  <1>3. \A u \in Updates : ~UnderWay(u)
    BY NoUpdateTyped DEF AccountsInit, UnderWay
  <1> QED
    BY <1>2, <1>3 DEF AccountsInit, AccountsInv, AccountsStand, OthersRemain

\* One account is written.
LEMMA AccountWritten ==
    ASSUME AccountsTypeOK, NEW e \in Emails, NEW row \in AccountRow, SetAccount(e, row)
    PROVE  /\ account' \in [Emails -> AccountRow] /\ hadAdmin' \in BOOLEAN
           /\ account'[e] = row /\ \A f \in Emails : f # e => account'[f] = account[f]
           /\ hadAdmin' => hadAdmin \/ IsAdmin(row)
           /\ IsAdmin(row) => e \in Admins(account')
           /\ Admins(account) \ {e} \subseteq Admins(account') \ {e}
           /\ (IsAdmin(account[e]) => IsAdmin(row)) => Admins(account) \subseteq Admins(account')
  <1>1. account \in [Emails -> AccountRow] /\ account' = [account EXCEPT ![e] = row] /\ hadAdmin' = (hadAdmin \/ IsAdmin(row))
    BY DEF AccountsTypeOK, SetAccount
  <1>2. account' \in [Emails -> AccountRow] /\ account'[e] = row /\ \A f \in Emails : f # e => account'[f] = account[f]
    BY <1>1
  <1>3. hadAdmin' \in BOOLEAN /\ (hadAdmin' => hadAdmin \/ IsAdmin(row))
    BY <1>1 DEF AccountsTypeOK, IsAdmin, AccountRow
  <1>4. \A f \in Emails : f # e => (IsAdmin(account'[f]) <=> IsAdmin(account[f]))
    BY <1>2
  <1> QED
    BY <1>2, <1>3, <1>4 DEF Admins

\* Updates go on or end, none begins.
NoneBegins ==
    /\ updating' \in [Updates -> UpdateState]
    /\ \A u \in Updates : updating'[u].at \in {"role", "status"} =>
          UnderWay(u) /\ updating'[u].email = updating[u].email /\ updating'[u].change = updating[u].change

\* One account is written and stays one; its role is not taken back.
LEMMA AccountStands ==
    ASSUME AccountsInv, NEW e \in Emails, NEW row \in AccountRow, SetAccount(e, row), row.exists, NoneBegins,
           starting' \in {Nil, e, starting}, creating' \in {Nil, e, creating}, raced' \in BOOLEAN,
           demoted' \in SUBSET (demoted \cup {e}), e \in demoted' => row.role # "admin"
    PROVE  AccountsTypeOK' /\ AccountsStand'
  <1>1. /\ account' \in [Emails -> AccountRow] /\ hadAdmin' \in BOOLEAN
        /\ account'[e] = row /\ \A f \in Emails : f # e => account'[f] = account[f]
    BY AccountWritten DEF AccountsInv
  <1>2. AccountsTypeOK'
    BY <1>1 DEF AccountsInv, AccountsTypeOK, NoneBegins
  <1>3. \A f \in Emails : account[f].exists => account'[f].exists
    BY <1>1
  <1>4. AccountsStand'
    <2>1. starting' # Nil => account'[starting'].exists
      BY <1>1, <1>3 DEF AccountsInv, AccountsTypeOK, AccountsStand
    <2>2. creating' # Nil => account'[creating'].exists
      BY <1>1, <1>3 DEF AccountsInv, AccountsTypeOK, AccountsStand
    <2>3. \A u \in Updates : updating'[u].at \in {"role", "status"} => account'[updating'[u].email].exists
      <3>1. \A u \in Updates : updating[u].email \in Emails
        BY DEF AccountsInv, AccountsTypeOK, UpdateState
      <3> QED
        BY <1>3, <3>1 DEF AccountsInv, AccountsStand, NoneBegins
    <2>4. \A f \in demoted' : account'[f].exists /\ account'[f].role # "admin"
      BY <1>1, <1>3 DEF AccountsInv, AccountsTypeOK, AccountsStand
    <2> QED
      BY <2>1, <2>2, <2>3, <2>4 DEF AccountsStand, UnderWay
  <1> QED
    BY <1>2, <1>4

\* The writes that take nobody away: an administrator stays one.
LEMMA AccountRaised ==
    ASSUME AccountsInv, NEW e \in Emails, NEW row \in AccountRow, SetAccount(e, row), row.exists, NoneBegins,
           IsAdmin(account[e]) => IsAdmin(row),
           starting' \in {Nil, e, starting}, creating' \in {Nil, e, creating}, raced' = raced,
           demoted' \in SUBSET (demoted \cup {e}), e \in demoted' => row.role # "admin"
    PROVE  AccountsInv'
  <1>1. AccountsTypeOK' /\ AccountsStand'
    BY AccountStands DEF AccountsInv, AccountsTypeOK
  <1>2. PICK adminsBefore, adminsAfter : adminsBefore = Admins(account) /\ adminsAfter = Admins(account')
    OBVIOUS
  <1>3. adminsBefore \subseteq adminsAfter /\ (IsAdmin(row) => adminsAfter # {}) /\ (hadAdmin' => hadAdmin \/ IsAdmin(row))
    BY <1>2, AccountWritten DEF AccountsInv
  <1>4. OthersRemain'
    <2> SUFFICES ASSUME ~raced
                 PROVE  /\ \A u, v \in Updates : UnderWay(u)' /\ UnderWay(v)' /\ Lowers(updating[u].change)' /\ Lowers(updating[v].change)' => u = v
                        /\ \A u \in Updates : UnderWay(u)' /\ Removes(updating[u].change)' => adminsAfter \ {updating'[u].email} # {}
                        /\ hadAdmin' => adminsAfter # {}
      BY <1>2 DEF OthersRemain
    <2>1. \A u \in Updates : UnderWay(u)' => UnderWay(u) /\ updating'[u].email = updating[u].email /\ updating'[u].change = updating[u].change
      BY DEF NoneBegins, UnderWay
    <2>2. \A u, v \in Updates : UnderWay(u) /\ UnderWay(v) /\ Lowers(updating[u].change) /\ Lowers(updating[v].change) => u = v
      BY DEF AccountsInv, OthersRemain
    <2>3. /\ \A u \in Updates : UnderWay(u) /\ Removes(updating[u].change) => adminsBefore \ {updating[u].email} # {}
          /\ hadAdmin => adminsBefore # {}
      BY <1>2 DEF AccountsInv, OthersRemain
    <2>4. \A u, v \in Updates : UnderWay(u)' /\ UnderWay(v)' /\ Lowers(updating[u].change)' /\ Lowers(updating[v].change)' => u = v
      BY <2>1, <2>2
    <2>5. \A u \in Updates : UnderWay(u)' /\ Removes(updating[u].change)' => adminsAfter \ {updating'[u].email} # {}
      BY <1>3, <2>1, <2>3
    <2> QED
      BY <1>3, <2>3, <2>4, <2>5
  <1> QED
    BY <1>1, <1>4 DEF AccountsInv

\* The writes of a change that takes away what its handler counted on.
LEMMA AccountLowered ==
    ASSUME AccountsInv, NEW u \in Updates, UnderWay(u), Removes(updating[u].change), NEW row \in AccountRow,
           SetAccount(updating[u].email, row), row.exists, NoneBegins,
           starting' = starting, creating' = creating, raced' = raced,
           demoted' \in SUBSET (demoted \cup {updating[u].email}), updating[u].email \in demoted' => row.role # "admin"
    PROVE  AccountsInv'
  <1>0. PICK e \in Emails : e = updating[u].email
    BY DEF AccountsInv, AccountsTypeOK, UpdateState
  <1>1. AccountsTypeOK' /\ AccountsStand'
    BY <1>0, AccountStands DEF AccountsInv, AccountsTypeOK
  <1>2. PICK adminsBefore, adminsAfter : adminsBefore = Admins(account) /\ adminsAfter = Admins(account')
    OBVIOUS
  <1>3. adminsBefore \ {e} \subseteq adminsAfter \ {e}
    BY <1>0, <1>2, AccountWritten DEF AccountsInv
  <1>4. OthersRemain'
    <2> SUFFICES ASSUME ~raced
                 PROVE  /\ \A w, v \in Updates : UnderWay(w)' /\ UnderWay(v)' /\ Lowers(updating[w].change)' /\ Lowers(updating[v].change)' => w = v
                        /\ \A v \in Updates : UnderWay(v)' /\ Removes(updating[v].change)' => adminsAfter \ {updating'[v].email} # {}
                        /\ adminsAfter # {}
      BY <1>2 DEF OthersRemain
    <2>1. \A v \in Updates : UnderWay(v)' => UnderWay(v) /\ updating'[v].email = updating[v].email /\ updating'[v].change = updating[v].change
      BY DEF NoneBegins, UnderWay
    <2>2. \A w, v \in Updates : UnderWay(w) /\ UnderWay(v) /\ Lowers(updating[w].change) /\ Lowers(updating[v].change) => w = v
      BY DEF AccountsInv, OthersRemain
    <2>3. adminsAfter \ {e} # {}
      <3>1. adminsBefore \ {e} # {}
        BY <1>0, <1>2 DEF AccountsInv, OthersRemain
      <3> QED
        BY <1>3, <3>1
    <2>4. \A v \in Updates : UnderWay(v) /\ Removes(updating[v].change) => v = u
      <3>1. \A v \in Updates : Removes(updating[v].change) => Lowers(updating[v].change)
        BY RemovesLowers DEF AccountsInv, AccountsTypeOK, UpdateState
      <3> QED
        BY <2>2, <3>1
    <2>5. \A v \in Updates : UnderWay(v)' /\ Removes(updating[v].change)' => adminsAfter \ {updating'[v].email} # {}
      BY <1>0, <2>1, <2>3, <2>4
    <2>6. \A w, v \in Updates : UnderWay(w)' /\ UnderWay(v)' /\ Lowers(updating[w].change)' /\ Lowers(updating[v].change)' => w = v
      BY <2>1, <2>2
    <2> QED
      BY <2>3, <2>5, <2>6
  <1> QED
    BY <1>1, <1>4 DEF AccountsInv

\* The steps that write no account.
LEMMA NoAccountWritten ==
    ASSUME AccountsInv, NoneBegins, account' = account, hadAdmin' = hadAdmin, raced' = raced, demoted' = demoted,
           starting' \in {Nil, starting}, creating' \in {Nil, creating}
    PROVE  AccountsInv'
  <1>1. AccountsTypeOK'
    BY DEF AccountsInv, AccountsTypeOK, NoneBegins
  <1>2. AccountsStand'
    BY DEF AccountsInv, AccountsStand, NoneBegins, UnderWay
  <1>3. \A u \in Updates : UnderWay(u)' => UnderWay(u) /\ updating'[u].email = updating[u].email /\ updating'[u].change = updating[u].change
    BY DEF NoneBegins, UnderWay
  <1>4. OthersRemain'
    BY <1>3 DEF AccountsInv, OthersRemain
  <1> QED
    BY <1>1, <1>2, <1>4 DEF AccountsInv

\* The row of an address that signs in or is given an account.
LEMMA ResolvedIs ==
    ASSUME AccountsInv, NEW e \in Emails, NEW bootstrap, NEW row, row = ResolvedRow(e, bootstrap)
    PROVE  row \in AccountRow /\ row.exists /\ (IsAdmin(account[e]) => IsAdmin(row)) /\ (e \in demoted => row.role # "admin")
  <1>1. account[e] \in AccountRow
    BY DEF AccountsInv, AccountsTypeOK
  <1>2. ASSUME account[e].exists PROVE row = account[e]
    BY <1>2 DEF ResolvedRow
  <1>3. ASSUME ~account[e].exists
        PROVE  row \in AccountRow /\ row.exists /\ ~IsAdmin(account[e]) /\ e \notin demoted
    <2>1. row = [exists |-> TRUE, role |-> IF e \in bootstrap THEN "admin" ELSE "viewer", active |-> TRUE, password |-> FALSE]
      BY <1>3 DEF ResolvedRow
    <2>2. row \in AccountRow /\ row.exists
      BY <2>1 DEF AccountRow, Roles
    <2> QED
      BY <1>3, <2>2 DEF IsAdmin, AccountsInv, AccountsStand
  <1> QED
    BY <1>1, <1>2, <1>3 DEF AccountsInv, AccountsStand

\* Accounts appear.
LEMMA AccountsAppear ==
    \A e \in Emails : AccountsInv /\ (ResolveIdentity(e) \/ BootstrapAccount(e) \/ CreateUser(e)) => AccountsInv'
  <1>1. ASSUME AccountsInv, NEW e \in Emails, NEW bootstrap, SetAccount(e, ResolvedRow(e, bootstrap)), updating' = updating,
               starting' \in {e, starting}, creating' \in {e, creating}, raced' = raced, demoted' = demoted
        PROVE  AccountsInv'
    <2>1. PICK row : row = ResolvedRow(e, bootstrap)
      OBVIOUS
    <2>2. row \in AccountRow /\ row.exists /\ (IsAdmin(account[e]) => IsAdmin(row)) /\ (e \in demoted => row.role # "admin")
      BY <1>1, <2>1, ResolvedIs
    <2>3. NoneBegins
      BY <1>1 DEF NoneBegins, UnderWay, AccountsInv, AccountsTypeOK
    <2>4. SetAccount(e, row)
      BY <1>1, <2>1
    <2> QED
      BY <1>1, <2>2, <2>3, <2>4, AccountRaised
  <1> QED
    BY <1>1 DEF ResolveIdentity, BootstrapAccount, CreateUser

\* The first run stores a password.
LEMMA AccountsBootstrap == AccountsInv /\ BootstrapPassword => AccountsInv'
  <1> SUFFICES ASSUME AccountsInv, BootstrapPassword PROVE AccountsInv'
    OBVIOUS
  <1>1. PICK e \in Emails : e = starting /\ account[e].exists /\ account[e] \in AccountRow
    BY DEF BootstrapPassword, AccountsInv, AccountsTypeOK, AccountsStand
  <1>2. PICK row : row = [account[e] EXCEPT !.password = TRUE]
    OBVIOUS
  <1>3. row \in AccountRow /\ row.exists /\ (IsAdmin(account[e]) => IsAdmin(row)) /\ row.role = account[e].role
    BY <1>1, <1>2 DEF AccountRow, IsAdmin
  <1>4. SetAccount(e, row) /\ starting' = Nil /\ creating' = creating /\ raced' = raced /\ demoted' = demoted /\ updating' = updating
    BY <1>1, <1>2 DEF BootstrapPassword
  <1>5. NoneBegins
    BY <1>4 DEF NoneBegins, UnderWay, AccountsInv, AccountsTypeOK
  <1>6. e \in demoted => row.role # "admin"
    BY <1>3 DEF AccountsInv, AccountsStand
  <1> QED
    BY <1>3, <1>4, <1>5, <1>6, AccountRaised

\* The new account gets its role.
LEMMA AccountsCreated == \A r \in Roles : AccountsInv /\ CreatedRole(r) => AccountsInv'
  <1> SUFFICES ASSUME NEW r \in Roles, AccountsInv, CreatedRole(r) PROVE AccountsInv'
    OBVIOUS
  <1>1. PICK e \in Emails : e = creating /\ account[e].exists /\ account[e] \in AccountRow
    BY DEF CreatedRole, AccountsInv, AccountsTypeOK, AccountsStand
  <1>2. PICK role : role = IF r = "viewer" THEN account[e].role ELSE r
    OBVIOUS
  <1>3. PICK row : row = [account[e] EXCEPT !.password = TRUE, !.role = role]
    OBVIOUS
  <1>4. row \in AccountRow /\ row.exists /\ row.role = role /\ row.active = account[e].active
    BY <1>1, <1>2, <1>3 DEF AccountRow
  <1>5. /\ SetAccount(e, row) /\ starting' = starting /\ creating' = Nil /\ updating' = updating
        /\ demoted' = IF r = "admin" THEN demoted \ {e} ELSE demoted
        /\ raced' = (raced \/ (r = "operator" /\ account[e].role = "admin"))
    BY <1>1, <1>2, <1>3 DEF CreatedRole
  <1>6. NoneBegins
    BY <1>5 DEF NoneBegins, UnderWay, AccountsInv, AccountsTypeOK
  <1>7. demoted' \in SUBSET (demoted \cup {e}) /\ (e \in demoted' => row.role # "admin")
    <2>1. e \in demoted => account[e].role # "admin"
      BY DEF AccountsInv, AccountsStand
    <2> QED
      BY <1>2, <1>4, <1>5, <2>1
  <1>8. raced \in BOOLEAN /\ raced' \in BOOLEAN
    BY <1>5 DEF AccountsInv, AccountsTypeOK
  <1>9. ASSUME r = "operator" /\ account[e].role = "admin" PROVE AccountsInv'
    <2>1. AccountsTypeOK' /\ AccountsStand'
      BY <1>4, <1>5, <1>6, <1>7, <1>8, AccountStands
    <2>2. raced'
      BY <1>5, <1>9
    <2> QED
      BY <2>1, <2>2 DEF AccountsInv, OthersRemain
  <1>10. ASSUME ~(r = "operator" /\ account[e].role = "admin") PROVE AccountsInv'
    <2>1. raced' = raced
      BY <1>5, <1>8, <1>10
    <2>2. IsAdmin(account[e]) => IsAdmin(row)
      BY <1>2, <1>4, <1>10 DEF IsAdmin, Roles
    <2> QED
      BY <1>4, <1>5, <1>6, <1>7, <2>1, <2>2, AccountRaised
  <1> QED
    BY <1>9, <1>10

\* An update goes on.
LEMMA UpdateGoesOn ==
    ASSUME AccountsInv, NEW u \in Updates, NEW new \in UpdateState, updating' = [updating EXCEPT ![u] = new],
           new.at \in {"role", "status"} => UnderWay(u) /\ new.email = updating[u].email /\ new.change = updating[u].change
    PROVE  NoneBegins
  <1>1. updating \in [Updates -> UpdateState]
    BY DEF AccountsInv, AccountsTypeOK
  <1>2. updating' \in [Updates -> UpdateState] /\ updating'[u] = new /\ \A v \in Updates : v # u => updating'[v] = updating[v]
    BY <1>1
  <1> QED
    BY <1>2 DEF NoneBegins, UnderWay

\* An update reads and counts.
LEMMA AccountsBegin == \A u \in Updates, e \in Emails, change \in Changes : AccountsInv /\ BeginUpdate(u, e, change) => AccountsInv'
  <1> SUFFICES ASSUME NEW u \in Updates, NEW e \in Emails, NEW change \in Changes, AccountsInv, BeginUpdate(u, e, change)
               PROVE  AccountsInv'
    OBVIOUS
  <1>1. PICK new : new = [at |-> "role", email |-> e, change |-> change]
    OBVIOUS
  <1>2. /\ updating' = [updating EXCEPT ![u] = new] /\ account[e].exists /\ account' = account /\ starting' = starting
        /\ creating' = creating /\ hadAdmin' = hadAdmin /\ demoted' = demoted
    BY <1>1 DEF BeginUpdate
  <1>3. new \in UpdateState /\ new.at = "role" /\ new.email = e /\ new.change = change
    BY <1>1 DEF UpdateState
  <1>4. updating' \in [Updates -> UpdateState] /\ updating'[u] = new /\ \A v \in Updates : v # u => updating'[v] = updating[v]
    BY <1>2, <1>3 DEF AccountsInv, AccountsTypeOK
  <1>5. raced' \in BOOLEAN /\ (~raced' => ~raced /\ (Lowers(change) => \A v \in Updates : UnderWay(v) => ~Lowers(updating[v].change)))
    <2>1. PICK overlap : overlap = (Lowers(change) /\ \E v \in Updates : updating[v].at \in {"role", "status"} /\ Lowers(updating[v].change))
      OBVIOUS
    <2>2. raced' = (raced \/ overlap)
      BY <2>1 DEF BeginUpdate
    <2> QED
      BY <2>1, <2>2 DEF UnderWay
  <1>6. AccountsTypeOK'
    BY <1>2, <1>4, <1>5 DEF AccountsInv, AccountsTypeOK
  <1>7. AccountsStand'
    BY <1>2, <1>3, <1>4 DEF AccountsInv, AccountsStand, UnderWay
  <1>8. Removes(change) => Admins(account) \ {e} # {}
    <2>1. Admins(account) # {} /\ (wouldRemoveLastAdmin(account[e], change) => Admins(account) \ {e} # {})
      BY DEF BeginUpdate
    <2>2. ASSUME Removes(change), ~wouldRemoveLastAdmin(account[e], change) PROVE Admins(account) \ {e} # {}
      <3>1. ~IsAdmin(account[e])
        BY <2>2 DEF Removes, wouldRemoveLastAdmin
      <3>2. e \notin Admins(account)
        BY <3>1 DEF Admins
      <3> QED
        BY <2>1, <3>2
    <2> QED
      BY <2>1, <2>2
  <1>9. OthersRemain'
    <2> SUFFICES ASSUME ~raced'
                 PROVE  /\ \A w, v \in Updates : UnderWay(w)' /\ UnderWay(v)' /\ Lowers(updating[w].change)' /\ Lowers(updating[v].change)' => w = v
                        /\ \A v \in Updates : UnderWay(v)' /\ Removes(updating[v].change)' => Admins(account) \ {updating'[v].email} # {}
                        /\ hadAdmin => Admins(account) # {}
      BY <1>2 DEF OthersRemain
    <2>1. /\ \A w, v \in Updates : UnderWay(w) /\ UnderWay(v) /\ Lowers(updating[w].change) /\ Lowers(updating[v].change) => w = v
          /\ \A v \in Updates : UnderWay(v) /\ Removes(updating[v].change) => Admins(account) \ {updating[v].email} # {}
          /\ hadAdmin => Admins(account) # {}
      BY <1>5 DEF AccountsInv, OthersRemain
    <2>2. \A v \in Updates : v # u /\ UnderWay(v)' => UnderWay(v) /\ updating'[v] = updating[v]
      BY <1>4 DEF UnderWay
    <2>3. \A v \in Updates : UnderWay(v)' /\ Removes(updating[v].change)' => Admins(account) \ {updating'[v].email} # {}
      BY <1>3, <1>4, <1>8, <2>1, <2>2
    <2>4. \A w, v \in Updates : UnderWay(w)' /\ UnderWay(v)' /\ Lowers(updating[w].change)' /\ Lowers(updating[v].change)' => w = v
      BY <1>3, <1>4, <1>5, <2>1, <2>2
    <2> QED
      BY <2>1, <2>3, <2>4
  <1> QED
    BY <1>6, <1>7, <1>9 DEF AccountsInv

\* What an update in hand is.
LEMMA UpdateInHand ==
    ASSUME AccountsInv, NEW u \in Updates, UnderWay(u), NEW w, w = updating[u]
    PROVE  /\ w \in UpdateState /\ w.email \in Emails /\ w.change \in Changes
           /\ account[w.email] \in AccountRow /\ account[w.email].exists
           /\ w.email \in demoted => account[w.email].role # "admin"
  <1>1. w \in UpdateState
    BY DEF AccountsInv, AccountsTypeOK
  <1>2. w.email \in Emails /\ w.change \in Changes
    BY <1>1 DEF UpdateState
  <1> QED
    BY <1>1, <1>2 DEF AccountsInv, AccountsTypeOK, AccountsStand

\* The role is written.
LEMMA AccountsSetRole == \A u \in Updates : AccountsInv /\ SetUserRole(u) => AccountsInv'
  <1> SUFFICES ASSUME NEW u \in Updates, AccountsInv, SetUserRole(u) PROVE AccountsInv'
    OBVIOUS
  <1>1. PICK w : w = updating[u]
    OBVIOUS
  <1>2. PICK new : new = [w EXCEPT !.at = "status"]
    OBVIOUS
  <1>3. UnderWay(u) /\ updating' = [updating EXCEPT ![u] = new] /\ starting' = starting /\ creating' = creating /\ raced' = raced
    BY <1>1, <1>2 DEF SetUserRole, UnderWay
  <1>4. /\ w \in UpdateState /\ w.email \in Emails /\ w.change \in Changes
        /\ account[w.email] \in AccountRow /\ account[w.email].exists
        /\ w.email \in demoted => account[w.email].role # "admin"
    BY <1>1, <1>3, UpdateInHand
  <1>5. new \in UpdateState /\ new.email = w.email /\ new.change = w.change
    BY <1>2, <1>4 DEF UpdateState
  <1>6. NoneBegins
    BY <1>1, <1>3, <1>5, UpdateGoesOn
  <1>7. ASSUME w.change.role = Nil PROVE AccountsInv'
    <2>1. account' = account /\ hadAdmin' = hadAdmin /\ demoted' = demoted
      BY <1>1, <1>7 DEF SetUserRole
    <2> QED
      BY <1>3, <1>6, <2>1, NoAccountWritten
  <1>8. ASSUME w.change.role # Nil PROVE AccountsInv'
    <2>1. PICK e \in Emails : e = w.email
      BY <1>4
    <2>2. PICK role \in Roles : role = w.change.role
      BY <1>4, <1>8 DEF Changes
    <2>3. PICK row : row = [account[e] EXCEPT !.role = role]
      OBVIOUS
    <2>4. row \in AccountRow /\ row.exists /\ row.role = role /\ row.active = account[e].active
      BY <1>4, <2>1, <2>3 DEF AccountRow
    <2>5. SetAccount(e, row) /\ demoted' = IF role = "admin" THEN demoted \ {e} ELSE demoted \cup {e}
      BY <1>1, <1>8, <2>1, <2>2, <2>3 DEF SetUserRole
    <2>6. demoted' \in SUBSET (demoted \cup {e}) /\ (e \in demoted' => row.role # "admin")
      BY <2>4, <2>5
    <2>7. ASSUME role = "admin" PROVE AccountsInv'
      <3>1. IsAdmin(account[e]) => IsAdmin(row)
        BY <2>4, <2>7 DEF IsAdmin
      <3> QED
        BY <1>3, <1>6, <2>4, <2>5, <2>6, <3>1, AccountRaised
    <2>8. ASSUME role # "admin" PROVE AccountsInv'
      <3>1. Removes(updating[u].change) /\ updating[u].email = e
        BY <1>1, <1>8, <2>1, <2>2, <2>8 DEF Removes
      <3> QED
        BY <1>3, <1>6, <2>4, <2>5, <2>6, <3>1, AccountLowered
    <2> QED
      BY <2>7, <2>8
  <1> QED
    BY <1>7, <1>8

\* The status is written.
LEMMA AccountsSetStatus == \A u \in Updates : AccountsInv /\ SetUserStatus(u) => AccountsInv'
  <1> SUFFICES ASSUME NEW u \in Updates, AccountsInv, SetUserStatus(u) PROVE AccountsInv'
    OBVIOUS
  <1>1. PICK w : w = updating[u]
    OBVIOUS
  <1>2. PICK new : new = [NoUpdate EXCEPT !.at = "ended"]
    OBVIOUS
  <1>3. /\ UnderWay(u) /\ updating' = [updating EXCEPT ![u] = new] /\ starting' = starting /\ creating' = creating
        /\ raced' = raced /\ demoted' = demoted
    BY <1>1, <1>2 DEF SetUserStatus, UnderWay
  <1>4. /\ w.email \in Emails /\ w.change \in Changes /\ account[w.email] \in AccountRow /\ account[w.email].exists
        /\ w.email \in demoted => account[w.email].role # "admin"
    BY <1>1, <1>3, UpdateInHand
  <1>5. NoneBegins
    BY <1>2, <1>3, NoUpdateTyped, UpdateGoesOn
  <1>6. ASSUME w.change.active = Nil PROVE AccountsInv'
    <2>1. account' = account /\ hadAdmin' = hadAdmin
      BY <1>1, <1>6 DEF SetUserStatus
    <2> QED
      BY <1>3, <1>5, <2>1, NoAccountWritten
  <1>7. ASSUME w.change.active # Nil PROVE AccountsInv'
    <2>1. PICK e \in Emails : e = w.email
      BY <1>4
    <2>2. PICK active \in BOOLEAN : active = w.change.active
      BY <1>4, <1>7 DEF Changes
    <2>3. PICK row : row = [account[e] EXCEPT !.active = active]
      OBVIOUS
    <2>4. row \in AccountRow /\ row.exists /\ row.role = account[e].role /\ row.active = active
      BY <1>4, <2>1, <2>3 DEF AccountRow
    <2>5. SetAccount(e, row)
      BY <1>1, <1>7, <2>1, <2>2, <2>3 DEF SetUserStatus
    <2>6. demoted' \in SUBSET (demoted \cup {e}) /\ (e \in demoted' => row.role # "admin")
      BY <1>3, <1>4, <2>1, <2>4
    <2>7. ASSUME active PROVE AccountsInv'
      <3>1. IsAdmin(account[e]) => IsAdmin(row)
        BY <2>4, <2>7 DEF IsAdmin
      <3> QED
        BY <1>3, <1>5, <2>4, <2>5, <2>6, <3>1, AccountRaised
    <2>8. ASSUME ~active PROVE AccountsInv'
      <3>1. Removes(updating[u].change) /\ updating[u].email = e
        BY <1>1, <2>1, <2>2, <2>8 DEF Removes
      <3> QED
        BY <1>3, <1>5, <2>4, <2>5, <2>6, <3>1, AccountLowered
    <2> QED
      BY <2>7, <2>8
  <1> QED
    BY <1>6, <1>7

\* A request fails half-way.
LEMMA AccountsFail == AccountsInv /\ (CreateFails \/ \E u \in Updates : UpdateFails(u)) => AccountsInv'
  <1>1. ASSUME AccountsInv, CreateFails PROVE AccountsInv'
    <2>1. /\ creating' = Nil /\ account' = account /\ updating' = updating /\ starting' = starting /\ hadAdmin' = hadAdmin
          /\ raced' = raced /\ demoted' = demoted
      BY <1>1 DEF CreateFails
    <2>2. NoneBegins
      BY <1>1, <2>1 DEF NoneBegins, UnderWay, AccountsInv, AccountsTypeOK
    <2> QED
      BY <1>1, <2>1, <2>2, NoAccountWritten
  <1>2. ASSUME AccountsInv, NEW u \in Updates, UpdateFails(u) PROVE AccountsInv'
    <2>1. PICK new : new = [NoUpdate EXCEPT !.at = "ended"]
      OBVIOUS
    <2>2. /\ updating' = [updating EXCEPT ![u] = new] /\ account' = account /\ creating' = creating /\ starting' = starting
          /\ hadAdmin' = hadAdmin /\ raced' = raced /\ demoted' = demoted
      BY <1>2, <2>1 DEF UpdateFails
    <2>3. NoneBegins
      BY <1>2, <2>1, <2>2, NoUpdateTyped, UpdateGoesOn
    <2> QED
      BY <1>2, <2>2, <2>3, NoAccountWritten
  <1> QED
    BY <1>1, <1>2

\* Every step of the directory keeps the invariant.
LEMMA AccountsStepInv == AccountsInv /\ [AccountsNext]_accountsVars => AccountsInv'
  <1> SUFFICES ASSUME AccountsInv, [AccountsNext]_accountsVars PROVE AccountsInv'
    OBVIOUS
  <1>1. ASSUME UNCHANGED accountsVars PROVE AccountsInv'
    <2>1. /\ account' = account /\ updating' = updating /\ starting' = starting /\ creating' = creating /\ hadAdmin' = hadAdmin
          /\ raced' = raced /\ demoted' = demoted
      BY <1>1 DEF accountsVars
    <2>2. NoneBegins
      BY <2>1 DEF NoneBegins, UnderWay, AccountsInv, AccountsTypeOK
    <2> QED
      BY <2>1, <2>2, NoAccountWritten
  <1> QED
    BY <1>1, AccountsAppear, AccountsBootstrap, AccountsCreated, AccountsBegin, AccountsSetRole, AccountsSetStatus, AccountsFail
       DEF AccountsNext

-----------------------------------------------------------------------------
(* The rate limiter. What the level of a bucket says of every stretch of   *)
(* time, in whatever order requests with earlier readings of the clock     *)
(* come to it.                                                             *)

\* A waiting request is not older than the longest delay.
WaitsAreShort == \A r \in LimitedRequests : arrival[r] # Nil => arrival[r] <= now /\ now <= arrival[r] + MaxDelay

\* The level of the bucket is what it holds, set back to the instant 0: a
\* refill leaves it and a full bucket lowers it. Every request let through
\* since an instant has lowered it from that of a bucket full then.
BucketPays ==
    bucket # Nil =>
        /\ bucket.lastSeen <= now
        /\ \A t \in Clock : allowedAt[t] > 0 => t <= bucket.lastSeen + MaxDelay
        /\ 0 - Rate * MaxClock <= bucket.tokens - Rate * bucket.lastSeen
        /\ \A f, l \in Clock : f <= l /\ AllowedIn(f, l) > 0 =>
              bucket.tokens - Rate * bucket.lastSeen <= Burst - Rate * f - AllowedIn(f, l)

\* A bucket is forgotten when it would have been full for anybody who waits.
ForgottenLongAgo ==
    /\ \A t \in Clock : allowedAt[t] > 0 => t <= now
    /\ bucket = Nil => \A t \in Clock : allowedAt[t] > 0 => t + IdleFor + 1 <= now + MaxDelay

\* Every stretch of time is within the rate, and what was let through in it
\* can be counted.
EveryStretch ==
    \A f, l \in Clock :
        /\ IsFiniteSet(LetThrough(f, l))
        /\ f <= l => AllowedIn(f, l) <= Burst + Rate * (l - f)

RateInv == RateLimitTypeOK /\ WaitsAreShort /\ BucketPays /\ ForgottenLongAgo /\ EveryStretch

\* What the invariant has to do with the property.
LEMMA RateInvSays == RateInv => WithinRate
  BY DEF RateInv, EveryStretch, WithinRate

\* What there is to know of the constants.
LEMMA RateFacts ==
    /\ Rate \in Nat /\ Rate > 0 /\ Burst \in Nat /\ Burst >= 1 /\ IdleFor \in Nat /\ MaxDelay \in Nat /\ MaxDelay <= IdleFor
    /\ MaxClock \in Nat /\ (IdleFor + 1 - 2 * MaxDelay) * Rate >= Burst
    /\ Clock \subseteq Nat /\ \A t \in Clock : t <= MaxClock
  BY RateLimitAssumption DEF Clock

\* Refills are linear.
LEMMA RateLinear ==
    ASSUME NEW a \in Int, NEW b \in Int
    PROVE  /\ Rate * a \in Int /\ a * Rate = Rate * a
           /\ Rate * (a - b) = Rate * a - Rate * b /\ Rate * (a + b) = Rate * a + Rate * b
           /\ a <= b => Rate * a <= Rate * b
  <1>1. Rate \in Nat
    BY RateFacts
  <1> HIDE DEF Clock
  <1> QED
    BY <1>1

\* A stretch in which nothing was let through, and one that counts no more
\* than a part of it.
LEMMA StretchCount ==
    ASSUME RateInv, NEW f \in Clock, NEW l \in Clock
    PROVE  /\ AllowedIn(f, l) \in Nat
           /\ AllowedIn(f, l) > 0 => \E t \in f..l : t \in Clock /\ allowedAt[t] > 0
           /\ \A m \in f..l : (\A t \in f..l : allowedAt[t] > 0 => t <= m) => AllowedIn(f, m) = AllowedIn(f, l)
  <1>0. f..l \subseteq Clock /\ allowedAt \in [Clock -> Nat]
    BY RateFacts DEF RateInv, RateLimitTypeOK, Clock
  <1>1. IsFiniteSet(LetThrough(f, l))
    BY DEF RateInv, EveryStretch
  <1>2. AllowedIn(f, l) \in Nat
    BY <1>1, FS_CardinalityType DEF AllowedIn
  <1>3. ASSUME AllowedIn(f, l) > 0 PROVE \E t \in f..l : t \in Clock /\ allowedAt[t] > 0
    <2>1. LetThrough(f, l) # {}
      BY <1>3, FS_EmptySet DEF AllowedIn
    <2>2. PICK t \in f..l : 1..allowedAt[t] # {}
      BY <2>1 DEF LetThrough
    <2> QED
      BY <1>0, <2>2
  <1>4. ASSUME NEW m \in f..l, \A t \in f..l : allowedAt[t] > 0 => t <= m PROVE AllowedIn(f, m) = AllowedIn(f, l)
    <2>1. f \in Nat /\ l \in Nat /\ m \in Nat /\ m <= l
      BY <1>0, RateFacts
    <2>2. f..m \subseteq f..l
      BY <2>1
    <2>3. ASSUME NEW t \in f..l, t \notin f..m PROVE 1..allowedAt[t] = {}
      <3>1. t \in Int /\ ~(t <= m)
        BY <2>1, <2>3
      <3>2. allowedAt[t] \in Nat /\ ~(allowedAt[t] > 0)
        BY <1>0, <1>4, <3>1
      <3> QED
        BY <3>2
    <2>4. LetThrough(f, m) = LetThrough(f, l)
      BY <2>2, <2>3 DEF LetThrough
    <2> QED
      BY <2>4 DEF AllowedIn
  <1> QED
    BY <1>2, <1>3, <1>4

\* One more request is let through.
LEMMA StretchGrows ==
    ASSUME RateInv, NEW t \in Clock, allowedAt' = [allowedAt EXCEPT ![t] = @ + 1], NEW f \in Clock, NEW l \in Clock
    PROVE  /\ IsFiniteSet(LetThrough(f, l))' /\ AllowedIn(f, l) \in Nat
           /\ AllowedIn(f, l)' = IF t \in f..l THEN AllowedIn(f, l) + 1 ELSE AllowedIn(f, l)
  <1>0. f..l \subseteq Clock /\ allowedAt \in [Clock -> Nat]
    BY RateFacts DEF RateInv, RateLimitTypeOK, Clock
  <1>1. IsFiniteSet(LetThrough(f, l)) /\ AllowedIn(f, l) \in Nat
    BY StretchCount DEF RateInv, EveryStretch
  <1>2. \A u \in f..l : allowedAt'[u] = IF u = t THEN allowedAt[t] + 1 ELSE allowedAt[u]
    BY <1>0
  <1>3. PICK N : N = LetThrough(f, l)'
    OBVIOUS
  <1>4. N = UNION {{u} \X (1..allowedAt'[u]) : u \in f..l}
    BY <1>3 DEF LetThrough
  <1>5. ASSUME t \notin f..l PROVE N = LetThrough(f, l)
    <2>1. \A u \in f..l : allowedAt'[u] = allowedAt[u]
      BY <1>2, <1>5
    <2> QED
      BY <1>4, <2>1 DEF LetThrough
  <1>6. ASSUME t \in f..l
        PROVE  N = LetThrough(f, l) \cup {<<t, allowedAt[t] + 1>>} /\ <<t, allowedAt[t] + 1>> \notin LetThrough(f, l)
    <2>0. allowedAt[t] \in Nat
      BY <1>0
    <2>1. 1..(allowedAt[t] + 1) = (1..allowedAt[t]) \cup {allowedAt[t] + 1} /\ allowedAt[t] + 1 \notin 1..allowedAt[t]
      BY <2>0
    <2>2. \A u, i : <<u, i>> \in LetThrough(f, l) <=> u \in f..l /\ i \in 1..allowedAt[u]
      BY DEF LetThrough
    <2>3. \A u, i : <<u, i>> \in N <=> u \in f..l /\ i \in 1..allowedAt'[u]
      BY <1>4
    <2>4. \A x : x \in N \/ x \in LetThrough(f, l) => \E u, i : x = <<u, i>>
      BY <1>4 DEF LetThrough
    <2>5. \A u, i : <<u, i>> \in N <=> <<u, i>> \in LetThrough(f, l) \/ (u = t /\ i = allowedAt[t] + 1)
      BY <1>2, <1>6, <2>1, <2>2, <2>3
    <2>6. \A x : x \in N <=> x \in LetThrough(f, l) \/ x = <<t, allowedAt[t] + 1>>
      BY <2>4, <2>5
    <2> QED
      BY <2>1, <2>2, <2>6
  <1>7. IsFiniteSet(N) /\ Cardinality(N) = IF t \in f..l THEN Cardinality(LetThrough(f, l)) + 1 ELSE Cardinality(LetThrough(f, l))
    BY <1>1, <1>5, <1>6, FS_AddElement
  <1>8. AllowedIn(f, l)' = Cardinality(N) /\ (IsFiniteSet(LetThrough(f, l))' <=> IsFiniteSet(N))
    BY <1>3 DEF AllowedIn
  <1> QED
    BY <1>1, <1>7, <1>8 DEF AllowedIn

\* The bucket as a request finds it: no fuller than full, and as low as
\* everything that was let through has made it.
LEMMA ReadLevel ==
    ASSUME RateInv, NEW t \in Clock, t <= now, now <= t + MaxDelay, NEW k, k = Tokens(t)
    PROVE  /\ k \in Int /\ k <= Burst /\ 0 - Rate * MaxClock <= k - Rate * t
           /\ \A f, l \in Clock : f <= l /\ AllowedIn(f, l) > 0 => k - Rate * t <= Burst - Rate * f - AllowedIn(f, l)
  <1>0. /\ Rate \in Nat /\ Burst \in Nat /\ IdleFor \in Nat /\ MaxDelay \in Nat /\ MaxClock \in Nat /\ now \in Nat
        /\ t \in Nat /\ t <= MaxClock /\ \A f \in Clock : f \in Nat
    BY RateFacts DEF RateInv, RateLimitTypeOK
  <1>1. Rate * t \in Int /\ Rate * MaxClock \in Int /\ Rate * t <= Rate * MaxClock
    BY <1>0, RateLinear
  <1>2. ASSUME bucket = Nil
        PROVE  /\ k \in Int /\ k <= Burst /\ 0 - Rate * MaxClock <= k - Rate * t
               /\ \A f, l \in Clock : f <= l /\ AllowedIn(f, l) > 0 => k - Rate * t <= Burst - Rate * f - AllowedIn(f, l)
    <2>1. k = Burst
      BY <1>2 DEF Tokens
    <2>2. PICK x \in Int : x = now + MaxDelay - IdleFor - 1
      BY <1>0
    <2>3. \A u \in Clock : allowedAt[u] > 0 => u <= x
      <3>1. \A u \in Clock : allowedAt[u] > 0 => u + IdleFor + 1 <= now + MaxDelay
        BY <1>2 DEF RateInv, ForgottenLongAgo
      <3>2. \A u \in Clock : u + IdleFor + 1 <= now + MaxDelay => u <= x
        BY <1>0, <2>2
      <3> QED
        BY <3>1, <3>2
    <2>4. ASSUME NEW f \in Clock, NEW l \in Clock, f <= l, AllowedIn(f, l) > 0
          PROVE  k - Rate * t <= Burst - Rate * f - AllowedIn(f, l)
      <3>0. f \in Nat /\ l \in Nat
        BY <1>0
      <3>1. PICK u \in f..l : u \in Clock /\ allowedAt[u] > 0
        BY <2>4, StretchCount
      <3>2. f <= x /\ u \in Int
        BY <2>3, <3>0, <3>1
      <3>3. PICK m \in Int : m = IF l <= x THEN l ELSE x
        BY <3>0
      <3>4. m \in f..l /\ m <= x
        BY <2>4, <3>0, <3>2, <3>3
      <3>5. f..l \subseteq Clock
        BY <1>0 DEF Clock
      <3>6. ASSUME NEW v \in f..l, allowedAt[v] > 0 PROVE v <= m
        <4>1. v <= x /\ v \in Int /\ v <= l
          BY <2>3, <3>0, <3>5, <3>6
        <4> QED
          BY <3>3, <4>1
      <3>7. AllowedIn(f, m) = AllowedIn(f, l) /\ m \in Clock /\ f <= m
        BY <3>0, <3>4, <3>5, <3>6, StretchCount
      <3>8. AllowedIn(f, l) <= Burst + Rate * (m - f) /\ AllowedIn(f, l) \in Nat
        BY <3>7, StretchCount DEF RateInv, EveryStretch
      <3>9. PICK g \in Int : g = IdleFor + 1 - 2 * MaxDelay
        BY <1>0
      <3>10. m + g <= t
        BY <1>0, <2>2, <3>4, <3>9
      <3>11. /\ Rate * (m - f) = Rate * m - Rate * f /\ Rate * (m + g) = Rate * m + Rate * g /\ Rate * (m + g) <= Rate * t
             /\ g * Rate = Rate * g /\ Rate * m \in Int /\ Rate * f \in Int /\ Rate * g \in Int
        BY <1>0, <3>0, <3>10, RateLinear
      <3>12. Rate * g >= Burst
        BY <3>9, <3>11, RateFacts
      <3>13. PICK rm \in Int, rf \in Int, rt \in Int, rg \in Int : rm = Rate * m /\ rf = Rate * f /\ rt = Rate * t /\ rg = Rate * g
        BY <1>1, <3>11
      <3>14. AllowedIn(f, l) <= Burst + (rm - rf) /\ rm + rg <= rt /\ rg >= Burst
        BY <3>8, <3>11, <3>12, <3>13
      <3>15. Burst - rt <= Burst - rf - AllowedIn(f, l)
        BY <1>0, <3>8, <3>14
      <3> QED
        BY <2>1, <3>13, <3>15
    <2> QED
      BY <1>0, <1>1, <2>1, <2>4
  <1>3. ASSUME bucket # Nil
        PROVE  /\ k \in Int /\ k <= Burst /\ 0 - Rate * MaxClock <= k - Rate * t
               /\ \A f, l \in Clock : f <= l /\ AllowedIn(f, l) > 0 => k - Rate * t <= Burst - Rate * f - AllowedIn(f, l)
    <2>1. PICK have, seen : have = bucket.tokens /\ seen = bucket.lastSeen
      OBVIOUS
    <2>2. have \in Int /\ seen \in Nat
      <3>1. bucket \in Bucket
        BY <1>3 DEF RateInv, RateLimitTypeOK
      <3>2. have \in (0 - Rate * MaxClock)..Burst /\ seen \in Clock
        BY <2>1, <3>1 DEF Bucket
      <3> QED
        BY <1>0, <1>1, <3>2
    <2>3. PICK filled \in Int : filled = have + (t - seen) * Rate
      BY <1>0, <2>2
    <2>4. k = IF filled < Burst THEN filled ELSE Burst
      BY <1>3, <2>1, <2>3 DEF Tokens, Refill
    <2>5. Rate * seen \in Int /\ filled = have + Rate * t - Rate * seen
      <3>1. (t - seen) * Rate = Rate * (t - seen) /\ Rate * (t - seen) = Rate * t - Rate * seen /\ Rate * seen \in Int
        BY <1>0, <2>2, RateLinear
      <3> QED
        BY <1>1, <2>2, <2>3, <3>1
    <2>6. PICK rt \in Int, rs \in Int, rc \in Int : rt = Rate * t /\ rs = Rate * seen /\ rc = Rate * MaxClock
      BY <1>1, <2>5
    <2>7. filled - rt = have - rs /\ 0 - rc <= have - rs /\ rt <= rc
      <3>1. 0 - Rate * MaxClock <= have - Rate * seen
        BY <1>3, <2>1 DEF RateInv, BucketPays
      <3> QED
        BY <1>1, <2>2, <2>5, <2>6, <3>1
    <2>8. k \in Int /\ k <= Burst /\ k <= filled /\ 0 - rc <= k - rt
      BY <1>0, <2>2, <2>4, <2>6, <2>7
    <2>9. ASSUME NEW f \in Clock, NEW l \in Clock, f <= l, AllowedIn(f, l) > 0
          PROVE  k - Rate * t <= Burst - Rate * f - AllowedIn(f, l)
      <3>1. have - Rate * seen <= Burst - Rate * f - AllowedIn(f, l)
        BY <1>3, <2>1, <2>9 DEF RateInv, BucketPays
      <3>2. PICK rf \in Int : rf = Rate * f
        BY <1>0, RateLinear
      <3>3. AllowedIn(f, l) \in Nat
        BY StretchCount
      <3>4. have - rs <= Burst - rf - AllowedIn(f, l)
        BY <2>6, <3>1, <3>2
      <3>5. k - rt <= have - rs
        BY <2>2, <2>6, <2>7, <2>8
      <3>6. k - rt <= Burst - rf - AllowedIn(f, l)
        BY <1>0, <2>2, <2>6, <2>8, <3>2, <3>3, <3>4, <3>5
      <3> QED
        BY <2>6, <3>2, <3>6
    <2> QED
      BY <2>6, <2>8, <2>9
  <1> QED
    BY <1>2, <1>3

\* Nothing is let through.
LEMMA SameStretches ==
    ASSUME allowedAt' = allowedAt
    PROVE  \A f, l : AllowedIn(f, l)' = AllowedIn(f, l) /\ LetThrough(f, l)' = LetThrough(f, l)
  BY DEF AllowedIn, LetThrough

\* In the beginning nothing has been let through.
LEMMA RateInitInv == RateLimitInit => RateInv
  <1> SUFFICES ASSUME RateLimitInit PROVE RateInv
    OBVIOUS
  <1>0. 0 \in Clock /\ \A t \in Clock : allowedAt[t] = 0
    BY RateFacts DEF RateLimitInit, Clock
  <1>1. RateLimitTypeOK
    BY <1>0 DEF RateLimitInit, RateLimitTypeOK
  <1>2. WaitsAreShort
    BY DEF RateLimitInit, WaitsAreShort
  <1>3. BucketPays /\ ForgottenLongAgo
    BY <1>0 DEF RateLimitInit, BucketPays, ForgottenLongAgo
  <1>4. EveryStretch
    <2> SUFFICES ASSUME NEW f \in Clock, NEW l \in Clock
                 PROVE  IsFiniteSet(LetThrough(f, l)) /\ (f <= l => AllowedIn(f, l) <= Burst + Rate * (l - f))
      BY DEF EveryStretch
    <2>1. f \in Nat /\ l \in Nat /\ f..l \subseteq Clock
      BY RateFacts DEF Clock
    <2>2. \A t \in f..l : 1..allowedAt[t] = {}
      BY <1>0, <2>1
    <2>3. LetThrough(f, l) = {}
      BY <2>2 DEF LetThrough
    <2>4. IsFiniteSet(LetThrough(f, l)) /\ AllowedIn(f, l) = 0
      BY <2>3, FS_EmptySet DEF AllowedIn
    <2>5. f <= l => Rate * f <= Rate * l /\ Rate * (l - f) = Rate * l - Rate * f /\ Rate * l \in Int /\ Rate * f \in Int
      BY <2>1, RateLinear
    <2>6. f <= l => 0 <= Burst + Rate * (l - f)
      <3>1. PICK p \in Int, q \in Int : p = Rate * l /\ q = Rate * f
        BY <2>1, RateLinear
      <3> QED
        BY <2>5, <3>1, RateFacts
    <2> QED
      BY <2>4, <2>6
  <1> QED
    BY <1>1, <1>2, <1>3, <1>4 DEF RateInv

\* The clock ticks.
LEMMA RateTick == RateInv /\ ClockTicks => RateInv'
  <1> SUFFICES ASSUME RateInv, ClockTicks PROVE RateInv'
    OBVIOUS
  <1>0. /\ now \in Nat /\ MaxDelay \in Nat /\ IdleFor \in Nat /\ MaxClock \in Nat /\ now' = now + 1
        /\ bucket' = bucket /\ arrival' = arrival /\ allowedAt' = allowedAt /\ \A t \in Clock : t \in Nat
    BY RateFacts DEF RateInv, RateLimitTypeOK, ClockTicks
  <1>1. now' \in Clock
    BY <1>0 DEF ClockTicks, Clock
  <1>2. RateLimitTypeOK'
    BY <1>0, <1>1 DEF RateInv, RateLimitTypeOK
  <1>3. WaitsAreShort'
    <2> SUFFICES ASSUME NEW r \in LimitedRequests, arrival[r] # Nil
                 PROVE  arrival[r] <= now + 1 /\ now + 1 <= arrival[r] + MaxDelay
      BY <1>0 DEF WaitsAreShort
    <2>1. arrival[r] \in Clock /\ arrival[r] <= now /\ now - arrival[r] < MaxDelay
      BY DEF RateInv, RateLimitTypeOK, WaitsAreShort, ClockTicks
    <2>2. PICK a \in Nat : a = arrival[r]
      BY <1>0, <2>1
    <2> QED
      BY <1>0, <2>1, <2>2
  <1>4. BucketPays'
    <2>1. bucket # Nil => bucket.lastSeen <= now + 1
      <3> SUFFICES ASSUME bucket # Nil PROVE bucket.lastSeen <= now + 1
        OBVIOUS
      <3>1. bucket.lastSeen \in Nat /\ bucket.lastSeen <= now
        BY <1>0 DEF RateInv, RateLimitTypeOK, BucketPays, Bucket
      <3> QED
        BY <1>0, <3>1
    <2> QED
      BY <1>0, <2>1, SameStretches DEF RateInv, BucketPays
  <1>5. ForgottenLongAgo'
    <2>1. \A t \in Clock : allowedAt[t] > 0 => t <= now + 1
      BY <1>0 DEF RateInv, ForgottenLongAgo
    <2>2. bucket = Nil => \A t \in Clock : allowedAt[t] > 0 => t + IdleFor + 1 <= now + 1 + MaxDelay
      BY <1>0 DEF RateInv, ForgottenLongAgo
    <2> QED
      BY <1>0, <2>1, <2>2 DEF ForgottenLongAgo
  <1>6. EveryStretch'
    BY <1>0, SameStretches DEF RateInv, EveryStretch
  <1> QED
    BY <1>2, <1>3, <1>4, <1>5, <1>6 DEF RateInv

\* A request takes the time.
LEMMA RateArrives == \A r \in LimitedRequests : RateInv /\ Arrive(r) => RateInv'
  <1> SUFFICES ASSUME NEW r \in LimitedRequests, RateInv, Arrive(r) PROVE RateInv'
    OBVIOUS
  <1>0. /\ now \in Nat /\ now \in Clock /\ MaxDelay \in Nat /\ now' = now /\ bucket' = bucket /\ allowedAt' = allowedAt
        /\ arrival' = [arrival EXCEPT ![r] = now] /\ arrival \in [LimitedRequests -> Clock \cup {Nil}]
    BY RateFacts DEF RateInv, RateLimitTypeOK, Arrive
  <1>1. RateLimitTypeOK'
    <2>1. arrival' \in [LimitedRequests -> Clock \cup {Nil}]
      BY <1>0
    <2> QED
      BY <1>0, <2>1 DEF RateInv, RateLimitTypeOK
  <1>2. WaitsAreShort'
    <2>1. \A q \in LimitedRequests : arrival'[q] = IF q = r THEN now ELSE arrival[q]
      BY <1>0
    <2>2. now <= now /\ now <= now + MaxDelay
      BY <1>0
    <2> QED
      BY <1>0, <2>1, <2>2 DEF RateInv, WaitsAreShort
  <1>3. BucketPays' /\ ForgottenLongAgo'
    BY <1>0, SameStretches DEF RateInv, BucketPays, ForgottenLongAgo
  <1>4. EveryStretch'
    BY <1>0, SameStretches DEF RateInv, EveryStretch
  <1> QED
    BY <1>1, <1>2, <1>3, <1>4 DEF RateInv

\* An idle bucket is forgotten.
LEMMA RateSweep == RateInv /\ Sweep => RateInv'
  <1> SUFFICES ASSUME RateInv, Sweep PROVE RateInv'
    OBVIOUS
  <1>0. /\ now \in Nat /\ MaxDelay \in Nat /\ IdleFor \in Nat /\ \A t \in Clock : t \in Nat
        /\ bucket # Nil /\ bucket' = Nil /\ now' = now /\ arrival' = arrival /\ allowedAt' = allowedAt
    BY RateFacts DEF RateInv, RateLimitTypeOK, Sweep
  <1>1. RateLimitTypeOK' /\ WaitsAreShort' /\ BucketPays'
    BY <1>0 DEF RateInv, RateLimitTypeOK, WaitsAreShort, BucketPays
  <1>2. ForgottenLongAgo'
    <2>1. PICK seen \in Nat : seen = bucket.lastSeen
      BY <1>0 DEF RateInv, RateLimitTypeOK, Bucket
    <2>2. now - seen > IdleFor /\ \A t \in Clock : allowedAt[t] > 0 => t <= seen + MaxDelay
      BY <1>0, <2>1 DEF RateInv, BucketPays, Sweep
    <2>3. \A t \in Clock : allowedAt[t] > 0 => t + IdleFor + 1 <= now + MaxDelay
      BY <1>0, <2>2
    <2> QED
      BY <1>0, <2>3 DEF RateInv, ForgottenLongAgo
  <1>3. EveryStretch'
    BY <1>0, SameStretches DEF RateInv, EveryStretch
  <1> QED
    BY <1>1, <1>2, <1>3 DEF RateInv

\* A request reaches the lock.
LEMMA RateAllows == \A r \in LimitedRequests : RateInv /\ Allow(r) => RateInv'
  <1> SUFFICES ASSUME NEW r \in LimitedRequests, RateInv, Allow(r) PROVE RateInv'
    OBVIOUS
  <1>1. PICK t : t = arrival[r]
    OBVIOUS
  <1>2. PICK k : k = Tokens(t)
    OBVIOUS
  <1>3. /\ t # Nil /\ arrival' = [arrival EXCEPT ![r] = Nil] /\ now' = now
        /\ IF k >= 1 THEN bucket' = [tokens |-> k - 1, lastSeen |-> t] /\ allowedAt' = [allowedAt EXCEPT ![t] = @ + 1]
           ELSE bucket' = [tokens |-> k, lastSeen |-> t] /\ allowedAt' = allowedAt
    BY <1>1, <1>2 DEF Allow
  <1>4. /\ t \in Clock /\ t <= now /\ now <= t + MaxDelay /\ now \in Clock
        /\ arrival \in [LimitedRequests -> Clock \cup {Nil}] /\ allowedAt \in [Clock -> Nat]
    BY <1>1, <1>3 DEF RateInv, RateLimitTypeOK, WaitsAreShort
  <1>5. /\ k \in Int /\ k <= Burst /\ 0 - Rate * MaxClock <= k - Rate * t
        /\ \A f, l \in Clock : f <= l /\ AllowedIn(f, l) > 0 => k - Rate * t <= Burst - Rate * f - AllowedIn(f, l)
    BY <1>2, <1>4, ReadLevel
  <1>6. /\ Rate \in Nat /\ Burst \in Nat /\ Burst >= 1 /\ MaxDelay \in Nat /\ MaxClock \in Nat /\ now \in Nat /\ t \in Nat
        /\ t <= MaxClock /\ \A f \in Clock : f \in Nat /\ f <= MaxClock
    BY <1>4, RateFacts
  <1>7. PICK c \in Int, rt \in Int : c = Rate * MaxClock /\ rt = Rate * t
    BY <1>6, RateLinear
  <1>8. 0 <= rt /\ rt <= c
    <2>1. Rate * 0 = 0 /\ Rate * 0 <= Rate * t /\ Rate * t <= Rate * MaxClock
      BY <1>6, RateLinear
    <2> QED
      BY <1>7, <2>1
  <1>9. PICK tokensLeft \in Int, seen \in Nat : bucket' = [tokens |-> tokensLeft, lastSeen |-> seen] /\ seen = t /\ tokensLeft = IF k >= 1 THEN k - 1 ELSE k
    BY <1>3, <1>5, <1>6
  <1>10. bucket' # Nil /\ bucket'.tokens = tokensLeft /\ bucket'.lastSeen = t
    BY <1>9, RateLimitAssumption
  <1>11. tokensLeft <= Burst /\ 0 - c <= tokensLeft - rt
    <2>1. 0 - c <= k - rt
      BY <1>5, <1>7
    <2> QED
      BY <1>5, <1>6, <1>7, <1>8, <1>9, <2>1
  <1>12. arrival' \in [LimitedRequests -> Clock \cup {Nil}] /\ \A q \in LimitedRequests : arrival'[q] # Nil => arrival'[q] = arrival[q]
    BY <1>3, <1>4
  <1>13. WaitsAreShort'
    BY <1>3, <1>12 DEF RateInv, WaitsAreShort
  <1>14. bucket' \in Bucket
    <2>1. tokensLeft \in (0 - c)..Burst
      BY <1>6, <1>7, <1>8, <1>11
    <2> QED
      BY <1>4, <1>7, <1>9, <2>1 DEF Bucket
  <1>15. ASSUME k >= 1 PROVE RateInv'
    <2>1. allowedAt' = [allowedAt EXCEPT ![t] = @ + 1] /\ tokensLeft = k - 1
      BY <1>3, <1>9, <1>15
    <2>2. allowedAt' \in [Clock -> Nat] /\ \A u \in Clock : allowedAt'[u] > 0 => allowedAt[u] > 0 \/ u = t
      BY <1>4, <2>1
    <2>3. RateLimitTypeOK'
      BY <1>3, <1>4, <1>12, <1>14, <2>2 DEF RateLimitTypeOK
    <2>4. ForgottenLongAgo'
      <3>1. \A u \in Clock : allowedAt[u] > 0 => u <= now
        BY DEF RateInv, ForgottenLongAgo
      <3> QED
        BY <1>3, <1>4, <1>10, <2>2, <3>1 DEF ForgottenLongAgo
    <2>5. \A u \in Clock : allowedAt'[u] > 0 => u <= t + MaxDelay
      <3>1. \A u \in Clock : allowedAt[u] > 0 => u <= now
        BY DEF RateInv, ForgottenLongAgo
      <3> QED
        BY <1>4, <1>6, <2>2, <3>1
    <2>6. ASSUME NEW f \in Clock, NEW l \in Clock, f <= l
          PROVE  /\ IsFiniteSet(LetThrough(f, l))' /\ AllowedIn(f, l)' <= Burst + Rate * (l - f)
                 /\ AllowedIn(f, l)' > 0 => tokensLeft - Rate * t <= Burst - Rate * f - AllowedIn(f, l)'
      <3>0. f \in Nat /\ l \in Nat
        BY <1>6
      <3>1. PICK n, m : n = AllowedIn(f, l) /\ m = AllowedIn(f, l)'
        OBVIOUS
      <3>2. IsFiniteSet(LetThrough(f, l))' /\ n \in Nat /\ m = IF t \in f..l THEN n + 1 ELSE n
        BY <1>4, <2>1, <3>1, StretchGrows
      <3>3. n <= Burst + Rate * (l - f) /\ (n > 0 => k - Rate * t <= Burst - Rate * f - n)
        BY <1>5, <2>6, <3>1 DEF RateInv, EveryStretch
      <3>4. PICK rf \in Int, rl \in Int, d \in Int : rf = Rate * f /\ rl = Rate * l /\ d = Rate * (l - f) /\ d = rl - rf /\ rf <= rl
        <4>1. /\ Rate * f \in Int /\ Rate * l \in Int /\ Rate * f <= Rate * l /\ l - f \in Int
              /\ Rate * (l - f) = Rate * l - Rate * f
          BY <2>6, <3>0, RateLinear
        <4>2. PICK rf \in Int, rl \in Int : rf = Rate * f /\ rl = Rate * l
          BY <4>1
        <4> QED
          BY <4>1, <4>2
      <3>5. f <= t => rf <= rt
        BY <1>6, <1>7, <3>0, <3>4, RateLinear
      <3>6. t <= l => rt <= rl
        BY <1>6, <1>7, <3>0, <3>4, RateLinear
      <3>7. n <= Burst + d /\ (n > 0 => k - rt <= Burst - rf - n)
        BY <1>7, <3>3, <3>4
      <3>8. m <= Burst + d
        <4>1. ASSUME t \in f..l, n > 0 PROVE n + 1 <= Burst + d
          BY <1>5, <1>6, <1>7, <1>15, <3>0, <3>2, <3>4, <3>6, <3>7, <4>1
        <4>2. ASSUME t \in f..l, ~(n > 0) PROVE n + 1 <= Burst + d
          BY <1>6, <3>2, <3>4, <4>2
        <4> QED
          BY <3>2, <3>7, <4>1, <4>2
      <3>9. m > 0 => tokensLeft - rt <= Burst - rf - m
        <4>1. ASSUME n > 0 PROVE tokensLeft - rt <= Burst - rf - m
          BY <1>5, <1>6, <1>7, <2>1, <3>2, <3>4, <3>7, <4>1
        <4>2. ASSUME ~(n > 0), m > 0 PROVE tokensLeft - rt <= Burst - rf - m
          <5>1. m = 1 /\ f <= t
            BY <1>6, <3>0, <3>2, <4>2
          <5> QED
            BY <1>5, <1>6, <1>7, <2>1, <3>4, <3>5, <5>1
        <4> QED
          BY <4>1, <4>2
      <3> QED
        BY <1>7, <3>1, <3>2, <3>4, <3>8, <3>9
    <2>7. BucketPays'
      <3>1. 0 - Rate * MaxClock <= tokensLeft - Rate * t
        BY <1>7, <1>11
      <3> QED
        BY <1>3, <1>4, <1>10, <2>5, <2>6, <3>1 DEF BucketPays
    <2>8. EveryStretch'
      <3> SUFFICES ASSUME NEW f \in Clock, NEW l \in Clock
                   PROVE  IsFiniteSet(LetThrough(f, l))' /\ (f <= l => AllowedIn(f, l)' <= Burst + Rate * (l - f))
        BY DEF EveryStretch
      <3> QED
        BY <1>4, <2>1, <2>6, StretchGrows
    <2> QED
      BY <1>13, <2>3, <2>4, <2>7, <2>8 DEF RateInv
  <1>16. ASSUME ~(k >= 1) PROVE RateInv'
    <2>1. allowedAt' = allowedAt /\ tokensLeft = k
      BY <1>3, <1>9, <1>16
    <2>2. RateLimitTypeOK'
      BY <1>3, <1>4, <1>12, <1>14, <2>1 DEF RateLimitTypeOK
    <2>3. \A u \in Clock : allowedAt[u] > 0 => u <= now
      BY DEF RateInv, ForgottenLongAgo
    <2>4. ForgottenLongAgo'
      BY <1>3, <1>10, <2>1, <2>3 DEF ForgottenLongAgo
    <2>5. \A u \in Clock : allowedAt[u] > 0 => u <= t + MaxDelay
      BY <1>4, <1>6, <2>3
    <2>6. BucketPays'
      <3>1. 0 - Rate * MaxClock <= tokensLeft - Rate * t
        BY <1>7, <1>11
      <3> QED
        BY <1>3, <1>4, <1>5, <1>10, <2>1, <2>5, <3>1, SameStretches DEF BucketPays
    <2>7. EveryStretch'
      BY <2>1, SameStretches DEF RateInv, EveryStretch
    <2> QED
      BY <1>13, <2>2, <2>4, <2>6, <2>7 DEF RateInv
  <1> QED
    BY <1>15, <1>16

\* Every step of the limiter keeps the invariant.
LEMMA RateStepInv == RateInv /\ [RateLimitNext]_rateLimitVars => RateInv'
  <1> SUFFICES ASSUME RateInv, [RateLimitNext]_rateLimitVars PROVE RateInv'
    OBVIOUS
  <1>1. ASSUME UNCHANGED rateLimitVars PROVE RateInv'
    <2>1. now' = now /\ bucket' = bucket /\ arrival' = arrival /\ allowedAt' = allowedAt
      BY <1>1 DEF rateLimitVars
    <2>2. RateLimitTypeOK' /\ WaitsAreShort' /\ ForgottenLongAgo'
      BY <2>1 DEF RateInv, RateLimitTypeOK, WaitsAreShort, ForgottenLongAgo
    <2>3. BucketPays' /\ EveryStretch'
      BY <2>1, SameStretches DEF RateInv, BucketPays, EveryStretch
    <2> QED
      BY <2>2, <2>3 DEF RateInv
  <1> QED
    BY <1>1, RateTick, RateSweep, RateArrives, RateAllows DEF RateLimitNext

-----------------------------------------------------------------------------
(* The rules of templates and policies.                                    *)

\* What the last renewal under the present rules did.
RenewedAs ==
    renewed # Nil =>
        /\ held \in Held /\ renewed.from \in Keys
        /\ held.key = IF renewed.tpl THEN renewalKey(rules, renewed.from) ELSE renewed.from
        /\ renewed.pol /\ ~renewed.announced =>
              /\ policyKey(policies, held.key) /\ policyName(policies, held.name)
              /\ renewed.tpl => ~templateMismatches(rules, held.name)

RulesInv == RulesTypeOK /\ validShape(rules) /\ RenewedAs

\* The least and the greatest of some curves.
LEMMA CurvesBounded ==
    ASSUME NEW curves \in SUBSET Curves, curves # {}
    PROVE  /\ Min(curves) \in curves /\ \A c \in curves : Min(curves) <= c
           /\ Max(curves) \in curves /\ \A c \in curves : Max(curves) >= c
  <1>0. curves \subseteq {256, 384, 521}
    BY DEF Curves
  <1>s. PICK some : some \in curves
    OBVIOUS
  <1>1. \E x \in curves : \A y \in curves : x =< y
    <2>1. ASSUME 256 \in curves PROVE \A y \in curves : 256 =< y
      BY <1>0
    <2>2. ASSUME 256 \notin curves, 384 \in curves PROVE \A y \in curves : 384 =< y
      BY <1>0, <2>2
    <2>3. ASSUME 256 \notin curves, 384 \notin curves PROVE 521 \in curves /\ \A y \in curves : 521 =< y
      <3>1. \A y \in curves : y = 521
        BY <1>0, <2>3
      <3>2. \E y \in curves : y = 521
        BY <1>s, <3>1
      <3> QED
        BY <3>1, <3>2
    <2> QED
      BY <2>1, <2>2, <2>3
  <1>2. \E x \in curves : \A y \in curves : x >= y
    <2>1. ASSUME 521 \in curves PROVE \A y \in curves : 521 >= y
      BY <1>0
    <2>2. ASSUME 521 \notin curves, 384 \in curves PROVE \A y \in curves : 384 >= y
      BY <1>0, <2>2
    <2>3. ASSUME 521 \notin curves, 384 \notin curves PROVE 256 \in curves /\ \A y \in curves : 256 >= y
      <3>1. \A y \in curves : y = 256
        BY <1>0, <2>3
      <3>2. \E y \in curves : y = 256
        BY <1>s, <3>1
      <3> QED
        BY <3>1, <3>2
    <2> QED
      BY <2>1, <2>2, <2>3
  <1> QED
    BY <1>1, <1>2 DEF Min, Max

\* The greater of two sizes.
LEMMA GreaterSize ==
    ASSUME NEW a \in Nat, NEW b \in Nat
    PROVE  Max({a, b}) = IF a >= b THEN a ELSE b
  <1>1. \E x \in {a, b} : \A y \in {a, b} : x >= y
    OBVIOUS
  <1>2. Max({a, b}) \in {a, b} /\ Max({a, b}) >= a /\ Max({a, b}) >= b
    BY <1>1 DEF Max
  <1> QED
    BY <1>2

\* The type that stands for all of a template.
LEMMA FirstTypeIs ==
    ASSUME NEW r \in Ruleset, r.types # {}
    PROVE  firstKeyType(r) \in r.types /\ r.types \subseteq {"RSA", "ECDSA", "Ed25519"}
  <1>1. r.types \subseteq {"RSA", "ECDSA", "Ed25519"}
    BY DEF Ruleset
  <1>2. PICK allowed : allowed = {i \in DOMAIN KeyTypes : KeyTypes[i] \in r.types}
    OBVIOUS
  <1>3. DOMAIN KeyTypes = {1, 2, 3} /\ KeyTypes[1] = "RSA" /\ KeyTypes[2] = "ECDSA" /\ KeyTypes[3] = "Ed25519"
    BY DEF KeyTypes
  <1>4. allowed # {} /\ allowed \subseteq {1, 2, 3}
    BY <1>1, <1>2, <1>3
  <1>5. \E x \in allowed : \A y \in allowed : x =< y
    <2>1. ASSUME 1 \in allowed PROVE \A y \in allowed : 1 =< y
      BY <1>4
    <2>2. ASSUME 1 \notin allowed, 2 \in allowed PROVE \A y \in allowed : 2 =< y
      BY <1>4, <2>2
    <2>3. ASSUME 1 \notin allowed, 2 \notin allowed PROVE 3 \in allowed /\ \A y \in allowed : 3 =< y
      <3>1. \A y \in allowed : y = 3
        BY <1>4, <2>3
      <3>2. \E y \in allowed : y = 3
        BY <1>4, <3>1
      <3> QED
        BY <3>1, <3>2
    <2> QED
      BY <2>1, <2>2, <2>3
  <1>6. Min(allowed) \in allowed
    BY <1>5 DEF Min
  <1>7. firstKeyType(r) = KeyTypes[Min(allowed)]
    BY <1>2, <1>4 DEF firstKeyType
  <1> QED
    BY <1>1, <1>2, <1>6, <1>7

\* The key of a renewal is one of the template's types, and permitted but for
\* the greatest size; one that is permitted stays, and an RSA key is not
\* shortened.
LEMMA RenewalKeyIs ==
    ASSUME NEW r \in Rulesets, r.types # {}, NEW k \in Keys, NEW new, new = renewalKey(r, k)
    PROVE  /\ new \in Keys /\ checkKey([r EXCEPT !.rsaMax = 0], new)
           /\ checkKey(r, k) => new = k
           /\ k.type = "RSA" /\ new.type = "RSA" => new.size >= k.size
  <1>1. r \in Ruleset /\ (r.curves = {} => "ECDSA" \notin r.types)
    BY IssuanceRulesAssumption
  <1>2. /\ r.types \subseteq {"RSA", "ECDSA", "Ed25519"} /\ r.rsaMin \in {0, 1024, 2048, 4096, 8192} /\ r.curves \in SUBSET Curves
        /\ firstKeyType(r) \in r.types
    BY <1>1, FirstTypeIs DEF Ruleset, RSABits
  <1>3. PICK base : base = ReplacedKey(r, k)
    OBVIOUS
  <1>4. base = IF k.type \in r.types THEN k ELSE [type |-> firstKeyType(r), size |-> 0]
    BY <1>3 DEF ReplacedKey
  <1>5. PICK size : size = raisedSize(r, base)
    OBVIOUS
  <1>6. new = [type |-> base.type, size |-> size]
    BY <1>3, <1>5 DEF renewalKey
  <1>7. /\ k.type \in {"RSA", "ECDSA", "Ed25519"} /\ k = [type |-> k.type, size |-> k.size]
        /\ k.type = "RSA" => k.size \in {1024, 2048, 4096, 8192}
        /\ k.type = "ECDSA" => k.size \in {256, 384, 521}
        /\ k.type = "Ed25519" => k.size = 256
    BY DEF Keys, RSABits, Curves
  <1>8. /\ base.type \in r.types /\ (k.type \in r.types => base = k) /\ (k.type \notin r.types => base.size = 0)
    BY <1>2, <1>4
  <1>9. [r EXCEPT !.rsaMax = 0].types = r.types /\ [r EXCEPT !.rsaMax = 0].rsaMin = r.rsaMin
        /\ [r EXCEPT !.rsaMax = 0].rsaMax = 0 /\ [r EXCEPT !.rsaMax = 0].curves = r.curves
    BY <1>1 DEF Ruleset
  <1>10. ASSUME base.type = "RSA"
         PROVE  /\ new \in Keys /\ checkKey([r EXCEPT !.rsaMax = 0], new) /\ (checkKey(r, k) => new = k)
                /\ k.type = "RSA" /\ new.type = "RSA" => new.size >= k.size
    <2>1. base.size \in {0, 1024, 2048, 4096, 8192}
      BY <1>7, <1>8, <1>10
    <2>2. PICK most : most = Max({base.size, r.rsaMin})
      OBVIOUS
    <2>3. most = IF base.size >= r.rsaMin THEN base.size ELSE r.rsaMin
      BY <1>2, <2>1, <2>2, GreaterSize
    <2>4. size = IF most > 0 THEN most ELSE 2048
      BY <1>5, <1>10, <2>2 DEF raisedSize
    <2>5. size \in {1024, 2048, 4096, 8192} /\ size >= r.rsaMin /\ size >= base.size
      BY <1>2, <2>1, <2>3, <2>4
    <2>6. new.type = "RSA" /\ new.size = size /\ new \in Keys
      BY <1>6, <1>10, <2>5 DEF Keys, RSABits
    <2>7. checkKey([r EXCEPT !.rsaMax = 0], new)
      BY <1>8, <1>9, <1>10, <2>5, <2>6 DEF checkKey
    <2>8. k.type = "RSA" => base = k
      BY <1>2, <1>8, <1>10, FirstTypeIs
    <2>9. ASSUME checkKey(r, k) PROVE new = k
      <3>1. k.type \in r.types /\ base = k
        BY <1>8, <2>9 DEF checkKey
      <3>2. r.rsaMin > 0 => k.size >= r.rsaMin
        BY <1>10, <2>9, <3>1 DEF checkKey
      <3>3. size = k.size
        BY <1>2, <1>7, <1>10, <2>3, <2>4, <3>1, <3>2
      <3> QED
        BY <1>6, <1>7, <3>1, <3>3
    <2> QED
      BY <2>5, <2>6, <2>7, <2>8, <2>9
  <1>11. ASSUME base.type = "ECDSA"
         PROVE  /\ new \in Keys /\ checkKey([r EXCEPT !.rsaMax = 0], new) /\ (checkKey(r, k) => new = k)
                /\ k.type = "RSA" /\ new.type = "RSA" => new.size >= k.size
    <2>1. r.curves # {} /\ Min(r.curves) \in r.curves
      BY <1>1, <1>2, <1>8, <1>11, CurvesBounded
    <2>2. size = IF base.size \in r.curves THEN base.size ELSE Min(r.curves)
      BY <1>5, <1>11, <2>1 DEF raisedSize, weakestCurve
    <2>3. size \in r.curves /\ size \in Curves
      BY <1>2, <2>1, <2>2
    <2>4. new.type = "ECDSA" /\ new.size = size /\ new \in Keys
      BY <1>6, <1>11, <2>3 DEF Keys
    <2>5. checkKey([r EXCEPT !.rsaMax = 0], new)
      BY <1>8, <1>9, <1>11, <2>3, <2>4 DEF checkKey
    <2>6. ASSUME checkKey(r, k) PROVE new = k
      <3>1. k.type \in r.types /\ base = k
        BY <1>8, <2>6 DEF checkKey
      <3>2. k.size \in r.curves
        BY <1>11, <2>1, <2>6, <3>1 DEF checkKey
      <3> QED
        BY <1>6, <1>7, <2>2, <3>1, <3>2
    <2> QED
      BY <2>4, <2>5, <2>6
  <1>12. ASSUME base.type = "Ed25519"
         PROVE  /\ new \in Keys /\ checkKey([r EXCEPT !.rsaMax = 0], new) /\ (checkKey(r, k) => new = k)
                /\ k.type = "RSA" /\ new.type = "RSA" => new.size >= k.size
    <2>1. base.size \in {0, 256}
      BY <1>7, <1>8, <1>12
    <2>2. size = 256
      BY <1>5, <1>12, <2>1 DEF raisedSize
    <2>3. new.type = "Ed25519" /\ new.size = 256 /\ new \in Keys
      BY <1>6, <1>12, <2>2 DEF Keys
    <2>4. checkKey([r EXCEPT !.rsaMax = 0], new)
      BY <1>8, <1>9, <1>12, <2>3 DEF checkKey
    <2>5. ASSUME checkKey(r, k) PROVE new = k
      <3>1. base = k
        BY <1>8, <2>5 DEF checkKey
      <3> QED
        BY <1>6, <1>7, <1>12, <2>2, <3>1
    <2> QED
      BY <2>3, <2>4, <2>5
  <1> QED
    BY <1>2, <1>8, <1>10, <1>11, <1>12

\* A probe is the strongest key of its type that the template permits.
LEMMA ProbeIs ==
    ASSUME NEW r \in Ruleset, validShape(r), NEW p \in PolicySet
    PROVE  (\E k \in templateProbes(r) : policyKey(p, k)) <=> \E k \in Keys : checkKey(r, k) /\ policyKey(p, k)
  <1>1. /\ r.types \subseteq {"RSA", "ECDSA", "Ed25519"} /\ r.curves \in SUBSET Curves
        /\ r.rsaMin \in {0, 1024, 2048, 4096, 8192} /\ r.rsaMax \in {0, 1024, 2048, 4096, 8192}
    BY DEF Ruleset, RSABits
  <1>2. p.rsaMin \in {0, 1024, 2048, 4096, 8192} /\ p.ecdsaMin \in {0, 256, 384, 521}
    BY DEF PolicySet, RSABits, Curves
  <1>3. PICK strongest : strongest = strongestCurve(r.curves)
    OBVIOUS
  <1>4. strongest \in {256, 384, 521} /\ (r.curves # {} => strongest \in r.curves) /\ \A c \in r.curves : strongest >= c
    <2>1. CASE r.curves = {}
      BY <1>3, <2>1 DEF strongestCurve
    <2>2. CASE r.curves # {}
      <3>1. strongest = Max(r.curves)
        BY <1>3, <2>2 DEF strongestCurve
      <3>2. Max(r.curves) \in r.curves /\ \A c \in r.curves : Max(r.curves) >= c
        BY <1>1, <2>2, CurvesBounded
      <3> QED
        BY <1>1, <3>1, <3>2 DEF Curves
    <2> QED
      BY <2>1, <2>2
  <1>5. PICK most : most = IF r.rsaMax = 0 THEN 8192 ELSE r.rsaMax
    OBVIOUS
  <1>6. most \in {1024, 2048, 4096, 8192} /\ most >= r.rsaMin /\ (r.rsaMax > 0 => most = r.rsaMax)
    BY <1>1, <1>5 DEF validShape
  <1>7. \A k : k \in templateProbes(r) <=>
            \/ "RSA" \in r.types /\ k = [type |-> "RSA", size |-> most]
            \/ "ECDSA" \in r.types /\ k = [type |-> "ECDSA", size |-> strongest]
            \/ "Ed25519" \in r.types /\ k = [type |-> "Ed25519", size |-> 256]
    <2>1. PICK probe : probe = [t \in r.types |->
              CASE t = "RSA" -> [type |-> t, size |-> IF r.rsaMax = 0 THEN 8192 ELSE r.rsaMax]
                [] t = "ECDSA" -> [type |-> t, size |-> strongestCurve(r.curves)]
                [] OTHER -> [type |-> t, size |-> 256]]
      OBVIOUS
    <2>2. \A k : k \in templateProbes(r) <=> \E t \in r.types : k = probe[t]
      BY <2>1 DEF templateProbes
    <2>3. "RSA" \in r.types => probe["RSA"] = [type |-> "RSA", size |-> most]
      BY <1>5, <2>1
    <2>4. "ECDSA" \in r.types => probe["ECDSA"] = [type |-> "ECDSA", size |-> strongest]
      BY <1>3, <2>1
    <2>5. "Ed25519" \in r.types => probe["Ed25519"] = [type |-> "Ed25519", size |-> 256]
      BY <2>1
    <2> QED
      BY <1>1, <2>2, <2>3, <2>4, <2>5
  <1>8. ASSUME NEW k \in templateProbes(r), policyKey(p, k) PROVE k \in Keys /\ checkKey(r, k)
    <2>1. ASSUME "RSA" \in r.types, k = [type |-> "RSA", size |-> most] PROVE k \in Keys /\ checkKey(r, k)
      BY <1>6, <2>1 DEF Keys, RSABits, checkKey
    <2>2. ASSUME "ECDSA" \in r.types, k = [type |-> "ECDSA", size |-> strongest] PROVE k \in Keys /\ checkKey(r, k)
      BY <1>4, <2>2 DEF Keys, Curves, checkKey
    <2>3. ASSUME "Ed25519" \in r.types, k = [type |-> "Ed25519", size |-> 256] PROVE k \in Keys /\ checkKey(r, k)
      BY <2>3 DEF Keys, checkKey
    <2> QED
      BY <1>7, <2>1, <2>2, <2>3
  <1>9. ASSUME NEW k \in Keys, checkKey(r, k), policyKey(p, k) PROVE \E q \in templateProbes(r) : policyKey(p, q)
    <2>0. k.type \in r.types /\ k.type \notin p.forbidden
      BY <1>9 DEF checkKey, policyKey
    <2>1. ASSUME k.type = "RSA" PROVE policyKey(p, [type |-> "RSA", size |-> most]) /\ [type |-> "RSA", size |-> most] \in templateProbes(r)
      <3>1. k.size \in {1024, 2048, 4096, 8192} /\ k.size >= p.rsaMin /\ (r.rsaMax > 0 => k.size <= r.rsaMax)
        BY <1>9, <2>1 DEF Keys, RSABits, policyKey, checkKey
      <3>2. most >= p.rsaMin
        BY <1>1, <1>2, <1>5, <3>1
      <3>3. policyKey(p, [type |-> "RSA", size |-> most])
        BY <2>0, <2>1, <3>2 DEF policyKey
      <3> QED
        BY <1>7, <2>0, <2>1, <3>3
    <2>2. ASSUME k.type = "ECDSA"
          PROVE  policyKey(p, [type |-> "ECDSA", size |-> strongest]) /\ [type |-> "ECDSA", size |-> strongest] \in templateProbes(r)
      <3>1. k.size \in {256, 384, 521} /\ k.size >= p.ecdsaMin /\ (r.curves = {} \/ k.size \in r.curves)
        BY <1>9, <2>2 DEF Keys, Curves, policyKey, checkKey
      <3>2. r.curves = {} => strongest = 521
        BY <1>3 DEF strongestCurve
      <3>3. strongest >= p.ecdsaMin
        BY <1>2, <1>4, <3>1, <3>2
      <3>4. policyKey(p, [type |-> "ECDSA", size |-> strongest])
        BY <2>0, <2>2, <3>3 DEF policyKey
      <3> QED
        BY <1>7, <2>0, <2>2, <3>4
    <2>3. ASSUME k.type = "Ed25519"
          PROVE  policyKey(p, [type |-> "Ed25519", size |-> 256]) /\ [type |-> "Ed25519", size |-> 256] \in templateProbes(r)
      BY <1>7, <2>0, <2>3 DEF policyKey
    <2> QED
      BY <1>1, <2>0, <2>1, <2>2, <2>3
  <1> QED
    BY <1>8, <1>9

\* The key of a request that names none.
LEMMA DefaultIs ==
    ASSUME NEW r \in Rulesets, validShape(r), "RSA" \in r.types /\ r.rsaMin = 0 /\ r.rsaMax > 0 => r.rsaMax >= 2048
    PROVE  checkKey(r, defaultKey(r))
  <1>1. r \in Ruleset /\ (r.curves = {} => "ECDSA" \notin r.types) /\ r.types # {}
    BY IssuanceRulesAssumption DEF validShape
  <1>2. PICK t : t = firstKeyType(r)
    OBVIOUS
  <1>3. t \in r.types /\ t \in {"RSA", "ECDSA", "Ed25519"}
    BY <1>1, <1>2, FirstTypeIs
  <1>4. PICK size : size = defaultKeySize(r, t)
    OBVIOUS
  <1>5. defaultKey(r) = [type |-> t, size |-> size]
    BY <1>2, <1>4 DEF defaultKey
  <1>6. r.rsaMin \in {0, 1024, 2048, 4096, 8192} /\ r.rsaMax \in {0, 1024, 2048, 4096, 8192} /\ r.curves \in SUBSET Curves
    BY <1>1 DEF Ruleset, RSABits
  <1>7. CASE t = "RSA"
    <2>1. size = IF r.rsaMin > 0 THEN r.rsaMin ELSE 2048
      BY <1>4, <1>7 DEF defaultKeySize
    <2>2. (r.rsaMin > 0 => size >= r.rsaMin) /\ (r.rsaMax > 0 => size <= r.rsaMax)
      BY <1>3, <1>6, <1>7, <2>1 DEF validShape
    <2> QED
      BY <1>3, <1>5, <1>7, <2>2 DEF checkKey
  <1>8. CASE t = "ECDSA"
    <2>1. r.curves # {} /\ Min(r.curves) \in r.curves
      BY <1>1, <1>3, <1>6, <1>8, CurvesBounded
    <2>2. weakestCurve(r.curves) = Min(r.curves) /\ Min(r.curves) > 0
      BY <1>6, <2>1 DEF weakestCurve, Curves
    <2>3. size \in r.curves
      BY <1>4, <1>8, <2>1, <2>2 DEF defaultKeySize
    <2> QED
      BY <1>3, <1>5, <1>8, <2>3 DEF checkKey
  <1>9. CASE t = "Ed25519"
    BY <1>3, <1>5, <1>9 DEF checkKey
  <1> QED
    BY <1>3, <1>7, <1>8, <1>9

\* What the invariant says of the properties.
LEMMA RulesSay == RulesInv => RulesTypeOK /\ ProbesDecide /\ DefaultIsPermitted /\ NoGratuitousChange /\ RenewedConforms
  <1> SUFFICES ASSUME RulesInv PROVE ProbesDecide /\ DefaultIsPermitted /\ NoGratuitousChange /\ RenewedConforms
    BY DEF RulesInv
  <1>0. /\ rules \in Rulesets /\ rules \in Ruleset /\ policies \in PolicySet /\ validShape(rules) /\ rules.types # {}
    BY IssuanceRulesAssumption DEF RulesInv, RulesTypeOK, validShape
  <1>1. ProbesDecide
    <2>1. (\E k \in templateProbes(rules) : policyKey(policies, k)) <=> \E k \in Keys : checkKey(rules, k) /\ policyKey(policies, k)
      BY <1>0, ProbeIs
    <2>2. CouldIssue(rules, policies) <=>
              /\ \E k \in templateProbes(rules) : policyKey(policies, k)
              /\ rules.suffixes > 0 => policyName(policies, "first")
      BY DEF CouldIssue
    <2>3. \A k \in Keys, n \in Names :
              Permitted(rules, policies, k, n) => checkKey(rules, k) /\ policyKey(policies, k)
      BY DEF Permitted
    <2>4. ASSUME CouldIssue(rules, policies), rules.suffixes = 0 => ~(PlainNames \subseteq policies.names)
          PROVE  \E k \in Keys, n \in Names : Permitted(rules, policies, k, n)
      <3>1. PICK k \in Keys : checkKey(rules, k) /\ policyKey(policies, k)
        BY <2>1, <2>2, <2>4
      <3>2. \E n \in Names : checkNames(rules, n) /\ policyName(policies, n)
        <4>1. CASE rules.suffixes = 0
          <5>1. PICK n \in PlainNames : n \notin policies.names
            BY <2>4, <4>1
          <5>2. n \in Names /\ checkNames(rules, n) /\ policyName(policies, n)
            BY <4>1, <5>1 DEF PlainNames, Names, checkNames, policyName
          <5> QED
            BY <5>2
        <4>2. CASE rules.suffixes # 0
          <5>1. rules.suffixes > 0
            BY <1>0, <4>2 DEF Ruleset
          <5>2. "first" \in Names /\ checkNames(rules, "first") /\ policyName(policies, "first")
            BY <2>2, <2>4, <5>1 DEF PlainNames, Names, checkNames
          <5> QED
            BY <5>2
        <4> QED
          BY <4>1, <4>2
      <3> QED
        BY <3>1, <3>2 DEF Permitted
    <2> QED
      BY <2>1, <2>2, <2>3, <2>4 DEF ProbesDecide
  <1>2. DefaultIsPermitted
    BY <1>0, DefaultIs DEF DefaultIsPermitted
  <1>3. NoGratuitousChange
    <2> SUFFICES ASSUME renewed # Nil
                 PROVE  /\ checkKey(rules, renewed.from) => held.key = renewed.from
                        /\ renewed.from.type = "RSA" /\ held.key.type = "RSA" => held.key.size >= renewed.from.size
      BY DEF NoGratuitousChange
    <2>1. /\ renewed.from \in Keys
          /\ held.key = IF renewed.tpl THEN renewalKey(rules, renewed.from) ELSE renewed.from
      BY DEF RulesInv, RenewedAs
    <2>2. renewed.from.type = "RSA" => renewed.from.size \in Nat
      BY <2>1 DEF Keys, RSABits, Curves
    <2>3. CASE renewed.tpl
      BY <1>0, <2>1, <2>3, RenewalKeyIs
    <2>4. CASE ~renewed.tpl
      BY <2>1, <2>2, <2>4
    <2> QED
      BY <2>3, <2>4
  <1>4. RenewedConforms
    <2> SUFFICES ASSUME renewed # Nil
                 PROVE  /\ renewed.tpl => checkKey([rules EXCEPT !.rsaMax = 0], held.key)
                        /\ renewed.pol /\ ~renewed.announced =>
                              policyKey(policies, held.key) /\ policyName(policies, held.name)
                        /\ renewed.tpl /\ renewed.pol /\ ~renewed.announced /\ held.name # "forbidden" =>
                              checkNames(rules, held.name)
      BY DEF RenewedConforms
    <2>1. /\ held \in Held /\ renewed.from \in Keys
          /\ renewed.tpl => held.key = renewalKey(rules, renewed.from)
          /\ renewed.pol /\ ~renewed.announced =>
                /\ policyKey(policies, held.key) /\ policyName(policies, held.name)
                /\ renewed.tpl => ~templateMismatches(rules, held.name)
      BY DEF RulesInv, RenewedAs
    <2>2. renewed.tpl => checkKey([rules EXCEPT !.rsaMax = 0], held.key)
      BY <1>0, <2>1, RenewalKeyIs
    <2>3. ~templateMismatches(rules, held.name) /\ held.name # "forbidden" => checkNames(rules, held.name)
      BY <1>0 DEF checkNames, templateMismatches, Ruleset
    <2> QED
      BY <2>1, <2>2, <2>3
  <1> QED
    BY <1>1, <1>2, <1>3, <1>4

\* In the beginning nothing has been renewed.
LEMMA RulesInitInv == RulesInit => RulesInv
  <1> SUFFICES ASSUME RulesInit PROVE RulesInv
    OBVIOUS
  <1>1. RulesTypeOK
    BY IssuanceRulesAssumption DEF RulesInit, RulesTypeOK
  <1> QED
    BY <1>1 DEF RulesInit, RulesInv, RenewedAs

\* Every step keeps the invariant.
LEMMA RulesStepInv == RulesInv /\ [RulesNext]_rulesVars => RulesInv'
  <1> SUFFICES ASSUME RulesInv, [RulesNext]_rulesVars PROVE RulesInv'
    OBVIOUS
  <1>1. ASSUME rules' \in Rulesets, validShape(rules)', policies' \in Policies, held' \in Held \cup {Nil}, renewed' = Nil
        PROVE  RulesInv'
    BY <1>1 DEF RulesInv, RulesTypeOK, RenewedAs
  <1>2. ASSUME NEW r \in Rulesets, SaveTemplate(r) PROVE RulesInv'
    BY <1>1, <1>2 DEF SaveTemplate, RulesInv, RulesTypeOK
  <1>3. ASSUME NEW p \in Policies, ChangePolicies(p) PROVE RulesInv'
    BY <1>1, <1>3 DEF ChangePolicies, RulesInv, RulesTypeOK, validShape
  <1>4. ASSUME NEW k \in Keys, NEW n \in Names, RequestCertificate(k, n) PROVE RulesInv'
    <2>1. [key |-> k, name |-> n] \in Held
      BY DEF Held
    <2> QED
      BY <1>1, <1>4, <2>1 DEF RequestCertificate, RulesInv, RulesTypeOK, validShape
  <1>5. ASSUME DeleteHeld PROVE RulesInv'
    BY <1>1, <1>5 DEF DeleteHeld, RulesInv, RulesTypeOK, validShape
  <1>6. ASSUME Renew PROVE RulesInv'
    <2> DEFINE key(tpl) == IF tpl THEN renewalKey(rules, held.key) ELSE held.key
               drift(tpl, pol) == \/ tpl /\ templateMismatches(rules, held.name)
                                  \/ pol /\ (~policyKey(policies, key(tpl)) \/ ~policyName(policies, held.name))
    <2>0. PICK tpl, pol \in BOOLEAN :
              /\ held # Nil /\ held' = [held EXCEPT !.key = key(tpl)]
              /\ renewed' = [from |-> held.key, tpl |-> tpl, pol |-> pol, announced |-> pol /\ drift(tpl, pol)]
              /\ rules' = rules /\ policies' = policies
      BY <1>6 DEF Renew
    <2>1. PICK k : k = key(tpl)
      OBVIOUS
    <2>2. PICK told : told = (pol /\ drift(tpl, pol))
      OBVIOUS
    <2>3. /\ held # Nil /\ held' = [held EXCEPT !.key = k]
          /\ renewed' = [from |-> held.key, tpl |-> tpl, pol |-> pol, announced |-> told]
          /\ rules' = rules /\ policies' = policies
      BY <2>0, <2>1, <2>2
    <2>4. /\ held \in Held /\ held.key \in Keys /\ rules \in Rulesets /\ rules.types # {} /\ validShape(rules) /\ policies \in Policies
      BY <2>3 DEF RulesInv, RulesTypeOK, Held, validShape
    <2>5. k \in Keys
      BY <2>1, <2>4, RenewalKeyIs
    <2>6. held' \in Held /\ held'.key = k /\ held'.name = held.name
      BY <2>3, <2>4, <2>5 DEF Held
    <2>7. told \in BOOLEAN
      BY <2>2
    <2>8. /\ renewed'.from = held.key /\ renewed'.announced = told /\ renewed'.tpl = tpl /\ renewed'.pol = pol
          /\ renewed' \in [from : Keys, tpl : BOOLEAN, pol : BOOLEAN, announced : BOOLEAN]
      BY <2>3, <2>4, <2>7
    <2>12. pol /\ ~told => /\ policyKey(policies, k) /\ policyName(policies, held.name)
                           /\ tpl => ~templateMismatches(rules, held.name)
      BY <2>1, <2>2
    <2>9. RulesTypeOK'
      BY <2>3, <2>4, <2>6, <2>8 DEF RulesTypeOK
    <2>10. RenewedAs'
      BY <2>1, <2>3, <2>4, <2>6, <2>8, <2>12 DEF RenewedAs
    <2>11. validShape(rules)'
      BY <2>3, <2>4 DEF validShape
    <2> QED
      BY <2>9, <2>10, <2>11 DEF RulesInv
  <1>7. ASSUME UNCHANGED rulesVars PROVE RulesInv'
    BY <1>7 DEF rulesVars, RulesInv, RulesTypeOK, RenewedAs, validShape
  <1> QED
    BY <1>2, <1>3, <1>4, <1>5, <1>6, <1>7 DEF RulesNext

-----------------------------------------------------------------------------
(* The versions of a template.                                             *)

\* The edits made so far, of which each may count the version on once.
Begun == {e \in Edits : editing[e].at # "none"}

VersionsCounted ==
    /\ template.version <= 1 + Cardinality(Begun)
    /\ \A e \in Edits : editing[e].at = "validate" => editing[e].row.version <= 1 + Cardinality(Begun)

\* A renewal in flight is one of a certificate, a request was put under a template.
AsksKnown == issuing # Nil => IF issuing.first THEN issuing.template.exists ELSE certRow # Nil

\* A version and rules that a certificate was or may yet be issued under.
CurrentVersion == IF template.exists THEN {<<template.version, template.rules>>} ELSE {}
PendingVersion == IF issuing # Nil /\ issuing.template.exists THEN {<<issuing.template.version, issuing.template.rules>>} ELSE {}
Circulating == issuedUnder \cup CurrentVersion \cup PendingVersion

\* Without overlap an edit counts on from the row, whose version is the
\* highest, or leaves version and rules alone.
VersionsNamed ==
    ~overlapped =>
        /\ \A p, q \in Circulating : p[1] = q[1] => p[2] = q[2]
        /\ template.exists => \A p \in Circulating : p[1] <= template.version
        /\ \A e, f \in Edits : editing[e].at = "validate" /\ editing[f].at = "validate" => e = f
        /\ \A e \in Edits : editing[e].at = "validate" /\ template.exists =>
              /\ editing[e].row.exists
              /\ \/ editing[e].row.version = template.version /\ editing[e].row.rules = template.rules
                 \/ editing[e].row.version = template.version + 1

TemplatesInv == TemplatesTypeOK /\ VersionsCounted /\ AsksKnown /\ VersionsNamed

\* What the invariant says of the properties.
LEMMA TemplatesSay == TemplatesInv => TemplatesTypeOK /\ VersionNamesRules
  BY DEF TemplatesInv, VersionsNamed, Circulating, VersionNamesRules

\* The edits can be counted.
LEMMA BegunCounted ==
    /\ IsFiniteSet(Begun) /\ Cardinality(Begun) \in Nat /\ Cardinality(Begun) <= Cardinality(Edits)
    /\ Cardinality(Edits) \in Nat /\ IsFiniteSet(Edits)
  <1>1. Begun \subseteq Edits
    BY DEF Begun
  <1> QED
    BY <1>1, TemplateVersionsAssumption, FS_Subset, FS_CardinalityType

\* The row that stands for none.
LEMMA NoTemplateTyped ==
    /\ NoTemplate \in Template /\ ~NoTemplate.exists /\ NoTemplate.version = 0
    /\ [at |-> "none", row |-> NoTemplate] \in EditState /\ [at |-> "ended", row |-> NoTemplate] \in EditState
  <1>1. PICK r : r = (CHOOSE x \in Rules : TRUE)
    OBVIOUS
  <1>2. PICK s : s \in Shapes
    BY TemplateVersionsAssumption
  <1>3. [shape |-> s, conformance |-> "REPORT"] \in Rules
    BY <1>2 DEF Rules
  <1>4. r \in Rules
    BY <1>1, <1>3
  <1>5. NoTemplate = [exists |-> FALSE, version |-> 0, rules |-> r]
    BY <1>1 DEF NoTemplate
  <1>6. 0 \in Versions
    BY BegunCounted DEF Versions
  <1>7. NoTemplate \in Template /\ ~NoTemplate.exists /\ NoTemplate.version = 0
    BY <1>4, <1>5, <1>6 DEF Template
  <1> QED
    BY <1>7 DEF EditState

\* In the beginning there is one version.
LEMMA TemplatesInitInv == TemplatesInit => TemplatesInv
  <1> SUFFICES ASSUME TemplatesInit PROVE TemplatesInv
    OBVIOUS
  <1>1. PICK r \in Rules : template = [exists |-> TRUE, version |-> 1, rules |-> r]
    BY DEF TemplatesInit
  <1>2. 1 \in Versions
    BY BegunCounted DEF Versions
  <1>3. template \in Template /\ template.version = 1
    BY <1>1, <1>2 DEF Template
  <1>4. editing \in [Edits -> EditState] /\ \A e \in Edits : editing[e].at = "none"
    BY NoTemplateTyped DEF TemplatesInit
  <1>5. TemplatesTypeOK
    <2>1. asked \in 0 .. MaxIssued
      BY TemplateVersionsAssumption DEF TemplatesInit
    <2>2. overlapped \in BOOLEAN /\ certRow = Nil /\ issuing = Nil /\ issuedUnder = {}
      BY DEF TemplatesInit
    <2> QED
      BY <1>3, <1>4, <2>1, <2>2 DEF TemplatesTypeOK
  <1>6. VersionsCounted
    BY <1>3, <1>4, BegunCounted DEF VersionsCounted
  <1>7. AsksKnown
    BY DEF TemplatesInit, AsksKnown
  <1>8. Circulating \subseteq {<<template.version, template.rules>>}
    BY DEF TemplatesInit, Circulating, CurrentVersion, PendingVersion
  <1>9. VersionsNamed
    BY <1>3, <1>4, <1>8 DEF VersionsNamed
  <1> QED
    BY <1>5, <1>6, <1>7, <1>9 DEF TemplatesInv

\* A step that edits nothing and moves what circulates at most.
LEMMA NothingEdited ==
    ASSUME TemplatesInv, TemplatesTypeOK', template' = template, editing' = editing, overlapped' = overlapped, AsksKnown',
           Circulating' \subseteq Circulating
    PROVE  TemplatesInv'
  <1>1. Begun' = Begun
    BY DEF Begun
  <1>2. VersionsCounted'
    BY <1>1 DEF TemplatesInv, VersionsCounted
  <1>3. VersionsNamed'
    <2>1. PICK C : C = Circulating'
      OBVIOUS
    <2>2. C \subseteq Circulating
      BY <2>1
    <2> QED
      BY <2>1, <2>2 DEF TemplatesInv, VersionsNamed
  <1> QED
    BY <1>2, <1>3 DEF TemplatesInv

\* A request or a renewal asks.
LEMMA TemplatesAsk == TemplatesInv /\ (Ask \/ AskAgain) => TemplatesInv'
  <1> SUFFICES ASSUME TemplatesInv, Ask \/ AskAgain PROVE TemplatesInv'
    OBVIOUS
  <1>1. PICK first \in BOOLEAN :
            /\ issuing' = [first |-> first, template |-> template] /\ asked' = asked + 1 /\ asked < MaxIssued
            /\ (first => template.exists) /\ (~first => certRow # Nil)
            /\ template' = template /\ editing' = editing /\ certRow' = certRow /\ overlapped' = overlapped /\ issuedUnder' = issuedUnder
    BY DEF Ask, AskAgain
  <1>2. issuing'.first = first /\ issuing'.template = template /\ issuing' \in Asking
    BY <1>1 DEF TemplatesInv, TemplatesTypeOK, Asking
  <1>3. TemplatesTypeOK'
    BY <1>1, <1>2, TemplateVersionsAssumption DEF TemplatesInv, TemplatesTypeOK
  <1>4. AsksKnown'
    BY <1>1, <1>2 DEF AsksKnown
  <1>5. Circulating' \subseteq Circulating
    BY <1>1, <1>2 DEF Circulating, CurrentVersion, PendingVersion
  <1> QED
    BY <1>1, <1>3, <1>4, <1>5, NothingEdited

\* The answer is recorded, or there is none.
LEMMA TemplatesAnswered == TemplatesInv /\ (NotIssued \/ AskDies \/ \E found \in Findings : Issued(found)) => TemplatesInv'
  <1>0. ASSUME TemplatesInv, issuing # Nil
        PROVE  /\ issuing \in Asking /\ issuing.template \in Template /\ (certRow # Nil => certRow \in Recorded)
               /\ ~issuing.first => certRow \in Recorded
               /\ ~issuing.template.exists => certRow \in Recorded
               /\ issuing.template.version \in Versions /\ issuing.template.rules \in Rules
    BY <1>0 DEF TemplatesInv, TemplatesTypeOK, AsksKnown, Asking, Template
  <1>1. ASSUME TemplatesInv, issuing # Nil, issuing' = Nil, template' = template, editing' = editing, overlapped' = overlapped,
               asked' = asked, certRow' \in Recorded \cup {Nil},
               issuedUnder' \subseteq issuedUnder \cup PendingVersion
        PROVE  TemplatesInv'
    <2>1. Circulating' \subseteq Circulating
      BY <1>1 DEF Circulating, CurrentVersion, PendingVersion
    <2>2. PendingVersion \subseteq Versions \X Rules
      BY <1>0, <1>1 DEF PendingVersion
    <2>3. TemplatesTypeOK'
      BY <1>1, <2>2 DEF TemplatesInv, TemplatesTypeOK
    <2>4. AsksKnown'
      BY <1>1 DEF AsksKnown
    <2> QED
      BY <1>1, <2>1, <2>3, <2>4, NothingEdited
  <1>2. ASSUME TemplatesInv, issuing # Nil PROVE VersionWritten \in Versions
    BY <1>0, <1>2 DEF VersionWritten, Recorded
  <1>3. ASSUME TemplatesInv, AskDies PROVE TemplatesInv'
    <2>1. certRow' \in Recorded \cup {Nil} /\ issuedUnder' = issuedUnder
      BY <1>3 DEF AskDies, TemplatesInv, TemplatesTypeOK
    <2> QED
      BY <1>1, <1>3, <2>1 DEF AskDies
  <1>4. ASSUME TemplatesInv, NotIssued PROVE TemplatesInv'
    <2>1. PICK v : v = VersionWritten
      OBVIOUS
    <2>2. issuing # Nil /\ certRow' = IF issuing.first THEN certRow ELSE [certRow EXCEPT !.version = v]
      BY <1>4, <2>1 DEF NotIssued
    <2>3. v \in Versions
      BY <1>2, <1>4, <2>1, <2>2
    <2>4. certRow' \in Recorded \cup {Nil}
      <3>1. certRow \in Recorded \cup {Nil} /\ (~issuing.first => certRow \in Recorded)
        BY <1>0, <1>4, <2>2 DEF TemplatesInv, TemplatesTypeOK
      <3> QED
        BY <2>2, <2>3, <3>1 DEF Recorded
    <2> QED
      BY <1>1, <1>4, <2>4 DEF NotIssued
  <1>5. ASSUME TemplatesInv, NEW found \in Findings, Issued(found) PROVE TemplatesInv'
    <2>1. PICK v, w : v = VersionWritten /\ w = FindingsWritten(found)
      OBVIOUS
    <2>2. issuing # Nil /\ certRow' = [version |-> v, findings |-> w]
      BY <1>5, <2>1 DEF Issued
    <2>3. v \in Versions
      BY <1>2, <1>5, <2>1, <2>2
    <2>4. w \in Findings
      BY <1>0, <1>5, <2>1, <2>2 DEF FindingsWritten, Recorded
    <2>5. certRow' \in Recorded
      BY <2>2, <2>3, <2>4 DEF Recorded
    <2>6. issuedUnder' \subseteq issuedUnder \cup PendingVersion
      BY <1>5, <2>2 DEF Issued, PendingVersion
    <2> QED
      BY <1>1, <1>5, <2>2, <2>5, <2>6 DEF Issued
  <1> QED
    BY <1>3, <1>4, <1>5

\* An edit begins.
LEMMA TemplatesBegin == \A e \in Edits, r \in Rules : TemplatesInv /\ BeginEdit(e, r) => TemplatesInv'
  <1> SUFFICES ASSUME NEW e \in Edits, NEW r \in Rules, TemplatesInv, BeginEdit(e, r) PROVE TemplatesInv'
    OBVIOUS
  <1>0. template \in Template /\ editing \in [Edits -> EditState]
    BY DEF TemplatesInv, TemplatesTypeOK
  <1>1. PICK row, moved : row = [template EXCEPT !.rules = r] /\ moved = IF rulesDiffer(template, row) THEN [row EXCEPT !.version = template.version + 1] ELSE row
    OBVIOUS
  <1>2. /\ editing' = [editing EXCEPT ![e] = [at |-> "validate", row |-> moved]] /\ editing[e].at = "none" /\ template.exists
        /\ template' = template /\ issuing' = issuing /\ certRow' = certRow /\ asked' = asked /\ issuedUnder' = issuedUnder
    BY <1>1 DEF BeginEdit
  <1>3. overlapped' \in BOOLEAN /\ (~overlapped' => ~overlapped /\ \A f \in Edits : editing[f].at # "validate")
    <2>1. PICK busy : busy = \E f \in Edits : editing[f].at = "validate"
      OBVIOUS
    <2>2. overlapped' = (overlapped \/ busy)
      BY <2>1 DEF BeginEdit
    <2> QED
      BY <2>1, <2>2
  <1>4. PICK b, c : b = Cardinality(Begun) /\ c = Cardinality(Begun')
    OBVIOUS
  <1>5. b \in Nat /\ c = b + 1 /\ c <= Cardinality(Edits) /\ Cardinality(Edits) \in Nat
    <2>1. e \notin Begun /\ Begun' = Begun \cup {e} /\ Begun' \subseteq Edits
      BY <1>0, <1>2 DEF Begun
    <2>2. PICK B : B = Begun'
      OBVIOUS
    <2>3. Cardinality(B) = b + 1 /\ b \in Nat
      BY <1>4, <2>1, <2>2, BegunCounted, FS_AddElement
    <2>4. Cardinality(B) <= Cardinality(Edits) /\ Cardinality(Edits) \in Nat
      BY <2>1, <2>2, BegunCounted, FS_Subset, FS_CardinalityType
    <2> QED
      BY <1>4, <2>2, <2>3, <2>4
  <1>6. template.version <= 1 + b /\ \A f \in Edits : editing[f].at = "validate" => editing[f].row.version <= 1 + b
    BY <1>4 DEF TemplatesInv, VersionsCounted
  <1>7. PICK n \in Nat : n = template.version
    BY <1>0 DEF Template, Versions
  <1>8. n \in Versions /\ n + 1 \in Versions
    BY <1>0, <1>5, <1>6, <1>7 DEF Versions, Template
  <1>9. row \in Template /\ row.version = n /\ row.rules = r /\ row.exists
    BY <1>0, <1>1, <1>2, <1>7 DEF Template
  <1>10. /\ moved \in Template /\ moved.exists
         /\ (moved.version = n /\ moved.rules = template.rules) \/ moved.version = n + 1
    <2>1. CASE template.rules # r
      <3>1. moved = [row EXCEPT !.version = n + 1]
        BY <1>1, <1>7, <1>9, <2>1 DEF rulesDiffer
      <3> QED
        BY <1>8, <1>9, <3>1 DEF Template
    <2>2. CASE template.rules = r
      <3>1. moved = row
        BY <1>1, <1>9, <2>2 DEF rulesDiffer
      <3> QED
        BY <1>9, <2>2, <3>1
    <2> QED
      BY <2>1, <2>2
  <1>11. PICK new : new = [at |-> "validate", row |-> moved]
    OBVIOUS
  <1>12. new \in EditState /\ new.at = "validate" /\ new.row = moved
    BY <1>10, <1>11 DEF EditState
  <1>13. editing' \in [Edits -> EditState] /\ editing'[e] = new /\ \A f \in Edits : f # e => editing'[f] = editing[f]
    BY <1>0, <1>2, <1>11, <1>12
  <1>14. TemplatesTypeOK'
    BY <1>2, <1>3, <1>13 DEF TemplatesInv, TemplatesTypeOK
  <1>15. VersionsCounted'
    <2>1. n <= 1 + c /\ moved.version <= 1 + c
      BY <1>5, <1>6, <1>7, <1>10
    <2>2. \A f \in Edits : f # e /\ editing'[f].at = "validate" => editing'[f].row.version <= 1 + c
      <3>1. \A f \in Edits : editing[f].at = "validate" => editing[f].row.version \in Nat
        BY <1>0 DEF EditState, Template, Versions
      <3> QED
        BY <1>5, <1>6, <1>13, <3>1
    <2>3. \A f \in Edits : editing'[f].at = "validate" => editing'[f].row.version <= 1 + c
      BY <1>12, <1>13, <2>1, <2>2
    <2> QED
      BY <1>2, <1>4, <1>7, <2>1, <2>3 DEF VersionsCounted
  <1>16. AsksKnown'
    BY <1>2 DEF TemplatesInv, AsksKnown
  <1>17. VersionsNamed'
    <2> SUFFICES ASSUME ~overlapped' PROVE VersionsNamed'
      BY DEF VersionsNamed
    <2>1. Circulating' = Circulating
      BY <1>2 DEF Circulating, CurrentVersion, PendingVersion
    <2>2. \A f \in Edits : editing'[f].at = "validate" => f = e
      BY <1>3, <1>13
    <2>3. /\ \A p, q \in Circulating : p[1] = q[1] => p[2] = q[2]
          /\ \A p \in Circulating : p[1] <= template.version
      BY <1>2, <1>3 DEF TemplatesInv, VersionsNamed
    <2>4. /\ \A f, g \in Edits : editing'[f].at = "validate" /\ editing'[g].at = "validate" => f = g
          /\ \A f \in Edits : editing'[f].at = "validate" =>
                /\ editing'[f].row.exists
                /\ \/ editing'[f].row.version = template.version /\ editing'[f].row.rules = template.rules
                   \/ editing'[f].row.version = template.version + 1
      BY <1>7, <1>10, <1>12, <1>13, <2>2
    <2> QED
      BY <1>2, <2>1, <2>3, <2>4 DEF VersionsNamed
  <1> QED
    BY <1>14, <1>15, <1>16, <1>17 DEF TemplatesInv

\* An edit ends, and may write the row it validated.
LEMMA TemplatesEnd ==
    ASSUME TemplatesInv, NEW e \in Edits, editing[e].at = "validate",
           editing' = [editing EXCEPT ![e] = [at |-> "ended", row |-> NoTemplate]],
           template' = template \/ (template.exists /\ template' = editing[e].row),
           UNCHANGED <<issuing, certRow, asked, overlapped, issuedUnder>>
    PROVE  TemplatesInv'
  <1>0. template \in Template /\ editing \in [Edits -> EditState] /\ editing[e].row \in Template
    BY DEF TemplatesInv, TemplatesTypeOK, EditState
  <1>1. PICK new : new = [at |-> "ended", row |-> NoTemplate]
    OBVIOUS
  <1>2. new \in EditState /\ new.at = "ended"
    BY <1>1, NoTemplateTyped
  <1>3. editing' \in [Edits -> EditState] /\ editing'[e] = new /\ \A f \in Edits : f # e => editing'[f] = editing[f]
    BY <1>0, <1>1, <1>2
  <1>4. TemplatesTypeOK'
    BY <1>0, <1>3 DEF TemplatesInv, TemplatesTypeOK
  <1>5. Begun' = Begun
    BY <1>2, <1>3 DEF Begun
  <1>6. VersionsCounted'
    BY <1>2, <1>3, <1>5 DEF TemplatesInv, VersionsCounted
  <1>7. AsksKnown'
    BY DEF TemplatesInv, AsksKnown
  <1>8. VersionsNamed'
    <2> SUFFICES ASSUME ~overlapped PROVE VersionsNamed'
      BY DEF VersionsNamed
    <2>1. \A f \in Edits : editing'[f].at # "validate"
      BY <1>2, <1>3 DEF TemplatesInv, VersionsNamed
    <2>2. /\ \A p, q \in Circulating : p[1] = q[1] => p[2] = q[2]
          /\ template.exists => \A p \in Circulating : p[1] <= template.version
      BY DEF TemplatesInv, VersionsNamed
    <2>3. CASE template' = template
      <3>1. Circulating' = Circulating
        BY <2>3 DEF Circulating, CurrentVersion, PendingVersion
      <3> QED
        BY <2>1, <2>2, <2>3, <3>1 DEF VersionsNamed
    <2>4. CASE template.exists /\ template' = editing[e].row
      <3>1. PICK old, new2 : old = template /\ new2 = editing[e].row
        OBVIOUS
      <3>2. /\ old \in Template /\ new2 \in Template /\ new2.exists /\ old.exists
            /\ (new2.version = old.version /\ new2.rules = old.rules) \/ new2.version = old.version + 1
        BY <1>0, <2>4, <3>1 DEF TemplatesInv, VersionsNamed
      <3>3. old.version \in Nat /\ new2.version \in Nat
        BY <3>2 DEF Template, Versions
      <3>4. PICK C : C = Circulating'
        OBVIOUS
      <3>5. \A p \in C : p \in Circulating \/ p = <<new2.version, new2.rules>>
        BY <2>4, <3>1, <3>2, <3>4 DEF Circulating, CurrentVersion, PendingVersion
      <3>6. <<old.version, old.rules>> \in Circulating
        BY <3>1, <3>2 DEF Circulating, CurrentVersion
      <3>7. \A p \in Circulating : p[1] \in Nat /\ p[1] <= old.version
        <4>1. Circulating \subseteq Versions \X Rules
          BY <1>0 DEF TemplatesInv, TemplatesTypeOK, Circulating, CurrentVersion, PendingVersion, Template, Asking
        <4>2. \A p \in Circulating : p[1] \in Nat
          BY <4>1 DEF Versions
        <4> QED
          BY <2>2, <2>4, <3>1, <4>2
      <3>8. \A p \in Circulating : p[1] <= new2.version /\ (p[1] = new2.version => p[2] = new2.rules)
        <4>1. CASE new2.version = old.version /\ new2.rules = old.rules
          BY <2>2, <3>6, <3>7, <4>1
        <4>2. CASE new2.version = old.version + 1
          BY <3>3, <3>7, <4>2
        <4> QED
          BY <3>2, <4>1, <4>2
      <3>9. /\ \A p, q \in C : p[1] = q[1] => p[2] = q[2]
            /\ \A p \in C : p[1] <= new2.version
        BY <2>2, <3>3, <3>5, <3>8
      <3> QED
        BY <2>1, <2>4, <3>1, <3>4, <3>9 DEF VersionsNamed
    <2> QED
      BY <2>3, <2>4
  <1> QED
    BY <1>4, <1>6, <1>7, <1>8 DEF TemplatesInv

\* The template is deleted.
LEMMA TemplatesDelete == TemplatesInv /\ DeleteTemplate => TemplatesInv'
  <1> SUFFICES ASSUME TemplatesInv, DeleteTemplate PROVE TemplatesInv'
    OBVIOUS
  <1>1. /\ template' = NoTemplate /\ editing' = editing /\ issuing' = issuing /\ certRow' = certRow /\ asked' = asked
        /\ overlapped' = overlapped /\ issuedUnder' = issuedUnder
    BY DEF DeleteTemplate
  <1>2. template' \in Template /\ ~template'.exists /\ template'.version = 0
    BY <1>1, NoTemplateTyped
  <1>3. TemplatesTypeOK'
    BY <1>1, <1>2 DEF TemplatesInv, TemplatesTypeOK
  <1>4. Begun' = Begun
    BY <1>1 DEF Begun
  <1>5. VersionsCounted'
    BY <1>1, <1>2, <1>4, BegunCounted DEF TemplatesInv, VersionsCounted
  <1>6. AsksKnown'
    BY <1>1 DEF TemplatesInv, AsksKnown
  <1>7. PICK C : C = Circulating'
    OBVIOUS
  <1>8. C \subseteq Circulating
    BY <1>1, <1>2, <1>7 DEF Circulating, CurrentVersion, PendingVersion
  <1>9. VersionsNamed'
    BY <1>1, <1>2, <1>7, <1>8 DEF TemplatesInv, VersionsNamed
  <1> QED
    BY <1>3, <1>5, <1>6, <1>9 DEF TemplatesInv

\* Every step keeps the invariant.
LEMMA TemplatesStepInv == TemplatesInv /\ [TemplatesNext]_templateVars => TemplatesInv'
  <1> SUFFICES ASSUME TemplatesInv, [TemplatesNext]_templateVars PROVE TemplatesInv'
    OBVIOUS
  <1>1. ASSUME UNCHANGED templateVars PROVE TemplatesInv'
    <2>1. TemplatesTypeOK' /\ AsksKnown' /\ Circulating' = Circulating
      BY <1>1 DEF templateVars, TemplatesInv, TemplatesTypeOK, AsksKnown, Circulating, CurrentVersion, PendingVersion
    <2> QED
      BY <1>1, <2>1, NothingEdited DEF templateVars
  <1>2. ASSUME NEW e \in Edits, EditRefused(e) PROVE TemplatesInv'
    BY <1>2, TemplatesEnd DEF EditRefused
  <1>3. ASSUME NEW e \in Edits, UpdateCertificateTemplate(e) PROVE TemplatesInv'
    BY <1>3, TemplatesEnd DEF UpdateCertificateTemplate
  <1> QED
    BY <1>1, <1>2, <1>3, TemplatesAsk, TemplatesAnswered, TemplatesBegin, TemplatesDelete DEF TemplatesNext

-----------------------------------------------------------------------------
(* The audit chain. Who holds the lock has read the newest entry, every tag *)
(* covers its entry and the tag before it, and no core runs that would sign *)
(* with a key which a full keyring lacks.                                  *)

\* Above a number there is a first one of a set, if there is one.
LEMMA FirstAbove ==
    ASSUME NEW T \in SUBSET Nat, NEW n \in Nat, \E m \in T : m > n
    PROVE  \E f \in T : f > n /\ \A g \in T : g > n => f <= g
  <1>1. PICK U : U = {m \in T : m > n}
    OBVIOUS
  <1>2. U \in SUBSET Nat /\ U # {}
    BY <1>1
  <1>3. PICK f \in U : \A g \in U : ~(<<g, f>> \in OpToRel(<, Nat))
    BY <1>2, NatLessThanWellFounded, WFMin
  <1>4. ASSUME NEW g \in U PROVE f <= g
    <2>1. f \in Nat /\ g \in Nat
      BY <1>2
    <2>2. g < f => <<g, f>> \in OpToRel(<, Nat)
      BY <2>1 DEF OpToRel
    <2>3. ~(g < f)
      BY <1>3, <2>2, Zenon
    <2> QED
      BY <2>1, <2>3
  <1> QED
    BY <1>1, <1>4

\* The newest entry.
Newest(h) == h \in Chained /\ \A w \in Chained : auditLogs[w].seq <= auditLogs[h].seq
SeqsApart == \A v, w \in Chained : auditLogs[v].seq = auditLogs[w].seq => v = w

\* Every tag covers what was written and the tag before it.
Linked ==
    /\ \A w \in Chained :
          /\ auditLogs[w].text \in {w, Nil} /\ auditLogs[w].chainKeyID \in AuditKeys
          /\ auditLogs[w].entryHash = Tag(auditLogs[w].prevHash, auditLogs[w].seq, w, auditLogs[w].chainKeyID)
          /\ auditLogs[w].seq = 1 => auditLogs[w].prevHash = <<>>
    /\ \A v, w \in Chained : auditLogs[w].seq = auditLogs[v].seq + 1 => auditLogs[w].prevHash = auditLogs[v].entryHash

\* There are not more numbers than entries were made.
Made == {w \in Writes : auditLogs[w].state # "NONE"}
SeqsCounted == \A w \in Chained : auditLogs[w].seq <= Cardinality(Made)

\* A full keyring has the keys of the entries and of the cores that run.
KeysKept ==
    ~abandoned => \A r \in FullRings :
        /\ \A w \in Chained : auditLogs[w].chainKeyID \in KeysOf[r]
        /\ \A c \in Cores : core[c].ring # Nil => KeysOf[core[c].ring] \subseteq KeysOf[r]

TableInv == (\E h \in Writes : Newest(h)) /\ SeqsApart /\ Linked /\ SeqsCounted /\ NoEntryLost

\* Each core writes an entry of its own that is not in the table, and the one
\* in the lock has read the newest entry.
WriterInv(c) ==
    /\ core[c].pc # "idle" => core[c].ring # Nil /\ core[c].write \in Writes /\ auditLogs[core[c].write] = NoEntry
    /\ core[c].pc = "idle" => core[c].write = Nil
    /\ chainLock = c <=> core[c].pc \in {"reading", "inserting"}
    /\ core[c].pc = "inserting" =>
          \E h \in Writes : Newest(h) /\ core[c].seq = auditLogs[h].seq + 1 /\ core[c].prev = auditLogs[h].entryHash
WritesApart == \A c, d \in Cores : core[c].write # Nil /\ core[c].write = core[d].write => c = d

AuditInv == AuditTypeOK /\ TableInv /\ KeysKept /\ WritesApart /\ \A c \in Cores : WriterInv(c)

\* What the newest entry is to the statements that look for it.
LEMMA NewestRead ==
    ASSUME AuditTypeOK, SeqsApart, NEW h \in Writes, Newest(h)
    PROVE  HeadSeq = auditLogs[h].seq /\ HeadTag = auditLogs[h].entryHash /\ LatestAuditKey = auditLogs[h].chainKeyID
  <1>1. h \in Chained /\ \A w \in Chained : auditLogs[w].seq \in Nat /\ auditLogs[w].seq <= auditLogs[h].seq
    BY DEF Newest, Chained, AuditTypeOK, AuditRow
  <1>2. auditLogs[h].seq \in Seqs /\ \A n \in Seqs : n \in Nat /\ n <= auditLogs[h].seq
    BY <1>1 DEF Seqs
  <1>3. PICK m : m = Max(Seqs)
    OBVIOUS
  <1>4. m \in Seqs /\ \A n \in Seqs : m >= n
    BY <1>2, <1>3 DEF Max
  <1>5. m = auditLogs[h].seq
    BY <1>2, <1>4
  <1>6. HeadSeq = auditLogs[h].seq
    BY <1>1, <1>3, <1>5 DEF HeadSeq
  <1>7. At(auditLogs[h].seq) = h
    BY <1>1 DEF At, SeqsApart
  <1> QED
    BY <1>1, <1>6, <1>7 DEF HeadTag, LatestAuditKey

\* The number of an entry leads to it.
LEMMA FoundAt ==
    ASSUME SeqsApart, NEW n \in Seqs
    PROVE  At(n) \in Chained /\ auditLogs[At(n)].seq = n
  <1>1. \E w \in Chained : auditLogs[w].seq = n
    BY DEF Seqs
  <1> QED
    BY <1>1 DEF At

\* The fields of a chained entry.
LEMMA ChainedTyped ==
    ASSUME AuditTypeOK, NEW w \in Chained
    PROVE  /\ w \in Writes /\ auditLogs[w] \in AuditRow /\ auditLogs[w].state = "STORED" /\ auditLogs[w].seq \in Nat
           /\ auditLogs[w].seq \in 1 .. Cardinality(Writes) /\ auditLogs[w].prevHash \in Seq(Covered)
           /\ auditLogs[w].entryHash \in Seq(Covered)
  <1>1. Cardinality(Writes) \in Nat
    BY AuditChainAssumption, FS_CardinalityType
  <1> QED
    BY <1>1 DEF Chained, AuditTypeOK, AuditRow

\* A tag and the row that carries it have their types.
LEMMA ChainedRowTyped ==
    ASSUME NEW seq \in 1 .. Cardinality(Writes), NEW w \in Writes, NEW prev \in Seq(Covered), NEW key \in AuditKeys, Nil \notin Writes
    PROVE  /\ Tag(prev, seq, w, key) \in Seq(Covered)
           /\ ChainedRow(seq, w, prev, key) \in AuditRow
           /\ ChainedRow(seq, w, prev, key).state = "STORED" /\ ChainedRow(seq, w, prev, key).seq = seq
           /\ ChainedRow(seq, w, prev, key).text = w /\ ChainedRow(seq, w, prev, key).prevHash = prev
           /\ ChainedRow(seq, w, prev, key).entryHash = Tag(prev, seq, w, key)
           /\ ChainedRow(seq, w, prev, key).chainKeyID = key
  <1>0. Cardinality(Writes) \in Nat
    BY AuditChainAssumption, FS_CardinalityType
  <1>1. Canonical(seq, w, key) \in Covered
    BY <1>0 DEF Canonical, Covered
  <1>2. Tag(prev, seq, w, key) \in Seq(Covered)
    BY <1>1 DEF Tag
  <1>3. PICK tag : tag = Tag(prev, seq, w, key)
    OBVIOUS
  <1>4. PICK new : new = [state |-> "STORED", seq |-> seq, text |-> w, prevHash |-> prev, entryHash |-> tag, chainKeyID |-> key]
    OBVIOUS
  <1>5. ChainedRow(seq, w, prev, key) = new
    BY <1>3, <1>4 DEF ChainedRow
  <1>6. seq \in 0 .. Cardinality(Writes) /\ tag \in Seq(Covered)
    BY <1>0, <1>2, <1>3
  <1>7. new \in AuditRow
    BY <1>4, <1>6 DEF AuditRow
  <1> QED
    BY <1>2, <1>3, <1>4, <1>5, <1>7

\* No entry, and no core, has its type.
LEMMA NothingTyped ==
    /\ NoEntry \in AuditRow /\ NoEntry.state = "NONE" /\ NoEntry.seq = 0
    /\ Down \in CoreState /\ Down.ring = Nil /\ Down.pc = "idle" /\ Down.write = Nil
  <1>1. 0 \in 0 .. Cardinality(Writes) /\ <<>> \in Seq(Covered)
    BY AuditChainAssumption, FS_CardinalityType
  <1> QED
    BY <1>1 DEF NoEntry, AuditRow, Down, CoreState

\* A step that leaves the table alone.
LEMMA TableSame ==
    ASSUME AuditInv, auditLogs' = auditLogs, AuditTypeOK', KeysKept', WritesApart', \A c \in Cores : WriterInv(c)'
    PROVE  AuditInv'
  <1>1. TableInv'
    BY DEF AuditInv, TableInv, Newest, SeqsApart, Linked, SeqsCounted, NoEntryLost, Chained, Made
  <1> QED
    BY <1>1 DEF AuditInv

\* A step of one core that leaves the table alone.
LEMMA OneCoreMoves ==
    ASSUME AuditInv, NEW c \in Cores, NEW new \in CoreState, core' = [core EXCEPT ![c] = new], auditLogs' = auditLogs,
           abandoned' \in BOOLEAN, abandoned' = FALSE => abandoned = FALSE,
           chainLock' \in Cores \cup {Nil}, \A d \in Cores \ {c} : chainLock' = d <=> chainLock = d,
           WriterInv(c)',
           new.write # Nil => new.write = core[c].write \/ \A d \in Cores : core[d].write # new.write,
           ~abandoned' /\ new.ring # Nil => \A r \in FullRings : KeysOf[new.ring] \subseteq KeysOf[r]
    PROVE  AuditInv'
  <1>1. core'[c] = new /\ (\A d \in Cores \ {c} : core'[d] = core[d]) /\ core' \in [Cores -> CoreState]
    BY DEF AuditInv, AuditTypeOK
  <1>2. AuditTypeOK'
    BY <1>1 DEF AuditInv, AuditTypeOK
  <1>3. KeysKept'
    <2>1. Chained' = Chained
      BY DEF Chained
    <2> QED
      BY <1>1, <2>1 DEF AuditInv, KeysKept
  <1>4. WritesApart'
    BY <1>1 DEF AuditInv, WritesApart
  <1>5. ASSUME NEW d \in Cores, d # c PROVE WriterInv(d)'
    <2>1. WriterInv(d) /\ core'[d] = core[d] /\ (chainLock' = d <=> chainLock = d)
      BY <1>1, <1>5 DEF AuditInv
    <2>2. \A h : Newest(h)' <=> Newest(h)
      BY DEF Newest, Chained
    <2> QED
      BY <2>1, <2>2 DEF WriterInv
  <1> QED
    BY <1>2, <1>3, <1>4, <1>5, TableSame

\* In the beginning there is the entry the table was sealed with.
LEMMA AuditInitInv == AuditInit => AuditInv
  <1> SUFFICES ASSUME AuditInit PROVE AuditInv
    OBVIOUS
  <1>1. PICK old \in SUBSET (Writes \ {FirstWrite}) :
            auditLogs = [w \in Writes |-> IF w = FirstWrite THEN ChainedRow(1, w, <<>>, PrimaryOf[FirstRing])
                                          ELSE IF w \in old THEN [NoEntry EXCEPT !.state = "STORED", !.text = w] ELSE NoEntry]
    BY DEF AuditInit
  <1>2. core = [c \in Cores |-> Down] /\ chainLock = Nil /\ abandoned = FALSE
    BY DEF AuditInit
  <1>3. PICK key : key = PrimaryOf[FirstRing]
    OBVIOUS
  <1>4. key \in AuditKeys /\ Nil \notin Writes /\ FirstWrite \in Writes /\ Nil \notin Cores
    BY <1>3, AuditChainAssumption DEF AuditKeys
  <1>5. 1 \in 1 .. Cardinality(Writes) /\ 0 \in 0 .. Cardinality(Writes) /\ <<>> \in Seq(Covered)
    <2>1. {FirstWrite} \subseteq Writes
      BY <1>4
    <2>2. Cardinality({FirstWrite}) <= Cardinality(Writes) /\ Cardinality({FirstWrite}) = 1 /\ Cardinality(Writes) \in Nat
      BY <2>1, AuditChainAssumption, FS_Subset, FS_Singleton, FS_CardinalityType
    <2> QED
      BY <2>2
  <1>5a. PICK none \in Seq(Covered) : none = <<>>
    BY <1>5
  <1>6. PICK first : first = ChainedRow(1, FirstWrite, none, key)
    OBVIOUS
  <1>7. /\ first \in AuditRow /\ first.state = "STORED" /\ first.seq = 1 /\ first.text = FirstWrite /\ first.prevHash = none
        /\ first.entryHash = Tag(none, 1, FirstWrite, key) /\ first.chainKeyID = key
    <2>1. PICK one \in 1 .. Cardinality(Writes) : one = 1
      BY <1>5
    <2>2. /\ first = ChainedRow(one, FirstWrite, none, key)
          /\ Tag(none, one, FirstWrite, key) = Tag(none, 1, FirstWrite, key)
      BY <1>5a, <1>6, <2>1
    <2>3. /\ first \in AuditRow /\ first.state = "STORED" /\ first.seq = one /\ first.text = FirstWrite /\ first.prevHash = none
          /\ first.entryHash = Tag(none, one, FirstWrite, key) /\ first.chainKeyID = key
      BY <1>4, <2>2, ChainedRowTyped
    <2> QED
      BY <2>1, <2>2, <2>3
  <1>8. \A w \in Writes : /\ [NoEntry EXCEPT !.state = "STORED", !.text = w] \in AuditRow
                          /\ [NoEntry EXCEPT !.state = "STORED", !.text = w].seq = 0
                          /\ [NoEntry EXCEPT !.state = "STORED", !.text = w].state = "STORED"
    BY <1>5 DEF NoEntry, AuditRow
  <1>9. auditLogs[FirstWrite] = first
    BY <1>1, <1>3, <1>4, <1>5a, <1>6
  <1>10. ASSUME NEW w \in Writes, w # FirstWrite
         PROVE  auditLogs[w] \in AuditRow /\ auditLogs[w].seq = 0 /\ auditLogs[w].state # "LOST"
    <2>1. CASE w \in old
      <3>1. auditLogs[w] = [NoEntry EXCEPT !.state = "STORED", !.text = w]
        BY <1>1, <1>10, <2>1
      <3> QED
        BY <1>8, <3>1
    <2>2. CASE w \notin old
      <3>1. auditLogs[w] = NoEntry
        BY <1>1, <1>10, <2>2
      <3> QED
        BY <3>1, NothingTyped
    <2> QED
      BY <2>1, <2>2
  <1>11. AuditTypeOK
    <2>1. \A w \in Writes : auditLogs[w] \in AuditRow
      BY <1>7, <1>9, <1>10
    <2>2. auditLogs \in [Writes -> AuditRow]
      BY <1>1, <2>1
    <2>3. core \in [Cores -> CoreState]
      BY <1>2, NothingTyped
    <2> QED
      BY <1>2, <2>2, <2>3 DEF AuditTypeOK
  <1>12. Chained = {FirstWrite}
    BY <1>4, <1>7, <1>9, <1>10 DEF Chained
  <1>13. Newest(FirstWrite)
    BY <1>7, <1>9, <1>12 DEF Newest
  <1>14. SeqsApart
    BY <1>12 DEF SeqsApart
  <1>15. Linked
    BY <1>4, <1>5a, <1>7, <1>9, <1>12 DEF Linked
  <1>16. SeqsCounted
    <2>1. {FirstWrite} \subseteq Made /\ Made \subseteq Writes
      BY <1>4, <1>7, <1>9 DEF Made
    <2>2. IsFiniteSet(Made)
      BY <2>1, AuditChainAssumption, FS_Subset
    <2>3. Cardinality({FirstWrite}) = 1 /\ Cardinality({FirstWrite}) <= Cardinality(Made)
      BY <2>1, <2>2, FS_Subset, FS_Singleton
    <2> QED
      BY <1>7, <1>9, <1>12, <2>3 DEF SeqsCounted
  <1>17. NoEntryLost
    BY <1>7, <1>9, <1>10 DEF NoEntryLost
  <1>18. KeysKept
    <2>1. \A r \in FullRings : key \in KeysOf[r]
      BY <1>3 DEF FullRings
    <2> QED
      BY <1>2, <1>7, <1>9, <1>12, <2>1, NothingTyped DEF KeysKept
  <1>19. \A c \in Cores : WriterInv(c)
    BY <1>2, <1>4, NothingTyped DEF WriterInv
  <1>20. WritesApart
    BY <1>2, NothingTyped DEF WritesApart
  <1> QED
    BY <1>4, <1>11, <1>13, <1>14, <1>15, <1>16, <1>17, <1>18, <1>19, <1>20 DEF AuditInv, TableInv

\* What the invariant says of one core.
LEMMA OneCore ==
    ASSUME AuditInv, NEW c \in Cores
    PROVE  /\ WriterInv(c) /\ core[c] \in CoreState /\ c # Nil /\ Nil \notin Writes
           /\ core[c].ring \in Rings \cup {Nil} /\ core[c].write \in Writes \cup {Nil} /\ core[c].prev \in Seq(Covered)
           /\ core[c].seq \in 0 .. Cardinality(Writes)
  BY AuditChainAssumption DEF AuditInv, AuditTypeOK, CoreState

\* A keyring that passes the guard shares a key with the newest entry.
LEMMA GuardGuards ==
    ASSUME AuditInv, NEW ring \in Rings, GuardPasses(ring), ~abandoned, NEW r \in FullRings
    PROVE  KeysOf[ring] \subseteq KeysOf[r]
  <1>1. PICK h \in Writes : Newest(h)
    BY DEF AuditInv, TableInv
  <1>2. LatestAuditKey = auditLogs[h].chainKeyID
    BY <1>1, NewestRead DEF AuditInv, TableInv
  <1>3. auditLogs[h].chainKeyID \in AuditKeys /\ auditLogs[h].chainKeyID \in KeysOf[r]
    BY <1>1 DEF AuditInv, TableInv, Linked, Newest, KeysKept
  <1>4. auditLogs[h].chainKeyID # Nil
    BY <1>3, AuditChainAssumption DEF AuditKeys
  <1> QED
    BY <1>2, <1>3, <1>4 DEF GuardPasses, FullRings

\* Processes start, with or without the key of the newest entry.
LEMMA AuditStart ==
    ASSUME AuditInv, NEW c \in Cores, NEW ring \in Rings,
           StartCore(c, ring) \/ \E w \in Writes : StartAbandoning(c, ring, w)
    PROVE  AuditInv'
  <1>0. PICK p \in {"idle", "locking"}, w \in Writes \cup {Nil} :
            /\ core' = [core EXCEPT ![c] = [[Down EXCEPT !.ring = ring] EXCEPT !.pc = p, !.write = w]]
            /\ auditLogs' = auditLogs /\ chainLock' = chainLock /\ core[c].ring = Nil
            /\ p = "idle" => w = Nil /\ abandoned' = abandoned /\ GuardPasses(ring)
            /\ p = "locking" => w \in Writes /\ auditLogs[w] = NoEntry /\ abandoned' = TRUE /\ \A d \in Cores : core[d].write # w
    <2>a. CASE StartCore(c, ring)
      <3>1. PICK none : none = Down
        OBVIOUS
      <3>2. none \in CoreState /\ none.pc = "idle" /\ none.write = Nil
        BY <3>1, NothingTyped
      <3>3. [[none EXCEPT !.ring = ring] EXCEPT !.pc = "idle", !.write = Nil] = [none EXCEPT !.ring = ring]
        BY <3>2 DEF CoreState
      <3> QED
        BY <2>a, <3>1, <3>3 DEF StartCore
    <2>b. ASSUME NEW w \in Writes, StartAbandoning(c, ring, w)
          PROVE  core' = [core EXCEPT ![c] = [[Down EXCEPT !.ring = ring] EXCEPT !.pc = "locking", !.write = w]]
      <3>1. [[Down EXCEPT !.ring = ring] EXCEPT !.pc = "locking", !.write = w]
              = [Down EXCEPT !.ring = ring, !.pc = "locking", !.write = w]
        BY DEF Down
      <3> QED
        BY <2>b, <3>1 DEF StartAbandoning
    <2> QED
      BY <2>a, <2>b DEF StartAbandoning, StartCore
  <1>1. PICK new : new = [[Down EXCEPT !.ring = ring] EXCEPT !.pc = p, !.write = w]
    OBVIOUS
  <1>2. new.ring = ring /\ new.pc = p /\ new.write = w
    BY <1>1 DEF Down
  <1>3. new \in CoreState
    BY <1>1, NothingTyped DEF Down, CoreState
  <1>4. core[c].pc \notin {"reading", "inserting"} /\ chainLock # c
    BY <1>0, OneCore DEF WriterInv
  <1>5. core'[c] = new
    BY <1>0, <1>1 DEF AuditInv, AuditTypeOK
  <1>6. ring # Nil
    BY AuditChainAssumption
  <1>7. WriterInv(c)'
    BY <1>0, <1>2, <1>4, <1>5, <1>6 DEF WriterInv
  <1>8. abandoned' \in BOOLEAN /\ (abandoned' = FALSE => abandoned = FALSE) /\ chainLock' \in Cores \cup {Nil}
    BY <1>0 DEF AuditInv, AuditTypeOK
  <1>9. ~abandoned' => \A r \in FullRings : KeysOf[ring] \subseteq KeysOf[r]
    BY <1>0, GuardGuards
  <1>10. new.write # Nil => \A d \in Cores : core[d].write # new.write
    BY <1>0, <1>2
  <1> QED
    BY <1>0, <1>1, <1>2, <1>3, <1>7, <1>8, <1>9, <1>10, OneCoreMoves

\* An entry is begun, and the lock taken.
LEMMA AuditBegin ==
    ASSUME AuditInv, NEW c \in Cores, (\E w \in Writes : BeginWrite(c, w)) \/ TakeLock(c)
    PROVE  AuditInv'
  <1>1. PICK p \in {"locking", "reading"}, w \in Writes :
            /\ core' = [core EXCEPT ![c] = [core[c] EXCEPT !.pc = p, !.write = w]]
            /\ auditLogs' = auditLogs /\ abandoned' = abandoned /\ core[c].ring # Nil /\ auditLogs[w] = NoEntry
            /\ p = "locking" => core[c].pc = "idle" /\ chainLock' = chainLock /\ \A d \in Cores : core[d].write # w
            /\ p = "reading" => core[c].pc = "locking" /\ chainLock = Nil /\ chainLock' = c /\ w = core[c].write
    <2>1. ASSUME NEW w \in Writes, BeginWrite(c, w)
          PROVE  core' = [core EXCEPT ![c] = [core[c] EXCEPT !.pc = "locking", !.write = w]]
      <3>1. core[c] \in CoreState /\ core \in [Cores -> CoreState]
        BY DEF AuditInv, AuditTypeOK
      <3> QED
        BY <2>1, <3>1 DEF BeginWrite
    <2>2. ASSUME TakeLock(c)
          PROVE  /\ core' = [core EXCEPT ![c] = [core[c] EXCEPT !.pc = "reading", !.write = core[c].write]]
                 /\ core[c].write \in Writes /\ core[c].ring # Nil /\ auditLogs[core[c].write] = NoEntry
      <3>1. core[c] \in CoreState /\ WriterInv(c)
        BY DEF AuditInv, AuditTypeOK
      <3>2. [core[c] EXCEPT !.pc = "reading", !.write = core[c].write] = [core[c] EXCEPT !.pc = "reading"]
        BY <3>1 DEF CoreState
      <3> QED
        BY <2>2, <3>1, <3>2 DEF TakeLock, WriterInv
    <2> QED
      BY <2>1, <2>2 DEF BeginWrite, TakeLock, LockFree
  <1>2. PICK new : new = [core[c] EXCEPT !.pc = p, !.write = w]
    OBVIOUS
  <1>3. new.ring = core[c].ring /\ new.pc = p /\ new.write = w /\ new \in CoreState
    BY <1>2, OneCore DEF CoreState
  <1>4. core'[c] = new
    BY <1>1, <1>2 DEF AuditInv, AuditTypeOK
  <1>5. WriterInv(c)'
    BY <1>1, <1>3, <1>4, OneCore DEF WriterInv
  <1>6. ~abandoned' /\ new.ring # Nil => \A r \in FullRings : KeysOf[new.ring] \subseteq KeysOf[r]
    BY <1>1, <1>3 DEF AuditInv, KeysKept
  <1>7. /\ abandoned' \in BOOLEAN /\ (abandoned' = FALSE => abandoned = FALSE) /\ chainLock' \in Cores \cup {Nil}
        /\ \A d \in Cores \ {c} : chainLock' = d <=> chainLock = d
    BY <1>1, AuditChainAssumption DEF AuditInv, AuditTypeOK
  <1>8. new.write = core[c].write \/ \A d \in Cores : core[d].write # new.write
    BY <1>1, <1>3
  <1> QED
    BY <1>1, <1>2, <1>3, <1>5, <1>6, <1>7, <1>8, OneCoreMoves

\* There is a number left for an entry that is being written.
LEMMA NumberLeft ==
    ASSUME AuditInv, NEW c \in Cores, core[c].pc # "idle", NEW h \in Writes, Newest(h)
    PROVE  /\ auditLogs[h].seq + 1 \in 1 .. Cardinality(Writes)
           /\ IsFiniteSet(Made) /\ Made \cup {core[c].write} \subseteq Writes /\ core[c].write \notin Made
           /\ Cardinality(Made) \in Nat /\ Cardinality(Made \cup {core[c].write}) = Cardinality(Made) + 1
  <1>1. core[c].write \in Writes /\ auditLogs[core[c].write] = NoEntry
    BY OneCore DEF WriterInv
  <1>2. Made \cup {core[c].write} \subseteq Writes /\ core[c].write \notin Made
    BY <1>1, NothingTyped DEF Made
  <1>3. IsFiniteSet(Made) /\ IsFiniteSet(Made \cup {core[c].write})
    BY <1>2, AuditChainAssumption, FS_Subset
  <1>4. Cardinality(Made \cup {core[c].write}) = Cardinality(Made) + 1 /\ Cardinality(Made) \in Nat
    BY <1>2, <1>3, FS_AddElement, FS_CardinalityType
  <1>5. Cardinality(Made \cup {core[c].write}) <= Cardinality(Writes) /\ Cardinality(Writes) \in Nat
    BY <1>2, AuditChainAssumption, FS_Subset, FS_CardinalityType
  <1>6. auditLogs[h].seq \in Nat /\ auditLogs[h].seq <= Cardinality(Made)
    BY ChainedTyped DEF AuditInv, TableInv, SeqsCounted, Newest
  <1> QED
    BY <1>2, <1>3, <1>4, <1>5, <1>6

\* The holder of the lock reads the newest entry.
LEMMA AuditRead ==
    ASSUME AuditInv, NEW c \in Cores, ReadHead(c)
    PROVE  AuditInv'
  <1>1. PICK h \in Writes : Newest(h)
    BY DEF AuditInv, TableInv
  <1>2. HeadSeq = auditLogs[h].seq /\ HeadTag = auditLogs[h].entryHash
    BY <1>1, NewestRead DEF AuditInv, TableInv
  <1>3. PICK next, tag : next = auditLogs[h].seq + 1 /\ tag = auditLogs[h].entryHash
    OBVIOUS
  <1>4. /\ core' = [core EXCEPT ![c] = [core[c] EXCEPT !.pc = "inserting", !.seq = next, !.prev = tag]]
        /\ core[c].pc = "reading" /\ auditLogs' = auditLogs /\ chainLock' = chainLock /\ abandoned' = abandoned
    <2>1. core[c] \in CoreState /\ core \in [Cores -> CoreState]
      BY DEF AuditInv, AuditTypeOK
    <2> QED
      BY <1>2, <1>3, <2>1 DEF ReadHead
  <1>5. PICK new : new = [core[c] EXCEPT !.pc = "inserting", !.seq = next, !.prev = tag]
    OBVIOUS
  <1>6. next \in 0 .. Cardinality(Writes) /\ tag \in Seq(Covered)
    <2>1. auditLogs[h].seq + 1 \in 1 .. Cardinality(Writes)
      BY <1>1, <1>4, NumberLeft
    <2>2. Cardinality(Writes) \in Nat
      BY AuditChainAssumption, FS_CardinalityType
    <2>3. auditLogs[h].entryHash \in Seq(Covered)
      BY <1>1, ChainedTyped DEF AuditInv, Newest
    <2> QED
      BY <1>3, <2>1, <2>2, <2>3
  <1>7. new.ring = core[c].ring /\ new.pc = "inserting" /\ new.write = core[c].write /\ new.seq = next /\ new.prev = tag
    BY <1>5, OneCore DEF CoreState
  <1>8. new \in CoreState
    BY <1>5, <1>6, OneCore DEF CoreState
  <1>9. core'[c] = new
    BY <1>4, <1>5 DEF AuditInv, AuditTypeOK
  <1>10. Newest(h)'
    BY <1>1, <1>4 DEF Newest, Chained
  <1>11. WriterInv(c)'
    <2>1. next = auditLogs'[h].seq + 1 /\ tag = auditLogs'[h].entryHash
      BY <1>3, <1>4
    <2> QED
      BY <1>4, <1>7, <1>9, <1>10, <2>1, OneCore DEF WriterInv
  <1>12. ~abandoned' /\ new.ring # Nil => \A r \in FullRings : KeysOf[new.ring] \subseteq KeysOf[r]
    BY <1>4, <1>7 DEF AuditInv, KeysKept
  <1>13. abandoned' \in BOOLEAN /\ (abandoned' = FALSE => abandoned = FALSE) /\ chainLock' \in Cores \cup {Nil}
    BY <1>4 DEF AuditInv, AuditTypeOK
  <1> QED
    BY <1>4, <1>5, <1>7, <1>8, <1>11, <1>12, <1>13, OneCoreMoves

\* A process stops at any point.
LEMMA AuditStop ==
    ASSUME AuditInv, NEW c \in Cores, StopCore(c)
    PROVE  AuditInv'
  <1>1. /\ core' = [core EXCEPT ![c] = Down] /\ chainLock' = (IF chainLock = c THEN Nil ELSE chainLock)
        /\ auditLogs' = auditLogs /\ abandoned' = abandoned
    BY DEF StopCore, Unlocked
  <1>2. core'[c] = Down
    BY <1>1 DEF AuditInv, AuditTypeOK
  <1>3. chainLock' # c /\ (\A d \in Cores \ {c} : chainLock' = d <=> chainLock = d) /\ chainLock' \in Cores \cup {Nil}
    BY <1>1, AuditChainAssumption DEF AuditInv, AuditTypeOK
  <1>4. WriterInv(c)'
    BY <1>2, <1>3, NothingTyped DEF WriterInv
  <1>5. abandoned' \in BOOLEAN /\ (abandoned' = FALSE => abandoned = FALSE)
    BY <1>1 DEF AuditInv, AuditTypeOK
  <1> QED
    BY <1>1, <1>3, <1>4, <1>5, NothingTyped, OneCoreMoves

\* The entry chains from the one that is still the newest, and becomes it.
LEMMA AuditInsert ==
    ASSUME AuditInv, NEW c \in Cores, InsertEntry(c)
    PROVE  AuditInv'
  <1>1. PICK h \in Writes : Newest(h) /\ core[c].seq = auditLogs[h].seq + 1 /\ core[c].prev = auditLogs[h].entryHash
    BY OneCore DEF InsertEntry, WriterInv
  <1>2. PICK w, next, prev, key : w = core[c].write /\ next = core[c].seq /\ prev = core[c].prev /\ key = PrimaryOf[core[c].ring]
    OBVIOUS
  <1>3. /\ core[c].pc = "inserting" /\ chainLock = c /\ w \in Writes /\ auditLogs[w] = NoEntry /\ core[c].ring \in Rings
        /\ core[c].ring # Nil
    BY <1>2, OneCore DEF InsertEntry, WriterInv
  <1>4. key \in AuditKeys /\ key \in KeysOf[core[c].ring] /\ Nil \notin Writes
    BY <1>2, <1>3, AuditChainAssumption DEF AuditKeys
  <1>5. next \in 1 .. Cardinality(Writes) /\ prev \in Seq(Covered)
    <2>1. core[c].pc # "idle"
      BY <1>3
    <2>2. auditLogs[h].seq + 1 \in 1 .. Cardinality(Writes)
      BY <1>1, <2>1, NumberLeft
    <2>3. core[c].prev \in Seq(Covered)
      BY OneCore
    <2> QED BY <1>1, <1>2, <2>2, <2>3
  <1>6. \A v \in Chained : auditLogs[v].seq \in Nat /\ auditLogs[v].seq < next
    <2>1. \A v \in Chained : auditLogs[v].seq \in Nat
      BY ChainedTyped DEF AuditInv
    <2> QED
      BY <1>1, <1>2, <2>1 DEF Newest
  <1>7. next \notin Seqs
    BY <1>6 DEF Seqs
  <1>8. PICK new : new = ChainedRow(next, w, prev, key)
    OBVIOUS
  <1>9. /\ new \in AuditRow /\ new.state = "STORED" /\ new.seq = next /\ new.text = w /\ new.prevHash = prev
        /\ new.entryHash = Tag(prev, next, w, key) /\ new.chainKeyID = key
    BY <1>3, <1>4, <1>5, <1>8, ChainedRowTyped
  <1>10. /\ auditLogs' = [auditLogs EXCEPT ![w] = new] /\ core' = [core EXCEPT ![c] = [Down EXCEPT !.ring = core[c].ring]]
         /\ chainLock' = Nil /\ abandoned' = abandoned
    BY <1>2, <1>3, <1>7, <1>8 DEF InsertEntry, AfterWrite, Unlocked
  <1>11. /\ auditLogs'[w] = new /\ (\A v \in Writes \ {w} : auditLogs'[v] = auditLogs[v])
         /\ auditLogs' \in [Writes -> AuditRow]
    BY <1>3, <1>9, <1>10 DEF AuditInv, AuditTypeOK
  <1>12. PICK idle : idle = [Down EXCEPT !.ring = core[c].ring]
    OBVIOUS
  <1>13. idle \in CoreState /\ idle.ring = core[c].ring /\ idle.pc = "idle" /\ idle.write = Nil
    <2>1. PICK none : none = Down
      OBVIOUS
    <2>2. none \in CoreState /\ none.pc = "idle" /\ none.write = Nil
      BY <2>1, NothingTyped
    <2>3. idle = [none EXCEPT !.ring = core[c].ring]
      BY <1>12, <2>1
    <2> QED
      BY <1>3, <2>2, <2>3 DEF CoreState
  <1>14. core'[c] = idle /\ (\A d \in Cores \ {c} : core'[d] = core[d]) /\ core' \in [Cores -> CoreState]
    BY <1>10, <1>12, <1>13 DEF AuditInv, AuditTypeOK
  <1>15. AuditTypeOK'
    BY <1>10, <1>11, <1>14 DEF AuditInv, AuditTypeOK
  <1>16. Chained' = Chained \cup {w} /\ w \notin Chained
    <2>1. w \notin Chained
      BY <1>3, NothingTyped DEF Chained
    <2>2. new.seq > 0
      BY <1>5, <1>9
    <2> QED
      BY <1>3, <1>9, <1>11, <2>1, <2>2 DEF Chained
  <1>17. \A v \in Chained : v # w /\ auditLogs'[v] = auditLogs[v] /\ v \in Writes
    BY <1>11, <1>16 DEF Chained
  <1>18. Newest(w)'
    <2>1. w \in Chained'
      BY <1>16
    <2>2. \A v \in Chained' : auditLogs'[v].seq <= next
      BY <1>5, <1>6, <1>9, <1>11, <1>16, <1>17
    <2>3. auditLogs'[w].seq = next
      BY <1>9, <1>11
    <2> QED
      BY <2>1, <2>2, <2>3 DEF Newest
  <1>19. SeqsApart'
    <2>1. \A v \in Chained : auditLogs'[v].seq = auditLogs[v].seq /\ auditLogs'[v].seq # next
      BY <1>5, <1>6, <1>17
    <2>2. auditLogs'[w].seq = next
      BY <1>9, <1>11
    <2>3. SeqsApart
      BY DEF AuditInv, TableInv
    <2> QED
      BY <1>16, <2>1, <2>2, <2>3 DEF SeqsApart
  <1>20. Linked'
    <2>1. Linked /\ SeqsApart
      BY DEF AuditInv, TableInv
    <2>2. ASSUME NEW v \in Chained'
          PROVE  /\ auditLogs'[v].text \in {v, Nil} /\ auditLogs'[v].chainKeyID \in AuditKeys
                 /\ auditLogs'[v].entryHash = Tag(auditLogs'[v].prevHash, auditLogs'[v].seq, v, auditLogs'[v].chainKeyID)
                 /\ auditLogs'[v].seq = 1 => auditLogs'[v].prevHash = <<>>
      <3>1. CASE v = w
        <4>1. auditLogs'[v] = new
          BY <1>11, <3>1
        <4>2. next # 1
          <5>1. auditLogs[h].seq \in Nat /\ auditLogs[h].seq > 0
            BY <1>1, ChainedTyped DEF AuditInv, Newest, Chained
          <5> QED
            BY <1>1, <1>2, <5>1
        <4> QED
          BY <1>4, <1>9, <3>1, <4>1, <4>2
      <3>2. CASE v # w
        <4>1. v \in Chained /\ auditLogs'[v] = auditLogs[v]
          BY <1>16, <1>17, <3>2
        <4> QED
          BY <2>1, <4>1 DEF Linked
      <3> QED
        BY <3>1, <3>2
    <2>3. ASSUME NEW u \in Chained', NEW v \in Chained', auditLogs'[v].seq = auditLogs'[u].seq + 1
          PROVE  auditLogs'[v].prevHash = auditLogs'[u].entryHash
      <3>1. u # w
        <4>1. auditLogs'[v].seq \in Nat /\ auditLogs'[v].seq <= auditLogs'[w].seq
          BY <1>5, <1>6, <1>9, <1>11, <1>16, <1>17
        <4> QED
          BY <1>5, <1>9, <1>11, <2>3, <4>1
      <3>2. u \in Chained /\ auditLogs'[u] = auditLogs[u]
        BY <1>16, <1>17, <3>1
      <3>3. CASE v = w
        <4>1. auditLogs[u].seq = auditLogs[h].seq /\ h \in Chained
          BY <1>1, <1>2, <1>6, <1>9, <1>11, <2>3, <3>2, <3>3 DEF Newest
        <4>2. u = h
          BY <2>1, <3>2, <4>1 DEF SeqsApart
        <4> QED
          BY <1>1, <1>2, <1>9, <1>11, <3>2, <3>3, <4>2
      <3>4. CASE v # w
        <4>1. v \in Chained /\ auditLogs'[v] = auditLogs[v]
          BY <1>16, <1>17, <3>4
        <4> QED
          BY <2>1, <2>3, <3>2, <4>1 DEF Linked
      <3> QED
        BY <3>3, <3>4
    <2> QED
      BY <2>2, <2>3 DEF Linked
  <1>21. SeqsCounted'
    <2>1. Made' = Made \cup {w}
      BY <1>3, <1>9, <1>11 DEF Made
    <2>2. Cardinality(Made') = Cardinality(Made) + 1 /\ Cardinality(Made) \in Nat
      BY <1>1, <1>2, <1>3, <2>1, NumberLeft
    <2>3. \A v \in Chained : auditLogs[v].seq <= Cardinality(Made)
      BY DEF AuditInv, TableInv, SeqsCounted
    <2>4. next <= Cardinality(Made')
      BY <1>1, <1>2, <1>6, <2>2, <2>3 DEF Newest
    <2>5. \A v \in Chained : auditLogs'[v].seq <= Cardinality(Made')
      BY <1>6, <1>17, <2>2, <2>3
    <2> QED
      BY <1>9, <1>11, <1>16, <2>4, <2>5 DEF SeqsCounted
  <1>22. NoEntryLost'
    BY <1>9, <1>11 DEF AuditInv, TableInv, NoEntryLost
  <1>23. KeysKept'
    <2>1. ASSUME ~abandoned', NEW r \in FullRings
          PROVE  /\ key \in KeysOf[r] /\ \A v \in Chained : auditLogs[v].chainKeyID \in KeysOf[r]
                 /\ \A d \in Cores : core[d].ring # Nil => KeysOf[core[d].ring] \subseteq KeysOf[r]
      BY <1>3, <1>4, <1>10, <2>1 DEF AuditInv, KeysKept
    <2>2. \A d \in Cores : core'[d].ring = core[d].ring
      BY <1>13, <1>14
    <2>3. \A v \in Chained : auditLogs'[v].chainKeyID = auditLogs[v].chainKeyID
      BY <1>17
    <2>4. auditLogs'[w].chainKeyID = key
      BY <1>9, <1>11
    <2> QED
      BY <1>16, <2>1, <2>2, <2>3, <2>4 DEF KeysKept
  <1>24. ASSUME NEW d \in Cores
         PROVE  WriterInv(d)'
    <2>1. CASE d = c
      <3>1. core'[d] = idle /\ chainLock' = Nil /\ d # Nil
        BY <1>10, <1>14, <2>1, OneCore
      <3> QED
        BY <1>13, <3>1 DEF WriterInv
    <2>2. CASE d # c
      <3>1. core'[d] = core[d] /\ chainLock # d /\ chainLock' # d /\ WriterInv(d)
        BY <1>3, <1>10, <1>14, <2>2, OneCore
      <3>2. core[d].pc \notin {"reading", "inserting"}
        BY <3>1 DEF WriterInv
      <3>3. core[d].pc # "idle" => core[d].write \in Writes \ {w}
        <4>1. core[d].write # Nil => core[d].write # core[c].write
          BY <2>2 DEF AuditInv, WritesApart
        <4> QED
          BY <1>2, <1>4, <3>1, <4>1 DEF WriterInv
      <3> QED
        BY <1>11, <3>1, <3>2, <3>3 DEF WriterInv
    <2> QED
      BY <2>1, <2>2
  <1>25. WritesApart'
    BY <1>13, <1>14 DEF AuditInv, WritesApart
  <1> QED
    BY <1>3, <1>15, <1>18, <1>19, <1>20, <1>21, <1>22, <1>23, <1>24, <1>25 DEF AuditInv, TableInv

\* Rows change their text or go, and the newest entry stays.
LEMMA TableShrinks ==
    ASSUME AuditInv, UNCHANGED <<core, chainLock, abandoned>>, auditLogs' \in [Writes -> AuditRow],
           \A w \in Writes : (auditLogs'[w].state = "NONE" <=> auditLogs[w].state = "NONE") /\ auditLogs'[w].state # "LOST",
           \A w \in Writes : auditLogs[w] = NoEntry => auditLogs'[w] = NoEntry,
           \A w \in Chained' : /\ w \in Chained /\ auditLogs'[w].text \in {auditLogs[w].text, Nil}
                               /\ auditLogs'[w].seq = auditLogs[w].seq /\ auditLogs'[w].prevHash = auditLogs[w].prevHash
                               /\ auditLogs'[w].entryHash = auditLogs[w].entryHash /\ auditLogs'[w].chainKeyID = auditLogs[w].chainKeyID,
           \A h \in Writes : Newest(h) => h \in Chained'
    PROVE  AuditInv'
  <1>0. PICK rows, stay : rows = auditLogs' /\ stay = Chained'
    OBVIOUS
  <1>1. \A w \in stay : /\ w \in Chained /\ rows[w].text \in {auditLogs[w].text, Nil}
                        /\ rows[w].seq = auditLogs[w].seq /\ rows[w].prevHash = auditLogs[w].prevHash
                        /\ rows[w].entryHash = auditLogs[w].entryHash /\ rows[w].chainKeyID = auditLogs[w].chainKeyID
    BY <1>0
  <1>2. AuditTypeOK'
    BY DEF AuditInv, AuditTypeOK
  <1>3. ASSUME NEW h \in Writes, Newest(h) PROVE Newest(h)' /\ rows[h].seq = auditLogs[h].seq /\ rows[h].entryHash = auditLogs[h].entryHash
    <2>1. h \in stay /\ \A w \in stay : rows[w].seq <= rows[h].seq
      BY <1>0, <1>1, <1>3 DEF Newest
    <2> QED
      BY <1>0, <1>1, <2>1 DEF Newest
  <1>4. \E h \in Writes : Newest(h)'
    BY <1>3 DEF AuditInv, TableInv
  <1>5. SeqsApart'
    <2>1. \A v, w \in stay : rows[v].seq = rows[w].seq => v = w
      BY <1>1 DEF AuditInv, TableInv, SeqsApart
    <2> QED
      BY <1>0, <2>1 DEF SeqsApart
  <1>6. Linked'
    <2>1. \A w \in stay :
            /\ rows[w].text \in {w, Nil} /\ rows[w].chainKeyID \in AuditKeys
            /\ rows[w].entryHash = Tag(rows[w].prevHash, rows[w].seq, w, rows[w].chainKeyID)
            /\ rows[w].seq = 1 => rows[w].prevHash = <<>>
      BY <1>1 DEF AuditInv, TableInv, Linked
    <2>2. \A v, w \in stay : rows[w].seq = rows[v].seq + 1 => rows[w].prevHash = rows[v].entryHash
      BY <1>1 DEF AuditInv, TableInv, Linked
    <2> QED
      BY <1>0, <2>1, <2>2 DEF Linked
  <1>7. SeqsCounted'
    <2>1. Made' = Made
      BY DEF Made
    <2>2. \A w \in stay : rows[w].seq <= Cardinality(Made)
      BY <1>1 DEF AuditInv, TableInv, SeqsCounted
    <2> QED
      BY <1>0, <2>1, <2>2 DEF SeqsCounted
  <1>8. NoEntryLost'
    BY DEF NoEntryLost
  <1>9. KeysKept'
    <2>1. abandoned' = abandoned /\ core' = core
      OBVIOUS
    <2>2. \A r : (\A w \in Chained : auditLogs[w].chainKeyID \in KeysOf[r]) => \A w \in stay : rows[w].chainKeyID \in KeysOf[r]
      BY <1>1
    <2> QED
      BY <1>0, <2>1, <2>2 DEF AuditInv, KeysKept
  <1>10. ASSUME NEW c \in Cores PROVE WriterInv(c)'
    <2>1. WriterInv(c) /\ core' = core /\ chainLock' = chainLock
      BY DEF AuditInv
    <2>2. core[c].pc # "idle" => auditLogs'[core[c].write] = NoEntry
      BY <2>1 DEF WriterInv
    <2>3. core[c].pc = "inserting" => \E h \in Writes : Newest(h)' /\ core[c].seq = auditLogs'[h].seq + 1 /\ core[c].prev = auditLogs'[h].entryHash
      BY <1>0, <1>3, <2>1 DEF WriterInv
    <2> QED
      BY <2>1, <2>2, <2>3 DEF WriterInv
  <1>11. WritesApart'
    BY DEF AuditInv, WritesApart
  <1> QED
    BY <1>2, <1>4, <1>5, <1>6, <1>7, <1>8, <1>9, <1>10, <1>11 DEF AuditInv, TableInv

\* Retention leaves the newest entry.
LEMMA AuditPrune ==
    ASSUME AuditInv, NEW n, Prune(n)
    PROVE  AuditInv'
  <1>1. PICK gone : gone = [NoEntry EXCEPT !.state = "GONE"]
    OBVIOUS
  <1>2. gone \in AuditRow /\ gone.state = "GONE"
    BY <1>1, NothingTyped DEF NoEntry, AuditRow
  <1>3. /\ auditLogs' = [w \in Writes |-> IF auditLogs[w].state = "STORED" /\ auditLogs[w].seq <= n THEN gone ELSE auditLogs[w]]
        /\ UNCHANGED <<core, chainLock, abandoned>>
    BY <1>1 DEF Prune
  <1>4. ASSUME NEW w \in Writes
        PROVE  auditLogs'[w] = auditLogs[w] \/ (auditLogs'[w] = gone /\ auditLogs[w].state = "STORED" /\ auditLogs[w].seq <= n)
    BY <1>3
  <1>5. auditLogs' \in [Writes -> AuditRow] /\ \A w \in Writes : auditLogs[w] \in AuditRow
    BY <1>2, <1>3 DEF AuditInv, AuditTypeOK
  <1>6. ASSUME NEW h \in Writes, Newest(h) PROVE h \in Chained'
    <2>1. HeadSeq = auditLogs[h].seq
      BY <1>6, NewestRead DEF AuditInv, TableInv
    <2>2. h \in Chained /\ auditLogs[h].seq \in Nat
      BY <1>6, ChainedTyped DEF AuditInv, Newest
    <2>3. n < auditLogs[h].seq
      <3>1. PICK w \in Chained : n = auditLogs[w].seq
        BY DEF Prune, Seqs
      <3>2. n # auditLogs[h].seq
        BY <2>1 DEF Prune
      <3> QED
        BY <1>6, <2>2, <3>1, <3>2, ChainedTyped DEF AuditInv, Newest
    <2>4. auditLogs'[h] = auditLogs[h]
      <3>1. n \in Nat
        BY ChainedTyped DEF AuditInv, Prune, Seqs
      <3> QED
        BY <1>4, <2>2, <2>3, <3>1
    <2> QED
      BY <2>2, <2>4 DEF Chained
  <1>7. \A w \in Chained' : w \in Chained /\ auditLogs'[w] = auditLogs[w]
    BY <1>2, <1>4 DEF Chained
  <1>8. \A w \in Writes : (auditLogs'[w].state = "NONE" <=> auditLogs[w].state = "NONE") /\ auditLogs'[w].state # "LOST"
    BY <1>2, <1>4 DEF AuditInv, TableInv, NoEntryLost
  <1>9. \A w \in Writes : auditLogs[w] = NoEntry => auditLogs'[w] = NoEntry
    BY <1>4, NothingTyped
  <1> QED
    BY <1>3, <1>5, <1>6, <1>7, <1>8, <1>9, TableShrinks

\* An entry is amended, or one that is not the newest erased.
LEMMA AuditTampered ==
    ASSUME AuditInv, NEW w \in Writes, Amend(w) \/ Erase(w)
    PROVE  AuditInv'
  <1>1. PICK new : /\ auditLogs' = [auditLogs EXCEPT ![w] = new] /\ UNCHANGED <<core, chainLock, abandoned>>
                   /\ w \in Chained /\ new \in AuditRow
                   /\ \/ new.state = "GONE" /\ auditLogs[w].seq # HeadSeq
                      \/ /\ new.state = "STORED" /\ new.text = Nil /\ new.seq = auditLogs[w].seq /\ new.prevHash = auditLogs[w].prevHash
                         /\ new.entryHash = auditLogs[w].entryHash /\ new.chainKeyID = auditLogs[w].chainKeyID
    <2>1. CASE Amend(w)
      <3>1. w \in Chained /\ auditLogs[w] \in AuditRow /\ auditLogs[w].state = "STORED"
        BY <2>1, ChainedTyped DEF Amend, AuditInv
      <3>2. PICK new : new = [auditLogs[w] EXCEPT !.text = Nil]
        OBVIOUS
      <3>3. /\ new.state = "STORED" /\ new.text = Nil /\ new.seq = auditLogs[w].seq /\ new.prevHash = auditLogs[w].prevHash
            /\ new.entryHash = auditLogs[w].entryHash /\ new.chainKeyID = auditLogs[w].chainKeyID /\ new \in AuditRow
        BY <3>1, <3>2 DEF AuditRow
      <3> QED
        BY <2>1, <3>1, <3>2, <3>3 DEF Amend, AuditInv, AuditTypeOK
    <2>2. CASE Erase(w)
      <3>1. [NoEntry EXCEPT !.state = "GONE"] \in AuditRow /\ [NoEntry EXCEPT !.state = "GONE"].state = "GONE"
        BY NothingTyped DEF NoEntry, AuditRow
      <3> QED
        BY <2>2, <3>1 DEF Erase
    <2> QED
      BY <2>1, <2>2
  <1>2. auditLogs'[w] = new /\ (\A v \in Writes \ {w} : auditLogs'[v] = auditLogs[v]) /\ auditLogs' \in [Writes -> AuditRow]
    BY <1>1 DEF AuditInv, AuditTypeOK
  <1>3. auditLogs[w].state = "STORED" /\ auditLogs[w].seq \in Nat /\ auditLogs[w].seq > 0
    BY <1>1, ChainedTyped DEF AuditInv, Chained
  <1>4. ASSUME NEW h \in Writes, Newest(h) PROVE h \in Chained'
    <2>1. HeadSeq = auditLogs[h].seq /\ h \in Chained
      BY <1>4, NewestRead DEF AuditInv, TableInv, Newest
    <2>2. CASE h = w
      BY <1>1, <1>2, <1>3, <2>1, <2>2 DEF Chained
    <2>3. CASE h # w
      BY <1>2, <2>1, <2>3 DEF Chained
    <2> QED
      BY <2>2, <2>3
  <1>5. ASSUME NEW v \in Chained'
        PROVE  /\ v \in Chained /\ auditLogs'[v].text \in {auditLogs[v].text, Nil}
               /\ auditLogs'[v].seq = auditLogs[v].seq /\ auditLogs'[v].prevHash = auditLogs[v].prevHash
               /\ auditLogs'[v].entryHash = auditLogs[v].entryHash /\ auditLogs'[v].chainKeyID = auditLogs[v].chainKeyID
    <2>1. CASE v = w
      BY <1>1, <1>2, <2>1 DEF Chained
    <2>2. CASE v # w
      BY <1>2, <2>2 DEF Chained
    <2> QED
      BY <2>1, <2>2
  <1>6. \A v \in Writes : (auditLogs'[v].state = "NONE" <=> auditLogs[v].state = "NONE") /\ auditLogs'[v].state # "LOST"
    BY <1>1, <1>2, <1>3 DEF AuditInv, TableInv, NoEntryLost
  <1>7. \A v \in Writes : auditLogs[v] = NoEntry => auditLogs'[v] = NoEntry
    BY <1>2, <1>3, NothingTyped
  <1> QED
    BY <1>1, <1>2, <1>4, <1>5, <1>6, <1>7, TableShrinks

\* Every step of the audit log.
LEMMA AuditStepInv == AuditInv /\ [AuditNext]_auditVars => AuditInv'
  <1> SUFFICES ASSUME AuditInv, [AuditNext]_auditVars PROVE AuditInv'
    OBVIOUS
  <1>1. ASSUME NEW c \in Cores, NEW r \in Rings, StartCore(c, r) \/ \E w \in Writes : StartAbandoning(c, r, w) PROVE AuditInv'
    BY <1>1, AuditStart
  <1>2. ASSUME NEW c \in Cores, (\E w \in Writes : BeginWrite(c, w)) \/ TakeLock(c) PROVE AuditInv'
    BY <1>2, AuditBegin
  <1>3. ASSUME NEW c \in Cores, ReadHead(c) PROVE AuditInv'
    BY <1>3, AuditRead
  <1>4. ASSUME NEW c \in Cores, InsertEntry(c) PROVE AuditInv'
    BY <1>4, AuditInsert
  <1>5. ASSUME NEW c \in Cores, StopCore(c) PROVE AuditInv'
    BY <1>5, AuditStop
  <1>6. ASSUME NEW n \in 1 .. Cardinality(Writes), Prune(n) PROVE AuditInv'
    BY <1>6, AuditPrune
  <1>7. ASSUME NEW w \in Writes, Amend(w) \/ Erase(w) PROVE AuditInv'
    BY <1>7, AuditTampered
  <1>8. ASSUME UNCHANGED auditVars PROVE AuditInv'
    BY <1>8 DEF auditVars, AuditInv, AuditTypeOK, TableInv, Newest, SeqsApart, Linked, SeqsCounted, NoEntryLost, KeysKept, WriterInv,
                WritesApart, Chained, Made
  <1> QED
    BY <1>1, <1>2, <1>3, <1>4, <1>5, <1>6, <1>7, <1>8 DEF AuditNext

\* The entries a walk may visit, by their numbers.
LEMMA WalkNumbers ==
    ASSUME AuditInv
    PROVE  /\ Seqs \subseteq 1 .. Cardinality(Writes) /\ Cardinality(Writes) \in Nat
           /\ \A w \in Chained : auditLogs[w].seq \in Seqs /\ At(auditLogs[w].seq) = w
           /\ \A n \in Seqs : At(n) \in Chained /\ auditLogs[At(n)].seq = n
  <1>1. Seqs \subseteq 1 .. Cardinality(Writes)
    BY ChainedTyped DEF AuditInv, Seqs
  <1>2. \A n \in Seqs : At(n) \in Chained /\ auditLogs[At(n)].seq = n
    BY FoundAt DEF AuditInv, TableInv
  <1>3. \A w \in Chained : auditLogs[w].seq \in Seqs
    BY DEF Seqs
  <1>4. \A w \in Chained : At(auditLogs[w].seq) = w
    BY <1>2, <1>3 DEF AuditInv, TableInv, SeqsApart
  <1> QED
    BY <1>1, <1>2, <1>3, <1>4, AuditChainAssumption, FS_CardinalityType

\* A walk of all entries visits all of them.
LEMMA FullWalk == AuditInv => Walked(1, AllLimit) = Seqs
  <1> SUFFICES ASSUME AuditInv PROVE Walked(1, AllLimit) = Seqs
    OBVIOUS
  <1>1. ASSUME NEW n \in Seqs
        PROVE  n >= 1 /\ Cardinality({m \in Seqs : 1 <= m /\ m <= n}) <= AllLimit
    <2>1. PICK S : S = {m \in Seqs : 1 <= m /\ m <= n}
      OBVIOUS
    <2>2. PICK N \in Nat : N = Cardinality(Writes)
      BY WalkNumbers
    <2>3. S \subseteq 1 .. N /\ n >= 1
      BY <2>1, <2>2, WalkNumbers
    <2>4. IsFiniteSet(1 .. N) /\ Cardinality(1 .. N) = N
      BY <2>2, FS_Interval
    <2>5. Cardinality(S) <= N
      BY <2>3, <2>4, FS_Subset
    <2> QED
      BY <2>1, <2>2, <2>3, <2>5 DEF AllLimit
  <1> QED
    BY <1>1 DEF Walked

\* What is amended, or missing between two others, is reported.
LEMMA TamperingIsShown == AuditInv => TamperingShows
  <1> SUFFICES ASSUME AuditInv, ~Untouched \/ ~NoGap, NEW ring \in Rings, Intact(1, AllLimit, ring) PROVE FALSE
    BY DEF TamperingShows
  <1>1. ASSUME NEW n \in Seqs
        PROVE  /\ (\E m \in Seqs : m < n) => n - 1 \in Seqs
               /\ TagHolds(auditLogs[At(n)], ring)
    BY <1>1, FullWalk DEF Intact
  <1>2. CASE ~Untouched
    <2>1. PICK w \in Chained : auditLogs[w].text # w
      BY <1>2 DEF Untouched
    <2>2. TagHolds(auditLogs[w], ring) /\ Linked
      BY <1>1, <2>1, WalkNumbers DEF AuditInv, TableInv
    <2>3. PICK prev \in Seq(Covered), seq \in 1 .. Cardinality(Writes), text \in {w, Nil}, key \in AuditKeys :
            prev = auditLogs[w].prevHash /\ seq = auditLogs[w].seq /\ text = auditLogs[w].text /\ key = auditLogs[w].chainKeyID
      BY <2>2, ChainedTyped DEF AuditInv, Linked
    <2>4. Tag(prev, seq, w, key) = Tag(prev, seq, text, key)
      BY <2>2, <2>3 DEF TagHolds, Linked
    <2>5. PICK a, b : a = Canonical(seq, w, key) /\ b = Canonical(seq, text, key)
      OBVIOUS
    <2>6. a.text = w /\ b.text = text
      BY <2>5 DEF Canonical
    <2>7. a \in Covered /\ b \in Covered
      <3>1. w \in Writes /\ seq \in Nat
        BY WalkNumbers, ChainedTyped DEF AuditInv
      <3> QED
        BY <2>5, <3>1 DEF Canonical, Covered
    <2>8. Append(prev, a) = Append(prev, b)
      BY <2>4, <2>5 DEF Tag
    <2>9. a = b
      BY <2>7, <2>8
    <2> QED
      BY <2>1, <2>3, <2>6, <2>9
  <1>3. CASE ~NoGap
    <2>1. PICK n \in Seqs : n # Max(Seqs) /\ n + 1 \notin Seqs
      BY <1>3 DEF NoGap
    <2>2. \E m \in Seqs : m > n
      <3>1. ASSUME \A m \in Seqs : m <= n PROVE n = Max(Seqs)
        <4>1. PICK M : M = Max(Seqs)
          OBVIOUS
        <4>2. M \in Seqs /\ \A m \in Seqs : M >= m
          BY <3>1, <4>1, WalkNumbers DEF Max
        <4> QED
          BY <3>1, <4>1, <4>2, WalkNumbers
      <3> QED
        BY <2>1, <3>1, WalkNumbers
    <2>3. n \in Nat /\ Seqs \subseteq Nat
      BY WalkNumbers
    <2>4. PICK m \in Seqs : m > n /\ \A k \in Seqs : k > n => m <= k
      BY <2>2, <2>3, FirstAbove
    <2>5. m - 1 \in Seqs
      BY <1>1, <2>1, <2>4
    <2>6. m - 1 # n /\ m \in Nat
      BY <2>1, <2>3, <2>4
    <2> QED
      BY <2>3, <2>4, <2>5, <2>6
  <1> QED
    BY <1>2, <1>3

\* Without a gap the number before one that is not the lowest is there.
LEMMA NumberBefore ==
    ASSUME AuditInv, NoGap, NEW n \in Seqs, NEW k \in Seqs, k < n
    PROVE  n - 1 \in Seqs
  <1>1. n \in Nat /\ k \in Nat
    BY WalkNumbers
  <1>2. PICK M : M = Max(Seqs)
    OBVIOUS
  <1>3. M >= n
    <2>1. \E h \in Seqs : \A m \in Seqs : h >= m
      <3>1. PICK h \in Writes : Newest(h)
        BY DEF AuditInv, TableInv
      <3>2. \A w \in Chained : auditLogs[w].seq \in Nat /\ auditLogs[h].seq \in Nat /\ auditLogs[h].seq >= auditLogs[w].seq
        BY <3>1, ChainedTyped DEF AuditInv, Newest
      <3> QED
        BY <3>1, <3>2 DEF Newest, Seqs
    <2> QED
      BY <1>2, <2>1 DEF Max
  <1>4. ASSUME n - 1 \notin Seqs PROVE FALSE
    <2>1. PICK Unstored : Unstored = Nat \ Seqs
      OBVIOUS
    <2>2. n - 1 \in Unstored /\ n - 1 > k
      BY <1>1, <1>4, <2>1
    <2>3. PICK f \in Unstored : f > k /\ \A g \in Unstored : g > k => f <= g
      BY <1>1, <2>1, <2>2, FirstAbove
    <2>4. f \in Nat /\ f <= n - 1 /\ f - 1 \in Nat
      BY <1>1, <2>1, <2>2, <2>3
    <2>5. f - 1 \in Seqs
      <3>1. f - 1 = k \/ f - 1 \notin Unstored
        BY <1>1, <2>3, <2>4
      <3> QED
        BY <2>1, <2>4, <3>1
    <2>6. f - 1 # M
      BY <1>1, <1>3, <2>4
    <2>7. f - 1 + 1 = f
      BY <2>4
    <2>8. f \in Seqs
      BY <1>2, <2>5, <2>6, <2>7 DEF NoGap
    <2> QED
      BY <2>1, <2>3, <2>8
  <1> QED
    BY <1>4

\* A full keyring checks every stretch of an untouched chain.
LEMMA ChainIsCheckable == AuditInv => ChainStaysCheckable
  <1> SUFFICES ASSUME AuditInv, ~abandoned, Untouched, NoGap, NEW r \in FullRings, NEW from \in Seqs, NEW limit \in 1 .. AllLimit
               PROVE  Intact(from, limit, r)
    BY DEF ChainStaysCheckable
  <1>1. PICK walk : walk = Walked(from, limit)
    OBVIOUS
  <1>2. ASSUME NEW n \in walk
        PROVE  TagHolds(auditLogs[At(n)], r)
    <2>1. n \in Seqs
      BY <1>1 DEF Walked
    <2>2. PICK w \in Chained : w = At(n)
      BY <2>1, WalkNumbers
    <2>3. auditLogs[w].text = w /\ auditLogs[w].chainKeyID \in KeysOf[r]
      BY DEF Untouched, AuditInv, KeysKept
    <2> QED
      BY <2>2, <2>3 DEF TagHolds, AuditInv, TableInv, Linked
  <1>3. ASSUME NEW n \in walk, NEW k \in walk, k < n
        PROVE  n - 1 \in walk /\ auditLogs[At(n)].prevHash = auditLogs[At(n - 1)].entryHash
    <2>1. n \in Seqs /\ k \in Seqs /\ k >= from /\ Cardinality({m \in Seqs : from <= m /\ m <= n}) <= limit
      BY <1>1 DEF Walked
    <2>2. n - 1 \in Seqs
      BY <1>3, <2>1, NumberBefore
    <2>3. n \in Nat /\ k \in Nat /\ from \in Nat
      BY <2>1, WalkNumbers
    <2>4. PICK S, T : S = {m \in Seqs : from <= m /\ m <= n - 1} /\ T = {m \in Seqs : from <= m /\ m <= n}
      OBVIOUS
    <2>5. S \subseteq T
      <3>1. \A m \in Seqs : m <= n - 1 => m <= n
        BY <2>3, WalkNumbers
      <3> QED
        BY <2>4, <3>1
    <2>6. IsFiniteSet(T)
      <3>1. PICK N \in Nat : N = Cardinality(Writes)
        BY WalkNumbers
      <3>2. T \subseteq 1 .. N
        BY <2>4, <3>1, WalkNumbers
      <3>3. IsFiniteSet(1 .. N)
        BY <3>1, FS_Interval
      <3> QED
        BY <3>2, <3>3, FS_Subset
    <2>7. Cardinality(S) \in Nat /\ Cardinality(T) \in Nat /\ Cardinality(S) <= Cardinality(T)
      BY <2>5, <2>6, FS_Subset, FS_CardinalityType
    <2>8. limit \in Nat
      BY WalkNumbers DEF AllLimit
    <2>9. n - 1 >= from /\ Cardinality(S) <= limit
      BY <1>3, <2>1, <2>3, <2>4, <2>7, <2>8
    <2>10. n - 1 \in walk
      BY <1>1, <2>2, <2>4, <2>9 DEF Walked
    <2>11. PICK v, w \in Chained : v = At(n - 1) /\ w = At(n) /\ auditLogs[v].seq = n - 1 /\ auditLogs[w].seq = n
      BY <2>1, <2>2, WalkNumbers
    <2>12. auditLogs[w].prevHash = auditLogs[v].entryHash
      <3>1. auditLogs[w].seq = auditLogs[v].seq + 1
        BY <2>3, <2>11
      <3> QED
        BY <3>1 DEF AuditInv, TableInv, Linked
    <2> QED
      BY <2>10, <2>11, <2>12
  <1>4. ASSUME NEW n \in walk, n = 1
        PROVE  auditLogs[At(n)].prevHash = <<>>
    <2>1. n \in Seqs
      BY <1>1 DEF Walked
    <2>2. PICK w \in Chained : w = At(n) /\ auditLogs[w].seq = n
      BY <2>1, WalkNumbers
    <2> QED
      BY <1>4, <2>2 DEF AuditInv, TableInv, Linked
  <1> QED
    BY <1>1, <1>2, <1>3, <1>4 DEF Intact

\* What the invariant says of the properties.
LEMMA AuditSays == AuditInv => AuditTypeOK /\ ChainStaysCheckable /\ NoEntryLost /\ TamperingShows
  BY TamperingIsShown, ChainIsCheckable DEF AuditInv, TableInv
=============================================================================
