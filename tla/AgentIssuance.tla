--------------------------- MODULE AgentIssuance ---------------------------
(***************************************************************************)
(* What a host's agent may obtain: grants, and issuance with keys made on  *)
(* the host. Requests of one host overlap when its agent has given up      *)
(* waiting and asks again.                                                 *)
(***************************************************************************)
EXTENDS Integers, FiniteSets, Common

CONSTANTS
    Hosts,          \* enrolled agents
    HostNames,      \* names that can be asked for
    HostKeyTypes,   \* types of the keys hosts make
    Grants,         \* template grants that exist
    GrantNames,     \* [Grants -> SUBSET HostNames]: the names a grant covers
    GrantHosts,     \* [Grants -> SUBSET Hosts]: agent_id, or the label selector matches
    HostRecs,       \* row identities of certificates
    Asks,           \* certificate requests in flight at once
    MaxMade         \* bound: certificates the CA signs

ASSUME IssuanceAssumption ==
    /\ GrantNames \in [Grants -> SUBSET HostNames] /\ GrantHosts \in [Grants -> SUBSET Hosts]
    /\ MaxMade \in Nat
    /\ Nil \notin HostRecs \cup Hosts \cup Grants \cup HostKeyTypes

VARIABLES
    grantRevoked,   \* [Grants -> BOOLEAN]
    hostRec,        \* [HostRecs -> HostRecRow]: certificates with key_custody AGENT
    ask,            \* [Asks -> AskState]
    made,           \* certificates the CA has signed
    crossed         \* history: hosts whose requests overlapped, or named a certificate that the answer
                    \* does not replace or replaces with a key of another type, or listed too many

issuanceVars == <<grantRevoked, hostRec, ask, made, crossed>>

HostRecRow == [status : {"none", "ISSUED", "REVOKED"}, holder : Hosts \cup {Nil},
               names : SUBSET HostNames, key : HostKeyTypes \cup {Nil}, fp : 0..MaxMade,
               grant : Grants \cup {Nil}]
AskState == [at : {"idle", "find", "sign", "record"}, host : Hosts \cup {Nil}, names : SUBSET HostNames,
             key : HostKeyTypes \cup {Nil}, grant : Grants \cup {Nil}, renews : HostRecs \cup {Nil}, over : HostRecs \cup {Nil},
             fp : 0..MaxMade]

NoRec == [status |-> "none", holder |-> Nil, names |-> {}, key |-> Nil, fp |-> 0, grant |-> Nil]
NoAsk == [at |-> "idle", host |-> Nil, names |-> {}, key |-> Nil, grant |-> Nil, renews |-> Nil, over |-> Nil, fp |-> 0]

IssuanceInit ==
    /\ grantRevoked = [g \in Grants |-> FALSE]
    /\ hostRec = [r \in HostRecs |-> NoRec]
    /\ ask = [q \in Asks |-> NoAsk]
    /\ made = 0 /\ crossed = {}

-----------------------------------------------------------------------------
GetGrantsForAgent(h) == {g \in Grants : ~grantRevoked[g] /\ h \in GrantHosts[g]}

\* Mutant of Authorise: every name is covered by some grant.
AuthoriseTogether(h, names) ==
    {g \in GetGrantsForAgent(h) : names \subseteq UNION {GrantNames[x] : x \in GetGrantsForAgent(h)}}

\* One grant has to cover the whole request.
Authorise(h, names) == {g \in GetGrantsForAgent(h) : names \subseteq GrantNames[g]}

\* A request that is refused by the grants or by the resolver changes nothing, nor
\* does one that names a certificate which does not exist.
Issue(q, h, names, key, renews) ==
    /\ ask[q].at = "idle" /\ names # {} /\ made < MaxMade
    /\ renews # Nil => hostRec[renews].status # "none"
    /\ \E g \in Authorise(h, names) :
          ask' = [ask EXCEPT ![q] = [NoAsk EXCEPT !.at = "find", !.host = h, !.names = names, !.key = key,
                                                  !.grant = g, !.renews = renews]]
    /\ crossed' = IF \E p \in Asks : ask[p].host = h THEN crossed \cup {h} ELSE crossed
    /\ UNCHANGED <<grantRevoked, hostRec, made>>

HeldHere(r, h) == hostRec[r].holder = h

Renewable(r, h, names) == HeldHere(r, h) /\ hostRec[r].status = "ISSUED" /\ hostRec[r].names = names

\* What a request that names no certificate may be a renewal of: the key type is
\* compared too, for a host may serve an RSA and an ECDSA certificate for the same
\* names side by side.
Matching(s) == {x \in HostRecs : Renewable(x, s.host, s.names) /\ hostRec[x].key = s.key}

\* Mutant of Replaces: only what the agent names is replaced.
ReplacesNamed(s, beyond) == IF s.renews # Nil /\ Renewable(s.renews, s.host, s.names) THEN {s.renews} ELSE {Nil}

\* The certificate written over: the named one, if it is alive and has these
\* names; without a name any that matches (the code takes the newest). The search
\* lists 500 certificates that have the first name in one of theirs, those that
\* expire first; beyond says that none of them matches any more, for there are too many.
Replaces(s, beyond) ==
    IF s.renews # Nil THEN (IF Renewable(s.renews, s.host, s.names) THEN {s.renews} ELSE {Nil})
    ELSE IF beyond \/ Matching(s) = {} THEN {Nil}
    ELSE Matching(s)

\* A certificate is named that the answer does not replace, or replaces by one
\* with a key of another type.
NamesAnother(s, r) == s.renews # Nil /\ (s.renews # r \/ hostRec[r].key # s.key)

\* Naming a certificate that does not exist or is another host's is refused.
FindReplaced(q) ==
    LET s == ask[q]
    IN /\ s.at = "find"
       /\ IF s.renews # Nil /\ ~HeldHere(s.renews, s.host)
          THEN ask' = [ask EXCEPT ![q] = NoAsk] /\ UNCHANGED crossed
          ELSE \E beyond \in BOOLEAN : \E r \in Replaces(s, beyond) :
                  /\ beyond => s.renews = Nil /\ Matching(s) # {}
                  /\ ask' = [ask EXCEPT ![q].at = "sign", ![q].over = r]
                  /\ crossed' = IF NamesAnother(s, r) \/ beyond THEN crossed \cup {s.host} ELSE crossed
       /\ UNCHANGED <<grantRevoked, hostRec, made>>

\* Mutant of Signed: the fingerprint of the request, not of the answer.
SignedUnread(s) == [s EXCEPT !.at = "record"]

Signed(s) == [s EXCEPT !.at = "record", !.fp = made + 1]

SignForHost(q) ==
    /\ ask[q].at = "sign"
    /\ \/ /\ made < MaxMade
          /\ made' = made + 1
          /\ ask' = [ask EXCEPT ![q] = Signed(@)]
       \/ ask' = [ask EXCEPT ![q] = NoAsk] /\ UNCHANGED made
    /\ UNCHANGED <<grantRevoked, hostRec, crossed>>

Unused == {r \in HostRecs : hostRec[r].status = "none"}

\* A new record, or the old one with the new material: the holder stays.
RecordForHost(q) ==
    LET s == ask[q]
        r == IF s.over # Nil THEN s.over ELSE CHOOSE x \in Unused : TRUE
    IN /\ s.at = "record"
       /\ \/ /\ IF s.over = Nil
                THEN /\ Unused # {}
                     /\ hostRec' = [hostRec EXCEPT ![r] = [status |-> "ISSUED", holder |-> s.host,
                                       names |-> s.names, key |-> s.key, fp |-> s.fp, grant |-> s.grant]]
                ELSE /\ hostRec[r].status = "ISSUED"
                     /\ hostRec' = [hostRec EXCEPT ![r].fp = s.fp, ![r].names = s.names, ![r].key = s.key,
                                                   ![r].grant = s.grant]
          \/ UNCHANGED hostRec
       /\ ask' = [ask EXCEPT ![q] = NoAsk]
       /\ UNCHANGED <<grantRevoked, made, crossed>>

RevokeTemplateGrant(g) ==
    /\ ~grantRevoked[g]
    /\ grantRevoked' = [grantRevoked EXCEPT ![g] = TRUE]
    /\ UNCHANGED <<hostRec, ask, made, crossed>>

RevokeHostCert(r) ==
    /\ hostRec[r].status = "ISSUED"
    /\ hostRec' = [hostRec EXCEPT ![r].status = "REVOKED"]
    /\ UNCHANGED <<grantRevoked, ask, made, crossed>>

IssuanceNext ==
    \/ \E q \in Asks :
          \/ \E h \in Hosts, names \in SUBSET HostNames, key \in HostKeyTypes, r \in HostRecs \cup {Nil} :
                Issue(q, h, names, key, r)
          \/ FindReplaced(q) \/ SignForHost(q) \/ RecordForHost(q)
    \/ \E g \in Grants : RevokeTemplateGrant(g)
    \/ \E r \in HostRecs : RevokeHostCert(r)

-----------------------------------------------------------------------------
IssuanceTypeOK ==
    /\ grantRevoked \in [Grants -> BOOLEAN]
    /\ hostRec \in [HostRecs -> HostRecRow]
    /\ ask \in [Asks -> AskState]
    /\ \A q \in Asks : ask[q].at = "record" => ask[q].fp \in 1..made
    /\ made \in 0..MaxMade /\ crossed \subseteq Hosts

\* Every certificate of a host was permitted as a whole by one grant that
\* applies to that host: permission is never put together from several grants,
\* and a renewal is never written over another host's certificate.
OneGrantPermits ==
    \A r \in HostRecs : hostRec[r].status # "none" =>
        /\ hostRec[r].names \subseteq GrantNames[hostRec[r].grant]
        /\ hostRec[r].holder \in GrantHosts[hostRec[r].grant]

\* A host that renews one request at a time has at most one live record for a
\* set of names and a key type: the certificate it replaced does not stay behind
\* and alert. A request that names a certificate which is revoked, or has other
\* names, gets a new record beside whichever the host has for the names it asks
\* for, and so does one for which the match is beyond the end of the listing; one
\* that names a certificate of another key type changes it to its own.
OneLivePerNames ==
    \A r, s \in HostRecs :
        /\ r # s /\ hostRec[r].status = "ISSUED" /\ hostRec[s].status = "ISSUED"
        /\ hostRec[r].names = hostRec[s].names /\ hostRec[r].key = hostRec[s].key
        => hostRec[r].holder # hostRec[s].holder \/ hostRec[r].holder \in crossed
=============================================================================
