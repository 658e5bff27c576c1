--------------------------- MODULE IssuanceRules ---------------------------
(***************************************************************************)
(* What a template and the enabled policies permit, and what a renewal     *)
(* asks for when they have changed. A template may be replaced and the     *)
(* policies may change at any time; a certificate is requested under them  *)
(* or was there before them, and is renewed under what is in force then.   *)
(***************************************************************************)
EXTENDS Integers, FiniteSets, FiniteSetsExt, Common

CONSTANTS
    Rulesets,       \* templates, as TemplateInput.template fills them in
    Policies,       \* what the enabled BLOCK policies add up to
    Owned           \* certificates as they may be found in the inventory

KeyTypes == <<"RSA", "ECDSA", "Ed25519">>
RSABits == {1024, 2048, 4096, 8192}
Curves == {256, 384, 521}
Keys == [type : {"RSA"}, size : RSABits] \cup [type : {"ECDSA"}, size : Curves] \cup [type : {"Ed25519"}, size : {256}]

\* first and second lie inside the first and the second suffix of a template that
\* has them, outside inside neither.
PlainNames == {"first", "second", "outside"}
Names == PlainNames \cup {"wildcard", "forbidden"}

\* rsaMin, rsaMax: zero sets no bound. suffixes: how many the template has; patterns:
\* whether it has some.
Ruleset ==
    [types : SUBSET {"RSA", "ECDSA", "Ed25519"}, rsaMin : {0} \cup RSABits, rsaMax : {0} \cup RSABits,
     curves : SUBSET Curves, wildcards : BOOLEAN, suffixes : 0..2, patterns : BOOLEAN]

\* rsaMin, ecdsaMin: key_size; forbidden: key_type; names: naming.
PolicySet ==
    [rsaMin : {0} \cup RSABits, ecdsaMin : {0} \cup Curves, forbidden : SUBSET {"RSA", "ECDSA", "Ed25519"}, names : SUBSET Names]

Held == [key : Keys, name : Names]

\* A template whose curves are left out is given all three.
ASSUME IssuanceRulesAssumption ==
    /\ Rulesets \subseteq Ruleset /\ Policies \subseteq PolicySet /\ Owned \subseteq Held
    /\ \A r \in Rulesets : r.curves = {} => "ECDSA" \notin r.types

VARIABLES
    rules,          \* the template
    policies,       \* the policies in force
    held,           \* the certificate, or Nil
    renewed         \* what the last renewal under the present rules did, or Nil

rulesVars == <<rules, policies, held, renewed>>

\* validateTemplateShape.
validShape(r) == r.types # {} /\ (r.rsaMin > 0 /\ r.rsaMax > 0 => r.rsaMax >= r.rsaMin)

RulesInit ==
    /\ rules \in Rulesets /\ validShape(rules) /\ policies \in Policies /\ held \in Owned \cup {Nil} /\ renewed = Nil

-----------------------------------------------------------------------------
(* The template and the policies, each on its own.                         *)

\* checkKey.
checkKey(r, k) ==
    /\ k.type \in r.types
    /\ k.type = "RSA" => (r.rsaMin > 0 => k.size >= r.rsaMin) /\ (r.rsaMax > 0 => k.size <= r.rsaMax)
    /\ k.type = "ECDSA" => r.curves = {} \/ k.size \in r.curves

\* checkNames.
checkNames(r, n) ==
    /\ n = "wildcard" => r.wildcards
    /\ n = "forbidden" => ~r.patterns
    /\ n = "outside" => r.suffixes = 0
    /\ n = "second" => r.suffixes # 1

\* evaluateKeySize, evaluateKeyType; an Ed25519 key has no size to raise.
policyKey(p, k) ==
    /\ k.type \notin p.forbidden
    /\ k.type = "RSA" => k.size >= p.rsaMin
    /\ k.type = "ECDSA" => k.size >= p.ecdsaMin

\* evaluateNaming: names are those the policies refuse.
policyName(p, n) == n \notin p.names

\* firstPermittedKeyType and defaultKeyType: the first of the three in this order.
firstKeyType(r) ==
    LET allowed == {i \in DOMAIN KeyTypes : KeyTypes[i] \in r.types} IN
    IF allowed = {} THEN Nil ELSE KeyTypes[Min(allowed)]

weakestCurve(curves) == IF curves = {} THEN 0 ELSE Min(curves)

\* Mutant of defaultKeySize: every curve is taken for P-256.
defaultKeySizeFixed(r, t) == IF t = "RSA" THEN IF r.rsaMin > 0 THEN r.rsaMin ELSE 2048 ELSE 256

defaultKeySize(r, t) ==
    CASE t = "RSA" -> IF r.rsaMin > 0 THEN r.rsaMin ELSE 2048
      [] t = "ECDSA" -> IF weakestCurve(r.curves) > 0 THEN weakestCurve(r.curves) ELSE 256
      [] OTHER -> 256

\* applyNamesAndKey, for a request that brings no key and names none.
defaultKey(r) == [type |-> firstKeyType(r), size |-> defaultKeySize(r, firstKeyType(r))]

-----------------------------------------------------------------------------
(* Saving a template.                                                      *)

\* Mutant of strongestCurve: the curve a request would get by default.
strongestCurveDefault(curves) == IF curves = {} THEN 521 ELSE Min(curves)

strongestCurve(curves) == IF curves = {} THEN 521 ELSE Max(curves)

\* templateProbes: the strongest key of each type, under a name inside the first suffix.
templateProbes(r) ==
    {CASE t = "RSA" -> [type |-> t, size |-> IF r.rsaMax = 0 THEN 8192 ELSE r.rsaMax]
       [] t = "ECDSA" -> [type |-> t, size |-> strongestCurve(r.curves)]
       [] OTHER -> [type |-> t, size |-> 256] : t \in r.types}

\* refuseIfNothingCouldEverBeIssued: naming counts only when the template has
\* suffixes, and then that of the first one, which probeName takes.
CouldIssue(r, p) == \E k \in templateProbes(r) : policyKey(p, k) /\ (r.suffixes > 0 => policyName(p, "first"))

SaveTemplate(r) ==
    /\ validShape(r) /\ CouldIssue(r, policies) /\ rules' = r
    /\ renewed' = Nil /\ UNCHANGED <<policies, held>>

ChangePolicies(p) == policies' = p /\ renewed' = Nil /\ UNCHANGED <<rules, held>>

-----------------------------------------------------------------------------
(* Requests and renewals.                                                  *)

\* Resolve, for a request that names a key.
Permitted(r, p, k, n) == checkKey(r, k) /\ checkNames(r, n) /\ policyKey(p, k) /\ policyName(p, n)

RequestCertificate(k, n) ==
    /\ held = Nil /\ Permitted(rules, policies, k, n)
    /\ held' = [key |-> k, name |-> n] /\ renewed' = Nil
    /\ UNCHANGED <<rules, policies>>

\* A type that is no longer issued is replaced, and its size is chosen afresh.
ReplacedKey(r, k) == IF k.type \in r.types THEN k ELSE [type |-> firstKeyType(r), size |-> 0]

\* Mutant of raisedSize: the size the template would give a new request.
raisedSizeDefault(r, k) == defaultKeySize(r, k.type)

raisedSize(r, k) ==
    CASE k.type = "RSA" -> IF Max({k.size, r.rsaMin}) > 0 THEN Max({k.size, r.rsaMin}) ELSE 2048
      [] k.type = "ECDSA" -> IF r.curves = {} \/ k.size \in r.curves THEN k.size ELSE weakestCurve(r.curves)
      [] OTHER -> IF k.size > 0 THEN k.size ELSE 256

\* applyTemplateFloor.
renewalKey(r, k) == LET base == ReplacedKey(r, k) IN [type |-> base.type, size |-> raisedSize(r, base)]

\* Mutant of templateMismatches: a template without suffixes says nothing of names.
templateMismatchesSuffixes(r, n) == r.suffixes > 0 /\ ((n = "wildcard" /\ ~r.wildcards) \/ n = "outside")

\* templateMismatches: the forbidden patterns are not looked at.
templateMismatches(r, n) ==
    \/ n = "wildcard" /\ ~r.wildcards
    \/ n = "outside" /\ r.suffixes > 0
    \/ n = "second" /\ r.suffixes = 1

\* conform and announceDrift: what cannot be mended is announced, and the renewal
\* goes ahead. tpl: the template could be read; otherwise it is ignored. pol: the
\* policies could be evaluated; otherwise what the template found is kept to itself.
\* (An executor without a policy engine judges by neither.)
Renew ==
    \E tpl, pol \in BOOLEAN :
        LET k == IF tpl THEN renewalKey(rules, held.key) ELSE held.key
            drift == \/ tpl /\ templateMismatches(rules, held.name)
                     \/ pol /\ (~policyKey(policies, k) \/ ~policyName(policies, held.name))
        IN  /\ held # Nil
            /\ held' = [held EXCEPT !.key = k]
            /\ renewed' = [from |-> held.key, tpl |-> tpl, pol |-> pol, announced |-> pol /\ drift]
            /\ UNCHANGED <<rules, policies>>

DeleteHeld == held # Nil /\ held' = Nil /\ renewed' = Nil /\ UNCHANGED <<rules, policies>>

RulesNext ==
    \/ \E r \in Rulesets : SaveTemplate(r)
    \/ \E p \in Policies : ChangePolicies(p)
    \/ \E k \in Keys, n \in Names : RequestCertificate(k, n)
    \/ Renew \/ DeleteHeld

-----------------------------------------------------------------------------
RulesTypeOK ==
    /\ rules \in Rulesets /\ policies \in Policies /\ held \in Held \cup {Nil}
    /\ renewed = Nil \/ renewed \in [from : Keys, tpl : BOOLEAN, pol : BOOLEAN, announced : BOOLEAN]

\* Saved under the policies in force, a template is accepted exactly when some
\* request could be granted under it: probing with the strongest key of each type
\* neither misses a key that would pass nor takes one the template itself refuses.
\* Excluded are a template all of whose names are refused, of which the code says
\* that "there is always some name that passes", and one whose first suffix the
\* policies refuse: it is not accepted, whatever they say of its second.
ProbesDecide ==
    LET issuable == \E k \in Keys, n \in Names : Permitted(rules, policies, k, n)
    IN  validShape(rules) =>
            /\ (CouldIssue(rules, policies) /\ (rules.suffixes = 0 => ~(PlainNames \subseteq policies.names))) => issuable
            /\ (issuable /\ (rules.suffixes > 0 => policyName(policies, "first"))) => CouldIssue(rules, policies)

\* Who asks for nothing gets a key the template permits, unless it permits RSA
\* keys below 2048 bits only and names no least size.
DefaultIsPermitted ==
    ("RSA" \in rules.types /\ rules.rsaMin = 0 /\ rules.rsaMax > 0 => rules.rsaMax >= 2048) => checkKey(rules, defaultKey(rules))

\* A renewal leaves a certificate whose key the template still permits exactly
\* the key it had, and never shortens an RSA key.
NoGratuitousChange ==
    renewed # Nil =>
        /\ checkKey(rules, renewed.from) => held.key = renewed.from
        /\ renewed.from.type = "RSA" /\ held.key.type = "RSA" => held.key.size >= renewed.from.size

\* A renewed certificate would be issued to a new request under the rules it
\* was renewed under, or its drift has been announced. The exceptions are a key
\* above rsa_max_bits and a forbidden pattern, which a renewal does not look at;
\* a template or policies that could not be read, by which nothing is judged; and
\* names outside the template that are found while the policies cannot be read.
RenewedConforms ==
    renewed # Nil =>
        /\ renewed.tpl => checkKey([rules EXCEPT !.rsaMax = 0], held.key)
        /\ (renewed.pol /\ ~renewed.announced) => policyKey(policies, held.key) /\ policyName(policies, held.name)
        /\ (renewed.tpl /\ renewed.pol /\ ~renewed.announced /\ held.name # "forbidden") => checkNames(rules, held.name)
=============================================================================
