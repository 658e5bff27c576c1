-------------------------- MODULE TemplateVersions --------------------------
(***************************************************************************)
(* A template is edited while certificates are requested and renewed under *)
(* it. An edit reads the row, decides whether the version moves, validates *)
(* against gateways and policies and then writes the whole row; a request  *)
(* or a renewal reads the template once, asks the CA and records the       *)
(* version it read and what the CA did not honour.                         *)
(***************************************************************************)
EXTENDS Integers, FiniteSets, Common

CONSTANTS
    Shapes,         \* what a template may permit, as IssuanceRules has it
    Edits,          \* requests that change the template, each made at most once
    MaxIssued       \* bound: how often the CA is asked

ASSUME TemplateVersionsAssumption == Shapes # {} /\ IsFiniteSet(Edits) /\ MaxIssued \in Nat

VARIABLES
    template,       \* the row
    editing,        \* [Edits -> EditState]
    issuing,        \* the request or renewal in flight, or Nil
    certRow,        \* the certificate's row, or Nil
    asked,          \* how often the CA was asked
    overlapped,     \* history: two edits overlapped
    issuedUnder     \* history: version and rules of every certificate issued

templateVars == <<template, editing, issuing, certRow, asked, overlapped, issuedUnder>>

\* conformance: ENFORCE refuses what the CA did not honour, REPORT keeps it as findings.
Rules == [shape : Shapes, conformance : {"ENFORCE", "REPORT"}]
Versions == 0..(Cardinality(Edits) + 1)
Template == [exists : BOOLEAN, version : Versions, rules : Rules]
EditState == [at : {"none", "validate", "ended"}, row : Template]
\* first: a request; otherwise the renewal of the certificate.
Asking == [first : BOOLEAN, template : Template]
Findings == {"none", "report", "block"}
Recorded == [version : Versions, findings : Findings]

NoTemplate == [exists |-> FALSE, version |-> 0, rules |-> CHOOSE r \in Rules : TRUE]

TemplatesInit ==
    /\ \E r \in Rules : template = [exists |-> TRUE, version |-> 1, rules |-> r]
    /\ editing = [e \in Edits |-> [at |-> "none", row |-> NoTemplate]]
    /\ issuing = Nil /\ certRow = Nil /\ asked = 0 /\ overlapped = FALSE /\ issuedUnder = {}

-----------------------------------------------------------------------------
(* Create, Update and Delete of the template.                              *)

\* Mutant of rulesDiffer: a list of fields that a later one was not added to.
rulesDifferShape(a, b) == a.rules.shape # b.rules.shape

rulesDiffer(a, b) == a.rules # b.rules

\* Update reads the row and decides the version; conformance stays as it is
\* when the request does not say. A change of name or description leaves the
\* rules as they are.
BeginEdit(e, r) ==
    LET row == [template EXCEPT !.rules = r] IN
    /\ editing[e].at = "none" /\ template.exists
    /\ editing' = [editing EXCEPT ![e] = [at |-> "validate",
                      row |-> IF rulesDiffer(template, row) THEN [row EXCEPT !.version = template.version + 1] ELSE row]]
    /\ overlapped' = (overlapped \/ \E f \in Edits : editing[f].at = "validate")
    /\ UNCHANGED <<template, issuing, certRow, asked, issuedUnder>>

\* validate refuses, or takes so long that the client leaves.
EditRefused(e) ==
    /\ editing[e].at = "validate" /\ editing' = [editing EXCEPT ![e] = [at |-> "ended", row |-> NoTemplate]]
    /\ UNCHANGED <<template, issuing, certRow, asked, overlapped, issuedUnder>>

UpdateCertificateTemplate(e) ==
    /\ editing[e].at = "validate" /\ editing' = [editing EXCEPT ![e] = [at |-> "ended", row |-> NoTemplate]]
    /\ template' = IF template.exists THEN editing[e].row ELSE template
    /\ UNCHANGED <<issuing, certRow, asked, overlapped, issuedUnder>>

\* Delete, which a grant that names the template prevents.
DeleteTemplate ==
    /\ template.exists /\ template' = NoTemplate
    /\ UNCHANGED <<editing, issuing, certRow, asked, overlapped, issuedUnder>>

-----------------------------------------------------------------------------
(* Requests and renewals.                                                  *)

\* Resolve.
Ask ==
    /\ issuing = Nil /\ certRow = Nil /\ asked < MaxIssued /\ template.exists
    /\ issuing' = [first |-> TRUE, template |-> template] /\ asked' = asked + 1
    /\ UNCHANGED <<template, editing, certRow, overlapped, issuedUnder>>

\* conform: a template that is gone leaves the recorded version alone.
AskAgain ==
    /\ issuing = Nil /\ certRow # Nil /\ asked < MaxIssued
    /\ issuing' = [first |-> FALSE, template |-> template] /\ asked' = asked + 1
    /\ UNCHANGED <<template, editing, certRow, overlapped, issuedUnder>>

\* What is written for template_version: COALESCE keeps the old one for nil.
VersionWritten == IF issuing.template.exists THEN issuing.template.version ELSE certRow.version

\* nullableFindings: no findings are nil, and nil keeps those of the row.
FindingsWritten(found) == IF found = "none" /\ certRow # Nil THEN certRow.findings ELSE found

Enforced(t, found) == t.exists /\ t.rules.conformance = "ENFORCE" /\ found = "block"

\* VerifyConformance and the record that follows.
Issued(found) ==
    /\ issuing # Nil /\ ~Enforced(issuing.template, found) /\ issuing' = Nil
    /\ certRow' = [version |-> VersionWritten, findings |-> FindingsWritten(found)]
    /\ issuedUnder' = IF issuing.template.exists
                      THEN issuedUnder \cup {<<issuing.template.version, issuing.template.rules>>} ELSE issuedUnder
    /\ UNCHANGED <<template, editing, asked, overlapped>>

\* The CA fails, or an enforcing template refuses what it issued. Of a renewal
\* recordFailure writes the row, with the version it was judged under.
NotIssued ==
    /\ issuing # Nil /\ issuing' = Nil
    /\ certRow' = IF issuing.first THEN certRow ELSE [certRow EXCEPT !.version = VersionWritten]
    /\ UNCHANGED <<template, editing, asked, overlapped, issuedUnder>>

\* The process dies, or the row cannot be written.
AskDies == issuing # Nil /\ issuing' = Nil /\ UNCHANGED <<template, editing, certRow, asked, overlapped, issuedUnder>>

TemplatesNext ==
    \/ \E e \in Edits, r \in Rules : BeginEdit(e, r)
    \/ \E e \in Edits : EditRefused(e) \/ UpdateCertificateTemplate(e)
    \/ DeleteTemplate \/ Ask \/ AskAgain \/ NotIssued \/ AskDies
    \/ \E found \in Findings : Issued(found)

-----------------------------------------------------------------------------
TemplatesTypeOK ==
    /\ template \in Template /\ editing \in [Edits -> EditState] /\ issuing \in Asking \cup {Nil}
    /\ certRow \in Recorded \cup {Nil} /\ asked \in 0..MaxIssued /\ overlapped \in BOOLEAN
    /\ issuedUnder \subseteq Versions \X Rules

\* Certificates that record the same version were issued under the same rules,
\* unless two edits overlapped: both then count on from what they read.
VersionNamesRules ==
    ~overlapped => \A p, q \in issuedUnder : p[1] = q[1] => p[2] = q[2]
=============================================================================
