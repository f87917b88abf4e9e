------------------------------- MODULE Consent -------------------------------
(***************************************************************************)
(* Consent forms: routes/consentTemplates.js, routes/consents.js and the   *)
(* models ConsentTemplate.js and ConsentRecord.js, for the templates of    *)
(* one name and one service and one client's records.                      *)
(*                                                                         *)
(* A new version is a document of its own.  mongoose compares the revision *)
(* (__v) of a document when an array is written as a whole, as an edit of  *)
(* the sections does, and publish(), which sorts them.  A change of status *)
(* or of the name alone is written without it.                             *)
(*                                                                         *)
(* The signing by a public link is left out: its handler calls require(),  *)
(* which an ES module does not have, and answers 500.                      *)
(***************************************************************************)
EXTENDS Integers, FiniteSets

CONSTANTS
  Clerics,     \* requests the server works on
  Forms,       \* template documents
  NoForm,
  Records,     \* signed consents
  NoRecord,
  MaxRevision  \* bound on the revisions of a template

ASSUME ConsentAssumption == NoForm \notin Forms
                            /\ IsFiniteSet(Forms)
                            /\ NoRecord \notin Records /\ MaxRevision \in Nat

VARIABLES
  form,    \* the templates
  record,  \* the records
  cleric,  \* request -> where it waits and what it has read
  late     \* history: records saved behind the count of a deletion

consentVars == <<form, record, cleric, late>>

\* renamed: a name or a description was written behind the publication.
FormDocs == [ status : {"none", "draft", "published", "archived", "deleted"},
              version : 0..Cardinality(Forms), content : 0..MaxRevision,
              revision : 0..MaxRevision, renamed : BOOLEAN ]

RecordDocs == [ status : {"none", "signed", "revoked"}, form : Forms \cup {NoForm},
                content : 0..MaxRevision ]

ClericSteps == {"idle", "edit", "rename", "publish", "copy", "archive", "count", "delete",
                "pdf", "upload", "revoke"}

ClericStates == [ step : ClericSteps, form : Forms \cup {NoForm}, copy : FormDocs,
                  record : Records \cup {NoRecord} ]

ConsentTypeOK ==
  /\ form \in [Forms -> FormDocs]
  /\ record \in [Records -> RecordDocs]
  /\ cleric \in [Clerics -> ClericStates]
  /\ late \in SUBSET Records

EmptyForm == [status |-> "none", version |-> 0, content |-> 0, revision |-> 0, renamed |-> FALSE]

IdleCleric == [step |-> "idle", form |-> NoForm, copy |-> EmptyForm, record |-> NoRecord]

ConsentInit ==
  /\ form = [f \in Forms |-> EmptyForm]
  /\ record = [r \in Records |-> [status |-> "none", form |-> NoForm, content |-> 0]]
  /\ cleric = [h \in Clerics |-> IdleCleric]
  /\ late = {}

-----------------------------------------------------------------------------
(* Helpers                                                                 *)

ClericEnds(h) == cleric' = [cleric EXCEPT ![h] = IdleCleric]

\* A request loads a template, whose status must be one of these.
Loads(h, f, statuses, step) ==
  /\ cleric[h].step = "idle"
  /\ form[f].status \in statuses
  /\ cleric' = [cleric EXCEPT ![h] = [IdleCleric EXCEPT !.step = step, !.form = f,
                                                        !.copy = form[f]]]
  /\ UNCHANGED <<form, record, late>>

\* Mutant: the sections are written when the template is still there, whatever
\* the revision is.
SameDocument(h) == form[cleric[h].form].status # "deleted"

\* The template is the revision that was read.
SameRevision(h) ==
  /\ SameDocument(h)
  /\ form[cleric[h].form].revision = cleric[h].copy.revision

Published == {f \in Forms : form[f].status = "published"}

-----------------------------------------------------------------------------
(* consentTemplates.js                                                     *)

\* POST /: no other template has the name but archived ones (looked up just
\* before; the race only adds drafts).
CreateTemplate(f) ==
  /\ form[f].status = "none"
  /\ \A g \in Forms : form[g].status \notin {"draft", "published"}
  /\ form' = [form EXCEPT ![f] = [EmptyForm EXCEPT !.status = "draft", !.version = 1]]
  /\ UNCHANGED <<record, cleric, late>>

\* PUT /:id with sections; only a draft is edited.
Edit(h, f) == Loads(h, f, {"draft"}, "edit")

SaveEdit(h) ==
  LET f == cleric[h].form IN
  /\ cleric[h].step = "edit"
  /\ IF SameRevision(h)
       THEN /\ form[f].revision < MaxRevision
            /\ form' = [form EXCEPT ![f].content = form[f].revision + 1,
                                    ![f].revision = @ + 1]
       ELSE UNCHANGED form
  /\ ClericEnds(h)
  /\ UNCHANGED <<record, late>>

\* PUT /:id without sections, disclaimers and risks: the name or the description
\* is written, whatever has become of the template but a deletion.  Of a draft
\* that changes nothing here.
Rename(h, f) == Loads(h, f, {"draft"}, "rename")

SaveRenamed(h) ==
  /\ cleric[h].step = "rename"
  /\ form' = [form EXCEPT ![cleric[h].form].renamed =
                 @ \/ form[cleric[h].form].status \in {"published", "archived"}]
  /\ ClericEnds(h)
  /\ UNCHANGED <<record, late>>

\* POST /:id/publish
Publish(h, f) == Loads(h, f, {"draft"}, "publish")

SavePublished(h) ==
  LET f == cleric[h].form IN
  /\ cleric[h].step = "publish"
  /\ IF SameRevision(h)
       THEN /\ form[f].revision < MaxRevision
            /\ form' = [form EXCEPT ![f].status = "published", ![f].revision = @ + 1]
       ELSE UNCHANGED form
  /\ ClericEnds(h)
  /\ UNCHANGED <<record, late>>

\* POST /:id/new-version
NewVersion(h, f) == Loads(h, f, {"published"}, "copy")

\* Mutant: the revision of the document is taken for its version.
NextRevision(copy) == copy.revision + 1

NextVersion(copy) == copy.version + 1

CreateNewVersion(h, g) ==
  /\ cleric[h].step = "copy"
  /\ form[g].status = "none"
  /\ form' = [form EXCEPT ![g] = [status |-> "draft", version |-> NextVersion(cleric[h].copy),
                                  content |-> cleric[h].copy.content, revision |-> 0,
                                  renamed |-> FALSE]]
  /\ ClericEnds(h)
  /\ UNCHANGED <<record, late>>

\* POST /:id/archive, of a template in any status.
Archive(h, f) == Loads(h, f, {"draft", "published", "archived"}, "archive")

SaveArchived(h) ==
  LET f == cleric[h].form IN
  /\ cleric[h].step = "archive"
  /\ form' = [form EXCEPT ![f].status =
       IF @ = "deleted" \/ cleric[h].copy.status = "archived" THEN @ ELSE "archived"]
  /\ ClericEnds(h)
  /\ UNCHANGED <<record, late>>

\* DELETE /:id: only a draft that has no records.
Delete(h, f) == Loads(h, f, {"draft"}, "count")

CountRecords(h) ==
  /\ cleric[h].step = "count"
  /\ IF \E r \in Records : record[r].form = cleric[h].form THEN ClericEnds(h)
     ELSE cleric' = [cleric EXCEPT ![h].step = "delete", ![h].copy = EmptyForm]
  /\ UNCHANGED <<form, record, late>>

DeleteOne(h) ==
  /\ cleric[h].step = "delete"
  /\ form' = [form EXCEPT ![cleric[h].form] = [EmptyForm EXCEPT !.status = "deleted"]]
  /\ ClericEnds(h)
  /\ UNCHANGED <<record, late>>

-----------------------------------------------------------------------------
(* consents.js                                                             *)

\* A deletion has counted the records of the template, or is done.
BeingDeleted(f) ==
  \/ form[f].status = "deleted"
  \/ \E k \in Clerics : cleric[k].step = "delete" /\ cleric[k].form = f

\* POST /sign of a published template; the PDF is made from what was read.
Sign(h, f) == Loads(h, f, {"published"}, "pdf")

SaveRecord(h, r) ==
  /\ cleric[h].step = "pdf"
  /\ record[r].status = "none"
  /\ record' = [record EXCEPT ![r] = [status |-> "signed", form |-> cleric[h].form,
                                      content |-> cleric[h].copy.content]]
  /\ cleric' = [cleric EXCEPT ![h] = [IdleCleric EXCEPT !.step = "upload", !.record = r]]
  /\ late' = IF BeingDeleted(cleric[h].form) THEN late \cup {r} ELSE late
  /\ UNCHANGED form

\* The upload ends or fails; the path is written, and the status with it.
SetGcsPath(h) ==
  /\ cleric[h].step = "upload"
  /\ record' = [record EXCEPT ![cleric[h].record].status = "signed"]
  /\ ClericEnds(h)
  /\ UNCHANGED <<form, late>>

\* POST /:id/revoke
Revoke(h, r) ==
  /\ cleric[h].step = "idle"
  /\ record[r].status = "signed"
  /\ cleric' = [cleric EXCEPT ![h] = [IdleCleric EXCEPT !.step = "revoke", !.record = r]]
  /\ UNCHANGED <<form, record, late>>

SaveRevoked(h) ==
  LET r == cleric[h].record IN
  /\ cleric[h].step = "revoke"
  /\ record' = [record EXCEPT ![r].status = "revoked"]
  /\ ClericEnds(h)
  /\ UNCHANGED <<form, late>>

\* The server dies, or an await throws.
ClericFails(h) ==
  /\ cleric[h].step # "idle"
  /\ ClericEnds(h)
  /\ UNCHANGED <<form, record, late>>

ConsentNext ==
  \/ \E f \in Forms : CreateTemplate(f)
  \/ \E h \in Clerics :
       \/ \E f \in Forms :
            \/ Edit(h, f) \/ Rename(h, f) \/ Publish(h, f) \/ NewVersion(h, f) \/ CreateNewVersion(h, f)
            \/ Archive(h, f) \/ Delete(h, f) \/ Sign(h, f)
       \/ SaveEdit(h) \/ SaveRenamed(h) \/ SavePublished(h) \/ SaveArchived(h)
       \/ CountRecords(h) \/ DeleteOne(h)
       \/ \E r \in Records : SaveRecord(h, r) \/ Revoke(h, r)
       \/ SetGcsPath(h) \/ SaveRevoked(h) \/ ClericFails(h)

ConsentSpec == ConsentInit /\ [][ConsentNext]_consentVars

-----------------------------------------------------------------------------
(* Properties                                                              *)

\* A record's template is still there with the sections that were signed: an
\* edit or a deletion begun while it was a draft changes nothing behind a
\* signature, unless the records had been counted for the deletion before the
\* signature was saved.  The name may change: its save compares no revision.
SignedTextStands ==
  \A r \in Records : record[r].status # "none" =>
    LET f == form[record[r].form] IN
    IF f.status = "deleted" THEN r \in late ELSE record[r].content = f.content
=============================================================================
