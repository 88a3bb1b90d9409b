--------------------------- MODULE RiderDocuments ---------------------------
(***************************************************************************)
(* The riders of one family, their documents and the files that hold them  *)
(* (services/riderService.js, lib/riderDocuments.js, lib/uploads.js, and   *)
(* the part of anonymizeAccount in services/authService.js that erases     *)
(* them).  A row names a file of the volume of uploads; no transaction     *)
(* spans the two, so each operation writes the file, the row and removes   *)
(* the former file in steps of its own.  A review begins when an admin     *)
(* opens the document; that the admin does so before deciding is assumed,  *)
(* the code does not ask for it.  Abstracted: the rejection reason, the    *)
(* licence number, dates (a document is expired or not) and the audit log, *)
(* which nothing reads back.                                               *)
(***************************************************************************)
CONSTANTS Riders, Kinds,  \* the medical certificate and the licence
          License,        \* the kind an admin may upload
          Files,          \* bound: the files ever written; a name is never used again
          Requests, NoFile

DocumentAssumption == License \in Kinds /\ NoFile \notin Files

VARIABLES
    exists,    \* the riders there are
    url,       \* url[d]: the file the row of d = <<rider, kind>> names
    status,    \* status[d]: "missing", "pending", "approved" or "rejected"
    expired,   \* the documents whose date is past
    enrolled,  \* the riders with an enrollment
    erased,    \* the account of the family is anonymized
    files,     \* the files on the volume
    written,   \* the files ever written
    pc,        \* pc[q]: the next statement of q
    target,    \* target[q]: the document, or the rider, q is about
    held,      \* held[q]: the file q has written
    old,       \* old[q]: the files q read in the row and will remove
    judged,    \* history: the files an admin opened, or brought
    disturbed, \* history: the documents whose files two requests were at, or one that failed
    swapped,   \* history: the documents replaced or erased while an admin had them open
    aborted    \* history: the documents of an erasure that failed

vars == <<exists, url, status, expired, enrolled, erased, files, written,
          pc, target, held, old, judged, disturbed, swapped, aborted>>

rows   == <<exists, url, status, expired, enrolled, erased>>
locals == <<target, held, old>>

Documents == Riders \X Kinds
Of(r) == {<<r, k>> : k \in Kinds}

TypeOK ==
    /\ exists \subseteq Riders
    /\ url \in [Documents -> Files \cup {NoFile}]
    /\ status \in [Documents -> {"missing", "pending", "approved", "rejected"}]
    /\ expired \subseteq Documents
    /\ enrolled \subseteq Riders
    /\ erased \in BOOLEAN
    /\ files \subseteq written /\ written \subseteq Files
    /\ pc \in [Requests -> {"idle", "stored", "licensed", "replaced", "open", "decide",
                            "remove", "unlink", "wipe"}]
    /\ target \in [Requests -> SUBSET Documents]
    /\ held \in [Requests -> Files \cup {NoFile}]
    /\ old \in [Requests -> SUBSET Files]
    /\ judged \subseteq Files
    /\ disturbed \subseteq Documents /\ swapped \subseteq Documents /\ aborted \subseteq Documents

Init ==
    /\ exists = Riders
    /\ url = [d \in Documents |-> NoFile]
    /\ status = [d \in Documents |-> "missing"]
    /\ expired = {} /\ enrolled = {} /\ erased = FALSE
    /\ files = {} /\ written = {}
    /\ pc = [q \in Requests |-> "idle"]
    /\ target = [q \in Requests |-> {}]
    /\ held = [q \in Requests |-> NoFile]
    /\ old = [q \in Requests |-> {}]
    /\ judged = {} /\ disturbed = {} /\ swapped = {} /\ aborted = {}

Goto(q, where) == pc' = [pc EXCEPT ![q] = where]

\* The requests that are reviews: they leave the files alone.
Reviews == {q \in Requests : pc[q] \in {"open", "decide"}}

\* q starts on the files of the documents D, having read their rows; others may be at them.
Start(q, D, where) ==
    /\ pc[q] = "idle"
    /\ Goto(q, where)
    /\ target' = [target EXCEPT ![q] = D]
    /\ old' = [old EXCEPT ![q] = {url[d] : d \in D} \ {NoFile}]
    /\ disturbed' = disturbed \cup UNION {target[o] \cap D : o \in Requests \ Reviews}

\* The documents D change under the eyes of those who have them open.
Swap(D) == swapped' = swapped \cup UNION {target[o] \cap D : o \in Reviews}

Finish(q) ==
    /\ Goto(q, "idle")
    /\ target' = [target EXCEPT ![q] = {}]
    /\ held' = [held EXCEPT ![q] = NoFile]
    /\ old' = [old EXCEPT ![q] = {}]

-----------------------------------------------------------------------------
(* uploadRiderDocument, adminUploadLicense *)

\* persistRiderDocument: the new file is written under a name of its own.
Write(q) ==
    /\ written # Files
    /\ LET f == CHOOSE x \in Files \ written : TRUE IN
          /\ files' = files \cup {f}
          /\ written' = written \cup {f}
          /\ held' = [held EXCEPT ![q] = f]

\* The family uploads a document: the row is read, then the file written.
StoreFile(q, d) ==
    /\ d[1] \in exists
    /\ Start(q, {d}, "stored")
    /\ Write(q)
    /\ UNCHANGED <<rows, judged, swapped, aborted>>

\* An admin uploads a licence, and vouches for it.
StoreLicense(q, d) ==
    /\ d[1] \in exists /\ d[2] = License
    /\ Start(q, {d}, "licensed")
    /\ Write(q)
    /\ judged' = judged \cup {held'[q]}
    /\ UNCHANGED <<rows, swapped, aborted>>

\* Mutant: the status of the former document is kept.
ReplaceDocumentKeepStatus(q) ==
    \E d \in target[q] :
        /\ pc[q] = "stored" /\ d[1] \in exists
        /\ url' = [url EXCEPT ![d] = held[q]]
        /\ status' = [status EXCEPT ![d] = IF @ = "missing" THEN "pending" ELSE @]
        /\ expired' = expired \ {d}
        /\ Swap({d})
        /\ Goto(q, "replaced")
        /\ UNCHANGED <<exists, enrolled, erased, files, written, locals, judged, disturbed,
                       aborted>>

\* The row names the new file, to be reviewed.
ReplaceDocument(q) ==
    \E d \in target[q] :
        /\ pc[q] = "stored" /\ d[1] \in exists
        /\ url' = [url EXCEPT ![d] = held[q]]
        /\ status' = [status EXCEPT ![d] = "pending"]
        /\ expired' = expired \ {d}
        /\ Swap({d})
        /\ Goto(q, "replaced")
        /\ UNCHANGED <<exists, enrolled, erased, files, written, locals, judged, disturbed,
                       aborted>>

\* What an admin brought needs no review.
ReplaceLicense(q) ==
    \E d \in target[q] :
        /\ pc[q] = "licensed" /\ d[1] \in exists
        /\ url' = [url EXCEPT ![d] = held[q]]
        /\ status' = [status EXCEPT ![d] = "approved"]
        /\ expired' = expired \ {d}
        /\ Goto(q, "replaced")
        /\ UNCHANGED <<exists, enrolled, erased, files, written, locals, judged, disturbed,
                       swapped, aborted>>

\* Mutant: what the row names by now is removed.
RemoveCurrent(q) ==
    /\ pc[q] \in {"replaced", "unlink"}
    /\ files' = files \ {url[d] : d \in target[q]}
    /\ Finish(q)
    /\ UNCHANGED <<rows, written, judged, disturbed, swapped, aborted>>

\* Mutant: the former files stay.
RemoveOldNever(q) ==
    /\ pc[q] \in {"replaced", "unlink"}
    /\ Finish(q)
    /\ UNCHANGED <<rows, files, written, judged, disturbed, swapped, aborted>>

\* deleteStoredFile on what the row named when the request began.
RemoveOld(q) ==
    /\ pc[q] \in {"replaced", "unlink"}
    /\ files' = files \ old[q]
    /\ Finish(q)
    /\ UNCHANGED <<rows, written, judged, disturbed, swapped, aborted>>

-----------------------------------------------------------------------------
(* reviewRiderDocument *)

\* An admin opens the document: getAdminRiderDocumentPath.
OpenDocument(q, d) ==
    /\ pc[q] = "idle" /\ d[1] \in exists /\ url[d] \in files
    /\ target' = [target EXCEPT ![q] = {d}]
    /\ judged' = judged \cup {url[d]}
    /\ Goto(q, "open")
    /\ UNCHANGED <<rows, files, written, held, old, disturbed, swapped, aborted>>

\* Having seen it, the admin decides: the request looks at the status and at nothing else.
ReadForReview(q) ==
    /\ pc[q] = "open" /\ \A d \in target[q] : d[1] \in exists /\ status[d] = "pending"
    /\ Goto(q, "decide")
    /\ UNCHANGED <<rows, files, written, locals, judged, disturbed, swapped, aborted>>

\* The decision is written whatever the row holds by now; the date may be corrected.
Decide(q) ==
    \E d \in target[q], decision \in {"approved", "rejected"} :
        /\ pc[q] = "decide" /\ d[1] \in exists
        /\ status' = [status EXCEPT ![d] = decision]
        /\ expired' \in {expired, expired \ {d}}
        /\ Finish(q)
        /\ UNCHANGED <<exists, url, enrolled, erased, files, written, judged, disturbed, swapped,
                       aborted>>

-----------------------------------------------------------------------------
(* deleteRider, anonymizeAccount *)

ReadForDeletion(q, r) ==
    /\ r \in exists \ enrolled
    /\ Start(q, Of(r), "remove")
    /\ UNCHANGED <<rows, files, written, held, judged, swapped, aborted>>

\* The row goes; the foreign key of an enrollment that came meanwhile refuses.
DeleteRow(q) ==
    LET r == CHOOSE x \in Riders : target[q] = Of(x) IN
    /\ pc[q] = "remove" /\ r \in exists \ enrolled
    /\ exists' = exists \ {r}
    /\ url' = [d \in Documents |-> IF d[1] = r THEN NoFile ELSE url[d]]
    /\ status' = [d \in Documents |-> IF d[1] = r THEN "missing" ELSE status[d]]
    /\ expired' = expired \ Of(r)
    /\ Goto(q, "unlink")
    /\ UNCHANGED <<enrolled, erased, files, written, locals, judged, disturbed, swapped, aborted>>

\* The files of all riders are removed before the transaction that forgets them.
EraseFiles(q) ==
    /\ ~erased
    /\ Start(q, exists \X Kinds, "wipe")
    /\ files' = files \ old'[q]
    /\ UNCHANGED <<rows, written, held, judged, swapped, aborted>>

EraseRows(q) ==
    /\ pc[q] = "wipe"
    /\ \A d \in target[q] : d[1] \in exists
    /\ url' = [d \in Documents |-> IF d \in target[q] THEN NoFile ELSE url[d]]
    /\ status' = [d \in Documents |-> IF d \in target[q] THEN "missing" ELSE status[d]]
    /\ expired' = expired \ target[q]
    /\ erased' = TRUE
    /\ Swap(target[q])
    /\ Finish(q)
    /\ UNCHANGED <<exists, enrolled, files, written, judged, disturbed, aborted>>

\* A statement fails, or the process dies: the request ends where it is.  So does a review
\* without a decision.
Fail(q) ==
    /\ pc[q] # "idle"
    /\ disturbed' = IF q \in Reviews THEN disturbed ELSE disturbed \cup target[q]
    /\ aborted' = IF pc[q] = "wipe" THEN aborted \cup target[q] ELSE aborted
    /\ Finish(q)
    /\ UNCHANGED <<rows, files, written, judged, swapped>>

-----------------------------------------------------------------------------
(* The rest of the club *)

\* assertRiderDocumentsApproved
Approved(r) == \A d \in Of(r) : status[d] = "approved" /\ d \notin expired

Enroll(r) ==
    /\ r \in exists /\ Approved(r)
    /\ enrolled' = enrolled \cup {r}
    /\ UNCHANGED <<exists, url, status, expired, erased, files, written, pc, locals,
                   judged, disturbed, swapped, aborted>>

\* isDocumentExpired: the day after its date.
DayPasses(d) ==
    /\ url[d] # NoFile
    /\ expired' = expired \cup {d}
    /\ UNCHANGED <<exists, url, status, enrolled, erased, files, written, pc, locals,
                   judged, disturbed, swapped, aborted>>

Next ==
    \/ \E q \in Requests :
          \/ \E d \in Documents : StoreFile(q, d) \/ StoreLicense(q, d) \/ OpenDocument(q, d)
          \/ \E r \in Riders : ReadForDeletion(q, r)
          \/ ReplaceDocument(q) \/ ReplaceLicense(q) \/ RemoveOld(q)
          \/ ReadForReview(q) \/ Decide(q) \/ DeleteRow(q)
          \/ EraseFiles(q) \/ EraseRows(q) \/ Fail(q)
    \/ \E r \in Riders : Enroll(r)
    \/ \E d \in Documents : DayPasses(d)

Spec == Init /\ [][Next]_vars

-----------------------------------------------------------------------------
(* Properties *)

\* Only an erasure under way, or one that failed, takes the file away from under a document:
\* uploads, reviews and deletions that overlap never remove the file a row names
\* (riderService.js:119, authService.js:350).
FileBehindDocument ==
    \A d \in Documents :
        \/ url[d] \in files \cup {NoFile}
        \/ d \in aborted
        \/ \E q \in Requests : pc[q] = "wipe" /\ d \in target[q]

\* A file on the volume belongs to a document or to a request that still works on it, unless
\* requests were at the files of a document at once or one failed: health data is not kept by
\* oversight.
NoStrayFile ==
    disturbed = {} =>
        \A f \in files : \/ \E d \in Documents : url[d] = f
                         \/ \E q \in Requests : f = held[q] \/ f \in old[q]

\* An approved document is one that an admin opened or brought: what the family uploads later
\* has to be reviewed again.  Only a document that was replaced, or erased, while an admin had
\* it open can be approved unseen: the review looks at the status alone (riderService.js:304).
ApprovedWasJudged ==
    \A d \in Documents : status[d] = "approved" => url[d] \in judged \/ d \in swapped

\* The rows and the volume agree, in both directions.
FilesMatchRows == FileBehindDocument /\ NoStrayFile
=============================================================================
