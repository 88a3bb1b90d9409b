------------------------------ MODULE ClubProofs -----------------------------
(***************************************************************************)
(* What the parts of Club guarantee for any riders, files, users, routes   *)
(* and requests.  A part that is not in focus stands still, so that the    *)
(* invariant of each part is kept while another runs.                      *)
(***************************************************************************)
EXTENDS Club, FiniteSetTheorems, WellFoundedInduction, TLAPS

-----------------------------------------------------------------------------
(* Numbers *)

\* A set of naturals that is not empty has a least element.
LEMMA LeastExists ==
    ASSUME NEW X \in SUBSET Nat, X # {}
    PROVE  \E x \in X : \A y \in X : x <= y
<1> DEFINE Less == {ss \in Nat \X Nat : ss[1] < ss[2]}
<1>1. IsWellFoundedOn(Less, Nat)
  BY NatLessThanWellFounded DEF OpToRel
<1>2. PICK x \in X : \A y \in X : ~(<<y, x>> \in Less)
  <2> HIDE DEF Less
  <2> QED BY <1>1, WFMin, Zenon
<1>3. ASSUME NEW y \in X, y < x
      PROVE  FALSE
  <2>1. <<y, x>> \in Less
    BY <1>3
  <2> QED BY <1>2, <2>1, Zenon
<1>4. \A y \in X : ~(y < x) /\ y \in Nat /\ x \in Nat
  BY <1>3
<1> QED BY <1>4

-----------------------------------------------------------------------------
(* The rate limits *)

(* On a route under /auth a call passes only if it was counted. *)
PassedWereCounted == \A k \in FailClosed : passed[k] <= count[k]

LimitInv == TypeOK /\ CountersExpire /\ PassedWereCounted /\ AuthIsLimited

\* The first states satisfy the invariant: nothing is counted.
LEMMA LimitInitInv == LimitAssumption /\ Init => LimitInv
BY
DEF LimitAssumption, Init, LimitInv, TypeOK, CountersExpire, PassedWereCounted, AuthIsLimited,
    Bound

\* A call that is let through is one more, at most, for its key.
LEMMA LetThroughCounts ==
    ASSUME TypeOK, LimitAssumption, NEW k \in Keys, LetThrough(k)
    PROVE  /\ passed' \in [Keys -> 0..(Bound + 1)]
           /\ \A j \in Keys : j # k => passed'[j] = passed[j]
           /\ passed'[k] <= passed[k] + 1
BY DEF TypeOK, LimitAssumption, LetThrough, Bound

\* The script keeps the invariant: it counts the call, gives a new counter its life, and
\* lets the call pass up to the limit.
LEMMA HitKeepsLimits ==
    ASSUME LimitAssumption, LimitInv, NEW c \in Calls, NEW k \in Keys, Hit(c, k)
    PROVE  LimitInv'
<1>1. /\ count[k] < Bound /\ count[k] \in Nat /\ Bound \in Nat
      /\ count' = [count EXCEPT ![k] = count[k] + 1]
      /\ life' = [life EXCEPT ![k] = IF count[k] = 0 THEN Window ELSE life[k]]
      /\ up' = up
  BY DEF Hit, LimitInv, TypeOK, Bound, LimitAssumption
<1>2. CountersExpire'
  BY <1>1 DEF LimitInv, TypeOK, CountersExpire, LimitAssumption
<1>3. CASE Over(count[k] + 1)
  <2>1. refusing' = [refusing EXCEPT ![c] = k] /\ passed' = passed
    BY <1>3 DEF Hit, Outcome
  <2>2. TypeOK'
    BY <1>1, <2>1 DEF LimitInv, TypeOK, LimitAssumption, Bound
  <2>3. PassedWereCounted' /\ AuthIsLimited'
    BY <1>1, <2>1 DEF LimitInv, TypeOK, LimitAssumption, Bound, PassedWereCounted, AuthIsLimited
  <2> QED BY <1>2, <2>2, <2>3 DEF LimitInv
<1>4. CASE ~Over(count[k] + 1)
  <2>1. LetThrough(k) /\ refusing' = refusing
    BY <1>4 DEF Hit, Outcome
  <2>2. /\ passed' \in [Keys -> 0..(Bound + 1)]
        /\ \A j \in Keys : j # k => passed'[j] = passed[j]
        /\ passed'[k] <= passed[k] + 1
    BY <2>1, LetThroughCounts DEF LimitInv
  <2>3. TypeOK'
    <3>1. count' \in [Keys -> 0..Bound]
      BY <1>1 DEF LimitInv, TypeOK
    <3>2. life' \in [Keys -> 0..Window]
      BY <1>1 DEF LimitInv, TypeOK, LimitAssumption
    <3> QED BY <1>1, <2>1, <2>2, <3>1, <3>2 DEF LimitInv, TypeOK, Bound
  <2>4. count[k] + 1 <= Max
    BY <1>1, <1>4 DEF LimitAssumption, Over
  <2>5. ASSUME NEW j \in FailClosed
        PROVE  passed'[j] <= count'[j] /\ passed'[j] <= Max
    <3>1. j \in Keys /\ Max \in Nat
      BY DEF LimitAssumption
    <3>2. passed[j] \in Nat /\ count[j] \in Nat
      BY <3>1 DEF LimitInv, TypeOK, LimitAssumption, Bound
    <3>3. passed'[j] \in Nat
      BY <1>1, <2>2, <3>1
    <3>4. count'[j] = IF j = k THEN count[k] + 1 ELSE count[j]
      BY <1>1, <3>1 DEF LimitInv, TypeOK
    <3>5. passed[j] <= count[j] /\ passed[j] <= Max
      BY DEF LimitInv, PassedWereCounted, AuthIsLimited
    <3> QED BY <2>2, <2>4, <3>1, <3>2, <3>3, <3>4, <3>5
  <2>6. PassedWereCounted' /\ AuthIsLimited'
    BY <2>5 DEF PassedWereCounted, AuthIsLimited
  <2> QED BY <1>2, <2>3, <2>6 DEF LimitInv
<1> QED BY <1>3, <1>4

\* When Redis does not answer, a route under /auth lets nothing pass.
LEMMA CatchKeepsLimits ==
    ASSUME LimitAssumption, LimitInv, NEW k \in Keys, Catch(k),
           UNCHANGED <<up, count, life>>, refusing' \in [Calls -> Keys \cup {NoKey}]
    PROVE  LimitInv'
<1>1. /\ passed' \in [Keys -> 0..(Bound + 1)]
      /\ \A j \in FailClosed : passed'[j] = passed[j]
  <2>1. CASE k \in FailClosed
    BY <2>1 DEF Catch, LimitInv, TypeOK
  <2>2. CASE k \notin FailClosed
    BY <2>2, LetThroughCounts DEF Catch, LimitInv, LimitAssumption
  <2> QED BY <2>1, <2>2
<1> QED
  BY <1>1 DEF LimitInv, TypeOK, CountersExpire, PassedWereCounted, AuthIsLimited

\* Every other step leaves the counters alone, or ends their life together with what passed.
LEMMA NextKeepsLimits ==
    ASSUME LimitAssumption, LimitInv, [Next]_vars
    PROVE  LimitInv'
<1>1. CASE UNCHANGED vars
  BY <1>1 DEF LimitInv, TypeOK, CountersExpire, PassedWereCounted, AuthIsLimited, vars
<1>2. ASSUME NEW c \in Calls, NEW k \in Keys, Hit(c, k)
      PROVE  LimitInv'
  BY <1>2, HitKeepsLimits
<1>3. ASSUME NEW c \in Calls, NEW k \in Keys, HitFails(c, k)
      PROVE  LimitInv'
  BY <1>3, CatchKeepsLimits DEF HitFails, LimitInv, TypeOK
<1>4. ASSUME NEW c \in Calls, Refuse(c)
      PROVE  LimitInv'
  BY <1>4 DEF Refuse, LimitInv, TypeOK, CountersExpire, PassedWereCounted, AuthIsLimited
<1>5. ASSUME NEW c \in Calls, RefuseFails(c)
      PROVE  LimitInv'
  <2>1. refusing[c] \in Keys /\ refusing' \in [Calls -> Keys \cup {NoKey}]
    BY <1>5 DEF RefuseFails, LimitInv, TypeOK
  <2> QED BY <1>5, <2>1, CatchKeepsLimits DEF RefuseFails
<1>6. CASE Tick
  <2>1. TypeOK'
    BY <1>6 DEF Tick, LimitInv, TypeOK, LimitAssumption, Bound
  <2>2. CountersExpire'
    BY <1>6 DEF Tick, LimitInv, TypeOK, LimitAssumption, CountersExpire
  <2>3. PassedWereCounted' /\ AuthIsLimited'
    BY <1>6 DEF Tick, LimitInv, TypeOK, LimitAssumption, PassedWereCounted, AuthIsLimited, Bound
  <2> QED BY <2>1, <2>2, <2>3 DEF LimitInv
<1>7. CASE Cut
  BY <1>7 DEF Cut, LimitInv, TypeOK, CountersExpire, PassedWereCounted, AuthIsLimited
<1>8. CASE Restart
  BY <1>8 DEF Restart, LimitInv, TypeOK, CountersExpire, PassedWereCounted, AuthIsLimited,
              LimitAssumption, Bound
<1> QED
  BY <1>1, <1>2, <1>3, <1>4, <1>5, <1>6, <1>7, <1>8 DEF Next

\* rateLimit.js:6-7, 16: whatever becomes of Redis, no caller is locked out for ever, and no
\* window lets more than Max calls through to the routes under /auth.
THEOREM WindowsAlwaysHold == ClubSpec => []WindowsHold
<1>. USE ClubAssumption DEF ClubAssumption
<1>1. ClubInit => LimitInv
  BY LimitInitInv DEF ClubInit
<1>2. [ClubNext]_clubVars => [Next]_vars
  BY DEF ClubNext, clubVars, vars
<1>3. LimitInv /\ [ClubNext]_clubVars => LimitInv'
  BY <1>2, NextKeepsLimits
<1>4. LimitInv => WindowsHold
  BY DEF LimitInv, WindowsHold
<1> QED BY <1>1, <1>3, <1>4, PTL DEF ClubSpec

-----------------------------------------------------------------------------
(* The documents of the riders.  A name of a file is never used again, so  *)
(* that a file which no row names yet is in no list of files to remove;    *)
(* and a request that removes what it read has replaced it before.         *)

\* q has written a file that no row names yet.
WithFile(q) == docPc[q] \in {"stored", "licensed"}

\* q has read the rows of its documents and written none of them yet.
Reading(q) == docPc[q] \in {"stored", "licensed", "remove", "wipe"}

\* A request is about one document, or about those of one rider; a review removes nothing.
TargetsFit ==
    \A q \in Requests :
        /\ docPc[q] \in {"idle", "open", "decide"} => old[q] = {}
        /\ docPc[q] \in {"stored", "licensed", "replaced", "open", "decide"} =>
              \E d \in D!Documents : target[q] = {d}
        /\ docPc[q] \in {"remove", "unlink"} => \E r \in Riders : target[q] = D!Of(r)

\* What rows and requests name was written once.
NamesAreWritten ==
    /\ \A d \in D!Documents : url[d] \in written \cup {NoFile}
    /\ \A q \in Requests : old[q] \subseteq written

\* A file just written is on the volume, named by no row and removed by no request.
HeldIsFresh ==
    \A q \in Requests : WithFile(q) =>
        /\ held[q] \in files
        /\ \A d \in D!Documents : url[d] # held[q]
        /\ \A o \in Requests : held[q] \notin old[o]
        /\ \A o \in Requests \ {q} : WithFile(o) => held[o] # held[q]

OneRow == \A d, e \in D!Documents : url[d] = url[e] /\ url[d] # NoFile => d = e

\* What a request will remove is named by its own documents or by none...
OldIsOfTarget ==
    \A q \in Requests, d \in D!Documents :
        docPc[q] # "idle" /\ url[d] \in old[q] => d \in target[q]

\* ... and by none when it removes it.
Released ==
    \A q \in Requests, d \in D!Documents :
        docPc[q] \in {"replaced", "unlink"} => url[d] \notin old[q]

RowsInv ==
    /\ D!TypeOK /\ TargetsFit /\ NamesAreWritten /\ HeldIsFresh /\ OneRow
    /\ OldIsOfTarget /\ Released /\ D!FileBehindDocument

\* Requests that overlap on the files of a document leave a trace.
OverlapsShow ==
    \A q, o \in Requests, d \in D!Documents :
        /\ q # o /\ d \in target[q] /\ d \in target[o]
        /\ docPc[q] \notin {"idle", "open", "decide"} /\ docPc[o] \notin {"idle", "open", "decide"}
        => d \in disturbed

\* An admin has seen the file the row names, unless it was replaced under the admin's eyes.
AdminLooked ==
    \A q \in Requests, d \in D!Documents :
        docPc[q] \in {"open", "decide"} /\ d \in target[q]
            => url[d] \in judged \/ d \in swapped \/ d[1] \notin exists

PendingHasFile == \A d \in D!Documents : status[d] = "pending" => url[d] # NoFile

LicenceJudged == \A q \in Requests : docPc[q] = "licensed" => held[q] \in judged

ReviewInv ==
    OverlapsShow /\ AdminLooked /\ PendingHasFile /\ LicenceJudged /\ D!ApprovedWasJudged

\* Where no requests overlap, what a request has read is what the rows say...
ReadAsIs ==
    \A q \in Requests : Reading(q) => old[q] = {url[d] : d \in target[q]} \ {NoFile}

WipedFirst == \A q \in Requests : docPc[q] = "wipe" => old[q] \cap files = {}

\* ... and each file is named by a row, or held, or about to be removed.
Accounted ==
    \A f \in files :
        \/ \E d \in D!Documents : url[d] = f
        \/ \E q \in Requests : WithFile(q) /\ held[q] = f
        \/ \E q \in Requests : docPc[q] \in {"replaced", "unlink"} /\ f \in old[q]

QuietInv == disturbed = {} => ReadAsIs /\ WipedFirst /\ Accounted

DocInv == RowsInv /\ ReviewInv /\ QuietInv

LEMMA UploadKeepsDocInv ==
    ASSUME DocInv, NEW q \in Requests, NEW d \in D!Documents, NEW where \in {"stored", "licensed"},
           D!Start(q, {d}, where), D!Write(q), UNCHANGED <<D!rows, swapped, aborted>>,
           judged \subseteq judged', judged' \in SUBSET (judged \cup {held'[q]}), where = "licensed" => held'[q] \in judged'
    PROVE  DocInv'
<1>0. PICK f \in Files \ written :
         files' = files \cup {f} /\ written' = written \cup {f} /\ held' = [held EXCEPT ![q] = f]
  BY DEF D!Write, DocInv, RowsInv, D!TypeOK
<1>1. D!TypeOK'
  <2>1. {url[e] : e \in {d}} \ {NoFile} \in SUBSET Files
    BY DEF DocInv, RowsInv, D!TypeOK
  <2>2. /\ docPc' \in [Requests -> {"idle", "stored", "licensed", "replaced", "open", "decide",
                                    "remove", "unlink", "wipe"}]
        /\ target' \in [Requests -> SUBSET D!Documents]
        /\ old' \in [Requests -> SUBSET Files]
    BY <2>1 DEF D!Start, D!Reviews, D!Goto, DocInv, RowsInv, D!TypeOK
  <2>3. disturbed' \subseteq D!Documents
    BY DEF D!Start, D!Reviews, DocInv, RowsInv, D!TypeOK
  <2>4. judged' \subseteq Files
    BY <1>0 DEF DocInv, RowsInv, D!TypeOK
  <2> QED BY <1>0, <2>2, <2>3, <2>4 DEF D!rows, DocInv, RowsInv, D!TypeOK
<1>2. TargetsFit'
  BY DEF D!Start, D!Reviews, D!Goto, D!Write, D!rows, DocInv, RowsInv, TargetsFit, D!TypeOK
<1>3. NamesAreWritten'
  BY DEF D!Start, D!Reviews, D!Goto, D!Write, D!rows, DocInv, RowsInv, NamesAreWritten, D!TypeOK
<1>4. HeldIsFresh'
  <2>1. /\ \A e \in D!Documents : url'[e] \in written \cup {NoFile}
        /\ \A o \in Requests : old'[o] \subseteq written
        /\ \A o \in Requests : WithFile(o) => held[o] \in written
    BY DEF D!Start, D!Reviews, D!rows, DocInv, RowsInv, D!TypeOK, NamesAreWritten, HeldIsFresh
  <2>2. ASSUME NEW o \in Requests, o # q, WithFile(o)'
        PROVE  /\ WithFile(o) /\ held'[o] = held[o] /\ held[o] \in files
               /\ \A e \in D!Documents : url'[e] # held[o]
               /\ \A x \in Requests : held[o] \notin old'[x]
    BY <1>0, <2>2 DEF D!Start, D!Reviews, D!Goto, D!rows, DocInv, RowsInv, D!TypeOK, WithFile, HeldIsFresh
  <2>3. held'[q] = f /\ f # NoFile
    BY <1>0, ClubAssumption DEF DocInv, RowsInv, D!TypeOK, ClubAssumption, D!DocumentAssumption
  <2>4. ASSUME NEW o \in Requests, NEW x \in Requests \ {o}, WithFile(o)', WithFile(x)'
        PROVE  held'[o] # held'[x]
    BY <1>0, <2>1, <2>2, <2>3, <2>4 DEF DocInv, RowsInv, HeldIsFresh
  <2> QED BY <1>0, <2>1, <2>2, <2>3, <2>4 DEF HeldIsFresh
<1>5. OneRow'
  BY DEF D!Start, D!Reviews, D!Goto, D!Write, D!rows, DocInv, RowsInv, OneRow, D!TypeOK
<1>6. OldIsOfTarget'
  BY ClubAssumption
  DEF D!Start, D!Reviews, D!Goto, D!Write, D!rows, DocInv, RowsInv, ReviewInv, D!TypeOK, TargetsFit,
      NamesAreWritten, HeldIsFresh, OneRow, OldIsOfTarget, Released, D!FileBehindDocument,
      OverlapsShow, AdminLooked, PendingHasFile, LicenceJudged, D!ApprovedWasJudged, QuietInv,
      ReadAsIs, WipedFirst, Accounted, WithFile, Reading, D!Documents, ClubAssumption,
      D!DocumentAssumption
<1>7. Released'
  BY DEF D!Start, D!Reviews, D!Goto, D!Write, D!rows, DocInv, RowsInv, Released, D!TypeOK
<1>8. D!FileBehindDocument'
  BY DEF D!Start, D!Reviews, D!Goto, D!Write, D!rows, DocInv, RowsInv, D!FileBehindDocument, D!TypeOK
<1>9. OverlapsShow'
  BY ClubAssumption
  DEF D!Start, D!Reviews, D!Goto, D!Write, D!rows, DocInv, RowsInv, ReviewInv, OverlapsShow, D!TypeOK,
      D!Documents, TargetsFit, NamesAreWritten, HeldIsFresh, WithFile, ClubAssumption,
      D!DocumentAssumption
<1>10. AdminLooked'
  BY DEF D!Start, D!Reviews, D!Goto, D!Write, D!rows, DocInv, ReviewInv, AdminLooked, D!TypeOK
<1>11. PendingHasFile'
  BY DEF D!Start, D!Reviews, D!Goto, D!Write, D!rows, DocInv, ReviewInv, PendingHasFile, D!TypeOK
<1>12. LicenceJudged'
  BY DEF D!Start, D!Reviews, D!Goto, D!Write, D!rows, DocInv, ReviewInv, LicenceJudged, D!TypeOK
<1>13. D!ApprovedWasJudged'
  BY DEF D!Start, D!Reviews, D!Goto, D!Write, D!rows, DocInv, ReviewInv, D!ApprovedWasJudged, D!TypeOK
<1>14. QuietInv'
  <2> SUFFICES ASSUME disturbed' = {}
               PROVE  ReadAsIs' /\ WipedFirst' /\ Accounted'
    BY DEF QuietInv
  <2>1. ReadAsIs /\ WipedFirst /\ Accounted
    BY DEF D!Start, D!Reviews, DocInv, QuietInv
  <2>2. ReadAsIs'
    BY <2>1 DEF D!Start, D!Reviews, D!Goto, D!rows, DocInv, RowsInv, D!TypeOK, ReadAsIs, Reading
  <2>3. WipedFirst'
    BY <1>0, <2>1 DEF D!Start, D!Reviews, D!Goto, DocInv, RowsInv, D!TypeOK, NamesAreWritten, WipedFirst
  <2>4. Accounted'
    <3> SUFFICES ASSUME NEW g \in files \cup {f}
                 PROVE  \/ \E e \in D!Documents : url'[e] = g
                        \/ \E o \in Requests : WithFile(o)' /\ held'[o] = g
                        \/ \E o \in Requests : docPc'[o] \in {"replaced", "unlink"} /\ g \in old'[o]
      BY <1>0 DEF Accounted
    <3>1. CASE g = f
      BY <1>0, <3>1 DEF D!Start, D!Reviews, D!Goto, DocInv, RowsInv, D!TypeOK, WithFile
    <3>2. CASE g \in files /\ \E e \in D!Documents : url[e] = g
      BY <3>2 DEF D!rows
    <3>3. ASSUME NEW o \in Requests, docPc[o] # "idle"
          PROVE  docPc'[o] = docPc[o] /\ held'[o] = held[o] /\ old'[o] = old[o]
      BY <1>0, <3>3 DEF D!Start, D!Reviews, D!Goto, DocInv, RowsInv, D!TypeOK
    <3>4. CASE \E o \in Requests : WithFile(o) /\ held[o] = g
      BY <3>3, <3>4 DEF WithFile
    <3>5. CASE \E o \in Requests : docPc[o] \in {"replaced", "unlink"} /\ g \in old[o]
      BY <3>3, <3>5
    <3> QED BY <1>0, <2>1, <3>1, <3>2, <3>4, <3>5 DEF Accounted
  <2> QED BY <2>2, <2>3, <2>4
<1> QED BY <1>1, <1>2, <1>3, <1>4, <1>5, <1>6, <1>7, <1>8, <1>9, <1>10, <1>11, <1>12, <1>13, <1>14
  DEF DocInv, RowsInv, ReviewInv

LEMMA ReadKeepsDocInv ==
    ASSUME DocInv, NEW q \in Requests, NEW T \in SUBSET D!Documents, D!Start(q, T, "remove"),
           \E r \in Riders : T = D!Of(r),
           UNCHANGED <<D!rows, files, written, held, judged, swapped, aborted>>
    PROVE  DocInv'
<1>1. D!TypeOK'
  BY DEF D!Start, D!Reviews, D!Goto, D!rows, DocInv, RowsInv, D!TypeOK, D!Documents
<1>2. TargetsFit'
  BY DEF D!Start, D!Reviews, D!Goto, D!rows, DocInv, RowsInv, TargetsFit, D!TypeOK
<1>3. NamesAreWritten'
  BY DEF D!Start, D!Reviews, D!Goto, D!rows, DocInv, RowsInv, NamesAreWritten, D!TypeOK
<1>4. HeldIsFresh'
  BY DEF D!Start, D!Reviews, D!Goto, D!rows, DocInv, RowsInv, HeldIsFresh, WithFile, D!TypeOK
<1>5. OneRow'
  BY DEF D!Start, D!Reviews, D!Goto, D!rows, DocInv, RowsInv, OneRow, D!TypeOK
<1>6. OldIsOfTarget'
  BY ClubAssumption
  DEF D!Start, D!Reviews, D!Goto, D!rows, DocInv, RowsInv, ReviewInv, D!TypeOK, TargetsFit, NamesAreWritten,
      HeldIsFresh, OneRow, OldIsOfTarget, Released, D!FileBehindDocument, OverlapsShow,
      AdminLooked, PendingHasFile, LicenceJudged, D!ApprovedWasJudged, QuietInv, ReadAsIs,
      WipedFirst, Accounted, WithFile, Reading, D!Documents, ClubAssumption, D!DocumentAssumption
<1>7. Released'
  BY DEF D!Start, D!Reviews, D!Goto, D!rows, DocInv, RowsInv, Released, D!TypeOK
<1>8. D!FileBehindDocument'
  BY DEF D!Start, D!Reviews, D!Goto, D!rows, DocInv, RowsInv, D!FileBehindDocument, D!TypeOK
<1>9. OverlapsShow'
  BY ClubAssumption
  DEF D!Start, D!Reviews, D!Goto, D!rows, DocInv, RowsInv, ReviewInv, OverlapsShow, D!TypeOK, D!Documents,
      TargetsFit, NamesAreWritten, HeldIsFresh, WithFile, ClubAssumption, D!DocumentAssumption
<1>10. AdminLooked'
  BY ClubAssumption
  DEF D!Start, D!Reviews, D!Goto, D!rows, DocInv, RowsInv, ReviewInv, D!TypeOK, TargetsFit, NamesAreWritten,
      HeldIsFresh, OneRow, OldIsOfTarget, Released, D!FileBehindDocument, OverlapsShow,
      AdminLooked, PendingHasFile, LicenceJudged, D!ApprovedWasJudged, QuietInv, ReadAsIs,
      WipedFirst, Accounted, WithFile, Reading, D!Documents, ClubAssumption, D!DocumentAssumption
<1>11. PendingHasFile'
  BY DEF D!Start, D!Reviews, D!Goto, D!rows, DocInv, ReviewInv, PendingHasFile, D!TypeOK
<1>12. LicenceJudged'
  BY DEF D!Start, D!Reviews, D!Goto, D!rows, DocInv, ReviewInv, LicenceJudged, D!TypeOK
<1>13. D!ApprovedWasJudged'
  BY DEF D!Start, D!Reviews, D!Goto, D!rows, DocInv, ReviewInv, D!ApprovedWasJudged, D!TypeOK
<1>14. QuietInv'
  BY
  DEF D!Start, D!Reviews, D!Goto, D!rows, DocInv, RowsInv, QuietInv, ReadAsIs, WipedFirst, Accounted,
      Reading, WithFile, D!TypeOK
<1> QED BY <1>1, <1>2, <1>3, <1>4, <1>5, <1>6, <1>7, <1>8, <1>9, <1>10, <1>11, <1>12, <1>13, <1>14
  DEF DocInv, RowsInv, ReviewInv

LEMMA WipeKeepsDocInv ==
    ASSUME DocInv, NEW q \in Requests, D!EraseFiles(q)
    PROVE  DocInv'
<1>1. D!TypeOK'
  BY DEF D!EraseFiles, D!Start, D!Reviews, D!Goto, D!rows, DocInv, RowsInv, D!TypeOK, D!Documents
<1>2. TargetsFit'
  BY DEF D!EraseFiles, D!Start, D!Reviews, D!Goto, D!rows, DocInv, RowsInv, TargetsFit, D!TypeOK
<1>3. NamesAreWritten'
  BY ClubAssumption
  DEF D!EraseFiles, D!Start, D!Reviews, D!Goto, D!rows, DocInv, RowsInv, NamesAreWritten, D!TypeOK,
      D!Documents, TargetsFit, HeldIsFresh, WithFile, ClubAssumption, D!DocumentAssumption
<1>4. HeldIsFresh'
  BY ClubAssumption
  DEF D!EraseFiles, D!Start, D!Reviews, D!Goto, D!rows, DocInv, RowsInv, HeldIsFresh, WithFile, D!TypeOK,
      D!Documents, TargetsFit, NamesAreWritten, ClubAssumption, D!DocumentAssumption
<1>5. OneRow'
  BY DEF D!EraseFiles, D!Start, D!Reviews, D!Goto, D!rows, DocInv, RowsInv, OneRow, D!TypeOK
<1>6. OldIsOfTarget'
  BY ClubAssumption
  DEF D!EraseFiles, D!Start, D!Reviews, D!Goto, D!rows, DocInv, RowsInv, ReviewInv, D!TypeOK, TargetsFit,
      NamesAreWritten, HeldIsFresh, OneRow, OldIsOfTarget, Released, D!FileBehindDocument,
      OverlapsShow, AdminLooked, PendingHasFile, LicenceJudged, D!ApprovedWasJudged, QuietInv,
      ReadAsIs, WipedFirst, Accounted, WithFile, Reading, D!Documents, ClubAssumption,
      D!DocumentAssumption
<1>7. Released'
  BY DEF D!EraseFiles, D!Start, D!Reviews, D!Goto, D!rows, DocInv, RowsInv, Released, D!TypeOK
<1>8. D!FileBehindDocument'
  BY ClubAssumption
  DEF D!EraseFiles, D!Start, D!Reviews, D!Goto, D!rows, DocInv, RowsInv, ReviewInv, D!TypeOK, TargetsFit,
      NamesAreWritten, HeldIsFresh, OneRow, OldIsOfTarget, Released, D!FileBehindDocument,
      OverlapsShow, AdminLooked, PendingHasFile, LicenceJudged, D!ApprovedWasJudged, QuietInv,
      ReadAsIs, WipedFirst, Accounted, WithFile, Reading, D!Documents, ClubAssumption,
      D!DocumentAssumption
<1>9. OverlapsShow'
  BY ClubAssumption
  DEF D!EraseFiles, D!Start, D!Reviews, D!Goto, D!rows, DocInv, RowsInv, ReviewInv, OverlapsShow, D!TypeOK,
      D!Documents, TargetsFit, NamesAreWritten, HeldIsFresh, WithFile, ClubAssumption,
      D!DocumentAssumption
<1>10. AdminLooked'
  BY DEF D!EraseFiles, D!Start, D!Reviews, D!Goto, D!rows, DocInv, ReviewInv, AdminLooked, D!TypeOK
<1>11. PendingHasFile'
  BY DEF D!EraseFiles, D!Start, D!Reviews, D!Goto, D!rows, DocInv, ReviewInv, PendingHasFile, D!TypeOK
<1>12. LicenceJudged'
  BY DEF D!EraseFiles, D!Start, D!Reviews, D!Goto, D!rows, DocInv, ReviewInv, LicenceJudged, D!TypeOK
<1>13. D!ApprovedWasJudged'
  BY DEF D!EraseFiles, D!Start, D!Reviews, D!Goto, D!rows, DocInv, ReviewInv, D!ApprovedWasJudged, D!TypeOK
<1>14. QuietInv'
  BY
  DEF D!EraseFiles, D!Start, D!Reviews, D!Goto, D!rows, DocInv, RowsInv, QuietInv, ReadAsIs, WipedFirst,
      Accounted, Reading, WithFile, D!TypeOK
<1> QED BY <1>1, <1>2, <1>3, <1>4, <1>5, <1>6, <1>7, <1>8, <1>9, <1>10, <1>11, <1>12, <1>13, <1>14
  DEF DocInv, RowsInv, ReviewInv

LEMMA ReplaceKeepsDocInv ==
    ASSUME DocInv, NEW q \in Requests, D!ReplaceDocument(q) \/ D!ReplaceLicense(q)
    PROVE  DocInv'
<1>0. PICK d \in D!Documents :
         /\ target[q] = {d} /\ WithFile(q) /\ held[q] \in Files
         /\ url' = [url EXCEPT ![d] = held[q]]
         /\ \E s \in {"pending", "approved"} : status' = [status EXCEPT ![d] = s]
         /\ expired' = expired \ {d}
         /\ docPc' = [docPc EXCEPT ![q] = "replaced"]
         /\ UNCHANGED <<exists, enrolled, erased, files, written, D!locals, judged, disturbed, aborted>>
  <2>1. docPc[q] \in {"stored", "licensed"}
    BY DEF D!ReplaceDocument, D!ReplaceLicense
  <2>2. PICK d \in D!Documents : target[q] = {d}
    BY <2>1 DEF DocInv, RowsInv, TargetsFit
  <2>3. held[q] \in Files
    BY <2>1 DEF DocInv, RowsInv, HeldIsFresh, WithFile, D!TypeOK
  <2>4. CASE D!ReplaceDocument(q)
    BY <2>1, <2>2, <2>3, <2>4 DEF D!ReplaceDocument, D!Goto, WithFile
  <2>5. CASE D!ReplaceLicense(q)
    BY <2>1, <2>2, <2>3, <2>5 DEF D!ReplaceLicense, D!Goto, WithFile
  <2> QED BY <2>4, <2>5
<1>a. /\ swapped' \in SUBSET D!Documents /\ swapped \subseteq swapped'
      /\ \/ \A o \in Requests : docPc[o] \in {"open", "decide"} => target[o] \cap {d} \subseteq swapped'
         \/ held[q] \in judged
  <2>1. CASE D!ReplaceDocument(q)
    <3>1. PICK e \in target[q] : D!Swap({e})
      BY <2>1 DEF D!ReplaceDocument
    <3>2. D!Swap({d}) /\ target \in [Requests -> SUBSET D!Documents]
      BY <1>0, <3>1 DEF DocInv, RowsInv, D!TypeOK
    <3> QED BY <3>2 DEF D!Swap, D!Reviews, DocInv, RowsInv, D!TypeOK
  <2>2. CASE D!ReplaceLicense(q)
    BY <2>2 DEF D!ReplaceLicense, DocInv, RowsInv, ReviewInv, LicenceJudged, D!TypeOK
  <2> QED BY <2>1, <2>2
<1>1. D!TypeOK'
  BY <1>0, <1>a DEF D!locals, DocInv, RowsInv, D!TypeOK
<1>2. TargetsFit'
  BY <1>0 DEF D!locals, DocInv, RowsInv, TargetsFit, D!TypeOK
<1>3. NamesAreWritten'
  BY <1>0 DEF D!locals, DocInv, RowsInv, D!TypeOK, NamesAreWritten, HeldIsFresh
<1>4. HeldIsFresh'
  BY <1>0 DEF D!locals, DocInv, RowsInv, HeldIsFresh, WithFile, D!TypeOK
<1>5. OneRow'
  BY <1>0 DEF D!locals, DocInv, RowsInv, OneRow, D!TypeOK, HeldIsFresh
<1>6. OldIsOfTarget'
  BY <1>0 DEF D!locals, DocInv, RowsInv, OldIsOfTarget, D!TypeOK, HeldIsFresh, WithFile
<1>7. Released'
  BY <1>0 DEF D!locals, DocInv, RowsInv, D!TypeOK, HeldIsFresh, OldIsOfTarget, Released, WithFile
<1>8. D!FileBehindDocument'
  <2> SUFFICES ASSUME NEW e \in D!Documents
               PROVE  \/ url'[e] \in files \cup {NoFile}
                      \/ e \in aborted
                      \/ \E o \in Requests : docPc'[o] = "wipe" /\ e \in target[o]
    BY <1>0 DEF D!locals, D!FileBehindDocument
  <2>1. CASE e = d
    BY <1>0, <2>1 DEF DocInv, RowsInv, HeldIsFresh, D!TypeOK
  <2>2. CASE e # d
    <3>1. url'[e] = url[e]
      BY <1>0, <2>2 DEF DocInv, RowsInv, D!TypeOK
    <3>2. \A o \in Requests : docPc[o] = "wipe" => docPc'[o] = "wipe"
      BY <1>0 DEF DocInv, RowsInv, D!TypeOK, WithFile
    <3> QED BY <3>1, <3>2 DEF DocInv, RowsInv, D!FileBehindDocument
  <2> QED BY <2>1, <2>2
<1>9. OverlapsShow'
  BY <1>0 DEF D!locals, DocInv, RowsInv, ReviewInv, OverlapsShow, D!TypeOK, WithFile
<1>10. AdminLooked'
  BY <1>0, <1>a DEF D!locals, DocInv, RowsInv, ReviewInv, D!TypeOK, AdminLooked
<1>11. PendingHasFile'
  BY <1>0, ClubAssumption
  DEF D!locals, DocInv, RowsInv, ReviewInv, PendingHasFile, D!TypeOK, ClubAssumption,
      D!DocumentAssumption
<1>12. LicenceJudged'
  BY <1>0 DEF D!locals, DocInv, RowsInv, ReviewInv, LicenceJudged, D!TypeOK
<1>13. D!ApprovedWasJudged'
  <2> SUFFICES ASSUME NEW e \in D!Documents, status'[e] = "approved"
               PROVE  url'[e] \in judged \/ e \in swapped'
    BY <1>0 DEF D!ApprovedWasJudged
  <2>1. CASE e # d
    BY <1>0, <1>a, <2>1 DEF DocInv, RowsInv, ReviewInv, D!ApprovedWasJudged, D!TypeOK
  <2>2. CASE e = d
    <3>1. D!ReplaceLicense(q)
      BY <1>0, <2>2 DEF D!ReplaceDocument, DocInv, RowsInv, D!TypeOK
    <3>2. held[q] \in judged
      BY <3>1 DEF D!ReplaceLicense, DocInv, ReviewInv, LicenceJudged
    <3> QED BY <1>0, <2>2, <3>2 DEF DocInv, RowsInv, D!TypeOK
  <2> QED BY <2>1, <2>2
<1>14. QuietInv'
  <2> SUFFICES ASSUME disturbed = {}
               PROVE  ReadAsIs' /\ WipedFirst' /\ Accounted'
    BY <1>0 DEF QuietInv
  <2>1. ReadAsIs /\ WipedFirst /\ Accounted
    BY DEF DocInv, QuietInv
  <2>2. ReadAsIs'
    <3> SUFFICES ASSUME NEW o \in Requests, Reading(o)'
                 PROVE  old[o] = {url'[e] : e \in target[o]} \ {NoFile}
      BY <1>0 DEF ReadAsIs, Reading, D!locals
    <3>1. o # q /\ Reading(o)
      BY <1>0 DEF Reading, DocInv, RowsInv, D!TypeOK
    <3>2. d \notin target[o] /\ target[o] \subseteq D!Documents
      BY <1>0, <3>1 DEF Reading, WithFile, DocInv, RowsInv, D!TypeOK, ReviewInv, OverlapsShow
    <3>3. \A e \in target[o] : url'[e] = url[e]
      BY <1>0, <3>2 DEF DocInv, RowsInv, D!TypeOK
    <3> QED BY <2>1, <3>1, <3>3 DEF ReadAsIs
  <2>3. WipedFirst'
    BY <1>0, <2>1 DEF D!locals, DocInv, RowsInv, D!TypeOK, WipedFirst
  <2>4. Accounted'
    <3> SUFFICES ASSUME NEW f \in files
                 PROVE  \/ \E e \in D!Documents : url'[e] = f
                        \/ \E o \in Requests : WithFile(o)' /\ held[o] = f
                        \/ \E o \in Requests : docPc'[o] \in {"replaced", "unlink"} /\ f \in old[o]
      BY <1>0 DEF Accounted, D!locals
    <3>1. docPc'[q] = "replaced" /\ url'[d] = held[q] /\ \A o \in Requests \ {q} : docPc'[o] = docPc[o]
      BY <1>0 DEF DocInv, RowsInv, D!TypeOK
    <3>2. CASE f = url[d]
      <4>1. f \in old[q]
        BY <1>0, <2>1, <3>2, ClubAssumption
        DEF ReadAsIs, Reading, WithFile, DocInv, RowsInv, D!TypeOK, ClubAssumption,
            D!DocumentAssumption
      <4> QED BY <3>1, <4>1
    <3>3. CASE \E e \in D!Documents : e # d /\ url[e] = f
      BY <1>0, <3>3 DEF DocInv, RowsInv, D!TypeOK
    <3>4. CASE \E o \in Requests : WithFile(o) /\ held[o] = f
      BY <3>1, <3>4 DEF WithFile
    <3>5. CASE \E o \in Requests : docPc[o] \in {"replaced", "unlink"} /\ f \in old[o]
      BY <3>1, <3>5
    <3> QED BY <2>1, <3>2, <3>3, <3>4, <3>5 DEF Accounted
  <2> QED BY <2>2, <2>3, <2>4
<1> QED BY <1>1, <1>2, <1>3, <1>4, <1>5, <1>6, <1>7, <1>8, <1>9, <1>10, <1>11, <1>12, <1>13, <1>14
  DEF DocInv, RowsInv, ReviewInv

LEMMA RemoveKeepsDocInv ==
    ASSUME DocInv, NEW q \in Requests, D!RemoveOld(q)
    PROVE  DocInv'
<1>1. D!TypeOK'
  BY DEF D!RemoveOld, D!Finish, D!Goto, D!rows, DocInv, RowsInv, D!TypeOK, D!Documents
<1>2. TargetsFit'
  BY DEF D!RemoveOld, D!Finish, D!Goto, D!rows, DocInv, RowsInv, TargetsFit, D!TypeOK
<1>3. NamesAreWritten'
  BY DEF D!RemoveOld, D!Finish, D!Goto, D!rows, DocInv, RowsInv, NamesAreWritten, D!TypeOK
<1>4. HeldIsFresh'
  BY DEF D!RemoveOld, D!Finish, D!Goto, D!rows, DocInv, RowsInv, HeldIsFresh, WithFile, D!TypeOK
<1>5. OneRow'
  BY DEF D!RemoveOld, D!Finish, D!Goto, D!rows, DocInv, RowsInv, OneRow, D!TypeOK
<1>6. OldIsOfTarget'
  BY DEF D!RemoveOld, D!Finish, D!Goto, D!rows, DocInv, RowsInv, OldIsOfTarget, D!TypeOK
<1>7. Released'
  BY DEF D!RemoveOld, D!Finish, D!Goto, D!rows, DocInv, RowsInv, Released, D!TypeOK
<1>8. D!FileBehindDocument'
  BY ClubAssumption
  DEF D!RemoveOld, D!Finish, D!Goto, D!rows, DocInv, RowsInv, ReviewInv, D!TypeOK, TargetsFit,
      NamesAreWritten, HeldIsFresh, OneRow, OldIsOfTarget, Released, D!FileBehindDocument,
      OverlapsShow, AdminLooked, PendingHasFile, LicenceJudged, D!ApprovedWasJudged, QuietInv,
      ReadAsIs, WipedFirst, Accounted, WithFile, Reading, D!Documents, ClubAssumption,
      D!DocumentAssumption
<1>9. OverlapsShow'
  BY DEF D!RemoveOld, D!Finish, D!Goto, D!rows, DocInv, ReviewInv, OverlapsShow, D!TypeOK
<1>10. AdminLooked'
  BY DEF D!RemoveOld, D!Finish, D!Goto, D!rows, DocInv, ReviewInv, AdminLooked, D!TypeOK
<1>11. PendingHasFile'
  BY DEF D!RemoveOld, D!Finish, D!Goto, D!rows, DocInv, ReviewInv, PendingHasFile, D!TypeOK
<1>12. LicenceJudged'
  BY DEF D!RemoveOld, D!Finish, D!Goto, D!rows, DocInv, ReviewInv, LicenceJudged, D!TypeOK
<1>13. D!ApprovedWasJudged'
  BY DEF D!RemoveOld, D!Finish, D!Goto, D!rows, DocInv, ReviewInv, D!ApprovedWasJudged, D!TypeOK
<1>14. QuietInv'
  BY
  DEF D!RemoveOld, D!Finish, D!Goto, D!rows, DocInv, RowsInv, QuietInv, ReadAsIs, WipedFirst,
      Accounted, Reading, WithFile, D!TypeOK
<1> QED BY <1>1, <1>2, <1>3, <1>4, <1>5, <1>6, <1>7, <1>8, <1>9, <1>10, <1>11, <1>12, <1>13, <1>14
  DEF DocInv, RowsInv, ReviewInv

\* Looking at a document and at its status changes no row and no file.
LEMMA LookKeepsDocInv ==
    ASSUME DocInv, NEW q \in Requests,
           (\E d \in D!Documents : D!OpenDocument(q, d)) \/ D!ReadForReview(q)
    PROVE  DocInv'
<1>1. D!TypeOK'
  BY DEF D!OpenDocument, D!ReadForReview, D!Goto, D!rows, D!locals, DocInv, RowsInv, D!TypeOK
<1>2. TargetsFit'
  BY DEF D!OpenDocument, D!ReadForReview, D!Goto, D!rows, D!locals, DocInv, RowsInv, TargetsFit,
         D!TypeOK
<1>3. NamesAreWritten'
  BY DEF D!OpenDocument, D!ReadForReview, D!Goto, D!rows, D!locals, DocInv, RowsInv,
         NamesAreWritten, D!TypeOK
<1>4. HeldIsFresh'
  BY DEF D!OpenDocument, D!ReadForReview, D!Goto, D!rows, D!locals, DocInv, RowsInv,
         HeldIsFresh, WithFile, D!TypeOK
<1>5. OneRow'
  BY DEF D!OpenDocument, D!ReadForReview, D!Goto, D!rows, D!locals, DocInv, RowsInv, OneRow,
         D!TypeOK
<1>6. OldIsOfTarget'
  BY DEF D!OpenDocument, D!ReadForReview, D!Goto, D!rows, D!locals, DocInv, RowsInv, TargetsFit,
         OldIsOfTarget, D!TypeOK
<1>7. Released'
  BY DEF D!OpenDocument, D!ReadForReview, D!Goto, D!rows, D!locals, DocInv, RowsInv, Released,
         D!TypeOK
<1>8. D!FileBehindDocument'
  BY DEF D!OpenDocument, D!ReadForReview, D!Goto, D!rows, D!locals, DocInv, RowsInv,
         D!FileBehindDocument, D!TypeOK
<1>9. OverlapsShow'
  BY DEF D!OpenDocument, D!ReadForReview, D!Goto, D!rows, D!locals, DocInv, RowsInv, ReviewInv,
         OverlapsShow, D!TypeOK
<1>10. AdminLooked'
  BY DEF D!OpenDocument, D!ReadForReview, D!Goto, D!rows, D!locals, DocInv, RowsInv, ReviewInv,
         AdminLooked, D!TypeOK
<1>11. PendingHasFile'
  BY DEF D!OpenDocument, D!ReadForReview, D!Goto, D!rows, D!locals, DocInv, ReviewInv,
         PendingHasFile, D!TypeOK
<1>12. LicenceJudged'
  BY DEF D!OpenDocument, D!ReadForReview, D!Goto, D!rows, D!locals, DocInv, RowsInv, ReviewInv,
         LicenceJudged, D!TypeOK
<1>13. D!ApprovedWasJudged'
  BY DEF D!OpenDocument, D!ReadForReview, D!Goto, D!rows, D!locals, DocInv, ReviewInv,
         D!ApprovedWasJudged, D!TypeOK
<1>14. QuietInv'
  BY DEF D!OpenDocument, D!ReadForReview, D!Goto, D!rows, D!locals, DocInv, RowsInv, QuietInv,
         ReadAsIs, WipedFirst, Accounted, Reading, WithFile, D!TypeOK
<1> QED BY <1>1, <1>2, <1>3, <1>4, <1>5, <1>6, <1>7, <1>8, <1>9, <1>10, <1>11, <1>12, <1>13, <1>14
  DEF DocInv, RowsInv, ReviewInv

LEMMA DecideKeepsDocInv ==
    ASSUME DocInv, NEW q \in Requests, D!Decide(q)
    PROVE  DocInv'
<1>1. D!TypeOK'
  BY DEF D!Decide, D!Finish, D!Goto, DocInv, RowsInv, D!TypeOK, D!Documents
<1>2. TargetsFit'
  BY DEF D!Decide, D!Finish, D!Goto, DocInv, RowsInv, TargetsFit, D!TypeOK
<1>3. NamesAreWritten'
  BY DEF D!Decide, D!Finish, D!Goto, DocInv, RowsInv, NamesAreWritten, D!TypeOK
<1>4. HeldIsFresh'
  BY DEF D!Decide, D!Finish, D!Goto, DocInv, RowsInv, HeldIsFresh, WithFile, D!TypeOK
<1>5. OneRow'
  BY DEF D!Decide, D!Finish, D!Goto, DocInv, RowsInv, OneRow, D!TypeOK
<1>6. OldIsOfTarget'
  BY DEF D!Decide, D!Finish, D!Goto, DocInv, RowsInv, OldIsOfTarget, D!TypeOK
<1>7. Released'
  BY DEF D!Decide, D!Finish, D!Goto, DocInv, RowsInv, Released, D!TypeOK
<1>8. D!FileBehindDocument'
  BY DEF D!Decide, D!Finish, D!Goto, DocInv, RowsInv, D!FileBehindDocument, D!TypeOK
<1>9. OverlapsShow'
  BY DEF D!Decide, D!Finish, D!Goto, DocInv, ReviewInv, OverlapsShow, D!TypeOK
<1>10. AdminLooked'
  BY ClubAssumption
  DEF D!Decide, D!Finish, D!Goto, DocInv, RowsInv, ReviewInv, AdminLooked, D!TypeOK,
      D!Documents, TargetsFit, NamesAreWritten, HeldIsFresh, WithFile, ClubAssumption,
      D!DocumentAssumption
<1>11. PendingHasFile'
  BY DEF D!Decide, D!Finish, D!Goto, DocInv, ReviewInv, PendingHasFile, D!TypeOK
<1>12. LicenceJudged'
  BY DEF D!Decide, D!Finish, D!Goto, DocInv, ReviewInv, LicenceJudged, D!TypeOK
<1>13. D!ApprovedWasJudged'
  BY ClubAssumption
  DEF D!Decide, D!Finish, D!Goto, DocInv, RowsInv, ReviewInv, D!TypeOK, TargetsFit,
      NamesAreWritten, HeldIsFresh, OneRow, OldIsOfTarget, Released, D!FileBehindDocument,
      OverlapsShow, AdminLooked, PendingHasFile, LicenceJudged, D!ApprovedWasJudged, QuietInv,
      ReadAsIs, WipedFirst, Accounted, WithFile, Reading, D!Documents, ClubAssumption,
      D!DocumentAssumption
<1>14. QuietInv'
  BY
  DEF D!Decide, D!Finish, D!Goto, DocInv, RowsInv, QuietInv, ReadAsIs, WipedFirst, Accounted,
      Reading, WithFile, D!TypeOK
<1> QED BY <1>1, <1>2, <1>3, <1>4, <1>5, <1>6, <1>7, <1>8, <1>9, <1>10, <1>11, <1>12, <1>13, <1>14
  DEF DocInv, RowsInv, ReviewInv

LEMMA DeleteRowKeepsDocInv ==
    ASSUME DocInv, NEW q \in Requests, D!DeleteRow(q)
    PROVE  DocInv'
<1>0. PICK r \in Riders :
         /\ target[q] = D!Of(r)
         /\ url' = [e \in D!Documents |-> IF e \in target[q] THEN NoFile ELSE url[e]]
         /\ docPc[q] = "remove" /\ docPc' = [docPc EXCEPT ![q] = "unlink"]
         /\ UNCHANGED <<files, D!locals, disturbed, judged, swapped>>
         /\ \A e \in D!Documents : e \in target[q] => e[1] \notin exists'
         /\ exists' \subseteq exists
  <2>1. \E r \in Riders : target[q] = D!Of(r)
    BY DEF D!DeleteRow, DocInv, RowsInv, TargetsFit
  <2>2. PICK r \in Riders : /\ target[q] = D!Of(r)
                            /\ url' = [e \in D!Documents |-> IF e[1] = r THEN NoFile ELSE url[e]]
    BY <2>1 DEF D!DeleteRow
  <2>3. \A e \in D!Documents : e[1] = r <=> e \in target[q]
    BY <2>2 DEF D!Documents, D!Of
  <2> QED BY <2>2, <2>3 DEF D!DeleteRow, D!Goto
<1>1. D!TypeOK'
  BY DEF D!DeleteRow, D!Goto, D!locals, D!Of, DocInv, RowsInv, D!TypeOK, D!Documents
<1>2. TargetsFit'
  BY DEF D!DeleteRow, D!Goto, D!locals, D!Of, DocInv, RowsInv, TargetsFit, D!TypeOK
<1>3. NamesAreWritten'
  BY DEF D!DeleteRow, D!Goto, D!locals, D!Of, DocInv, RowsInv, NamesAreWritten, D!TypeOK
<1>4. HeldIsFresh'
  BY ClubAssumption
  DEF D!DeleteRow, D!Goto, D!locals, D!Of, DocInv, RowsInv, HeldIsFresh, WithFile, D!TypeOK,
      D!Documents, TargetsFit, NamesAreWritten, ClubAssumption, D!DocumentAssumption
<1>5. OneRow'
  BY DEF D!DeleteRow, D!Goto, D!locals, D!Of, DocInv, RowsInv, OneRow, D!TypeOK
<1>6. OldIsOfTarget'
  BY ClubAssumption
  DEF D!DeleteRow, D!Goto, D!locals, D!Of, DocInv, RowsInv, OldIsOfTarget, D!TypeOK, D!Documents,
      TargetsFit, NamesAreWritten, HeldIsFresh, WithFile, ClubAssumption, D!DocumentAssumption
<1>7. Released'
  BY <1>0, ClubAssumption DEF D!locals, DocInv, RowsInv, D!TypeOK, OldIsOfTarget, Released,
                              ClubAssumption, D!DocumentAssumption
<1>8. D!FileBehindDocument'
  BY DEF D!DeleteRow, D!Goto, D!locals, D!Of, DocInv, RowsInv, D!FileBehindDocument, D!TypeOK
<1>9. OverlapsShow'
  BY DEF D!DeleteRow, D!Goto, D!locals, D!Of, DocInv, ReviewInv, OverlapsShow, D!TypeOK
<1>10. AdminLooked'
  BY <1>0 DEF D!locals, DocInv, RowsInv, ReviewInv, D!TypeOK, AdminLooked
<1>11. PendingHasFile'
  BY DEF D!DeleteRow, D!Goto, D!locals, D!Of, DocInv, ReviewInv, PendingHasFile, D!TypeOK
<1>12. LicenceJudged'
  BY DEF D!DeleteRow, D!Goto, D!locals, D!Of, DocInv, ReviewInv, LicenceJudged, D!TypeOK
<1>13. D!ApprovedWasJudged'
  BY DEF D!DeleteRow, D!Goto, D!locals, D!Of, DocInv, ReviewInv, D!ApprovedWasJudged, D!TypeOK
<1>14. QuietInv'
  <2> SUFFICES ASSUME disturbed = {}
               PROVE  ReadAsIs' /\ WipedFirst' /\ Accounted'
    BY <1>0 DEF QuietInv
  <2>1. ReadAsIs /\ WipedFirst /\ Accounted
    BY DEF DocInv, QuietInv
  <2>2. ReadAsIs'
    <3> SUFFICES ASSUME NEW o \in Requests, Reading(o)'
                 PROVE  old'[o] = {url'[e] : e \in target'[o]} \ {NoFile}
      BY DEF ReadAsIs
    <3>1. o # q /\ Reading(o) /\ old'[o] = old[o] /\ target'[o] = target[o]
      BY <1>0 DEF Reading, DocInv, RowsInv, D!TypeOK, D!locals
    <3>2. \A e \in target[o] : e \in D!Documents /\ e \notin target[q]
      BY <1>0, <3>1 DEF Reading, DocInv, RowsInv, D!TypeOK, ReviewInv, OverlapsShow
    <3>3. \A e \in target[o] : url'[e] = url[e]
      BY <1>0, <3>2
    <3> QED BY <2>1, <3>1, <3>3 DEF ReadAsIs
  <2>3. WipedFirst'
    BY <1>0, <2>1 DEF D!locals, DocInv, RowsInv, D!TypeOK, WipedFirst
  <2>4. Accounted'
    <3> SUFFICES ASSUME NEW f \in files
                 PROVE  \/ \E e \in D!Documents : url'[e] = f
                        \/ \E o \in Requests : WithFile(o)' /\ held'[o] = f
                        \/ \E o \in Requests : docPc'[o] \in {"replaced", "unlink"} /\ f \in old'[o]
      BY <1>0 DEF Accounted
    <3>1. \A o \in Requests \ {q} : docPc'[o] = docPc[o] /\ held'[o] = held[o] /\ old'[o] = old[o]
      BY <1>0 DEF DocInv, RowsInv, D!TypeOK, D!locals
    <3>2. CASE \E e \in target[q] : url[e] = f
      <4>1. f # NoFile
        BY ClubAssumption DEF DocInv, RowsInv, D!TypeOK, ClubAssumption, D!DocumentAssumption
      <4>2. f \in old[q]
        BY <1>0, <2>1, <3>2, <4>1 DEF ReadAsIs, Reading
      <4> QED BY <1>0, <4>2 DEF DocInv, RowsInv, D!TypeOK, D!locals
    <3>3. CASE \E e \in D!Documents : e \notin target[q] /\ url[e] = f
      BY <1>0, <3>3
    <3>4. CASE \E o \in Requests : WithFile(o) /\ held[o] = f
      BY <1>0, <3>1, <3>4 DEF WithFile
    <3>5. CASE \E o \in Requests : docPc[o] \in {"replaced", "unlink"} /\ f \in old[o]
      BY <1>0, <3>1, <3>5
    <3> QED BY <2>1, <3>2, <3>3, <3>4, <3>5 DEF Accounted
  <2> QED BY <2>2, <2>3, <2>4
<1> QED BY <1>1, <1>2, <1>3, <1>4, <1>5, <1>6, <1>7, <1>8, <1>9, <1>10, <1>11, <1>12, <1>13, <1>14
  DEF DocInv, RowsInv, ReviewInv

LEMMA EraseRowsKeepsDocInv ==
    ASSUME DocInv, NEW q \in Requests, D!EraseRows(q)
    PROVE  DocInv'
<1>0. /\ docPc[q] = "wipe" /\ docPc' = [docPc EXCEPT ![q] = "idle"]
      /\ url' = [e \in D!Documents |-> IF e \in target[q] THEN NoFile ELSE url[e]]
      /\ target' = [target EXCEPT ![q] = {}] /\ held' = [held EXCEPT ![q] = NoFile]
      /\ old' = [old EXCEPT ![q] = {}]
      /\ UNCHANGED <<files, disturbed, exists, judged>>
  BY DEF D!EraseRows, D!Finish, D!Goto
<1>a. /\ swapped' \in SUBSET D!Documents /\ swapped \subseteq swapped'
      /\ \A o \in Requests : docPc[o] \in {"open", "decide"} => target[o] \cap target[q] \subseteq swapped'
  BY DEF D!EraseRows, D!Swap, D!Reviews, DocInv, RowsInv, D!TypeOK
<1>1. D!TypeOK'
  BY <1>a DEF D!EraseRows, D!Finish, D!Goto, DocInv, RowsInv, D!TypeOK, D!Documents
<1>2. TargetsFit'
  BY DEF D!EraseRows, D!Finish, D!Goto, DocInv, RowsInv, TargetsFit, D!TypeOK
<1>3. NamesAreWritten'
  BY DEF D!EraseRows, D!Finish, D!Goto, DocInv, RowsInv, NamesAreWritten, D!TypeOK
<1>4. HeldIsFresh'
  BY ClubAssumption
  DEF D!EraseRows, D!Finish, D!Goto, DocInv, RowsInv, HeldIsFresh, WithFile, D!TypeOK,
      D!Documents, TargetsFit, NamesAreWritten, ClubAssumption, D!DocumentAssumption
<1>5. OneRow'
  BY DEF D!EraseRows, D!Finish, D!Goto, DocInv, RowsInv, OneRow, D!TypeOK
<1>6. OldIsOfTarget'
  BY ClubAssumption
  DEF D!EraseRows, D!Finish, D!Goto, DocInv, RowsInv, OldIsOfTarget, D!TypeOK, D!Documents,
      TargetsFit, NamesAreWritten, HeldIsFresh, WithFile, ClubAssumption, D!DocumentAssumption
<1>7. Released'
  BY ClubAssumption
  DEF D!EraseRows, D!Finish, D!Goto, DocInv, RowsInv, Released, D!TypeOK, D!Documents,
      TargetsFit, NamesAreWritten, HeldIsFresh, WithFile, ClubAssumption, D!DocumentAssumption
<1>8. D!FileBehindDocument'
  BY DEF D!EraseRows, D!Finish, D!Goto, DocInv, RowsInv, D!FileBehindDocument, D!TypeOK
<1>9. OverlapsShow'
  BY DEF D!EraseRows, D!Finish, D!Goto, DocInv, ReviewInv, OverlapsShow, D!TypeOK
<1>10. AdminLooked'
  BY <1>0, <1>a DEF DocInv, RowsInv, ReviewInv, D!TypeOK, AdminLooked
<1>11. PendingHasFile'
  BY DEF D!EraseRows, D!Finish, D!Goto, DocInv, ReviewInv, PendingHasFile, D!TypeOK
<1>12. LicenceJudged'
  BY DEF D!EraseRows, D!Finish, D!Goto, DocInv, ReviewInv, LicenceJudged, D!TypeOK
<1>13. D!ApprovedWasJudged'
  BY <1>a DEF D!EraseRows, D!Finish, D!Goto, DocInv, ReviewInv, D!ApprovedWasJudged, D!TypeOK
<1>14. QuietInv'
  <2> SUFFICES ASSUME disturbed = {}
               PROVE  ReadAsIs' /\ WipedFirst' /\ Accounted'
    BY <1>0 DEF QuietInv
  <2>1. ReadAsIs /\ WipedFirst /\ Accounted
    BY DEF DocInv, QuietInv
  <2>2. ReadAsIs'
    <3> SUFFICES ASSUME NEW o \in Requests, Reading(o)'
                 PROVE  old'[o] = {url'[e] : e \in target'[o]} \ {NoFile}
      BY DEF ReadAsIs
    <3>1. o # q /\ Reading(o) /\ old'[o] = old[o] /\ target'[o] = target[o]
      BY <1>0 DEF Reading, DocInv, RowsInv, D!TypeOK, D!locals
    <3>2. \A e \in target[o] : e \in D!Documents /\ e \notin target[q]
      BY <1>0, <3>1 DEF Reading, DocInv, RowsInv, D!TypeOK, ReviewInv, OverlapsShow
    <3>3. \A e \in target[o] : url'[e] = url[e]
      BY <1>0, <3>2
    <3> QED BY <2>1, <3>1, <3>3 DEF ReadAsIs
  <2>3. WipedFirst'
    BY <1>0, <2>1 DEF D!locals, DocInv, RowsInv, D!TypeOK, WipedFirst
  <2>4. Accounted'
    <3> SUFFICES ASSUME NEW f \in files
                 PROVE  \/ \E e \in D!Documents : url'[e] = f
                        \/ \E o \in Requests : WithFile(o)' /\ held'[o] = f
                        \/ \E o \in Requests : docPc'[o] \in {"replaced", "unlink"} /\ f \in old'[o]
      BY <1>0 DEF Accounted
    <3>1. \A o \in Requests \ {q} : docPc'[o] = docPc[o] /\ held'[o] = held[o] /\ old'[o] = old[o]
      BY <1>0 DEF DocInv, RowsInv, D!TypeOK, D!locals
    <3>2. CASE \E e \in target[q] : url[e] = f
      <4>1. f # NoFile
        BY ClubAssumption DEF DocInv, RowsInv, D!TypeOK, ClubAssumption, D!DocumentAssumption
      <4>2. f \in old[q]
        BY <1>0, <2>1, <3>2, <4>1 DEF ReadAsIs, Reading
      <4> QED BY <1>0, <2>1, <4>2 DEF WipedFirst
    <3>3. CASE \E e \in D!Documents : e \notin target[q] /\ url[e] = f
      BY <1>0, <3>3
    <3>4. CASE \E o \in Requests : WithFile(o) /\ held[o] = f
      BY <1>0, <3>1, <3>4 DEF WithFile
    <3>5. CASE \E o \in Requests : docPc[o] \in {"replaced", "unlink"} /\ f \in old[o]
      BY <1>0, <3>1, <3>5
    <3> QED BY <2>1, <3>2, <3>3, <3>4, <3>5 DEF Accounted
  <2> QED BY <2>2, <2>3, <2>4
<1> QED BY <1>1, <1>2, <1>3, <1>4, <1>5, <1>6, <1>7, <1>8, <1>9, <1>10, <1>11, <1>12, <1>13, <1>14
  DEF DocInv, RowsInv, ReviewInv

LEMMA FailureKeepsDocInv ==
    ASSUME DocInv, NEW q \in Requests, D!Fail(q)
    PROVE  DocInv'
<1>1. D!TypeOK'
  BY DEF D!Fail, D!Reviews, D!Finish, D!Goto, D!rows, DocInv, RowsInv, D!TypeOK, D!Documents
<1>2. TargetsFit'
  BY DEF D!Fail, D!Reviews, D!Finish, D!Goto, D!rows, DocInv, RowsInv, TargetsFit, D!TypeOK
<1>3. NamesAreWritten'
  BY DEF D!Fail, D!Reviews, D!Finish, D!Goto, D!rows, DocInv, RowsInv, NamesAreWritten, D!TypeOK
<1>4. HeldIsFresh'
  BY DEF D!Fail, D!Reviews, D!Finish, D!Goto, D!rows, DocInv, RowsInv, HeldIsFresh, WithFile, D!TypeOK
<1>5. OneRow'
  BY DEF D!Fail, D!Reviews, D!Finish, D!Goto, D!rows, DocInv, RowsInv, OneRow, D!TypeOK
<1>6. OldIsOfTarget'
  BY DEF D!Fail, D!Reviews, D!Finish, D!Goto, D!rows, DocInv, RowsInv, OldIsOfTarget, D!TypeOK
<1>7. Released'
  BY DEF D!Fail, D!Reviews, D!Finish, D!Goto, D!rows, DocInv, RowsInv, Released, D!TypeOK
<1>8. D!FileBehindDocument'
  BY DEF D!Fail, D!Reviews, D!Finish, D!Goto, D!rows, DocInv, RowsInv, D!FileBehindDocument, D!TypeOK
<1>9. OverlapsShow'
  BY DEF D!Fail, D!Reviews, D!Finish, D!Goto, D!rows, DocInv, ReviewInv, OverlapsShow, D!TypeOK
<1>10. AdminLooked'
  BY DEF D!Fail, D!Reviews, D!Finish, D!Goto, D!rows, DocInv, ReviewInv, AdminLooked, D!TypeOK
<1>11. PendingHasFile'
  BY DEF D!Fail, D!Reviews, D!Finish, D!Goto, D!rows, DocInv, ReviewInv, PendingHasFile, D!TypeOK
<1>12. LicenceJudged'
  BY ClubAssumption
  DEF D!Fail, D!Reviews, D!Finish, D!Goto, D!rows, DocInv, RowsInv, ReviewInv, LicenceJudged, D!TypeOK,
      D!Documents, TargetsFit, NamesAreWritten, HeldIsFresh, WithFile, ClubAssumption,
      D!DocumentAssumption
<1>13. D!ApprovedWasJudged'
  BY DEF D!Fail, D!Reviews, D!Finish, D!Goto, D!rows, DocInv, ReviewInv, D!ApprovedWasJudged, D!TypeOK
<1>14. QuietInv'
  <2> SUFFICES ASSUME disturbed' = {}
               PROVE  ReadAsIs' /\ WipedFirst' /\ Accounted'
    BY DEF QuietInv
  <2>1. ReadAsIs /\ WipedFirst /\ Accounted
    BY DEF D!Fail, DocInv, QuietInv
  <2>2. docPc[q] \in {"open", "decide", "wipe"}
    <3>1. \A r \in Riders : D!Of(r) # {}
      BY ClubAssumption DEF D!Of, ClubAssumption, D!DocumentAssumption
    <3> QED BY <3>1 DEF D!Fail, D!Reviews, DocInv, RowsInv, TargetsFit, D!TypeOK
  <2>3. /\ UNCHANGED <<url, files>> /\ docPc'[q] = "idle"
        /\ \A o \in Requests \ {q} : /\ docPc'[o] = docPc[o] /\ target'[o] = target[o]
                                     /\ held'[o] = held[o] /\ old'[o] = old[o]
    BY DEF D!Fail, D!Finish, D!Goto, D!rows, DocInv, RowsInv, D!TypeOK
  <2>4. ReadAsIs' /\ WipedFirst'
    BY <2>1, <2>3 DEF ReadAsIs, WipedFirst, Reading
  <2>5. Accounted'
    BY <2>1, <2>2, <2>3 DEF Accounted, WithFile
  <2> QED BY <2>4, <2>5
<1> QED BY <1>1, <1>2, <1>3, <1>4, <1>5, <1>6, <1>7, <1>8, <1>9, <1>10, <1>11, <1>12, <1>13, <1>14
  DEF DocInv, RowsInv, ReviewInv

LEMMA RestKeepsDocInv ==
    ASSUME DocInv, (\E r \in Riders : D!Enroll(r)) \/ (\E d \in D!Documents : D!DayPasses(d)) \/ UNCHANGED dvars
    PROVE  DocInv'
<1>1. D!TypeOK'
  BY DEF D!Enroll, D!DayPasses, dvars, D!locals, DocInv, RowsInv, D!TypeOK, D!Documents
<1>2. TargetsFit'
  BY DEF D!Enroll, D!DayPasses, dvars, D!locals, DocInv, RowsInv, TargetsFit, D!TypeOK
<1>3. NamesAreWritten'
  BY DEF D!Enroll, D!DayPasses, dvars, D!locals, DocInv, RowsInv, NamesAreWritten, D!TypeOK
<1>4. HeldIsFresh'
  BY DEF D!Enroll, D!DayPasses, dvars, D!locals, DocInv, RowsInv, HeldIsFresh, WithFile, D!TypeOK
<1>5. OneRow'
  BY DEF D!Enroll, D!DayPasses, dvars, D!locals, DocInv, RowsInv, OneRow, D!TypeOK
<1>6. OldIsOfTarget'
  BY DEF D!Enroll, D!DayPasses, dvars, D!locals, DocInv, RowsInv, OldIsOfTarget, D!TypeOK
<1>7. Released'
  BY DEF D!Enroll, D!DayPasses, dvars, D!locals, DocInv, RowsInv, Released, D!TypeOK
<1>8. D!FileBehindDocument'
  BY DEF D!Enroll, D!DayPasses, dvars, D!locals, DocInv, RowsInv, D!FileBehindDocument, D!TypeOK
<1>9. OverlapsShow'
  BY DEF D!Enroll, D!DayPasses, dvars, D!locals, DocInv, ReviewInv, OverlapsShow, D!TypeOK
<1>10. AdminLooked'
  BY DEF D!Enroll, D!DayPasses, dvars, D!locals, DocInv, ReviewInv, AdminLooked, D!TypeOK
<1>11. PendingHasFile'
  BY DEF D!Enroll, D!DayPasses, dvars, D!locals, DocInv, ReviewInv, PendingHasFile, D!TypeOK
<1>12. LicenceJudged'
  BY DEF D!Enroll, D!DayPasses, dvars, D!locals, DocInv, ReviewInv, LicenceJudged, D!TypeOK
<1>13. D!ApprovedWasJudged'
  BY DEF D!Enroll, D!DayPasses, dvars, D!locals, DocInv, ReviewInv, D!ApprovedWasJudged, D!TypeOK
<1>14. QuietInv'
  BY
  DEF D!Enroll, D!DayPasses, dvars, D!locals, DocInv, RowsInv, QuietInv, ReadAsIs, WipedFirst,
      Accounted, Reading, WithFile, D!TypeOK
<1> QED BY <1>1, <1>2, <1>3, <1>4, <1>5, <1>6, <1>7, <1>8, <1>9, <1>10, <1>11, <1>12, <1>13, <1>14
  DEF DocInv, RowsInv, ReviewInv

\* Nothing is stored at first, and nobody asks.
LEMMA InitDocInv == D!Init => DocInv
<1> SUFFICES ASSUME D!Init
             PROVE  DocInv
  OBVIOUS
<1>1. D!TypeOK /\ TargetsFit /\ NamesAreWritten /\ HeldIsFresh
  BY DEF D!Init, D!TypeOK, D!Documents, TargetsFit, NamesAreWritten, HeldIsFresh, WithFile
<1>2. OneRow /\ OldIsOfTarget /\ Released /\ D!FileBehindDocument
  BY DEF D!Init, OneRow, OldIsOfTarget, Released, D!FileBehindDocument
<1>3. ReviewInv
  BY DEF D!Init, ReviewInv, OverlapsShow, AdminLooked, PendingHasFile, LicenceJudged,
         D!ApprovedWasJudged
<1>4. QuietInv
  BY DEF D!Init, QuietInv, ReadAsIs, WipedFirst, Accounted, Reading
<1> QED BY <1>1, <1>2, <1>3, <1>4 DEF DocInv, RowsInv

LEMMA NextKeepsDocInv ==
    ASSUME DocInv, [D!Next]_dvars
    PROVE  DocInv'
<1>1. ASSUME NEW q \in Requests, NEW d \in D!Documents, D!StoreFile(q, d)
      PROVE  DocInv'
  BY <1>1, UploadKeepsDocInv DEF D!StoreFile
<1>2. ASSUME NEW q \in Requests, NEW d \in D!Documents, D!StoreLicense(q, d)
      PROVE  DocInv'
  <2>1. held'[q] \in judged' /\ judged' \in SUBSET (judged \cup {held'[q]}) /\ judged \subseteq judged'
    BY <1>2 DEF D!StoreLicense
  <2> QED BY <1>2, <2>1, UploadKeepsDocInv DEF D!StoreLicense
<1>3. ASSUME NEW q \in Requests, NEW r \in Riders, D!ReadForDeletion(q, r)
      PROVE  DocInv'
  <2>1. D!Of(r) \in SUBSET D!Documents
    BY DEF D!Of, D!Documents
  <2> QED BY <1>3, <2>1, ReadKeepsDocInv DEF D!ReadForDeletion
<1> QED BY <1>1, <1>2, <1>3, LookKeepsDocInv, WipeKeepsDocInv, ReplaceKeepsDocInv, RemoveKeepsDocInv,
           DecideKeepsDocInv, DeleteRowKeepsDocInv, EraseRowsKeepsDocInv, FailureKeepsDocInv,
           RestKeepsDocInv
        DEF D!Next

LEMMA DocInvHolds == ClubSpec => [](focus = "documents" => DocInv)
<1>1. ClubInit => (focus = "documents" => DocInv)
  BY InitDocInv DEF ClubInit
<1>2. (focus = "documents" => DocInv) /\ [ClubNext]_clubVars => (focus = "documents" => DocInv)'
  <2> SUFFICES ASSUME focus = "documents" => DocInv, [ClubNext]_clubVars, focus' = "documents"
               PROVE  DocInv'
    OBVIOUS
  <2>1. focus = "documents" /\ [D!Next]_dvars
    BY DEF ClubNext, clubVars
  <2> QED BY <2>1, NextKeepsDocInv
<1> QED BY <1>1, <1>2, PTL DEF ClubSpec

\* riderService.js:119, authService.js:350: only an erasure takes the file away from under a
\* document, and a file that belongs to nobody is left only where requests overlapped on its
\* document or one failed.
THEOREM FilesAlwaysMatchRows == ClubSpec => []FilesMatchRows
<1>1. DocInv => D!FilesMatchRows
  <2> SUFFICES ASSUME DocInv
               PROVE  D!NoStrayFile
    BY DEF DocInv, RowsInv, D!FilesMatchRows
  <2> QED BY DEF DocInv, QuietInv, Accounted, D!NoStrayFile
<1>2. (focus = "documents" => DocInv) => FilesMatchRows
  BY <1>1 DEF FilesMatchRows
<1> QED BY <1>2, DocInvHolds, PTL

\* riderService.js:304: an approved document is one an admin opened or brought, unless it was
\* replaced or erased between the admin's look and the decision.
THEOREM WhatIsApprovedWasJudged == ClubSpec => []ApprovedWasJudged
<1>1. (focus = "documents" => DocInv) => ApprovedWasJudged
  BY DEF ApprovedWasJudged, DocInv, ReviewInv
<1> QED BY <1>1, DocInvHolds, PTL

-----------------------------------------------------------------------------
(* The conversations.  Of two requests that create the conversation of a   *)
(* pair one looked for it while the other was at it; a message that nobody *)
(* missed bears a later time than all its receiver wrote or marked.        *)

\* A request creates a conversation that does not exist, and no other request creates it, or
\* the pair was looked for twice.
Openings ==
    \A q \in Requests : messagePc[q] = "create" =>
        \/ {actor[q], about[q]} \in twice
        \/ /\ \A c \in Conversations : members[c] # {actor[q], about[q]}
           /\ \A o \in Requests \ {q} : messagePc[o] = "create" =>
                 {actor[q], about[q]} # {actor[o], about[o]}

PairInv == Openings /\ G!OnePerPair

\* A request goes to the other user, or to the conversation.
SentSomewhere ==
    \A q \in Requests : /\ messagePc[q] = "create" => about[q] \in Writers
                        /\ messagePc[q] \in {"send", "mark"} => about[q] \in Conversations

\* Nothing happens before its time.
Passed ==
    /\ \A c \in Conversations : /\ \A m \in messages[c] : m.at <= clock
                                /\ \A u \in Writers : lastRead[c][u] <= clock
    /\ \A q \in Requests : stamp[q] <= clock /\ (messagePc[q] # "idle" /\ messagePc[q] # "create" => stamp[q] > 0)

\* The time s in c is later than all that u read there, wrote, or is about to mark.
Later(s, c, u) ==
    /\ lastRead[c][u] < s
    /\ \A n \in messages[c] : n.from = u => n.at < s
    /\ \A o \in Requests : messagePc[o] = "mark" /\ about[o] = c /\ actor[o] = u => stamp[o] < s

\* News are later than all that their receiver read and wrote.
FreshIsLater ==
    \A c \in Conversations, u \in Writers : \A m \in fresh[c][u] :
        m \in messages[c] /\ m.from # u /\ Later(m.at, c, u)

\* So is a message under way, for those who have not missed it.
OnItsWay ==
    \A q \in Requests, u \in Writers :
        messagePc[q] = "send" /\ u \notin missed[q] => Later(stamp[q], about[q], u)

ThreadInv ==
    G!TypeOK /\ SentSomewhere /\ Passed /\ FreshIsLater /\ OnItsWay /\ PairInv

LEMMA InitThreads == G!Init => ThreadInv
<1> SUFFICES ASSUME G!Init
             PROVE  ThreadInv
  OBVIOUS
<1>1. G!TypeOK
  <2>1. G!someone \in Writers /\ MaxTime \in Nat \ {0}
    BY ClubAssumption DEF ClubAssumption, G!MessagingAssumption, G!someone
  <2> QED BY <2>1 DEF G!Init, G!TypeOK
<1>2. SentSomewhere /\ Passed /\ FreshIsLater /\ OnItsWay
  BY DEF G!Init, SentSomewhere, Passed, FreshIsLater, OnItsWay
<1>3. PairInv
  BY DEF G!Init, PairInv, Openings, G!OnePerPair
<1> QED BY <1>1, <1>2, <1>3 DEF ThreadInv

LEMMA FindKeepsThreads ==
    ASSUME ThreadInv, NEW q \in Requests, NEW u \in Writers, NEW v \in Writers, G!FindConversation(q, u, v)
    PROVE  ThreadInv'
<1>1. G!TypeOK'
  <2>1. twice' \subseteq SUBSET Writers
    BY DEF G!FindConversation, ThreadInv, G!TypeOK
  <2> QED BY <2>1 DEF G!FindConversation, G!Goto, G!news, ThreadInv, G!TypeOK
<1>2. SentSomewhere'
  BY DEF G!FindConversation, G!Allowed, G!Existing, G!Goto, G!news, ThreadInv, G!TypeOK,
      SentSomewhere
<1>3. Passed'
  BY DEF G!FindConversation, G!Allowed, G!Existing, G!Goto, G!news, ThreadInv, G!TypeOK,
      SentSomewhere, Passed, G!Messages
<1>4. FreshIsLater'
  BY DEF G!FindConversation, G!Allowed, G!Existing, G!Goto, G!news, ThreadInv, G!TypeOK,
      SentSomewhere, Passed, FreshIsLater, OnItsWay, Later, G!Messages
<1>5. OnItsWay'
  BY DEF G!FindConversation, G!Allowed, G!Existing, G!Goto, G!news, ThreadInv, G!TypeOK,
      SentSomewhere, Passed, OnItsWay, Later, G!Messages
<1>6. PairInv'
  BY DEF G!FindConversation, G!Allowed, G!Existing, G!Goto, G!news, ThreadInv, G!TypeOK,
      SentSomewhere, PairInv, Openings, G!OnePerPair
<1> QED BY <1>1, <1>2, <1>3, <1>4, <1>5, <1>6 DEF ThreadInv

LEMMA CreateKeepsThreads ==
    ASSUME ThreadInv, NEW q \in Requests, G!CreateConversation(q)
    PROVE  ThreadInv'
<1>1. G!TypeOK'
  BY ClubAssumption DEF G!CreateConversation, G!Finish, G!Goto, G!news, G!someone, ThreadInv,
      G!TypeOK, SentSomewhere, G!Messages, ClubAssumption, G!MessagingAssumption
<1>2. SentSomewhere'
  BY DEF G!CreateConversation, G!Finish, G!Goto, G!news, G!someone, ThreadInv, G!TypeOK,
      SentSomewhere
<1>3. Passed'
  BY DEF G!CreateConversation, G!Finish, G!Goto, G!news, G!someone, ThreadInv, G!TypeOK,
      SentSomewhere, Passed, G!Messages
<1>4. FreshIsLater'
  BY DEF G!CreateConversation, G!Finish, G!Goto, G!news, G!someone, ThreadInv, G!TypeOK,
      SentSomewhere, Passed, FreshIsLater, OnItsWay, Later, G!Messages
<1>5. OnItsWay'
  BY DEF G!CreateConversation, G!Finish, G!Goto, G!news, G!someone, ThreadInv, G!TypeOK,
      SentSomewhere, Passed, OnItsWay, Later, G!Messages
<1>6. PairInv'
  <2> DEFINE p == {actor[q], about[q]}
  <2>1. PICK c \in Conversations : members[c] = {} /\ members' = [members EXCEPT ![c] = p]
    BY DEF G!CreateConversation
  <2>2. /\ messagePc[q] = "create" /\ messagePc'[q] = "idle" /\ twice' = twice
        /\ \A o \in Requests \ {q} :
              messagePc'[o] = messagePc[o] /\ actor'[o] = actor[o] /\ about'[o] = about[o]
    BY DEF G!CreateConversation, G!Finish, G!Goto, ThreadInv, G!TypeOK
  <2>3. \A d \in Conversations : members'[d] = IF d = c THEN p ELSE members[d]
    BY <2>1 DEF ThreadInv, G!TypeOK
  <2>4. \/ p \in twice
        \/ /\ \A d \in Conversations : members[d] # p
           /\ \A o \in Requests \ {q} : messagePc[o] = "create" => p # {actor[o], about[o]}
    BY <2>2 DEF ThreadInv, PairInv, Openings
  <2>5. Openings'
    <3> SUFFICES ASSUME NEW o \in Requests, messagePc'[o] = "create",
                        {actor'[o], about'[o]} \notin twice
                 PROVE  /\ \A d \in Conversations : members'[d] # {actor'[o], about'[o]}
                        /\ \A x \in Requests \ {o} : messagePc'[x] = "create" =>
                              {actor'[o], about'[o]} # {actor'[x], about'[x]}
      BY <2>2 DEF Openings
    <3>1. o # q /\ messagePc[o] = "create" /\ {actor[o], about[o]} \notin twice
      BY <2>2
    <3>2. /\ \A d \in Conversations : members[d] # {actor[o], about[o]}
          /\ \A x \in Requests \ {o} : messagePc[x] = "create" =>
                {actor[o], about[o]} # {actor[x], about[x]}
      BY <3>1 DEF ThreadInv, PairInv, Openings
    <3>3. p # {actor[o], about[o]}
      BY <2>2, <3>1, <3>2
    <3> QED BY <2>2, <2>3, <3>1, <3>2, <3>3
  <2>6. G!OnePerPair'
    BY <2>1, <2>2, <2>3, <2>4 DEF ThreadInv, PairInv, G!OnePerPair
  <2> QED BY <2>5, <2>6 DEF PairInv
<1> QED BY <1>1, <1>2, <1>3, <1>4, <1>5, <1>6 DEF ThreadInv

LEMMA BeginMessageKeepsThreads ==
    ASSUME ThreadInv, NEW q \in Requests, NEW u \in Writers, NEW c \in Conversations, G!BeginMessage(q, u, c)
    PROVE  ThreadInv'
<1>1. G!TypeOK'
  BY ClubAssumption DEF G!BeginMessage, G!Begin, G!ThisMoment, G!Goto, ThreadInv, G!TypeOK,
      SentSomewhere, G!Messages, ClubAssumption, G!MessagingAssumption
<1>2. SentSomewhere'
  BY DEF G!BeginMessage, G!Begin, G!ThisMoment, G!Goto, ThreadInv, G!TypeOK, SentSomewhere
<1>3. Passed'
  BY DEF G!BeginMessage, G!Begin, G!ThisMoment, G!Goto, ThreadInv, G!TypeOK, SentSomewhere,
      Passed, G!Messages
<1>4. FreshIsLater'
  BY DEF G!BeginMessage, G!Begin, G!ThisMoment, G!Goto, ThreadInv, G!TypeOK, SentSomewhere,
      Passed, FreshIsLater, OnItsWay, Later, G!Messages
<1>5. OnItsWay'
  <2> SUFFICES ASSUME NEW o \in Requests, NEW w \in Writers, messagePc'[o] = "send", w \notin missed'[o]
               PROVE  Later(stamp[o], about[o], w)'
    BY DEF OnItsWay
  <2>1. CASE o # q
    <3>1. Later(stamp[o], about[o], w) /\ stamp'[o] = stamp[o] /\ about'[o] = about[o]
      BY <2>1 DEF G!BeginMessage, G!Begin, G!Goto, ThreadInv, G!TypeOK, OnItsWay
    <3>2. UNCHANGED <<lastRead, messages>> /\ \A x \in Requests : messagePc'[x] = "mark" =>
             messagePc[x] = "mark" /\ UNCHANGED <<about[x], actor[x], stamp[x]>>
      BY DEF G!BeginMessage, G!Begin, G!Goto, ThreadInv, G!TypeOK
    <3> QED BY <3>1, <3>2 DEF Later
  <2>2. CASE o = q
    <3>1. /\ stamp'[q] = clock /\ about'[q] = c /\ missed'[q] = G!ThisMoment(c)
          /\ UNCHANGED <<lastRead, messages>>
          /\ \A x \in Requests : messagePc'[x] = "mark" =>
                messagePc[x] = "mark" /\ UNCHANGED <<about[x], actor[x], stamp[x]>>
      BY DEF G!BeginMessage, G!Begin, G!Goto, ThreadInv, G!TypeOK
    <3>2. w \notin G!ThisMoment(c)
      BY <2>2, <3>1
    <3>3. /\ clock \in Int /\ lastRead[c][w] \in Int /\ lastRead[c][w] <= clock
          /\ \A n \in messages[c] : n \in G!Messages /\ n.at \in Int /\ n.at <= clock
          /\ \A x \in Requests : stamp[x] \in Int /\ stamp[x] <= clock
      BY DEF ThreadInv, G!TypeOK, G!Messages, Passed
    <3>4. lastRead[c][w] < clock
      BY <3>2, <3>3 DEF G!ThisMoment
    <3>5. ASSUME NEW n \in messages[c], n.from = w
          PROVE  n.at < clock
      <4>1. n = [from |-> w, at |-> n.at]
        BY <3>3, <3>5 DEF G!Messages
      <4>2. n.at # clock
        BY <3>2, <4>1 DEF G!ThisMoment
      <4> QED BY <3>3, <4>2
    <3>6. ASSUME NEW x \in Requests, messagePc[x] = "mark", about[x] = c, actor[x] = w
          PROVE  stamp[x] < clock
      BY <3>2, <3>3, <3>6 DEF G!ThisMoment
    <3> QED BY <2>2, <3>1, <3>4, <3>5, <3>6 DEF Later
  <2> QED BY <2>1, <2>2
<1>6. PairInv'
  BY DEF G!BeginMessage, G!Begin, G!ThisMoment, G!Goto, ThreadInv, G!TypeOK, SentSomewhere,
      PairInv, Openings, G!OnePerPair
<1> QED BY <1>1, <1>2, <1>3, <1>4, <1>5, <1>6 DEF ThreadInv

LEMMA BeginMarkKeepsThreads ==
    ASSUME ThreadInv, NEW q \in Requests, NEW u \in Writers, NEW c \in Conversations, G!BeginMark(q, u, c)
    PROVE  ThreadInv'
<1>1. G!TypeOK'
  BY ClubAssumption DEF G!BeginMark, G!Begin, G!Overtake, G!Goto, ThreadInv, G!TypeOK,
      SentSomewhere, G!Messages, ClubAssumption, G!MessagingAssumption
<1>2. SentSomewhere'
  BY DEF G!BeginMark, G!Begin, G!Overtake, G!Goto, ThreadInv, G!TypeOK, SentSomewhere
<1>3. Passed'
  BY DEF G!BeginMark, G!Begin, G!Overtake, G!Goto, ThreadInv, G!TypeOK, SentSomewhere, Passed,
      G!Messages
<1>4. FreshIsLater'
  BY DEF G!BeginMark, G!Begin, G!Overtake, G!Goto, ThreadInv, G!TypeOK, SentSomewhere, Passed,
      FreshIsLater, OnItsWay, Later, G!Messages
<1>5. OnItsWay'
  BY DEF G!BeginMark, G!Begin, G!Overtake, G!Goto, ThreadInv, G!TypeOK, SentSomewhere, Passed,
      OnItsWay, Later, G!Messages
<1>6. PairInv'
  BY DEF G!BeginMark, G!Begin, G!Overtake, G!Goto, ThreadInv, G!TypeOK, SentSomewhere, PairInv,
      Openings, G!OnePerPair
<1> QED BY <1>1, <1>2, <1>3, <1>4, <1>5, <1>6 DEF ThreadInv

LEMMA CommitMessageKeepsThreads ==
    ASSUME ThreadInv, NEW q \in Requests, G!CommitMessage(q)
    PROVE  ThreadInv'
<1>1. G!TypeOK'
  <2>1. G!someone \in Writers /\ about[q] \in Conversations
    BY ClubAssumption
    DEF G!CommitMessage, ThreadInv, SentSomewhere, ClubAssumption, G!MessagingAssumption, G!someone
  <2>2. [from |-> actor[q], at |-> stamp[q]] \in G!Messages
    BY DEF G!CommitMessage, ThreadInv, G!TypeOK, Passed, G!Messages
  <2>3. /\ messages' \in [Conversations -> SUBSET G!Messages]
        /\ fresh' \in [Conversations -> [Writers -> SUBSET G!Messages]]
        /\ missed' \in [Requests -> SUBSET Writers]
    BY <2>1, <2>2 DEF G!CommitMessage, G!Store, G!Overtake, ThreadInv, G!TypeOK
  <2>4. /\ lastRead' \in [Conversations -> [Writers -> 0..MaxTime]]
        /\ messagePc' \in [Requests -> {"idle", "create", "send", "mark"}]
        /\ actor' \in [Requests -> Writers]
        /\ about' \in [Requests -> Writers \cup Conversations]
        /\ stamp' \in [Requests -> 0..MaxTime]
    BY <2>1, ClubAssumption
    DEF G!CommitMessage, G!Finish, G!Goto, ThreadInv, G!TypeOK, ClubAssumption, G!MessagingAssumption
  <2> QED BY <2>3, <2>4 DEF G!CommitMessage, ThreadInv, G!TypeOK
<1>2. SentSomewhere'
  BY DEF G!CommitMessage, G!Store, G!Overtake, G!Finish, G!Goto, G!someone, ThreadInv, G!TypeOK,
      SentSomewhere
<1>3. Passed'
  BY DEF G!CommitMessage, G!Store, G!Overtake, G!Finish, G!Goto, G!someone, ThreadInv, G!TypeOK,
      SentSomewhere, Passed, G!Messages
<1>4. FreshIsLater'
  BY DEF G!CommitMessage, G!Store, G!Overtake, G!Finish, G!Goto, G!someone, ThreadInv, G!TypeOK,
      SentSomewhere, Passed, FreshIsLater, OnItsWay, Later, G!Messages
<1>5. OnItsWay'
  BY DEF G!CommitMessage, G!Store, G!Overtake, G!Finish, G!Goto, G!someone, ThreadInv, G!TypeOK,
      SentSomewhere, Passed, OnItsWay, Later, G!Messages
<1>6. PairInv'
  BY DEF G!CommitMessage, G!Store, G!Overtake, G!Finish, G!Goto, G!someone, ThreadInv, G!TypeOK,
      SentSomewhere, PairInv, Openings, G!OnePerPair
<1> QED BY <1>1, <1>2, <1>3, <1>4, <1>5, <1>6 DEF ThreadInv

LEMMA CommitMarkKeepsThreads ==
    ASSUME ThreadInv, NEW q \in Requests, G!CommitMark(q)
    PROVE  ThreadInv'
<1>1. G!TypeOK'
  BY ClubAssumption DEF G!CommitMark, G!Finish, G!Goto, G!news, G!someone, ThreadInv, G!TypeOK,
      SentSomewhere, G!Messages, ClubAssumption, G!MessagingAssumption
<1>2. SentSomewhere'
  BY DEF G!CommitMark, G!Finish, G!Goto, G!news, G!someone, ThreadInv, G!TypeOK, SentSomewhere
<1>3. Passed'
  BY DEF G!CommitMark, G!Finish, G!Goto, G!news, G!someone, ThreadInv, G!TypeOK, SentSomewhere,
      Passed, G!Messages
<1>4. FreshIsLater'
  BY DEF G!CommitMark, G!Finish, G!Goto, G!news, G!someone, ThreadInv, G!TypeOK, SentSomewhere,
      Passed, FreshIsLater, OnItsWay, Later, G!Messages
<1>5. OnItsWay'
  BY DEF G!CommitMark, G!Finish, G!Goto, G!news, G!someone, ThreadInv, G!TypeOK, SentSomewhere,
      Passed, OnItsWay, Later, G!Messages
<1>6. PairInv'
  BY DEF G!CommitMark, G!Finish, G!Goto, G!news, G!someone, ThreadInv, G!TypeOK, SentSomewhere,
      PairInv, Openings, G!OnePerPair
<1> QED BY <1>1, <1>2, <1>3, <1>4, <1>5, <1>6 DEF ThreadInv

LEMMA TickKeepsThreads ==
    ASSUME ThreadInv, G!Tick \/ (\E u \in Writers : G!SetBanned(u)) \/ UNCHANGED gvars
    PROVE  ThreadInv'
<1>1. G!TypeOK'
  BY ClubAssumption DEF G!Tick, G!SetBanned, gvars, G!locals, G!news, ThreadInv, G!TypeOK,
      SentSomewhere, G!Messages, ClubAssumption, G!MessagingAssumption
<1>2. SentSomewhere'
  BY DEF G!Tick, G!SetBanned, gvars, G!locals, G!news, ThreadInv, G!TypeOK, SentSomewhere
<1>3. Passed'
  BY DEF G!Tick, G!SetBanned, gvars, G!locals, G!news, ThreadInv, G!TypeOK, SentSomewhere,
      Passed, G!Messages
<1>4. FreshIsLater'
  BY DEF G!Tick, G!SetBanned, gvars, G!locals, G!news, ThreadInv, G!TypeOK, SentSomewhere,
      Passed, FreshIsLater, OnItsWay, Later, G!Messages
<1>5. OnItsWay'
  BY DEF G!Tick, G!SetBanned, gvars, G!locals, G!news, ThreadInv, G!TypeOK, SentSomewhere,
      Passed, OnItsWay, Later, G!Messages
<1>6. PairInv'
  BY DEF G!Tick, G!SetBanned, gvars, G!locals, G!news, ThreadInv, G!TypeOK, SentSomewhere,
      PairInv, Openings, G!OnePerPair
<1> QED BY <1>1, <1>2, <1>3, <1>4, <1>5, <1>6 DEF ThreadInv

LEMMA NextKeepsThreads ==
    ASSUME ThreadInv, [G!Next]_gvars
    PROVE  ThreadInv'
BY FindKeepsThreads, CreateKeepsThreads, BeginMessageKeepsThreads, BeginMarkKeepsThreads,
   CommitMessageKeepsThreads, CommitMarkKeepsThreads, TickKeepsThreads
DEF G!Next

LEMMA ThreadInvHolds == ClubSpec => [](focus = "messages" => ThreadInv)
<1>1. ClubInit => (focus = "messages" => ThreadInv)
  BY InitThreads DEF ClubInit
<1>2. (focus = "messages" => ThreadInv) /\ [ClubNext]_clubVars => (focus = "messages" => ThreadInv)'
  <2> SUFFICES ASSUME focus = "messages" => ThreadInv, [ClubNext]_clubVars, focus' = "messages"
               PROVE  ThreadInv'
    OBVIOUS
  <2>1. focus = "messages" /\ [G!Next]_gvars
    BY DEF ClubNext, clubVars
  <2> QED BY <2>1, NextKeepsThreads
<1> QED BY <1>1, <1>2, PTL DEF ClubSpec

\* What is news to a user makes the conversation unread: the last message is at least as late,
\* and it is of another.
LEMMA NewsShow == ThreadInv => G!NewsIsUnread
<1> SUFFICES ASSUME ThreadInv, NEW c \in Conversations, NEW u \in members[c], NEW m \in fresh[c][u]
             PROVE  G!HasUnread(c, u)
  BY DEF G!NewsIsUnread
<1>1. u \in Writers
  BY DEF ThreadInv, G!TypeOK
<1>2. /\ m \in messages[c] /\ lastRead[c][u] < m.at
      /\ \A n \in messages[c] : n.from = u => n.at < m.at
  BY <1>1 DEF ThreadInv, FreshIsLater, Later
<1>3. ASSUME NEW l \in G!Last(c)
      PROVE  l.from # u /\ l.at > lastRead[c][u]
  <2>1. l \in messages[c] /\ m.at <= l.at
    BY <1>2 DEF G!Last
  <2>2. m.at \in Int /\ l.at \in Int /\ lastRead[c][u] \in Int
    BY <1>1, <1>2, <2>1 DEF ThreadInv, G!TypeOK, G!Messages
  <2> QED BY <1>2, <2>1, <2>2
<1> QED BY <1>2, <1>3 DEF G!HasUnread

\* messageService.js:63, 143: two users share one conversation, unless one looked for it while
\* the other was creating it, and a message makes it unread for its receiver although only a
\* last message and a time are kept, unless it bears the millisecond of a mark of the receiver
\* or was on its way meanwhile.
THEOREM MessagesAlwaysReach == ClubSpec => []MessagesReach
<1>1. (focus = "messages" => ThreadInv) => MessagesReach
  BY NewsShow DEF ThreadInv, PairInv, MessagesReach, G!MessagesReach
<1> QED BY <1>1, ThreadInvHolds, PTL

-----------------------------------------------------------------------------
(* The preferences.  The types a request did not find are all it will      *)
(* insert: it found the others, and only an erasure takes them away.       *)

FoundExist ==
    \A q \in Requests : pc[q] = "create" /\ q \notin bereft =>
        \A t \in Types \ missing[q] : inApp[N!User(q)][t] # "none"

PreferenceInv ==
    /\ inApp \in [Members -> [Types -> {"none", "on", "off"}]]
    /\ pc \in [Requests -> {"idle", "create", "use", "store", "erase"}]
    /\ purpose \in [Requests -> N!Purposes]
    /\ missing \in [Requests -> SUBSET Types]
    /\ gone \subseteq Members /\ bereft \subseteq Requests
    /\ FoundExist
    /\ N!PreferencesComplete

\* What lasts of the preferences: nothing that exists is "none" again.
Lasting == \A u \in Members, t \in Types : inApp[u][t] # "none" => inApp'[u][t] # "none"

LEMMA NothingIsPurpose == N!nothing \in N!Purposes
<1>1. PICK u \in Members, t \in Types : TRUE
  BY ClubAssumption DEF ClubAssumption, N!NotificationAssumption
<1>2. [kind |-> "list", user |-> u, type |-> t, choice |-> "on"] \in N!Purposes
  BY DEF N!Purposes
<1> QED BY <1>2 DEF N!nothing

LEMMA InitPreferences == N!Init => PreferenceInv
BY NothingIsPurpose DEF N!Init, PreferenceInv, FoundExist, N!PreferencesComplete

\* A request that ends takes no preference away.
LEMMA FinishKeepsPreferences ==
    ASSUME PreferenceInv, NEW q \in Requests, N!Finish(q), gone' = gone, Lasting,
           inApp' \in [Members -> [Types -> {"none", "on", "off"}]]
    PROVE  PreferenceInv'
<1>1. /\ pc' = [pc EXCEPT ![q] = "idle"]
      /\ purpose' = [purpose EXCEPT ![q] = N!nothing] /\ missing' = [missing EXCEPT ![q] = {}]
      /\ bereft' = bereft \ {q}
  BY DEF N!Finish, N!Goto
<1>2. /\ pc' \in [Requests -> {"idle", "create", "use", "store", "erase"}]
      /\ purpose' \in [Requests -> N!Purposes] /\ missing' \in [Requests -> SUBSET Types]
  BY <1>1, NothingIsPurpose DEF PreferenceInv
<1>3. \A o \in Requests : pc'[o] # "idle" =>
          /\ pc'[o] = pc[o] /\ missing'[o] = missing[o] /\ (o \notin bereft' => o \notin bereft)
          /\ N!User(o)' = N!User(o) /\ N!User(o) \in Members
  BY <1>1 DEF PreferenceInv, N!User, N!Purposes
<1>4. FoundExist'
  BY <1>3 DEF PreferenceInv, FoundExist, Lasting
<1>5. N!PreferencesComplete'
  BY <1>3 DEF PreferenceInv, N!PreferencesComplete, Lasting
<1> QED BY <1>1, <1>2, <1>4, <1>5 DEF PreferenceInv

\* A request that goes on to store a notification, or to erase the account, needs none.
LEMMA GoOnKeepsPreferences ==
    ASSUME PreferenceInv, NEW q \in Requests, NEW where \in {"store", "erase"},
           NEW p \in N!Purposes, N!Goto(q, where), purpose' = [purpose EXCEPT ![q] = p],
           UNCHANGED <<inApp, missing, gone, bereft>>
    PROVE  PreferenceInv'
<1>1. \A o \in Requests : pc'[o] \in {"create", "use"} =>
          pc'[o] = pc[o] /\ N!User(o)' = N!User(o)
  BY DEF PreferenceInv, N!Goto, N!User
<1>2. FoundExist' /\ N!PreferencesComplete'
  BY <1>1 DEF PreferenceInv, FoundExist, N!PreferencesComplete
<1> QED BY <1>2 DEF PreferenceInv, N!Goto

\* The erasure takes them all, and the requests of that user know.
LEMMA EraseKeepsPreferences ==
    ASSUME PreferenceInv, NEW q \in Requests, N!Erase(q)
    PROVE  /\ PreferenceInv'
           /\ \A u \in Members \ {N!User(q)}, t \in Types : inApp'[u][t] = inApp[u][t]
<1>1. /\ pc[q] = "erase" /\ pc' = [pc EXCEPT ![q] = "idle"]
      /\ purpose' = [purpose EXCEPT ![q] = N!nothing] /\ missing' = [missing EXCEPT ![q] = {}]
      /\ N!User(q) \in Members
  BY DEF N!Erase, N!Goto, PreferenceInv, N!User, N!Purposes
<1>2. \A u \in Members, t \in Types :
          inApp'[u][t] = IF u = N!User(q) THEN "none" ELSE inApp[u][t]
  BY <1>1 DEF N!Erase, PreferenceInv
<1>3. /\ inApp' \in [Members -> [Types -> {"none", "on", "off"}]]
      /\ pc' \in [Requests -> {"idle", "create", "use", "store", "erase"}]
      /\ purpose' \in [Requests -> N!Purposes] /\ missing' \in [Requests -> SUBSET Types]
      /\ gone' \subseteq Members /\ bereft' \subseteq Requests
  BY <1>1, NothingIsPurpose DEF N!Erase, PreferenceInv
<1>4. \A o \in Requests : pc'[o] \in {"create", "use"} /\ o \notin bereft' =>
          /\ pc'[o] = pc[o] /\ o \notin bereft /\ missing'[o] = missing[o]
          /\ N!User(o)' = N!User(o) /\ N!User(o) \in Members \ {N!User(q)}
  <2>1. bereft' = (bereft \cup {o \in Requests : pc[o] # "idle" /\ N!User(o) = N!User(q)}) \ {q}
    BY DEF N!Erase
  <2> QED BY <1>1, <2>1 DEF PreferenceInv, N!User, N!Purposes
<1>5. FoundExist' /\ N!PreferencesComplete'
  BY <1>2, <1>4 DEF PreferenceInv, FoundExist, N!PreferencesComplete
<1> QED BY <1>2, <1>3, <1>5 DEF PreferenceInv

\* What a request did not find it inserts, or finds at the next try.
LEMMA FindKeepsPreferences ==
    ASSUME PreferenceInv, NEW q \in Requests, NEW p \in N!Purposes, N!FindMissing(q, p)
    PROVE  PreferenceInv' /\ inApp' = inApp
<1> DEFINE lacks == {t \in Types : inApp[p.user][t] = "none"}
           where == IF lacks = {} THEN "use" ELSE "create"
<1>1. /\ purpose' = [purpose EXCEPT ![q] = p] /\ missing' = [missing EXCEPT ![q] = lacks]
      /\ UNCHANGED <<inApp, gone, bereft>>
  BY DEF N!FindMissing
<1>2. missing'[q] = lacks
  BY <1>1 DEF PreferenceInv
<1>3. pc' = [pc EXCEPT ![q] = where]
  BY <1>2 DEF N!FindMissing, N!Goto
<1>4. purpose'[q] = p /\ \A o \in Requests \ {q} : purpose'[o] = purpose[o]
  BY <1>1 DEF PreferenceInv
<1>5. \A o \in Requests \ {q} : missing'[o] = missing[o] /\ pc'[o] = pc[o]
  BY <1>1, <1>3 DEF PreferenceInv
<1>6. pc'[q] = where
  BY <1>3 DEF PreferenceInv
<1>7. FoundExist'
  <2>1. \A t \in Types \ missing'[q] : inApp'[p.user][t] # "none"
    BY <1>1, <1>2
  <2> QED BY <1>1, <1>4, <1>5, <2>1 DEF PreferenceInv, FoundExist, N!User
<1>8. N!PreferencesComplete'
  <2>1. pc'[q] = "use" => \A t \in Types : inApp'[p.user][t] # "none"
    BY <1>1, <1>6
  <2> QED BY <1>1, <1>4, <1>5, <2>1 DEF PreferenceInv, N!PreferencesComplete, N!User
<1>9. /\ pc' \in [Requests -> {"idle", "create", "use", "store", "erase"}]
      /\ missing' \in [Requests -> SUBSET Types]
      /\ purpose' \in [Requests -> N!Purposes]
  BY <1>1, <1>3 DEF PreferenceInv
<1> QED BY <1>1, <1>7, <1>8, <1>9 DEF PreferenceInv

LEMMA CreateKeepsPreferences ==
    ASSUME PreferenceInv, NEW q \in Requests, N!CreateDefaults(q)
    PROVE  /\ PreferenceInv'
           /\ \A u \in Members, t \in Types : inApp[u][t] # "none" => inApp'[u][t] = inApp[u][t]
<1>0. pc[q] = "create" /\ gone' = gone /\ N!User(q) \in Members
  BY DEF N!CreateDefaults, PreferenceInv, N!Purposes, N!User
<1>1. CASE \A t \in missing[q] : inApp[N!User(q)][t] = "none"
  <2>1. inApp' = [inApp EXCEPT ![N!User(q)] = [t \in Types |-> IF t \in missing[q] THEN "on" ELSE @[t]]]
    BY <1>1 DEF N!CreateDefaults
  <2>2. \A u \in Members, t \in Types :
            inApp'[u][t] = IF u = N!User(q) /\ t \in missing[q] THEN "on" ELSE inApp[u][t]
    BY <1>0, <2>1 DEF PreferenceInv
  <2>3. inApp' \in [Members -> [Types -> {"none", "on", "off"}]]
    <3>1. [t \in Types |-> IF t \in missing[q] THEN "on" ELSE inApp[N!User(q)][t]]
              \in [Types -> {"none", "on", "off"}]
      BY <1>0 DEF PreferenceInv
    <3> QED BY <2>1, <3>1 DEF PreferenceInv
  <2>4. \A u \in Members, t \in Types : inApp[u][t] # "none" => inApp'[u][t] = inApp[u][t]
    BY <1>1, <2>2
  <2>5. q \notin bereft => \A t \in Types : inApp'[N!User(q)][t] # "none"
    BY <1>0, <2>2 DEF PreferenceInv, FoundExist
  <2>6. /\ pc' \in [Requests -> {"idle", "create", "use", "store", "erase"}] /\ pc'[q] = "use"
        /\ \A o \in Requests \ {q} : pc'[o] = pc[o]
        /\ UNCHANGED <<purpose, missing, bereft>>
    BY <1>1 DEF N!CreateDefaults, N!Goto, PreferenceInv
  <2>7. \A o \in Requests : pc'[o] # "idle" => N!User(o) \in Members /\ pc[o] # "idle"
    BY <1>0, <2>6 DEF PreferenceInv, N!Purposes, N!User
  <2>8. FoundExist'
    BY <1>0, <2>4, <2>6, <2>7 DEF PreferenceInv, FoundExist, N!User
  <2>9. N!PreferencesComplete'
    BY <1>0, <2>4, <2>5, <2>6, <2>7 DEF PreferenceInv, N!PreferencesComplete, N!User
  <2> QED BY <1>0, <2>3, <2>4, <2>6, <2>7, <2>8, <2>9 DEF PreferenceInv
<1>2. CASE ~\A t \in missing[q] : inApp[N!User(q)][t] = "none"
  <2>1. N!Finish(q) /\ inApp' = inApp
    BY <1>2 DEF N!CreateDefaults
  <2> QED BY <1>0, <2>1, FinishKeepsPreferences DEF Lasting, PreferenceInv
<1> QED BY <1>1, <1>2

LEMMA UpdateKeepsPreferences ==
    ASSUME PreferenceInv, NEW q \in Requests, N!UpdatePreference(q)
    PROVE  /\ PreferenceInv'
           /\ \A u \in Members \ {N!User(q)}, t \in Types : inApp'[u][t] = inApp[u][t]
<1>1. purpose[q] \in N!Purposes /\ pc[q] = "use" /\ N!Finish(q) /\ gone' = gone
  BY DEF N!UpdatePreference, PreferenceInv
<1>2. N!User(q) \in Members /\ purpose[q].type \in Types /\ purpose[q].choice \in {"on", "off"}
  BY <1>1 DEF N!Purposes, N!User
<1>3. inApp' = [inApp EXCEPT ![N!User(q)][purpose[q].type] =
                    IF @ = "none" THEN @ ELSE purpose[q].choice]
  BY DEF N!UpdatePreference
<1>4. inApp' \in [Members -> [Types -> {"none", "on", "off"}]]
  BY <1>2, <1>3 DEF PreferenceInv
<1>5. \A u \in Members, t \in Types :
          inApp'[u][t] = IF u = N!User(q) /\ t = purpose[q].type /\ inApp[u][t] # "none"
                         THEN purpose[q].choice ELSE inApp[u][t]
  BY <1>2, <1>3 DEF PreferenceInv
<1>6. Lasting
  BY <1>2, <1>5 DEF Lasting
<1> QED BY <1>1, <1>4, <1>5, <1>6, FinishKeepsPreferences

LEMMA NextKeepsPreferences ==
    ASSUME PreferenceInv, [N!Next]_nvars
    PROVE  /\ PreferenceInv'
           /\ \A u \in Members, t \in Types :
                  inApp[u][t] # "none" /\ inApp'[u][t] # inApp[u][t] =>
                      \E q \in Requests : /\ N!User(q) = u /\ pc'[q] = "idle"
                                          /\ \/ pc[q] = "use" /\ purpose[q].kind = "update"
                                             \/ pc[q] = "erase"
<1>1. ASSUME UNCHANGED <<inApp, pc, purpose, missing, gone, bereft>>
      PROVE  PreferenceInv'
  BY <1>1 DEF PreferenceInv, FoundExist, N!PreferencesComplete, N!User
<1>2. ASSUME NEW q \in Requests, N!Dispatch(q) \/ N!StoreNote(q) \/ N!ListPreferences(q)
      PROVE  PreferenceInv' /\ inApp' = inApp
  <2>1. CASE N!Finish(q)
    BY <1>2, <2>1, FinishKeepsPreferences
    DEF N!Dispatch, N!StoreNote, N!ListPreferences, Lasting, PreferenceInv
  <2>2. CASE ~N!Finish(q)
    <3>1. N!Goto(q, "store") /\ UNCHANGED <<inApp, purpose, missing, gone, bereft>>
      BY <1>2, <2>2 DEF N!Dispatch, N!StoreNote, N!ListPreferences
    <3>2. purpose[q] \in N!Purposes /\ purpose' = [purpose EXCEPT ![q] = purpose[q]]
      BY <3>1 DEF PreferenceInv
    <3> QED BY <3>1, <3>2, GoOnKeepsPreferences
  <2> QED BY <2>1, <2>2
<1>3. ASSUME NEW q \in Requests, N!UpdatePreference(q)
      PROVE  pc[q] = "use" /\ pc'[q] = "idle" /\ purpose[q].kind = "update"
  BY <1>3 DEF N!UpdatePreference, N!Finish, N!Goto, PreferenceInv
<1>4. ASSUME NEW q \in Requests, NEW p \in N!Purposes, N!AskErasure(q, p)
      PROVE  PreferenceInv' /\ inApp' = inApp
  BY <1>4, GoOnKeepsPreferences DEF N!AskErasure
<1>5. ASSUME NEW q \in Requests, N!Erase(q)
      PROVE  pc[q] = "erase" /\ pc'[q] = "idle"
  BY <1>5 DEF N!Erase, N!Goto, PreferenceInv
<1>6. CASE UNCHANGED nvars
  BY <1>1, <1>6 DEF nvars
<1>7. CASE (\E n \in Notes : N!MarkRead(n)) \/ (\E u \in Members : N!MarkAllRead(u))
  BY <1>1, <1>7 DEF N!MarkRead, N!MarkAllRead
<1>8. CASE \E q \in Requests :
              \/ \E p \in N!Purposes : N!FindMissing(q, p) \/ N!AskErasure(q, p)
              \/ N!CreateDefaults(q) \/ N!Dispatch(q) \/ N!StoreNote(q) \/ N!ListPreferences(q)
  BY <1>2, <1>4, <1>8, FindKeepsPreferences, CreateKeepsPreferences
<1>9. CASE \E q \in Requests : N!UpdatePreference(q)
  BY <1>3, <1>9, UpdateKeepsPreferences
<1>10. CASE \E q \in Requests : N!Erase(q)
  BY <1>5, <1>10, EraseKeepsPreferences
<1> QED BY <1>6, <1>7, <1>8, <1>9, <1>10 DEF N!Next

\* A stored notification is for somebody.
NoteTypes == note \in [Notes -> {"none", "unread", "read"}] /\ owner \in [Notes -> Members]

LEMMA InitNotes == N!Init => NoteTypes
<1>1. (CHOOSE u \in Members : TRUE) \in Members
  BY ClubAssumption DEF ClubAssumption, N!NotificationAssumption
<1> QED BY <1>1 DEF N!Init, NoteTypes

LEMMA NextKeepsNotes ==
    ASSUME PreferenceInv, NoteTypes, [N!Next]_nvars
    PROVE  NoteTypes'
<1>1. ASSUME NEW q \in Requests, N!StoreNote(q)
      PROVE  NoteTypes'
  <2>1. N!User(q) \in Members
    BY DEF PreferenceInv, N!Purposes, N!User
  <2> QED BY <1>1, <2>1 DEF N!StoreNote, NoteTypes
<1>2. ASSUME NEW n \in Notes, N!MarkRead(n)
      PROVE  NoteTypes'
  BY <1>2 DEF N!MarkRead, NoteTypes
<1>3. ASSUME NEW u \in Members, N!MarkAllRead(u)
      PROVE  NoteTypes'
  BY <1>3 DEF N!MarkAllRead, NoteTypes
<1>4. ASSUME NEW q \in Requests, N!Erase(q)
      PROVE  NoteTypes'
  BY <1>4 DEF N!Erase, NoteTypes
<1>5. CASE UNCHANGED <<note, owner>>
  BY <1>5 DEF NoteTypes
<1>6. ASSUME NEW q \in Requests, NEW p \in N!Purposes, N!FindMissing(q, p) \/ N!AskErasure(q, p)
      PROVE  UNCHANGED <<note, owner>>
  BY <1>6 DEF N!FindMissing, N!AskErasure
<1>7. ASSUME NEW q \in Requests,
             N!CreateDefaults(q) \/ N!Dispatch(q) \/ N!UpdatePreference(q) \/ N!ListPreferences(q)
      PROVE  UNCHANGED <<note, owner>>
  BY <1>7 DEF N!CreateDefaults, N!Dispatch, N!UpdatePreference, N!ListPreferences
<1> QED BY <1>1, <1>2, <1>3, <1>4, <1>5, <1>6, <1>7 DEF N!Next, nvars

\* notificationService.js:37: a request that goes on to use the preferences of a user finds
\* one for every type, unless the account was erased meanwhile, and the defaults that others
\* insert never replace a choice.
THEOREM PreferencesAlwaysHold == ClubSpec => PreferencesHold
<1>1. ClubInit => PreferenceInv
  BY InitPreferences DEF ClubInit
<1>2. [ClubNext]_clubVars => [N!Next]_nvars
  BY DEF ClubNext, clubVars, nvars
<1>3. PreferenceInv /\ [ClubNext]_clubVars => PreferenceInv'
  BY <1>2, NextKeepsPreferences
<1>4. PreferenceInv /\ [ClubNext]_clubVars =>
          [\A u \in Members, t \in Types :
               inApp[u][t] # "none" /\ inApp'[u][t] # inApp[u][t] =>
                   \E q \in Requests : /\ N!User(q) = u /\ pc'[q] = "idle"
                                       /\ \/ pc[q] = "use" /\ purpose[q].kind = "update"
                                          \/ pc[q] = "erase"]_nvars
  BY <1>2, NextKeepsPreferences
<1>5. PreferenceInv => N!PreferencesComplete
  BY DEF PreferenceInv
<1> QED BY <1>1, <1>3, <1>4, <1>5, PTL
        DEF ClubSpec, PreferencesHold, N!PreferencesHold, N!ChoicesLast, N!vars, nvars

-----------------------------------------------------------------------------
(* The session in the browser.  The heir of a rotated token is known to    *)
(* the answer that carries it and to nobody else until it arrives; a token *)
(* that was presented can still be rotated, or has been a moment ago, or   *)
(* its session has lost an answer.                                         *)

Lost(f) == f \in ended \cup broken

HeirsAreFresh ==
    \A t \in Tabs : flight[t].is = "ok" =>
        /\ flight[t].n # 0 /\ flight[t].n # cookie
        /\ flight[t].n \in alive \/ Lost(family[flight[t].n])
        /\ \A o \in Tabs \ {t} : flight[o].n # flight[t].n

PresentedIsKnown ==
    /\ cookie # 0 => cookie \in alive \cup recent \/ Lost(family[cookie])
    /\ \A t \in Tabs : flight[t].is = "asked" /\ flight[t].n # 0 =>
          flight[t].n \in alive \cup recent \/ Lost(family[flight[t].n])

DeadStaysDead == \A t \in Tabs : flight[t].is = "dead" => flight[t].n \notin alive

QuietBeforeOpen ==
    /\ \A t \in Tabs : browserStatus[t] = "closed" => flight[t].is = "none"
    /\ \A k \in PageCalls : browserStatus[TabOf[k]] \in {"closed", "loading"} => call[k] = "idle"

RefreshIsAwaited ==
    \A t \in Tabs : flight[t].is # "none" => browserStatus[t] = "loading" \/ W!Waiting(t) # {}

FamilyIsMade == \A n \in 1..made : family[n] \in 1..made

SessionInv ==
    /\ W!TypeOK /\ FamilyIsMade /\ HeirsAreFresh /\ PresentedIsKnown /\ DeadStaysDead
    /\ QuietBeforeOpen /\ RefreshIsAwaited /\ W!CookieIsGood /\ W!AuthenticatedHasToken

LEMMA BrowserFacts == TabOf \in [PageCalls -> Tabs] /\ MaxTokens \in Nat
BY ClubAssumption DEF ClubAssumption, W!BrowserAssumption

LEMMA InitSession == W!Init => SessionInv
BY BrowserFacts
DEF W!Init, W!NoFlight, W!Tokens, SessionInv, W!TypeOK, FamilyIsMade, HeirsAreFresh,
    PresentedIsKnown,
    DeadStaysDead, QuietBeforeOpen, RefreshIsAwaited, W!CookieIsGood, W!AuthenticatedHasToken

(* What becomes of a token that is presented. *)

RotationWorks(t) ==
    /\ flight[t].is = "asked" /\ flight[t].n \in alive
    /\ W!Make(flight[t].n)
    /\ alive' = (alive \ {flight[t].n}) \cup {made + 1}
    /\ recent' = recent \cup {flight[t].n}
    /\ flight' = [flight EXCEPT ![t] = [is |-> "ok", n |-> made + 1]]
    /\ UNCHANGED <<cookie, revoked, browserExpired, token, browserStatus, call, sent, logout, ended, broken>>

RotationEndsSession(t) ==
    /\ flight[t].is = "asked" /\ flight[t].n \notin recent \cup alive \cup {0}
    /\ alive' = alive \ W!Family(flight[t].n)
    /\ flight' = [flight EXCEPT ![t].is = "dead"]
    /\ UNCHANGED <<made, family, recent, cookie, revoked, browserExpired, token, browserStatus,
                   call, sent, logout, ended, broken>>

\* Nothing, or nothing that is heard of.
RotationIsRefused(t) ==
    /\ flight[t].is = "asked"
    /\ \E is \in {"left", "failed"} : flight' = [flight EXCEPT ![t] = [is |-> is, n |-> 0]]
    /\ UNCHANGED <<made, family, alive, recent, cookie, revoked, browserExpired, token, browserStatus,
                   call, sent, logout, ended, broken>>

\* The token is consumed, and perhaps an heir made, which nobody gets.
TokenIsLost(t) ==
    /\ flight[t].is = "asked" /\ flight[t].n \in alive
    /\ recent' = recent \cup {flight[t].n}
    /\ broken' = broken \cup {family[flight[t].n]}
    /\ \/ alive' = alive \ {flight[t].n} /\ UNCHANGED <<made, family>>
       \/ W!Make(flight[t].n) /\ alive' = (alive \ {flight[t].n}) \cup {made + 1}
    /\ flight' = [flight EXCEPT ![t] = [is |-> "failed", n |-> 0]]
    /\ UNCHANGED <<cookie, revoked, browserExpired, token, browserStatus, call, sent, logout, ended>>

LEMMA AnswersToRefresh ==
    ASSUME NEW t \in Tabs, W!Rotate(t) \/ W!TurnAway(t) \/ W!FailRotation(t)
    PROVE  RotationWorks(t) \/ RotationEndsSession(t) \/ RotationIsRefused(t) \/ TokenIsLost(t)
BY DEF W!Rotate, W!TurnAway, W!FailRotation, W!server, W!calls, RotationWorks,
       RotationEndsSession, RotationIsRefused, TokenIsLost

LEMMA OpenTabKeepsSession ==
    ASSUME SessionInv, NEW t \in Tabs, W!OpenTab(t)
    PROVE  SessionInv'
<1>1. W!TypeOK'
  BY BrowserFacts
  DEF W!OpenTab, SessionInv, W!TypeOK, W!Tokens, W!NoFlight, W!server, W!calls, FamilyIsMade,
      HeirsAreFresh
<1>2. FamilyIsMade'
  BY BrowserFacts
  DEF W!OpenTab, SessionInv, W!TypeOK, W!Tokens, W!NoFlight, W!server, W!calls, FamilyIsMade
<1>3. HeirsAreFresh'
  BY BrowserFacts
  DEF W!OpenTab, SessionInv, W!TypeOK, W!Tokens, W!NoFlight, W!server, W!calls, HeirsAreFresh,
      Lost
<1>4. PresentedIsKnown'
  BY BrowserFacts
  DEF W!OpenTab, SessionInv, W!TypeOK, W!Tokens, W!NoFlight, W!server, W!calls, PresentedIsKnown,
      Lost
<1>5. DeadStaysDead'
  BY BrowserFacts
  DEF W!OpenTab, SessionInv, W!TypeOK, W!Tokens, W!NoFlight, W!server, W!calls, DeadStaysDead
<1>6. QuietBeforeOpen'
  BY BrowserFacts
  DEF W!OpenTab, SessionInv, W!TypeOK, W!Tokens, W!NoFlight, W!server, W!calls, QuietBeforeOpen
<1>7. RefreshIsAwaited'
  BY BrowserFacts
  DEF W!OpenTab, SessionInv, W!TypeOK, W!Tokens, W!NoFlight, W!server, W!calls, RefreshIsAwaited,
      W!Waiting
<1>8. W!CookieIsGood'
  BY BrowserFacts
  DEF W!OpenTab, SessionInv, W!TypeOK, W!Tokens, W!NoFlight, W!server, W!calls, W!CookieIsGood,
      Lost, QuietBeforeOpen
<1>9. W!AuthenticatedHasToken'
  BY BrowserFacts
  DEF W!OpenTab, SessionInv, W!TypeOK, W!Tokens, W!NoFlight, W!server, W!calls,
      W!AuthenticatedHasToken
<1> QED BY <1>1, <1>2, <1>3, <1>4, <1>5, <1>6, <1>7, <1>8, <1>9 DEF SessionInv

LEMMA RotationWorksKeepsSession ==
    ASSUME SessionInv, NEW t \in Tabs, RotationWorks(t)
    PROVE  SessionInv'
<1>a. flight[t].n \in 1..made /\ made \in Nat /\ made' = made + 1 /\ made + 1 \in W!Tokens
  BY BrowserFacts DEF RotationWorks, W!Make, SessionInv, W!TypeOK, W!Tokens
<1>b. family'[made + 1] = family[flight[t].n] /\ \A m \in 1..made : family'[m] = family[m]
  BY BrowserFacts, <1>a DEF RotationWorks, W!Make, SessionInv, W!TypeOK, W!Tokens
<1>1. W!TypeOK'
  <2>1. (cookie \in 0..made /\ made \in 0..MaxTokens)'
    BY BrowserFacts
    DEF RotationWorks, SessionInv, W!TypeOK, W!Tokens, W!NoFlight, W!server, W!calls, W!Make
  <2>2. (family \in [W!Tokens -> 0..MaxTokens])'
    BY BrowserFacts
    DEF RotationWorks, SessionInv, W!TypeOK, W!Tokens, W!NoFlight, W!server, W!calls, W!Make
  <2>3. (alive \subseteq 1..made /\ recent \subseteq 1..made /\ revoked \cup browserExpired \subseteq 1..made)'
    <3>1. 1..made \subseteq 1..made' /\ made + 1 \in 1..made'
      BY <1>a
    <3> QED BY <1>a, <3>1 DEF RotationWorks, SessionInv, W!TypeOK
  <2>4. (token \in [Tabs -> 0..made])'
    BY BrowserFacts
    DEF RotationWorks, SessionInv, W!TypeOK, W!Tokens, W!NoFlight, W!server, W!calls, W!Make
  <2>5. (browserStatus \in [Tabs -> {"closed", "loading", "authenticated", "unauthenticated"}])'
    BY BrowserFacts
    DEF RotationWorks, SessionInv, W!TypeOK, W!Tokens, W!NoFlight, W!server, W!calls, W!Make
  <2>6. (flight \in [Tabs -> [is : {"none", "asked", "ok", "left", "dead", "failed"}, n : 0..made]])'
    BY BrowserFacts
    DEF RotationWorks, SessionInv, W!TypeOK, W!Tokens, W!NoFlight, W!server, W!calls, W!Make
  <2>7. (call \in [PageCalls -> {"idle", "sent", "fine", "expired", "refused", "waiting", "again"}])'
    BY BrowserFacts
    DEF RotationWorks, SessionInv, W!TypeOK, W!Tokens, W!NoFlight, W!server, W!calls, W!Make
  <2>8. (sent \in [PageCalls -> 0..made] /\ logout \in [PageCalls -> BOOLEAN])'
    BY BrowserFacts
    DEF RotationWorks, SessionInv, W!TypeOK, W!Tokens, W!NoFlight, W!server, W!calls, W!Make
  <2>9. (ended \subseteq 1..made /\ broken \subseteq 1..made)'
    BY <1>a DEF RotationWorks, SessionInv, W!TypeOK
  <2> QED BY <2>1, <2>2, <2>3, <2>4, <2>5, <2>6, <2>7, <2>8, <2>9 DEF W!TypeOK
<1>2. FamilyIsMade'
  BY <1>a, <1>b DEF SessionInv, FamilyIsMade
<1>3. HeirsAreFresh'
  BY BrowserFacts
  DEF RotationWorks, SessionInv, W!TypeOK, W!Tokens, W!NoFlight, W!server, W!calls,
      HeirsAreFresh, W!Make, Lost
<1>4. PresentedIsKnown'
  BY BrowserFacts
  DEF RotationWorks, SessionInv, W!TypeOK, W!Tokens, W!NoFlight, W!server, W!calls,
      PresentedIsKnown, W!Make, Lost
<1>5. DeadStaysDead'
  BY BrowserFacts
  DEF RotationWorks, SessionInv, W!TypeOK, W!Tokens, W!NoFlight, W!server, W!calls,
      DeadStaysDead, W!Make
<1>6. QuietBeforeOpen'
  BY BrowserFacts
  DEF RotationWorks, SessionInv, W!TypeOK, W!Tokens, W!NoFlight, W!server, W!calls,
      QuietBeforeOpen, W!Make
<1>7. RefreshIsAwaited'
  BY BrowserFacts
  DEF RotationWorks, SessionInv, W!TypeOK, W!Tokens, W!NoFlight, W!server, W!calls,
      RefreshIsAwaited, W!Make, W!Waiting
<1>8. W!CookieIsGood'
  <2>1. flight'[t] = [is |-> "ok", n |-> made + 1] /\ \A o \in Tabs \ {t} : flight'[o] = flight[o]
    BY DEF RotationWorks, SessionInv, W!TypeOK
  <2>2. \A o \in Tabs : flight[o].n \in 0..made
    BY DEF SessionInv, W!TypeOK
  <2>3. \A o \in Tabs : flight[o].is = "ok" => flight[o].n \in 1..made
    BY <1>a, <2>2 DEF SessionInv, HeirsAreFresh
  <2>4. cookie' = cookie /\ cookie \in 0..made /\ family'[cookie'] = IF cookie = 0 THEN family'[0] ELSE family[cookie]
    BY <1>a, <1>b DEF RotationWorks, SessionInv, W!TypeOK
  <2>5. cookie = flight[t].n => W!CookieIsGood'
    BY <1>a, <1>b, <2>1, <2>4 DEF W!CookieIsGood
  <2>6. cookie # flight[t].n => W!CookieIsGood'
    BY <1>a, <1>b, <2>1, <2>3, <2>4 DEF RotationWorks, SessionInv, W!CookieIsGood, Lost
  <2> QED BY <2>5, <2>6
<1>9. W!AuthenticatedHasToken'
  BY BrowserFacts
  DEF RotationWorks, SessionInv, W!TypeOK, W!Tokens, W!NoFlight, W!server, W!calls,
      W!AuthenticatedHasToken, W!Make
<1> QED BY <1>1, <1>2, <1>3, <1>4, <1>5, <1>6, <1>7, <1>8, <1>9 DEF SessionInv

LEMMA RotationIsRefusedKeepsSession ==
    ASSUME SessionInv, NEW t \in Tabs, RotationIsRefused(t)
    PROVE  SessionInv'
<1>a. /\ flight'[t].is \in {"left", "failed"} /\ flight'[t].n = 0 /\ flight[t].is = "asked"
      /\ \A o \in Tabs \ {t} : flight'[o] = flight[o]
      /\ flight' \in [Tabs -> [is : {"none", "asked", "ok", "left", "dead", "failed"}, n : 0..made]]
  <2>1. PICK is \in {"left", "failed"} : flight' = [flight EXCEPT ![t] = [is |-> is, n |-> 0]]
    BY DEF RotationIsRefused
  <2>2. made \in 0..MaxTokens /\ 0 \in 0..made
    BY BrowserFacts DEF SessionInv, W!TypeOK
  <2>3. [is |-> is, n |-> 0] \in
           [is : {"none", "asked", "ok", "left", "dead", "failed"}, n : 0..made]
    BY <2>2
  <2> QED BY <2>1, <2>3 DEF RotationIsRefused, SessionInv, W!TypeOK
<1>1. W!TypeOK'
  BY <1>a DEF RotationIsRefused, SessionInv, W!TypeOK, W!Tokens
<1>2. FamilyIsMade'
  BY BrowserFacts
  DEF RotationIsRefused, SessionInv, W!TypeOK, W!Tokens, W!NoFlight, W!server, W!calls,
      FamilyIsMade
<1>3. HeirsAreFresh'
  BY BrowserFacts
  DEF RotationIsRefused, SessionInv, W!TypeOK, W!Tokens, W!NoFlight, W!server, W!calls,
      HeirsAreFresh, Lost
<1>4. PresentedIsKnown'
  BY BrowserFacts
  DEF RotationIsRefused, SessionInv, W!TypeOK, W!Tokens, W!NoFlight, W!server, W!calls,
      PresentedIsKnown, Lost
<1>5. DeadStaysDead'
  BY BrowserFacts
  DEF RotationIsRefused, SessionInv, W!TypeOK, W!Tokens, W!NoFlight, W!server, W!calls,
      DeadStaysDead
<1>6. QuietBeforeOpen'
  BY BrowserFacts
  DEF RotationIsRefused, SessionInv, W!TypeOK, W!Tokens, W!NoFlight, W!server, W!calls,
      QuietBeforeOpen
<1>7. RefreshIsAwaited'
  BY BrowserFacts
  DEF RotationIsRefused, SessionInv, W!TypeOK, W!Tokens, W!NoFlight, W!server, W!calls,
      RefreshIsAwaited, W!Waiting
<1>8. W!CookieIsGood'
  BY <1>a DEF RotationIsRefused, SessionInv, W!CookieIsGood
<1>9. W!AuthenticatedHasToken'
  BY BrowserFacts
  DEF RotationIsRefused, SessionInv, W!TypeOK, W!Tokens, W!NoFlight, W!server, W!calls,
      W!AuthenticatedHasToken
<1> QED BY <1>1, <1>2, <1>3, <1>4, <1>5, <1>6, <1>7, <1>8, <1>9 DEF SessionInv

LEMMA RotationEndsSessionKeepsSession ==
    ASSUME SessionInv, NEW t \in Tabs, RotationEndsSession(t)
    PROVE  SessionInv'
<1>a. /\ flight[t].n # 0 => Lost(family[flight[t].n])
      /\ \A m \in alive \ alive' : family[m] = family[flight[t].n] /\ flight[t].n # 0
  BY DEF RotationEndsSession, SessionInv, PresentedIsKnown, W!Family
<1>b. /\ flight'[t] = [is |-> "dead", n |-> flight[t].n]
      /\ \A o \in Tabs \ {t} : flight'[o] = flight[o]
  BY DEF RotationEndsSession, SessionInv, W!TypeOK
<1>1. W!TypeOK'
  BY BrowserFacts
  DEF RotationEndsSession, SessionInv, W!TypeOK, W!Tokens, W!NoFlight, W!server, W!calls,
      W!Family, FamilyIsMade, HeirsAreFresh
<1>2. FamilyIsMade'
  BY BrowserFacts
  DEF RotationEndsSession, SessionInv, W!TypeOK, W!Tokens, W!NoFlight, W!server, W!calls,
      FamilyIsMade, W!Family
<1>3. HeirsAreFresh'
  BY <1>a, <1>b DEF RotationEndsSession, SessionInv, HeirsAreFresh, Lost
<1>4. PresentedIsKnown'
  BY BrowserFacts
  DEF RotationEndsSession, SessionInv, W!TypeOK, W!Tokens, W!NoFlight, W!server, W!calls,
      PresentedIsKnown, W!Family, Lost
<1>5. DeadStaysDead'
  BY BrowserFacts
  DEF RotationEndsSession, SessionInv, W!TypeOK, W!Tokens, W!NoFlight, W!server, W!calls,
      DeadStaysDead, W!Family
<1>6. QuietBeforeOpen'
  BY BrowserFacts
  DEF RotationEndsSession, SessionInv, W!TypeOK, W!Tokens, W!NoFlight, W!server, W!calls,
      QuietBeforeOpen, W!Family
<1>7. RefreshIsAwaited'
  BY BrowserFacts
  DEF RotationEndsSession, SessionInv, W!TypeOK, W!Tokens, W!NoFlight, W!server, W!calls,
      RefreshIsAwaited, W!Family, W!Waiting
<1>8. W!CookieIsGood'
  BY <1>a, <1>b DEF RotationEndsSession, SessionInv, W!CookieIsGood, Lost
<1>9. W!AuthenticatedHasToken'
  BY BrowserFacts
  DEF RotationEndsSession, SessionInv, W!TypeOK, W!Tokens, W!NoFlight, W!server, W!calls,
      W!AuthenticatedHasToken, W!Family
<1> QED BY <1>1, <1>2, <1>3, <1>4, <1>5, <1>6, <1>7, <1>8, <1>9 DEF SessionInv

LEMMA TokenIsLostKeepsSession ==
    ASSUME SessionInv, NEW t \in Tabs, TokenIsLost(t)
    PROVE  SessionInv'
<1>a. /\ flight[t].n \in 1..made /\ made \in Nat /\ made' \in made..(made + 1) /\ made' \in 0..MaxTokens
      /\ family \in [1..MaxTokens -> 0..MaxTokens] /\ family' \in [1..MaxTokens -> 0..MaxTokens]
      /\ \A m \in 1..made : family'[m] = family[m]
      /\ made' = made + 1 => family'[made + 1] = family[flight[t].n]
      /\ alive \subseteq 1..made /\ alive' \subseteq 1..made'
      /\ alive \subseteq alive' \cup {flight[t].n} /\ alive' \subseteq alive \cup (1..made' \ 1..made)
  <2>1. /\ made \in 0..MaxTokens /\ MaxTokens \in Nat /\ alive \subseteq 1..made
        /\ family \in [1..MaxTokens -> 0..MaxTokens] /\ flight[t].n \in alive
    BY BrowserFacts DEF TokenIsLost, SessionInv, W!TypeOK, W!Tokens
  <2>2. \A m \in 1..made : m \in Nat /\ m # 0 /\ m \in 1..MaxTokens /\ m # made + 1
    BY <2>1
  <2>3. flight[t].n \in 1..made /\ flight[t].n # 0 /\ family[flight[t].n] \in 0..MaxTokens
    BY <2>1, <2>2
  <2>4. CASE alive' = alive \ {flight[t].n} /\ UNCHANGED <<made, family>>
    <3>1. made' \in made..(made + 1) /\ made' # made + 1
      BY <2>1, <2>4
    <3>2. /\ alive' \subseteq 1..made' /\ alive \subseteq alive' \cup {flight[t].n}
          /\ alive' \subseteq alive \cup (1..made' \ 1..made)
      BY <2>1, <2>4
    <3>3. made \in Nat /\ made' \in 0..MaxTokens /\ \A m \in 1..made : family'[m] = family[m]
      BY <2>1, <2>4
    <3>4. family' \in [1..MaxTokens -> 0..MaxTokens]
      BY <2>1, <2>4
    <3> QED BY <2>1, <2>3, <3>1, <3>2, <3>3, <3>4
  <2>5. CASE W!Make(flight[t].n) /\ alive' = (alive \ {flight[t].n}) \cup {made + 1}
    <3>1. /\ made < MaxTokens /\ made' = made + 1
          /\ family' = [family EXCEPT ![made + 1] = family[flight[t].n]]
      BY <2>3, <2>5 DEF W!Make
    <3>2. /\ made + 1 \in 1..MaxTokens /\ made' \in made..(made + 1) /\ made' \in 0..MaxTokens
          /\ made + 1 \in 1..made' \ 1..made /\ 1..made \subseteq 1..made'
      BY <2>1, <3>1
    <3>3. /\ family' \in [1..MaxTokens -> 0..MaxTokens]
          /\ \A m \in 1..made : family'[m] = family[m]
          /\ family'[made + 1] = family[flight[t].n]
      BY <2>1, <2>2, <2>3, <3>1, <3>2
    <3>4. /\ alive' \subseteq 1..made' /\ alive \subseteq alive' \cup {flight[t].n}
          /\ alive' \subseteq alive \cup (1..made' \ 1..made)
      BY <2>1, <2>5, <3>2
    <3>5. made \in Nat
      BY <2>1
    <3> QED BY <2>1, <2>3, <3>2, <3>3, <3>4, <3>5
  <2> QED BY <2>3, <2>4, <2>5 DEF TokenIsLost
<1>b. /\ family[flight[t].n] \in 1..made /\ broken' = broken \cup {family[flight[t].n]}
      /\ recent' = recent \cup {flight[t].n}
      /\ UNCHANGED <<cookie, revoked, browserExpired, token, browserStatus, call, sent, logout, ended>>
  BY <1>a DEF TokenIsLost, SessionInv, FamilyIsMade
<1>c. /\ flight'[t] = [is |-> "failed", n |-> 0] /\ \A o \in Tabs \ {t} : flight'[o] = flight[o]
      /\ \A o \in Tabs : flight[o].n \in 0..made
      /\ flight' \in [Tabs -> [is : {"none", "asked", "ok", "left", "dead", "failed"}, n : 0..made]]
  BY <1>a DEF TokenIsLost, SessionInv, W!TypeOK
<1>1. W!TypeOK'
  <2>1. 0..made \subseteq 0..made' /\ 1..made \subseteq 1..made'
    BY <1>a
  <2>2. flight' \in [Tabs -> [is : {"none", "asked", "ok", "left", "dead", "failed"}, n : 0..made']]
    BY <1>c, <2>1
  <2>3. token \in [Tabs -> 0..made'] /\ sent \in [PageCalls -> 0..made']
    BY <2>1 DEF SessionInv, W!TypeOK
  <2> QED BY <1>a, <1>b, <2>1, <2>2, <2>3 DEF SessionInv, W!TypeOK, W!Tokens
<1>2. FamilyIsMade'
  BY <1>a, <1>b DEF SessionInv, FamilyIsMade
<1>d. \A m \in 1..made : (m \in alive \cup recent \/ Lost(family[m])) =>
          (m \in alive \cup recent \/ Lost(family[m]))'
  BY <1>a, <1>b DEF Lost
<1>e. \A m \in 1..made : (m \in alive \/ Lost(family[m])) => (m \in alive \/ Lost(family[m]))'
  BY <1>a, <1>b DEF Lost
<1>3. HeirsAreFresh'
  BY <1>b, <1>c, <1>e DEF SessionInv, HeirsAreFresh
<1>4. PresentedIsKnown'
  BY <1>b, <1>c, <1>d DEF SessionInv, W!TypeOK, PresentedIsKnown
<1>5. DeadStaysDead'
  BY <1>a, <1>c DEF SessionInv, DeadStaysDead
<1>6. QuietBeforeOpen'
  BY <1>b, <1>c DEF TokenIsLost, SessionInv, QuietBeforeOpen
<1>7. RefreshIsAwaited'
  BY <1>b, <1>c DEF TokenIsLost, SessionInv, RefreshIsAwaited, W!Waiting
<1>8. W!CookieIsGood'
  <2>1. CASE cookie = 0
    BY <1>b, <2>1 DEF W!CookieIsGood
  <2>2. CASE cookie # 0 /\ family[cookie] = family[flight[t].n]
    BY <1>a, <1>b, <2>2 DEF SessionInv, W!TypeOK, W!CookieIsGood
  <2>3. CASE cookie # 0 /\ family[cookie] # family[flight[t].n]
    <3>1. cookie \in 1..made /\ cookie # flight[t].n
      BY <2>3 DEF SessionInv, W!TypeOK
    <3>2. \A o \in Tabs : flight[o].is = "ok" => flight'[o] = flight[o] /\ family'[flight[o].n] = family[flight[o].n]
      BY <1>a, <1>c DEF TokenIsLost, SessionInv, HeirsAreFresh
    <3> QED BY <1>a, <1>b, <2>3, <3>1, <3>2 DEF SessionInv, W!CookieIsGood
  <2> QED BY <2>1, <2>2, <2>3
<1>9. W!AuthenticatedHasToken'
  BY <1>b DEF SessionInv, W!AuthenticatedHasToken
<1> QED BY <1>1, <1>2, <1>3, <1>4, <1>5, <1>6, <1>7, <1>8, <1>9 DEF SessionInv

LEMMA ReceiveTokenKeepsSession ==
    ASSUME SessionInv, NEW t \in Tabs, W!ReceiveToken(t)
    PROVE  SessionInv'
<1>1. W!TypeOK'
  <2>1. (cookie \in 0..made /\ made \in 0..MaxTokens)'
    BY BrowserFacts
    DEF W!ReceiveToken, SessionInv, W!TypeOK, W!Tokens, W!NoFlight, W!server, W!calls, W!Waiting
  <2>2. (family \in [W!Tokens -> 0..MaxTokens])'
    BY BrowserFacts
    DEF W!ReceiveToken, SessionInv, W!TypeOK, W!Tokens, W!NoFlight, W!server, W!calls, W!Waiting
  <2>3. (alive \subseteq 1..made /\ recent \subseteq 1..made /\ revoked \cup browserExpired \subseteq 1..made)'
    BY BrowserFacts
    DEF W!ReceiveToken, SessionInv, W!TypeOK, W!Tokens, W!NoFlight, W!server, W!calls, W!Waiting
  <2>4. (token \in [Tabs -> 0..made])'
    BY BrowserFacts
    DEF W!ReceiveToken, SessionInv, W!TypeOK, W!Tokens, W!NoFlight, W!server, W!calls, W!Waiting
  <2>5. (browserStatus \in [Tabs -> {"closed", "loading", "authenticated", "unauthenticated"}])'
    BY BrowserFacts
    DEF W!ReceiveToken, SessionInv, W!TypeOK, W!Tokens, W!NoFlight, W!server, W!calls, W!Waiting
  <2>6. (flight \in [Tabs -> [is : {"none", "asked", "ok", "left", "dead", "failed"}, n : 0..made]])'
    BY BrowserFacts
    DEF W!ReceiveToken, SessionInv, W!TypeOK, W!Tokens, W!NoFlight, W!server, W!calls, W!Waiting
  <2>7. (call \in [PageCalls -> {"idle", "sent", "fine", "expired", "refused", "waiting", "again"}])'
    BY BrowserFacts
    DEF W!ReceiveToken, SessionInv, W!TypeOK, W!Tokens, W!NoFlight, W!server, W!calls, W!Waiting
  <2>8. (sent \in [PageCalls -> 0..made] /\ logout \in [PageCalls -> BOOLEAN])'
    BY BrowserFacts
    DEF W!ReceiveToken, SessionInv, W!TypeOK, W!Tokens, W!NoFlight, W!server, W!calls, W!Waiting
  <2>9. (ended \subseteq 1..made /\ broken \subseteq 1..made)'
    BY BrowserFacts
    DEF W!ReceiveToken, SessionInv, W!TypeOK, W!Tokens, W!NoFlight, W!server, W!calls, W!Waiting,
        FamilyIsMade, HeirsAreFresh
  <2> QED BY <2>1, <2>2, <2>3, <2>4, <2>5, <2>6, <2>7, <2>8, <2>9 DEF W!TypeOK
<1>2. FamilyIsMade'
  BY BrowserFacts
  DEF W!ReceiveToken, SessionInv, W!TypeOK, W!Tokens, W!NoFlight, W!server, W!calls,
      FamilyIsMade, W!Waiting
<1>3. HeirsAreFresh'
  BY BrowserFacts
  DEF W!ReceiveToken, SessionInv, W!TypeOK, W!Tokens, W!NoFlight, W!server, W!calls,
      HeirsAreFresh, W!Waiting, Lost
<1>4. PresentedIsKnown'
  BY BrowserFacts
  DEF W!ReceiveToken, SessionInv, W!TypeOK, W!Tokens, W!NoFlight, W!server, W!calls,
      PresentedIsKnown, W!Waiting, Lost, HeirsAreFresh
<1>5. DeadStaysDead'
  BY BrowserFacts
  DEF W!ReceiveToken, SessionInv, W!TypeOK, W!Tokens, W!NoFlight, W!server, W!calls,
      DeadStaysDead, W!Waiting
<1>6. QuietBeforeOpen'
  BY BrowserFacts
  DEF W!ReceiveToken, SessionInv, W!TypeOK, W!Tokens, W!NoFlight, W!server, W!calls,
      QuietBeforeOpen, W!Waiting
<1>7. RefreshIsAwaited'
  BY BrowserFacts
  DEF W!ReceiveToken, SessionInv, W!TypeOK, W!Tokens, W!NoFlight, W!server, W!calls,
      RefreshIsAwaited, W!Waiting
<1>8. W!CookieIsGood'
  BY BrowserFacts
  DEF W!ReceiveToken, SessionInv, W!TypeOK, W!Tokens, W!NoFlight, W!server, W!calls,
      W!CookieIsGood, W!Waiting, Lost, HeirsAreFresh
<1>9. W!AuthenticatedHasToken'
  BY BrowserFacts
  DEF W!ReceiveToken, SessionInv, W!TypeOK, W!Tokens, W!NoFlight, W!server, W!calls,
      W!AuthenticatedHasToken, W!Waiting, HeirsAreFresh
<1> QED BY <1>1, <1>2, <1>3, <1>4, <1>5, <1>6, <1>7, <1>8, <1>9 DEF SessionInv

LEMMA ReceiveRefusalKeepsSession ==
    ASSUME SessionInv, NEW t \in Tabs, W!ReceiveRefusal(t)
    PROVE  SessionInv'
<1>1. W!TypeOK'
  <2>1. (cookie \in 0..made /\ made \in 0..MaxTokens)'
    BY BrowserFacts
    DEF W!ReceiveRefusal, W!GiveUp, SessionInv, W!TypeOK, W!Tokens, W!NoFlight, W!server, W!calls,
        W!Waiting
  <2>2. (family \in [W!Tokens -> 0..MaxTokens])'
    BY BrowserFacts
    DEF W!ReceiveRefusal, W!GiveUp, SessionInv, W!TypeOK, W!Tokens, W!NoFlight, W!server, W!calls,
        W!Waiting
  <2>3. (alive \subseteq 1..made /\ recent \subseteq 1..made /\ revoked \cup browserExpired \subseteq 1..made)'
    BY BrowserFacts
    DEF W!ReceiveRefusal, W!GiveUp, SessionInv, W!TypeOK, W!Tokens, W!NoFlight, W!server, W!calls,
        W!Waiting
  <2>4. (token \in [Tabs -> 0..made])'
    BY BrowserFacts
    DEF W!ReceiveRefusal, W!GiveUp, SessionInv, W!TypeOK, W!Tokens, W!NoFlight, W!server, W!calls,
        W!Waiting
  <2>5. (browserStatus \in [Tabs -> {"closed", "loading", "authenticated", "unauthenticated"}])'
    BY BrowserFacts
    DEF W!ReceiveRefusal, W!GiveUp, SessionInv, W!TypeOK, W!Tokens, W!NoFlight, W!server, W!calls,
        W!Waiting
  <2>6. (flight \in [Tabs -> [is : {"none", "asked", "ok", "left", "dead", "failed"}, n : 0..made]])'
    BY BrowserFacts
    DEF W!ReceiveRefusal, W!GiveUp, SessionInv, W!TypeOK, W!Tokens, W!NoFlight, W!server, W!calls,
        W!Waiting
  <2>7. (call \in [PageCalls -> {"idle", "sent", "fine", "expired", "refused", "waiting", "again"}])'
    BY BrowserFacts
    DEF W!ReceiveRefusal, W!GiveUp, SessionInv, W!TypeOK, W!Tokens, W!NoFlight, W!server, W!calls,
        W!Waiting
  <2>8. (sent \in [PageCalls -> 0..made] /\ logout \in [PageCalls -> BOOLEAN])'
    BY BrowserFacts
    DEF W!ReceiveRefusal, W!GiveUp, SessionInv, W!TypeOK, W!Tokens, W!NoFlight, W!server, W!calls,
        W!Waiting
  <2>9. (ended \subseteq 1..made /\ broken \subseteq 1..made)'
    BY BrowserFacts
    DEF W!ReceiveRefusal, W!GiveUp, SessionInv, W!TypeOK, W!Tokens, W!NoFlight, W!server, W!calls,
        W!Waiting, FamilyIsMade, HeirsAreFresh
  <2> QED BY <2>1, <2>2, <2>3, <2>4, <2>5, <2>6, <2>7, <2>8, <2>9 DEF W!TypeOK
<1>2. FamilyIsMade'
  BY BrowserFacts
  DEF W!ReceiveRefusal, W!GiveUp, SessionInv, W!TypeOK, W!Tokens, W!NoFlight, W!server, W!calls,
      FamilyIsMade, W!Waiting
<1>3. HeirsAreFresh'
  BY BrowserFacts
  DEF W!ReceiveRefusal, W!GiveUp, SessionInv, W!TypeOK, W!Tokens, W!NoFlight, W!server, W!calls,
      HeirsAreFresh, W!Waiting, Lost
<1>4. PresentedIsKnown'
  BY BrowserFacts
  DEF W!ReceiveRefusal, W!GiveUp, SessionInv, W!TypeOK, W!Tokens, W!NoFlight, W!server, W!calls,
      PresentedIsKnown, W!Waiting, Lost
<1>5. DeadStaysDead'
  BY BrowserFacts
  DEF W!ReceiveRefusal, W!GiveUp, SessionInv, W!TypeOK, W!Tokens, W!NoFlight, W!server, W!calls,
      DeadStaysDead, W!Waiting
<1>6. QuietBeforeOpen'
  BY BrowserFacts
  DEF W!ReceiveRefusal, W!GiveUp, SessionInv, W!TypeOK, W!Tokens, W!NoFlight, W!server, W!calls,
      QuietBeforeOpen, W!Waiting
<1>7. RefreshIsAwaited'
  BY BrowserFacts
  DEF W!ReceiveRefusal, W!GiveUp, SessionInv, W!TypeOK, W!Tokens, W!NoFlight, W!server, W!calls,
      RefreshIsAwaited, W!Waiting
<1>8. W!CookieIsGood'
  BY BrowserFacts
  DEF W!ReceiveRefusal, W!GiveUp, SessionInv, W!TypeOK, W!Tokens, W!NoFlight, W!server, W!calls,
      W!CookieIsGood, W!Waiting, Lost
<1>9. W!AuthenticatedHasToken'
  BY BrowserFacts
  DEF W!ReceiveRefusal, W!GiveUp, SessionInv, W!TypeOK, W!Tokens, W!NoFlight, W!server, W!calls,
      W!AuthenticatedHasToken, W!Waiting, W!Refusals, RefreshIsAwaited
<1> QED BY <1>1, <1>2, <1>3, <1>4, <1>5, <1>6, <1>7, <1>8, <1>9 DEF SessionInv

LEMMA LoseRefreshKeepsSession ==
    ASSUME SessionInv, NEW t \in Tabs, W!LoseRefresh(t)
    PROVE  SessionInv'
<1>1. W!TypeOK'
  <2>1. (cookie \in 0..made /\ made \in 0..MaxTokens)'
    BY BrowserFacts
    DEF W!LoseRefresh, W!GiveUp, SessionInv, W!TypeOK, W!Tokens, W!NoFlight, W!server, W!calls, W!Waiting
  <2>2. (family \in [W!Tokens -> 0..MaxTokens])'
    BY BrowserFacts
    DEF W!LoseRefresh, W!GiveUp, SessionInv, W!TypeOK, W!Tokens, W!NoFlight, W!server, W!calls, W!Waiting
  <2>3. (alive \subseteq 1..made /\ recent \subseteq 1..made /\ revoked \cup browserExpired \subseteq 1..made)'
    BY BrowserFacts
    DEF W!LoseRefresh, W!GiveUp, SessionInv, W!TypeOK, W!Tokens, W!NoFlight, W!server, W!calls, W!Waiting
  <2>4. (token \in [Tabs -> 0..made])'
    BY BrowserFacts
    DEF W!LoseRefresh, W!GiveUp, SessionInv, W!TypeOK, W!Tokens, W!NoFlight, W!server, W!calls, W!Waiting
  <2>5. (browserStatus \in [Tabs -> {"closed", "loading", "authenticated", "unauthenticated"}])'
    BY BrowserFacts
    DEF W!LoseRefresh, W!GiveUp, SessionInv, W!TypeOK, W!Tokens, W!NoFlight, W!server, W!calls, W!Waiting
  <2>6. (flight \in [Tabs -> [is : {"none", "asked", "ok", "left", "dead", "failed"}, n : 0..made]])'
    BY BrowserFacts
    DEF W!LoseRefresh, W!GiveUp, SessionInv, W!TypeOK, W!Tokens, W!NoFlight, W!server, W!calls, W!Waiting
  <2>7. (call \in [PageCalls -> {"idle", "sent", "fine", "expired", "refused", "waiting", "again"}])'
    BY BrowserFacts
    DEF W!LoseRefresh, W!GiveUp, SessionInv, W!TypeOK, W!Tokens, W!NoFlight, W!server, W!calls, W!Waiting
  <2>8. (sent \in [PageCalls -> 0..made] /\ logout \in [PageCalls -> BOOLEAN])'
    BY BrowserFacts
    DEF W!LoseRefresh, W!GiveUp, SessionInv, W!TypeOK, W!Tokens, W!NoFlight, W!server, W!calls, W!Waiting
  <2>9. (ended \subseteq 1..made /\ broken \subseteq 1..made)'
    <3>1. flight[t].is = "ok" => family[flight[t].n] \in 1..made
      BY DEF SessionInv, W!TypeOK, FamilyIsMade, HeirsAreFresh
    <3> QED BY <3>1 DEF W!LoseRefresh, W!GiveUp, W!server, SessionInv, W!TypeOK
  <2> QED BY <2>1, <2>2, <2>3, <2>4, <2>5, <2>6, <2>7, <2>8, <2>9 DEF W!TypeOK
<1>2. FamilyIsMade'
  BY BrowserFacts
  DEF W!LoseRefresh, W!GiveUp, SessionInv, W!TypeOK, W!Tokens, W!NoFlight, W!server, W!calls, FamilyIsMade,
      W!Waiting
<1>3. HeirsAreFresh'
  BY BrowserFacts
  DEF W!LoseRefresh, W!GiveUp, SessionInv, W!TypeOK, W!Tokens, W!NoFlight, W!server, W!calls,
      HeirsAreFresh, W!Waiting, Lost
<1>4. PresentedIsKnown'
  BY BrowserFacts
  DEF W!LoseRefresh, W!GiveUp, SessionInv, W!TypeOK, W!Tokens, W!NoFlight, W!server, W!calls,
      PresentedIsKnown, W!Waiting, Lost
<1>5. DeadStaysDead'
  BY BrowserFacts
  DEF W!LoseRefresh, W!GiveUp, SessionInv, W!TypeOK, W!Tokens, W!NoFlight, W!server, W!calls,
      DeadStaysDead, W!Waiting
<1>6. QuietBeforeOpen'
  BY BrowserFacts
  DEF W!LoseRefresh, W!GiveUp, SessionInv, W!TypeOK, W!Tokens, W!NoFlight, W!server, W!calls,
      QuietBeforeOpen, W!Waiting
<1>7. RefreshIsAwaited'
  BY BrowserFacts
  DEF W!LoseRefresh, W!GiveUp, SessionInv, W!TypeOK, W!Tokens, W!NoFlight, W!server, W!calls,
      RefreshIsAwaited, W!Waiting
<1>8. W!CookieIsGood'
  BY BrowserFacts
  DEF W!LoseRefresh, W!GiveUp, SessionInv, W!TypeOK, W!Tokens, W!NoFlight, W!server, W!calls,
      W!CookieIsGood, W!Waiting, Lost
<1>9. W!AuthenticatedHasToken'
  BY BrowserFacts
  DEF W!LoseRefresh, W!GiveUp, SessionInv, W!TypeOK, W!Tokens, W!NoFlight, W!server, W!calls,
      W!AuthenticatedHasToken, W!Waiting
<1> QED BY <1>1, <1>2, <1>3, <1>4, <1>5, <1>6, <1>7, <1>8, <1>9 DEF SessionInv

LEMMA LoginKeepsSession ==
    ASSUME SessionInv, NEW t \in Tabs, W!Login(t)
    PROVE  SessionInv'
<1>1. W!TypeOK'
  <2>1. (cookie \in 0..made /\ made \in 0..MaxTokens)'
    BY BrowserFacts
    DEF W!Login, SessionInv, W!TypeOK, W!Tokens, W!NoFlight, W!server, W!calls, W!Make
  <2>2. (family \in [W!Tokens -> 0..MaxTokens])'
    BY BrowserFacts
    DEF W!Login, SessionInv, W!TypeOK, W!Tokens, W!NoFlight, W!server, W!calls, W!Make
  <2>3. (alive \subseteq 1..made /\ recent \subseteq 1..made /\ revoked \cup browserExpired \subseteq 1..made)'
    BY BrowserFacts
    DEF W!Login, SessionInv, W!TypeOK, W!Tokens, W!NoFlight, W!server, W!calls, W!Make
  <2>4. (token \in [Tabs -> 0..made])'
    BY BrowserFacts
    DEF W!Login, SessionInv, W!TypeOK, W!Tokens, W!NoFlight, W!server, W!calls, W!Make
  <2>5. (browserStatus \in [Tabs -> {"closed", "loading", "authenticated", "unauthenticated"}])'
    BY BrowserFacts
    DEF W!Login, SessionInv, W!TypeOK, W!Tokens, W!NoFlight, W!server, W!calls, W!Make
  <2>6. (flight \in [Tabs -> [is : {"none", "asked", "ok", "left", "dead", "failed"}, n : 0..made]])'
    BY BrowserFacts
    DEF W!Login, SessionInv, W!TypeOK, W!Tokens, W!NoFlight, W!server, W!calls, W!Make
  <2>7. (call \in [PageCalls -> {"idle", "sent", "fine", "expired", "refused", "waiting", "again"}])'
    BY BrowserFacts
    DEF W!Login, SessionInv, W!TypeOK, W!Tokens, W!NoFlight, W!server, W!calls, W!Make
  <2>8. (sent \in [PageCalls -> 0..made] /\ logout \in [PageCalls -> BOOLEAN])'
    BY BrowserFacts
    DEF W!Login, SessionInv, W!TypeOK, W!Tokens, W!NoFlight, W!server, W!calls, W!Make
  <2>9. (ended \subseteq 1..made /\ broken \subseteq 1..made)'
    BY BrowserFacts
    DEF W!Login, SessionInv, W!TypeOK, W!Tokens, W!NoFlight, W!server, W!calls, W!Make,
        FamilyIsMade, HeirsAreFresh
  <2> QED BY <2>1, <2>2, <2>3, <2>4, <2>5, <2>6, <2>7, <2>8, <2>9 DEF W!TypeOK
<1>2. FamilyIsMade'
  BY BrowserFacts
  DEF W!Login, SessionInv, W!TypeOK, W!Tokens, W!NoFlight, W!server, W!calls, FamilyIsMade,
      W!Make
<1>3. HeirsAreFresh'
  BY BrowserFacts
  DEF W!Login, SessionInv, W!TypeOK, W!Tokens, W!NoFlight, W!server, W!calls, HeirsAreFresh,
      W!Make, Lost
<1>4. PresentedIsKnown'
  BY BrowserFacts
  DEF W!Login, SessionInv, W!TypeOK, W!Tokens, W!NoFlight, W!server, W!calls, PresentedIsKnown,
      W!Make, Lost
<1>5. DeadStaysDead'
  BY BrowserFacts
  DEF W!Login, SessionInv, W!TypeOK, W!Tokens, W!NoFlight, W!server, W!calls, DeadStaysDead,
      W!Make
<1>6. QuietBeforeOpen'
  BY BrowserFacts
  DEF W!Login, SessionInv, W!TypeOK, W!Tokens, W!NoFlight, W!server, W!calls, QuietBeforeOpen,
      W!Make
<1>7. RefreshIsAwaited'
  BY BrowserFacts
  DEF W!Login, SessionInv, W!TypeOK, W!Tokens, W!NoFlight, W!server, W!calls, RefreshIsAwaited,
      W!Make, W!Waiting
<1>8. W!CookieIsGood'
  BY BrowserFacts
  DEF W!Login, SessionInv, W!TypeOK, W!Tokens, W!NoFlight, W!server, W!calls, W!CookieIsGood,
      W!Make, Lost
<1>9. W!AuthenticatedHasToken'
  BY BrowserFacts
  DEF W!Login, SessionInv, W!TypeOK, W!Tokens, W!NoFlight, W!server, W!calls,
      W!AuthenticatedHasToken, W!Make
<1> QED BY <1>1, <1>2, <1>3, <1>4, <1>5, <1>6, <1>7, <1>8, <1>9 DEF SessionInv

LEMMA CallKeepsSession ==
    ASSUME SessionInv, NEW k \in PageCalls, NEW leaving \in BOOLEAN, W!Call(k, leaving)
    PROVE  SessionInv'
<1>1. W!TypeOK'
  BY BrowserFacts
  DEF W!Call, SessionInv, W!TypeOK, W!Tokens, W!NoFlight, W!server, W!calls, FamilyIsMade,
      HeirsAreFresh
<1>2. FamilyIsMade'
  BY BrowserFacts
  DEF W!Call, SessionInv, W!TypeOK, W!Tokens, W!NoFlight, W!server, W!calls, FamilyIsMade
<1>3. HeirsAreFresh'
  BY BrowserFacts
  DEF W!Call, SessionInv, W!TypeOK, W!Tokens, W!NoFlight, W!server, W!calls, HeirsAreFresh, Lost
<1>4. PresentedIsKnown'
  BY BrowserFacts
  DEF W!Call, SessionInv, W!TypeOK, W!Tokens, W!NoFlight, W!server, W!calls, PresentedIsKnown,
      Lost
<1>5. DeadStaysDead'
  BY BrowserFacts
  DEF W!Call, SessionInv, W!TypeOK, W!Tokens, W!NoFlight, W!server, W!calls, DeadStaysDead
<1>6. QuietBeforeOpen'
  BY BrowserFacts
  DEF W!Call, SessionInv, W!TypeOK, W!Tokens, W!NoFlight, W!server, W!calls, QuietBeforeOpen
<1>7. RefreshIsAwaited'
  BY BrowserFacts
  DEF W!Call, SessionInv, W!TypeOK, W!Tokens, W!NoFlight, W!server, W!calls, RefreshIsAwaited,
      W!Waiting
<1>8. W!CookieIsGood'
  BY BrowserFacts
  DEF W!Call, SessionInv, W!TypeOK, W!Tokens, W!NoFlight, W!server, W!calls, W!CookieIsGood, Lost
<1>9. W!AuthenticatedHasToken'
  BY BrowserFacts
  DEF W!Call, SessionInv, W!TypeOK, W!Tokens, W!NoFlight, W!server, W!calls,
      W!AuthenticatedHasToken
<1> QED BY <1>1, <1>2, <1>3, <1>4, <1>5, <1>6, <1>7, <1>8, <1>9 DEF SessionInv

LEMMA ServeKeepsSession ==
    ASSUME SessionInv, NEW k \in PageCalls, W!Serve(k)
    PROVE  SessionInv'
<1>1. W!TypeOK'
  <2>1. (cookie \in 0..made /\ made \in 0..MaxTokens)'
    BY BrowserFacts
    DEF W!Serve, SessionInv, W!TypeOK, W!Tokens, W!NoFlight, W!server, W!calls, W!Family
  <2>2. (family \in [W!Tokens -> 0..MaxTokens])'
    BY BrowserFacts
    DEF W!Serve, SessionInv, W!TypeOK, W!Tokens, W!NoFlight, W!server, W!calls, W!Family
  <2>3. (alive \subseteq 1..made /\ recent \subseteq 1..made /\ revoked \cup browserExpired \subseteq 1..made)'
    <3>1. alive' \subseteq alive /\ revoked' \subseteq revoked \cup ({sent[k]} \ {0})
      BY DEF W!Serve
    <3>2. sent[k] \in 0..made /\ UNCHANGED <<made, recent, browserExpired>>
      BY DEF W!Serve, SessionInv, W!TypeOK
    <3> QED BY <3>1, <3>2 DEF SessionInv, W!TypeOK
  <2>4. (token \in [Tabs -> 0..made])'
    BY BrowserFacts
    DEF W!Serve, SessionInv, W!TypeOK, W!Tokens, W!NoFlight, W!server, W!calls, W!Family
  <2>5. (browserStatus \in [Tabs -> {"closed", "loading", "authenticated", "unauthenticated"}])'
    BY BrowserFacts
    DEF W!Serve, SessionInv, W!TypeOK, W!Tokens, W!NoFlight, W!server, W!calls, W!Family
  <2>6. (flight \in [Tabs -> [is : {"none", "asked", "ok", "left", "dead", "failed"}, n : 0..made]])'
    BY BrowserFacts
    DEF W!Serve, SessionInv, W!TypeOK, W!Tokens, W!NoFlight, W!server, W!calls, W!Family
  <2>7. (call \in [PageCalls -> {"idle", "sent", "fine", "expired", "refused", "waiting", "again"}])'
    BY BrowserFacts
    DEF W!Serve, SessionInv, W!TypeOK, W!Tokens, W!NoFlight, W!server, W!calls, W!Family
  <2>8. (sent \in [PageCalls -> 0..made] /\ logout \in [PageCalls -> BOOLEAN])'
    BY BrowserFacts
    DEF W!Serve, SessionInv, W!TypeOK, W!Tokens, W!NoFlight, W!server, W!calls, W!Family
  <2>9. (ended \subseteq 1..made /\ broken \subseteq 1..made)'
    <3>1. ended' = ended \/ (cookie # 0 /\ ended' = ended \cup {family[cookie]})
      BY DEF W!Serve
    <3>2. cookie # 0 => family[cookie] \in 1..made
      BY DEF SessionInv, W!TypeOK, FamilyIsMade
    <3> QED BY <3>1, <3>2 DEF W!Serve, SessionInv, W!TypeOK
  <2> QED BY <2>1, <2>2, <2>3, <2>4, <2>5, <2>6, <2>7, <2>8, <2>9 DEF W!TypeOK
<1>2. FamilyIsMade'
  BY BrowserFacts
  DEF W!Serve, SessionInv, W!TypeOK, W!Tokens, W!NoFlight, W!server, W!calls, FamilyIsMade,
      W!Family
<1>3. HeirsAreFresh'
  BY BrowserFacts
  DEF W!Serve, SessionInv, W!TypeOK, W!Tokens, W!NoFlight, W!server, W!calls, HeirsAreFresh,
      W!Family, Lost
<1>4. PresentedIsKnown'
  BY BrowserFacts
  DEF W!Serve, SessionInv, W!TypeOK, W!Tokens, W!NoFlight, W!server, W!calls, PresentedIsKnown,
      W!Family, Lost
<1>5. DeadStaysDead'
  BY BrowserFacts
  DEF W!Serve, SessionInv, W!TypeOK, W!Tokens, W!NoFlight, W!server, W!calls, DeadStaysDead,
      W!Family
<1>6. QuietBeforeOpen'
  BY BrowserFacts
  DEF W!Serve, SessionInv, W!TypeOK, W!Tokens, W!NoFlight, W!server, W!calls, QuietBeforeOpen,
      W!Family
<1>7. RefreshIsAwaited'
  BY BrowserFacts
  DEF W!Serve, SessionInv, W!TypeOK, W!Tokens, W!NoFlight, W!server, W!calls, RefreshIsAwaited,
      W!Family, W!Waiting
<1>8. W!CookieIsGood'
  BY BrowserFacts
  DEF W!Serve, SessionInv, W!TypeOK, W!Tokens, W!NoFlight, W!server, W!calls, W!CookieIsGood,
      W!Family, Lost
<1>9. W!AuthenticatedHasToken'
  BY BrowserFacts
  DEF W!Serve, SessionInv, W!TypeOK, W!Tokens, W!NoFlight, W!server, W!calls,
      W!AuthenticatedHasToken, W!Family
<1> QED BY <1>1, <1>2, <1>3, <1>4, <1>5, <1>6, <1>7, <1>8, <1>9 DEF SessionInv

LEMMA AwaitRefreshKeepsSession ==
    ASSUME SessionInv, NEW k \in PageCalls, W!AwaitRefresh(k)
    PROVE  SessionInv'
<1>1. W!TypeOK'
  BY BrowserFacts
  DEF W!AwaitRefresh, SessionInv, W!TypeOK, W!Tokens, W!NoFlight, W!server, W!calls,
      FamilyIsMade, HeirsAreFresh
<1>2. FamilyIsMade'
  BY BrowserFacts
  DEF W!AwaitRefresh, SessionInv, W!TypeOK, W!Tokens, W!NoFlight, W!server, W!calls, FamilyIsMade
<1>3. HeirsAreFresh'
  BY BrowserFacts
  DEF W!AwaitRefresh, SessionInv, W!TypeOK, W!Tokens, W!NoFlight, W!server, W!calls,
      HeirsAreFresh, Lost
<1>4. PresentedIsKnown'
  BY BrowserFacts
  DEF W!AwaitRefresh, SessionInv, W!TypeOK, W!Tokens, W!NoFlight, W!server, W!calls,
      PresentedIsKnown, Lost
<1>5. DeadStaysDead'
  BY BrowserFacts
  DEF W!AwaitRefresh, SessionInv, W!TypeOK, W!Tokens, W!NoFlight, W!server, W!calls,
      DeadStaysDead
<1>6. QuietBeforeOpen'
  BY BrowserFacts
  DEF W!AwaitRefresh, SessionInv, W!TypeOK, W!Tokens, W!NoFlight, W!server, W!calls,
      QuietBeforeOpen
<1>7. RefreshIsAwaited'
  BY BrowserFacts
  DEF W!AwaitRefresh, SessionInv, W!TypeOK, W!Tokens, W!NoFlight, W!server, W!calls,
      RefreshIsAwaited, W!Waiting
<1>8. W!CookieIsGood'
  BY BrowserFacts
  DEF W!AwaitRefresh, SessionInv, W!TypeOK, W!Tokens, W!NoFlight, W!server, W!calls,
      W!CookieIsGood, Lost
<1>9. W!AuthenticatedHasToken'
  BY BrowserFacts
  DEF W!AwaitRefresh, SessionInv, W!TypeOK, W!Tokens, W!NoFlight, W!server, W!calls,
      W!AuthenticatedHasToken
<1> QED BY <1>1, <1>2, <1>3, <1>4, <1>5, <1>6, <1>7, <1>8, <1>9 DEF SessionInv

LEMMA EndCallKeepsSession ==
    ASSUME SessionInv, NEW k \in PageCalls, W!EndCall(k)
    PROVE  SessionInv'
<1>1. W!TypeOK'
  <2>1. (cookie \in 0..made /\ made \in 0..MaxTokens)'
    BY BrowserFacts DEF W!EndCall, SessionInv, W!TypeOK, W!Tokens, W!NoFlight, W!server, W!calls
  <2>2. (family \in [W!Tokens -> 0..MaxTokens])'
    BY BrowserFacts DEF W!EndCall, SessionInv, W!TypeOK, W!Tokens, W!NoFlight, W!server, W!calls
  <2>3. (alive \subseteq 1..made /\ recent \subseteq 1..made /\ revoked \cup browserExpired \subseteq 1..made)'
    BY BrowserFacts DEF W!EndCall, SessionInv, W!TypeOK, W!Tokens, W!NoFlight, W!server, W!calls
  <2>4. (token \in [Tabs -> 0..made])'
    <3>1. token' = token \/ token' = [token EXCEPT ![TabOf[k]] = 0]
      BY DEF W!EndCall
    <3>2. made' = made /\ made \in Nat /\ token \in [Tabs -> 0..made]
      BY BrowserFacts DEF W!EndCall, W!server, SessionInv, W!TypeOK
    <3> QED BY <3>1, <3>2
  <2>5. (browserStatus \in [Tabs -> {"closed", "loading", "authenticated", "unauthenticated"}])'
    BY BrowserFacts DEF W!EndCall, SessionInv, W!TypeOK, W!Tokens, W!NoFlight, W!server, W!calls
  <2>6. (flight \in [Tabs -> [is : {"none", "asked", "ok", "left", "dead", "failed"}, n : 0..made]])'
    BY BrowserFacts DEF W!EndCall, SessionInv, W!TypeOK, W!Tokens, W!NoFlight, W!server, W!calls
  <2>7. (call \in [PageCalls -> {"idle", "sent", "fine", "expired", "refused", "waiting", "again"}])'
    BY BrowserFacts DEF W!EndCall, SessionInv, W!TypeOK, W!Tokens, W!NoFlight, W!server, W!calls
  <2>8. (sent \in [PageCalls -> 0..made] /\ logout \in [PageCalls -> BOOLEAN])'
    BY BrowserFacts DEF W!EndCall, SessionInv, W!TypeOK, W!Tokens, W!NoFlight, W!server, W!calls
  <2>9. (ended \subseteq 1..made /\ broken \subseteq 1..made)'
    BY BrowserFacts
    DEF W!EndCall, SessionInv, W!TypeOK, W!Tokens, W!NoFlight, W!server, W!calls, FamilyIsMade,
        HeirsAreFresh
  <2> QED BY <2>1, <2>2, <2>3, <2>4, <2>5, <2>6, <2>7, <2>8, <2>9 DEF W!TypeOK
<1>2. FamilyIsMade'
  BY BrowserFacts
  DEF W!EndCall, SessionInv, W!TypeOK, W!Tokens, W!NoFlight, W!server, W!calls, FamilyIsMade
<1>3. HeirsAreFresh'
  BY BrowserFacts
  DEF W!EndCall, SessionInv, W!TypeOK, W!Tokens, W!NoFlight, W!server, W!calls, HeirsAreFresh,
      Lost
<1>4. PresentedIsKnown'
  BY BrowserFacts
  DEF W!EndCall, SessionInv, W!TypeOK, W!Tokens, W!NoFlight, W!server, W!calls, PresentedIsKnown,
      Lost
<1>5. DeadStaysDead'
  BY BrowserFacts
  DEF W!EndCall, SessionInv, W!TypeOK, W!Tokens, W!NoFlight, W!server, W!calls, DeadStaysDead
<1>6. QuietBeforeOpen'
  BY BrowserFacts
  DEF W!EndCall, SessionInv, W!TypeOK, W!Tokens, W!NoFlight, W!server, W!calls, QuietBeforeOpen
<1>7. RefreshIsAwaited'
  BY BrowserFacts
  DEF W!EndCall, SessionInv, W!TypeOK, W!Tokens, W!NoFlight, W!server, W!calls, RefreshIsAwaited,
      W!Waiting, QuietBeforeOpen
<1>8. W!CookieIsGood'
  BY BrowserFacts
  DEF W!EndCall, SessionInv, W!TypeOK, W!Tokens, W!NoFlight, W!server, W!calls, W!CookieIsGood,
      Lost
<1>9. W!AuthenticatedHasToken'
  BY BrowserFacts
  DEF W!EndCall, SessionInv, W!TypeOK, W!Tokens, W!NoFlight, W!server, W!calls,
      W!AuthenticatedHasToken
<1> QED BY <1>1, <1>2, <1>3, <1>4, <1>5, <1>6, <1>7, <1>8, <1>9 DEF SessionInv

LEMMA ExpireAccessKeepsSession ==
    ASSUME SessionInv, NEW n \in W!Tokens, W!ExpireAccess(n)
    PROVE  SessionInv'
<1>1. W!TypeOK'
  BY BrowserFacts
  DEF W!ExpireAccess, SessionInv, W!TypeOK, W!Tokens, W!NoFlight, W!server, W!calls,
      FamilyIsMade, HeirsAreFresh
<1>2. FamilyIsMade'
  BY BrowserFacts
  DEF W!ExpireAccess, SessionInv, W!TypeOK, W!Tokens, W!NoFlight, W!server, W!calls, FamilyIsMade
<1>3. HeirsAreFresh'
  BY BrowserFacts
  DEF W!ExpireAccess, SessionInv, W!TypeOK, W!Tokens, W!NoFlight, W!server, W!calls,
      HeirsAreFresh, Lost
<1>4. PresentedIsKnown'
  BY BrowserFacts
  DEF W!ExpireAccess, SessionInv, W!TypeOK, W!Tokens, W!NoFlight, W!server, W!calls,
      PresentedIsKnown, Lost
<1>5. DeadStaysDead'
  BY BrowserFacts
  DEF W!ExpireAccess, SessionInv, W!TypeOK, W!Tokens, W!NoFlight, W!server, W!calls,
      DeadStaysDead
<1>6. QuietBeforeOpen'
  BY BrowserFacts
  DEF W!ExpireAccess, SessionInv, W!TypeOK, W!Tokens, W!NoFlight, W!server, W!calls,
      QuietBeforeOpen
<1>7. RefreshIsAwaited'
  BY BrowserFacts
  DEF W!ExpireAccess, SessionInv, W!TypeOK, W!Tokens, W!NoFlight, W!server, W!calls,
      RefreshIsAwaited, W!Waiting
<1>8. W!CookieIsGood'
  BY BrowserFacts
  DEF W!ExpireAccess, SessionInv, W!TypeOK, W!Tokens, W!NoFlight, W!server, W!calls,
      W!CookieIsGood, Lost
<1>9. W!AuthenticatedHasToken'
  BY BrowserFacts
  DEF W!ExpireAccess, SessionInv, W!TypeOK, W!Tokens, W!NoFlight, W!server, W!calls,
      W!AuthenticatedHasToken
<1> QED BY <1>1, <1>2, <1>3, <1>4, <1>5, <1>6, <1>7, <1>8, <1>9 DEF SessionInv

LEMMA EndGraceKeepsSession ==
    ASSUME SessionInv, NEW n \in W!Tokens, W!EndGrace(n)
    PROVE  SessionInv'
<1>1. W!TypeOK'
  BY BrowserFacts
  DEF W!EndGrace, SessionInv, W!TypeOK, W!Tokens, W!NoFlight, W!server, W!calls, FamilyIsMade,
      HeirsAreFresh
<1>2. FamilyIsMade'
  BY BrowserFacts
  DEF W!EndGrace, SessionInv, W!TypeOK, W!Tokens, W!NoFlight, W!server, W!calls, FamilyIsMade
<1>3. HeirsAreFresh'
  BY BrowserFacts
  DEF W!EndGrace, SessionInv, W!TypeOK, W!Tokens, W!NoFlight, W!server, W!calls, HeirsAreFresh,
      Lost
<1>4. PresentedIsKnown'
  <2>1. /\ recent' = recent \ {n} /\ cookie' = cookie /\ flight' = flight /\ alive' = alive
        /\ family' = family /\ ended' = ended /\ broken \subseteq broken'
    BY DEF W!EndGrace
  <2>2. (\E t \in Tabs : flight[t].is \in {"asked", "ok"} /\ flight[t].n # 0 /\ family[flight[t].n] = family[n])
            => family[n] \in broken'
    BY DEF W!EndGrace
  <2>3. cookie = n /\ n # 0 /\ n \notin alive => Lost(family[n])'
    BY <2>1, <2>2 DEF SessionInv, W!CookieIsGood, HeirsAreFresh, Lost
  <2>4. \A t \in Tabs : flight[t].is = "asked" /\ flight[t].n = n /\ n # 0 => Lost(family[n])'
    BY <2>1, <2>2 DEF Lost
  <2>5. \A f : Lost(f) => f \in ended' \cup broken'
    BY <2>1 DEF Lost
  <2> QED BY <2>1, <2>3, <2>4, <2>5 DEF SessionInv, PresentedIsKnown, Lost
<1>5. DeadStaysDead'
  BY BrowserFacts
  DEF W!EndGrace, SessionInv, W!TypeOK, W!Tokens, W!NoFlight, W!server, W!calls, DeadStaysDead
<1>6. QuietBeforeOpen'
  BY BrowserFacts
  DEF W!EndGrace, SessionInv, W!TypeOK, W!Tokens, W!NoFlight, W!server, W!calls, QuietBeforeOpen
<1>7. RefreshIsAwaited'
  BY BrowserFacts
  DEF W!EndGrace, SessionInv, W!TypeOK, W!Tokens, W!NoFlight, W!server, W!calls,
      RefreshIsAwaited, W!Waiting
<1>8. W!CookieIsGood'
  BY BrowserFacts
  DEF W!EndGrace, SessionInv, W!TypeOK, W!Tokens, W!NoFlight, W!server, W!calls, W!CookieIsGood,
      Lost
<1>9. W!AuthenticatedHasToken'
  BY BrowserFacts
  DEF W!EndGrace, SessionInv, W!TypeOK, W!Tokens, W!NoFlight, W!server, W!calls,
      W!AuthenticatedHasToken
<1> QED BY <1>1, <1>2, <1>3, <1>4, <1>5, <1>6, <1>7, <1>8, <1>9 DEF SessionInv

LEMMA NextKeepsSession ==
    ASSUME SessionInv, [W!Next]_wvars
    PROVE  SessionInv'
<1>1. CASE UNCHANGED wvars
  BY <1>1
  DEF wvars, SessionInv, W!TypeOK, FamilyIsMade, HeirsAreFresh, PresentedIsKnown, DeadStaysDead,
      QuietBeforeOpen, RefreshIsAwaited, W!Waiting, W!CookieIsGood, W!AuthenticatedHasToken, Lost
<1>2. ASSUME NEW t \in Tabs, W!Rotate(t) \/ W!TurnAway(t) \/ W!FailRotation(t) PROVE SessionInv'
  BY <1>2, AnswersToRefresh, RotationWorksKeepsSession, RotationEndsSessionKeepsSession,
     RotationIsRefusedKeepsSession, TokenIsLostKeepsSession
<1>3. ASSUME NEW t \in Tabs, W!OpenTab(t) \/ W!ReceiveToken(t) \/ W!ReceiveRefusal(t) \/ W!LoseRefresh(t) \/ W!Login(t)
      PROVE SessionInv'
  BY <1>3, OpenTabKeepsSession, ReceiveTokenKeepsSession, ReceiveRefusalKeepsSession,
     LoseRefreshKeepsSession, LoginKeepsSession
<1>4. ASSUME NEW k \in PageCalls, NEW leaving \in BOOLEAN,
             W!Call(k, leaving) \/ W!Serve(k) \/ W!AwaitRefresh(k) \/ W!EndCall(k)
      PROVE SessionInv'
  BY <1>4, CallKeepsSession, ServeKeepsSession, AwaitRefreshKeepsSession, EndCallKeepsSession
<1>5. ASSUME NEW n \in W!Tokens, W!ExpireAccess(n) \/ W!EndGrace(n)
      PROVE SessionInv'
  BY <1>5, ExpireAccessKeepsSession, EndGraceKeepsSession
<1> QED BY <1>1, <1>2, <1>3, <1>4, <1>5 DEF W!Next

\* The cookie leaves the jar with the end of a logout, the refusal of another, or a failure.
LEMMA NextKeepsCookie ==
    ASSUME SessionInv, [W!Next]_wvars, cookie' = 0, cookie \in alive
    PROVE  \/ \E k \in PageCalls : logout[k] /\ call[k] = "fine" /\ call'[k] = "idle"
           \/ \E t \in Tabs : /\ flight'[t] = W!NoFlight
                              /\ \/ flight[t].is = "dead" /\ flight[t].n # cookie
                                 \/ flight[t].is = "failed"
<1>1. cookie' # cookie
  BY DEF SessionInv, W!TypeOK
<1>2. ASSUME NEW t \in Tabs, W!ReceiveRefusal(t)
      PROVE  /\ flight'[t] = W!NoFlight
             /\ \/ flight[t].is = "dead" /\ flight[t].n # cookie
                \/ flight[t].is = "failed"
  BY <1>1, <1>2 DEF W!ReceiveRefusal, W!Refusals, SessionInv, W!TypeOK, DeadStaysDead
<1>3. ASSUME NEW t \in Tabs, W!ReceiveToken(t)
      PROVE  FALSE
  BY <1>3 DEF W!ReceiveToken, SessionInv, HeirsAreFresh
<1>4. ASSUME NEW t \in Tabs, W!Login(t)
      PROVE  FALSE
  BY <1>4 DEF W!Login, SessionInv, W!TypeOK
<1>5. ASSUME NEW k \in PageCalls, W!EndCall(k)
      PROVE  logout[k] /\ call[k] = "fine" /\ call'[k] = "idle"
  BY <1>1, <1>5 DEF W!EndCall, SessionInv, W!TypeOK
<1>6. ASSUME NEW t \in Tabs,
             W!OpenTab(t) \/ W!Rotate(t) \/ W!TurnAway(t) \/ W!FailRotation(t) \/ W!LoseRefresh(t)
      PROVE  FALSE
  BY <1>1, <1>6 DEF W!OpenTab, W!Rotate, W!TurnAway, W!FailRotation, W!LoseRefresh
<1>7. ASSUME NEW k \in PageCalls, NEW leaving \in BOOLEAN, W!Call(k, leaving) \/ W!Serve(k) \/ W!AwaitRefresh(k)
      PROVE  FALSE
  BY <1>1, <1>7 DEF W!Call, W!Serve, W!AwaitRefresh
<1>8. ASSUME NEW n \in W!Tokens, W!ExpireAccess(n) \/ W!EndGrace(n)
      PROVE  FALSE
  BY <1>1, <1>8 DEF W!ExpireAccess, W!EndGrace
<1>9. ~UNCHANGED wvars
  BY <1>1 DEF wvars
<1> QED BY <1>2, <1>3, <1>4, <1>5, <1>6, <1>7, <1>8, <1>9 DEF W!Next

\* authController.js:75, apiClient.js:123: the cookie the tabs share is good for the next
\* refresh, unless a rotation failed on the server or its answer was lost; no tab loses it for
\* the others, but for such a failure; and no tab shows a session it has no token for.
THEOREM SessionStaysUsable == ClubSpec => SessionIsUsable
<1>1. ClubInit => SessionInv
  BY InitSession DEF ClubInit
<1>2. [ClubNext]_clubVars => [W!Next]_wvars
  BY DEF ClubNext, clubVars, wvars
<1>3. SessionInv /\ [ClubNext]_clubVars => SessionInv'
  BY <1>2, NextKeepsSession
<1>4. SessionInv /\ [ClubNext]_clubVars =>
          [cookie' = 0 /\ cookie \in alive =>
              \/ \E k \in PageCalls : logout[k] /\ call[k] = "fine" /\ call'[k] = "idle"
              \/ \E t \in Tabs : /\ flight'[t] = W!NoFlight
                                 /\ \/ flight[t].is = "dead" /\ flight[t].n # cookie
                                    \/ flight[t].is = "failed"]_wvars
  BY <1>2, NextKeepsCookie
<1>5. SessionInv => W!CookieIsGood /\ W!AuthenticatedHasToken
  BY DEF SessionInv
<1> QED BY <1>1, <1>3, <1>4, <1>5, PTL
        DEF ClubSpec, SessionIsUsable, W!SessionIsUsable, W!CookieIsKept, W!vars, wvars

-----------------------------------------------------------------------------
(* The invoices of the month.  A number that is drawn is at most one more  *)
(* than those of the year, and the index refuses it when it is taken; two  *)
(* requests that make an invoice of one family leave a trace.              *)

LEMMA SameCount == ASSUME NEW X PROVE B!Cardinality(X) = Cardinality(X)
BY DEF B!Cardinality, Cardinality

OfYear(y) == {i \in invoices : i.year = y}

Making(q) == billPc[q] \in {"count", "insert"}

\* What a request holds is of its statement; no month ends while an invoice is made.
Drafted(q) ==
    /\ billPc[q] = "count" => draft[q] \in [family : Families]
    /\ billPc[q] = "insert" =>
          /\ draft[q] \in B!Invoices /\ draft[q].month = month
          /\ draft[q].number <= Cardinality(OfYear(draft[q].year)) + 1
    /\ billPc[q] = "delete" => draft[q] \in [plan : Plans]

Drafts == \A q \in Requests : Drafted(q)

\* Requests that make an invoice of one family leave a trace.
MakersMeet ==
    \A q, o \in Requests :
        q # o /\ Making(q) /\ Making(o) /\ draft[q].family = draft[o].family =>
            draft[q].family \in overlap

\* A subscription in the making is the first of its month.
NotBilledYet ==
    \A q \in Requests :
        /\ Making(q) /\ (billPc[q] = "insert" => draft[q].kind = "subscription")
        /\ draft[q].family \notin overlap
        => \A i \in invoices : i.family = draft[q].family => i.month # month

\* B!NumbersFollow.
Numbered == \A y \in 0..B!Year(MaxMonth) : {i.number : i \in OfYear(y)} = 1..Cardinality(OfYear(y))

BillInv ==
    /\ B!TypeOK /\ IsFiniteSet(invoices)
    /\ Drafts /\ MakersMeet /\ NotBilledYet
    /\ Numbered /\ B!BilledOncePerMonth /\ B!PlanExists

-----------------------------------------------------------------------------
(* Prices *)

\* Some rule of several has the highest percentage.
LEMMA LargestDiscount ==
    ASSUME NEW S \in SUBSET Rules, S # {}
    PROVE  \E r \in S : \A o \in S : o.percentage <= r.percentage
<1> DEFINE rest == {100 - r.percentage : r \in S}
<1>1. \A r \in S : r.percentage \in 0..100
  BY ClubAssumption DEF ClubAssumption, B!BillingAssumption
<1>2. rest \in SUBSET Nat /\ rest # {}
  BY <1>1
<1>3. PICK x \in rest : \A y \in rest : x <= y
  <2> HIDE DEF rest
  <2> QED BY <1>2, LeastExists
<1>4. PICK r \in S : x = 100 - r.percentage
  OBVIOUS
<1>5. ASSUME NEW o \in S
      PROVE  o.percentage <= r.percentage
  <2>1. 100 - o.percentage \in rest
    OBVIOUS
  <2>2. 100 - r.percentage <= 100 - o.percentage
    BY <1>3, <1>4, <2>1
  <2>3. o.percentage \in 0..100 /\ r.percentage \in 0..100
    BY <1>1
  <2>4. \A a, b \in 0..100 : 100 - a <= 100 - b => b <= a
    OBVIOUS
  <2> QED BY <2>2, <2>3, <2>4, Zenon
<1> QED BY <1>5

\* A discount is a part of the price, and grows with its percentage.
LEMMA DiscountGrows ==
    ASSUME NEW cents \in Nat, NEW r \in Rules
    PROVE  /\ B!Discount(cents, r) \in 0..cents
           /\ \A o \in Rules : o.percentage <= r.percentage =>
                 B!Discount(cents, o) <= B!Discount(cents, r)
<1>1. \A o \in Rules : o.percentage \in 0..100
  BY ClubAssumption DEF ClubAssumption, B!BillingAssumption
<1>2. ASSUME NEW p \in 0..100
      PROVE  (2 * cents * p + 100) \div 200 \in 0..cents
  <2>1. 0 <= cents * p /\ cents * p <= cents * 100 /\ 2 * cents * p = 2 * (cents * p) /\ cents * p \in Int
    OBVIOUS
  <2> QED BY <2>1
<1>3. ASSUME NEW p \in 0..100, NEW o \in 0..100, o <= p
      PROVE  (2 * cents * o + 100) \div 200 <= (2 * cents * p + 100) \div 200
  <2>1. cents * o <= cents * p /\ 2 * cents * o = 2 * (cents * o) /\ 2 * cents * p = 2 * (cents * p)
        /\ cents * p \in Int /\ cents * o \in Int
    BY <1>3
  <2> QED BY <2>1
<1> QED BY <1>1, <1>2, <1>3 DEF B!Discount

\* billingService.js: the family pays the price minus the best of its discounts.
LEMMA BestDiscount ==
    ASSUME NEW cents \in Nat, NEW riders, NEW rules \in SUBSET Rules
    PROVE  /\ B!Price(cents, riders, rules) \in 0..cents
           /\ \A r \in rules : r.minRiders <= riders =>
                 B!Price(cents, riders, rules) <= cents - B!Discount(cents, r)
<1> DEFINE fitting == {r \in rules : r.minRiders <= riders}
<1> DEFINE best == CHOOSE r \in fitting : \A o \in fitting : o.percentage <= r.percentage
<1>1. CASE fitting = {}
  BY <1>1 DEF B!Price
<1>2. CASE fitting # {}
  <2>1. best \in fitting /\ \A o \in fitting : o.percentage <= best.percentage
    <3>1. \E r \in fitting : \A o \in fitting : o.percentage <= r.percentage
      BY <1>2, LargestDiscount
    <3> QED BY <3>1
  <2>2. B!Price(cents, riders, rules) = cents - B!Discount(cents, best)
    BY <1>2 DEF B!Price
  <2>3. B!Discount(cents, best) \in 0..cents
        /\ \A o \in fitting : B!Discount(cents, o) \in 0..cents /\ B!Discount(cents, o) <= B!Discount(cents, best)
    <3> HIDE DEF best
    <3> QED BY <2>1, DiscountGrows
  <2> HIDE DEF best
  <2>4. \A r \in rules : r.minRiders <= riders => r \in fitting
    OBVIOUS
  <2> HIDE DEF fitting
  <2> QED BY <2>2, <2>3, <2>4
<1> QED BY <1>1, <1>2

-----------------------------------------------------------------------------
(* Numbers *)

\* The highest number of a year is the number of its invoices.
LEMMA NextNumberIs ==
    ASSUME BillInv, NEW y \in 0..B!Year(MaxMonth)
    PROVE  B!NextNumber(y) = Cardinality(OfYear(y)) + 1
<1> DEFINE n == Cardinality(OfYear(y))
<1>1. n \in Nat
  <2>1. IsFiniteSet(OfYear(y))
    BY FS_Subset DEF BillInv, OfYear
  <2> QED BY <2>1, FS_CardinalityType
<1>2. {i.number : i \in OfYear(y)} \cup {0} = 0..n
  <2> HIDE DEF n
  <2>1. {i.number : i \in OfYear(y)} = 1..n
    BY DEF BillInv, Numbered, n
  <2> QED BY <1>1, <2>1
<1> HIDE DEF n
<1>3. B!Max(0..n) = n
  <2>1. n \in 0..n /\ \A m \in 0..n : n >= m
    BY <1>1
  <2>2. \A x \in 0..n : (\A m \in 0..n : x >= m) => x = n
    BY <1>1
  <2> QED BY <2>1, <2>2 DEF B!Max
<1> QED BY <1>2, <1>3 DEF B!NextNumber, OfYear, n

LEMMA YearsGoOn ==
    ASSUME NEW m \in 0..MaxMonth
    PROVE  B!Year(m) \in 0..B!Year(MaxMonth)
<1>1. YearLength \in Nat \ {0} /\ MaxMonth \in Nat /\ m \in Nat /\ m <= MaxMonth
  BY ClubAssumption DEF ClubAssumption, B!BillingAssumption
<1> DEFINE a == m \div YearLength
           b == MaxMonth \div YearLength
<1>2. a \in Nat /\ b \in Nat /\ YearLength * a <= m /\ MaxMonth < YearLength * (b + 1)
  BY <1>1
<1> HIDE DEF a, b
<1>3. YearLength * a < YearLength * (b + 1)
  BY <1>1, <1>2
<1>4. a < b + 1
  BY <1>1, <1>2, <1>3
<1> QED BY <1>2, <1>4 DEF B!Year, a, b

-----------------------------------------------------------------------------
(* The steps *)

\* What a transaction draws: the number after those of the year.
LEMMA DraftIsDrawn ==
    ASSUME BillInv, NEW q \in Requests, NEW f \in Families, NEW kinds \in {"subscription", "other"},
           NEW total \in Nat, B!Draw(q, f, kinds, total)
    PROVE  \E d \in B!Invoices :
              /\ draft' = [draft EXCEPT ![q] = d] /\ billPc' = [billPc EXCEPT ![q] = "insert"]
              /\ d.family = f /\ d.month = month /\ d.kind = kinds
              /\ d.number = Cardinality(OfYear(d.year)) + 1
<1> DEFINE y == B!Year(month)
           n == B!NextNumber(y)
           d == [family |-> f, year |-> y, number |-> n, month |-> month, kind |-> kinds,
                 total |-> total]
<1>1. y \in 0..B!Year(MaxMonth)
  BY YearsGoOn DEF BillInv, B!TypeOK
<1>2. n = Cardinality(OfYear(y)) + 1 /\ Cardinality(OfYear(y)) \in Nat
  <2>1. IsFiniteSet(OfYear(y))
    BY FS_Subset DEF BillInv, OfYear
  <2> HIDE DEF y
  <2> QED BY <1>1, <2>1, FS_CardinalityType, NextNumberIs
<1>3. n \in 1..MaxNumber
  BY <1>2, ClubAssumption DEF B!Draw, ClubAssumption, B!BillingAssumption
<1>4. month \in 0..MaxMonth
  BY DEF BillInv, B!TypeOK
<1>5. draft' = [draft EXCEPT ![q] = d] /\ billPc' = [billPc EXCEPT ![q] = "insert"]
  BY DEF B!Draw, B!Goto
<1> HIDE DEF y, n
<1>6. d \in B!Invoices
  BY <1>1, <1>3, <1>4 DEF B!Invoices
<1> QED BY <1>2, <1>5, <1>6

\* What a request holds stays what it is while no invoice comes.
LEMMA DraftStays ==
    ASSUME NEW o \in Requests, Drafted(o), UNCHANGED <<month, invoices>>,
           billPc'[o] = billPc[o], draft'[o] = draft[o]
    PROVE  Drafted(o)'
<1>1. OfYear(draft[o].year)' = OfYear(draft[o].year)
  BY DEF OfYear
<1> QED BY <1>1 DEF Drafted, B!Invoices, B!Year

\* A request that goes on leaves what the others hold.
LEMMA OthersDrafts ==
    ASSUME BillInv, NEW q \in Requests, Drafted(q)', UNCHANGED <<month, invoices>>,
           \A o \in Requests \ {q} : billPc'[o] = billPc[o] /\ draft'[o] = draft[o]
    PROVE  Drafts'
<1>1. \A o \in Requests \ {q} : Drafted(o)'
  BY DraftStays DEF BillInv, Drafts
<1> QED BY <1>1 DEF Drafts

\* A draft that was drawn has the next number.
LEMMA DrawnIsDrafted ==
    ASSUME BillInv, NEW q \in Requests, NEW d \in B!Invoices, UNCHANGED <<month, invoices>>,
           draft' = [draft EXCEPT ![q] = d], billPc' = [billPc EXCEPT ![q] = "insert"],
           d.month = month, d.number = Cardinality(OfYear(d.year)) + 1
    PROVE  Drafted(q)'
<1>1. draft'[q] = d /\ billPc'[q] = "insert"
  BY DEF BillInv, B!TypeOK
<1>2. OfYear(draft[q].year)' = OfYear(d.year)
  BY <1>1 DEF OfYear
<1>3. d.number \in Int
  BY DEF B!Invoices
<1> QED BY <1>1, <1>2, <1>3 DEF Drafted, B!Invoices, B!Year

\* An invoice that is inserted has the next number of its year.
LEMMA InsertedIsNext ==
    ASSUME BillInv, NEW d \in B!Invoices, d.number <= Cardinality(OfYear(d.year)) + 1,
           ~\E i \in invoices : i.year = d.year /\ i.number = d.number,
           invoices' = invoices \cup {d}
    PROVE  /\ IsFiniteSet(invoices') /\ Numbered'
           /\ \A y \in 0..B!Year(MaxMonth) :
                 /\ Cardinality(OfYear(y)) \in Nat /\ Cardinality(OfYear(y))' \in Nat
                 /\ Cardinality(OfYear(y)) <= Cardinality(OfYear(y))'
<1>1. IsFiniteSet(invoices')
  BY FS_AddElement DEF BillInv
<1>2. ASSUME NEW y \in 0..B!Year(MaxMonth)
      PROVE  /\ Cardinality(OfYear(y)) \in Nat /\ Cardinality(OfYear(y))' \in Nat
             /\ Cardinality(OfYear(y)) <= Cardinality(OfYear(y))'
             /\ {i.number : i \in OfYear(y)'} = 1..Cardinality(OfYear(y))'
  <2> DEFINE n == Cardinality(OfYear(y))
  <2>1. IsFiniteSet(OfYear(y)) /\ n \in Nat
    <3>1. IsFiniteSet(OfYear(y))
      BY FS_Subset DEF BillInv, OfYear
    <3> QED BY <3>1, FS_CardinalityType
  <2>2. {i.number : i \in OfYear(y)} = 1..n
    BY DEF BillInv, Numbered
  <2>3. CASE d.year # y
    <3>1. OfYear(y)' = OfYear(y)
      BY <2>3 DEF OfYear
    <3> QED BY <2>1, <2>2, <3>1
  <2>4. CASE d.year = y
    <3>1. OfYear(y)' = OfYear(y) \cup {d} /\ d \notin OfYear(y)
      BY <2>4 DEF OfYear
    <3>2. Cardinality(OfYear(y))' = n + 1
      <4>1. Cardinality(OfYear(y) \cup {d}) = n + 1
        BY <2>1, <3>1, FS_AddElement
      <4> QED BY <3>1, <4>1
    <3>3. {i.number : i \in OfYear(y)'} = 1..n \cup {d.number}
      BY <2>2, <3>1
    <3>4. d.number \in 1..(n + 1) /\ d.number \notin 1..n
      <4>1. d.number \in Nat \ {0}
        BY DEF B!Invoices
      <4>2. d.number <= n + 1
        BY <2>4
      <4>3. d.number \notin {i.number : i \in OfYear(y)}
        BY <2>4 DEF OfYear
      <4> QED BY <2>1, <2>2, <4>1, <4>2, <4>3
    <3> HIDE DEF n
    <3>5. 1..n \cup {d.number} = 1..(n + 1)
      BY <2>1, <3>4
    <3> QED BY <2>1, <3>2, <3>3, <3>5 DEF n
  <2> QED BY <2>3, <2>4
<1>3. Numbered'
  BY <1>2 DEF Numbered, B!Year
<1> QED BY <1>1, <1>2, <1>3

LEMMA AskKeepsBillInv ==
    ASSUME BillInv, NEW q \in Requests, NEW f \in Families, B!CreateInvoice(q, f)
    PROVE  BillInv'
<1>0. PICK d \in B!Invoices :
         /\ draft' = [draft EXCEPT ![q] = d] /\ billPc' = [billPc EXCEPT ![q] = "insert"]
         /\ d.month = month /\ d.number = Cardinality(OfYear(d.year)) + 1
  <2>1. PICK total \in Prices : B!Draw(q, f, "other", total)
    BY DEF B!CreateInvoice
  <2>2. total \in Nat
    BY ClubAssumption DEF ClubAssumption, B!BillingAssumption
  <2> QED BY <2>1, <2>2, DraftIsDrawn
<1>1. B!TypeOK'
  BY <1>0 DEF B!CreateInvoice, B!Meanwhile, BillInv, B!TypeOK
<1>2. IsFiniteSet(invoices)'
  BY DEF B!CreateInvoice, B!Draw, B!Goto, B!Meanwhile, BillInv
<1>3. Drafts'
  <2>1. Drafted(q)'
    BY <1>0, DrawnIsDrafted DEF B!CreateInvoice
  <2> QED BY <1>0, <2>1, OthersDrafts DEF B!CreateInvoice, BillInv, B!TypeOK
<1>4. MakersMeet'
  BY
  DEF B!CreateInvoice, B!Draw, B!Goto, B!Meanwhile, BillInv, B!TypeOK, Drafts, Drafted,
      MakersMeet, Making
<1>5. NotBilledYet'
  BY
  DEF B!CreateInvoice, B!Draw, B!Goto, B!Meanwhile, BillInv, B!TypeOK, Drafts, Drafted,
      MakersMeet, NotBilledYet, Making
<1>6. Numbered'
  BY DEF B!CreateInvoice, B!Draw, B!Goto, B!Meanwhile, BillInv, B!TypeOK, Numbered, OfYear
<1>7. B!BilledOncePerMonth'
  BY
  DEF B!CreateInvoice, B!Draw, B!Goto, B!Meanwhile, BillInv, B!TypeOK, B!BilledOncePerMonth,
      NotBilledYet, Making
<1>8. B!PlanExists'
  BY ClubAssumption
  DEF B!CreateInvoice, B!Draw, B!Goto, B!Meanwhile, BillInv, B!TypeOK, B!PlanExists,
      ClubAssumption, B!BillingAssumption
<1> QED BY <1>1, <1>2, <1>3, <1>4, <1>5, <1>6, <1>7, <1>8 DEF BillInv

LEMMA CountKeepsBillInv ==
    ASSUME BillInv, NEW q \in Requests, NEW f \in Families, B!CountInvoices(q, f)
    PROVE  BillInv'
<1>1. B!TypeOK'
  BY ClubAssumption
  DEF B!CountInvoices, B!Goto, B!Meanwhile, BillInv, B!TypeOK, ClubAssumption,
      B!BillingAssumption
<1>2. IsFiniteSet(invoices)'
  BY DEF B!CountInvoices, B!Goto, B!Meanwhile, BillInv
<1>3. Drafts'
  <2>1. Drafted(q)'
    BY DEF B!CountInvoices, B!Goto, Drafted, BillInv, B!TypeOK
  <2> QED BY <2>1, OthersDrafts DEF B!CountInvoices, B!Goto, BillInv, B!TypeOK
<1>4. MakersMeet'
  BY
  DEF B!CountInvoices, B!Goto, B!Meanwhile, BillInv, B!TypeOK, Drafts, Drafted, MakersMeet,
      Making
<1>5. NotBilledYet'
  BY
  DEF B!CountInvoices, B!Goto, B!Meanwhile, BillInv, B!TypeOK, Drafts, Drafted, MakersMeet,
      NotBilledYet, Making
<1>6. Numbered'
  BY DEF B!CountInvoices, B!Goto, B!Meanwhile, BillInv, B!TypeOK, Numbered, OfYear
<1>7. B!BilledOncePerMonth'
  BY
  DEF B!CountInvoices, B!Goto, B!Meanwhile, BillInv, B!TypeOK, B!BilledOncePerMonth,
      NotBilledYet, Making
<1>8. B!PlanExists'
  BY ClubAssumption
  DEF B!CountInvoices, B!Goto, B!Meanwhile, BillInv, B!TypeOK, B!PlanExists, ClubAssumption,
      B!BillingAssumption
<1> QED BY <1>1, <1>2, <1>3, <1>4, <1>5, <1>6, <1>7, <1>8 DEF BillInv

LEMMA InsertKeepsBillInv ==
    ASSUME BillInv, NEW q \in Requests, B!InsertInvoice(q)
    PROVE  BillInv'
<1> DEFINE d == draft[q]
<1>0. /\ d \in B!Invoices /\ d.month = month
      /\ d.number <= Cardinality(OfYear(d.year)) + 1
  BY DEF B!InsertInvoice, BillInv, Drafts, Drafted
<1>a. \/ UNCHANGED invoices
      \/ /\ ~\E i \in invoices : i.year = d.year /\ i.number = d.number
         /\ invoices' = invoices \cup {d}
  BY DEF B!InsertInvoice
<1>1. B!TypeOK'
  <2>1. invoices' \subseteq B!Invoices
    BY <1>0, <1>a DEF BillInv, B!TypeOK
  <2>2. todo' \in [Requests -> SUBSET Families]
    BY DEF B!InsertInvoice, BillInv, B!TypeOK
  <2> QED BY <2>1, <2>2 DEF B!InsertInvoice, B!Goto, BillInv, B!TypeOK
<1>2. IsFiniteSet(invoices)'
  BY <1>0, <1>a, InsertedIsNext DEF BillInv
<1>3. Drafts'
  <2>1. \A y \in 0..B!Year(MaxMonth) :
           /\ Cardinality(OfYear(y)) \in Nat /\ Cardinality(OfYear(y))' \in Nat
           /\ Cardinality(OfYear(y)) <= Cardinality(OfYear(y))'
    <3>1. CASE UNCHANGED invoices
      <4>1. ASSUME NEW y
            PROVE  Cardinality(OfYear(y)) \in Nat /\ OfYear(y)' = OfYear(y)
        <5>1. IsFiniteSet(OfYear(y))
          BY FS_Subset DEF BillInv, OfYear
        <5> QED BY <3>1, <5>1, FS_CardinalityType DEF OfYear
      <4> QED BY <4>1
    <3> QED BY <1>0, <1>a, <3>1, InsertedIsNext
  <2> SUFFICES ASSUME NEW o \in Requests
               PROVE  Drafted(o)'
    BY DEF Drafts
  <2>2. CASE o = q
    BY <2>2 DEF B!InsertInvoice, B!Goto, Drafted, BillInv, B!TypeOK
  <2>3. CASE o # q /\ billPc[o] = "insert"
    <3>1. draft'[o] = draft[o] /\ billPc'[o] = billPc[o] /\ month' = month
      BY <2>3 DEF B!InsertInvoice, B!Goto, BillInv, B!TypeOK
    <3>2. /\ draft[o] \in B!Invoices /\ draft[o].month = month
          /\ draft[o].number <= Cardinality(OfYear(draft[o].year)) + 1
      BY <2>3 DEF BillInv, Drafts, Drafted
    <3>3. draft[o].number \in Int /\ draft[o].year \in 0..B!Year(MaxMonth)
      BY <3>2 DEF B!Invoices
    <3>4. draft[o].number <= Cardinality(OfYear(draft[o].year))' + 1
      <4> DEFINE y == draft[o].year
      <4>1. /\ Cardinality(OfYear(y)) \in Nat /\ Cardinality(OfYear(y)') \in Nat
            /\ Cardinality(OfYear(y)) <= Cardinality(OfYear(y)')
            /\ draft[o].number <= Cardinality(OfYear(y)) + 1
            /\ draft'[o].year = y
        BY <2>1, <3>1, <3>2, <3>3 DEF OfYear
      <4>2. OfYear(draft[o].year)' = OfYear(y)'
        BY <3>1 DEF OfYear
      <4> QED BY <3>3, <4>1, <4>2
    <3> QED BY <2>3, <3>1, <3>2, <3>4 DEF Drafted, B!Invoices, B!Year
  <2>4. CASE o # q /\ billPc[o] # "insert"
    BY <2>4 DEF B!InsertInvoice, B!Goto, BillInv, B!TypeOK, Drafts, Drafted
  <2> QED BY <2>2, <2>3, <2>4
<1>4. MakersMeet'
  BY DEF B!InsertInvoice, B!Goto, BillInv, B!TypeOK, Drafts, Drafted, MakersMeet, Making
<1>5. NotBilledYet'
  BY
  DEF B!InsertInvoice, B!Goto, BillInv, B!TypeOK, Drafts, Drafted, MakersMeet, NotBilledYet,
      Making
<1>6. Numbered'
  BY <1>0, <1>a, InsertedIsNext DEF BillInv, Numbered, OfYear
<1>7. B!BilledOncePerMonth'
  <2>1. CASE UNCHANGED invoices
    BY <2>1 DEF B!InsertInvoice, BillInv, B!BilledOncePerMonth
  <2>2. CASE invoices' = invoices \cup {d}
    <3>1. d.kind = "subscription" /\ d.family \notin overlap =>
             \A i \in invoices : i.family = d.family => i.month # d.month
      BY <1>0 DEF B!InsertInvoice, BillInv, NotBilledYet, Making
    <3> QED BY <2>2, <3>1 DEF B!InsertInvoice, BillInv, B!BilledOncePerMonth
  <2> QED BY <1>a, <2>1, <2>2
<1>8. B!PlanExists'
  BY ClubAssumption
  DEF B!InsertInvoice, B!Goto, BillInv, B!TypeOK, B!PlanExists, ClubAssumption,
      B!BillingAssumption
<1> QED BY <1>1, <1>2, <1>3, <1>4, <1>5, <1>6, <1>7, <1>8 DEF BillInv

LEMMA StartKeepsBillInv ==
    ASSUME BillInv, NEW q \in Requests, B!StartBatch(q)
    PROVE  BillInv'
<1>1. B!TypeOK'
  BY ClubAssumption DEF B!StartBatch, B!Goto, BillInv, B!TypeOK, ClubAssumption, B!BillingAssumption
<1>2. IsFiniteSet(invoices)'
  BY DEF B!StartBatch, B!Goto, BillInv
<1>3. Drafts'
  BY DEF B!StartBatch, B!Goto, BillInv, B!TypeOK, Drafts, Drafted, OfYear
<1>4. MakersMeet'
  BY DEF B!StartBatch, B!Goto, BillInv, B!TypeOK, Drafts, Drafted, MakersMeet, Making
<1>5. NotBilledYet'
  BY DEF B!StartBatch, B!Goto, BillInv, B!TypeOK, Drafts, Drafted, MakersMeet, NotBilledYet, Making
<1>6. Numbered'
  BY DEF B!StartBatch, B!Goto, BillInv, B!TypeOK, Numbered, OfYear
<1>7. B!BilledOncePerMonth'
  BY DEF B!StartBatch, B!Goto, BillInv, B!TypeOK, B!BilledOncePerMonth, NotBilledYet, Making
<1>8. B!PlanExists'
  BY ClubAssumption
  DEF B!StartBatch, B!Goto, BillInv, B!TypeOK, B!PlanExists, ClubAssumption, B!BillingAssumption
<1> QED BY <1>1, <1>2, <1>3, <1>4, <1>5, <1>6, <1>7, <1>8 DEF BillInv

LEMMA BillKeepsBillInv ==
    ASSUME BillInv, NEW q \in Requests, B!BillFamily(q)
    PROVE  BillInv'
<1> DEFINE f == draft[q].family
<1>0. \/ /\ draft' = [draft EXCEPT ![q] = B!NoDraft] /\ billPc' = [billPc EXCEPT ![q] = "idle"]
         /\ todo' = [todo EXCEPT ![q] = {}]
      \/ /\ UNCHANGED todo
         /\ \E d \in B!Invoices :
              /\ draft' = [draft EXCEPT ![q] = d] /\ billPc' = [billPc EXCEPT ![q] = "insert"]
              /\ d.family = f /\ d.month = month
              /\ d.number = Cardinality(OfYear(d.year)) + 1
  <2>1. f \in Families
    BY DEF B!BillFamily, BillInv, Drafts, Drafted
  <2>2. CASE plan[f] = NoPlan
    BY <2>2 DEF B!BillFamily, B!Goto
  <2>3. CASE plan[f] # NoPlan
    <3>1. price[plan[f]] \in Nat
      BY <2>1, <2>3, ClubAssumption
      DEF BillInv, B!TypeOK, B!PlanExists, ClubAssumption, B!BillingAssumption
    <3>2. B!Price(price[plan[f]], RidersOf[f], active) \in Nat
      BY <3>1, BestDiscount DEF BillInv, B!TypeOK
    <3>3. /\ B!Draw(q, f, "subscription", B!Price(price[plan[f]], RidersOf[f], active))
          /\ UNCHANGED todo
      BY <2>3 DEF B!BillFamily
    <3> HIDE DEF f
    <3> QED BY <2>1, <3>2, <3>3, DraftIsDrawn
  <2> QED BY <2>2, <2>3
<1>1. B!TypeOK'
  BY <1>0 DEF B!BillFamily, BillInv, B!TypeOK
<1>2. IsFiniteSet(invoices)'
  BY DEF B!BillFamily, B!Draw, B!Goto, BillInv
<1>3. Drafts'
  <2>1. Drafted(q)'
    <3>1. UNCHANGED <<invoices, month>>
      BY DEF B!BillFamily
    <3>2. CASE billPc' = [billPc EXCEPT ![q] = "idle"]
      BY <3>2 DEF Drafted, BillInv, B!TypeOK
    <3> QED BY <1>0, <3>1, <3>2, DrawnIsDrafted
  <2> QED BY <1>0, <2>1, OthersDrafts DEF B!BillFamily, BillInv, B!TypeOK
<1>4. MakersMeet'
  BY DEF B!BillFamily, B!Draw, B!Goto, BillInv, B!TypeOK, Drafts, Drafted, MakersMeet, Making
<1>5. NotBilledYet'
  BY
  DEF B!BillFamily, B!Draw, B!Goto, BillInv, B!TypeOK, Drafts, Drafted, MakersMeet, NotBilledYet,
      Making
<1>6. Numbered'
  BY DEF B!BillFamily, B!Draw, B!Goto, BillInv, B!TypeOK, Numbered, OfYear
<1>7. B!BilledOncePerMonth'
  BY DEF B!BillFamily, B!Draw, B!Goto, BillInv, B!TypeOK, B!BilledOncePerMonth, NotBilledYet, Making
<1>8. B!PlanExists'
  BY ClubAssumption
  DEF B!BillFamily, B!Draw, B!Goto, BillInv, B!TypeOK, B!PlanExists, ClubAssumption,
      B!BillingAssumption
<1> QED BY <1>1, <1>2, <1>3, <1>4, <1>5, <1>6, <1>7, <1>8 DEF BillInv

LEMMA DeletePlanKeepsBillInv ==
    ASSUME BillInv, NEW q \in Requests, (\E p \in Plans : B!CountFamilies(q, p)) \/ B!DeletePlan(q)
    PROVE  BillInv'
<1>1. B!TypeOK'
  BY ClubAssumption
  DEF B!CountFamilies, B!DeletePlan, B!Goto, BillInv, B!TypeOK, ClubAssumption,
      B!BillingAssumption
<1>2. IsFiniteSet(invoices)'
  BY DEF B!CountFamilies, B!DeletePlan, B!Goto, BillInv
<1>3. Drafts'
  <2>1. Drafted(q)'
    BY DEF B!CountFamilies, B!DeletePlan, B!Goto, Drafted, BillInv, B!TypeOK
  <2> QED BY <2>1, OthersDrafts DEF B!CountFamilies, B!DeletePlan, B!Goto, BillInv, B!TypeOK
<1>4. MakersMeet'
  BY
  DEF B!CountFamilies, B!DeletePlan, B!Goto, BillInv, B!TypeOK, Drafts, Drafted, MakersMeet,
      Making
<1>5. NotBilledYet'
  BY
  DEF B!CountFamilies, B!DeletePlan, B!Goto, BillInv, B!TypeOK, Drafts, Drafted, MakersMeet,
      NotBilledYet, Making
<1>6. Numbered'
  BY DEF B!CountFamilies, B!DeletePlan, B!Goto, BillInv, B!TypeOK, Numbered, OfYear
<1>7. B!BilledOncePerMonth'
  BY
  DEF B!CountFamilies, B!DeletePlan, B!Goto, BillInv, B!TypeOK, B!BilledOncePerMonth,
      NotBilledYet, Making
<1>8. B!PlanExists'
  BY ClubAssumption
  DEF B!CountFamilies, B!DeletePlan, B!Goto, BillInv, B!TypeOK, B!PlanExists, ClubAssumption,
      B!BillingAssumption
<1> QED BY <1>1, <1>2, <1>3, <1>4, <1>5, <1>6, <1>7, <1>8 DEF BillInv

LEMMA RestKeepsBillInv ==
    ASSUME BillInv, \/ \E p \in Plans, cents \in Prices : B!SetPrice(p, cents)
                    \/ \E rules \in SUBSET Rules : B!SetRules(rules)
                    \/ \E f \in Families, p \in Plans : B!SetPlan(f, p)
                    \/ UNCHANGED bvars
    PROVE  BillInv'
<1>1. B!TypeOK'
  BY ClubAssumption
  DEF B!SetPrice, B!SetRules, B!SetPlan, bvars, BillInv, B!TypeOK, ClubAssumption,
      B!BillingAssumption
<1>2. IsFiniteSet(invoices)'
  BY DEF B!SetPrice, B!SetRules, B!SetPlan, bvars, BillInv
<1>3. Drafts'
  BY DraftStays DEF B!SetPrice, B!SetRules, B!SetPlan, bvars, BillInv, Drafts
<1>4. MakersMeet'
  BY
  DEF B!SetPrice, B!SetRules, B!SetPlan, bvars, BillInv, B!TypeOK, Drafts, Drafted, MakersMeet,
      Making
<1>5. NotBilledYet'
  BY
  DEF B!SetPrice, B!SetRules, B!SetPlan, bvars, BillInv, B!TypeOK, Drafts, Drafted, MakersMeet,
      NotBilledYet, Making
<1>6. Numbered'
  BY DEF B!SetPrice, B!SetRules, B!SetPlan, bvars, BillInv, B!TypeOK, Numbered, OfYear
<1>7. B!BilledOncePerMonth'
  BY
  DEF B!SetPrice, B!SetRules, B!SetPlan, bvars, BillInv, B!TypeOK, B!BilledOncePerMonth,
      NotBilledYet, Making
<1>8. B!PlanExists'
  BY ClubAssumption
  DEF B!SetPrice, B!SetRules, B!SetPlan, bvars, BillInv, B!TypeOK, B!PlanExists, ClubAssumption,
      B!BillingAssumption
<1> QED BY <1>1, <1>2, <1>3, <1>4, <1>5, <1>6, <1>7, <1>8 DEF BillInv

LEMMA MonthKeepsBillInv ==
    ASSUME BillInv, B!NextMonth
    PROVE  BillInv'
<1>1. B!TypeOK'
  BY ClubAssumption DEF B!NextMonth, BillInv, B!TypeOK, ClubAssumption, B!BillingAssumption
<1>2. IsFiniteSet(invoices)'
  BY DEF B!NextMonth, BillInv
<1>3. Drafts'
  BY DEF B!NextMonth, BillInv, B!TypeOK, Drafts, Drafted, OfYear
<1>4. MakersMeet'
  BY DEF B!NextMonth, BillInv, B!TypeOK, Drafts, Drafted, MakersMeet, Making
<1>5. NotBilledYet'
  BY DEF B!NextMonth, BillInv, B!TypeOK, Drafts, Drafted, MakersMeet, NotBilledYet, Making
<1>6. Numbered'
  BY DEF B!NextMonth, BillInv, B!TypeOK, Numbered, OfYear
<1>7. B!BilledOncePerMonth'
  BY DEF B!NextMonth, BillInv, B!TypeOK, B!BilledOncePerMonth, NotBilledYet, Making
<1>8. B!PlanExists'
  BY ClubAssumption
  DEF B!NextMonth, BillInv, B!TypeOK, B!PlanExists, ClubAssumption, B!BillingAssumption
<1> QED BY <1>1, <1>2, <1>3, <1>4, <1>5, <1>6, <1>7, <1>8 DEF BillInv

LEMMA InitBillInv == B!Init => BillInv
<1> SUFFICES ASSUME B!Init
             PROVE  BillInv
  OBVIOUS
<1>1. B!TypeOK
  BY ClubAssumption DEF B!Init, B!TypeOK, ClubAssumption, B!BillingAssumption
<1>2. IsFiniteSet(invoices)
  BY FS_EmptySet DEF B!Init
<1>3. Drafts /\ MakersMeet /\ NotBilledYet
  BY DEF B!Init, Drafts, Drafted, MakersMeet, NotBilledYet, Making
<1>4. Numbered
  <2>1. \A y : OfYear(y) = {}
    BY DEF B!Init, OfYear
  <2> QED BY <2>1, FS_EmptySet DEF Numbered
<1>5. B!BilledOncePerMonth
  BY DEF B!Init, B!BilledOncePerMonth
<1>6. B!PlanExists
  BY DEF B!Init, B!PlanExists
<1> QED BY <1>1, <1>2, <1>3, <1>4, <1>5, <1>6 DEF BillInv

LEMMA NextKeepsBillInv ==
    ASSUME BillInv, [B!Next]_bvars
    PROVE  BillInv'
<1>1. ASSUME NEW q \in Requests, NEW f \in Families, B!CreateInvoice(q, f) \/ B!CountInvoices(q, f)
      PROVE  BillInv'
  BY <1>1, AskKeepsBillInv, CountKeepsBillInv
<1>2. ASSUME NEW q \in Requests, B!InsertInvoice(q) \/ B!StartBatch(q) \/ B!BillFamily(q)
      PROVE  BillInv'
  BY <1>2, InsertKeepsBillInv, StartKeepsBillInv, BillKeepsBillInv
<1>3. ASSUME NEW q \in Requests, (\E p \in Plans : B!CountFamilies(q, p)) \/ B!DeletePlan(q)
      PROVE  BillInv'
  BY <1>3, DeletePlanKeepsBillInv
<1>4. (\E p \in Plans, cents \in Prices : B!SetPrice(p, cents)) => BillInv'
  BY RestKeepsBillInv
<1>5. (\E rules \in SUBSET Rules : B!SetRules(rules)) => BillInv'
  BY RestKeepsBillInv
<1>6. (\E f \in Families, p \in Plans : B!SetPlan(f, p)) => BillInv'
  BY RestKeepsBillInv
<1>7. UNCHANGED bvars => BillInv'
  BY RestKeepsBillInv
<1> QED BY <1>1, <1>2, <1>3, <1>4, <1>5, <1>6, <1>7, MonthKeepsBillInv DEF B!Next

\* backlog.md:226, 232, 253: the numbers of a year follow each other, a family is billed its
\* subscription once a month unless two of its invoices were in the making at once, it pays the
\* plan minus its best discount, and no family keeps a plan that is gone.
THEOREM BillingIsAlwaysRight == ClubSpec => []BillingIsRight
<1>1. ClubInit => (focus = "billing" => BillInv)
  BY InitBillInv DEF ClubInit
<1>2. (focus = "billing" => BillInv) /\ [ClubNext]_clubVars => (focus = "billing" => BillInv)'
  <2> SUFFICES ASSUME focus = "billing" => BillInv, [ClubNext]_clubVars, focus' = "billing"
               PROVE  BillInv'
    OBVIOUS
  <2>1. focus = "billing" /\ [B!Next]_bvars
    BY DEF ClubNext, clubVars
  <2> QED BY <2>1, NextKeepsBillInv
<1>3. BillInv => B!BillingIsRight
  <2> SUFFICES ASSUME BillInv
               PROVE  B!NumbersFollow /\ B!BestPrice
    BY DEF BillInv, B!BillingIsRight
  <2>1. B!NumbersFollow
    BY SameCount DEF BillInv, Numbered, OfYear, B!NumbersFollow
  <2>2. B!BestPrice
    <3> SUFFICES ASSUME NEW cents \in Prices, NEW f \in Families
                 PROVE  LET paid == B!Price(cents, RidersOf[f], active) IN
                        /\ paid >= 0 /\ paid <= cents
                        /\ \A r \in active : r.minRiders <= RidersOf[f] =>
                              paid <= cents - B!Discount(cents, r)
      BY DEF B!BestPrice
    <3>1. cents \in Nat /\ active \in SUBSET Rules
      BY ClubAssumption DEF BillInv, B!TypeOK, ClubAssumption, B!BillingAssumption
    <3> QED BY <3>1, BestDiscount
  <2> QED BY <2>1, <2>2
<1>4. (focus = "billing" => BillInv) => BillingIsRight
  BY <1>3 DEF BillingIsRight
<1> QED BY <1>1, <1>2, <1>4, PTL DEF ClubSpec

-----------------------------------------------------------------------------
(* The choice of horses.  Riders are served by the number of their         *)
(* options, and a horse stays with the rider who got it: whatever a rider  *)
(* in conflict could have taken went to somebody with no more options.     *)

Waits == \A x \in queue : planning /\ mount[x] = NoHorse /\ kept[x] = NoHorse

KeptIsGiven == \A x \in K!CourseRiders : kept[x] # NoHorse => mount[x] = kept[x]

FewestFirst == \A r \in K!Served, o \in queue : options[r] <= options[o]

Suits(r, h) == K!Eligible(h) /\ K!LevelFit(level[r], horse[h]) # "under"

TakenBefore ==
    \A r \in K!Conflicts, h \in K!Horses : Suits(r, h) =>
        \E x \in K!CourseRiders \ queue : mount[x] = h /\ (kept[x] = h \/ options[x] <= options[r])

PlanInv ==
    /\ K!TypeOK /\ Waits /\ KeptIsGiven /\ FewestFirst /\ TakenBefore
    /\ K!HorseGivenOnce /\ K!NobodyUnderLevel

LEMMA RankingFacts ==
    /\ NbRiders \in Nat /\ NbHorses \in Nat /\ NoHorse \notin K!Horses
    /\ Levels \subseteq Nat /\ Levels # {} /\ HorseKinds # {} /\ Affinities # {}
    /\ HorseKinds \subseteq [fit : BOOLEAN, min : Nat, max : Nat, load : Nat, limit : Nat]
    /\ Affinities \subseteq [K!CourseRiders \X K!Horses -> K!Feelings]
BY ClubAssumption DEF ClubAssumption, K!RankingAssumption

\* Where no session is planned there is something of each kind, and nobody has a horse.
LEMMA NothingIsTyped ==
    /\ K!NothingPlanned.level \in [K!CourseRiders -> Levels]
    /\ K!NothingPlanned.horse \in [K!Horses -> HorseKinds]
    /\ K!NothingPlanned.feeling \in Affinities
    /\ K!NothingPlanned.mount = [r \in K!CourseRiders |-> NoHorse]
    /\ K!NothingPlanned.options = [r \in K!CourseRiders |-> 0]
<1>1. (CHOOSE l \in Levels : TRUE) \in Levels
  BY RankingFacts
<1>2. (CHOOSE k \in HorseKinds : TRUE) \in HorseKinds
  BY RankingFacts
<1>3. (CHOOSE a \in Affinities : TRUE) \in Affinities
  BY RankingFacts
<1> QED BY <1>1, <1>2, <1>3 DEF K!NothingPlanned

\* Where no session is planned, the invariant says little.
LEMMA IdleIsPlanInv ==
    ASSUME K!TypeOK, queue = {}, planning = FALSE, kept = [r \in K!CourseRiders |-> NoHorse],
           mount = [r \in K!CourseRiders |-> NoHorse]
    PROVE  PlanInv
BY RankingFacts
DEF PlanInv, Waits, KeptIsGiven, FewestFirst, TakenBefore, K!HorseGivenOnce, K!NobodyUnderLevel,
    K!Served, K!Conflicts

LEMMA InitPlan == K!Init => PlanInv
<1> SUFFICES ASSUME K!Init PROVE PlanInv
  OBVIOUS
<1>1. K!TypeOK
  <2>1. 0 \in 0..NbHorses /\ K!NothingPlanned.options \in [K!CourseRiders -> 0..NbHorses]
    BY RankingFacts, NothingIsTyped
  <2>2. K!NothingPlanned.mount \in [K!CourseRiders -> K!Horses \cup {NoHorse}]
    BY NothingIsTyped
  <2> QED BY <2>1, <2>2, NothingIsTyped DEF K!Init, K!TypeOK
<1>2. /\ queue = {} /\ planning = FALSE /\ kept = [r \in K!CourseRiders |-> NoHorse]
      /\ mount = [r \in K!CourseRiders |-> NoHorse]
  BY NothingIsTyped DEF K!Init
<1> QED BY <1>1, <1>2, IdleIsPlanInv

\* A rider has no more options than there are horses.
LEMMA OptionsAreHorses ==
    ASSUME NEW S \in SUBSET K!Horses
    PROVE  K!Cardinality(S) \in 0..NbHorses
<1>1. K!Cardinality(S) = Cardinality(S)
  BY DEF K!Cardinality, Cardinality
<1>2. IsFiniteSet(1..NbHorses) /\ Cardinality(1..NbHorses) = NbHorses
  <2>1. NbHorses \in Nat /\ 1 \in Int /\ NbHorses \in Int
    BY RankingFacts
  <2>2. Cardinality(1..NbHorses) = IF 1 > NbHorses THEN 0 ELSE NbHorses - 1 + 1
    BY <2>1, FS_Interval
  <2> QED BY <2>1, <2>2, FS_Interval
<1>3. IsFiniteSet(S) /\ Cardinality(S) <= NbHorses
  BY <1>2, FS_Subset DEF K!Horses
<1> QED BY <1>1, <1>3, FS_CardinalityType, RankingFacts

\* Among the candidates one comes before all others: the score, the load and the name.
LEMMA BestCandidateExists ==
    ASSUME K!TypeOK, NEW r \in K!CourseRiders, NEW S \in SUBSET K!Horses, S # {}
    PROVE  \E h \in S : \A g \in S \ {h} : K!Before(r, h, g)
<1> DEFINE cost(h) == 15 - K!Score(r, h)
           costs == {cost(h) : h \in S}
<1>1. ASSUME NEW h \in K!Horses
      PROVE  /\ K!Score(r, h) \in Int /\ cost(h) \in Nat
             /\ horse[h].load \in Nat /\ h \in Nat
  <2>1. /\ level[r] \in Nat /\ horse[h].load \in Nat
        /\ horse[h] \in [fit : BOOLEAN, min : Nat, max : Nat, load : Nat, limit : Nat]
    <3>1. level[r] \in Levels /\ horse[h] \in HorseKinds
      BY DEF K!TypeOK
    <3>2. horse[h] \in [fit : BOOLEAN, min : Nat, max : Nat, load : Nat, limit : Nat]
      BY <3>1, RankingFacts
    <3> QED BY <3>1, <3>2, RankingFacts
  <2>2. \E a \in {10, -15, 0}, b \in {5, -20, 0} : K!Score(r, h) = a + b - 5 * horse[h].load
    BY <2>1 DEF K!Score, K!LevelFit, K!OverLevelPenalty
  <2>3. h \in Nat
    BY DEF K!Horses
  <2> QED BY <2>1, <2>2, <2>3
<1>2. PICK c \in costs : \A d \in costs : c <= d
  <2>1. costs \in SUBSET Nat /\ costs # {}
    BY <1>1
  <2> HIDE DEF costs
  <2> QED BY <2>1, LeastExists
<1> DEFINE A == {h \in S : cost(h) = c}
           loads == {horse[h].load : h \in A}
<1>3. PICK l \in loads : \A d \in loads : l <= d
  <2>1. loads \in SUBSET Nat /\ loads # {}
    BY <1>1
  <2> HIDE DEF loads
  <2> QED BY <2>1, LeastExists
<1> DEFINE B2 == {h \in A : horse[h].load = l}
<1>4. PICK h \in B2 : \A g \in B2 : h <= g
  <2>1. B2 \in SUBSET Nat /\ B2 # {}
    BY <1>1
  <2> HIDE DEF B2
  <2> QED BY <2>1, LeastExists
<1>5. ASSUME NEW g \in S \ {h}
      PROVE  K!Before(r, h, g)
  <2>1. c <= cost(g) /\ c = cost(h) /\ horse[h].load = l
    BY <1>2, <1>4
  <2>2. cost(g) = c => l <= horse[g].load
    BY <1>3
  <2>3. cost(g) = c /\ horse[g].load = l => h <= g
    BY <1>4
  <2>4. g \in K!Horses /\ h \in K!Horses /\ g # h
    BY <1>4
  <2>5. K!Score(r, h) >= K!Score(r, g) /\ (K!Score(r, h) = K!Score(r, g) <=> cost(g) = c)
    BY <1>1, <2>1, <2>4
  <2> HIDE DEF cost
  <2> QED BY <1>1, <2>1, <2>2, <2>3, <2>4, <2>5 DEF K!Before
<1> QED BY <1>4, <1>5

\* A rider is served the best of his candidates, or nothing is left for him.
LEMMA ServedWell ==
    ASSUME PlanInv, NEW r \in K!CourseRiders, K!ServeRider(r)
    PROVE  /\ \A o \in K!CourseRiders \ {r} : mount'[o] = mount[o]
           /\ \/ K!Candidates(r, mount) = {} /\ mount'[r] = NoHorse
              \/ /\ mount'[r] \in K!Candidates(r, mount)
                 /\ \A g \in K!Candidates(r, mount) \ {mount'[r]} : K!Before(r, mount'[r], g)
<1> DEFINE all == K!Candidates(r, mount)
           best == IF all = {} THEN NoHorse
                   ELSE CHOOSE h \in all : \A g \in all \ {h} : K!Before(r, h, g)
<1>1. mount' = [mount EXCEPT ![r] = best]
  BY DEF K!ServeRider
<1>2. mount'[r] = best /\ \A o \in K!CourseRiders \ {r} : mount'[o] = mount[o]
  BY <1>1 DEF PlanInv, K!TypeOK
<1>3. CASE all = {}
  BY <1>2, <1>3
<1>4. CASE all # {}
  <2>1. \E h \in all : \A g \in all \ {h} : K!Before(r, h, g)
    BY <1>4, BestCandidateExists DEF PlanInv, K!Candidates
  <2>2. best \in all /\ \A g \in all \ {best} : K!Before(r, best, g)
    BY <1>4, <2>1
  <2> QED BY <1>2, <2>2
<1> QED BY <1>3, <1>4

LEMMA ServeRiderKeepsPlan ==
    ASSUME PlanInv, NEW r \in K!CourseRiders, K!ServeRider(r)
    PROVE  PlanInv'
<1>1. /\ r \in queue /\ K!First(r) /\ queue' = queue \ {r}
      /\ UNCHANGED <<level, horse, feeling, kept, options, planning>>
  BY DEF K!ServeRider, K!context
<1>2. /\ \A o \in K!CourseRiders \ {r} : mount'[o] = mount[o]
      /\ mount' = [mount EXCEPT ![r] = mount'[r]]
      /\ mount'[r] \in K!Candidates(r, mount) \cup {NoHorse}
      /\ mount'[r] = NoHorse => K!Candidates(r, mount) = {}
  <2>1. NoHorse \notin K!Candidates(r, mount)
    BY RankingFacts DEF K!Candidates
  <2>2. mount' = [mount EXCEPT ![r] = mount'[r]]
    BY DEF K!ServeRider, PlanInv, K!TypeOK
  <2> QED BY <2>1, <2>2, ServedWell
<1>3. K!TypeOK'
  BY <1>1, <1>2 DEF PlanInv, K!TypeOK, K!Candidates
<1>4. Waits'
  BY <1>1, <1>2 DEF PlanInv, Waits, K!TypeOK
<1>5. KeptIsGiven'
  BY <1>1, <1>2 DEF PlanInv, Waits, KeptIsGiven
<1>6. \A o \in K!Served' : o = r \/ o \in K!Served
  BY <1>1 DEF K!Served
<1>7. FewestFirst'
  <2>1. \A o \in queue : options[r] <= options[o]
    BY <1>1, RankingFacts DEF K!First, PlanInv, K!TypeOK
  <2> QED BY <1>1, <1>6, <2>1 DEF PlanInv, FewestFirst
<1>8. K!HorseGivenOnce'
  <2>1. \A o \in K!CourseRiders : mount'[r] # NoHorse => mount[o] # mount'[r]
    BY <1>2 DEF K!Candidates
  <2> QED BY <1>2, <2>1 DEF PlanInv, K!HorseGivenOnce
<1>9. K!NobodyUnderLevel'
  BY <1>1, <1>2, RankingFacts DEF PlanInv, K!NobodyUnderLevel, K!Candidates
<1>10. TakenBefore'
  <2> SUFFICES ASSUME NEW o \in K!Conflicts', NEW h \in K!Horses, Suits(o, h)
               PROVE  \E x \in K!CourseRiders \ queue' :
                          mount'[x] = h /\ (kept[x] = h \/ options[x] <= options[o])
    BY <1>1 DEF TakenBefore, Suits, K!Eligible
  <2>1. CASE o # r
    <3>1. o \in K!Conflicts
      BY <1>1, <1>2, <1>6, <2>1 DEF K!Conflicts, K!Served
    <3>2. PICK x \in K!CourseRiders \ queue : mount[x] = h /\ (kept[x] = h \/ options[x] <= options[o])
      BY <3>1 DEF PlanInv, TakenBefore
    <3> QED BY <1>1, <1>2, <3>2
  <2>2. CASE o = r
    <3>1. K!Candidates(r, mount) = {}
      BY <1>2, <2>2 DEF K!Conflicts
    <3>2. PICK x \in K!CourseRiders : mount[x] = h
      BY <2>2, <3>1 DEF K!Candidates, Suits
    <3>3. x \notin queue
      BY <3>2, RankingFacts DEF PlanInv, Waits
    <3>4. CASE kept[x] # NoHorse
      <4>1. kept[x] = h
        BY <3>2, <3>4 DEF PlanInv, KeptIsGiven
      <4> QED BY <1>1, <1>2, <3>2, <3>3, <4>1
    <3>5. CASE kept[x] = NoHorse
      <4>1. x \in K!Served
        BY <1>1, <3>3, <3>5 DEF K!Served, PlanInv, Waits
      <4>2. options[x] <= options[r]
        BY <1>1, <4>1 DEF PlanInv, FewestFirst
      <4> QED BY <1>1, <1>2, <2>2, <3>2, <3>3, <4>2
    <3> QED BY <3>4, <3>5
  <2> QED BY <2>1, <2>2
<1> QED BY <1>3, <1>4, <1>5, <1>7, <1>8, <1>9, <1>10 DEF PlanInv

LEMMA LoadContextKeepsPlan ==
    ASSUME PlanInv, K!LoadContext
    PROVE  PlanInv'
<1>1. PICK r \in K!CourseRiders, h \in K!Horses \cup {NoHorse} :
          kept' = [o \in K!CourseRiders |-> IF o = r THEN h ELSE NoHorse]
  BY DEF K!LoadContext
<1>2. /\ planning' = TRUE /\ level' \in [K!CourseRiders -> Levels] /\ horse' \in [K!Horses -> HorseKinds]
      /\ feeling' \in Affinities /\ mount' = kept' /\ queue' = {o \in K!CourseRiders : kept'[o] = NoHorse}
  BY DEF K!LoadContext
<1>3. options' \in [K!CourseRiders -> 0..NbHorses]
  <2>1. \A o \in K!CourseRiders : K!Cardinality(K!Candidates(o, kept)') \in 0..NbHorses
    BY OptionsAreHorses DEF K!Candidates
  <2>2. 0 \in 0..NbHorses
    BY RankingFacts
  <2>3. options' = [o \in K!CourseRiders |->
            IF o \in queue' THEN K!Cardinality(K!Candidates(o, kept)') ELSE 0]
    BY DEF K!LoadContext
  <2> QED BY <2>1, <2>2, <2>3
<1>4. K!Served' = {}
  BY <1>2 DEF K!Served
<1> QED BY <1>1, <1>2, <1>3, <1>4, RankingFacts
        DEF PlanInv, K!TypeOK, Waits, KeptIsGiven, FewestFirst, TakenBefore, K!Conflicts,
            K!HorseGivenOnce, K!NobodyUnderLevel

LEMMA ReturnPlanKeepsPlan ==
    ASSUME PlanInv, K!ReturnPlan
    PROVE  PlanInv'
<1>1. K!TypeOK'
  <2>1. 0 \in 0..NbHorses /\ K!NothingPlanned.options \in [K!CourseRiders -> 0..NbHorses]
    BY RankingFacts, NothingIsTyped
  <2>2. K!NothingPlanned.mount \in [K!CourseRiders -> K!Horses \cup {NoHorse}]
    BY NothingIsTyped
  <2> QED BY <2>1, <2>2, NothingIsTyped DEF K!ReturnPlan, K!TypeOK, PlanInv
<1>2. /\ queue' = {} /\ planning' = FALSE /\ kept' = [r \in K!CourseRiders |-> NoHorse]
      /\ mount' = [r \in K!CourseRiders |-> NoHorse]
  BY NothingIsTyped DEF K!ReturnPlan
<1>3. /\ Waits' /\ KeptIsGiven' /\ FewestFirst' /\ TakenBefore'
      /\ K!HorseGivenOnce' /\ K!NobodyUnderLevel'
  BY <1>2, RankingFacts
  DEF Waits, KeptIsGiven, FewestFirst, TakenBefore, K!HorseGivenOnce, K!NobodyUnderLevel, K!Served,
      K!Conflicts
<1> QED BY <1>1, <1>3 DEF PlanInv

LEMMA NextKeepsPlan ==
    ASSUME PlanInv, [K!Next]_kvars
    PROVE  PlanInv'
<1>1. CASE UNCHANGED kvars
  BY <1>1
  DEF kvars, PlanInv, K!TypeOK, Waits, KeptIsGiven, FewestFirst, TakenBefore, Suits, K!Eligible,
      K!HorseGivenOnce, K!NobodyUnderLevel, K!Served, K!Conflicts
<1> QED BY <1>1, ServeRiderKeepsPlan, LoadContextKeepsPlan, ReturnPlanKeepsPlan DEF K!Next

\* Who took the only horse of a rider in conflict had no more options than he.
LEMMA PlanKeepsOnlyHorse == PlanInv => K!OnlyHorseIsKept
<1> SUFFICES ASSUME PlanInv, NEW r \in K!Conflicts, NEW o \in K!Served, options[r] = 1, options[o] > 1,
                    mount[o] # NoHorse, Suits(r, mount[o])
             PROVE  FALSE
  BY DEF K!OnlyHorseIsKept, Suits
<1>1. o \in K!CourseRiders /\ mount[o] \in K!Horses /\ kept[o] = NoHorse
  BY DEF PlanInv, K!TypeOK, K!Served
<1>2. PICK x \in K!CourseRiders : mount[x] = mount[o] /\ (kept[x] = mount[o] \/ options[x] <= options[r])
  BY <1>1 DEF PlanInv, TakenBefore
<1>3. x = o
  BY <1>1, <1>2 DEF PlanInv, K!HorseGivenOnce
<1>4. options[o] \in 0..NbHorses
  BY <1>1 DEF PlanInv, K!TypeOK
<1> QED BY <1>1, <1>2, <1>3, <1>4, RankingFacts

\* What is worth 5, and not -20, comes first unless it works five hours more.
LEMMA SuitableComesFirst ==
    ASSUME PlanInv, [K!Next]_kvars, NEW r \in queue, NEW h \in K!Horses,
           planning, queue' = queue \ {r}, mount'[r] # NoHorse, h \in K!Candidates(r, mount),
           feeling[<<r, h>>] = feeling[<<r, mount'[r]>>],
           K!LevelFit(level[r], horse[mount'[r]]) = "over", K!LevelFit(level[r], horse[h]) = "ok"
    PROVE  horse[h].load >= horse[mount'[r]].load + 5
<1>1. r \in K!CourseRiders /\ K!ServeRider(r)
  <2>1. r \in K!CourseRiders
    BY DEF PlanInv, K!TypeOK
  <2>2. ASSUME NEW o \in K!CourseRiders, K!ServeRider(o)
        PROVE  o = r
    BY <2>2 DEF K!ServeRider
  <2>3. ~K!LoadContext /\ ~K!ReturnPlan /\ ~UNCHANGED kvars
    BY DEF K!LoadContext, K!ReturnPlan, kvars
  <2> QED BY <2>1, <2>2, <2>3 DEF K!Next
<1> DEFINE g == mount'[r]
<1>2. g \in K!Candidates(r, mount) /\ (g = h \/ K!Before(r, g, h))
  BY <1>1, ServedWell
<1>3. g # h /\ g \in K!Horses
  BY <1>2 DEF K!Candidates
<1>4. horse[g].load \in Nat /\ horse[h].load \in Nat
  BY <1>3, RankingFacts DEF PlanInv, K!TypeOK
<1>5. PICK a \in {10, -15, 0} : /\ K!Score(r, g) = a - 20 - 5 * horse[g].load
                               /\ K!Score(r, h) = a + 5 - 5 * horse[h].load
  BY <1>4 DEF K!Score, K!OverLevelPenalty
<1>6. K!Score(r, g) >= K!Score(r, h)
  BY <1>2, <1>3, <1>4, <1>5 DEF K!Before
<1> QED BY <1>4, <1>5, <1>6

\* horseAssignment.js:21-25, 141-143, backlog.md:197: a horse is given once, nobody gets one
\* that demands more than his level, the only horse of a rider goes to nobody with a choice,
\* and a horse below the level of its rider comes last.
THEOREM PlansAreFair == ClubSpec => PlanIsFair
<1>1. ClubInit => PlanInv
  BY InitPlan DEF ClubInit
<1>2. [ClubNext]_clubVars => [K!Next]_kvars
  BY DEF ClubNext, clubVars, kvars
<1>3. PlanInv /\ [ClubNext]_clubVars => PlanInv'
  BY <1>2, NextKeepsPlan
<1>4. PlanInv /\ [ClubNext]_clubVars =>
        [\A r \in queue, h \in K!Horses :
           LET g == mount'[r] IN
           /\ planning /\ queue' = queue \ {r} /\ g # NoHorse
           /\ h \in K!Candidates(r, mount)
           /\ feeling[<<r, h>>] = feeling[<<r, g>>]
           /\ K!LevelFit(level[r], horse[g]) = "over" /\ K!LevelFit(level[r], horse[h]) = "ok"
           => horse[h].load >= horse[g].load + 5]_kvars
  BY <1>2, SuitableComesFirst
<1>5. PlanInv => K!HorseGivenOnce /\ K!NobodyUnderLevel /\ K!OnlyHorseIsKept
  BY PlanKeepsOnlyHorse DEF PlanInv
<1> QED BY <1>1, <1>3, <1>4, <1>5, PTL
        DEF ClubSpec, PlanIsFair, K!PlanIsFair, K!OverLevelIsLast, K!vars, kvars

-----------------------------------------------------------------------------
(* The missions.  A count that is not out of date still finds its place    *)
(* free; and each transaction that counted was a place short of the most   *)
(* the mission offered, so that all of them together oversell it by the    *)
(* number of requests at most.                                             *)

CountedFit ==
    \A q \in Requests : signup[q] # << >> /\ q \notin stale =>
        /\ M!Exists(signup[q][1])
        /\ Cardinality(M!SignedUp(signup[q][1])) < slots[signup[q][1]]

Claimed(m) == M!SignedUp(m) # {} \/ M!Pending(m) # {}
Claims(m) == Cardinality(M!SignedUp(m)) + Cardinality(M!Pending(m))

ClaimsFit ==
    \A m \in Missions :
        /\ slots[m] <= most[m]
        /\ Claimed(m) => Claims(m) < most[m] + Cardinality(Requests)

MissionInv == M!TypeOK /\ M!SignupsHaveMission /\ CountedFit /\ ClaimsFit

\* The cardinalities of the instance are those of the library's theorems.
LEMMA MissionCount == ASSUME NEW X PROVE M!Cardinality(X) = Cardinality(X)
BY DEF M!Cardinality, Cardinality

LEMMA MissionFacts ==
    /\ MaxSlots \in Nat \ {0} /\ IsFiniteSet(Volunteers) /\ IsFiniteSet(Requests)
    /\ Cardinality(Requests) \in Nat
<1>1. MaxSlots \in Nat \ {0} /\ M!IsFiniteSet(Volunteers) /\ M!IsFiniteSet(Requests)
  BY ClubAssumption DEF ClubAssumption, M!VolunteerAssumption
<1>2. IsFiniteSet(Volunteers) /\ IsFiniteSet(Requests)
  BY <1>1 DEF M!IsFiniteSet, IsFiniteSet
<1> QED BY <1>1, <1>2, FS_CardinalityType

LEMMA OneMore ==
    ASSUME NEW S, NEW x, IsFiniteSet(S)
    PROVE  Cardinality(S \cup {x}) \in Nat /\ Cardinality(S \cup {x}) <= Cardinality(S) + 1
<1>1. IsFiniteSet(S \cup {x})
  BY FS_AddElement
<1>2. Cardinality(S) \in Nat /\ Cardinality(S \cup {x}) \in Nat
  BY <1>1, FS_CardinalityType
<1>3. Cardinality(S \cup {x}) = IF x \in S THEN Cardinality(S) ELSE Cardinality(S) + 1
  BY FS_AddElement
<1> QED BY <1>2, <1>3

LEMMA ClaimsAreCounted ==
    ASSUME NEW m
    PROVE  /\ IsFiniteSet(M!SignedUp(m)) /\ IsFiniteSet(M!Pending(m))
           /\ Cardinality(M!SignedUp(m)) \in Nat /\ Cardinality(M!Pending(m)) \in Nat
           /\ Cardinality(M!Pending(m)) <= Cardinality(Requests)
<1>1. M!SignedUp(m) \in SUBSET Volunteers /\ M!Pending(m) \in SUBSET Requests
  BY DEF M!SignedUp, M!Pending
<1>2. /\ IsFiniteSet(M!SignedUp(m)) /\ IsFiniteSet(M!Pending(m))
      /\ Cardinality(M!Pending(m)) <= Cardinality(Requests)
  BY <1>1, MissionFacts, FS_Subset
<1> QED BY <1>2, FS_CardinalityType

LEMMA InitMissionInv == M!Init => MissionInv
<1> SUFFICES ASSUME M!Init
             PROVE  MissionInv
  OBVIOUS
<1>1. M!TypeOK /\ M!SignupsHaveMission /\ CountedFit
  BY MissionFacts DEF M!Init, CountedFit, M!TypeOK, M!SignupsHaveMission
<1>2. ASSUME NEW m \in Missions
      PROVE  ~Claimed(m) /\ slots[m] <= most[m]
  BY DEF M!Init, Claimed, M!SignedUp, M!Pending
<1> QED BY <1>1, <1>2 DEF MissionInv, ClaimsFit

\* A change of the places makes every count that was taken for the mission old.
LEMMA OfferKeepsMissionInv ==
    ASSUME MissionInv, NEW m \in Missions, NEW n \in 0..MaxSlots, M!Offer(m, n),
           n = 0 => M!SignedUp(m) = {}
    PROVE  MissionInv'
<1>1. /\ slots' = [slots EXCEPT ![m] = n] /\ stale' = stale \cup M!Pending(m)
      /\ most' = [most EXCEPT ![m] = IF n > @ THEN n ELSE @] /\ UNCHANGED <<signed, signup>>
  BY DEF M!Offer
<1>2. M!TypeOK'
  BY <1>1 DEF MissionInv, M!TypeOK, M!Pending
<1>3. M!SignupsHaveMission'
  <2> SUFFICES ASSUME NEW x \in signed
               PROVE  slots'[x[1]] > 0
    BY <1>1 DEF M!SignupsHaveMission, M!Exists
  <2>1. slots[x[1]] > 0 /\ x[1] \in Missions /\ x[2] \in Volunteers /\ x = <<x[1], x[2]>>
    BY DEF MissionInv, M!SignupsHaveMission, M!Exists, M!TypeOK
  <2>2. CASE x[1] = m
    <3>1. x[2] \in M!SignedUp(m)
      BY <2>1, <2>2 DEF M!SignedUp
    <3> QED BY <1>1, <2>1, <2>2, <3>1, MissionFacts DEF MissionInv, M!TypeOK
  <2>3. CASE x[1] # m
    BY <1>1, <2>1, <2>3 DEF MissionInv, M!TypeOK
  <2> QED BY <2>2, <2>3
<1>4. CountedFit'
  <2> SUFFICES ASSUME NEW q \in Requests, NEW o, signup[q] # << >>, o = signup[q][1], q \notin stale,
                      o # m
               PROVE  slots'[o] > 0 /\ Cardinality(M!SignedUp(o)) < slots'[o]
    BY <1>1 DEF CountedFit, M!Pending, M!Exists, M!SignedUp
  <2>1. slots'[o] = slots[o]
    BY <1>1 DEF MissionInv, M!TypeOK
  <2> QED BY <2>1 DEF MissionInv, CountedFit, M!Exists
<1>5. ClaimsFit'
  <2> SUFFICES ASSUME NEW o \in Missions
               PROVE  (/\ slots[o] <= most[o]
                       /\ Claimed(o) => Claims(o) < most[o] + Cardinality(Requests))'
    BY DEF ClaimsFit
  <2>1. /\ Claimed(o)' = Claimed(o) /\ Claims(o)' = Claims(o)
        /\ Claims(o) \in Nat
    <3>1. M!SignedUp(o)' = M!SignedUp(o) /\ M!Pending(o)' = M!Pending(o)
      BY <1>1 DEF M!SignedUp, M!Pending
    <3> QED BY <3>1, ClaimsAreCounted DEF Claimed, Claims
  <2>2. /\ most[o] \in Nat /\ most'[o] \in Nat /\ most[o] <= most'[o] /\ slots'[o] <= most'[o]
    BY <1>1, MissionFacts DEF MissionInv, M!TypeOK, ClaimsFit
  <2> QED BY <2>1, <2>2, MissionFacts DEF MissionInv, ClaimsFit
<1> QED BY <1>2, <1>3, <1>4, <1>5 DEF MissionInv

\* The mission had a place that was free; the transaction is one of the requests.
LEMMA CountKeepsMissionInv ==
    ASSUME MissionInv, NEW q \in Requests, NEW m \in Missions, NEW v \in Volunteers,
           M!CountSignups(q, m, v)
    PROVE  MissionInv'
<1>1. /\ signup[q] = << >> /\ M!Exists(m) /\ Cardinality(M!SignedUp(m)) < slots[m]
      /\ signup' = [signup EXCEPT ![q] = <<m, v>>] /\ stale' = stale \ {q}
      /\ UNCHANGED <<slots, signed, most>>
  BY MissionCount DEF M!CountSignups
<1>2. \A o \in Requests : signup'[o] = IF o = q THEN <<m, v>> ELSE signup[o]
  BY <1>1 DEF MissionInv, M!TypeOK
<1>3. M!TypeOK' /\ M!SignupsHaveMission'
  BY <1>1 DEF MissionInv, M!TypeOK, M!SignupsHaveMission, M!Exists
<1>4. CountedFit'
  <2> SUFFICES ASSUME NEW o \in Requests, signup'[o] # << >>, o \notin stale'
               PROVE  /\ M!Exists(signup'[o][1])
                      /\ Cardinality(M!SignedUp(signup'[o][1])) < slots[signup'[o][1]]
    BY <1>1 DEF CountedFit, M!Exists, M!SignedUp
  <2>1. CASE o = q
    BY <1>1, <1>2, <2>1
  <2>2. CASE o # q
    BY <1>1, <1>2, <2>2 DEF MissionInv, CountedFit
  <2> QED BY <2>1, <2>2
<1>5. ClaimsFit'
  <2> SUFFICES ASSUME NEW o \in Missions
               PROVE  (Claimed(o) => Claims(o) < most[o] + Cardinality(Requests))'
    BY <1>1 DEF ClaimsFit, MissionInv
  <2>1. M!SignedUp(o)' = M!SignedUp(o) /\ most' = most
    BY <1>1 DEF M!SignedUp
  <2>2. CASE o = m
    <3>1. /\ Cardinality(M!SignedUp(m)) < most[m] /\ most[m] \in Nat
      BY <1>1, ClaimsAreCounted DEF MissionInv, ClaimsFit, M!TypeOK
    <3>2. Cardinality(M!Pending(m)') \in Nat /\ Cardinality(M!Pending(m)') <= Cardinality(Requests)
      <4>1. M!Pending(m)' \in SUBSET Requests
        BY DEF M!Pending
      <4> QED BY <4>1, MissionFacts, FS_Subset, FS_CardinalityType
    <3> QED BY <2>1, <2>2, <3>1, <3>2, ClaimsAreCounted, MissionFacts DEF Claims
  <2>3. CASE o # m
    <3>1. M!Pending(o)' = M!Pending(o)
      BY <1>1, <1>2, <2>3 DEF M!Pending
    <3> QED BY <2>1, <3>1 DEF MissionInv, ClaimsFit, Claimed, Claims
  <2> QED BY <2>2, <2>3
<1> QED BY <1>3, <1>4, <1>5 DEF MissionInv

\* A transaction that inserts gives its claim up for a row, or for nothing.
LEMMA InsertKeepsMissionInv ==
    ASSUME MissionInv, NEW q \in Requests, M!InsertSignup(q)
    PROVE  MissionInv'
<1>1. PICK m \in Missions, v \in Volunteers : signup[q] = <<m, v>>
  BY DEF M!InsertSignup, MissionInv, M!TypeOK
<1>2. /\ signed' = IF M!Exists(m) THEN signed \cup {<<m, v>>} ELSE signed
      /\ signup' = [signup EXCEPT ![q] = << >>]
      /\ stale' = (stale \cup M!Pending(m)) \ {q}
      /\ UNCHANGED <<slots, most>>
  BY <1>1 DEF M!InsertSignup
<1>3. \A o \in Requests : signup'[o] = IF o = q THEN << >> ELSE signup[o]
  BY <1>2 DEF MissionInv, M!TypeOK
<1>4. M!TypeOK'
  BY <1>2 DEF MissionInv, M!TypeOK, M!Pending
<1>5. M!SignupsHaveMission'
  <2>1. \A x \in signed' : x \in signed \/ (x = <<m, v>> /\ slots[m] > 0)
    BY <1>2 DEF M!Exists
  <2>2. \A x \in signed : slots[x[1]] > 0
    BY DEF MissionInv, M!SignupsHaveMission, M!Exists
  <2>3. \A x \in signed' : slots[x[1]] > 0
    BY <2>1, <2>2
  <2> QED BY <1>2, <2>3 DEF M!SignupsHaveMission, M!Exists
<1>6. \A o \in Missions : o # m => M!SignedUp(o)' = M!SignedUp(o)
  BY <1>2 DEF M!SignedUp
<1>7. CountedFit'
  <2> SUFFICES ASSUME NEW o \in Requests, NEW n, signup'[o] # << >>, n = signup'[o][1],
                      o \notin stale'
               PROVE  slots[n] > 0 /\ Cardinality(M!SignedUp(n)') < slots[n]
    BY <1>2 DEF CountedFit, M!Exists, M!SignedUp
  <2>1. o # q /\ signup'[o] = signup[o]
    BY <1>3
  <2>2. o \notin stale /\ n # m /\ n \in Missions
    BY <1>2, <2>1 DEF M!Pending, MissionInv, M!TypeOK
  <2>3. slots[n] > 0 /\ Cardinality(M!SignedUp(n)) < slots[n]
    BY <2>1, <2>2 DEF MissionInv, CountedFit, M!Exists
  <2> QED BY <1>6, <2>2, <2>3
<1>8. ClaimsFit'
  <2> SUFFICES ASSUME NEW o \in Missions, Claimed(o)'
               PROVE  Claims(o)' < most[o] + Cardinality(Requests)
    BY <1>2 DEF ClaimsFit, MissionInv
  <2>1. CASE o = m
    <3>1. /\ M!Pending(m)' = M!Pending(m) \ {q} /\ q \in M!Pending(m)
          /\ M!SignedUp(m)' = M!SignedUp(m) \/ M!SignedUp(m)' = M!SignedUp(m) \cup {v}
      <4>1. M!Pending(m)' = M!Pending(m) \ {q} /\ q \in M!Pending(m)
        <5>1. signup[q] # << >> /\ signup[q][1] = m
          BY <1>1 DEF M!InsertSignup
        <5> QED BY <1>3, <5>1 DEF M!Pending
      <4>2. CASE M!Exists(m)
        <5>1. \A w \in Volunteers : <<m, w>> \in signed' <=> <<m, w>> \in signed \/ w = v
          BY <1>2, <4>2
        <5>2. M!SignedUp(m)' = M!SignedUp(m) \cup {v}
          BY <5>1 DEF M!SignedUp
        <5> QED BY <4>1, <5>2
      <4>3. CASE ~M!Exists(m)
        BY <1>2, <4>1, <4>3 DEF M!SignedUp
      <4> QED BY <4>2, <4>3
    <3>2. Cardinality(M!Pending(m)') = Cardinality(M!Pending(m)) - 1
      BY <3>1, ClaimsAreCounted, FS_RemoveElement
    <3>3. /\ Cardinality(M!SignedUp(m)') \in Nat
          /\ Cardinality(M!SignedUp(m)') <= Cardinality(M!SignedUp(m)) + 1
      <4>1. CASE M!SignedUp(m)' = M!SignedUp(m)
        BY <4>1, ClaimsAreCounted
      <4>2. CASE M!SignedUp(m)' = M!SignedUp(m) \cup {v}
        BY <4>2, ClaimsAreCounted, OneMore
      <4> QED BY <3>1, <4>1, <4>2
    <3>4. Claims(m) < most[m] + Cardinality(Requests) /\ most[m] \in Nat
      BY <3>1 DEF MissionInv, ClaimsFit, Claimed, M!TypeOK
    <3> QED BY <2>1, <3>2, <3>3, <3>4, ClaimsAreCounted, MissionFacts DEF Claims
  <2>2. CASE o # m
    <3>1. M!Pending(o)' = M!Pending(o) /\ M!SignedUp(o)' = M!SignedUp(o)
      BY <1>1, <1>3, <1>6, <2>2 DEF M!Pending
    <3> QED BY <3>1 DEF MissionInv, ClaimsFit, Claimed, Claims
  <2> QED BY <2>1, <2>2
<1> QED BY <1>4, <1>5, <1>7, <1>8 DEF MissionInv

\* Signups that go make room.
LEMMA EraseKeepsMissionInv ==
    ASSUME MissionInv, NEW v \in Volunteers, M!EraseVolunteer(v)
    PROVE  MissionInv'
<1>1. signed' = {x \in signed : x[2] # v} /\ UNCHANGED <<slots, signup, most, stale>>
  BY DEF M!EraseVolunteer
<1>2. M!TypeOK' /\ M!SignupsHaveMission'
  BY <1>1 DEF MissionInv, M!TypeOK, M!SignupsHaveMission, M!Exists
<1>3. ASSUME NEW m
      PROVE  /\ Cardinality(M!SignedUp(m)') \in Nat
             /\ Cardinality(M!SignedUp(m)') <= Cardinality(M!SignedUp(m))
             /\ M!SignedUp(m) = {} => M!SignedUp(m)' = {}
             /\ M!Pending(m)' = M!Pending(m)
  <2>1. M!SignedUp(m)' \in SUBSET M!SignedUp(m) /\ M!Pending(m)' = M!Pending(m)
    BY <1>1 DEF M!SignedUp, M!Pending
  <2>2. /\ IsFiniteSet(M!SignedUp(m)')
        /\ Cardinality(M!SignedUp(m)') <= Cardinality(M!SignedUp(m))
    BY <2>1, ClaimsAreCounted, FS_Subset
  <2> QED BY <2>1, <2>2, FS_CardinalityType
<1>4. CountedFit'
  <2> SUFFICES ASSUME NEW q \in Requests, NEW m, signup[q] # << >>, m = signup[q][1], q \notin stale
               PROVE  slots[m] > 0 /\ Cardinality(M!SignedUp(m)') < slots[m]
    BY <1>1 DEF CountedFit, M!Exists, M!SignedUp
  <2>1. slots[m] > 0 /\ Cardinality(M!SignedUp(m)) < slots[m]
    BY DEF MissionInv, CountedFit, M!Exists
  <2>2. slots[m] \in Nat
    BY DEF MissionInv, M!TypeOK
  <2> QED BY <1>3, <2>1, <2>2, ClaimsAreCounted
<1>5. ClaimsFit'
  <2> SUFFICES ASSUME NEW m \in Missions, Claimed(m)'
               PROVE  Claims(m)' < most[m] + Cardinality(Requests)
    BY <1>1 DEF ClaimsFit, MissionInv
  <2>1. Claimed(m)
    BY <1>3 DEF Claimed
  <2>2. Claims(m) < most[m] + Cardinality(Requests) /\ most[m] \in Nat
    BY <2>1 DEF MissionInv, ClaimsFit, M!TypeOK
  <2> QED BY <1>3, <2>2, ClaimsAreCounted, MissionFacts DEF Claims
<1> QED BY <1>2, <1>4, <1>5 DEF MissionInv

LEMMA NextKeepsMissionInv ==
    ASSUME MissionInv, [M!Next]_mvars
    PROVE  MissionInv'
<1>1. ASSUME NEW m \in Missions, NEW n \in 1..MaxSlots, M!CreateMission(m, n) \/ M!UpdateMission(m, n)
      PROVE  MissionInv'
  <2>1. n \in 0..MaxSlots /\ n # 0
    BY MissionFacts
  <2> QED BY <1>1, <2>1, OfferKeepsMissionInv DEF M!CreateMission, M!UpdateMission
<1>2. ASSUME NEW m \in Missions, M!DeleteMission(m)
      PROVE  MissionInv'
  <2>1. 0 \in 0..MaxSlots
    BY MissionFacts
  <2> QED BY <1>2, <2>1, OfferKeepsMissionInv DEF M!DeleteMission
<1>3. CASE UNCHANGED mvars
  BY <1>3 DEF mvars, M!Exists, MissionInv, M!TypeOK, M!SignupsHaveMission, CountedFit, ClaimsFit,
     Claimed, Claims, M!SignedUp, M!Pending
<1> QED BY <1>1, <1>2, <1>3, CountKeepsMissionInv, InsertKeepsMissionInv, EraseKeepsMissionInv
        DEF M!Next

\* A signup that appears was counted by its transaction.
LEMMA PlacesAreFree ==
    ASSUME MissionInv, [M!Next]_mvars, NEW x \in signed' \ signed
    PROVE  \E q \in Requests :
               /\ signup[q] = x
               /\ q \in stale \/ M!Cardinality(M!SignedUp(x[1])) < slots[x[1]]
<1>1. PICK q \in Requests : M!InsertSignup(q)
  BY DEF M!Next, mvars, M!CreateMission, M!UpdateMission, M!DeleteMission, M!Offer,
     M!CountSignups, M!EraseVolunteer
<1>2. signup[q] # << >> /\ x = signup[q]
  BY <1>1 DEF M!InsertSignup
<1>3. q \in stale \/ M!Cardinality(M!SignedUp(x[1])) < slots[x[1]]
  BY <1>2, MissionCount DEF MissionInv, CountedFit
<1> QED BY <1>2, <1>3

\* volunteerService.js:64, 84, 88: however signups, edits, deletions and erasures overlap, no
\* volunteer is signed up for a mission that is gone, a volunteer gets a place that is not free
\* only on a count that was out of date, and a mission is oversold by less than the number of
\* requests that run at the same time.
THEOREM SignupsAlwaysFit == ClubSpec => SignupsFit
<1>1. ClubInit => MissionInv
  BY InitMissionInv DEF ClubInit
<1>2. [ClubNext]_clubVars => [M!Next]_mvars
  BY DEF ClubNext, clubVars
<1>3. MissionInv /\ [ClubNext]_clubVars => MissionInv'
  BY <1>2, NextKeepsMissionInv
<1>4. MissionInv => M!SignupsHaveMission /\ M!OversoldByRequests
  <2> SUFFICES ASSUME MissionInv, NEW m \in Missions, M!SignedUp(m) # {}
               PROVE  Cardinality(M!SignedUp(m)) < most[m] + Cardinality(Requests)
    BY MissionCount DEF MissionInv, M!OversoldByRequests
  <2>1. Claims(m) < most[m] + Cardinality(Requests) /\ most[m] \in Nat
    BY DEF MissionInv, ClaimsFit, Claimed, M!TypeOK
  <2> QED BY <2>1, ClaimsAreCounted, MissionFacts DEF Claims
<1>5. MissionInv /\ [ClubNext]_clubVars =>
        [\A x \in signed' \ signed :
           \E q \in Requests :
               /\ signup[q] = x
               /\ q \in stale \/ M!Cardinality(M!SignedUp(x[1])) < slots[x[1]]]_mvars
  BY <1>2, PlacesAreFree
<1> QED BY <1>1, <1>3, <1>4, <1>5, PTL
        DEF ClubSpec, SignupsFit, M!SignupsFit, M!TakesOnlyFreePlaces, M!vars, mvars

-----------------------------------------------------------------------------
(* The pages.  Whatever the tables say, a tab stays on the pages of its    *)
(* role and follows a key that has a query.                                *)

KnowsKeys(p) == p.shows \subseteq P!QueryKeys

LEMMA KeysOfPart ==
    ASSUME NEW S \in SUBSET P!QueryKeys, NEW offers
    PROVE  KnowsKeys(P!Part(S, offers))
BY DEF KnowsKeys, P!Part

LEMMA KeysOfPage ==
    ASSUME NEW parts, \A p \in parts : KnowsKeys(p)
    PROVE  KnowsKeys(P!Page(parts))
BY DEF KnowsKeys, P!Page, P!Part

LEMMA KnownKeys ==
    P!QueryKeys =
        {"horses", "adminHorse", "instructorHorse", "healthLogs", "loadAlerts", "spaces",
         "adminSpaces", "planning", "enrollable", "myEnrollments", "enrollments",
         "instructorEnrollments", "horseOptions", "dashboardKpis", "adminMembers",
         "pendingDocuments", "missingLicense", "adminInstructors", "publicPlans", "subscription",
         "subscriptionPlans", "discountRules", "adminInvoices", "adminInvoice", "clientInvoices",
         "paymentConfig", "publicEvents", "adminEvents", "preferences", "notifications",
         "incidents", "criticalIncidents", "missions", "contacts", "conversations", "messages",
         "riders", "affinities", "publicCourses"}
BY DEF P!QueryKeys, P!ClubAsks, P!BillingAsks, P!EngagementAsks, P!RiderAsks, P!HomeAsks

LEMMA KeysOfParts ==
    /\ KnowsKeys(P!NotificationBell) /\ KnowsKeys(P!NotificationInbox) /\ KnowsKeys(P!NotificationPreferences)
    /\ KnowsKeys(P!UpcomingEnrollments) /\ KnowsKeys(P!EnrollSection) /\ KnowsKeys(P!HorsesPanel)
    /\ KnowsKeys(P!SpacesPanel) /\ KnowsKeys(P!RiderCard) /\ KnowsKeys(P!FamilySubscriptionCard)
    /\ KnowsKeys(P!MemberDialogs) /\ KnowsKeys(P!CreateMemberForm) /\ KnowsKeys(P!PendingDocumentCard)
    /\ KnowsKeys(P!MissingLicenseCard) /\ KnowsKeys(P!NewsletterForm)
BY KnownKeys
DEF KnowsKeys, P!Part, P!NotificationBell, P!NotificationInbox, P!NotificationPreferences,
    P!UpcomingEnrollments,
    P!EnrollSection, P!HorsesPanel, P!SpacesPanel, P!RiderCard,
    P!FamilySubscriptionCard, P!MemberDialogs, P!CreateMemberForm, P!PendingDocumentCard,
    P!MissingLicenseCard, P!NewsletterForm

LEMMA KeysOfSimplePages ==
    /\ KnowsKeys(P!ClientEventsPage) /\ KnowsKeys(P!ClientInvoicesPage) /\ KnowsKeys(P!VolunteerPage)
    /\ KnowsKeys(P!AdminVolunteerPage) /\ KnowsKeys(P!MessagesPage) /\ KnowsKeys(P!InstructorPlanningPage)
    /\ KnowsKeys(P!AttendancePage) /\ KnowsKeys(P!InstructorIncidentsPage) /\ KnowsKeys(P!InstructorHealthPage)
    /\ KnowsKeys(P!InstructorHorseHealthPage) /\ KnowsKeys(P!AdminDashboardPage) /\ KnowsKeys(P!AdminPlanningPage)
    /\ KnowsKeys(P!AdminHorsePage) /\ KnowsKeys(P!AdminEventsPage) /\ KnowsKeys(P!AdminIncidentsPage)
    /\ KnowsKeys(P!AdminBillingPage)
BY KnownKeys
DEF KnowsKeys, P!Part, P!Billing, P!ClientEventsPage, P!ClientInvoicesPage, P!VolunteerPage,
    P!AdminVolunteerPage,
    P!MessagesPage, P!InstructorPlanningPage, P!AttendancePage, P!InstructorIncidentsPage,
    P!InstructorHealthPage, P!InstructorHorseHealthPage, P!AdminDashboardPage, P!AdminPlanningPage,
    P!AdminHorsePage, P!AdminEventsPage, P!AdminIncidentsPage, P!AdminBillingPage

LEMMA KeysOfComposedPages ==
    /\ KnowsKeys(P!HomePage) /\ KnowsKeys(P!ClientDashboardPage) /\ KnowsKeys(P!ClientPlanningPage)
    /\ KnowsKeys(P!RidersPage) /\ KnowsKeys(P!ClientAccountPage) /\ KnowsKeys(P!NotificationsPage)
    /\ KnowsKeys(P!AdminCavalryPage) /\ KnowsKeys(P!AdminMembersPage)
<1>1. KnowsKeys(P!HomePage)
  BY KeysOfParts, KnownKeys, KeysOfPage DEF P!HomePage, P!Part, KnowsKeys
<1>2. KnowsKeys(P!ClientDashboardPage)
  BY KeysOfParts, KnownKeys, KeysOfPage DEF P!ClientDashboardPage, P!Part, KnowsKeys
<1>3. KnowsKeys(P!ClientPlanningPage)
  BY KeysOfParts, KnownKeys, KeysOfPage DEF P!ClientPlanningPage, P!Part, KnowsKeys
<1>4. KnowsKeys(P!RidersPage)
  BY KeysOfParts, KnownKeys, KeysOfPage DEF P!RidersPage, P!Part, KnowsKeys
<1>5. KnowsKeys(P!ClientAccountPage)
  BY KeysOfParts, KnownKeys, KeysOfPage DEF P!ClientAccountPage, P!Part, KnowsKeys
<1>6. KnowsKeys(P!NotificationsPage)
  BY KeysOfParts, KnownKeys, KeysOfPage DEF P!NotificationsPage, P!Part, KnowsKeys
<1>7. KnowsKeys(P!AdminCavalryPage)
  BY KeysOfParts, KnownKeys, KeysOfPage DEF P!AdminCavalryPage, P!Part, KnowsKeys
<1>8. KnowsKeys(P!AdminMembersPage)
  BY KeysOfParts, KnownKeys, KeysOfPage DEF P!AdminMembersPage, P!Part, KnowsKeys
<1> QED BY <1>1, <1>2, <1>3, <1>4, <1>5, <1>6, <1>7, <1>8

\* Every page a role may open shows keys that have a query.
LEMMA KeysOfSite ==
    ASSUME NEW r \in DOMAIN P!Site, NEW p \in P!Site[r]
    PROVE  KnowsKeys(p)
<1>1. ASSUME NEW pages, \A x \in pages : KnowsKeys(x), NEW y \in P!Connected(pages)
      PROVE  KnowsKeys(y)
  BY <1>1, KeysOfParts, KeysOfPage DEF P!Connected
<1>2. CASE r = "client"
  BY <1>1, <1>2, KeysOfSimplePages, KeysOfComposedPages DEF P!Site, P!Shared
<1>3. CASE r = "instructor"
  BY <1>1, <1>3, KeysOfSimplePages, KeysOfComposedPages DEF P!Site, P!Shared
<1>4. CASE r = "admin"
  BY <1>1, <1>4, KeysOfSimplePages, KeysOfComposedPages DEF P!Site, P!Shared
<1>5. CASE r = "visitor"
  BY <1>5, KeysOfComposedPages DEF P!Site
<1>6. r \in {"client", "instructor", "admin", "visitor"}
  BY DEF P!Site
<1> QED BY <1>2, <1>3, <1>4, <1>5, <1>6

LEMMA InitPages == P!Init => P!TypeOK
BY KeysOfSite DEF P!Init, P!TypeOK, KnowsKeys

LEMMA NextKeepsPages ==
    ASSUME P!TypeOK, [P!Next]_pvars
    PROVE  P!TypeOK'
<1>1. ASSUME NEW p \in P!Site[role], P!Open(p)
      PROVE  P!TypeOK'
  BY <1>1 DEF P!Open, P!Ask, P!TypeOK
<1>2. ASSUME NEW o, P!Submit(o)
      PROVE  P!TypeOK'
  BY <1>2 DEF P!Submit, P!TypeOK
<1>3. CASE P!Answer
  BY <1>3 DEF P!Answer, P!TypeOK
<1>4. CASE P!Age \/ P!Collect \/ P!Lose
  BY <1>4 DEF P!Age, P!Collect, P!Lose, P!TypeOK
<1>5. CASE P!Poll
  BY <1>5 DEF P!Poll, P!Ask, P!TypeOK
<1>6. CASE P!Commit
  BY <1>6 DEF P!Commit, P!TypeOK
<1>7. CASE P!Succeed
  BY <1>7 DEF P!Succeed, P!Ask, P!TypeOK
<1>8. CASE UNCHANGED pvars
  BY <1>8 DEF pvars, P!TypeOK
<1> QED BY <1>1, <1>2, <1>3, <1>4, <1>5, <1>6, <1>7, <1>8 DEF P!Next

-----------------------------------------------------------------------------
(* The tables of the pages: what each key reads, what each call writes and *)
(* whom its route lets in, looked up once.                                 *)

\* An entry of one of several tables that share none.
LEMMA OneTable ==
    ASSUME NEW tables, NEW t \in tables, NEW x \in DOMAIN t,
           \A u \in tables : x \in DOMAIN u => u = t
    PROVE  P!Join(tables)[x] = t[x]
BY DEF P!Join

LEMMA RoutersListTheirCalls ==
    /\ DOMAIN P!AdminRoutes =
          {"fetchDashboardKpis", "fetchMembers", "createMember", "updateMember",
           "banMember", "unbanMember", "fetchInstructors", "fetchPendingDocuments",
           "reviewDocument", "fetchRidersMissingLicense", "adminUploadLicense",
           "changeFamilySubscription", "runCompatibilityAudit",
           "fetchSubscriptionPlans", "createSubscriptionPlan", "fetchDiscountRules",
           "createDiscountRule", "fetchAdminInvoices", "fetchAdminInvoice",
           "createInvoice", "generateSubscriptionInvoices", "sendInvoice",
           "remindInvoice"}
    /\ DOMAIN P!ClientRoutes =
          {"fetchFamilySubscription", "subscribeFamilyPlan", "fetchClientInvoices",
           "createCheckoutSession", "confirmCheckoutSession", "payInvoice"}
    /\ DOMAIN P!RiderRoutes =
          {"fetchRiders", "createRider", "updateRider", "deleteRider",
           "uploadRiderDocument", "fetchRiderAffinities", "upsertRiderAffinity"}
    /\ DOMAIN P!CourseRoutes =
          {"fetchPlanning", "createCourse", "fetchEnrollableCourses",
           "fetchMyEnrollments", "enrollRider", "fetchEnrollments", "updateAttendance",
           "excuseEnrollment", "assignHorses", "fetchHorseOptions", "overrideHorse"}
    /\ DOMAIN P!EventRoutes =
          {"fetchPublicEvents", "fetchAdminEvents", "createEvent", "updateEvent",
           "deleteEvent", "registerForEvent", "assignEventHorses",
           "cancelEventRegistration"}
    /\ DOMAIN P!HorseRoutes =
          {"fetchHorses", "fetchHorse", "fetchLoadAlerts", "createHorse", "updateHorse",
           "deleteHorse", "uploadHorsePhoto", "deleteHorsePhoto", "fetchHealthLogs",
           "createHealthLog"}
    /\ DOMAIN P!SpaceRoutes =
          {"fetchSpaces", "createSpace", "updateSpace", "deleteSpace"}
    /\ DOMAIN P!IncidentRoutes =
          {"fetchCriticalIncidentCount", "createIncident", "fetchIncidents",
           "resolveIncident"}
    /\ DOMAIN P!MessageRoutes =
          {"fetchMessageContacts", "fetchConversations", "createConversation",
           "fetchConversationMessages", "sendMessage", "markConversationRead"}
    /\ DOMAIN P!NotificationRoutes =
          {"fetchNotificationPreferences", "updateNotificationPreference",
           "fetchNotifications", "markNotificationRead", "markAllNotificationsRead"}
    /\ DOMAIN P!VolunteerRoutes =
          {"fetchVolunteerMissions", "createVolunteerMission", "updateVolunteerMission",
           "deleteVolunteerMission", "signupVolunteerMission"}
    /\ DOMAIN P!PublicRoutes =
          {"fetchPublicPlans", "fetchPaymentConfig", "fetchPublicCourses",
           "subscribeNewsletter"}
BY DEF P!AdminRoutes, P!ClientRoutes, P!RiderRoutes, P!CourseRoutes, P!EventRoutes, P!HorseRoutes,
       P!SpaceRoutes, P!IncidentRoutes, P!MessageRoutes, P!NotificationRoutes, P!VolunteerRoutes, P!PublicRoutes

LEMMA KeysListed ==
    /\ DOMAIN P!ClubAsks =
          {"horses", "adminHorse", "instructorHorse", "healthLogs", "loadAlerts",
           "spaces", "adminSpaces", "planning", "enrollable", "myEnrollments",
           "enrollments", "instructorEnrollments", "horseOptions", "dashboardKpis",
           "adminMembers", "pendingDocuments", "missingLicense", "adminInstructors"}
    /\ DOMAIN P!BillingAsks =
          {"publicPlans", "subscription", "subscriptionPlans", "discountRules",
           "adminInvoices", "adminInvoice", "clientInvoices", "paymentConfig"}
    /\ DOMAIN P!EngagementAsks =
          {"publicEvents", "adminEvents", "preferences", "notifications", "incidents",
           "criticalIncidents", "missions", "contacts", "conversations", "messages"}
    /\ DOMAIN P!RiderAsks =
          {"riders", "affinities"}
    /\ DOMAIN P!HomeAsks =
          {"publicCourses"}
BY DEF P!ClubAsks, P!BillingAsks, P!EngagementAsks, P!RiderAsks, P!HomeAsks

\* Every call has one route, every key one question.
LEMMA Routed ==
    ASSUME NEW t \in P!Routers, NEW c \in DOMAIN t
    PROVE  P!Api[c] = t[c]
<1>1. \A u \in P!Routers : c \in DOMAIN u => u = t
  BY RoutersListTheirCalls DEF P!Routers
<1> QED BY <1>1, OneTable DEF P!Api

LEMMA Asked ==
    ASSUME NEW t \in P!Questions, NEW k \in DOMAIN t
    PROVE  P!Asks[k] = t[k]
<1>1. \A u \in P!Questions : k \in DOMAIN u => u = t
  BY KeysListed DEF P!Questions
<1> QED BY <1>1, OneTable DEF P!Asks
\* What the keys of ClubAsks show, and to whom.
LEMMA ClubAnswers ==
    /\ P!Api[P!Asks["horses"]] = P!Route(P!Member, P!Reads({"horse", "load"}))
    /\ P!Api[P!Asks["adminHorse"]] = P!Route(P!Member, P!Reads({"horse", "load"}))
    /\ P!Api[P!Asks["instructorHorse"]] = P!Route(P!Member, P!Reads({"horse", "load"}))
    /\ P!Api[P!Asks["healthLogs"]] = P!Route(P!Staff, P!Reads({"health", "name"}))
    /\ P!Api[P!Asks["loadAlerts"]] = P!Route(P!Admin, P!Reads({"horse", "load"}))
    /\ P!Api[P!Asks["spaces"]] = P!Route(P!Member, P!Reads({"space"}))
    /\ P!Api[P!Asks["adminSpaces"]] = P!Route(P!Member, P!Reads({"space"}))
    /\ P!Api[P!Asks["planning"]] = P!Route(P!Member, P!Reads({"course", "seat", "space", "coach"}))
    /\ P!Api[P!Asks["enrollable"]] =
          P!Route(P!Client, P!Reads({"course", "seat", "space", "rider"}))
    /\ P!Api[P!Asks["myEnrollments"]] =
          P!Route(P!Client, P!Reads({"seat", "attendance", "rider", "course", "space", "coach"}))
    /\ P!Api[P!Asks["enrollments"]] =
          P!Route(P!Staff, P!Reads({"seat", "attendance", "mount", "rider", "horse"}))
    /\ P!Api[P!Asks["instructorEnrollments"]] =
          P!Route(P!Staff, P!Reads({"seat", "attendance", "mount", "rider", "horse"}))
    /\ P!Api[P!Asks["horseOptions"]] =
          P!Route(P!Staff, P!Reads({"seat", "mount", "rider", "horse", "load", "affinity"}))
    /\ P!Api[P!Asks["dashboardKpis"]] =
          P!Route(P!Admin, P!Reads({"course", "seat", "paid", "horse", "load", "pending"}))
    /\ P!Api[P!Asks["adminMembers"]] =
          P!Route(P!Admin, P!Reads({"member", "name", "ban", "subscription", "plan"}))
    /\ P!Api[P!Asks["pendingDocuments"]] = P!Route(P!Admin, P!Reads({"pending", "rider", "name"}))
    /\ P!Api[P!Asks["missingLicense"]] = P!Route(P!Admin, P!Reads({"missing", "rider", "name"}))
    /\ P!Api[P!Asks["adminInstructors"]] = P!Route(P!Admin, P!Reads({"coach"}))
BY Asked, Routed, RoutersListTheirCalls, KeysListed
DEF P!Questions, P!Routers, P!ClubAsks,
    P!AdminRoutes, P!AdminRows, P!CourseHorseRows, P!CourseRoutes, P!DocumentRows,
    P!EnrollmentRows, P!HorseRoutes, P!HorseRows, P!PlanningRows, P!SpaceRoutes,
    P!SpaceRows

\* What the keys of BillingAsks show, and to whom.
LEMMA BillingAnswers ==
    /\ P!Api[P!Asks["publicPlans"]] = P!Route(P!Anyone, P!Reads({"plan"}))
    /\ P!Api[P!Asks["subscription"]] = P!Route(P!Client, P!Reads({"subscription", "plan"}))
    /\ P!Api[P!Asks["subscriptionPlans"]] = P!Route(P!Admin, P!Reads({"plan"}))
    /\ P!Api[P!Asks["discountRules"]] = P!Route(P!Admin, P!Reads({"rule"}))
    /\ P!Api[P!Asks["adminInvoices"]] = P!Route(P!Admin, P!Reads({"invoice", "paid", "name"}))
    /\ P!Api[P!Asks["adminInvoice"]] = P!Route(P!Admin, P!Reads({"invoice", "paid", "name"}))
    /\ P!Api[P!Asks["clientInvoices"]] = P!Route(P!Client, P!Reads({"invoice", "paid", "name"}))
    /\ P!Api[P!Asks["paymentConfig"]] = P!Route(P!Anyone, P!Reads({"config"}))
BY Asked, Routed, RoutersListTheirCalls, KeysListed
DEF P!Questions, P!Routers, P!BillingAsks,
    P!AdminRoutes, P!CheckoutRows, P!ClientRoutes, P!InvoiceRows, P!PublicRoutes,
    P!SubscriptionRows, P!TariffRows

\* What the keys of EngagementAsks show, and to whom.
LEMMA EngagementAnswers ==
    /\ P!Api[P!Asks["publicEvents"]] = P!Route(P!Anyone, P!Reads({"event", "registration"}))
    /\ P!Api[P!Asks["adminEvents"]] =
          P!Route(P!Admin, P!Reads({"event", "registration", "saddle", "rider", "horse"}))
    /\ P!Api[P!Asks["preferences"]] = P!Route(P!Member, P!Reads({"preference"}))
    /\ P!Api[P!Asks["notifications"]] = P!Route(P!Member, P!Reads({"notice"}))
    /\ P!Api[P!Asks["incidents"]] =
          P!Route(P!Admin, P!Reads({"incident", "name", "horse", "rider", "course"}))
    /\ P!Api[P!Asks["criticalIncidents"]] = P!Route(P!Admin, P!Reads({"incident"}))
    /\ P!Api[P!Asks["missions"]] = P!Route(P!Member, P!Reads({"mission", "signup"}))
    /\ P!Api[P!Asks["contacts"]] = P!Route(P!Member, P!Reads({"member", "name", "ban"}))
    /\ P!Api[P!Asks["conversations"]] =
          P!Route(P!Member, P!Reads({"conversation", "message", "reading", "name"}))
    /\ P!Api[P!Asks["messages"]] = P!Route(P!Member, P!Reads({"message", "name"}))
BY Asked, Routed, RoutersListTheirCalls, KeysListed
DEF P!Questions, P!Routers, P!EngagementAsks,
    P!ConversationRows, P!EventRoutes, P!EventRows, P!IncidentRoutes, P!IncidentRows,
    P!MessageRoutes, P!MessageRows, P!MissionRows, P!NoticeRows, P!NotificationRoutes,
    P!VolunteerRoutes

\* What the keys of RiderAsks show, and to whom.
LEMMA RiderAnswers ==
    /\ P!Api[P!Asks["riders"]] = P!Route(P!Client, P!Reads({"rider", "document"}))
    /\ P!Api[P!Asks["affinities"]] = P!Route(P!Client, P!Reads({"affinity", "horse"}))
BY Asked, Routed, RoutersListTheirCalls, KeysListed
DEF P!Questions, P!Routers, P!RiderAsks,
    P!AffinityRows, P!FamilyRiderRows, P!RiderRoutes

\* What the keys of HomeAsks show, and to whom.
LEMMA HomeAnswers ==
    /\ P!Api[P!Asks["publicCourses"]] = P!Route(P!Anyone, P!Reads({"course", "seat", "space"}))
BY Asked, Routed, RoutersListTheirCalls, KeysListed
DEF P!Questions, P!Routers, P!HomeAsks,
    P!CourseRows, P!PublicRoutes

\* What the calls of AdminRoutes change, and for whom.
LEMMA AdminCalls ==
    /\ P!Api["createMember"] = P!Route(P!Admin, P!Writes({"member", "coach"}))
    /\ P!Api["updateMember"] = P!Route(P!Admin, P!Writes({"name", "coach"}))
    /\ P!Api["banMember"] = P!Route(P!Admin, P!Writes({"ban", "coach"}))
    /\ P!Api["unbanMember"] = P!Route(P!Admin, P!Writes({"ban", "coach"}))
    /\ P!Api["reviewDocument"] = P!Route(P!Admin, P!Writes({"document", "pending"}))
    /\ P!Api["adminUploadLicense"] = P!Route(P!Admin, P!Writes({"document", "pending", "missing"}))
    /\ P!Api["changeFamilySubscription"] = P!Route(P!Admin, P!Writes({"subscription"}))
    /\ P!Api["runCompatibilityAudit"] =
          P!Route(P!Admin, P!Reads({"course", "seat", "mount", "rider", "horse", "load", "affinity"}))
    /\ P!Api["createSubscriptionPlan"] = P!Route(P!Admin, P!Writes({"plan"}))
    /\ P!Api["createDiscountRule"] = P!Route(P!Admin, P!Writes({"rule"}))
    /\ P!Api["createInvoice"] = P!Route(P!Admin, P!Writes({"invoice"}))
    /\ P!Api["generateSubscriptionInvoices"] = P!Route(P!Admin, P!Writes({"invoice"}))
    /\ P!Api["sendInvoice"] = P!Route(P!Admin, P!Writes({"invoice"}))
    /\ P!Api["remindInvoice"] = P!Route(P!Admin, P!Writes({"invoice"}))
BY Routed, RoutersListTheirCalls
DEF P!Routers, P!AdminRoutes,
    P!AccountRows, P!AuditRows, P!BanRows, P!DocumentRows, P!InvoiceRows, P!SendingRows,
    P!SubscriptionRows, P!TariffRows

\* What the calls of ClientRoutes change, and for whom.
LEMMA ClientCalls ==
    /\ P!Api["subscribeFamilyPlan"] = P!Route(P!Client, P!Writes({"subscription"}))
    /\ P!Api["createCheckoutSession"] = P!Route(P!Client, P!Writes({"attempt"}))
    /\ P!Api["confirmCheckoutSession"] = P!Route(P!Client, P!Writes({"paid"}))
    /\ P!Api["payInvoice"] = P!Route(P!Client, P!Writes({"paid"}))
BY Routed, RoutersListTheirCalls
DEF P!Routers, P!ClientRoutes,
    P!CheckoutRows, P!SettlingRows, P!SubscriptionRows

\* What the calls of RiderRoutes change, and for whom.
LEMMA RiderCalls ==
    /\ P!Api["createRider"] = P!Route(P!Client, P!Writes({"rider"}))
    /\ P!Api["updateRider"] = P!Route(P!Client, P!Writes({"rider"}))
    /\ P!Api["deleteRider"] =
          P!Route(P!Client, P!Writes({"rider", "document", "pending", "missing"}))
    /\ P!Api["uploadRiderDocument"] =
          P!Route(P!Client, P!Writes({"document", "pending", "missing"}))
    /\ P!Api["upsertRiderAffinity"] = P!Route(P!Client, P!Writes({"affinity"}))
BY Routed, RoutersListTheirCalls
DEF P!Routers, P!RiderRoutes,
    P!AffinityRows, P!FamilyRiderRows

\* What the calls of CourseRoutes change, and for whom.
LEMMA CourseCalls ==
    /\ P!Api["createCourse"] = P!Route(P!Admin, P!Writes({"course"}))
    /\ P!Api["enrollRider"] = P!Route(P!Client \cup P!Admin, P!Writes({"seat", "subscription"}))
    /\ P!Api["updateAttendance"] = P!Route(P!Member, P!Writes({"attendance"}))
    /\ P!Api["excuseEnrollment"] = P!Route(P!Member, P!Writes({"attendance"}))
    /\ P!Api["assignHorses"] = P!Route(P!Staff, P!Writes({"mount", "load"}))
    /\ P!Api["overrideHorse"] = P!Route(P!Staff, P!Writes({"mount", "load"}))
BY Routed, RoutersListTheirCalls
DEF P!Routers, P!CourseRoutes,
    P!CourseHorseRows, P!CourseRows, P!EnrollmentRows, P!PlanningRows

\* What the calls of EventRoutes change, and for whom.
LEMMA EventCalls ==
    /\ P!Api["createEvent"] = P!Route(P!Admin, P!Writes({"event"}))
    /\ P!Api["updateEvent"] = P!Route(P!Admin, P!Writes({"event"}))
    /\ P!Api["deleteEvent"] = P!Route(P!Admin, P!Writes({"event"}))
    /\ P!Api["registerForEvent"] =
          P!Route(P!Client \cup P!Admin, P!Writes({"registration", "invoice", "saddle", "load"}))
    /\ P!Api["assignEventHorses"] = P!Route(P!Admin, P!Writes({"saddle", "load"}))
    /\ P!Api["cancelEventRegistration"] =
          P!Route(P!Client \cup P!Admin, P!Writes({"registration", "saddle", "load"}))
BY Routed, RoutersListTheirCalls
DEF P!Routers, P!EventRoutes,
    P!CancellationRows, P!EventRows, P!RegistrationRows

\* What the calls of HorseRoutes change, and for whom.
LEMMA HorseCalls ==
    /\ P!Api["createHorse"] = P!Route(P!Admin, P!Writes({"horse"}))
    /\ P!Api["updateHorse"] = P!Route(P!Admin, P!Writes({"horse"}))
    /\ P!Api["deleteHorse"] = P!Route(P!Admin, P!Writes({"horse"}))
    /\ P!Api["uploadHorsePhoto"] = P!Route(P!Admin, P!Writes({"horse"}))
    /\ P!Api["deleteHorsePhoto"] = P!Route(P!Admin, P!Writes({"horse"}))
    /\ P!Api["createHealthLog"] = P!Route(P!Admin, P!Writes({"health"}))
BY Routed, RoutersListTheirCalls
DEF P!Routers, P!HorseRoutes,
    P!HorseRows

\* What the calls of SpaceRoutes change, and for whom.
LEMMA SpaceCalls ==
    /\ P!Api["createSpace"] = P!Route(P!Admin, P!Writes({"space"}))
    /\ P!Api["updateSpace"] = P!Route(P!Admin, P!Writes({"space"}))
    /\ P!Api["deleteSpace"] = P!Route(P!Admin, P!Writes({"space"}))
BY Routed, RoutersListTheirCalls
DEF P!Routers, P!SpaceRoutes,
    P!SpaceRows

\* What the calls of IncidentRoutes change, and for whom.
LEMMA IncidentCalls ==
    /\ P!Api["createIncident"] = P!Route(P!Staff, P!Writes({"incident"}))
    /\ P!Api["resolveIncident"] = P!Route(P!Admin, P!Writes({"incident"}))
BY Routed, RoutersListTheirCalls
DEF P!Routers, P!IncidentRoutes,
    P!IncidentRows

\* What the calls of MessageRoutes change, and for whom.
LEMMA MessageCalls ==
    /\ P!Api["createConversation"] = P!Route(P!Member, P!Writes({"conversation"}))
    /\ P!Api["sendMessage"] = P!Route(P!Member, P!Writes({"message", "conversation", "reading"}))
    /\ P!Api["markConversationRead"] = P!Route(P!Member, P!Writes({"reading"}))
BY Routed, RoutersListTheirCalls
DEF P!Routers, P!MessageRoutes,
    P!ConversationRows, P!MessageRows

\* What the calls of NotificationRoutes change, and for whom.
LEMMA NotificationCalls ==
    /\ P!Api["updateNotificationPreference"] = P!Route(P!Member, P!Writes({"preference"}))
    /\ P!Api["markNotificationRead"] = P!Route(P!Member, P!Writes({"notice"}))
    /\ P!Api["markAllNotificationsRead"] = P!Route(P!Member, P!Writes({"notice"}))
BY Routed, RoutersListTheirCalls
DEF P!Routers, P!NotificationRoutes,
    P!NoticeRows

\* What the calls of VolunteerRoutes change, and for whom.
LEMMA VolunteerCalls ==
    /\ P!Api["createVolunteerMission"] = P!Route(P!Admin, P!Writes({"mission"}))
    /\ P!Api["updateVolunteerMission"] = P!Route(P!Admin, P!Writes({"mission"}))
    /\ P!Api["deleteVolunteerMission"] = P!Route(P!Admin, P!Writes({"mission"}))
    /\ P!Api["signupVolunteerMission"] = P!Route(P!Client, P!Writes({"signup"}))
BY Routed, RoutersListTheirCalls
DEF P!Routers, P!VolunteerRoutes,
    P!MissionRows

\* What the calls of PublicRoutes change, and for whom.
LEMMA PublicCalls ==
    /\ P!Api["subscribeNewsletter"] = P!Route(P!Anyone, P!Writes({"newsletter"}))
BY Routed, RoutersListTheirCalls
DEF P!Routers, P!PublicRoutes,
    P!NewsletterRows

-----------------------------------------------------------------------------
(* The pages: each operation names what it changes, and asks what it may.  *)

\* What an operation changes of what its page shows is refreshed, set, polled, or left behind
\* with the page, but for the cases of Forgotten; its route lets the role in.
OpFits(o, shows, r) ==
    /\ r \in P!Api[o.call].who
    /\ \A k \in shows :
          P!Api[o.call].writes \cap P!Api[P!Asks[k]].reads # {} =>
              \/ k \in o.refreshes \cup o.sets \cup P!Polled
              \/ o.leads # {} \/ <<o.call, k>> \in P!Forgotten

\* So it is for the operations of a page, and the role may see what the page shows.
Fits(p, r) ==
    /\ \A k \in p.shows : r \in P!Api[P!Asks[k]].who
    /\ \A o \in p.offers : OpFits(o, p.shows, r)

\* The pages of a client.
LEMMA ClientPagesFit ==
    /\ Fits(P!MessagesPage, "client")
    /\ Fits(P!NotificationsPage, "client")
    /\ Fits(P!ClientDashboardPage, "client")
    /\ Fits(P!ClientPlanningPage, "client")
    /\ Fits(P!RidersPage, "client")
    /\ Fits(P!ClientEventsPage, "client")
    /\ Fits(P!VolunteerPage, "client")
    /\ Fits(P!ClientInvoicesPage, "client")
    /\ Fits(P!ClientAccountPage, "client")
<1> USE DEF P!Route, P!Reads, P!Writes, P!Client, P!Instructor, P!Admin, P!Staff, P!Member,
               P!Anyone, P!Polled, P!Forgotten, P!Op, P!Ops, P!Patch, P!Leave
<1>1. Fits(P!MessagesPage, "client")
  BY EngagementAnswers, MessageCalls
  DEF Fits, OpFits, P!MessagesPage, P!Part
<1>2. Fits(P!NotificationsPage, "client")
  <2> DEFINE shows == {"notifications", "preferences"}
  <2>1. P!NotificationsPage.shows = shows
    BY DEF P!NotificationsPage, P!NotificationInbox, P!NotificationPreferences, P!Page, P!Part
  <2>2. \A o \in P!NotificationsPage.offers :
            \/ o = P!Op("updateNotificationPreference", {"preferences"})
            \/ o = P!Patch("markNotificationRead", "notifications", {})
            \/ o = P!Patch("markAllNotificationsRead", "notifications", {})
    BY DEF P!NotificationsPage, P!NotificationInbox, P!NotificationPreferences, P!Page, P!Part
  <2>3. \A k \in shows : "client" \in P!Api[P!Asks[k]].who
    BY EngagementAnswers
  <2>4. OpFits(P!Op("updateNotificationPreference", {"preferences"}), shows, "client")
    BY EngagementAnswers, NotificationCalls DEF OpFits
  <2>5. OpFits(P!Patch("markNotificationRead", "notifications", {}), shows, "client")
    BY EngagementAnswers, NotificationCalls DEF OpFits
  <2>6. OpFits(P!Patch("markAllNotificationsRead", "notifications", {}), shows, "client")
    BY EngagementAnswers, NotificationCalls DEF OpFits
  <2> QED BY <2>1, <2>2, <2>3, <2>4, <2>5, <2>6 DEF Fits
<1>3. Fits(P!ClientDashboardPage, "client")
  BY ClubAnswers, BillingAnswers, RiderAnswers, CourseCalls
  DEF Fits, OpFits, P!ClientDashboardPage, P!UpcomingEnrollments, P!Page, P!Part
<1>4. Fits(P!ClientPlanningPage, "client")
  BY ClubAnswers, RiderAnswers, CourseCalls
  DEF Fits, OpFits, P!ClientPlanningPage, P!UpcomingEnrollments, P!EnrollSection, P!Page,
     P!Part
<1>5. Fits(P!RidersPage, "client")
  <2> DEFINE shows == {"riders", "horses", "affinities"}
  <2>1. P!RidersPage.shows = shows
    BY DEF P!RidersPage, P!RiderCard, P!Page, P!Part
  <2>2. \A o \in P!RidersPage.offers :
            \/ o = P!Op("uploadRiderDocument", {"riders"})
            \/ o = P!Op("upsertRiderAffinity", {"affinities"})
            \/ o = P!Op("createRider", {"riders"})
            \/ o = P!Op("updateRider", {"riders"})
            \/ o = P!Op("deleteRider", {"riders"})
    BY DEF P!RidersPage, P!RiderCard, P!Page, P!Part
  <2>3. \A k \in shows : "client" \in P!Api[P!Asks[k]].who
    BY ClubAnswers, RiderAnswers
  <2>4. OpFits(P!Op("uploadRiderDocument", {"riders"}), shows, "client")
    BY ClubAnswers, RiderAnswers, RiderCalls DEF OpFits
  <2>5. OpFits(P!Op("upsertRiderAffinity", {"affinities"}), shows, "client")
    BY ClubAnswers, RiderAnswers, RiderCalls DEF OpFits
  <2>6. OpFits(P!Op("createRider", {"riders"}), shows, "client")
    BY ClubAnswers, RiderAnswers, RiderCalls DEF OpFits
  <2>7. OpFits(P!Op("updateRider", {"riders"}), shows, "client")
    BY ClubAnswers, RiderAnswers, RiderCalls DEF OpFits
  <2>8. OpFits(P!Op("deleteRider", {"riders"}), shows, "client")
    BY ClubAnswers, RiderAnswers, RiderCalls DEF OpFits
  <2> QED BY <2>1, <2>2, <2>3, <2>4, <2>5, <2>6, <2>7, <2>8 DEF Fits
<1>6. Fits(P!ClientEventsPage, "client")
  BY EngagementAnswers, RiderAnswers, EventCalls
  DEF Fits, OpFits, P!ClientEventsPage, P!Part
<1>7. Fits(P!VolunteerPage, "client")
  BY EngagementAnswers, VolunteerCalls
  DEF Fits, OpFits, P!VolunteerPage, P!Part
<1>8. Fits(P!ClientInvoicesPage, "client")
  BY BillingAnswers, ClientCalls
  DEF Fits, OpFits, P!ClientInvoicesPage, P!Part
<1>9. Fits(P!ClientAccountPage, "client")
  BY BillingAnswers, ClientCalls
  DEF Fits, OpFits, P!ClientAccountPage, P!FamilySubscriptionCard, P!Page, P!Part
<1> QED BY <1>1, <1>2, <1>3, <1>4, <1>5, <1>6, <1>7, <1>8, <1>9

\* The pages of an instructor.
LEMMA InstructorPagesFit ==
    /\ Fits(P!MessagesPage, "instructor")
    /\ Fits(P!NotificationsPage, "instructor")
    /\ Fits(P!InstructorPlanningPage, "instructor")
    /\ Fits(P!AttendancePage, "instructor")
    /\ Fits(P!InstructorIncidentsPage, "instructor")
    /\ Fits(P!InstructorHealthPage, "instructor")
    /\ Fits(P!InstructorHorseHealthPage, "instructor")
<1> USE DEF P!Route, P!Reads, P!Writes, P!Client, P!Instructor, P!Admin, P!Staff, P!Member,
               P!Anyone, P!Polled, P!Forgotten, P!Op, P!Ops, P!Patch, P!Leave
<1>1. Fits(P!MessagesPage, "instructor")
  BY EngagementAnswers, MessageCalls
  DEF Fits, OpFits, P!MessagesPage, P!Part
<1>2. Fits(P!NotificationsPage, "instructor")
  <2> DEFINE shows == {"notifications", "preferences"}
  <2>1. P!NotificationsPage.shows = shows
    BY DEF P!NotificationsPage, P!NotificationInbox, P!NotificationPreferences, P!Page, P!Part
  <2>2. \A o \in P!NotificationsPage.offers :
            \/ o = P!Op("updateNotificationPreference", {"preferences"})
            \/ o = P!Patch("markNotificationRead", "notifications", {})
            \/ o = P!Patch("markAllNotificationsRead", "notifications", {})
    BY DEF P!NotificationsPage, P!NotificationInbox, P!NotificationPreferences, P!Page, P!Part
  <2>3. \A k \in shows : "instructor" \in P!Api[P!Asks[k]].who
    BY EngagementAnswers
  <2>4. OpFits(P!Op("updateNotificationPreference", {"preferences"}), shows, "instructor")
    BY EngagementAnswers, NotificationCalls DEF OpFits
  <2>5. OpFits(P!Patch("markNotificationRead", "notifications", {}), shows, "instructor")
    BY EngagementAnswers, NotificationCalls DEF OpFits
  <2>6. OpFits(P!Patch("markAllNotificationsRead", "notifications", {}), shows, "instructor")
    BY EngagementAnswers, NotificationCalls DEF OpFits
  <2> QED BY <2>1, <2>2, <2>3, <2>4, <2>5, <2>6 DEF Fits
<1>3. Fits(P!InstructorPlanningPage, "instructor")
  BY ClubAnswers, CourseCalls
  DEF Fits, OpFits, P!InstructorPlanningPage, P!Part
<1>4. Fits(P!AttendancePage, "instructor")
  BY ClubAnswers, CourseCalls
  DEF Fits, OpFits, P!AttendancePage, P!Part
<1>5. Fits(P!InstructorIncidentsPage, "instructor")
  BY EngagementAnswers, IncidentCalls
  DEF Fits, OpFits, P!InstructorIncidentsPage, P!Part
<1>6. Fits(P!InstructorHealthPage, "instructor")
  BY ClubAnswers
  DEF Fits, OpFits, P!InstructorHealthPage, P!Part
<1>7. Fits(P!InstructorHorseHealthPage, "instructor")
  BY ClubAnswers
  DEF Fits, OpFits, P!InstructorHorseHealthPage, P!Part
<1> QED BY <1>1, <1>2, <1>3, <1>4, <1>5, <1>6, <1>7

\* The pages of an admin.
LEMMA AdminPagesFit ==
    /\ Fits(P!MessagesPage, "admin")
    /\ Fits(P!NotificationsPage, "admin")
    /\ Fits(P!AdminDashboardPage, "admin")
    /\ Fits(P!AdminPlanningPage, "admin")
    /\ Fits(P!AdminCavalryPage, "admin")
    /\ Fits(P!AdminHorsePage, "admin")
    /\ Fits(P!AdminEventsPage, "admin")
    /\ Fits(P!AdminIncidentsPage, "admin")
    /\ Fits(P!AdminVolunteerPage, "admin")
    /\ Fits(P!AdminBillingPage, "admin")
    /\ Fits(P!AdminMembersPage, "admin")
<1> USE DEF P!Route, P!Reads, P!Writes, P!Client, P!Instructor, P!Admin, P!Staff, P!Member,
               P!Anyone, P!Polled, P!Forgotten, P!Op, P!Ops, P!Patch, P!Leave
<1>1. Fits(P!MessagesPage, "admin")
  BY EngagementAnswers, MessageCalls
  DEF Fits, OpFits, P!MessagesPage, P!Part
<1>2. Fits(P!NotificationsPage, "admin")
  <2> DEFINE shows == {"notifications", "preferences"}
  <2>1. P!NotificationsPage.shows = shows
    BY DEF P!NotificationsPage, P!NotificationInbox, P!NotificationPreferences, P!Page, P!Part
  <2>2. \A o \in P!NotificationsPage.offers :
            \/ o = P!Op("updateNotificationPreference", {"preferences"})
            \/ o = P!Patch("markNotificationRead", "notifications", {})
            \/ o = P!Patch("markAllNotificationsRead", "notifications", {})
    BY DEF P!NotificationsPage, P!NotificationInbox, P!NotificationPreferences, P!Page, P!Part
  <2>3. \A k \in shows : "admin" \in P!Api[P!Asks[k]].who
    BY EngagementAnswers
  <2>4. OpFits(P!Op("updateNotificationPreference", {"preferences"}), shows, "admin")
    BY EngagementAnswers, NotificationCalls DEF OpFits
  <2>5. OpFits(P!Patch("markNotificationRead", "notifications", {}), shows, "admin")
    BY EngagementAnswers, NotificationCalls DEF OpFits
  <2>6. OpFits(P!Patch("markAllNotificationsRead", "notifications", {}), shows, "admin")
    BY EngagementAnswers, NotificationCalls DEF OpFits
  <2> QED BY <2>1, <2>2, <2>3, <2>4, <2>5, <2>6 DEF Fits
<1>3. Fits(P!AdminDashboardPage, "admin")
  BY ClubAnswers, EngagementAnswers
  DEF Fits, OpFits, P!AdminDashboardPage, P!Part
<1>4. Fits(P!AdminPlanningPage, "admin")
  BY ClubAnswers, AdminCalls, CourseCalls
  DEF Fits, OpFits, P!AdminPlanningPage, P!Part
<1>5. Fits(P!AdminCavalryPage, "admin")
  <2> DEFINE shows == {"horses", "spaces"}
  <2>1. P!AdminCavalryPage.shows = shows
    BY DEF P!AdminCavalryPage, P!HorsesPanel, P!SpacesPanel, P!Page, P!Part
  <2>2. \A o \in P!AdminCavalryPage.offers :
            \/ o = P!Leave("createHorse", {"horses"}, "adminHorse")
            \/ o = P!Op("createSpace", {"spaces"})
            \/ o = P!Op("updateSpace", {"spaces"})
            \/ o = P!Op("deleteSpace", {"spaces"})
    BY DEF P!AdminCavalryPage, P!HorsesPanel, P!SpacesPanel, P!Page, P!Part
  <2>3. \A k \in shows : "admin" \in P!Api[P!Asks[k]].who
    BY ClubAnswers
  <2>4. OpFits(P!Leave("createHorse", {"horses"}, "adminHorse"), shows, "admin")
    BY ClubAnswers, HorseCalls DEF OpFits
  <2>5. OpFits(P!Op("createSpace", {"spaces"}), shows, "admin")
    BY ClubAnswers, SpaceCalls DEF OpFits
  <2>6. OpFits(P!Op("updateSpace", {"spaces"}), shows, "admin")
    BY ClubAnswers, SpaceCalls DEF OpFits
  <2>7. OpFits(P!Op("deleteSpace", {"spaces"}), shows, "admin")
    BY ClubAnswers, SpaceCalls DEF OpFits
  <2> QED BY <2>1, <2>2, <2>3, <2>4, <2>5, <2>6, <2>7 DEF Fits
<1>6. Fits(P!AdminHorsePage, "admin")
  <2> DEFINE shows == {"adminHorse", "healthLogs"}
  <2>1. P!AdminHorsePage.shows = shows
    BY DEF P!AdminHorsePage, P!Part
  <2>2. \A o \in P!AdminHorsePage.offers :
            \/ o = P!Op("createHealthLog", {"healthLogs"})
            \/ o = P!Leave("deleteHorse", {"horses"}, "spaces")
            \/ o = P!Patch("updateHorse", "adminHorse", {"horses"})
            \/ o = P!Patch("uploadHorsePhoto", "adminHorse", {"horses"})
            \/ o = P!Patch("deleteHorsePhoto", "adminHorse", {"horses"})
    BY DEF P!AdminHorsePage, P!Part
  <2>3. \A k \in shows : "admin" \in P!Api[P!Asks[k]].who
    BY ClubAnswers
  <2>4. OpFits(P!Op("createHealthLog", {"healthLogs"}), shows, "admin")
    BY ClubAnswers, HorseCalls DEF OpFits
  <2>5. OpFits(P!Leave("deleteHorse", {"horses"}, "spaces"), shows, "admin")
    BY ClubAnswers, HorseCalls DEF OpFits
  <2>6. OpFits(P!Patch("updateHorse", "adminHorse", {"horses"}), shows, "admin")
    BY ClubAnswers, HorseCalls DEF OpFits
  <2>7. OpFits(P!Patch("uploadHorsePhoto", "adminHorse", {"horses"}), shows, "admin")
    BY ClubAnswers, HorseCalls DEF OpFits
  <2>8. OpFits(P!Patch("deleteHorsePhoto", "adminHorse", {"horses"}), shows, "admin")
    BY ClubAnswers, HorseCalls DEF OpFits
  <2> QED BY <2>1, <2>2, <2>3, <2>4, <2>5, <2>6, <2>7, <2>8 DEF Fits
<1>7. Fits(P!AdminEventsPage, "admin")
  BY EngagementAnswers, EventCalls
  DEF Fits, OpFits, P!AdminEventsPage, P!Part
<1>8. Fits(P!AdminIncidentsPage, "admin")
  BY EngagementAnswers, IncidentCalls
  DEF Fits, OpFits, P!AdminIncidentsPage, P!Part
<1>9. Fits(P!AdminVolunteerPage, "admin")
  BY EngagementAnswers, VolunteerCalls
  DEF Fits, OpFits, P!AdminVolunteerPage, P!Part
<1>10. Fits(P!AdminBillingPage, "admin")
  BY BillingAnswers, AdminCalls
  DEF Fits, OpFits, P!AdminBillingPage, P!Billing, P!Part
<1>11. Fits(P!AdminMembersPage, "admin")
  <2> DEFINE shows == {"adminMembers", "pendingDocuments", "missingLicense", "subscriptionPlans"}
  <2>1. P!AdminMembersPage.shows = shows
    BY DEF P!AdminMembersPage, P!CreateMemberForm, P!MemberDialogs, P!PendingDocumentCard,
       P!MissingLicenseCard, P!Page, P!Part
  <2>2. \A o \in P!AdminMembersPage.offers :
            \/ o = P!Op("createMember", {"adminMembers", "adminInstructors"})
            \/ o = P!Op("reviewDocument", {"pendingDocuments", "dashboardKpis"})
            \/ o = P!Op("adminUploadLicense", {"missingLicense", "pendingDocuments"})
            \/ o = P!Op("banMember", {"adminMembers"})
            \/ o = P!Op("unbanMember", {"adminMembers"})
            \/ o = P!Op("updateMember", {"adminMembers"})
            \/ o = P!Op("changeFamilySubscription", {"adminMembers"})
    BY DEF P!AdminMembersPage, P!CreateMemberForm, P!MemberDialogs, P!PendingDocumentCard,
       P!MissingLicenseCard, P!Page, P!Part
  <2>3. \A k \in shows : "admin" \in P!Api[P!Asks[k]].who
    BY ClubAnswers, BillingAnswers
  <2>4. OpFits(P!Op("createMember", {"adminMembers", "adminInstructors"}), shows, "admin")
    BY ClubAnswers, BillingAnswers, AdminCalls DEF OpFits
  <2>5. OpFits(P!Op("reviewDocument", {"pendingDocuments", "dashboardKpis"}), shows, "admin")
    BY ClubAnswers, BillingAnswers, AdminCalls DEF OpFits
  <2>6. OpFits(P!Op("adminUploadLicense", {"missingLicense", "pendingDocuments"}), shows, "admin")
    BY ClubAnswers, BillingAnswers, AdminCalls DEF OpFits
  <2>7. OpFits(P!Op("banMember", {"adminMembers"}), shows, "admin")
    BY ClubAnswers, BillingAnswers, AdminCalls DEF OpFits
  <2>8. OpFits(P!Op("unbanMember", {"adminMembers"}), shows, "admin")
    BY ClubAnswers, BillingAnswers, AdminCalls DEF OpFits
  <2>9. OpFits(P!Op("updateMember", {"adminMembers"}), shows, "admin")
    BY ClubAnswers, BillingAnswers, AdminCalls DEF OpFits
  <2>10. OpFits(P!Op("changeFamilySubscription", {"adminMembers"}), shows, "admin")
    BY ClubAnswers, BillingAnswers, AdminCalls DEF OpFits
  <2> QED BY <2>1, <2>2, <2>3, <2>4, <2>5, <2>6, <2>7, <2>8, <2>9, <2>10 DEF Fits
<1> QED BY <1>1, <1>2, <1>3, <1>4, <1>5, <1>6, <1>7, <1>8, <1>9, <1>10, <1>11

\* The pages of a visitor.
LEMMA VisitorPagesFit ==
    /\ Fits(P!HomePage, "visitor")
<1> USE DEF P!Route, P!Reads, P!Writes, P!Client, P!Instructor, P!Admin, P!Staff, P!Member,
               P!Anyone, P!Polled, P!Forgotten, P!Op, P!Ops, P!Patch, P!Leave
<1>1. Fits(P!HomePage, "visitor")
  BY BillingAnswers, EngagementAnswers, HomeAnswers, PublicCalls
  DEF Fits, OpFits, P!HomePage, P!NewsletterForm, P!Page, P!Part
<1> QED BY <1>1
\* The bell, which every page under RequireAuth shows, is polled.
LEMMA BellFits ==
    ASSUME NEW pages, NEW r \in {"client", "instructor", "admin"}, \A q \in pages : Fits(q, r),
           NEW p \in P!Connected(pages)
    PROVE  Fits(p, r)
<1>1. PICK q \in pages : p = P!Page({P!NotificationBell, q})
  BY DEF P!Connected
<1>2. p.shows = {"notifications"} \cup q.shows /\ p.offers = q.offers
  BY <1>1 DEF P!Page, P!Part, P!NotificationBell
<1>3. r \in P!Api[P!Asks["notifications"]].who
  BY EngagementAnswers DEF P!Route, P!Member, P!Staff, P!Client, P!Instructor, P!Admin
<1>4. Fits(q, r)
  OBVIOUS
<1>5. ASSUME NEW o \in q.offers
      PROVE  OpFits(o, p.shows, r)
  BY <1>2, <1>4 DEF Fits, OpFits, P!Polled
<1> QED BY <1>2, <1>3, <1>4, <1>5 DEF Fits

\* The whole site.
LEMMA SiteFits ==
    ASSUME NEW r \in DOMAIN P!Site, NEW p \in P!Site[r]
    PROVE  Fits(p, r)
<1>1. CASE r = "client"
  BY <1>1, ClientPagesFit, BellFits DEF P!Site, P!Shared
<1>2. CASE r = "instructor"
  BY <1>2, InstructorPagesFit, BellFits DEF P!Site, P!Shared
<1>3. CASE r = "admin"
  BY <1>3, AdminPagesFit, BellFits DEF P!Site, P!Shared
<1>4. CASE r = "visitor"
  BY <1>4, VisitorPagesFit DEF P!Site
<1>5. r \in {"client", "instructor", "admin", "visitor"}
  BY DEF P!Site
<1> QED BY <1>1, <1>2, <1>3, <1>4, <1>5

-----------------------------------------------------------------------------
(* The cache.  Between an operation and its callback the entry may be      *)
(* anything; afterwards an entry that is behind is no longer trusted, and  *)
(* what is on its way to the screen was asked for after the change.        *)

\* What an operation under way owes to the page it was submitted on.
OpInv ==
    phase # "idle" =>
        /\ P!Touches(op) \/ watched \in op.refreshes \cup op.sets
        /\ origin # P!NoPage =>
              OpFits(op, origin.shows, role) /\ <<op.call, watched>> \notin P!Forgotten

\* What holds once the operation has succeeded, unless a load escaped it: none that was sent
\* before the change is left, also where there is no entry yet, and one that is left behind is
\* not trusted.
BehindInv ==
    phase = "idle" /\ ~escaped /\ watched \in origin.shows \ P!Polled =>
        /\ load # "late"
        /\ behind => entry # "fresh" /\ (watched \in page.shows => load = "current")

PageInv == P!TypeOK /\ OpInv /\ BehindInv

LEMMA NextKeepsPageInv ==
    ASSUME PageInv, [P!Next]_pvars
    PROVE  PageInv'
<1>0. P!TypeOK'
  BY NextKeepsPages DEF PageInv
<1> SUFFICES OpInv' /\ BehindInv'
  BY <1>0 DEF PageInv
<1>1. ASSUME NEW p \in P!Site[role], P!Open(p)
      PROVE  OpInv' /\ BehindInv'
  BY <1>1 DEF P!Open, P!Ask, PageInv, OpInv, BehindInv, P!Touches, P!TypeOK
<1>2. ASSUME NEW o \in page.offers, P!Submit(o)
      PROVE  OpInv' /\ BehindInv'
  <2>1. OpFits(o, page.shows, role)
    BY SiteFits DEF PageInv, P!TypeOK, Fits
  <2>2. /\ op' = o /\ phase' = "sent" /\ UNCHANGED <<role, watched>>
        /\ origin' = IF <<o.call, watched>> \in P!Forgotten THEN P!NoPage ELSE page
        /\ P!Touches(o) \/ watched \in o.refreshes \cup o.sets
    BY <1>2 DEF P!Submit
  <2>3. OpInv'
    BY <2>1, <2>2 DEF OpInv, OpFits, P!Touches
  <2> QED BY <2>2, <2>3 DEF BehindInv
<1>3. CASE P!Answer
  BY <1>3 DEF P!Answer, PageInv, OpInv, BehindInv, P!Touches
<1>4. CASE P!Age \/ P!Collect
  BY <1>4 DEF P!Age, P!Collect, PageInv, OpInv, BehindInv, P!Touches
<1>5. CASE P!Poll
  BY <1>5 DEF P!Poll, P!Ask, PageInv, OpInv, BehindInv, P!Touches, P!TypeOK
<1>6. CASE P!Commit
  BY <1>6 DEF P!Commit, PageInv, OpInv, BehindInv, P!Touches
<1>7. CASE P!Succeed
  <2>1. /\ phase = "written" /\ phase' = "idle" /\ UNCHANGED <<role, watched>>
        /\ behind' = (behind /\ watched \notin op.sets)
        /\ origin' = IF op.leads = {} THEN origin ELSE P!NoPage
    BY <1>7 DEF P!Succeed
  <2>2. OpInv'
    BY <2>1 DEF OpInv
  <2> SUFFICES BehindInv'
    BY <2>2
  <2>3. CASE op.leads # {}
    BY <2>1, <2>3 DEF BehindInv, P!NoPage, P!Part
  <2>4. CASE op.leads = {} /\ watched \in op.refreshes
    <3>1. /\ page' = page /\ entry' = IF entry = "none" THEN "none" ELSE "old"
          /\ escaped' = (load' = "late")
          /\ load' = IF watched \in page.shows /\ (entry # "none" \/ load = "no")
                     THEN "current" ELSE load
      BY <1>7, <2>4 DEF P!Succeed, P!Restarts
    <3>2. load \in {"no", "current", "late"} /\ entry \in {"none", "fresh", "old"}
      BY DEF PageInv, P!TypeOK
    <3> QED BY <2>1, <3>1, <3>2 DEF BehindInv
  <2>5. CASE op.leads = {} /\ watched \notin op.refreshes
    <3>0. watched \in op.sets => escaped' = (load' = "late")
      BY <1>7 DEF P!Succeed
    <3> SUFFICES ASSUME watched \notin op.sets, watched \in origin.shows \ P!Polled
                 PROVE  FALSE
      BY <2>1, <2>5, <3>0 DEF BehindInv
    <3>1. P!Touches(op) /\ origin # P!NoPage
      BY <2>1, <2>5 DEF PageInv, OpInv, P!NoPage, P!Part
    <3>2. OpFits(op, origin.shows, role) /\ <<op.call, watched>> \notin P!Forgotten
      BY <2>1, <3>1 DEF PageInv, OpInv
    <3> QED BY <2>5, <3>1, <3>2 DEF OpFits, P!Touches
  <2> QED BY <2>3, <2>4, <2>5
<1>8. CASE P!Lose
  BY <1>8 DEF P!Lose, OpInv, BehindInv, P!NoPage, P!Part
<1>9. CASE UNCHANGED pvars
  BY <1>9 DEF pvars, PageInv, OpInv, BehindInv, P!Touches
<1> QED BY <1>1, <1>2, <1>3, <1>4, <1>5, <1>6, <1>7, <1>8, <1>9 DEF P!Next

LEMMA PageInvHolds == ClubSpec => [](focus = "pages" => PageInv)
<1>1. ClubInit => (focus = "pages" => PageInv)
  BY InitPages DEF ClubInit, P!Init, PageInv, OpInv, BehindInv
<1>2. (focus = "pages" => PageInv) /\ [ClubNext]_clubVars => (focus = "pages" => PageInv)'
  <2> SUFFICES ASSUME focus = "pages" => PageInv, [ClubNext]_clubVars
               PROVE  (focus = "pages" => PageInv)'
    OBVIOUS
  <2>1. focus' = focus /\ (focus = "pages" => [P!Next]_pvars)
    BY DEF ClubNext, clubVars
  <2> QED BY <2>1, NextKeepsPageInv
<1> QED BY <1>1, <1>2, PTL DEF ClubSpec

\* providers.jsx:6-14: on every page of the site, once an operation of the page has succeeded
\* the user is not left with what the page showed before, whatever other pages are opened,
\* answers come late, entries age or operations fail meanwhile; but for the cases of Forgotten and
\* for a load that escaped the operation.
THEOREM OwnChangesAreShown == ClubSpec => []OwnChangeIsShown
<1>1. (focus = "pages" => PageInv) => OwnChangeIsShown
  BY DEF PageInv, BehindInv, OwnChangeIsShown, P!OwnChangeIsShown
<1> QED BY <1>1, PageInvHolds, PTL

\* router.jsx:183: on every page a role may open, the routes behind what it shows and offers
\* let the role in.
THEOREM PagesMayAsk == ClubSpec => []MayAsk
<1>1. (focus = "pages" => PageInv) => MayAsk
  <2> SUFFICES ASSUME focus = "pages", PageInv
               PROVE  P!MayAsk
    BY DEF MayAsk
  <2>1. Fits(page, role)
    BY SiteFits DEF PageInv, P!TypeOK
  <2> QED BY <2>1 DEF Fits, OpFits, P!MayAsk
<1> QED BY <1>1, PageInvHolds, PTL

-----------------------------------------------------------------------------
(* Types *)

\* Every part keeps the types of its variables, for whatever the others do.
THEOREM ClubTypesAreKept == ClubSpec => []TypesOK
<1> DEFINE Others ==
        /\ MissionInv /\ PreferenceInv /\ NoteTypes /\ SessionInv /\ PlanInv /\ LimitInv
        /\ focus = "billing" => BillInv
        /\ focus = "pages" => P!TypeOK
<1>1. ClubInit => Others
  BY InitMissionInv, InitPreferences, InitNotes, InitSession, InitPlan, LimitInitInv, InitBillInv,
     InitPages, ClubAssumption
  DEF ClubInit, ClubAssumption
<1>2. Others /\ [ClubNext]_clubVars => Others'
  <2> SUFFICES ASSUME Others, [ClubNext]_clubVars
               PROVE  Others'
    OBVIOUS
  <2>1. MissionInv'
    <3>1. [M!Next]_mvars
      BY DEF ClubNext, clubVars
    <3> QED BY <3>1, NextKeepsMissionInv
  <2>2. PreferenceInv' /\ NoteTypes'
    <3>1. [N!Next]_nvars
      BY DEF ClubNext, clubVars, nvars
    <3> QED BY <3>1, NextKeepsPreferences, NextKeepsNotes
  <2>3. SessionInv'
    <3>1. [W!Next]_wvars
      BY DEF ClubNext, clubVars, wvars
    <3> QED BY <3>1, NextKeepsSession
  <2>4. PlanInv'
    <3>1. [K!Next]_kvars
      BY DEF ClubNext, clubVars, kvars
    <3> QED BY <3>1, NextKeepsPlan
  <2>5. LimitInv'
    <3>1. [Next]_vars
      BY DEF ClubNext, clubVars, vars
    <3> QED BY <3>1, NextKeepsLimits, ClubAssumption DEF ClubAssumption
  <2>6. (focus = "billing" => BillInv)'
    <3>1. focus' = focus /\ (focus = "billing" => [B!Next]_bvars)
      BY DEF ClubNext, clubVars
    <3> QED BY <3>1, NextKeepsBillInv
  <2>7. (focus = "pages" => P!TypeOK)'
    <3>1. focus' = focus /\ (focus = "pages" => [P!Next]_pvars)
      BY DEF ClubNext, clubVars
    <3> QED BY <3>1, NextKeepsPages
  <2> QED BY <2>1, <2>2, <2>3, <2>4, <2>5, <2>6, <2>7
<1>3. Others /\ (focus = "messages" => ThreadInv) /\ (focus = "documents" => DocInv) => TypesOK
  <2>1. PreferenceInv /\ NoteTypes => N!TypeOK
    BY DEF N!TypeOK, PreferenceInv, NoteTypes
  <2> QED BY <2>1
          DEF TypesOK, MissionInv, SessionInv, PlanInv, LimitInv, BillInv, ThreadInv, DocInv,
              RowsInv
<1> QED BY <1>1, <1>2, <1>3, ThreadInvHolds, DocInvHolds, PTL DEF ClubSpec
=============================================================================
