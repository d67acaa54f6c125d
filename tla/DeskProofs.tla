----------------------------- MODULE DeskProofs -----------------------------
(***************************************************************************)
(* Proofs that AlertDeskSafe, IncidentsSafe, ConditionsSafe, ContactsSafe  *)
(* and StatusPageSafe are invariants and so is RepeatedOnlyUnanswered of   *)
(* Delivery, for every set of alerts, scopes, rules, channels, workers,    *)
(* operators, assignees, contacts, services and rows, lists of any length, *)
(* days of any number of minutes and any number of requests and failing    *)
(* statements.                                                             *)
(*                                                                         *)
(* AlertDesk: a bulk request has dealt with what it was asked but for the  *)
(* ids it still holds; and an alert whose last event differs from its row  *)
(* has a request on its way to publish the row, unless requests crossed.   *)
(* Incidents: who is about to close has seen the incident resolved; what a *)
(* handler that follows the others has read is where the timeline stands.  *)
(* Conditions: what a query finds is at most RefreshTime older than what   *)
(* it is stamped with; that the usual is no anomaly is algebra on count,   *)
(* sum and sum of squares.                                                 *)
(* Contacts: what inQuietHours compares is the way around the clock.       *)
(* StatusPage: what a page was put together from still holds while nothing *)
(* changes; a row that stays is behind the cursor and on one page, or      *)
(* ahead of the cursor and on none.                                        *)
(* Delivery: an alert is at one place, and of what its worker has sent     *)
(* nothing went to a channel ahead of the one it tries.                    *)
(***************************************************************************)
EXTENDS AlertDesk, Incidents, Conditions, Contacts, StatusPage, Delivery, FiniteSetTheorems, SequenceTheorems,
        WellFoundedInduction, TLAPS

-----------------------------------------------------------------------------
(***************************************************************************)
(* The alerts workbench.                                                   *)
(***************************************************************************)

Request == [at : {"idle", "look", "write", "note", "reread", "publish", "answered", "failed"},
            kind : {"bulk", "single"}, target : Targets, ids : Seq(DeskAlerts),
            asked : SUBSET DeskAlerts, got : AlertStatuses \cup {"deleted"},
            updated : SUBSET DeskAlerts, skipped : SUBSET DeskAlerts]

Working == {"look", "write", "note", "reread", "publish"}

\* What each stage of a request knows of the id it works on.
StageOK(r) ==
    /\ r.at \in Working => r.ids # << >>
    /\ r.at = "note" => r.kind = "bulk"
    /\ (r.kind = "bulk" /\ r.at \in {"write", "note"}) =>
          Head(r.ids) \notin r.skipped /\ Head(r.ids) \notin OutOfScope
    /\ (r.kind = "bulk" /\ r.at = "write") => r.got # "resolved"
    /\ r.at = "publish" => r.got # "deleted"
    /\ (r.kind = "bulk" /\ r.at \in {"reread", "publish"}) => Head(r.ids) \in r.updated

\* A bulk request has dealt with every id it was asked for but the ones left.
TallyOK(r) ==
    /\ (r.kind = "bulk" /\ r.at \in Working) => r.asked = r.updated \cup r.skipped \cup ToSet(r.ids)
    /\ (r.kind = "bulk" /\ r.at = "answered") => r.asked = r.updated \cup r.skipped
    /\ r.updated \cap r.skipped = {} /\ r.updated \cap OutOfScope = {}

RequestOK(r) == r \in Request /\ StageOK(r) /\ TallyOK(r)

RowsOK == /\ alertRow \in [DeskAlerts -> AlertStatuses \cup {"deleted"}]
          /\ notes \in SUBSET (Desks \X DeskAlerts)
          /\ screen \in [DeskAlerts -> AlertStatuses]
          /\ reopened \in SUBSET {"single", "stale"}
          /\ crossed \in SUBSET DeskAlerts

RequestsOK == desk \in [Desks -> Request] /\ \A q \in Desks : RequestOK(desk[q])

\* What was updated has its note as long as the alert is there.
NotesKept ==
    \A q \in Desks : \A a \in desk[q].updated : alertRow[a] # "deleted" => <<q, a>> \in notes

\* A request that will publish alert a.
Pends(r, a) == r.at \in {"note", "reread", "publish"} /\ Head(r.ids) = a

\* An alert that is not shown as it is will be published.
ShownOrPending ==
    \A a \in DeskAlerts \ crossed :
        alertRow[a] \in {screen[a], "deleted"} \/ \E q \in Desks : Pends(desk[q], a)

\* What is about to be published is what the row holds.
PublishesRow ==
    \A q \in Desks : (desk[q].at = "publish" /\ Cur(q) \notin crossed)
                     => alertRow[Cur(q)] \in {desk[q].got, "deleted"}

DeskInv == RowsOK /\ RequestsOK /\ NotesKept /\ ShownOrPending /\ PublishesRow

-----------------------------------------------------------------------------
LEMMA DeskInvSafe == DeskInv => AlertDeskSafe
  <1> SUFFICES ASSUME DeskInv PROVE AlertDeskSafe
    OBVIOUS
  <1>1. AlertDeskTypeOK
    <2>1. \A q \in Desks : desk[q] \in Request
      BY DEF DeskInv, RequestsOK
    <2> QED
      BY <2>1 DEF DeskInv, RowsOK, AlertDeskTypeOK, Request
  <1>2. BulkAnswersForEach
    BY DEF DeskInv, RequestsOK, RequestOK, TallyOK, NotesKept, BulkAnswersForEach
  <1>3. ReopenedUnseen
    BY DEF DeskInv, RowsOK, ReopenedUnseen
  <1>4. ScreensAgree
    BY DEF DeskInv, ShownOrPending, Pends, ScreensAgree
  <1> QED
    BY <1>1, <1>2, <1>3, <1>4 DEF AlertDeskSafe

LEMMA ResetOK ==
    ASSUME NEW k \in {"bulk", "single"}
    PROVE  AtDesk(k) \in Request /\ AtDesk(k).kind = k /\ AtDesk(k).at = "idle"
           /\ AtDesk(k).updated = {} /\ AtDesk(k).skipped = {} /\ AtDesk(k).ids = << >>
           /\ RequestOK(AtDesk(k))
  <1>1. << >> \in Seq(DeskAlerts)
    BY EmptySeq
  <1>2. AtDesk(k) \in Request
    BY <1>1 DEF AtDesk, Request, Targets, AlertStatuses
  <1> QED
    BY <1>2 DEF AtDesk, RequestOK, StageOK, TallyOK, Working

LEMMA DeskInvInit == AlertDeskInit => DeskInv
  <1> SUFFICES ASSUME AlertDeskInit PROVE DeskInv
    OBVIOUS
  <1>1. RequestsOK
    BY ResetOK DEF AlertDeskInit, Idle, RequestsOK
  <1>2. RowsOK /\ ShownOrPending
    BY DEF AlertDeskInit, RowsOK, AlertStatuses, ShownOrPending
  <1>3. \A q \in Desks : desk[q].updated = {} /\ desk[q].at = "idle"
    BY ResetOK DEF AlertDeskInit, Idle
  <1> QED
    BY <1>1, <1>2, <1>3 DEF DeskInv, NotesKept, PublishesRow

-----------------------------------------------------------------------------
(* Lists of ids. *)

LEMMA HeadInSet ==
    ASSUME NEW s \in Seq(DeskAlerts), s # << >>
    PROVE  /\ Head(s) \in DeskAlerts /\ Tail(s) \in Seq(DeskAlerts)
           /\ ToSet(s) = {Head(s)} \cup ToSet(Tail(s))
           /\ ToSet(s) \subseteq DeskAlerts
           /\ Len(s) = 1 => ToSet(Tail(s)) = {}
           /\ Len(s) # 1 => Tail(s) # << >>
  <1>1. Head(s) = s[1] /\ Tail(s) \in Seq(DeskAlerts) /\ Len(Tail(s)) = Len(s) - 1
        /\ \A i \in 1 .. Len(Tail(s)) : Tail(s)[i] = s[i + 1]
    BY HeadTailProperties
  <1>2. Len(s) \in Nat /\ Len(s) >= 1 /\ DOMAIN s = 1 .. Len(s) /\ \A i \in 1 .. Len(s) : s[i] \in DeskAlerts
    BY LenProperties, ElementOfSeq, EmptySeq
  <1>3. DOMAIN Tail(s) = 1 .. (Len(s) - 1)
    BY <1>1, LenProperties
  <1>4. ToSet(s) \subseteq {Head(s)} \cup ToSet(Tail(s))
    <2> SUFFICES ASSUME NEW i \in 1 .. Len(s) PROVE s[i] \in {Head(s)} \cup ToSet(Tail(s))
      BY <1>2 DEF ToSet
    <2>1. CASE i = 1
      BY <2>1, <1>1
    <2>2. CASE i # 1
      <3>1. i - 1 \in DOMAIN Tail(s) /\ Tail(s)[i - 1] = s[i]
        BY <2>2, <1>1, <1>2, <1>3
      <3> QED
        BY <3>1 DEF ToSet
    <2> QED
      BY <2>1, <2>2
  <1>5. {Head(s)} \cup ToSet(Tail(s)) \subseteq ToSet(s)
    <2>1. Head(s) \in ToSet(s)
      BY <1>1, <1>2 DEF ToSet
    <2>2. ASSUME NEW i \in DOMAIN Tail(s) PROVE Tail(s)[i] \in ToSet(s)
      <3>1. i + 1 \in DOMAIN s /\ Tail(s)[i] = s[i + 1]
        BY <1>1, <1>2, <1>3
      <3> QED
        BY <3>1 DEF ToSet
    <2> QED
      BY <2>1, <2>2 DEF ToSet
  <1>6. Len(s) = 1 => ToSet(Tail(s)) = {}
    BY <1>3 DEF ToSet
  <1>7. Len(s) # 1 => Tail(s) # << >>
    <2>1. Tail(s) = << >> => Len(Tail(s)) = 0
      BY <1>1, EmptySeq
    <2> QED
      BY <2>1, <1>1, <1>2
  <1>8. Head(s) \in DeskAlerts /\ ToSet(s) \subseteq DeskAlerts
    BY <1>1, <1>2 DEF ToSet
  <1> QED
    BY <1>1, <1>4, <1>5, <1>6, <1>7, <1>8

LEMMA OneId == ASSUME NEW a \in DeskAlerts PROVE <<a>> \in Seq(DeskAlerts)
  OBVIOUS

LEMMA ListsAreSeqs ==
    ASSUME NEW ids \in IdLists
    PROVE  ids \in Seq(DeskAlerts) /\ ids # << >> /\ ToSet(ids) \subseteq DeskAlerts
  <1>1. PICK n \in 1 .. MaxIds : ids \in [1 .. n -> DeskAlerts]
    BY DEF IdLists
  <1>2. ids \in Seq(DeskAlerts) /\ Len(ids) = n
    BY <1>1, DeskAssumption, IsASeq
  <1>3. ids # << >>
    BY <1>2, DeskAssumption, EmptySeq
  <1> QED
    BY <1>2, <1>3, HeadInSet

\* The next id is taken up when the present one is accounted for.
LEMMA AdvanceOK ==
    ASSUME NEW r \in Request, r.ids # << >>, TallyOK(r), r.at \in Working,
           r.kind = "bulk" => Head(r.ids) \in r.updated \cup r.skipped
    PROVE  /\ RequestOK(Advance(r)) /\ Advance(r).updated = r.updated
           /\ Advance(r).at \in {"look", "answered"}
  <1> DEFINE r2 == Advance(r)
  <1>1. r.ids \in Seq(DeskAlerts)
    BY DEF Request
  <1>2. /\ r2.kind = r.kind /\ r2.updated = r.updated /\ r2.skipped = r.skipped /\ r2.asked = r.asked
        /\ r2.ids = Tail(r.ids) /\ r2.at = IF Len(r.ids) = 1 THEN "answered" ELSE "look"
    BY DEF Advance, Request
  <1>3. r2 \in Request
    BY <1>1, HeadInSet DEF Advance, Request
  <1>4. TallyOK(r2)
    <2>1. ToSet(r.ids) = {Head(r.ids)} \cup ToSet(Tail(r.ids))
          /\ (Len(r.ids) = 1 => ToSet(Tail(r.ids)) = {})
      BY <1>1, HeadInSet
    <2>2. r.kind = "bulk" => r.asked = r.updated \cup r.skipped \cup ToSet(Tail(r.ids))
      BY <2>1 DEF TallyOK
    <2>3. r2.updated \cap r2.skipped = {} /\ r2.updated \cap OutOfScope = {}
      BY <1>2 DEF TallyOK
    <2> HIDE DEF r2
    <2>4. (r2.kind = "bulk" /\ r2.at \in Working) =>
             r2.asked = r2.updated \cup r2.skipped \cup ToSet(r2.ids)
      BY <1>2, <2>2
    <2>5. (r2.kind = "bulk" /\ r2.at = "answered") => r2.asked = r2.updated \cup r2.skipped
      <3>1. r2.at = "answered" => ToSet(Tail(r.ids)) = {}
        BY <1>2, <2>1
      <3> QED
        BY <1>2, <2>2, <3>1
    <2> QED
      BY <2>3, <2>4, <2>5 DEF TallyOK
  <1>5. StageOK(r2)
    BY <1>1, <1>2, HeadInSet DEF StageOK, Working
  <1> QED
    BY <1>2, <1>3, <1>4, <1>5 DEF RequestOK

-----------------------------------------------------------------------------
(* A step of one request. *)

LEMMA RequestsKept ==
    ASSUME RequestsOK, NEW q \in Desks, NEW r2, RequestOK(r2), desk' = [desk EXCEPT ![q] = r2]
    PROVE  RequestsOK' /\ desk'[q] = r2 /\ \A o \in Desks : o # q => desk'[o] = desk[o]
  BY DEF RequestsOK, RequestOK, StageOK, TallyOK

\* A request that neither writes a row nor gives up a publication.
LEMMA QuietStep ==
    ASSUME DeskInv, NEW q \in Desks, NEW r2, RequestOK(r2), desk' = [desk EXCEPT ![q] = r2],
           r2.updated \subseteq desk[q].updated, r2.at # "publish",
           desk[q].at \in {"note", "reread", "publish"} =>
               \/ Cur(q) \in crossed' \/ alertRow[Cur(q)] \in {screen[Cur(q)], "deleted"}
               \/ Pends(r2, Cur(q)),
           UNCHANGED <<alertRow, screen, reopened>>,
           notes \subseteq notes', notes' \subseteq Desks \X DeskAlerts,
           crossed \subseteq crossed', crossed' \subseteq DeskAlerts
    PROVE  DeskInv'
  <1>1. RequestsOK' /\ desk'[q] = r2 /\ \A o \in Desks : o # q => desk'[o] = desk[o]
    BY RequestsKept DEF DeskInv
  <1>2. RowsOK'
    BY DEF DeskInv, RowsOK
  <1>3. NotesKept'
    BY <1>1 DEF DeskInv, NotesKept
  <1>4. ShownOrPending'
    <2> SUFFICES ASSUME NEW a \in DeskAlerts \ crossed', alertRow[a] \notin {screen[a], "deleted"}
                 PROVE  \E o \in Desks : Pends(desk'[o], a)
      BY DEF ShownOrPending, Pends
    <2>1. PICK o \in Desks : Pends(desk[o], a)
      BY DEF DeskInv, ShownOrPending
    <2>2. CASE o # q
      BY <2>1, <2>2, <1>1
    <2>3. CASE o = q
      BY <2>1, <2>3, <1>1 DEF Pends, Cur
    <2> QED
      BY <2>2, <2>3
  <1>5. PublishesRow'
    BY <1>1 DEF DeskInv, PublishesRow, Cur
  <1> QED
    BY <1>1, <1>2, <1>3, <1>4, <1>5 DEF DeskInv

LEMMA BeginBulkKeeps ==
    ASSUME DeskInv, NEW q \in Desks, NEW ids \in IdLists, NEW target \in Targets, BeginBulk(q, ids, target)
    PROVE  DeskInv'
  <1>1. PICK r2 : r2 = [AtDesk("bulk") EXCEPT !.at = "look", !.target = target, !.ids = ids,
                                              !.asked = ToSet(ids)]
    OBVIOUS
  <1>2. r2 \in Request
    BY <1>1, ResetOK, ListsAreSeqs DEF Request
  <1>3. /\ r2.at = "look" /\ r2.ids = ids /\ r2.asked = ToSet(ids) /\ r2.updated = {} /\ r2.skipped = {}
    BY <1>1 DEF AtDesk
  <1>4. RequestOK(r2)
    BY <1>2, <1>3, ListsAreSeqs DEF RequestOK, StageOK, TallyOK, Working
  <1>5. desk' = [desk EXCEPT ![q] = r2]
    BY <1>1 DEF BeginBulk
  <1> QED
    BY <1>3, <1>4, <1>5, QuietStep DEF BeginBulk, DeskInv, RowsOK

LEMMA BeginSingleKeeps ==
    ASSUME DeskInv, NEW q \in Desks, NEW a \in DeskAlerts, NEW target \in Targets, BeginSingle(q, a, target)
    PROVE  DeskInv'
  <1>1. PICK r2 : r2 = [AtDesk("single") EXCEPT !.at = "write", !.target = target, !.ids = <<a>>,
                                                !.asked = {a}]
    OBVIOUS
  <1>2. r2 \in Request
    BY <1>1, ResetOK, OneId DEF Request
  <1>3. r2.at = "write" /\ r2.ids = <<a>> /\ r2.kind = "single" /\ r2.updated = {} /\ r2.skipped = {}
    BY <1>1 DEF AtDesk
  <1>4. RequestOK(r2)
    BY <1>2, <1>3 DEF RequestOK, StageOK, TallyOK, Working
  <1>5. desk' = [desk EXCEPT ![q] = r2]
    BY <1>1 DEF BeginSingle
  <1> QED
    BY <1>3, <1>4, <1>5, QuietStep DEF BeginSingle, DeskInv, RowsOK

LEMMA SetAssigneeKeeps ==
    ASSUME DeskInv, NEW q \in Desks, NEW a \in DeskAlerts, SetAssignee(q, a)
    PROVE  DeskInv'
  <1>0. PICK at \in {"answered", "reread"} : at = IF alertRow[a] = "deleted" THEN "answered" ELSE "reread"
    OBVIOUS
  <1>1. PICK r2 : r2 = [AtDesk("single") EXCEPT !.at = at, !.ids = <<a>>, !.asked = {a}]
    OBVIOUS
  <1>2. r2 \in Request
    BY <1>0, <1>1, ResetOK, OneId DEF Request
  <1>3. r2.at = at /\ r2.ids = <<a>> /\ r2.kind = "single" /\ r2.updated = {} /\ r2.skipped = {}
    BY <1>1 DEF AtDesk
  <1>4. RequestOK(r2)
    BY <1>0, <1>2, <1>3 DEF RequestOK, StageOK, TallyOK, Working
  <1>5. desk' = [desk EXCEPT ![q] = r2]
    BY <1>0, <1>1 DEF SetAssignee
  <1> QED
    BY <1>0, <1>3, <1>4, <1>5, QuietStep DEF SetAssignee, DeskInv, RowsOK

LEMMA AddNoteKeeps ==
    ASSUME DeskInv, NEW q \in Desks, NEW a \in DeskAlerts, AddNote(q, a)
    PROVE  DeskInv'
  <1>0. PICK at \in {"answered", "failed"} : at = IF alertRow[a] = "deleted" THEN "failed" ELSE "answered"
    OBVIOUS
  <1>1. PICK r2 : r2 = [AtDesk("single") EXCEPT !.at = at, !.asked = {a}]
    OBVIOUS
  <1>2. r2 \in Request
    BY <1>0, <1>1, ResetOK DEF Request
  <1>3. r2.at = at /\ r2.kind = "single" /\ r2.updated = {} /\ r2.skipped = {}
    BY <1>1 DEF AtDesk
  <1>4. RequestOK(r2)
    BY <1>0, <1>2, <1>3 DEF RequestOK, StageOK, TallyOK, Working
  <1>5. desk' = [desk EXCEPT ![q] = r2]
    BY <1>0, <1>1 DEF AddNote
  <1>6. notes \subseteq notes' /\ notes' \subseteq Desks \X DeskAlerts
    BY DEF AddNote, DeskInv, RowsOK
  <1> QED
    BY <1>0, <1>3, <1>4, <1>5, <1>6, QuietStep DEF AddNote, DeskInv, RowsOK

LEMMA TakeAnswerKeeps ==
    ASSUME DeskInv, NEW q \in Desks, TakeAnswer(q)
    PROVE  DeskInv'
  <1>1. RequestOK(Idle) /\ Idle.updated = {} /\ Idle.at = "idle"
    BY ResetOK DEF Idle
  <1> QED
    BY <1>1, QuietStep DEF TakeAnswer, DeskInv, RowsOK

LEMMA FailStatementKeeps ==
    ASSUME DeskInv, NEW q \in Desks, FailStatement(q)
    PROVE  DeskInv'
  <1>0. desk[q] \in Request /\ RequestOK(desk[q])
    BY DEF DeskInv, RequestsOK
  <1>1. PICK r2 : r2 = [desk[q] EXCEPT !.at = "failed"]
    OBVIOUS
  <1>2. r2 \in Request /\ r2.at = "failed" /\ r2.updated = desk[q].updated /\ r2.skipped = desk[q].skipped
    BY <1>0, <1>1 DEF Request
  <1>4. RequestOK(r2)
    BY <1>0, <1>2 DEF RequestOK, StageOK, TallyOK, Working
  <1>5. desk' = [desk EXCEPT ![q] = r2]
    BY <1>0, <1>1 DEF FailStatement
  <1>6. crossed \subseteq crossed' /\ crossed' \subseteq DeskAlerts
        /\ (desk[q].at = "note" => Cur(q) \in crossed')
    <2>1. Cur(q) \in DeskAlerts
      BY <1>0, HeadInSet DEF FailStatement, RequestOK, StageOK, Working, Request, Cur
    <2> QED
      BY <2>1 DEF FailStatement, DeskInv, RowsOK
  <1> QED
    BY <1>2, <1>4, <1>5, <1>6, QuietStep DEF FailStatement, DeskInv, RowsOK

\* What a request is at: its present id is one of the alerts.
LEMMA AtWork ==
    ASSUME RequestsOK, NEW q \in Desks, desk[q].at \in Working
    PROVE  /\ desk[q] \in Request /\ StageOK(desk[q]) /\ TallyOK(desk[q])
           /\ desk[q].ids # << >> /\ Cur(q) = Head(desk[q].ids) /\ Cur(q) \in DeskAlerts
           /\ ToSet(desk[q].ids) \subseteq DeskAlerts
  <1>1. RequestOK(desk[q])
    BY DEF RequestsOK
  <1> QED
    BY <1>1, HeadInSet DEF RequestOK, StageOK, Request, Cur

LEMMA LookKeeps ==
    ASSUME DeskInv, NEW q \in Desks, Look(q)
    PROVE  DeskInv'
  <1>0. PICK r, a : r = desk[q] /\ a = Head(r.ids)
    OBVIOUS
  <1>1. /\ r \in Request /\ StageOK(r) /\ TallyOK(r) /\ r.ids # << >> /\ a = Cur(q) /\ a \in DeskAlerts
        /\ r.at = "look"
    BY <1>0, AtWork DEF Look, DeskInv, Working
  <1>2. CASE Repeats(r, a)
    <2>1. RequestOK(Advance(r)) /\ Advance(r).updated = r.updated /\ Advance(r).at \in {"look", "answered"}
      BY <1>0, <1>1, <1>2, AdvanceOK DEF Repeats, Working
    <2>2. desk' = [desk EXCEPT ![q] = Advance(r)]
      BY <1>0, <1>1, <1>2 DEF Look
    <2> QED
      BY <1>0, <1>1, <2>1, <2>2, QuietStep DEF Look, DeskInv, RowsOK
  <1>3. CASE ~ Repeats(r, a) /\ Skips(r, a, alertRow[a])
    <2>0. PICK s : s = [r EXCEPT !.skipped = @ \cup {a}]
      OBVIOUS
    <2>1. s \in Request /\ s.ids = r.ids /\ s.at = "look" /\ s.updated = r.updated /\ s.kind = r.kind
          /\ s.skipped = r.skipped \cup {a} /\ s.asked = r.asked
      BY <1>1, <2>0 DEF Request
    <2>2. ToSet(r.ids) = {a} \cup ToSet(Tail(r.ids))
      BY <1>0, <1>1, HeadInSet DEF Request
    <2>3. TallyOK(s)
      BY <1>1, <1>3, <2>1, <2>2 DEF TallyOK, Repeats, Working
    <2>4. RequestOK(Advance(s)) /\ Advance(s).updated = r.updated /\ Advance(s).at \in {"look", "answered"}
      BY <1>0, <1>1, <2>1, <2>3, AdvanceOK DEF Working
    <2>5. desk' = [desk EXCEPT ![q] = Advance(s)]
      BY <1>0, <1>1, <1>3, <2>0 DEF Look
    <2> QED
      BY <1>0, <1>1, <2>4, <2>5, QuietStep DEF Look, DeskInv, RowsOK
  <1>4. CASE ~ Repeats(r, a) /\ ~ Skips(r, a, alertRow[a])
    <2>0. PICK s : s = [r EXCEPT !.at = "write", !.got = alertRow[a]]
      OBVIOUS
    <2>1. s \in Request /\ s.ids = r.ids /\ s.at = "write" /\ s.updated = r.updated /\ s.kind = r.kind
          /\ s.skipped = r.skipped /\ s.asked = r.asked /\ s.got = alertRow[a]
      BY <1>1, <2>0 DEF Request, DeskInv, RowsOK
    <2>2. TallyOK(s)
      BY <1>1, <2>1 DEF TallyOK, Working
    <2>3. StageOK(s)
      BY <1>0, <1>1, <1>4, <2>1 DEF StageOK, Repeats, Skips, Working
    <2>5. desk' = [desk EXCEPT ![q] = s]
      BY <1>0, <1>1, <1>4, <2>0 DEF Look
    <2> QED
      BY <1>0, <1>1, <2>1, <2>2, <2>3, <2>5, QuietStep DEF Look, DeskInv, RowsOK, RequestOK
  <1> QED
    BY <1>2, <1>3, <1>4

LEMMA LookFailsKeeps ==
    ASSUME DeskInv, NEW q \in Desks, LookFails(q)
    PROVE  DeskInv'
  <1>0. PICK r, a, s : r = desk[q] /\ a = Head(r.ids) /\ s = [r EXCEPT !.skipped = @ \cup {a}]
    OBVIOUS
  <1>1. /\ r \in Request /\ StageOK(r) /\ TallyOK(r) /\ r.ids # << >> /\ a = Cur(q) /\ a \in DeskAlerts
        /\ r.at = "look" /\ ~ Repeats(r, a)
    BY <1>0, AtWork DEF LookFails, DeskInv, Working, Cur
  <1>2. s \in Request /\ s.ids = r.ids /\ s.at = "look" /\ s.updated = r.updated /\ s.kind = r.kind
        /\ s.skipped = r.skipped \cup {a} /\ s.asked = r.asked
    BY <1>0, <1>1 DEF Request
  <1>3. ToSet(r.ids) = {a} \cup ToSet(Tail(r.ids))
    BY <1>0, <1>1, HeadInSet DEF Request
  <1>4. TallyOK(s)
    BY <1>1, <1>2, <1>3 DEF TallyOK, Repeats, Working
  <1>5. RequestOK(Advance(s)) /\ Advance(s).updated = r.updated /\ Advance(s).at \in {"look", "answered"}
    BY <1>0, <1>1, <1>2, <1>4, AdvanceOK DEF Working
  <1>6. desk' = [desk EXCEPT ![q] = Advance(s)]
    BY <1>0, <1>1 DEF LookFails
  <1> QED
    BY <1>0, <1>1, <1>5, <1>6, QuietStep DEF LookFails, DeskInv, RowsOK

LEMMA RereadFailsKeeps ==
    ASSUME DeskInv, NEW q \in Desks, RereadFails(q)
    PROVE  DeskInv'
  <1>0. PICK r, a : r = desk[q] /\ a = Head(r.ids)
    OBVIOUS
  <1>1. /\ r \in Request /\ StageOK(r) /\ TallyOK(r) /\ r.ids # << >> /\ a = Cur(q) /\ a \in DeskAlerts
        /\ r.at = "reread"
    BY <1>0, AtWork DEF RereadFails, DeskInv, Working
  <1>2. RequestOK(Advance(r)) /\ Advance(r).updated = r.updated /\ Advance(r).at \in {"look", "answered"}
    BY <1>0, <1>1, AdvanceOK DEF StageOK, Working
  <1>3. desk' = [desk EXCEPT ![q] = Advance(r)] /\ crossed' = crossed \cup {a}
    BY <1>0, <1>1 DEF RereadFails
  <1>4. crossed \subseteq crossed' /\ crossed' \subseteq DeskAlerts /\ Cur(q) \in crossed'
    BY <1>1, <1>3 DEF DeskInv, RowsOK
  <1> QED
    BY <1>0, <1>1, <1>2, <1>3, <1>4, QuietStep DEF RereadFails, DeskInv, RowsOK

LEMMA WriteStatusKeeps ==
    ASSUME DeskInv, NEW q \in Desks, WriteStatus(q)
    PROVE  DeskInv'
  <1>0. PICK r, a : r = desk[q] /\ a = Head(r.ids)
    OBVIOUS
  <1>1. /\ r \in Request /\ StageOK(r) /\ TallyOK(r) /\ r.ids # << >> /\ a = Cur(q) /\ a \in DeskAlerts
        /\ r.at = "write"
    BY <1>0, AtWork DEF WriteStatus, DeskInv, Working
  <1>2. PICK at \in {"note", "reread"} : at = IF r.kind = "bulk" THEN "note" ELSE "reread"
    OBVIOUS
  <1>3. PICK s : s = [r EXCEPT !.at = at]
    OBVIOUS
  <1>4. s \in Request /\ s.ids = r.ids /\ s.at = at /\ s.updated = r.updated /\ s.kind = r.kind
        /\ s.skipped = r.skipped /\ s.asked = r.asked
    BY <1>1, <1>2, <1>3 DEF Request
  <1>5. RequestOK(s)
    <2>1. s.kind \in {"bulk", "single"}
      BY <1>4 DEF Request
    <2>2. TallyOK(s)
      BY <1>1, <1>2, <1>4 DEF TallyOK, Working
    <2>3. StageOK(s)
      BY <2>1, <1>1, <1>2, <1>4 DEF StageOK, Working
    <2> QED
      BY <2>2, <2>3, <1>4 DEF RequestOK
  <1>6. desk' = [desk EXCEPT ![q] = s]
    BY <1>0, <1>1, <1>2, <1>3 DEF WriteStatus
  <1>7. RequestsOK' /\ desk'[q] = s /\ \A o \in Desks : o # q => desk'[o] = desk[o]
    BY <1>5, <1>6, RequestsKept DEF DeskInv
  <1>8. alertRow' = [alertRow EXCEPT ![a] = IF @ = "deleted" THEN @ ELSE r.target]
        /\ UNCHANGED <<notes, screen>>
    BY <1>0, <1>1 DEF WriteStatus
  <1>9. /\ alertRow' \in [DeskAlerts -> AlertStatuses \cup {"deleted"}]
        /\ \A b \in DeskAlerts : (alertRow'[b] = "deleted") <=> (alertRow[b] = "deleted")
        /\ \A b \in DeskAlerts : b # a => alertRow'[b] = alertRow[b]
    <2>1. r.target \in AlertStatuses /\ r.target # "deleted"
      BY <1>1 DEF Request, Targets, AlertStatuses
    <2> QED
      BY <2>1, <1>1, <1>8 DEF DeskInv, RowsOK
  <1>10. /\ crossed \subseteq crossed' /\ crossed' \subseteq DeskAlerts
         /\ \A o \in Desks : (o # q /\ desk[o].at = "publish" /\ Cur(o) = a) => a \in crossed'
    BY <1>0, <1>1 DEF WriteStatus, DeskInv, RowsOK
  <1>11. reopened' \in SUBSET {"single", "stale"}
    <2>1. r.kind = "single" \/ r.got # "resolved"
      BY <1>1 DEF Request, StageOK
    <2> QED
      BY <2>1, <1>0 DEF WriteStatus, DeskInv, RowsOK
  <1>12. RowsOK'
    BY <1>8, <1>9, <1>10, <1>11 DEF DeskInv, RowsOK
  <1>13. NotesKept'
    <2> SUFFICES ASSUME NEW o \in Desks, NEW b \in desk'[o].updated, alertRow'[b] # "deleted"
                 PROVE  <<o, b>> \in notes'
      BY DEF NotesKept
    <2>1. b \in desk[o].updated /\ b \in DeskAlerts
      BY <1>0, <1>4, <1>7 DEF RequestsOK, RequestOK, Request
    <2> QED
      BY <2>1, <1>8, <1>9 DEF DeskInv, NotesKept
  <1>14. ShownOrPending'
    <2> SUFFICES ASSUME NEW b \in DeskAlerts \ crossed', alertRow'[b] \notin {screen'[b], "deleted"}
                 PROVE  \E o \in Desks : Pends(desk'[o], b)
      BY DEF ShownOrPending, Pends
    <2>1. CASE b = a
      BY <2>1, <1>0, <1>2, <1>4, <1>7 DEF Pends
    <2>2. CASE b # a
      <3>1. PICK o \in Desks : Pends(desk[o], b)
        BY <2>2, <1>8, <1>9, <1>10 DEF DeskInv, ShownOrPending
      <3>2. o # q
        BY <3>1, <1>0, <1>1 DEF Pends
      <3> QED
        BY <3>1, <3>2, <1>7
    <2> QED
      BY <2>1, <2>2
  <1>15. PublishesRow'
    <2> SUFFICES ASSUME NEW o \in Desks, desk'[o].at = "publish", Cur(o)' \notin crossed'
                 PROVE  alertRow'[Cur(o)'] \in {desk'[o].got, "deleted"}
      BY DEF PublishesRow
    <2>1. o # q
      BY <1>2, <1>4, <1>7
    <2>2. desk'[o] = desk[o] /\ Cur(o)' = Cur(o)
      BY <2>1, <1>7 DEF Cur
    <2>3. Cur(o) \in DeskAlerts /\ Cur(o) # a
      BY <2>1, <2>2, <1>10, AtWork DEF DeskInv, Working
    <2> QED
      BY <2>2, <2>3, <1>9, <1>10 DEF DeskInv, PublishesRow
  <1> QED
    BY <1>7, <1>12, <1>13, <1>14, <1>15 DEF DeskInv

LEMMA InsertNoteKeeps ==
    ASSUME DeskInv, NEW q \in Desks, InsertNote(q)
    PROVE  DeskInv'
  <1>0. PICK r, a : r = desk[q] /\ a = Head(r.ids)
    OBVIOUS
  <1>1. /\ r \in Request /\ StageOK(r) /\ TallyOK(r) /\ r.ids # << >> /\ a = Cur(q) /\ a \in DeskAlerts
        /\ r.at = "note"
    BY <1>0, AtWork DEF InsertNote, DeskInv, Working
  <1>2. CASE alertRow[a] = "deleted"
    <2>1. PICK s : s = [r EXCEPT !.at = "failed"]
      OBVIOUS
    <2>2. s \in Request /\ s.at = "failed" /\ s.updated = r.updated /\ s.skipped = r.skipped
      BY <1>1, <2>1 DEF Request
    <2>3. RequestOK(s)
      BY <1>1, <2>2 DEF RequestOK, StageOK, TallyOK, Working
    <2>4. desk' = [desk EXCEPT ![q] = s]
      BY <1>0, <1>1, <1>2, <2>1 DEF InsertNote
    <2> QED
      BY <1>0, <1>1, <1>2, <2>2, <2>3, <2>4, QuietStep DEF InsertNote, DeskInv, RowsOK
  <1>3. CASE alertRow[a] # "deleted"
    <2>1. PICK s : s = [r EXCEPT !.at = "reread", !.updated = @ \cup {a}]
      OBVIOUS
    <2>2. s \in Request /\ s.at = "reread" /\ s.updated = r.updated \cup {a} /\ s.skipped = r.skipped
          /\ s.ids = r.ids /\ s.kind = "bulk" /\ s.asked = r.asked
      BY <1>1, <2>1 DEF Request, StageOK
    <2>3. TallyOK(s)
      <3>1. a \in ToSet(r.ids) /\ a \notin r.skipped /\ a \notin OutOfScope /\ r.kind = "bulk"
        <4>1. a \in ToSet(r.ids)
          BY <1>0, <1>1, HeadInSet DEF Request
        <4> QED
          BY <4>1, <1>0, <1>1 DEF StageOK
      <3>2. r.asked = r.updated \cup r.skipped \cup ToSet(r.ids)
        BY <1>1, <3>1 DEF TallyOK, Working
      <3>3. s.asked = s.updated \cup s.skipped \cup ToSet(s.ids)
        BY <2>2, <3>1, <3>2
      <3>4. s.updated \cap s.skipped = {} /\ s.updated \cap OutOfScope = {}
        BY <1>1, <2>2, <3>1 DEF TallyOK
      <3> QED
        BY <2>2, <3>3, <3>4 DEF TallyOK
    <2>4. RequestOK(s)
      BY <1>0, <1>1, <2>2, <2>3 DEF RequestOK, StageOK, Working
    <2>5. desk' = [desk EXCEPT ![q] = s] /\ notes' = notes \cup {<<q, a>>}
          /\ UNCHANGED <<alertRow, screen, reopened, crossed>>
      BY <1>0, <1>1, <1>3, <2>1 DEF InsertNote
    <2>6. RequestsOK' /\ desk'[q] = s /\ \A o \in Desks : o # q => desk'[o] = desk[o]
      BY <2>4, <2>5, RequestsKept DEF DeskInv
    <2>7. RowsOK'
      BY <1>1, <2>5 DEF DeskInv, RowsOK
    <2>8. NotesKept'
      BY <1>0, <2>2, <2>5, <2>6 DEF DeskInv, NotesKept
    <2>9. ShownOrPending'
      <3> SUFFICES ASSUME NEW b \in DeskAlerts \ crossed, alertRow[b] \notin {screen[b], "deleted"}
                   PROVE  \E o \in Desks : Pends(desk'[o], b)
        BY <2>5 DEF ShownOrPending, Pends
      <3>1. PICK o \in Desks : Pends(desk[o], b)
        BY DEF DeskInv, ShownOrPending
      <3> QED
        BY <3>1, <1>0, <2>2, <2>6 DEF Pends
    <2>10. PublishesRow'
      BY <2>2, <2>5, <2>6 DEF DeskInv, PublishesRow, Cur
    <2> QED
      BY <2>6, <2>7, <2>8, <2>9, <2>10 DEF DeskInv
  <1> QED
    BY <1>2, <1>3

LEMMA RereadKeeps ==
    ASSUME DeskInv, NEW q \in Desks, Reread(q)
    PROVE  DeskInv'
  <1>0. PICK r, a : r = desk[q] /\ a = Head(r.ids)
    OBVIOUS
  <1>1. /\ r \in Request /\ StageOK(r) /\ TallyOK(r) /\ r.ids # << >> /\ a = Cur(q) /\ a \in DeskAlerts
        /\ r.at = "reread"
    BY <1>0, AtWork DEF Reread, DeskInv, Working
  <1>2. CASE alertRow[a] = "deleted"
    <2>1. RequestOK(Advance(r)) /\ Advance(r).updated = r.updated /\ Advance(r).at \in {"look", "answered"}
      BY <1>0, <1>1, AdvanceOK DEF StageOK, Working
    <2>2. desk' = [desk EXCEPT ![q] = Advance(r)]
      BY <1>0, <1>1, <1>2 DEF Reread
    <2> QED
      BY <1>0, <1>1, <1>2, <2>1, <2>2, QuietStep DEF Reread, DeskInv, RowsOK
  <1>3. CASE alertRow[a] # "deleted"
    <2>1. PICK s : s = [r EXCEPT !.at = "publish", !.got = alertRow[a]]
      OBVIOUS
    <2>2. s \in Request /\ s.at = "publish" /\ s.updated = r.updated /\ s.skipped = r.skipped
          /\ s.ids = r.ids /\ s.kind = r.kind /\ s.asked = r.asked /\ s.got = alertRow[a]
      BY <1>1, <2>1 DEF Request, DeskInv, RowsOK
    <2>3. TallyOK(s)
      BY <1>1, <2>2 DEF TallyOK, Working
    <2>4. StageOK(s)
      BY <1>1, <1>3, <2>2 DEF StageOK, Working
    <2>5. desk' = [desk EXCEPT ![q] = s] /\ UNCHANGED <<alertRow, notes, screen, reopened, crossed>>
      BY <1>0, <1>1, <1>3, <2>1 DEF Reread
    <2>6. RequestsOK' /\ desk'[q] = s /\ \A o \in Desks : o # q => desk'[o] = desk[o]
      BY <2>2, <2>3, <2>4, <2>5, RequestsKept DEF DeskInv, RequestOK
    <2>7. RowsOK'
      BY <2>5 DEF DeskInv, RowsOK
    <2>8. NotesKept'
      BY <1>0, <2>2, <2>5, <2>6 DEF DeskInv, NotesKept
    <2>9. ShownOrPending'
      <3> SUFFICES ASSUME NEW b \in DeskAlerts \ crossed, alertRow[b] \notin {screen[b], "deleted"}
                   PROVE  \E o \in Desks : Pends(desk'[o], b)
        BY <2>5 DEF ShownOrPending, Pends
      <3>1. PICK o \in Desks : Pends(desk[o], b)
        BY DEF DeskInv, ShownOrPending
      <3> QED
        BY <3>1, <1>0, <2>2, <2>6 DEF Pends
    <2>10. PublishesRow'
      BY <1>0, <2>2, <2>5, <2>6 DEF DeskInv, PublishesRow, Cur
    <2> QED
      BY <2>6, <2>7, <2>8, <2>9, <2>10 DEF DeskInv
  <1> QED
    BY <1>2, <1>3

LEMMA PublishKeeps ==
    ASSUME DeskInv, NEW q \in Desks, Publish(q)
    PROVE  DeskInv'
  <1>0. PICK r, a : r = desk[q] /\ a = Head(r.ids)
    OBVIOUS
  <1>1. /\ r \in Request /\ StageOK(r) /\ TallyOK(r) /\ r.ids # << >> /\ a = Cur(q) /\ a \in DeskAlerts
        /\ r.at = "publish"
    BY <1>0, AtWork DEF Publish, DeskInv, Working
  <1>2. RequestOK(Advance(r)) /\ Advance(r).updated = r.updated /\ Advance(r).at \in {"look", "answered"}
    BY <1>0, <1>1, AdvanceOK DEF StageOK, Working
  <1>3. desk' = [desk EXCEPT ![q] = Advance(r)] /\ screen' = [screen EXCEPT ![a] = r.got]
        /\ UNCHANGED <<alertRow, notes, reopened, crossed>>
    BY <1>0, <1>1 DEF Publish
  <1>4. RequestsOK' /\ desk'[q] = Advance(r) /\ \A o \in Desks : o # q => desk'[o] = desk[o]
    BY <1>2, <1>3, RequestsKept DEF DeskInv
  <1>5. RowsOK'
    <2>1. r.got \in AlertStatuses
      BY <1>1 DEF Request, StageOK
    <2> QED
      BY <2>1, <1>0, <1>1, <1>3 DEF DeskInv, RowsOK
  <1>6. NotesKept'
    BY <1>0, <1>2, <1>3, <1>4 DEF DeskInv, NotesKept
  <1>7. ShownOrPending'
    <2> SUFFICES ASSUME NEW b \in DeskAlerts \ crossed, alertRow[b] \notin {screen'[b], "deleted"}
                 PROVE  \E o \in Desks : Pends(desk'[o], b)
      BY <1>3 DEF ShownOrPending, Pends
    <2>1. b # a
      BY <1>0, <1>1, <1>3 DEF DeskInv, PublishesRow, RowsOK
    <2>2. PICK o \in Desks : Pends(desk[o], b)
      BY <2>1, <1>3 DEF DeskInv, ShownOrPending, RowsOK
    <2> QED
      BY <2>1, <2>2, <1>0, <1>4 DEF Pends
  <1>8. PublishesRow'
    BY <1>2, <1>3, <1>4 DEF DeskInv, PublishesRow, Cur
  <1> QED
    BY <1>4, <1>5, <1>6, <1>7, <1>8 DEF DeskInv

-----------------------------------------------------------------------------
(* Changes of one alert that publish nothing. *)

LEMMA EditAlertKeeps ==
    ASSUME DeskInv, NEW a \in DeskAlerts, NEW s \in AlertStatuses, EditAlert(a, s)
    PROVE  DeskInv'
  <1>1. UNCHANGED <<notes, screen, desk>> /\ alertRow' = [alertRow EXCEPT ![a] = s]
        /\ crossed' = crossed \cup {a} /\ alertRow[a] # "deleted"
    BY DEF EditAlert
  <1>2. RowsOK'
    BY <1>1 DEF EditAlert, DeskInv, RowsOK
  <1>3. RequestsOK'
    BY <1>1 DEF DeskInv, RequestsOK, RequestOK, StageOK, TallyOK
  <1>4. \A b \in DeskAlerts : (b # a => alertRow'[b] = alertRow[b])
                              /\ (alertRow[b] = "deleted" => alertRow'[b] = "deleted")
    BY <1>1 DEF DeskInv, RowsOK
  <1>5. NotesKept'
    <2>1. \A q \in Desks : desk[q].updated \subseteq DeskAlerts
      BY DEF DeskInv, RequestsOK, Request
    <2> QED
      BY <2>1, <1>1, <1>4 DEF DeskInv, NotesKept
  <1>6. ShownOrPending'
    BY <1>1, <1>4 DEF DeskInv, ShownOrPending, Pends
  <1>7. PublishesRow'
    <2>1. \A q \in Desks : desk[q].at = "publish" => Cur(q) \in DeskAlerts
      BY AtWork DEF DeskInv, Working
    <2> QED
      BY <2>1, <1>1, <1>4 DEF DeskInv, PublishesRow, Cur
  <1> QED
    BY <1>2, <1>3, <1>5, <1>6, <1>7 DEF DeskInv

LEMMA DeleteAlertKeeps ==
    ASSUME DeskInv, NEW a \in DeskAlerts, DeleteAlert(a)
    PROVE  DeskInv'
  <1>1. UNCHANGED <<screen, desk, crossed, reopened>> /\ alertRow' = [alertRow EXCEPT ![a] = "deleted"]
        /\ notes' = {n \in notes : n[2] # a}
    BY DEF DeleteAlert
  <1>2. RowsOK'
    BY <1>1 DEF DeskInv, RowsOK
  <1>3. RequestsOK'
    BY <1>1 DEF DeskInv, RequestsOK, RequestOK, StageOK, TallyOK
  <1>4. alertRow'[a] = "deleted" /\ \A b \in DeskAlerts : b # a => alertRow'[b] = alertRow[b]
    BY <1>1 DEF DeskInv, RowsOK
  <1>5. NotesKept'
    <2>1. \A q \in Desks : desk[q].updated \subseteq DeskAlerts
      BY DEF DeskInv, RequestsOK, Request
    <2> QED
      BY <2>1, <1>1, <1>4 DEF DeskInv, NotesKept
  <1>6. ShownOrPending'
    BY <1>1, <1>4 DEF DeskInv, ShownOrPending, Pends
  <1>7. PublishesRow'
    <2>1. \A q \in Desks : desk[q].at = "publish" => Cur(q) \in DeskAlerts
      BY AtWork DEF DeskInv, Working
    <2> QED
      BY <2>1, <1>1, <1>4 DEF DeskInv, PublishesRow, Cur
  <1> QED
    BY <1>2, <1>3, <1>5, <1>6, <1>7 DEF DeskInv

-----------------------------------------------------------------------------
LEMMA DeskInvStep == DeskInv /\ [AlertDeskNext]_deskVars => DeskInv'
  <1> SUFFICES ASSUME DeskInv, [AlertDeskNext]_deskVars PROVE DeskInv'
    OBVIOUS
  <1>1. CASE UNCHANGED deskVars
    BY <1>1 DEF deskVars, DeskInv, RowsOK, RequestsOK, RequestOK, StageOK, TallyOK, NotesKept,
                ShownOrPending, Pends, PublishesRow, Cur
  <1>2. CASE AlertDeskNext
    BY <1>2, BeginBulkKeeps, BeginSingleKeeps, SetAssigneeKeeps, AddNoteKeeps, LookKeeps, LookFailsKeeps, RereadFailsKeeps,
       WriteStatusKeeps, InsertNoteKeeps, RereadKeeps, PublishKeeps, FailStatementKeeps,
       TakeAnswerKeeps, EditAlertKeeps, DeleteAlertKeeps
       DEF AlertDeskNext
  <1> QED
    BY <1>1, <1>2

\* For any alerts, scopes, lists of ids and operators, however the statements of
\* their requests interleave and fail: a bulk answer accounts for every id, an
\* alert seen resolved is not re-opened, and once no request is under way the
\* screens show the rows unless requests crossed (operator.go, alerts.go).
THEOREM AlertDeskSafeAlways == AlertDeskSpec => []AlertDeskSafe
  <1>1. DeskInv /\ [AlertDeskNext]_deskVars => DeskInv'
    BY DeskInvStep
  <1> QED
    BY <1>1, DeskInvInit, DeskInvSafe, PTL DEF AlertDeskSpec

-----------------------------------------------------------------------------
(***************************************************************************)
(* Incidents.                                                              *)
(***************************************************************************)
IncidentRow == [status : Statuses, assigned : Assignees \cup {"unassigned"}, severity : Severities,
                resolvedAt : BOOLEAN, duration : 0..MaxIncidentTime, breached : BOOLEAN]
TimelineEntry == [column : {"status", "assigned"}, old : Values \cup {"none"}, new : Values, claimed : BOOLEAN]
Handler == [pc : {"idle", "read", "write", "append", "done"}, to : Values, read : Values, breached : BOOLEAN]

Sets == {"acknowledged", "resolved", "closed"} \cup Assignees

IncidentTypes ==
    /\ incident \in IncidentRow /\ timeline \in Seq(TimelineEntry) /\ handler \in [Operators -> Handler]
    /\ now \in 0..MaxIncidentTime /\ appendErrors \in 0..MaxAppendErrors
    /\ edited \in BOOLEAN /\ interleaved \in BOOLEAN
    /\ \A o \in Operators : handler[o].pc \in {"read", "write", "append"} => handler[o].to \in Sets

\* The time of the resolution stays once it is set; who is about to close has
\* seen the incident resolved.
ResolutionKept ==
    ~edited =>
        /\ incident.status \in {"resolved", "closed"} => incident.resolvedAt
        /\ \A o \in Operators : (handler[o].pc = "write" /\ handler[o].to = "closed") => incident.resolvedAt

\* What a handler that follows the others has read is still so when it writes,
\* and is where the timeline stands when it appends.
ReadsHold ==
    (~edited /\ ~interleaved) =>
        /\ \A o \in Operators : handler[o].pc = "write" => handler[o].read = incident[Column(handler[o].to)]
        /\ \A o \in Operators : handler[o].pc = "append" =>
              /\ incident[Column(handler[o].to)] = handler[o].to
              /\ \A p \in Operators : handler[p].pc = "append" => p = o

TimelineStands ==
    (~edited /\ ~interleaved /\ appendErrors = 0) =>
        \A column \in {"status", "assigned"} :
            /\ Chained(column)
            /\ \A i \in NewestTold(column) :
                  \/ /\ timeline[i].new = incident[column]
                     /\ \A o \in Operators : handler[o].pc = "append" => Column(handler[o].to) # column
                  \/ \E o \in Operators : /\ handler[o].pc = "append" /\ Column(handler[o].to) = column
                                          /\ timeline[i].new = handler[o].read

IncidentInv == IncidentTypes /\ ResolutionKept /\ ReadsHold /\ TimelineStands

LEMMA IncidentInvSafe == IncidentInv => IncidentsSafe
  <1> SUFFICES ASSUME IncidentInv PROVE IncidentsSafe
    OBVIOUS
  <1>1. IncidentsTypeOK
    BY DEF IncidentInv, IncidentTypes, IncidentRow, TimelineEntry, Handler, IncidentsTypeOK
  <1>2. ClosedWasResolved
    BY DEF IncidentInv, ResolutionKept, ClosedWasResolved
  <1>3. TimelineTellsStatus
    BY DEF IncidentInv, TimelineStands, TimelineTellsStatus
  <1> QED
    BY <1>1, <1>2, <1>3 DEF IncidentsSafe

LEMMA NoHandlerType == NoHandler \in Handler /\ NoHandler.pc = "idle" /\ [NoHandler EXCEPT !.pc = "done"] \in Handler
                       /\ [NoHandler EXCEPT !.pc = "done"].pc = "done"
  <1>1. PICK b \in BOOLEAN : b = FALSE
    OBVIOUS
  <1>2. NoHandler = [pc |-> "idle", to |-> "open", read |-> "open", breached |-> b]
    BY <1>1 DEF NoHandler
  <1> QED
    BY <1>2 DEF Handler, Values, Statuses

LEMMA ColumnOf ==
    ASSUME NEW v \in Values
    PROVE  /\ Column(v) \in {"status", "assigned"}
           /\ Column(v) = "status" => v \in Statuses
           /\ Column(v) = "assigned" => v \in Assignees \cup {"unassigned"}
           /\ v \in {"acknowledged", "resolved", "closed"} => Column(v) = "status"
           /\ v \in Assignees => Column(v) = "assigned"
  BY IncidentsAssumption DEF Column, Values, Statuses

LEMMA IncidentInvInit == IncidentsInit => IncidentInv
  <1> SUFFICES ASSUME IncidentsInit PROVE IncidentInv
    OBVIOUS
  <1>0. PICK b \in BOOLEAN : b = FALSE
    OBVIOUS
  <1>1. incident \in IncidentRow /\ incident.status = "open" /\ incident.assigned = "unassigned"
    <2>1. PICK s \in Severities :
            incident = [status |-> "open", assigned |-> "unassigned", severity |-> s,
                        resolvedAt |-> b, duration |-> 0, breached |-> b]
      BY <1>0 DEF IncidentsInit, CreateIncident
    <2> QED
      BY <2>1, <1>0, IncidentsAssumption DEF IncidentRow, Statuses
  <1>2. PICK e \in TimelineEntry : timeline = <<e>> /\ e.column = "status" /\ e.new = "open"
    <2>1. PICK e : e = [column |-> "status", old |-> "none", new |-> "open", claimed |-> b]
      OBVIOUS
    <2>2. e \in TimelineEntry /\ e.column = "status" /\ e.new = "open"
      BY <2>1, <1>0 DEF TimelineEntry, Values, Statuses
    <2>3. timeline = <<e>>
      BY <2>1, <1>0 DEF IncidentsInit, CreateIncident, Entry, Column, Statuses
    <2> QED
      BY <2>2, <2>3
  <1>3. \A o \in Operators : handler[o].pc = "idle"
    BY NoHandlerType DEF IncidentsInit
  <1>4. IncidentTypes
    <2>1. timeline \in Seq(TimelineEntry) /\ handler \in [Operators -> Handler]
      BY <1>2, NoHandlerType DEF IncidentsInit
    <2>2. now \in 0..MaxIncidentTime /\ appendErrors \in 0..MaxAppendErrors
      BY IncidentsAssumption DEF IncidentsInit
    <2>3. edited \in BOOLEAN /\ interleaved \in BOOLEAN
      BY DEF IncidentsInit
    <2> QED
      BY <1>1, <1>3, <2>1, <2>2, <2>3 DEF IncidentTypes
  <1>5. \A column : Told(column) \subseteq {1}
    BY <1>2 DEF Told
  <1>6. TimelineStands
    <2>1. \A column \in {"status", "assigned"} : Chained(column)
      BY <1>5 DEF Chained
    <2>2. \A column \in {"status", "assigned"} : \A i \in NewestTold(column) : timeline[i].new = incident[column]
      BY <1>1, <1>2, <1>5 DEF NewestTold, Told
    <2> QED
      BY <1>3, <2>1, <2>2 DEF TimelineStands
  <1> QED
    BY <1>1, <1>3, <1>4, <1>6 DEF IncidentInv, ResolutionKept, ReadsHold

\* A handler's step that writes neither the row nor the timeline.
LEMMA HandlerStep ==
    ASSUME IncidentInv, NEW o \in Operators, NEW h \in Handler,
           handler' = [handler EXCEPT ![o] = h], handler[o].pc # "append", h.pc # "append",
           h.pc \in {"read", "write"} => h.to \in Sets,
           h.pc = "write" => h.read = incident[Column(h.to)],
           (h.pc = "write" /\ h.to = "closed") => incident.status = "resolved",
           UNCHANGED <<incident, timeline, now, appendErrors, edited, interleaved>>
    PROVE  IncidentInv'
  <1>1. handler' \in [Operators -> Handler] /\ handler'[o] = h /\ \A p \in Operators : p # o => handler'[p] = handler[p]
    BY DEF IncidentInv, IncidentTypes
  <1>2. IncidentTypes'
    BY <1>1 DEF IncidentInv, IncidentTypes
  <1>3. ResolutionKept'
    BY <1>1 DEF IncidentInv, ResolutionKept
  <1>4. ReadsHold'
    BY <1>1 DEF IncidentInv, ReadsHold
  <1>5. \A column : Told(column)' = Told(column) /\ NewestTold(column)' = NewestTold(column)
                    /\ (Chained(column)' <=> Chained(column))
    BY DEF Told, NewestTold, Chained
  <1>6. TimelineStands'
    BY <1>1, <1>5 DEF IncidentInv, TimelineStands
  <1> QED
    BY <1>2, <1>3, <1>4, <1>6 DEF IncidentInv

LEMMA ServeKeeps ==
    ASSUME IncidentInv, NEW o \in Operators, NEW to \in Sets, Serve(o, to)
    PROVE  IncidentInv'
  <1>1. handler[o] \in Handler
    BY DEF IncidentInv, IncidentTypes
  <1>2. PICK h : h = [handler[o] EXCEPT !.pc = "read", !.to = to]
    OBVIOUS
  <1>3. h \in Handler /\ h.pc = "read" /\ h.to = to
    BY <1>1, <1>2 DEF Handler, Sets, Values, Statuses
  <1>4. handler' = [handler EXCEPT ![o] = h]
    BY <1>2 DEF Serve
  <1> QED
    BY <1>3, <1>4, HandlerStep DEF Serve

LEMMA ReadIncidentKeeps ==
    ASSUME IncidentInv, NEW o \in Operators, ReadIncident(o)
    PROVE  IncidentInv'
  <1>1. PICK h : h = handler[o]
    OBVIOUS
  <1>2. h \in Handler /\ h.pc = "read" /\ h.to \in Sets
    BY <1>1 DEF IncidentInv, IncidentTypes, ReadIncident
  <1>3. CASE Admits(h.to, incident.status)
    <2>1. PICK b \in BOOLEAN : b = (h.to = "resolved" /\ checkSLABreach(incident.status, now))
      BY Zenon
    <2>2. PICK s : s = [h EXCEPT !.pc = "write", !.read = incident[Column(h.to)], !.breached = b]
      OBVIOUS
    <2>3. incident[Column(h.to)] \in Values
      <3>1. h.to \in Values
        BY <1>2 DEF Handler
      <3>2. incident.status \in Values /\ incident.assigned \in Values
        BY DEF IncidentInv, IncidentTypes, IncidentRow, Values
      <3> QED
        BY <3>1, <3>2, ColumnOf
    <2>4. s \in Handler /\ s.pc = "write" /\ s.to = h.to /\ s.read = incident[Column(h.to)]
      BY <1>2, <2>1, <2>2, <2>3 DEF Handler
    <2>5. handler' = [handler EXCEPT ![o] = s]
      BY <1>1, <1>3, <2>1, <2>2 DEF ReadIncident
    <2>6. h.to = "closed" => incident.status = "resolved"
      BY <1>3, IncidentsAssumption DEF Admits
    <2> QED
      BY <1>1, <1>2, <2>4, <2>5, <2>6, HandlerStep DEF ReadIncident
  <1>4. CASE ~ Admits(h.to, incident.status)
    <2>1. PICK s : s = [NoHandler EXCEPT !.pc = "done"]
      OBVIOUS
    <2>2. handler' = [handler EXCEPT ![o] = s]
      BY <1>1, <1>4, <2>1 DEF ReadIncident
    <2> QED
      BY <1>1, <1>2, <2>1, <2>2, NoHandlerType, HandlerStep DEF ReadIncident
  <1> QED
    BY <1>3, <1>4

-----------------------------------------------------------------------------
(* The timeline. *)

LEMMA Appended ==
    ASSUME IncidentTypes, NEW e \in TimelineEntry, timeline' = Append(timeline, e)
    PROVE  /\ timeline' \in Seq(TimelineEntry) /\ Len(timeline) \in Nat
           /\ \A c : Told(c) \subseteq 1 .. Len(timeline)
           /\ \A i \in 1 .. Len(timeline) : timeline'[i] = timeline[i]
           /\ timeline'[Len(timeline) + 1] = e
           /\ \A c : (e.column = c /\ ~e.claimed) => Told(c)' = Told(c) \cup {Len(timeline) + 1}
           /\ \A c : ~(e.column = c /\ ~e.claimed) => Told(c)' = Told(c)
  <1>1. timeline' \in Seq(TimelineEntry) /\ Len(timeline) \in Nat /\ DOMAIN timeline = 1 .. Len(timeline)
        /\ DOMAIN timeline' = 1 .. (Len(timeline) + 1)
        /\ (\A i \in 1 .. Len(timeline) : timeline'[i] = timeline[i]) /\ timeline'[Len(timeline) + 1] = e
    BY AppendProperties, LenProperties DEF IncidentTypes
  <1>2. \A i \in 1 .. (Len(timeline) + 1) : i \in 1 .. Len(timeline) \/ i = Len(timeline) + 1
    BY <1>1
  <1> QED
    BY <1>1, <1>2 DEF Told

\* An entry about something else, or of a client.
LEMMA AppendedAside ==
    ASSUME IncidentTypes, NEW e \in TimelineEntry, timeline' = Append(timeline, e),
           NEW c, e.column # c \/ e.claimed
    PROVE  /\ NewestTold(c)' = NewestTold(c) /\ (Chained(c) => Chained(c)')
           /\ \A i \in NewestTold(c) : timeline'[i] = timeline[i]
  <1>1. Told(c)' = Told(c) /\ Told(c) \subseteq 1 .. Len(timeline)
        /\ \A i \in 1 .. Len(timeline) : timeline'[i] = timeline[i]
    BY Appended
  <1> QED
    BY <1>1 DEF NewestTold, Chained

\* An entry of a handler that starts where the timeline stands.
LEMMA AppendedTold ==
    ASSUME IncidentTypes, NEW e \in TimelineEntry, timeline' = Append(timeline, e), ~e.claimed,
           Chained(e.column), \A i \in NewestTold(e.column) : timeline[i].new = e.old
    PROVE  /\ Chained(e.column)' /\ \A i \in NewestTold(e.column)' : timeline'[i] = e
  <1> DEFINE n == Len(timeline) + 1
  <1>0. PICK c : c = e.column
    OBVIOUS
  <1>1. /\ Told(c)' = Told(c) \cup {n} /\ Told(c) \subseteq 1 .. Len(timeline) /\ Len(timeline) \in Nat
        /\ (\A i \in 1 .. Len(timeline) : timeline'[i] = timeline[i]) /\ timeline'[n] = e
    BY <1>0, Appended
  <1>2. \A i \in NewestTold(c)' : i = n
    BY <1>1 DEF NewestTold
  <1>3. Chained(c)'
    <2> SUFFICES ASSUME NEW i \in Told(c)', NEW j \in Told(c)', i < j,
                        \A k \in Told(c)' : k <= i \/ j <= k
                 PROVE  timeline'[j].old = timeline'[i].new
      BY DEF Chained
    <2>1. i \in Told(c) /\ i \in 1 .. Len(timeline) /\ timeline'[i] = timeline[i]
      BY <1>1
    <2>2. CASE j = n
      <3>1. i \in NewestTold(c)
        BY <1>1, <2>1, <2>2 DEF NewestTold
      <3> QED
        BY <3>1, <1>0, <1>1, <2>1, <2>2
    <2>3. CASE j # n
      <3>1. j \in Told(c) /\ timeline'[j] = timeline[j]
        BY <1>1, <2>3
      <3> QED
        BY <3>1, <1>0, <1>1, <2>1 DEF Chained
    <2> QED
      BY <2>2, <2>3
  <1> QED
    BY <1>0, <1>1, <1>2, <1>3

LEMMA AddTimelineEntryKeeps ==
    ASSUME IncidentInv, NEW o \in Operators, AddTimelineEntry(o)
    PROVE  IncidentInv'
  <1>0. handler[o] \in Handler
    BY DEF IncidentInv, IncidentTypes
  <1>1. PICK h : h = [handler[o] EXCEPT !.pc = "done"]
    OBVIOUS
  <1>2. h \in Handler /\ h.pc = "done"
    BY <1>0, <1>1 DEF Handler
  <1>3. handler' = [handler EXCEPT ![o] = h] /\ handler[o].pc = "idle"
        /\ UNCHANGED <<incident, now, appendErrors, edited, interleaved>>
    BY <1>1 DEF AddTimelineEntry
  <1>4. CASE UNCHANGED timeline
    BY <1>2, <1>3, <1>4, HandlerStep
  <1>5. CASE timeline' = Append(timeline, Entry("none", "open", TRUE))
    <2>0. PICK b \in BOOLEAN : b = TRUE
      OBVIOUS
    <2>1. PICK e : e = [column |-> "status", old |-> "none", new |-> "open", claimed |-> b]
      OBVIOUS
    <2>2. e \in TimelineEntry /\ e.claimed
      BY <2>0, <2>1 DEF TimelineEntry, Values, Statuses
    <2>3. timeline' = Append(timeline, e)
      BY <2>0, <2>1, <1>5 DEF Entry, Column, Statuses
    <2>4. handler' \in [Operators -> Handler] /\ handler'[o] = h
          /\ \A p \in Operators : p # o => handler'[p] = handler[p]
      BY <1>2, <1>3 DEF IncidentInv, IncidentTypes
    <2>5. IncidentTypes'
      BY <1>2, <1>3, <2>2, <2>3, <2>4, Appended DEF IncidentInv, IncidentTypes
    <2>6. ResolutionKept' /\ ReadsHold'
      BY <1>2, <1>3, <2>4 DEF IncidentInv, ResolutionKept, ReadsHold
    <2>7. \A c : /\ NewestTold(c)' = NewestTold(c) /\ (Chained(c) => Chained(c)')
                 /\ \A i \in NewestTold(c) : timeline'[i] = timeline[i]
      BY <2>2, <2>3, AppendedAside DEF IncidentInv
    <2>8. TimelineStands'
      BY <1>2, <1>3, <2>4, <2>7 DEF IncidentInv, TimelineStands
    <2> QED
      BY <2>5, <2>6, <2>8 DEF IncidentInv
  <1> QED
    BY <1>4, <1>5 DEF AddTimelineEntry

LEMMA AppendTimelineKeeps ==
    ASSUME IncidentInv, NEW o \in Operators, AppendTimeline(o)
    PROVE  IncidentInv'
  <1>0. PICK g : g = handler[o]
    OBVIOUS
  <1>1. g \in Handler /\ g.pc = "append" /\ g.to \in Sets /\ g.to \in Values /\ g.read \in Values
    BY <1>0 DEF IncidentInv, IncidentTypes, AppendTimeline, Handler
  <1>2. PICK h : h = [NoHandler EXCEPT !.pc = "done"]
    OBVIOUS
  <1>3. h \in Handler /\ h.pc = "done"
    BY <1>2, NoHandlerType
  <1>4. handler' = [handler EXCEPT ![o] = h] /\ UNCHANGED <<incident, now, edited, interleaved>>
    BY <1>2 DEF AppendTimeline
  <1>5. handler' \in [Operators -> Handler] /\ handler'[o] = h
        /\ \A p \in Operators : p # o => handler'[p] = handler[p]
    BY <1>3, <1>4 DEF IncidentInv, IncidentTypes
  <1>6. ResolutionKept' /\ ReadsHold'
    BY <1>3, <1>4, <1>5 DEF IncidentInv, ResolutionKept, ReadsHold
  <1>7. CASE appendErrors < MaxAppendErrors /\ appendErrors' = appendErrors + 1 /\ UNCHANGED timeline
    <2>1. appendErrors' \in 0..MaxAppendErrors /\ appendErrors' # 0
      BY <1>7, IncidentsAssumption DEF IncidentInv, IncidentTypes
    <2>2. IncidentTypes'
      BY <1>3, <1>4, <1>5, <1>7, <2>1 DEF IncidentInv, IncidentTypes
    <2>3. TimelineStands'
      BY <2>1 DEF TimelineStands
    <2> QED
      BY <1>6, <2>2, <2>3 DEF IncidentInv
  <1>8. CASE timeline' = Append(timeline, Entry(handler[o].read, handler[o].to, FALSE)) /\ UNCHANGED appendErrors
    <2>0. PICK b \in BOOLEAN : b = FALSE
      OBVIOUS
    <2>1. PICK e : e = [column |-> Column(g.to), old |-> g.read, new |-> g.to, claimed |-> b]
      OBVIOUS
    <2>2. e \in TimelineEntry /\ ~e.claimed /\ e.column = Column(g.to) /\ e.old = g.read /\ e.new = g.to
      BY <1>1, <2>0, <2>1, ColumnOf DEF TimelineEntry
    <2>3. timeline' = Append(timeline, e)
      BY <1>0, <2>0, <2>1, <1>8 DEF Entry
    <2>5. IncidentTypes'
      BY <1>3, <1>4, <1>5, <1>8, <2>2, <2>3, Appended DEF IncidentInv, IncidentTypes
    <2>6. TimelineStands'
      <3> SUFFICES ASSUME ~edited, ~interleaved, appendErrors = 0, NEW c \in {"status", "assigned"}
                   PROVE  /\ Chained(c)'
                          /\ \A i \in NewestTold(c)' :
                               /\ timeline'[i].new = incident[c]
                               /\ \A p \in Operators : handler'[p].pc # "append"
        BY <1>4, <1>8 DEF TimelineStands
      <3>1. \A p \in Operators : handler[p].pc = "append" => p = o
        BY <1>0, <1>1 DEF IncidentInv, ReadsHold
      <3>2. \A p \in Operators : handler'[p].pc # "append"
        BY <3>1, <1>3, <1>5
      <3>3. incident[Column(g.to)] = g.to
        BY <1>0, <1>1 DEF IncidentInv, ReadsHold
      <3>4. Chained(c)
        BY DEF IncidentInv, TimelineStands
      <3>5. CASE c = Column(g.to)
        <4>1. \A i \in NewestTold(c) : timeline[i].new = g.read
          BY <3>1, <3>5, <1>0, <1>1 DEF IncidentInv, TimelineStands
        <4>2. Chained(c)' /\ \A i \in NewestTold(c)' : timeline'[i] = e
          BY <4>1, <3>4, <3>5, <2>2, <2>3, AppendedTold DEF IncidentInv
        <4> QED
          BY <4>2, <3>2, <3>3, <3>5, <2>2
      <3>6. CASE c # Column(g.to)
        <4>1. /\ NewestTold(c)' = NewestTold(c) /\ (Chained(c) => Chained(c)')
              /\ \A i \in NewestTold(c) : timeline'[i] = timeline[i]
          BY <3>6, <2>2, <2>3, AppendedAside DEF IncidentInv
        <4>2. \A i \in NewestTold(c) : timeline[i].new = incident[c]
          BY <3>1, <3>6, <1>0, <1>1 DEF IncidentInv, TimelineStands
        <4> QED
          BY <4>1, <4>2, <3>2, <3>4
      <3> QED
        BY <3>5, <3>6
    <2> QED
      BY <1>6, <2>5, <2>6 DEF IncidentInv
  <1> QED
    BY <1>7, <1>8 DEF AppendTimeline

-----------------------------------------------------------------------------
(* The row. *)

LEMMA WriteIncidentKeeps ==
    ASSUME IncidentInv, NEW o \in Operators, WriteIncident(o)
    PROVE  IncidentInv'
  <1>0. PICK g : g = handler[o]
    OBVIOUS
  <1>1. g \in Handler /\ g.pc = "write" /\ g.to \in Sets /\ g.to \in Values /\ g.breached \in BOOLEAN
    BY <1>0 DEF IncidentInv, IncidentTypes, WriteIncident, Handler
  <1>2. PICK h : h = [g EXCEPT !.pc = "append"]
    OBVIOUS
  <1>3. h \in Handler /\ h.pc = "append" /\ h.to = g.to /\ h.read = g.read
    BY <1>1, <1>2 DEF Handler
  <1>4. handler' = [handler EXCEPT ![o] = h] /\ UNCHANGED <<timeline, now, appendErrors, edited>>
    BY <1>0, <1>2 DEF WriteIncident
  <1>5. handler' \in [Operators -> Handler] /\ handler'[o] = h
        /\ \A p \in Operators : p # o => handler'[p] = handler[p]
    BY <1>3, <1>4 DEF IncidentInv, IncidentTypes
  <1>6. interleaved' \in BOOLEAN
        /\ (~interleaved' => ~interleaved /\ \A p \in Operators : p # o => handler[p].pc \in {"idle", "done"})
    <2>1. interleaved' = (interleaved \/ \E p \in Operators \ {o} : handler[p].pc \notin {"idle", "done"})
      BY DEF WriteIncident
    <2>2. interleaved' \in BOOLEAN
      BY <2>1, Zenon
    <2> QED
      BY <2>1, <2>2
  <1>7. /\ incident' \in IncidentRow /\ incident'[Column(g.to)] = g.to
        /\ incident'.resolvedAt = (incident.resolvedAt \/ g.to = "resolved")
        /\ \A c \in {"status", "assigned"} : c # Column(g.to) => incident'[c] = incident[c]
    <2>1. incident \in IncidentRow /\ now \in 0..MaxIncidentTime
      BY DEF IncidentInv, IncidentTypes
    <2>2. CASE g.to = "resolved"
      <3>0. PICK b \in BOOLEAN : b = TRUE
        OBVIOUS
      <3>1. incident' = [incident EXCEPT !.status = "resolved", !.resolvedAt = b, !.duration = now,
                                         !.breached = g.breached]
        BY <1>0, <2>2, <3>0 DEF WriteIncident
      <3>2. Column(g.to) = "status"
        BY <2>2, <1>1, ColumnOf
      <3>3. incident' \in IncidentRow /\ incident'.status = "resolved" /\ incident'.resolvedAt = b
            /\ incident'.assigned = incident.assigned
        BY <2>1, <3>0, <3>1, <1>1 DEF IncidentRow, Statuses
      <3> QED
        BY <2>2, <3>0, <3>2, <3>3
    <2>3. CASE g.to # "resolved"
      <3>1. incident' = [incident EXCEPT ![Column(g.to)] = g.to]
        BY <1>0, <2>3 DEF WriteIncident
      <3>2. CASE Column(g.to) = "status"
        <4>1. incident' = [incident EXCEPT !.status = g.to] /\ g.to \in Statuses
          BY <3>1, <3>2, <1>1, ColumnOf
        <4>2. incident' \in IncidentRow /\ incident'.status = g.to /\ incident'.resolvedAt = incident.resolvedAt
              /\ incident'.assigned = incident.assigned
          BY <2>1, <4>1 DEF IncidentRow
        <4>3. incident.resolvedAt \in BOOLEAN
          BY <2>1 DEF IncidentRow
        <4> QED
          BY <2>3, <3>2, <4>2, <4>3
      <3>3. CASE Column(g.to) = "assigned"
        <4>1. incident' = [incident EXCEPT !.assigned = g.to] /\ g.to \in Assignees \cup {"unassigned"}
          BY <3>1, <3>3, <1>1, ColumnOf
        <4>2. incident' \in IncidentRow /\ incident'.assigned = g.to /\ incident'.resolvedAt = incident.resolvedAt
              /\ incident'.status = incident.status
          BY <2>1, <4>1 DEF IncidentRow
        <4>3. incident.resolvedAt \in BOOLEAN
          BY <2>1 DEF IncidentRow
        <4> QED
          BY <2>3, <3>3, <4>2, <4>3
      <3> QED
        BY <3>2, <3>3, <1>1, ColumnOf
    <2> QED
      BY <2>2, <2>3
  <1>8. IncidentTypes'
    BY <1>1, <1>3, <1>4, <1>5, <1>6, <1>7 DEF IncidentInv, IncidentTypes
  <1>9. ResolutionKept'
    <2>1. incident.resolvedAt => incident'.resolvedAt
      BY <1>7
    <2>2. ASSUME ~edited, incident'.status \in {"resolved", "closed"} PROVE incident'.resolvedAt
      <3>1. CASE Column(g.to) = "assigned"
        BY <3>1, <2>1, <2>2, <1>7 DEF IncidentInv, ResolutionKept
      <3>2. CASE Column(g.to) = "status"
        <4>1. incident'.status = g.to
          BY <3>2, <1>7
        <4> QED
          BY <4>1, <2>1, <2>2, <1>0, <1>1, <1>7 DEF IncidentInv, ResolutionKept
      <3> QED
        BY <3>1, <3>2, <1>1, ColumnOf
    <2> QED
      BY <2>1, <2>2, <1>3, <1>4, <1>5 DEF IncidentInv, ResolutionKept
  <1>10. ReadsHold'
    <2> SUFFICES ASSUME ~edited', ~interleaved' PROVE ReadsHold'
      BY DEF ReadsHold
    <2> QED
      BY <1>3, <1>5, <1>6, <1>7 DEF ReadsHold
  <1>11. TimelineStands'
    <2> SUFFICES ASSUME ~edited, ~interleaved', appendErrors = 0, NEW c \in {"status", "assigned"}
                 PROVE  /\ Chained(c)
                        /\ \A i \in NewestTold(c) :
                             \/ /\ timeline[i].new = incident'[c]
                                /\ \A p \in Operators : handler'[p].pc = "append" => Column(handler'[p].to) # c
                             \/ \E p \in Operators : /\ handler'[p].pc = "append" /\ Column(handler'[p].to) = c
                                                     /\ timeline[i].new = handler'[p].read
      BY <1>4 DEF TimelineStands, Chained, NewestTold, Told
    <2>1. \A p \in Operators : handler[p].pc # "append"
      BY <1>0, <1>1, <1>6
    <2>2. Chained(c) /\ \A i \in NewestTold(c) : timeline[i].new = incident[c]
      BY <2>1, <1>6 DEF IncidentInv, TimelineStands
    <2>3. g.read = incident[Column(g.to)]
      BY <1>0, <1>1, <1>6 DEF IncidentInv, ReadsHold
    <2>4. CASE c = Column(g.to)
      BY <2>2, <2>3, <2>4, <1>3, <1>5
    <2>5. CASE c # Column(g.to)
      BY <2>1, <2>2, <2>5, <1>3, <1>5, <1>7
    <2> QED
      BY <2>4, <2>5
  <1> QED
    BY <1>8, <1>9, <1>10, <1>11 DEF IncidentInv

LEMMA EditIncidentKeeps ==
    ASSUME IncidentInv, NEW o \in Operators, EditIncident(o)
    PROVE  IncidentInv'
  <1>0. handler[o] \in Handler /\ incident \in IncidentRow /\ edited \in BOOLEAN
    BY DEF IncidentInv, IncidentTypes
  <1>1. PICK h : h = [handler[o] EXCEPT !.pc = "done"]
    OBVIOUS
  <1>2. h \in Handler /\ h.pc = "done"
    BY <1>0, <1>1 DEF Handler
  <1>3. handler' = [handler EXCEPT ![o] = h] /\ handler[o].pc = "idle"
        /\ UNCHANGED <<timeline, now, appendErrors, interleaved>>
    BY <1>1 DEF EditIncident
  <1>4. CASE UNCHANGED incident
    <2>1. UNCHANGED edited
      BY <1>0, <1>4 DEF EditIncident
    <2> QED
      BY <2>1, <1>2, <1>3, <1>4, HandlerStep
  <1>5. CASE incident' # incident
    <2>1. edited'
      BY <1>5 DEF EditIncident
    <2>2. edited' \in BOOLEAN
      <3>1. edited' = (edited \/ incident' # incident)
        BY DEF EditIncident
      <3> QED
        BY <3>1, Zenon
    <2>3. incident' \in IncidentRow
      <3>1. ASSUME NEW v \in Values, incident' = [incident EXCEPT ![Column(v)] = v] PROVE incident' \in IncidentRow
        <4>1. CASE Column(v) = "status"
          <5>1. incident' = [incident EXCEPT !.status = v] /\ v \in Statuses
            BY <3>1, <4>1, ColumnOf
          <5> QED
            BY <5>1, <1>0 DEF IncidentRow
        <4>2. CASE Column(v) = "assigned"
          <5>1. incident' = [incident EXCEPT !.assigned = v] /\ v \in Assignees \cup {"unassigned"}
            BY <3>1, <4>2, ColumnOf
          <5> QED
            BY <5>1, <1>0 DEF IncidentRow
        <4> QED
          BY <4>1, <4>2, ColumnOf
      <3>2. ASSUME incident' = [incident EXCEPT !.resolvedAt = FALSE] PROVE incident' \in IncidentRow
        <4>1. PICK b \in BOOLEAN : b = FALSE
          OBVIOUS
        <4>2. incident' = [incident EXCEPT !.resolvedAt = b]
          BY <3>2, <4>1
        <4> QED
          BY <4>1, <4>2, <1>0 DEF IncidentRow
      <3> QED
        BY <3>1, <3>2 DEF EditIncident
    <2>4. handler' \in [Operators -> Handler] /\ handler'[o] = h
          /\ \A p \in Operators : p # o => handler'[p] = handler[p]
      BY <1>2, <1>3 DEF IncidentInv, IncidentTypes
    <2>5. IncidentTypes'
      BY <1>2, <1>3, <2>2, <2>3, <2>4 DEF IncidentInv, IncidentTypes
    <2> QED
      BY <2>1, <2>5 DEF IncidentInv, ResolutionKept, ReadsHold, TimelineStands
  <1> QED
    BY <1>4, <1>5

LEMMA IncidentInvStep == IncidentInv /\ [IncidentsNext]_incidentVars => IncidentInv'
  <1> SUFFICES ASSUME IncidentInv, [IncidentsNext]_incidentVars PROVE IncidentInv'
    OBVIOUS
  <1>1. ASSUME UNCHANGED <<incident, timeline, handler, appendErrors, edited, interleaved>>,
               now' \in 0..MaxIncidentTime
        PROVE  IncidentInv'
    BY <1>1 DEF IncidentInv, IncidentTypes, ResolutionKept, ReadsHold, TimelineStands, Chained, NewestTold, Told
  <1>2. CASE UNCHANGED incidentVars
    BY <1>1, <1>2 DEF incidentVars, IncidentInv, IncidentTypes
  <1>3. CASE IncidentTime
    <2>1. now' \in 0..MaxIncidentTime
      BY <1>3, IncidentsAssumption DEF IncidentTime, IncidentInv, IncidentTypes
    <2> QED
      BY <1>1, <1>3, <2>1 DEF IncidentTime
  <1>4. ASSUME NEW o \in Operators, AcknowledgeIncident(o) \/ ResolveIncident(o) \/ CloseIncident(o)
                                    \/ \E user \in Assignees : AssignIncident(o, user)
        PROVE  IncidentInv'
    <2>1. "acknowledged" \in Sets /\ "resolved" \in Sets /\ "closed" \in Sets /\ Assignees \subseteq Sets
      BY DEF Sets
    <2> QED
      BY <1>4, <2>1, ServeKeeps DEF AcknowledgeIncident, ResolveIncident, CloseIncident, AssignIncident
  <1> QED
    BY <1>2, <1>3, <1>4, ReadIncidentKeeps, WriteIncidentKeeps, AppendTimelineKeeps, AddTimelineEntryKeeps,
       EditIncidentKeeps DEF IncidentsNext

\* For any operators, assignees and limits, however the statements of the
\* handlers interleave and fail: a closed incident carries the time of its
\* resolution unless the row was edited, and the timeline of requests that did
\* not overlap tells the status and the assignee (incident.go).
THEOREM IncidentsSafeAlways == IncidentsSpec => []IncidentsSafe
  <1> QED
    BY IncidentInvInit, IncidentInvStep, IncidentInvSafe, PTL DEF IncidentsSpec

-----------------------------------------------------------------------------
(***************************************************************************)
(* Contacts.                                                               *)
(***************************************************************************)
\* Minutes around the clock, without the remainder.
LEMMA AroundTheClock ==
    ASSUME NEW s \in Minutes, NEW m \in Minutes
    PROVE  Since(s, m) = IF s <= m THEN m - s ELSE m + DayMinutes - s
  <1>1. DayMinutes \in Nat \ {0} /\ s \in Nat /\ m \in Nat /\ s < DayMinutes /\ m < DayMinutes
    BY ContactBounds DEF Minutes
  <1>2. CASE s <= m
    <2>1. m - s \in 0..(DayMinutes - 1)
      BY <1>1, <1>2
    <2>2. (m - s) + DayMinutes = m + DayMinutes - s
      BY <1>1
    <2>3. ((m - s) + DayMinutes) % DayMinutes = m - s
      BY <1>1, <2>1
    <2> QED
      BY <1>2, <2>2, <2>3 DEF Since
  <1>3. CASE s > m
    <2>1. m + DayMinutes - s \in 0..(DayMinutes - 1)
      BY <1>1, <1>3
    <2>2. (m + DayMinutes - s) % DayMinutes = m + DayMinutes - s
      BY <1>1, <2>1
    <2> QED
      BY <1>1, <1>3, <2>2 DEF Since
  <1> QED
    BY <1>1, <1>2, <1>3

\* What inQuietHours compares is the way around the clock.
LEMMA QuietAroundTheClock ==
    ASSUME NEW start \in Minutes \cup {NoTime}, NEW end \in Minutes \cup {NoTime}, NEW m \in Minutes
    PROVE  InQuietHours(start, end, m) <=>
               (start # NoTime /\ end # NoTime /\ Since(start, m) < Since(start, end))
  <1>1. CASE start = NoTime \/ end = NoTime
    BY <1>1 DEF InQuietHours
  <1>2. CASE start # NoTime /\ end # NoTime
    <2>1. start \in Minutes /\ end \in Minutes
      BY <1>2
    <2>2. Since(start, m) = (IF start <= m THEN m - start ELSE m + DayMinutes - start)
          /\ Since(start, end) = (IF start <= end THEN end - start ELSE end + DayMinutes - start)
      BY <2>1, AroundTheClock
    <2>3. DayMinutes \in Nat \ {0} /\ start \in Nat /\ end \in Nat /\ m \in Nat
          /\ start < DayMinutes /\ end < DayMinutes /\ m < DayMinutes
      BY <2>1, ContactBounds DEF Minutes
    <2>4. CASE start <= end /\ start <= m
      BY <1>2, <2>2, <2>3, <2>4 DEF InQuietHours
    <2>5. CASE start <= end /\ ~(start <= m)
      BY <1>2, <2>2, <2>3, <2>5 DEF InQuietHours
    <2>6. CASE ~(start <= end) /\ start <= m
      BY <1>2, <2>2, <2>3, <2>6 DEF InQuietHours
    <2>7. CASE ~(start <= end) /\ ~(start <= m)
      BY <1>2, <2>2, <2>3, <2>7 DEF InQuietHours
    <2> QED
      BY <2>4, <2>5, <2>6, <2>7
  <1> QED
    BY <1>1, <1>2

\* A contact with any address is given one of its own.
LEMMA TargetIsAnAddress ==
    ASSUME NEW c \in Contact
    PROVE  /\ c.addresses # {} => ResolveTarget(c) \in c.addresses
           /\ c.addresses = {} => ResolveTarget(c) = NoTarget
           /\ c.addresses \subseteq ContactKinds
           /\ NoTarget \notin c.addresses /\ "skipped" \notin c.addresses /\ "unknown" \notin c.addresses
  <1>1. c.addresses \subseteq ContactKinds
    BY DEF Contact
  <1>2. c.addresses # {} => ResolveTarget(c) \in c.addresses
    BY <1>1, ContactBounds DEF ResolveTarget
  <1>3. c.addresses = {} => ResolveTarget(c) = NoTarget
    BY DEF ResolveTarget
  <1> QED
    BY <1>1, <1>2, <1>3, ContactBounds DEF NoTarget

ContactsInv ==
    /\ contact \in Contact /\ query \in [severity : {"warning", "critical"}, minute : Minutes, bound : BOOLEAN]
    /\ ContactsSafe

LEMMA ContactsInvStep == ContactsInv /\ [ContactsNext]_contactVars => ContactsInv'
  <1> SUFFICES ASSUME ContactsInv, [ContactsNext]_contactVars PROVE ContactsInv'
    OBVIOUS
  <1>1. CASE UNCHANGED contactVars
    BY <1>1 DEF contactVars, ContactsInv, ContactsSafe, ContactsTypeOK, ReachedExactlyWhenAwake
  <1>2. CASE ResolveForDevice
    <2>1. UNCHANGED <<contact, query>>
      BY <1>2 DEF ResolveForDevice
    <2>2. contact \in Contact /\ contact.quietStart \in Minutes \cup {NoTime}
          /\ contact.quietEnd \in Minutes \cup {NoTime} /\ query.minute \in Minutes
      BY DEF ContactsInv, Contact
    <2>3. PICK quiet : quiet = InQuietHours(contact.quietStart, contact.quietEnd, query.minute)
      OBVIOUS
    <2>4. quiet <=> /\ contact.quietStart # NoTime /\ contact.quietEnd # NoTime
                    /\ Since(contact.quietStart, query.minute) < Since(contact.quietStart, contact.quietEnd)
      BY <2>2, <2>3, QuietAroundTheClock
    <2>5. resolved' = IF /\ query.bound /\ contact.on
                         /\ (contact.notifyOn = {} \/ query.severity \in contact.notifyOn)
                         /\ ~quiet /\ ResolveTarget(contact) # NoTarget
                      THEN ResolveTarget(contact) ELSE "skipped"
      BY <1>2, <2>3 DEF ResolveForDevice, ShouldNotify
    <2>6. /\ contact.addresses # {} => ResolveTarget(contact) \in contact.addresses
          /\ contact.addresses = {} => ResolveTarget(contact) = NoTarget
          /\ contact.addresses \subseteq ContactKinds
          /\ NoTarget \notin contact.addresses /\ "skipped" \notin contact.addresses
      BY <2>2, TargetIsAnAddress
    <2>7. ContactsTypeOK'
      BY <2>5, <2>6 DEF ContactsTypeOK
    <2>8. (resolved' \in contact.addresses) <=>
             (/\ query.bound /\ contact.on /\ (contact.notifyOn = {} \/ query.severity \in contact.notifyOn)
              /\ ~quiet /\ contact.addresses # {})
      BY <2>5, <2>6
    <2>9. ReachedExactlyWhenAwake'
      BY <2>1, <2>4, <2>8 DEF ReachedExactlyWhenAwake, Since, NoTime
    <2> QED
      BY <2>1, <2>7, <2>9 DEF ContactsInv, ContactsSafe
  <1> QED
    BY <1>1, <1>2 DEF ContactsNext

\* For a day of any number of minutes and any contact: it is reached exactly
\* when it is bound, interested, has an address and is outside its quiet hours,
\* which go around the clock (contacts.go).
THEOREM ContactsSafeAlways == ContactsSpec => []ContactsSafe
  <1>1. ContactsInit => ContactsInv
    BY DEF ContactsInit, ContactsInv, ContactsSafe, ContactsTypeOK, ReachedExactlyWhenAwake
  <1>2. ContactsInv => ContactsSafe
    BY DEF ContactsInv
  <1> QED
    BY <1>1, <1>2, ContactsInvStep, PTL DEF ContactsSpec

-----------------------------------------------------------------------------
(***************************************************************************)
(* The public status page and the pages of a list.                         *)
(***************************************************************************)

\* A set of natural numbers that is not empty has a least element, and one
\* below a bound a greatest.
LEMMA LeastNatural ==
    ASSUME NEW S, S \subseteq Nat, S # {}
    PROVE  Min(S) \in S /\ \A n \in S : Min(S) <= n
  <1>1. PICK m \in S : \A n \in S : ~ (<<n, m>> \in OpToRel(<, Nat))
    BY NatLessThanWellFounded, WFMin
  <1>2. \A n \in S : ~ (n < m)
    BY <1>1 DEF OpToRel
  <1>3. m \in S /\ \A n \in S : m <= n
    BY <1>2
  <1> QED
    BY <1>3 DEF Min

LEMMA GreatestNatural ==
    ASSUME NEW b \in Nat, NEW S, S \subseteq 0..b, S # {}
    PROVE  Max(S) \in S /\ \A n \in S : n <= Max(S)
  <1>1. PICK T : T = {b - n : n \in S}
    OBVIOUS
  <1>2. T \subseteq Nat /\ T # {}
    <2>1. T # {}
      BY <1>1
    <2>2. \A n \in S : b - n \in Nat
      OBVIOUS
    <2> QED
      BY <1>1, <2>1, <2>2
  <1>3. Min(T) \in T /\ \A n \in T : Min(T) <= n
    BY <1>2, LeastNatural
  <1>4. PICK m \in S : Min(T) = b - m
    BY <1>1, <1>3
  <1>5. ASSUME NEW n \in S PROVE n <= m
    <2>1. b - m <= b - n
      BY <1>1, <1>3, <1>4
    <2> QED
      BY <2>1
  <1>6. \A n \in S : m >= n
    BY <1>5
  <1>7. Max(S) \in S /\ \A n \in S : Max(S) >= n
    BY <1>6 DEF Max
  <1> QED
    BY <1>7

\* What a service's status says of the devices that were read.
LEMMA StatusMeans ==
    ASSUME NEW read \in [ServiceIds -> SUBSET Hosts], NEW i \in ServiceIds,
           NEW d, d = batchServiceDeviceStatuses(read)[i],
           NEW status, status = deriveServiceStatus(Services[i], d)
    PROVE  /\ status \in Levels
           /\ (status = "operational") <=> (read[i] \cap hostDown = {})
           /\ Services[i] = "majority" =>
                 ((status = "major_outage")
                     <=> (Cardinality(read[i] \cap hostDown) > Cardinality(read[i] \ hostDown)))
  <1>1. PICK down, up : down = read[i] \cap hostDown /\ up = read[i] \ hostDown
    OBVIOUS
  <1>2. read[i] \subseteq Hosts
    OBVIOUS
  <1>3. IsFiniteSet(down) /\ IsFiniteSet(up)
    BY <1>1, <1>2, StatusPageAssumption, FS_Subset
  <1>4. Cardinality(down) \in Nat /\ Cardinality(up) \in Nat
    BY <1>3, FS_CardinalityType
  <1>5. Cardinality(down) = 0 <=> down = {}
    BY <1>3, FS_EmptySet
  <1>6. Cardinality(read[i]) = Cardinality(down) + Cardinality(up)
    <2>1. read[i] = down \cup up /\ down \cap up = {}
      BY <1>1
    <2>2. Cardinality(down \cap up) = 0
      BY <2>1, FS_EmptySet
    <2>3. Cardinality(down \cup up) = Cardinality(down) + Cardinality(up) - Cardinality(down \cap up)
      BY <1>3, FS_Union
    <2> QED
      BY <1>4, <2>1, <2>2, <2>3
  <1>7. d.down = Cardinality(down) /\ d.all = Cardinality(down) + Cardinality(up)
    BY <1>1, <1>6 DEF batchServiceDeviceStatuses
  <1>8. Services[i] \in {"any_down", "all_down", "majority"}
    BY StatusPageAssumption DEF ServiceIds
  <1>9. Cardinality(down) > Cardinality(up)
          <=> Cardinality(down) > (Cardinality(down) + Cardinality(up)) \div 2
    BY <1>4
  <1>10. status \in Levels
    BY DEF deriveServiceStatus, Levels
  <1>11. (status = "operational") <=> (down = {})
    BY <1>5, <1>7 DEF deriveServiceStatus
  <1>12. Services[i] = "majority" =>
           ((status = "major_outage") <=> Cardinality(down) > Cardinality(up))
    <2> SUFFICES ASSUME Services[i] = "majority"
                 PROVE  (status = "major_outage") <=> Cardinality(down) > Cardinality(up)
      OBVIOUS
    <2>1. (status = "major_outage")
            <=> /\ d.down # 0
                /\ d.down = d.all \/ d.down > d.all \div 2
      BY DEF deriveServiceStatus
    <2>2. (Cardinality(down) = Cardinality(down) + Cardinality(up)) <=> Cardinality(up) = 0
      BY <1>4
    <2> QED
      BY <1>4, <1>7, <1>9, <2>1, <2>2
  <1> QED
    BY <1>1, <1>10, <1>11, <1>12

LEMMA ServiceIdsNatural == ServiceIds \subseteq Nat
  BY StatusPageAssumption, LenProperties DEF ServiceIds

\* The overall status is operational if every service is.
LEMMA TroubleMeans ==
    ASSUME NEW status \in [ServiceIds -> Levels]
    PROVE  /\ firstTrouble(status) \in Levels
           /\ (firstTrouble(status) = "operational") <=> (\A i \in ServiceIds : status[i] = "operational")
  <1>1. PICK trouble : trouble = {i \in ServiceIds : status[i] # "operational"}
    OBVIOUS
  <1>2. trouble # {} => Min(trouble) \in trouble
    BY <1>1, ServiceIdsNatural, LeastNatural
  <1>3. firstTrouble(status) = IF trouble = {} THEN "operational" ELSE status[Min(trouble)]
    BY <1>1 DEF firstTrouble
  <1>4. CASE trouble = {}
    BY <1>1, <1>3, <1>4 DEF Levels
  <1>5. CASE trouble # {}
    BY <1>1, <1>2, <1>3, <1>5
  <1> QED
    BY <1>4, <1>5

-----------------------------------------------------------------------------
\* The statuses derived from the devices that were read, and from those there are.
StatusesOf(read) ==
    [i \in ServiceIds |-> deriveServiceStatus(Services[i], batchServiceDeviceStatuses(read)[i])]
StatusesNow == StatusesOf(serves)

\* A page, with trouble that is there and, if nothing failed, all of it.
PageShape == [pc : {"idle", "incidents", "done"}, status : [ServiceIds -> Levels],
              overall : Levels \cup {"degraded"}, disturbed : BOOLEAN, failed : BOOLEAN]

TroubleIsThere == \A i \in ServiceIds : page.status[i] # "operational" => serves[i] \cap hostDown # {}

PageOK ==
    /\ page \in PageShape
    /\ page.pc # "idle" /\ ~page.disturbed => TroubleIsThere /\ (~page.failed => page.status = StatusesNow)
    /\ page.pc = "incidents" /\ ~page.disturbed => page.overall = firstTrouble(page.status)
    /\ page.pc = "done" /\ ~page.disturbed =>
          /\ page.overall # "operational" => active \/ firstTrouble(page.status) # "operational"
          /\ ~page.failed => page.overall = IF active /\ firstTrouble(page.status) = "operational"
                                            THEN "degraded" ELSE firstTrouble(page.status)

\* The row id is on one of the pages seen, and on one only.
SeenOnce(id) == \E k \in DOMAIN walk.seen : {j \in DOMAIN walk.seen : id \in walk.seen[j]} = {k}

\* Rows that were there all the time have been seen up to the cursor, none
\* beyond it.
WalkOK ==
    /\ walk \in [pc : {"idle", "page", "done"}, cursor : 0..MaxRow,
                 seen : Seq(SUBSET (1..MaxRow)), stable : SUBSET (1..MaxRow)]
    /\ walk.stable \subseteq rows
    /\ walk.pc = "idle" => walk.stable = {}
    /\ walk.pc = "page" =>
          /\ \A k \in DOMAIN walk.seen : walk.seen[k] \subseteq 1..walk.cursor
          /\ \A id \in walk.stable : id <= walk.cursor => SeenOnce(id)
    /\ walk.pc = "done" => \A id \in walk.stable : SeenOnce(id)

StatusPageInv == StatusPageTypeOK /\ PageOK /\ WalkOK

LEMMA StatusesType ==
    ASSUME NEW read \in [ServiceIds -> SUBSET Hosts]
    PROVE  StatusesOf(read) \in [ServiceIds -> Levels]
  BY StatusMeans DEF StatusesOf

-----------------------------------------------------------------------------
LEMMA StatusPageInvInit == StatusPageInit => StatusPageInv
  <1> SUFFICES ASSUME StatusPageInit PROVE StatusPageInv
    OBVIOUS
  <1>1. PICK no \in BOOLEAN : no = FALSE
    OBVIOUS
  <1>2. page = [pc |-> "idle", status |-> [i \in ServiceIds |-> "operational"],
                overall |-> "operational", disturbed |-> no, failed |-> no]
    BY <1>1 DEF StatusPageInit, NoPage
  <1>3. walk = [pc |-> "idle", cursor |-> 0, seen |-> <<>>, stable |-> {}]
    BY DEF StatusPageInit, NoWalk
  <1>4. /\ MaxRow \in Nat /\ MaxPageWrites \in Nat
        /\ [i \in ServiceIds |-> "operational"] \in [ServiceIds -> Levels]
    BY StatusPageAssumption DEF Levels
  <1>5. /\ hostDown \subseteq Hosts /\ serves \in [ServiceIds -> SUBSET Hosts] /\ active \in BOOLEAN
        /\ nextRow \in 1..(MaxRow + 1) /\ rows = {} /\ pageWrites = 0
    <2>1. CASE hostDown = {} /\ serves = [i \in ServiceIds |-> {}] /\ active = no /\ nextRow = 1
      <3>1. serves \in [ServiceIds -> SUBSET Hosts]
        BY <2>1
      <3> QED
        BY <1>4, <2>1, <3>1 DEF StatusPageInit
    <2>2. CASE hostDown \in SUBSET Hosts /\ serves \in [ServiceIds -> SUBSET Hosts] /\ active \in BOOLEAN
               /\ nextRow = MaxRow + 1
      BY <1>4, <2>2 DEF StatusPageInit
    <2> QED
      BY <1>1, <2>1, <2>2 DEF StatusPageInit
  <1>6. StatusPageTypeOK
    BY <1>2, <1>3, <1>4, <1>5 DEF StatusPageTypeOK, Levels
  <1>7. PageOK
    BY <1>2, <1>4 DEF PageOK, PageShape, Levels
  <1>8. WalkOK
    BY <1>3, <1>4, <1>5 DEF WalkOK
  <1> QED
    BY <1>6, <1>7, <1>8 DEF StatusPageInv

-----------------------------------------------------------------------------
(* The page. *)

RowsStay == UNCHANGED <<rows, nextRow, walk>>

LEMMA RowsStayKeeps == ASSUME StatusPageInv, RowsStay PROVE WalkOK'
  BY DEF RowsStay, StatusPageInv, WalkOK, SeenOnce

LEMMA ReadServicesKeeps == ASSUME StatusPageInv, ReadServices PROVE StatusPageInv'
  <1>1. PICK no \in BOOLEAN : no = FALSE
    OBVIOUS
  <1>2. PICK read \in [ServiceIds -> SUBSET Hosts] :
           /\ \A i \in ServiceIds : read[i] \subseteq serves[i]
           /\ page' = [NoPage EXCEPT !.pc = "incidents", !.status = StatusesOf(read),
                                     !.overall = firstTrouble(StatusesOf(read)), !.failed = (read # serves)]
    BY DEF ReadServices, StatusesOf
  <1>3. PICK failed \in BOOLEAN : failed = (read # serves)
    OBVIOUS
  <1>4. PICK status \in [ServiceIds -> Levels] : status = StatusesOf(read)
    BY StatusesType
  <1>5. PICK overall \in Levels : overall = firstTrouble(status)
    BY TroubleMeans
  <1>6. page' = [pc |-> "incidents", status |-> status, overall |-> overall,
                 disturbed |-> no, failed |-> failed]
    BY <1>1, <1>2, <1>3, <1>4, <1>5 DEF NoPage
  <1>7. RowsStay /\ UNCHANGED <<hostDown, serves, active, pageWrites>>
    BY DEF ReadServices, RowsStay
  <1>8. page' \in PageShape
    BY <1>6 DEF PageShape
  <1>9. StatusPageTypeOK'
    BY <1>6, <1>7 DEF RowsStay, StatusPageInv, StatusPageTypeOK
  <1>10. StatusesNow' = StatusesNow
    BY <1>7 DEF StatusesNow, StatusesOf, batchServiceDeviceStatuses
  <1>11. \A i \in ServiceIds : status[i] # "operational" => serves[i] \cap hostDown # {}
    <2> SUFFICES ASSUME NEW i \in ServiceIds, status[i] # "operational" PROVE serves[i] \cap hostDown # {}
      OBVIOUS
    <2>1. status[i] = deriveServiceStatus(Services[i], batchServiceDeviceStatuses(read)[i])
      BY <1>4 DEF StatusesOf
    <2>2. read[i] \cap hostDown # {}
      BY <2>1, StatusMeans
    <2> QED
      BY <1>2, <2>2
  <1>12. TroubleIsThere'
    BY <1>6, <1>7, <1>11 DEF TroubleIsThere
  <1>13. page'.pc = "incidents" /\ page'.overall = firstTrouble(page'.status)
    BY <1>5, <1>6
  <1>14. ~failed => status = StatusesNow
    BY <1>3, <1>4 DEF StatusesNow
  <1>15. ~page'.failed => page'.status = StatusesNow'
    BY <1>6, <1>10, <1>14
  <1>16. PageOK'
    BY <1>8, <1>12, <1>13, <1>15 DEF PageOK, firstTrouble
  <1> QED
    BY <1>7, <1>9, <1>16, RowsStayKeeps DEF StatusPageInv

LEMMA ReadIncidentsKeeps == ASSUME StatusPageInv, ReadIncidents PROVE StatusPageInv'
  <1>1. PICK found \in getActiveIncidents :
           page' = [page EXCEPT !.pc = "done", !.failed = @ \/ found # active,
                                !.overall = IF found /\ @ = "operational" THEN "degraded" ELSE @]
    BY DEF ReadIncidents
  <1>2. found \in BOOLEAN /\ active \in BOOLEAN /\ (found => active)
    BY DEF getActiveIncidents, StatusPageInv, StatusPageTypeOK
  <1>3. page \in PageShape /\ page.pc = "incidents"
    BY DEF StatusPageInv, PageOK, ReadIncidents
  <1>4. PICK overall \in Levels \cup {"degraded"} :
           overall = IF found /\ page.overall = "operational" THEN "degraded" ELSE page.overall
    BY <1>3 DEF PageShape
  <1>5. PICK failed \in BOOLEAN : failed = (page.failed \/ found # active)
    OBVIOUS
  <1>6. page' = [page EXCEPT !.pc = "done", !.failed = failed, !.overall = overall]
    BY <1>1, <1>4, <1>5
  <1>7. /\ page' \in PageShape /\ page'.pc = "done" /\ page'.overall = overall
        /\ page'.status = page.status /\ page'.failed = failed /\ page'.disturbed = page.disturbed
    BY <1>3, <1>6 DEF PageShape
  <1>8. RowsStay /\ UNCHANGED <<hostDown, serves, active, pageWrites>>
    BY DEF ReadIncidents, RowsStay
  <1>9. StatusPageTypeOK'
    BY <1>7, <1>8 DEF RowsStay, StatusPageInv, StatusPageTypeOK, PageShape
  <1>10. /\ StatusesNow' = StatusesNow /\ firstTrouble(page.status)' = firstTrouble(page.status)
         /\ TroubleIsThere' <=> TroubleIsThere
    BY <1>7, <1>8 DEF StatusesNow, StatusesOf, batchServiceDeviceStatuses, firstTrouble, TroubleIsThere
  <1>11. ~page.disturbed => /\ TroubleIsThere /\ (~page.failed => page.status = StatusesNow)
                            /\ page.overall = firstTrouble(page.status)
    BY <1>3 DEF StatusPageInv, PageOK
  <1>12. failed = FALSE => page.failed = FALSE /\ found = active
    BY <1>2, <1>3, <1>5 DEF PageShape
  <1>13. PageOK'
    <2>1. ~page'.disturbed => ~page.disturbed
      BY <1>7
    <2>2. ~page'.disturbed => TroubleIsThere' /\ (~page'.failed => page'.status = StatusesNow')
      BY <1>5, <1>7, <1>10, <1>11, <1>12, <2>1
    <2>3. ~page'.disturbed =>
             (page'.overall # "operational" => active' \/ firstTrouble(page.status)' # "operational")
      BY <1>2, <1>4, <1>7, <1>8, <1>10, <1>11, <2>1
    <2>4. ~page'.disturbed /\ ~page'.failed =>
             page'.overall = IF active' /\ firstTrouble(page.status)' = "operational"
                             THEN "degraded" ELSE firstTrouble(page.status)'
      BY <1>2, <1>4, <1>5, <1>7, <1>8, <1>10, <1>11, <1>12, <2>1
    <2> QED
      BY <1>7, <2>2, <2>3, <2>4 DEF PageOK
  <1> QED
    BY <1>8, <1>9, <1>13, RowsStayKeeps DEF StatusPageInv

\* A change of the tables disturbs the page.
LEMMA ChangeKeeps ==
    ASSUME StatusPageInv, Change, hostDown' \subseteq Hosts,
           serves' \in [ServiceIds -> SUBSET Hosts], active' \in BOOLEAN
    PROVE  StatusPageInv'
  <1>1. PICK yes \in BOOLEAN : yes = TRUE
    OBVIOUS
  <1>2. page' = [page EXCEPT !.disturbed = yes] /\ RowsStay
    BY <1>1 DEF Change, RowsStay
  <1>3. page \in PageShape
    BY DEF StatusPageInv, PageOK
  <1>4. page' \in PageShape
    BY <1>2, <1>3 DEF PageShape
  <1>5. page'.disturbed
    BY <1>1, <1>2, <1>3 DEF PageShape
  <1>6. pageWrites' \in 0..MaxPageWrites
    BY StatusPageAssumption DEF Change, StatusPageInv, StatusPageTypeOK
  <1>7. StatusPageTypeOK'
    BY <1>2, <1>4, <1>6 DEF RowsStay, StatusPageInv, StatusPageTypeOK, PageShape
  <1>8. PageOK'
    BY <1>4, <1>5 DEF PageOK
  <1> QED
    BY <1>2, <1>7, <1>8, RowsStayKeeps DEF StatusPageInv

LEMMA PageChangesKeep ==
    ASSUME StatusPageInv,
           \/ UpdateIncident
           \/ \E i \in ServiceIds, d \in Hosts : AddServiceDevice(i, d) \/ RemoveServiceDevice(i, d)
           \/ \E d \in Hosts : PollDevice(d)
    PROVE  StatusPageInv'
  <1>1. hostDown \subseteq Hosts /\ serves \in [ServiceIds -> SUBSET Hosts] /\ active \in BOOLEAN
    BY DEF StatusPageInv, StatusPageTypeOK
  <1>2. CASE UpdateIncident
    BY <1>1, <1>2, ChangeKeeps DEF UpdateIncident
  <1>3. CASE \E i \in ServiceIds, d \in Hosts : AddServiceDevice(i, d) \/ RemoveServiceDevice(i, d)
    <2>1. Change /\ serves' \in [ServiceIds -> SUBSET Hosts] /\ UNCHANGED <<hostDown, active>>
      BY <1>1, <1>3 DEF AddServiceDevice, RemoveServiceDevice
    <2> QED
      BY <1>1, <2>1, ChangeKeeps
  <1>4. CASE \E d \in Hosts : PollDevice(d)
    <2>1. Change /\ hostDown' \subseteq Hosts /\ UNCHANGED <<serves, active>>
      BY <1>1, <1>4 DEF PollDevice
    <2> QED
      BY <1>1, <2>1, ChangeKeeps
  <1> QED
    BY <1>2, <1>3, <1>4

-----------------------------------------------------------------------------
(* The walk through a list. *)

LEMMA RowsChangeKeeps ==
    ASSUME StatusPageInv, RowsChange
    PROVE  /\ PageOK' /\ hostDown' \subseteq Hosts /\ serves' \in [ServiceIds -> SUBSET Hosts]
           /\ active' \in BOOLEAN /\ page' = page
  <1>1. /\ StatusesNow' = StatusesNow /\ firstTrouble(page.status)' = firstTrouble(page.status)
        /\ TroubleIsThere' = TroubleIsThere
    BY DEF RowsChange, StatusesNow, StatusesOf, batchServiceDeviceStatuses, firstTrouble, TroubleIsThere
  <1> QED
    BY <1>1 DEF RowsChange, StatusPageInv, StatusPageTypeOK, PageOK

LEMMA CreateResourceKeeps == ASSUME StatusPageInv, CreateResource PROVE StatusPageInv'
  <1>1. RowsChange /\ UNCHANGED <<walk, pageWrites>> /\ rows \subseteq rows'
    BY DEF CreateResource
  <1>2. rows' \subseteq 1..MaxRow /\ nextRow' \in 1..(MaxRow + 1)
    <2>1. /\ rows \subseteq 1..MaxRow /\ nextRow \in 1..(MaxRow + 1) /\ MaxRow \in Nat
          /\ nextRow <= MaxRow /\ nextRow' = nextRow + 1 /\ rows' = rows \cup {nextRow}
      BY StatusPageAssumption DEF CreateResource, StatusPageInv, StatusPageTypeOK
    <2>2. nextRow \in 1..MaxRow /\ nextRow + 1 \in 1..(MaxRow + 1)
      BY <2>1
    <2> QED
      BY <2>1, <2>2
  <1>3. StatusPageTypeOK'
    BY <1>1, <1>2, RowsChangeKeeps DEF StatusPageInv, StatusPageTypeOK
  <1>4. WalkOK'
    BY <1>1 DEF StatusPageInv, WalkOK, SeenOnce
  <1> QED
    BY <1>1, <1>3, <1>4, RowsChangeKeeps DEF StatusPageInv

LEMMA DeleteResourceKeeps == ASSUME StatusPageInv, NEW id \in rows, DeleteResource(id) PROVE StatusPageInv'
  <1>1. RowsChange /\ nextRow' = nextRow /\ rows' = rows \ {id} /\ walk' = [walk EXCEPT !.stable = walk.stable \ {id}]
    BY DEF DeleteResource
  <1>2. pageWrites' \in 0..MaxPageWrites
    BY StatusPageAssumption DEF DeleteResource, StatusPageInv, StatusPageTypeOK
  <1>3. /\ walk' \in [pc : {"idle", "page", "done"}, cursor : 0..MaxRow,
                      seen : Seq(SUBSET (1..MaxRow)), stable : SUBSET (1..MaxRow)]
        /\ walk'.pc = walk.pc /\ walk'.cursor = walk.cursor /\ walk'.seen = walk.seen
        /\ walk'.stable = walk.stable \ {id}
    BY <1>1 DEF StatusPageInv, WalkOK
  <1>4. StatusPageTypeOK'
    BY <1>1, <1>2, <1>3, RowsChangeKeeps DEF StatusPageInv, StatusPageTypeOK
  <1>5. \A n \in walk'.stable : n \in walk.stable /\ (SeenOnce(n)' <=> SeenOnce(n))
    BY <1>3 DEF SeenOnce
  <1>6. WalkOK'
    BY <1>1, <1>3, <1>5 DEF StatusPageInv, WalkOK
  <1> QED
    BY <1>1, <1>4, <1>6, RowsChangeKeeps DEF StatusPageInv

LEMMA StartWalkKeeps == ASSUME StatusPageInv, StartWalk PROVE StatusPageInv'
  <1>1. RowsChange /\ UNCHANGED <<rows, nextRow, pageWrites>>
    BY DEF StartWalk
  <1>2. walk' = [pc |-> "page", cursor |-> 0, seen |-> <<>>, stable |-> rows]
    BY DEF StartWalk, NoWalk
  <1>3. rows \subseteq 1..MaxRow /\ MaxRow \in Nat
    BY StatusPageAssumption DEF StatusPageInv, StatusPageTypeOK
  <1>4. StatusPageTypeOK'
    BY <1>1, <1>2, <1>3, RowsChangeKeeps DEF StatusPageInv, StatusPageTypeOK
  <1>5. WalkOK'
    BY <1>1, <1>2, <1>3 DEF WalkOK
  <1> QED
    BY <1>1, <1>4, <1>5, RowsChangeKeeps DEF StatusPageInv

\* A page begins right after the cursor and leaves nothing out; if no further
\* row is fetched, it holds all that are left.
LEMMA FirstsMeans ==
    ASSUME StatusPageTypeOK, NEW c \in 0..MaxRow, NEW limit \in Nat \ {0},
           NEW later, later = {i \in rows : i > c}
    PROVE  /\ Firsts(limit, c) \subseteq later
           /\ \A i \in Firsts(limit, c), j \in later : j < i => j \in Firsts(limit, c)
           /\ Firsts(limit + 1, c) # Firsts(limit, c) => Firsts(limit, c) # {}
           /\ Firsts(limit + 1, c) = Firsts(limit, c) => Firsts(limit, c) = later
  <1> DEFINE Before(i) == {j \in later : j < i}
  <1>1. /\ Firsts(limit, c) = {i \in later : Cardinality(Before(i)) < limit}
        /\ Firsts(limit + 1, c) = {i \in later : Cardinality(Before(i)) < limit + 1}
    BY DEF Firsts
  <1>2. MaxRow \in Nat /\ later \subseteq 1..MaxRow /\ later \subseteq Nat
    <2>1. MaxRow \in Nat /\ rows \subseteq 1..MaxRow
      BY StatusPageAssumption DEF StatusPageTypeOK
    <2>2. later \subseteq rows
      OBVIOUS
    <2>3. 1..MaxRow \subseteq Nat
      BY <2>1
    <2> QED
      BY <2>1, <2>2, <2>3
  <1>3. IsFiniteSet(1..MaxRow)
    BY <1>2, FS_Interval
  <1>4. \A i : IsFiniteSet(Before(i)) /\ Cardinality(Before(i)) \in Nat
    BY <1>2, <1>3, FS_Subset, FS_CardinalityType
  <1> HIDE DEF Before
  <1>5. ASSUME NEW i \in Firsts(limit, c), NEW j \in later, j < i PROVE j \in Firsts(limit, c)
    <2>1. Before(j) \subseteq Before(i)
      BY <1>1, <1>2, <1>5 DEF Before
    <2>2. Cardinality(Before(j)) <= Cardinality(Before(i))
      BY <1>4, <2>1, FS_Subset
    <2> QED
      BY <1>1, <1>4, <1>5, <2>2
  <1>6. ASSUME NEW m \in later, \A n \in later : m <= n PROVE m \in Firsts(limit, c)
    <2>1. Before(m) = {}
      BY <1>2, <1>6 DEF Before
    <2>2. Cardinality(Before(m)) = 0
      BY <2>1, FS_EmptySet
    <2> QED
      BY <1>1, <2>2
  <1>7. later # {} => Firsts(limit, c) # {}
    BY <1>2, <1>6, LeastNatural
  <1>8. ASSUME Firsts(limit + 1, c) = Firsts(limit, c), later \ Firsts(limit, c) # {} PROVE FALSE
    <2>1. PICK m \in later \ Firsts(limit, c) : \A n \in later \ Firsts(limit, c) : m <= n
      BY <1>2, <1>8, LeastNatural
    <2>2. Before(m) \subseteq Firsts(limit, c)
      BY <1>2, <2>1 DEF Before
    <2>3. Before(m) # {}
      <3>1. ASSUME Before(m) = {} PROVE FALSE
        <4>1. \A n \in later : m <= n
          BY <1>2, <2>1, <3>1 DEF Before
        <4> QED
          BY <1>6, <2>1, <4>1
      <3> QED
        BY <3>1
    <2>4. Before(m) \subseteq 0..MaxRow
      BY <1>2 DEF Before
    <2>5. PICK p \in Before(m) : \A n \in Before(m) : n <= p
      BY <1>2, <2>3, <2>4, GreatestNatural
    <2>6. Before(m) = Before(p) \cup {p} /\ p \notin Before(p)
      BY <1>2, <2>1, <2>5 DEF Before
    <2>7. Cardinality(Before(m)) = Cardinality(Before(p)) + 1
      BY <1>4, <2>6, FS_AddElement
    <2>8. Cardinality(Before(p)) < limit
      BY <1>1, <2>2, <2>5
    <2>9. Cardinality(Before(m)) < limit + 1
      BY <1>4, <2>7, <2>8
    <2> QED
      BY <1>1, <1>8, <2>1, <2>9
  <1>9. Firsts(limit, c) \subseteq later /\ Firsts(limit + 1, c) \subseteq later
    BY <1>1
  <1> QED
    BY <1>5, <1>7, <1>8, <1>9

\* What a further page does to the pages on which a row is.
LEMMA NextPageSeen ==
    ASSUME NEW s \in Seq(SUBSET (1..MaxRow)), NEW shown \in SUBSET (1..MaxRow), NEW id,
           NEW t, t = Append(s, shown)
    PROVE  /\ t \in Seq(SUBSET (1..MaxRow)) /\ \A k \in DOMAIN t : t[k] = shown \/ (k \in DOMAIN s /\ t[k] = s[k])
           /\ id \notin shown => {j \in DOMAIN t : id \in t[j]} = {j \in DOMAIN s : id \in s[j]}
           /\ (id \in shown /\ \A j \in DOMAIN s : id \notin s[j])
                 => \E k \in DOMAIN t : {j \in DOMAIN t : id \in t[j]} = {k}
  <1>1. /\ t \in Seq(SUBSET (1..MaxRow)) /\ Len(t) = Len(s) + 1 /\ t[Len(s) + 1] = shown /\ Len(s) \in Nat
        /\ \A i \in 1..Len(s) : t[i] = s[i]
    BY AppendProperties, LenProperties
  <1>2. DOMAIN t = (1..Len(s)) \cup {Len(s) + 1} /\ DOMAIN s = 1..Len(s)
    BY <1>1, LenProperties
  <1>3. Len(s) + 1 \notin 1..Len(s)
    BY <1>1
  <1>4. id \notin shown => {j \in DOMAIN t : id \in t[j]} = {j \in DOMAIN s : id \in s[j]}
    BY <1>1, <1>2
  <1>5. (id \in shown /\ \A j \in DOMAIN s : id \notin s[j])
          => {j \in DOMAIN t : id \in t[j]} = {Len(s) + 1}
    BY <1>1, <1>2
  <1>6. t \in Seq(SUBSET (1..MaxRow)) /\ \A k \in DOMAIN t : t[k] = shown \/ (k \in DOMAIN s /\ t[k] = s[k])
    <2>1. ASSUME NEW k \in DOMAIN t PROVE t[k] = shown \/ (k \in DOMAIN s /\ t[k] = s[k])
      <3>1. CASE k = Len(s) + 1
        <4>1. t[k] = t[Len(s) + 1]
          BY <3>1
        <4> QED
          BY <1>1, <4>1
      <3>2. CASE k \in 1..Len(s)
        BY <1>1, <1>2, <3>2
      <3> QED
        BY <1>2, <3>1, <3>2
    <2> QED
      BY <1>1, <2>1
  <1>7. Len(s) + 1 \in DOMAIN t
    BY <1>2
  <1> QED
    BY <1>4, <1>5, <1>6, <1>7

LEMMA ListResourcesCursorKeeps == ASSUME StatusPageInv, ListResourcesCursor PROVE StatusPageInv'
  <1>1. PICK shown, fetched, later, cursor, pc :
          /\ shown = Firsts(PageLimit, walk.cursor) /\ fetched = Firsts(PageLimit + 1, walk.cursor)
          /\ later = {i \in rows : i > walk.cursor}
          /\ cursor = IF fetched # shown THEN Max(shown) ELSE walk.cursor
          /\ pc = IF fetched # shown THEN "page" ELSE "done"
    OBVIOUS
  <1>2. /\ walk.pc = "page" /\ RowsChange /\ UNCHANGED <<rows, nextRow, pageWrites>>
        /\ walk' = [walk EXCEPT !.seen = Append(walk.seen, shown), !.pc = pc, !.cursor = cursor]
    BY <1>1 DEF ListResourcesCursor
  <1>3. /\ walk.cursor \in 0..MaxRow /\ PageLimit \in Nat \ {0} /\ MaxRow \in Nat /\ rows \subseteq 1..MaxRow
        /\ walk.seen \in Seq(SUBSET (1..MaxRow)) /\ walk.stable \subseteq rows
    BY StatusPageAssumption DEF StatusPageInv, StatusPageTypeOK, WalkOK
  <1>4. /\ shown \subseteq later
        /\ \A i \in shown, j \in later : j < i => j \in shown
        /\ fetched # shown => shown # {}
        /\ fetched = shown => shown = later
    BY <1>1, <1>3, FirstsMeans DEF StatusPageInv
  <1>5. later \subseteq rows /\ shown \subseteq 1..MaxRow /\ shown \subseteq 0..MaxRow
    <2>1. later \subseteq rows
      BY <1>1
    <2>2. 1..MaxRow \subseteq 0..MaxRow
      BY <1>3
    <2> QED
      BY <1>3, <1>4, <2>1, <2>2
  <1>6. fetched # shown => cursor \in shown /\ \A i \in shown : i <= cursor
    BY <1>1, <1>3, <1>4, <1>5, GreatestNatural
  <1>7. cursor \in 0..MaxRow /\ walk.cursor <= cursor
    BY <1>1, <1>3, <1>4, <1>5, <1>6
  <1>8. PICK seen : seen = Append(walk.seen, shown)
    OBVIOUS
  <1>9. /\ seen \in Seq(SUBSET (1..MaxRow))
        /\ \A k \in DOMAIN seen : seen[k] = shown \/ (k \in DOMAIN walk.seen /\ seen[k] = walk.seen[k])
    BY <1>3, <1>5, <1>8, NextPageSeen
  <1>10. /\ walk' \in [pc : {"idle", "page", "done"}, cursor : 0..MaxRow,
                       seen : Seq(SUBSET (1..MaxRow)), stable : SUBSET (1..MaxRow)]
         /\ walk'.pc = pc /\ walk'.cursor = cursor /\ walk'.seen = seen /\ walk'.stable = walk.stable
    BY <1>1, <1>2, <1>7, <1>8, <1>9 DEF StatusPageInv, WalkOK
  <1>11. ASSUME NEW id \in walk.stable, id <= walk.cursor \/ id \in shown PROVE SeenOnce(id)'
    <2>1. CASE id <= walk.cursor
      <3>1. id \notin shown /\ SeenOnce(id)
        BY <1>1, <1>2, <1>3, <1>4, <2>1 DEF StatusPageInv, WalkOK
      <3>2. {j \in DOMAIN seen : id \in seen[j]} = {j \in DOMAIN walk.seen : id \in walk.seen[j]}
        BY <1>3, <1>5, <1>8, <3>1, NextPageSeen
      <3>3. PICK k \in DOMAIN walk.seen : {j \in DOMAIN walk.seen : id \in walk.seen[j]} = {k}
        BY <3>1 DEF SeenOnce
      <3>4. k \in DOMAIN seen
        BY <3>2, <3>3
      <3> QED
        BY <1>10, <3>2, <3>3, <3>4 DEF SeenOnce
    <2>2. CASE id \in shown
      <3>1. id > walk.cursor
        BY <1>1, <1>4, <2>2
      <3>2. \A j \in DOMAIN walk.seen : id \notin walk.seen[j]
        BY <1>2, <1>3, <1>5, <2>2, <3>1 DEF StatusPageInv, WalkOK
      <3>3. \E k \in DOMAIN seen : {j \in DOMAIN seen : id \in seen[j]} = {k}
        <4>1. shown \in SUBSET (1..MaxRow) /\ walk.seen \in Seq(SUBSET (1..MaxRow))
          BY <1>3, <1>5
        <4>2. (id \in shown /\ \A j \in DOMAIN walk.seen : id \notin walk.seen[j])
                => \E k \in DOMAIN seen : {j \in DOMAIN seen : id \in seen[j]} = {k}
          BY ONLY <1>8, <4>1, NextPageSeen
        <4> QED
          BY <2>2, <3>2, <4>2
      <3> QED
        BY <1>10, <3>3 DEF SeenOnce
    <2> QED
      BY <1>11, <2>1, <2>2
  <1>12. \A id \in walk.stable : id \in rows /\ id \in Int /\ (id > walk.cursor \/ id <= walk.cursor)
    <2>1. \A id \in 1..MaxRow : id \in Int /\ (id > walk.cursor \/ id <= walk.cursor)
      BY <1>3
    <2> QED
      BY <1>3, <2>1
  <1>13. WalkOK'
    <2>1. CASE fetched # shown
      <3>1. pc = "page"
        BY <1>1, <2>1
      <3>2. ASSUME NEW k \in DOMAIN seen PROVE seen[k] \subseteq 1..cursor
        <4>1. CASE seen[k] = shown
          BY <1>3, <1>5, <1>6, <1>7, <2>1, <4>1
        <4>2. CASE k \in DOMAIN walk.seen /\ seen[k] = walk.seen[k]
          <5>1. seen[k] \subseteq 1..walk.cursor
            BY <1>2, <4>2 DEF StatusPageInv, WalkOK
          <5> QED
            BY <1>3, <1>7, <5>1
        <4> QED
          BY <1>9, <4>1, <4>2
      <3>3. ASSUME NEW id \in walk.stable, id <= cursor PROVE SeenOnce(id)'
        <4>1. id <= walk.cursor \/ id \in later
          BY <1>1, <1>12
        <4>2. id \in later => id \in shown
          <5>1. id < cursor \/ id = cursor
            BY <1>7, <1>12, <3>3
          <5> QED
            BY <1>4, <1>6, <2>1, <5>1
        <4> QED
          BY <1>11, <4>1, <4>2
      <3> QED
        BY <1>2, <1>3, <1>10, <3>1, <3>2, <3>3 DEF WalkOK
    <2>2. CASE fetched = shown
      <3>1. pc = "done"
        BY <1>1, <2>2
      <3>2. \A id \in walk.stable : id <= walk.cursor \/ id \in shown
        BY <1>1, <1>4, <1>12, <2>2
      <3>3. \A id \in walk.stable : SeenOnce(id)'
        BY <1>11, <3>2
      <3> QED
        BY <1>2, <1>3, <1>10, <3>1, <3>3 DEF WalkOK
    <2> QED
      BY <2>1, <2>2
  <1>14. StatusPageTypeOK'
    BY <1>2, <1>3, <1>7, <1>10, RowsChangeKeeps DEF StatusPageInv, StatusPageTypeOK
  <1> QED
    BY <1>2, <1>13, <1>14, RowsChangeKeeps DEF StatusPageInv

LEMMA StatusPageInvNext == StatusPageInv /\ [StatusPageNext]_statusPageVars => StatusPageInv'
  <1> SUFFICES ASSUME StatusPageInv, [StatusPageNext]_statusPageVars PROVE StatusPageInv'
    OBVIOUS
  <1>1. CASE UNCHANGED statusPageVars
    <2>1. RowsStay /\ RowsChange /\ pageWrites' = pageWrites
      BY <1>1 DEF statusPageVars, RowsStay, RowsChange
    <2>2. StatusPageTypeOK'
      BY <2>1 DEF RowsStay, RowsChange, StatusPageInv, StatusPageTypeOK
    <2> QED
      BY <2>1, <2>2, RowsStayKeeps, RowsChangeKeeps DEF StatusPageInv
  <1>2. CASE StatusPageNext
    BY <1>2, ReadServicesKeeps, ReadIncidentsKeeps, PageChangesKeep, StartWalkKeeps,
       ListResourcesCursorKeeps, CreateResourceKeeps, DeleteResourceKeeps DEF StatusPageNext
  <1> QED
    BY <1>1, <1>2

LEMMA StatusPageInvImplies == StatusPageInv => StatusPageSafe
  <1> SUFFICES ASSUME StatusPageInv PROVE StatusPageSafe
    OBVIOUS
  <1>1. StatusPageTypeOK
    BY DEF StatusPageInv
  <1>2. ASSUME page.pc = "done", ~page.disturbed
        PROVE  /\ page.status \in [ServiceIds -> Levels] /\ TroubleIsThere
               /\ page.overall # "operational" => active \/ firstTrouble(page.status) # "operational"
               /\ (firstTrouble(page.status) = "operational")
                     <=> (\A i \in ServiceIds : page.status[i] = "operational")
    BY <1>2, TroubleMeans DEF StatusPageInv, PageOK, PageShape
  <1>3. ASSUME page.pc = "done", ~page.disturbed, ~page.failed
        PROVE  /\ (page.overall = "operational") <=> (~active /\ firstTrouble(page.status) = "operational")
               /\ \A i \in ServiceIds :
                    /\ (page.status[i] = "operational") <=> (serves[i] \cap hostDown = {})
                    /\ Services[i] = "majority" =>
                          ((page.status[i] = "major_outage")
                              <=> (Cardinality(serves[i] \cap hostDown) > Cardinality(serves[i] \ hostDown)))
    <2>1. page.overall = IF active /\ firstTrouble(page.status) = "operational"
                         THEN "degraded" ELSE firstTrouble(page.status)
      BY <1>3 DEF StatusPageInv, PageOK
    <2>2. page.status = StatusesNow /\ serves \in [ServiceIds -> SUBSET Hosts]
      BY <1>3 DEF StatusPageInv, PageOK, StatusPageTypeOK
    <2>3. \A i \in ServiceIds :
             page.status[i] = deriveServiceStatus(Services[i], batchServiceDeviceStatuses(serves)[i])
      BY <2>2 DEF StatusesNow, StatusesOf
    <2> QED
      BY <2>1, <2>2, <2>3, StatusMeans
  <1>4. PageTruthful
    <2> SUFFICES ASSUME page.pc = "done", ~page.disturbed
                 PROVE  /\ page.overall # "operational" =>
                              active \/ \E i \in ServiceIds : serves[i] \cap hostDown # {}
                        /\ ~page.failed =>
                              /\ page.overall = "operational" =>
                                    ~active /\ \A i \in ServiceIds : serves[i] \cap hostDown = {}
                              /\ \A i \in ServiceIds : Services[i] = "majority" =>
                                    ((page.status[i] = "major_outage")
                                        <=> (Cardinality(serves[i] \cap hostDown)
                                                > Cardinality(serves[i] \ hostDown)))
      BY DEF PageTruthful
    <2>1. page.overall # "operational" => active \/ \E i \in ServiceIds : serves[i] \cap hostDown # {}
      BY <1>2 DEF TroubleIsThere
    <2>2. ~page.failed /\ page.overall = "operational" =>
             ~active /\ \A i \in ServiceIds : serves[i] \cap hostDown = {}
      BY <1>2, <1>3
    <2> QED
      BY <1>3, <2>1, <2>2
  <1>6. PagesAgreeWhenWell
    <2> SUFFICES ASSUME page.pc = "done", ~page.disturbed,
                        \A i \in ServiceIds : serves[i] \cap hostDown = {}
                 PROVE  page.status = PublicStatusHTML.status
      BY DEF PagesAgreeWhenWell
    <2>1. PublicStatusHTML.status = [i \in ServiceIds |-> "operational"]
      BY DEF PublicStatusHTML
    <2>2. page.status \in [ServiceIds -> Levels] /\ \A i \in ServiceIds : page.status[i] = "operational"
      BY <1>2 DEF TroubleIsThere
    <2> QED
      BY <2>1, <2>2
  <1>5. PagesCoverStableRows
    BY FS_Singleton DEF PagesCoverStableRows, StatusPageInv, WalkOK, SeenOnce
  <1> QED
    BY <1>1, <1>4, <1>5, <1>6 DEF StatusPageSafe

\* The public page invents no trouble and, of an undisturbed moment and unless a
\* query failed, hides none; a walk through a list shows every row that stays
\* exactly once, for any services, devices and rows
\* (status_page.go, resources.go).
THEOREM StatusPageSafeAlways == StatusPageSpec => []StatusPageSafe
  BY StatusPageInvInit, StatusPageInvNext, StatusPageInvImplies, PTL DEF StatusPageSpec

-----------------------------------------------------------------------------
(***************************************************************************)
(* Delivery.                                                               *)
(***************************************************************************)

DeliveryPc == {"take", "load", "send", "backoff", "record", "failed", "done"}

NotifWorkerState ==
    [pc: DeliveryPc, alert: Alerts \cup {NoAlert}, next: 1..(Len(ChannelIDs) + 1), attempt: 0..MaxRetries,
     expired: BOOLEAN, draining: BOOLEAN, late: BOOLEAN]

Holds(w) == notifWorker[w].pc \notin {"take", "done"}
Trying(w) == notifWorker[w].pc \in {"send", "backoff", "record", "failed"}

NothingSent(a) == \A c \in Chans : received[a][c] = 0

\* An alert is in one place: not offered yet, at one position of the queue,
\* with one worker, or done with.
AlertInOnePlace ==
    /\ \A i, j \in 1..Len(notifQueue) : notifQueue[i] = notifQueue[j] => i = j
    /\ \A i \in 1..Len(notifQueue) : notifQueue[i] \in offered.queued
    /\ \A w \in NotifWorkers : Holds(w) =>
         /\ notifWorker[w].alert \in offered.queued
         /\ \A i \in 1..Len(notifQueue) : notifQueue[i] # notifWorker[w].alert
    /\ \A v, w \in NotifWorkers : Holds(v) /\ Holds(w) /\ notifWorker[v].alert = notifWorker[w].alert => v = w

\* Nothing has been sent of an alert before a worker takes it.
SentByWorkers ==
    /\ \A a \in Alerts \ offered.queued : NothingSent(a)
    /\ \A i \in 1..Len(notifQueue) : NothingSent(notifQueue[i])

\* The worker w has sent nothing to the channels ahead of it, and to the one it
\* tries only without an answer.
SentBehind(w) ==
    LET i == notifWorker[w].next  a == notifWorker[w].alert IN
    /\ notifWorker[w].pc = "load" => NothingSent(a)
    /\ Trying(w) =>
         /\ i <= Len(ChannelIDs)
         /\ \A j \in (i + 1)..Len(ChannelIDs) : received[a][ChannelIDs[j]] = 0
    /\ notifWorker[w].pc \in {"send", "backoff"} /\ received[a][ChannelIDs[i]] > 0 => unanswered
    /\ notifWorker[w].pc = "record" => received[a][ChannelIDs[i]] > 0
    /\ notifWorker[w].pc = "backoff" => notifWorker[w].attempt < MaxRetries

DeliveryInv ==
    /\ DeliveryTypeOK
    /\ notifWorker \in [NotifWorkers -> NotifWorkerState] /\ offered.queued \subseteq Alerts
    /\ AlertInOnePlace /\ SentByWorkers
    /\ \A w \in NotifWorkers : SentBehind(w)
    /\ RepeatedOnlyUnanswered

LEMMA DeliveryConstants ==
    /\ NotifQueueSize \in Nat /\ MaxRetries \in Nat /\ MaxDeliveryErrors \in Nat
    /\ Len(ChannelIDs) \in Nat
    /\ \A i \in 1..Len(ChannelIDs) : ChannelIDs[i] \in Chans
    /\ \A i, j \in 1..Len(ChannelIDs) : ChannelIDs[i] = ChannelIDs[j] => i = j
  BY DeliveryBounds DEF Chans

\* NextChannel is a position of the list from i on, or the one after the last.
LEMMA NextChannelAhead ==
    ASSUME NEW i \in 1..(Len(ChannelIDs) + 1)
    PROVE  NextChannel(i) \in i..(Len(ChannelIDs) + 1)
  <1>1. PICK later : later = {j \in i..Len(ChannelIDs) : ChannelIDs[j] \in enabled}
    OBVIOUS
  <1>2. NextChannel(i) = IF later = {} THEN Len(ChannelIDs) + 1
                         ELSE CHOOSE j \in later : \A k \in later : j <= k
    BY <1>1 DEF NextChannel
  <1>3. CASE later = {}
    BY <1>2, <1>3, DeliveryConstants
  <1>4. CASE later # {}
    <2>1. later \subseteq Nat /\ later \subseteq i..Len(ChannelIDs)
      BY <1>1, DeliveryConstants
    <2>2. Min(later) \in later /\ \A k \in later : Min(later) <= k
      BY <1>4, <2>1, LeastNatural
    <2>3. NextChannel(i) \in later
      BY <1>2, <1>4, <2>2
    <2>4. i..Len(ChannelIDs) \subseteq i..(Len(ChannelIDs) + 1)
      BY DeliveryConstants
    <2> QED
      BY <2>1, <2>3, <2>4
  <1> QED
    BY <1>3, <1>4

\* What became of the alerts.
Offers == [queued: SUBSET Alerts, dropped: SUBSET Alerts, late: SUBSET Alerts, failed: SUBSET Alerts]

\* What the invariant says of the types, in one place.
LEMMA DeliveryTypes ==
    ASSUME DeliveryInv
    PROVE  /\ notifQueue \in Seq(Alerts) /\ Len(notifQueue) \in Nat /\ Len(notifQueue) <= NotifQueueSize
           /\ offered \in Offers
           /\ notifWorker \in [NotifWorkers -> NotifWorkerState]
           /\ enabled \subseteq Chans
           /\ history \in [Alerts -> [Chans -> {"none", "notified", "notification_failed"}]]
           /\ received \in [Alerts -> [Chans -> 0..2]]
           /\ unanswered \in BOOLEAN /\ notifStopped \in BOOLEAN /\ deliveryErrors \in 0..MaxDeliveryErrors
  BY DEF DeliveryInv, DeliveryTypeOK, Offers

\* The type invariant from its parts.
LEMMA WorkerTypes ==
    ASSUME notifWorker \in [NotifWorkers -> NotifWorkerState], NEW w \in NotifWorkers
    PROVE  /\ notifWorker[w].pc \in DeliveryPc
           /\ notifWorker[w].alert \in Alerts \cup {NoAlert}
           /\ notifWorker[w].next \in 1..(Len(ChannelIDs) + 1)
           /\ notifWorker[w].attempt \in 0..MaxRetries
           /\ notifWorker[w].draining \in BOOLEAN
  BY DEF NotifWorkerState

LEMMA IdleIsWorker == IdleWorker \in NotifWorkerState /\ IdleWorker.pc = "take"
  <1>1. PICK no \in BOOLEAN : no = FALSE
    OBVIOUS
  <1>2. 1 \in 1..(Len(ChannelIDs) + 1) /\ 0 \in 0..MaxRetries
    BY DeliveryConstants
  <1>3. IdleWorker = [pc |-> "take", alert |-> NoAlert, next |-> 1, attempt |-> 0, expired |-> no,
                      draining |-> no, late |-> no]
    BY <1>1 DEF IdleWorker
  <1> QED
    BY <1>2, <1>3 DEF NotifWorkerState, DeliveryPc

LEMMA OverIsWorker ==
    ASSUME notifWorker \in [NotifWorkers -> NotifWorkerState], NEW w \in NotifWorkers
    PROVE  Over(w) \in NotifWorkerState /\ Over(w).pc = "take"
  <1>1. ASSUME NEW r \in NotifWorkerState, NEW d \in BOOLEAN
        PROVE  /\ [r EXCEPT !.draining = d, !.late = d] \in NotifWorkerState
               /\ [r EXCEPT !.draining = d, !.late = d].pc = r.pc
    BY DEF NotifWorkerState
  <1> QED
    BY <1>1, WorkerTypes, IdleIsWorker DEF Over

LEMMA DeliveryInvInit == DeliveryInit => DeliveryInv
  <1> SUFFICES ASSUME DeliveryInit PROVE DeliveryInv
    OBVIOUS
  <1>1. notifWorker \in [NotifWorkers -> NotifWorkerState] /\ \A w \in NotifWorkers : notifWorker[w].pc = "take"
    BY IdleIsWorker DEF DeliveryInit
  <1>2. /\ notifQueue \in Seq(Alerts) /\ Len(notifQueue) = 0
        /\ history \in [Alerts -> [Chans -> {"none", "notified", "notification_failed"}]]
        /\ received \in [Alerts -> [Chans -> 0..2]] /\ enabled \subseteq Chans
        /\ \A a \in Alerts, c \in Chans : received[a][c] = 0 /\ history[a][c] = "none"
    BY DEF DeliveryInit
  <1>3. offered \in Offers /\ offered.queued = {}
    BY DEF DeliveryInit, Offers
  <1>4. DeliveryTypeOK
    <2>1. Len(notifQueue) <= NotifQueueSize
      BY <1>2, DeliveryConstants
    <2>2. unanswered \in BOOLEAN /\ notifStopped \in BOOLEAN /\ deliveryErrors \in 0..MaxDeliveryErrors
      <3>1. deliveryErrors \in 0..MaxDeliveryErrors
        BY DeliveryConstants DEF DeliveryInit
      <3>2. unanswered \in BOOLEAN /\ notifStopped \in BOOLEAN
        BY DEF DeliveryInit
      <3> QED
        BY <3>1, <3>2
    <2> QED
      BY <1>1, <1>2, <1>3, <2>1, <2>2, WorkerTypes DEF DeliveryTypeOK, DeliveryPc, Offers
  <1>5. AlertInOnePlace /\ SentByWorkers
    BY <1>1, <1>2 DEF AlertInOnePlace, SentByWorkers, Holds, NothingSent
  <1>6. (\A w \in NotifWorkers : SentBehind(w)) /\ RepeatedOnlyUnanswered
    BY <1>1, <1>2 DEF SentBehind, Trying, RepeatedOnlyUnanswered
  <1> QED
    BY <1>1, <1>3, <1>4, <1>5, <1>6 DEF DeliveryInv

-----------------------------------------------------------------------------
DataTypes ==
    /\ offered \in Offers
    /\ enabled \subseteq Chans
    /\ history \in [Alerts -> [Chans -> {"none", "notified", "notification_failed"}]]
    /\ received \in [Alerts -> [Chans -> 0..2]]
    /\ unanswered \in BOOLEAN /\ notifStopped \in BOOLEAN /\ deliveryErrors \in 0..MaxDeliveryErrors

\* A step of one worker that holds no other alert afterwards, and sends at most
\* the one it holds: what is left to show is its own SentBehind and the property.
LEMMA WorkerStep ==
    ASSUME DeliveryInv, NEW w \in NotifWorkers, NEW r \in NotifWorkerState,
           notifWorker' = [notifWorker EXCEPT ![w] = r],
           r.pc \notin {"take", "done"} => Holds(w) /\ r.alert = notifWorker[w].alert,
           notifQueue' = notifQueue, offered'.queued = offered.queued, DataTypes',
           \A a \in Alerts : received'[a] = received[a] \/ (Holds(w) /\ a = notifWorker[w].alert),
           unanswered => unanswered',
           SentBehind(w)', RepeatedOnlyUnanswered'
    PROVE  DeliveryInv'
  <1>1. /\ notifWorker' \in [NotifWorkers -> NotifWorkerState]
        /\ notifWorker'[w] = r
        /\ \A v \in NotifWorkers : v # w => notifWorker'[v] = notifWorker[v]
    BY DeliveryTypes
  <1>2. \A v \in NotifWorkers : Holds(v)' => Holds(v) /\ notifWorker'[v].alert = notifWorker[v].alert
    BY <1>1 DEF Holds
  <1>3. AlertInOnePlace'
    BY <1>2 DEF DeliveryInv, AlertInOnePlace
  <1>4. \A a \in Alerts : Holds(w) /\ a = notifWorker[w].alert => a \in offered.queued
    BY DEF DeliveryInv, AlertInOnePlace
  <1>5. \A i \in 1..Len(notifQueue) : notifQueue[i] \in Alerts /\ (Holds(w) => notifQueue[i] # notifWorker[w].alert)
    BY DeliveryTypes DEF DeliveryInv, AlertInOnePlace
  <1>6. SentByWorkers'
    BY <1>4, <1>5 DEF DeliveryInv, SentByWorkers, NothingSent
  <1>7. ASSUME NEW v \in NotifWorkers, v # w PROVE SentBehind(v)'
    <2>1. CASE Holds(v)
      <3>1. notifWorker[v].alert \in Alerts
        BY <2>1, DeliveryTypes DEF DeliveryInv, AlertInOnePlace
      <3>2. ~ (Holds(w) /\ notifWorker[v].alert = notifWorker[w].alert)
        BY <1>7, <2>1 DEF DeliveryInv, AlertInOnePlace
      <3>3. received'[notifWorker[v].alert] = received[notifWorker[v].alert]
        BY <3>1, <3>2
      <3>4. SentBehind(v) /\ notifWorker'[v] = notifWorker[v]
        BY <1>1, <1>7 DEF DeliveryInv
      <3> QED
        BY <3>3, <3>4 DEF SentBehind, Trying, NothingSent
    <2>2. CASE ~Holds(v)
      <3>1. notifWorker'[v] = notifWorker[v]
        BY <1>1, <1>7
      <3>2. notifWorker'[v].pc \in {"take", "done"}
        BY <2>2, <3>1 DEF Holds
      <3> QED
        BY <3>2 DEF SentBehind, Trying
    <2> QED
      BY <2>1, <2>2
  <1>8. DeliveryTypeOK'
    <2>1. notifQueue' \in Seq(Alerts) /\ Len(notifQueue') <= NotifQueueSize
      BY DeliveryTypes
    <2>2. \A v \in NotifWorkers :
             /\ notifWorker'[v].pc \in DeliveryPc
             /\ notifWorker'[v].next \in 1..(Len(ChannelIDs) + 1)
             /\ notifWorker'[v].attempt \in 0..MaxRetries
      BY <1>1 DEF NotifWorkerState
    <2> QED
      BY <2>1, <2>2 DEF DeliveryTypeOK, DataTypes, DeliveryPc, Offers
  <1>9. offered'.queued \subseteq Alerts
    BY DeliveryTypes DEF Offers
  <1> QED
    BY <1>1, <1>3, <1>6, <1>7, <1>8, <1>9 DEF DeliveryInv

\* What NotifWorkerState leaves room for.
LEMMA WorkerUpdates ==
    ASSUME NEW r \in NotifWorkerState, NEW p \in DeliveryPc
    PROVE  /\ [r EXCEPT !.pc = p] \in NotifWorkerState
           /\ [r EXCEPT !.pc = p].pc = p /\ [r EXCEPT !.pc = p].alert = r.alert
           /\ [r EXCEPT !.pc = p].next = r.next /\ [r EXCEPT !.pc = p].attempt = r.attempt
  BY DEF NotifWorkerState

\* Nothing but the worker changes.
LEMMA SilentStep ==
    ASSUME DeliveryInv, NEW w \in NotifWorkers, NEW r \in NotifWorkerState,
           notifWorker' = [notifWorker EXCEPT ![w] = r],
           r.pc \notin {"take", "done"} => Holds(w) /\ r.alert = notifWorker[w].alert,
           notifQueue' = notifQueue, offered'.queued = offered.queued, DataTypes',
           UNCHANGED <<received, unanswered>>,
           \A a \in Alerts, c \in Chans : history'[a][c] = "notified" =>
               history[a][c] = "notified" \/ received[a][c] > 0,
           SentBehind(w)'
    PROVE  DeliveryInv'
  <1>1. RepeatedOnlyUnanswered'
    BY DEF DeliveryInv, RepeatedOnlyUnanswered
  <1> QED
    BY <1>1, WorkerStep

\* The worker goes on with the channels from position i on.
LEMMA ContinueKeeps ==
    ASSUME DeliveryInv, NEW w \in NotifWorkers, Holds(w), NEW i \in 1..(Len(ChannelIDs) + 1),
           \A j \in i..Len(ChannelIDs) : received[notifWorker[w].alert][ChannelIDs[j]] = 0,
           Continue(w, i),
           notifQueue' = notifQueue, offered'.queued = offered.queued, DataTypes',
           UNCHANGED <<received, unanswered>>,
           \A a \in Alerts, c \in Chans : history'[a][c] = "notified" =>
               history[a][c] = "notified" \/ received[a][c] > 0
    PROVE  DeliveryInv'
  <1>1. notifWorker \in [NotifWorkers -> NotifWorkerState]
    BY DeliveryTypes
  <1>2. CASE NextChannel(i) > Len(ChannelIDs)
    <2>1. notifWorker' = [notifWorker EXCEPT ![w] = Over(w)]
      BY <1>2 DEF Continue
    <2>2. Over(w) \in NotifWorkerState /\ Over(w).pc = "take"
      BY <1>1, OverIsWorker
    <2>3. notifWorker'[w].pc = "take"
      BY <1>1, <2>1, <2>2
    <2>4. SentBehind(w)'
      BY <2>3 DEF SentBehind, Trying
    <2> QED
      BY <2>1, <2>2, <2>4, SilentStep
  <1>3. CASE ~ (NextChannel(i) > Len(ChannelIDs))
    <2>1. PICK k : k = NextChannel(i)
      OBVIOUS
    <2>2. k \in i..Len(ChannelIDs) /\ k \in 1..(Len(ChannelIDs) + 1) /\ k <= Len(ChannelIDs)
      BY <1>3, <2>1, NextChannelAhead, DeliveryConstants
    <2>3. PICK r : r = [notifWorker[w] EXCEPT !.pc = "send", !.next = k, !.attempt = 0]
      OBVIOUS
    <2>4. notifWorker' = [notifWorker EXCEPT ![w] = r]
      BY <1>1, <1>3, <2>1, <2>3 DEF Continue
    <2>5. 0 \in 0..MaxRetries
      BY DeliveryConstants
    <2>6. r \in NotifWorkerState /\ r.pc = "send" /\ r.next = k /\ r.alert = notifWorker[w].alert
      BY <1>1, <2>2, <2>3, <2>5 DEF NotifWorkerState, DeliveryPc
    <2>7. notifWorker'[w] = r
      BY <1>1, <2>4
    <2>8. \A j \in k..Len(ChannelIDs) : received[notifWorker[w].alert][ChannelIDs[j]] = 0
      BY <2>2, DeliveryConstants
    <2>9. /\ \A j \in (k + 1)..Len(ChannelIDs) : received[notifWorker[w].alert][ChannelIDs[j]] = 0
          /\ received[notifWorker[w].alert][ChannelIDs[k]] = 0
      BY <2>2, <2>8, DeliveryConstants
    <2>10. SentBehind(w)'
      BY <2>2, <2>6, <2>7, <2>9 DEF SentBehind, Trying
    <2> QED
      BY <2>4, <2>6, <2>10, SilentStep
  <1> QED
    BY <1>2, <1>3

-----------------------------------------------------------------------------
LEMMA QueueSteps ==
    ASSUME DeliveryInv, (\E a \in Alerts : SendNotifications(a)) \/ (\E w \in NotifWorkers : TakeJob(w))
    PROVE  DeliveryInv'
  <1>1. ASSUME NEW a \in Alerts, SendNotifications(a) PROVE DeliveryInv'
    <2>1. /\ UNCHANGED <<notifWorker, enabled, history, received, unanswered, notifStopped, deliveryErrors>>
          /\ a \notin offered.queued
      BY <1>1 DEF SendNotifications
    <2>2. CASE /\ Len(notifQueue) < NotifQueueSize
               /\ notifQueue' = Append(notifQueue, a)
               /\ offered' = [offered EXCEPT !.queued = @ \cup {a},
                                             !.late = IF notifStopped THEN @ \cup {a} ELSE @]
      <3>1. /\ offered' \in Offers
            /\ offered'.queued = offered.queued \cup {a}
        BY <2>2, DeliveryTypes DEF Offers
      <3>2. /\ notifQueue' \in Seq(Alerts) /\ Len(notifQueue') = Len(notifQueue) + 1
            /\ Len(notifQueue') <= NotifQueueSize
            /\ \A i \in 1..Len(notifQueue') :
                 (i \in 1..Len(notifQueue) /\ notifQueue'[i] = notifQueue[i])
                 \/ (i = Len(notifQueue) + 1 /\ notifQueue'[i] = a)
        BY <2>2, DeliveryTypes, DeliveryConstants
      <3>3. \A i \in 1..Len(notifQueue) : notifQueue[i] # a
        BY <2>1 DEF DeliveryInv, AlertInOnePlace
      <3>4. AlertInOnePlace'
        <4>1. \A i, j \in 1..Len(notifQueue') : notifQueue'[i] = notifQueue'[j] => i = j
          BY <3>2, <3>3 DEF DeliveryInv, AlertInOnePlace
        <4>2. \A i \in 1..Len(notifQueue') : notifQueue'[i] \in offered'.queued
          BY <3>1, <3>2 DEF DeliveryInv, AlertInOnePlace
        <4>3. \A w \in NotifWorkers : Holds(w)' =>
                 /\ notifWorker'[w].alert \in offered'.queued
                 /\ \A i \in 1..Len(notifQueue') : notifQueue'[i] # notifWorker'[w].alert
          BY <2>1, <3>1, <3>2 DEF DeliveryInv, AlertInOnePlace, Holds
        <4>4. \A v, w \in NotifWorkers :
                 Holds(v)' /\ Holds(w)' /\ notifWorker'[v].alert = notifWorker'[w].alert => v = w
          BY <2>1 DEF DeliveryInv, AlertInOnePlace, Holds
        <4> QED
          BY <4>1, <4>2, <4>3, <4>4 DEF AlertInOnePlace
      <3>5. SentByWorkers'
        BY <2>1, <3>1, <3>2 DEF DeliveryInv, SentByWorkers, NothingSent
      <3>6. (\A w \in NotifWorkers : SentBehind(w)') /\ RepeatedOnlyUnanswered'
        BY <2>1 DEF DeliveryInv, SentBehind, Trying, NothingSent, RepeatedOnlyUnanswered
      <3>7. DeliveryTypeOK'
        BY <2>1, <3>1, <3>2 DEF DeliveryInv, DeliveryTypeOK, Offers
      <3>8. offered'.queued \subseteq Alerts /\ notifWorker' \in [NotifWorkers -> NotifWorkerState]
        BY <2>1, <3>1, DeliveryTypes DEF Offers
      <3> QED
        BY <3>4, <3>5, <3>6, <3>7, <3>8 DEF DeliveryInv
    <2>3. CASE offered' = [offered EXCEPT !.dropped = @ \cup {a}] /\ UNCHANGED notifQueue
      <3>1. /\ offered' \in Offers
            /\ offered'.queued = offered.queued
        BY <2>3, DeliveryTypes DEF Offers
      <3>2. AlertInOnePlace' /\ SentByWorkers'
        BY <2>1, <2>3, <3>1 DEF DeliveryInv, AlertInOnePlace, SentByWorkers, NothingSent, Holds
      <3>3. (\A w \in NotifWorkers : SentBehind(w)') /\ RepeatedOnlyUnanswered'
        BY <2>1 DEF DeliveryInv, SentBehind, Trying, NothingSent, RepeatedOnlyUnanswered
      <3>4. DeliveryTypeOK'
        BY <2>1, <2>3, <3>1 DEF DeliveryInv, DeliveryTypeOK, Offers
      <3>5. offered'.queued \subseteq Alerts /\ notifWorker' \in [NotifWorkers -> NotifWorkerState]
        BY <2>1, <3>1, DeliveryTypes DEF Offers
      <3> QED
        BY <3>2, <3>3, <3>4, <3>5 DEF DeliveryInv
    <2> QED
      BY <1>1, <2>2, <2>3 DEF SendNotifications
  <1>2. ASSUME NEW w \in NotifWorkers, TakeJob(w) PROVE DeliveryInv'
    <2>1. /\ notifWorker[w].pc = "take" /\ notifQueue # <<>>
          /\ UNCHANGED <<offered, enabled, history, received, unanswered, notifStopped, deliveryErrors>>
          /\ notifQueue' = Tail(notifQueue)
      BY <1>2 DEF TakeJob
    <2>2. PICK a : a = Head(notifQueue)
      OBVIOUS
    <2>3. /\ Len(notifQueue) \in Nat /\ 1 \in 1..Len(notifQueue) /\ a = notifQueue[1] /\ a \in Alerts
          /\ notifQueue' \in Seq(Alerts) /\ Len(notifQueue') = Len(notifQueue) - 1
          /\ \A i \in 1..Len(notifQueue') : i + 1 \in 1..Len(notifQueue) /\ notifQueue'[i] = notifQueue[i + 1]
      BY <2>1, <2>2, DeliveryTypes
    <2>4. PICK r : r = [notifWorker[w] EXCEPT !.pc = "load", !.alert = a]
      OBVIOUS
    <2>5. r \in NotifWorkerState /\ r.pc = "load" /\ r.alert = a
      <3>1. notifWorker[w] \in NotifWorkerState
        BY DeliveryTypes
      <3> QED
        BY <2>3, <2>4, <3>1 DEF NotifWorkerState, DeliveryPc
    <2>6. notifWorker' = [notifWorker EXCEPT ![w] = r]
      BY <1>2, <2>2, <2>4, DeliveryTypes DEF TakeJob
    <2>7. /\ notifWorker' \in [NotifWorkers -> NotifWorkerState]
          /\ notifWorker'[w] = r
          /\ \A v \in NotifWorkers : v # w => notifWorker'[v] = notifWorker[v]
      BY <2>5, <2>6, DeliveryTypes
    <2>8. a \in offered.queued /\ NothingSent(a) /\ \A v \in NotifWorkers : Holds(v) => notifWorker[v].alert # a
      BY <2>3 DEF DeliveryInv, AlertInOnePlace, SentByWorkers
    <2>9. \A i \in 1..Len(notifQueue') : notifQueue'[i] # a
      BY <2>3 DEF DeliveryInv, AlertInOnePlace
    <2>10. \A v \in NotifWorkers : v # w => (Holds(v)' <=> Holds(v))
      BY <2>7 DEF Holds
    <2>11. AlertInOnePlace'
      <3>1. \A i, j \in 1..Len(notifQueue') : notifQueue'[i] = notifQueue'[j] => i = j
        <4> SUFFICES ASSUME NEW i \in 1..Len(notifQueue'), NEW j \in 1..Len(notifQueue'),
                            notifQueue'[i] = notifQueue'[j]
                     PROVE  i = j
          OBVIOUS
        <4>1. notifQueue[i + 1] = notifQueue[j + 1] /\ i + 1 \in 1..Len(notifQueue) /\ j + 1 \in 1..Len(notifQueue)
          BY <2>3
        <4>2. i + 1 = j + 1
          BY <4>1 DEF DeliveryInv, AlertInOnePlace
        <4> QED
          BY <4>2
      <3>2. \A i \in 1..Len(notifQueue') : notifQueue'[i] \in offered'.queued
        BY <2>1, <2>3 DEF DeliveryInv, AlertInOnePlace
      <3>3. \A v \in NotifWorkers : Holds(v)' =>
               /\ notifWorker'[v].alert \in offered'.queued
               /\ \A i \in 1..Len(notifQueue') : notifQueue'[i] # notifWorker'[v].alert
        BY <2>1, <2>3, <2>5, <2>7, <2>8, <2>9, <2>10 DEF DeliveryInv, AlertInOnePlace
      <3>4. \A u, v \in NotifWorkers :
               Holds(u)' /\ Holds(v)' /\ notifWorker'[u].alert = notifWorker'[v].alert => u = v
        BY <2>5, <2>7, <2>8, <2>10 DEF DeliveryInv, AlertInOnePlace
      <3> QED
        BY <3>1, <3>2, <3>3, <3>4 DEF AlertInOnePlace
    <2>12. SentByWorkers'
      BY <2>1, <2>3 DEF DeliveryInv, SentByWorkers, NothingSent
    <2>13. ASSUME NEW v \in NotifWorkers PROVE SentBehind(v)'
      <3>1. CASE v = w
        BY <2>1, <2>5, <2>7, <2>8, <3>1 DEF SentBehind, Trying, NothingSent
      <3>2. CASE v # w
        <4>1. notifWorker'[v] = notifWorker[v] /\ SentBehind(v)
          BY <2>7, <3>2 DEF DeliveryInv
        <4> QED
          BY <2>1, <4>1 DEF SentBehind, Trying, NothingSent
      <3> QED
        BY <3>1, <3>2
    <2>14. RepeatedOnlyUnanswered'
      BY <2>1 DEF DeliveryInv, RepeatedOnlyUnanswered
    <2>15. DeliveryTypeOK'
      <3>1. Len(notifQueue') <= NotifQueueSize
        BY <2>3, DeliveryTypes, DeliveryConstants
      <3>2. \A v \in NotifWorkers :
               /\ notifWorker'[v].pc \in DeliveryPc
               /\ notifWorker'[v].next \in 1..(Len(ChannelIDs) + 1)
               /\ notifWorker'[v].attempt \in 0..MaxRetries
        BY <2>7 DEF NotifWorkerState
      <3> QED
        BY <2>1, <2>3, <3>1, <3>2 DEF DeliveryInv, DeliveryTypeOK, DeliveryPc
    <2> QED
      BY <2>1, <2>7, <2>11, <2>12, <2>13, <2>14, <2>15 DEF DeliveryInv
  <1> QED
    BY <1>1, <1>2

LEMMA SendsKeep ==
    ASSUME DeliveryInv, NEW w \in NotifWorkers, SendSucceeds(w) \/ SendFails(w)
    PROVE  DeliveryInv'
  <1>1. /\ notifWorker \in [NotifWorkers -> NotifWorkerState] /\ notifWorker[w] \in NotifWorkerState
        /\ DataTypes
    BY DeliveryTypes DEF DataTypes
  <1>2. PICK i, c, a : i = notifWorker[w].next /\ c = ChannelIDs[i] /\ a = notifWorker[w].alert
    OBVIOUS
  <1>3. notifWorker[w].pc = "send" /\ Holds(w) /\ Trying(w)
        /\ UNCHANGED <<notifQueue, offered, enabled, history, notifStopped, deliveryErrors>>
    BY DEF SendSucceeds, SendFails, Holds, Trying
  <1>4. /\ i \in 1..Len(ChannelIDs) /\ c \in Chans /\ a \in Alerts
        /\ \A j \in (i + 1)..Len(ChannelIDs) : received[a][ChannelIDs[j]] = 0 /\ ChannelIDs[j] # c /\ ChannelIDs[j] \in Chans
        /\ received[a][c] > 0 => unanswered
    <2>1. i \in 1..(Len(ChannelIDs) + 1) /\ i <= Len(ChannelIDs) /\ a \in Alerts
      BY <1>1, <1>2, <1>3, WorkerTypes DEF DeliveryInv, AlertInOnePlace, SentBehind
    <2>2. i \in 1..Len(ChannelIDs) /\ c \in Chans
      BY <1>2, <2>1, DeliveryConstants
    <2>3. \A j \in (i + 1)..Len(ChannelIDs) : received[a][ChannelIDs[j]] = 0
      BY <1>2, <1>3 DEF DeliveryInv, SentBehind
    <2>4. \A j \in (i + 1)..Len(ChannelIDs) : ChannelIDs[j] # c /\ ChannelIDs[j] \in Chans
      BY <1>2, <2>2, DeliveryConstants
    <2>5. received[a][c] > 0 => unanswered
      BY <1>2, <1>3 DEF DeliveryInv, SentBehind
    <2> QED
      BY <2>1, <2>2, <2>3, <2>4, <2>5
  <1>5. PICK r \in NotifWorkerState :
           /\ notifWorker' = [notifWorker EXCEPT ![w] = r]
           /\ r.pc \in {"record", "backoff", "failed"} /\ r.alert = a /\ r.next = i
           /\ r.pc = "backoff" => r.attempt < MaxRetries
           /\ r.pc = "record" => SendSucceeds(w)
    <2>1. PICK p \in {"record", "backoff", "failed"} :
             /\ notifWorker' = [notifWorker EXCEPT ![w].pc = p]
             /\ p = "backoff" => notifWorker[w].attempt < MaxRetries
             /\ p = "record" => SendSucceeds(w)
      BY DEF SendSucceeds, SendFails
    <2>2. PICK r : r = [notifWorker[w] EXCEPT !.pc = p]
      OBVIOUS
    <2>3. r \in NotifWorkerState /\ r.pc = p /\ r.alert = a /\ r.next = i /\ r.attempt = notifWorker[w].attempt
      <3>1. p \in DeliveryPc
        BY DEF DeliveryPc
      <3> QED
        BY <1>1, <1>2, <2>2, <3>1, WorkerUpdates
    <2>4. notifWorker' = [notifWorker EXCEPT ![w] = r]
      BY <1>1, <2>1, <2>2
    <2> QED
      BY <2>1, <2>3, <2>4
  <1>6. /\ notifWorker'[w] = r /\ (unanswered => unanswered') /\ unanswered' \in BOOLEAN
        /\ \/ UNCHANGED received /\ ~SendSucceeds(w)
           \/ Arrives(w) /\ (SendSucceeds(w) \/ unanswered')
    <2>1. notifWorker'[w] = r
      BY <1>1, <1>5
    <2>2. CASE SendSucceeds(w)
      BY <1>1, <2>1, <2>2 DEF SendSucceeds, DataTypes
    <2>3. CASE ~SendSucceeds(w) /\ SendFails(w)
      <3>1. UNCHANGED <<received, unanswered>> \/ (Arrives(w) /\ unanswered' = TRUE)
        BY <2>3 DEF SendFails
      <3>2. CASE UNCHANGED <<received, unanswered>>
        BY <1>1, <2>1, <2>3, <3>2 DEF DataTypes
      <3>3. CASE Arrives(w) /\ unanswered' = TRUE
        BY <2>1, <3>3
      <3> QED
        BY <3>1, <3>2, <3>3
    <2> QED
      BY <2>2, <2>3
  <1>7. CASE UNCHANGED received /\ ~SendSucceeds(w)
    <2>1. DataTypes'
      BY <1>1, <1>3, <1>6, <1>7 DEF DataTypes
    <2>2. SentBehind(w)'
      <3>1. r.pc \in {"backoff", "failed"} /\ i <= Len(ChannelIDs)
        BY <1>4, <1>5, <1>7, DeliveryConstants
      <3>2. \A j \in (i + 1)..Len(ChannelIDs) : received'[a][ChannelIDs[j]] = 0
        BY <1>4, <1>7
      <3>3. received'[a][c] > 0 => unanswered'
        BY <1>4, <1>6, <1>7
      <3> QED
        BY <1>2, <1>5, <1>6, <3>1, <3>2, <3>3 DEF SentBehind, Trying
    <2>3. RepeatedOnlyUnanswered'
      BY <1>3, <1>6, <1>7 DEF DeliveryInv, RepeatedOnlyUnanswered
    <2> QED
      BY <1>2, <1>3, <1>5, <1>6, <1>7, <2>1, <2>2, <2>3, WorkerStep
  <1>8. CASE Arrives(w) /\ (SendSucceeds(w) \/ unanswered')
    <2>1. received' = [received EXCEPT ![a][c] = IF @ = 2 THEN 2 ELSE @ + 1]
      BY <1>2, <1>8 DEF Arrives
    <2>2. received[a][c] \in 0..2
      BY <1>1, <1>4 DEF DataTypes
    <2>3. PICK n : n = IF received[a][c] = 2 THEN 2 ELSE received[a][c] + 1
      OBVIOUS
    <2>4. n \in 1..2 /\ (n > 1 => received[a][c] > 0)
      BY <2>2, <2>3
    <2>5. received' = [received EXCEPT ![a] = [received[a] EXCEPT ![c] = n]]
      BY <1>1, <1>4, <2>1, <2>3 DEF DataTypes
    <2>6. /\ received' \in [Alerts -> [Chans -> 0..2]]
          /\ received'[a][c] = n
          /\ \A y \in Chans : y # c => received'[a][y] = received[a][y]
          /\ \A x \in Alerts : x # a => received'[x] = received[x]
      BY <1>1, <1>4, <2>4, <2>5 DEF DataTypes
    <2>7. DataTypes'
      BY <1>1, <1>3, <1>6, <2>6 DEF DataTypes
    <2>8. received'[a][c] > 1 => unanswered'
      BY <1>4, <1>6, <2>4, <2>6
    <2>9. RepeatedOnlyUnanswered'
      <3> SUFFICES ASSUME NEW x \in Alerts, NEW y \in Chans
                   PROVE  /\ history'[x][y] = "notified" => received'[x][y] > 0
                          /\ received'[x][y] > 1 => unanswered'
        BY DEF RepeatedOnlyUnanswered
      <3>1. CASE x = a /\ y = c
        BY <2>4, <2>6, <2>8, <3>1
      <3>2. CASE ~ (x = a /\ y = c)
        <4>1. received'[x][y] = received[x][y]
          BY <2>6, <3>2
        <4> QED
          BY <1>3, <1>6, <4>1 DEF DeliveryInv, RepeatedOnlyUnanswered
      <3> QED
        BY <3>1, <3>2
    <2>10. SentBehind(w)'
      <3>1. r.pc # "load" /\ i <= Len(ChannelIDs)
        BY <1>4, <1>5, DeliveryConstants
      <3>2. \A j \in (i + 1)..Len(ChannelIDs) : received'[a][ChannelIDs[j]] = 0
        BY <1>4, <2>6
      <3>3. r.pc = "record" => received'[a][c] > 0
        BY <2>4, <2>6
      <3>4. r.pc \in {"send", "backoff"} /\ received'[a][c] > 0 => unanswered'
        <4>1. r.pc = "backoff" => ~SendSucceeds(w)
          <5>1. SendSucceeds(w) => notifWorker' = [notifWorker EXCEPT ![w].pc = "record"]
            BY DEF SendSucceeds
          <5>2. SendSucceeds(w) => notifWorker'[w].pc = "record"
            BY <1>1, <5>1 DEF NotifWorkerState
          <5> QED
            BY <1>6, <5>2
        <4> QED
          BY <1>5, <1>8, <4>1
      <3> QED
        BY <1>2, <1>5, <1>6, <3>1, <3>2, <3>3, <3>4 DEF SentBehind, Trying
    <2> QED
      BY <1>2, <1>3, <1>5, <1>6, <2>6, <2>7, <2>9, <2>10, WorkerStep
  <1> QED
    BY <1>6, <1>7, <1>8

LEMMA WorkerSteps ==
    ASSUME DeliveryInv, NEW w \in NotifWorkers, NotifWorker(w)
    PROVE  DeliveryInv'
  <1>1. /\ notifWorker \in [NotifWorkers -> NotifWorkerState] /\ notifWorker[w] \in NotifWorkerState
        /\ DataTypes
    BY DeliveryTypes DEF DataTypes
  <1>2. Holds(w) => notifWorker[w].alert \in Alerts
    BY DeliveryTypes DEF DeliveryInv, AlertInOnePlace
  <1>3. SentBehind(w)
    BY DEF DeliveryInv
  <1>4. CASE TakeJob(w)
    BY <1>4, QueueSteps
  <1>5. CASE StartDrain(w)
    <2>1. PICK yes \in BOOLEAN : yes = TRUE
      OBVIOUS
    <2>2. PICK r : r = [notifWorker[w] EXCEPT !.draining = yes]
      OBVIOUS
    <2>3. r \in NotifWorkerState /\ r.pc = notifWorker[w].pc
      BY <1>1, <2>2 DEF NotifWorkerState
    <2>4. notifWorker[w].pc = "take" /\ UNCHANGED <<notifQueue, offered, enabled, history, received, unanswered,
                                                   notifStopped, deliveryErrors>>
      BY <1>5 DEF StartDrain
    <2>5. notifWorker' = [notifWorker EXCEPT ![w] = r]
      <3>1. notifWorker' = [notifWorker EXCEPT ![w].draining = yes]
        BY <1>5, <2>1 DEF StartDrain
      <3> QED
        BY <1>1, <2>2, <3>1
    <2>6. notifWorker'[w].pc = "take"
      BY <1>1, <2>3, <2>4, <2>5
    <2>7. SentBehind(w)' /\ DataTypes'
      BY <1>1, <2>4, <2>6 DEF SentBehind, Trying, DataTypes
    <2> QED
      BY <2>3, <2>4, <2>5, <2>7, SilentStep
  <1>6. CASE DrainEnds(w)
    <2>1. PICK r : r = [notifWorker[w] EXCEPT !.pc = "done"]
      OBVIOUS
    <2>2. r \in NotifWorkerState /\ r.pc = "done"
      BY <1>1, <2>1, WorkerUpdates DEF DeliveryPc
    <2>3. UNCHANGED <<notifQueue, offered, enabled, history, received, unanswered, notifStopped, deliveryErrors>>
      BY <1>6 DEF DrainEnds
    <2>4. notifWorker' = [notifWorker EXCEPT ![w] = r]
      BY <1>1, <1>6, <2>1 DEF DrainEnds
    <2>5. notifWorker'[w].pc = "done"
      BY <1>1, <2>2, <2>4
    <2>6. SentBehind(w)' /\ DataTypes'
      BY <1>1, <2>3, <2>5 DEF SentBehind, Trying, DataTypes
    <2> QED
      BY <2>2, <2>3, <2>4, <2>6, SilentStep
  <1>7. CASE LoadChannels(w)
    <2>1. /\ notifWorker[w].pc = "load" /\ Holds(w) /\ Continue(w, 1)
          /\ UNCHANGED <<notifQueue, offered, enabled, history, received, unanswered, notifStopped, deliveryErrors>>
      BY <1>7 DEF LoadChannels, Holds
    <2>2. 1 \in 1..(Len(ChannelIDs) + 1)
      BY DeliveryConstants
    <2>3. \A j \in 1..Len(ChannelIDs) : received[notifWorker[w].alert][ChannelIDs[j]] = 0
      BY <1>3, <2>1, DeliveryConstants DEF SentBehind, NothingSent
    <2>4. DataTypes'
      BY <1>1, <2>1 DEF DataTypes
    <2> QED
      BY <2>1, <2>2, <2>3, <2>4, ContinueKeeps
  <1>8. CASE LoadFails(w)
    <2>1. /\ notifWorker[w].pc = "load" /\ Holds(w) /\ deliveryErrors < MaxDeliveryErrors
          /\ notifWorker' = [notifWorker EXCEPT ![w] = Over(w)]
          /\ deliveryErrors' = deliveryErrors + 1
          /\ offered' = [offered EXCEPT !.failed = @ \cup {notifWorker[w].alert}]
          /\ UNCHANGED <<notifQueue, enabled, history, received, unanswered, notifStopped>>
      BY <1>8 DEF LoadFails, Holds
    <2>2. Over(w) \in NotifWorkerState /\ Over(w).pc = "take"
      BY <1>1, OverIsWorker
    <2>3. /\ offered' \in Offers
          /\ offered'.queued = offered.queued
      BY <1>1, <1>2, <2>1 DEF DataTypes, Offers
    <2>4. deliveryErrors' \in 0..MaxDeliveryErrors
      BY <1>1, <2>1, DeliveryConstants DEF DataTypes
    <2>5. notifWorker'[w].pc = "take"
      BY <1>1, <2>1, <2>2
    <2>6. SentBehind(w)' /\ DataTypes'
      BY <1>1, <2>1, <2>3, <2>4, <2>5 DEF SentBehind, Trying, DataTypes
    <2> QED
      BY <2>1, <2>2, <2>3, <2>6, SilentStep
  <1>9. CASE Backoff(w)
    <2>1. /\ notifWorker[w].pc = "backoff" /\ Holds(w)
          /\ UNCHANGED <<notifQueue, offered, enabled, history, received, unanswered, notifStopped, deliveryErrors>>
      BY <1>9 DEF Backoff, Holds
    <2>2. PICK r \in NotifWorkerState :
             /\ notifWorker' = [notifWorker EXCEPT ![w] = r]
             /\ r.pc \in {"send", "failed"} /\ r.alert = notifWorker[w].alert /\ r.next = notifWorker[w].next
      <3>1. CASE notifWorker' = [notifWorker EXCEPT ![w].pc = "send", ![w].attempt = @ + 1]
        <4>1. PICK r : r = [notifWorker[w] EXCEPT !.pc = "send", !.attempt = @ + 1]
          OBVIOUS
        <4>2. notifWorker[w].attempt + 1 \in 0..MaxRetries
          BY <1>1, <1>3, <2>1, WorkerTypes, DeliveryConstants DEF SentBehind
        <4>3. /\ r \in NotifWorkerState /\ r.pc = "send"
              /\ r.alert = notifWorker[w].alert /\ r.next = notifWorker[w].next
          BY <1>1, <4>1, <4>2 DEF NotifWorkerState, DeliveryPc
        <4>4. notifWorker' = [notifWorker EXCEPT ![w] = r]
          BY <1>1, <3>1, <4>1
        <4> QED
          BY <4>3, <4>4
      <3>2. CASE notifWorker' = [notifWorker EXCEPT ![w].pc = "failed", ![w].expired = TRUE]
        <4>1. PICK yes \in BOOLEAN : yes = TRUE
          OBVIOUS
        <4>2. PICK r : r = [notifWorker[w] EXCEPT !.pc = "failed", !.expired = yes]
          OBVIOUS
        <4>3. /\ r \in NotifWorkerState /\ r.pc = "failed"
              /\ r.alert = notifWorker[w].alert /\ r.next = notifWorker[w].next
          BY <1>1, <4>2 DEF NotifWorkerState, DeliveryPc
        <4>4. notifWorker' = [notifWorker EXCEPT ![w] = r]
          <5>1. notifWorker' = [notifWorker EXCEPT ![w].pc = "failed", ![w].expired = yes]
            BY <3>2, <4>1
          <5> QED
            BY <1>1, <4>2, <5>1
        <4> QED
          BY <4>3, <4>4
      <3> QED
        BY <1>9, <3>1, <3>2 DEF Backoff
    <2>3. notifWorker'[w] = r
      BY <1>1, <2>2
    <2>4. SentBehind(w)' /\ DataTypes'
      BY <1>1, <1>3, <2>1, <2>2, <2>3 DEF SentBehind, Trying, DataTypes
    <2> QED
      BY <2>1, <2>2, <2>4, SilentStep
  <1>10. CASE RecordHistory(w)
    <2>1. PICK i, c, a : i = notifWorker[w].next /\ c = ChannelIDs[i] /\ a = notifWorker[w].alert
      OBVIOUS
    <2>2. /\ notifWorker[w].pc \in {"record", "failed"} /\ Holds(w) /\ Trying(w) /\ Continue(w, i + 1)
          /\ history' = [history EXCEPT ![a][c] = IF notifWorker[w].pc = "record" THEN "notified"
                                                                                  ELSE "notification_failed"]
          /\ UNCHANGED <<notifQueue, offered, enabled, received, unanswered, notifStopped, deliveryErrors>>
      BY <1>10, <2>1 DEF RecordHistory, Holds, Trying
    <2>3. /\ i \in 1..Len(ChannelIDs) /\ i + 1 \in 1..(Len(ChannelIDs) + 1) /\ c \in Chans /\ a \in Alerts
          /\ \A j \in (i + 1)..Len(ChannelIDs) : received[a][ChannelIDs[j]] = 0
          /\ notifWorker[w].pc = "record" => received[a][c] > 0
      BY <1>1, <1>2, <1>3, <2>1, <2>2, WorkerTypes, DeliveryConstants DEF SentBehind
    <2>4. history' \in [Alerts -> [Chans -> {"none", "notified", "notification_failed"}]]
      BY <1>1, <2>2, <2>3 DEF DataTypes
    <2>5. \A x \in Alerts, y \in Chans : history'[x][y] = "notified" =>
             history[x][y] = "notified" \/ received[x][y] > 0
      BY <1>1, <2>2, <2>3 DEF DataTypes
    <2>6. DataTypes'
      BY <1>1, <2>2, <2>4 DEF DataTypes
    <2> QED
      BY <2>1, <2>2, <2>3, <2>5, <2>6, ContinueKeeps
  <1>13. CASE RecordFails(w)
    <2>1. PICK i, a : i = notifWorker[w].next /\ a = notifWorker[w].alert
      OBVIOUS
    <2>2. /\ notifWorker[w].pc \in {"record", "failed"} /\ Holds(w) /\ Trying(w) /\ Continue(w, i + 1)
          /\ deliveryErrors < MaxDeliveryErrors /\ deliveryErrors' = deliveryErrors + 1
          /\ offered' = [offered EXCEPT !.failed = @ \cup {a}]
          /\ UNCHANGED <<notifQueue, enabled, history, received, unanswered, notifStopped>>
      BY <1>13, <2>1 DEF RecordFails, Holds, Trying
    <2>3. /\ i \in 1..Len(ChannelIDs) /\ i + 1 \in 1..(Len(ChannelIDs) + 1) /\ a \in Alerts
          /\ \A j \in (i + 1)..Len(ChannelIDs) : received[a][ChannelIDs[j]] = 0
      BY <1>1, <1>2, <1>3, <2>1, <2>2, WorkerTypes, DeliveryConstants DEF SentBehind
    <2>4. /\ offered' \in Offers /\ offered'.queued = offered.queued
      BY <1>1, <2>2, <2>3 DEF DataTypes, Offers
    <2>5. deliveryErrors' \in 0..MaxDeliveryErrors
      BY <1>1, <2>2, DeliveryConstants DEF DataTypes
    <2>6. DataTypes'
      BY <1>1, <2>2, <2>4, <2>5 DEF DataTypes
    <2> QED
      BY <2>1, <2>2, <2>3, <2>4, <2>6, ContinueKeeps
  <1>11. CASE SendSucceeds(w)
    BY <1>11, SendsKeep
  <1>12. CASE SendFails(w)
    BY <1>12, SendsKeep
  <1> QED
    BY <1>4, <1>5, <1>6, <1>7, <1>8, <1>9, <1>10, <1>11, <1>12, <1>13 DEF NotifWorker

LEMMA DeliveryInvNext == DeliveryInv /\ [DeliveryNext]_deliveryVars => DeliveryInv'
  <1> SUFFICES ASSUME DeliveryInv, [DeliveryNext]_deliveryVars PROVE DeliveryInv'
    OBVIOUS
  <1>1. CASE \E a \in Alerts : SendNotifications(a)
    BY <1>1, QueueSteps
  <1>2. CASE \E w \in NotifWorkers : NotifWorker(w)
    BY <1>2, WorkerSteps
  <1>3. CASE StopDelivery
    <2>1. UNCHANGED <<notifQueue, offered, notifWorker, enabled, history, received, unanswered, deliveryErrors>>
          /\ notifStopped' \in BOOLEAN
      BY <1>3 DEF StopDelivery
    <2> QED
      BY <2>1 DEF DeliveryInv, DeliveryTypeOK, AlertInOnePlace, SentByWorkers, SentBehind, Holds, Trying,
                  NothingSent, RepeatedOnlyUnanswered
  <1>4. CASE UNCHANGED deliveryVars
    BY <1>4 DEF deliveryVars, DeliveryInv, DeliveryTypeOK, AlertInOnePlace, SentByWorkers, SentBehind, Holds,
                Trying, NothingSent, RepeatedOnlyUnanswered
  <1> QED
    BY <1>1, <1>2, <1>3, <1>4 DEF DeliveryNext

\* For any queue, number of workers, channels and retries, with sends that fail
\* although the message arrives, channels unreadable, records lost, and the engine
\* stopped and alerts offered at any time: a channel on record as notified has got
\* the alert, and where one got it twice, some Send failed although the message
\* had arrived (deliverNotifications, Notifier.Send).
THEOREM RepeatedOnlyUnansweredAlways == DeliverySpec => [](DeliveryTypeOK /\ RepeatedOnlyUnanswered)
  <1>1. DeliveryInv => DeliveryTypeOK /\ RepeatedOnlyUnanswered
    BY DEF DeliveryInv
  <1> QED
    BY <1>1, DeliveryInvInit, DeliveryInvNext, PTL DEF DeliverySpec

-----------------------------------------------------------------------------
(***************************************************************************)
(* Conditions.                                                             *)
(***************************************************************************)
\* A baseline has at most as many samples as there are metrics; what a query
\* found is as old as the query, an entry of the cache is stamped later by at
\* most the time a query takes.
BaselinesTimed ==
    /\ baseline.n \in 0..MaxSamples /\ baseline.at \in Nat /\ baseline.readAt \in Nat
    /\ baseline.at <= conditionClock /\ baseline.at - baseline.readAt <= RefreshTime
    /\ refresh.found.n \in 0..MaxSamples /\ refresh.found.at \in Nat
    /\ refresh.found.at <= conditionClock
    /\ refresh.pc = "read" => /\ refresh.found.readAt = refresh.found.at
                              /\ conditionClock - refresh.found.at <= RefreshTime

\* A verdict is what the conditions say of its metric and its baseline.
VerdictSays ==
    verdict.done => /\ verdict.metric \in MetricsOfDevice
                    /\ verdict.fired = Triggered(rule, verdict.metric, verdict.used)

\* The inductive invariant of Conditions.
ConditionsInv ==
    /\ ConditionsSafe
    /\ VerdictSays
    /\ window \in Seq(SampleValues \cup {NoValue})
    /\ {"n", "at", "readAt"} \subseteq DOMAIN refresh.found
    /\ BaselinesTimed

\* The constants of Conditions.
LEMMA ConditionConstants ==
    /\ BaselineTTL \in Nat /\ RefreshTime \in Nat /\ MaxSamples \in Nat /\ MaxConditionClock \in Nat
    /\ MinBaselineSamples \in Nat /\ MinBaselineSamples > 0
  BY ConditionBounds

\* A value seen k times among n lies within Sqrt((n - k) / k) deviations.
LEMMA UsualWithin ==
    ASSUME NEW b, b.n \in Nat, NEW x \in Int, NEW h \in Int, NEW k \in Nat, k <= b.n, NEW y \in Int,
           b.sum = k * x + (b.n - k) * y, b.squares = k * x * x + (b.n - k) * y * y,
           Deviates(b, x, h)
    PROVE  h * h * k < 4 * (b.n - k)
<1>1. PICK n \in Nat : n = b.n
  OBVIOUS
<1>2. PICK s \in Int : s = b.sum
  BY <1>1
<1>3. PICK q \in Int : q = b.squares
  BY <1>1
<1> DEFINE a == n - k
           d == x - y
<1>4. a \in Nat /\ d \in Int
  BY <1>1
<1>5. n * x - s = a * d
  BY <1>1, <1>2
<1>6. n * q - s * s = k * a * (d * d)
  BY <1>1, <1>2, <1>3
<1>7. 4 * (n * x - s) * (n * x - s) > h * h * (n * q - s * s)
  BY <1>1, <1>2, <1>3 DEF Deviates
<1>8. PICK e \in Nat : e = d * d
  BY <1>4
<1>9. 4 * (a * a * e) > h * h * (k * a * e)
  <2>1. (a * d) * (a * d) = a * a * e
    BY <1>4, <1>8
  <2>2. 4 * (a * d) * (a * d) > h * h * (k * a * (d * d))
    BY <1>5, <1>6, <1>7
  <2> QED
    BY <2>1, <2>2, <1>4, <1>8
<1>10. (a * e) * (4 * a - h * h * k) > 0
  BY <1>9, <1>4, <1>8
<1>11. a * e \in Nat /\ 4 * a - h * h * k \in Int
  BY <1>4, <1>8
<1>12. 4 * a - h * h * k > 0
  BY <1>10, <1>11
<1> QED
  BY <1>1, <1>12, <1>4

\* Which conditions a rule that fires meets.
LEMMA FiredMeets ==
    ASSUME NEW r, NEW m, NEW b, Triggered(r, m, b)
    PROVE  /\ r.logic = "all" => \A c \in r.conds : EvaluateCondition(c, m, b)
           /\ r.conds # {} => \E c \in r.conds : EvaluateCondition(c, m, b)
  BY DEF Triggered

\* An anomaly condition holds when EvaluateAnomaly says so.
LEMMA AnomalyMeans ==
    ASSUME NEW c, c.type = "anomaly", NEW m, NEW b, EvaluateCondition(c, m, b)
    PROVE  EvaluateAnomaly(c, m, b)
  BY DEF EvaluateCondition

\* No other kind of condition looks at the baseline, and none but these two at
\* the age of the metric.
LEMMA OthersIgnoreBaseline ==
    ASSUME NEW r \in AlertRules, NEW m \in MetricsOfDevice, NEW b, NEW later \in {0, 3},
           \A c \in r.conds : c.type \notin {"anomaly", "absence"}
    PROVE  Triggered(r, m, b) = Test(r, [m EXCEPT !.age = @ + later])
<1> DEFINE stored == [m EXCEPT !.age = @ + later]
<1>1. stored.value = m.value /\ stored.status = m.status /\ stored.ports = m.ports
  BY DEF MetricsOfDevice
<1> HIDE DEF stored
<1>2. ASSUME NEW c \in r.conds
      PROVE  EvaluateCondition(c, m, b) = EvaluateCondition(c, stored, NoBaseline)
  <2>1. c.type \in {"threshold", "status", "ports"}
    BY ConditionBounds
  <2>2. CASE c.type = "threshold"
    BY <1>1, <2>2 DEF EvaluateCondition, EvaluateThreshold
  <2>3. CASE c.type = "status"
    BY <1>1, <2>3 DEF EvaluateCondition, EvaluateStatus
  <2>4. CASE c.type = "ports"
    BY <1>1, <2>4 DEF EvaluateCondition, EvaluatePorts
  <2> QED
    BY <2>1, <2>2, <2>3, <2>4
<1>3. Triggered(r, m, b) = IF r.logic = "all" THEN \A c \in r.conds : EvaluateCondition(c, m, b)
                                              ELSE \E c \in r.conds : EvaluateCondition(c, m, b)
  BY DEF Triggered
<1>4. Test(r, stored) = IF r.logic = "all" THEN \A c \in r.conds : EvaluateCondition(c, stored, NoBaseline)
                                           ELSE \E c \in r.conds : EvaluateCondition(c, stored, NoBaseline)
  BY DEF Test
<1>5. Triggered(r, m, b) = Test(r, stored)
  BY <1>2, <1>3, <1>4
<1> QED
  BY <1>5 DEF stored

\* A count of samples is at most the length of the window.
LEMMA SampleCount ==
    ASSUME NEW values \in Seq(SampleValues \cup {NoValue})
    PROVE  Cardinality({i \in DOMAIN values : values[i] # NoValue}) \in 0..Len(values)
<1>1. IsFiniteSet(1..Len(values)) /\ Cardinality(1..Len(values)) = Len(values)
  <2>1. Len(values) \in Nat
    OBVIOUS
  <2>2. Len(values) >= 1 \/ 1..Len(values) = {}
    BY <2>1
  <2> QED
    BY <2>1, <2>2, FS_Interval, FS_EmptySet
<1>2. {i \in DOMAIN values : values[i] # NoValue} \subseteq 1..Len(values)
  OBVIOUS
<1> QED
  BY <1>1, <1>2, FS_Subset, FS_CardinalityType

-----------------------------------------------------------------------------
\* It holds at the start.
LEMMA InitConditions == ConditionsInit => ConditionsInv
<1> SUFFICES ASSUME ConditionsInit PROVE ConditionsInv
  OBVIOUS
<1>1. baseline.n = 0 /\ baseline.at = 0 /\ baseline.readAt = 0
  BY DEF ConditionsInit, NoBaseline
<1>2. refresh.pc = "idle" /\ refresh.found = NoBaseline
  BY DEF ConditionsInit
<1>3. refresh.found.n = 0 /\ refresh.found.at = 0 /\ {"n", "at", "readAt"} \subseteq DOMAIN refresh.found
  BY <1>2 DEF NoBaseline
<1>4. BaselinesTimed
  BY <1>1, <1>2, <1>3, ConditionConstants DEF BaselinesTimed, ConditionsInit
<1>5. window = << >> /\ conditionClock = 0 /\ monitored = TRUE /\ rule \in AlertRules /\ verdict.done = FALSE
  BY DEF ConditionsInit, NoVerdict
<1>6. ConditionsTypeOK
  BY <1>1, <1>2, <1>5, ConditionConstants DEF ConditionsTypeOK
<1>7. AnomalyFromRecentBaseline /\ UsualIsNoAnomaly /\ DryRunAgrees /\ VerdictSays
  BY <1>5 DEF AnomalyFromRecentBaseline, UsualIsNoAnomaly, DryRunAgrees, VerdictSays
<1> QED
  BY <1>3, <1>4, <1>5, <1>6, <1>7 DEF ConditionsInv, ConditionsSafe

\* A step without a verdict: what is left to show is the rest of the invariant.
LEMMA NothingJudged ==
    ASSUME verdict' = NoVerdict
    PROVE  AnomalyFromRecentBaseline' /\ UsualIsNoAnomaly' /\ DryRunAgrees' /\ VerdictSays'
<1>1. verdict'.done = FALSE
  BY DEF NoVerdict
<1> QED
  BY <1>1 DEF AnomalyFromRecentBaseline, UsualIsNoAnomaly, DryRunAgrees, VerdictSays

\* A query finds at most as many samples as the window has.
LEMMA QueryKeeps ==
    ASSUME ConditionsInv, QueryBaselines, verdict' = NoVerdict
    PROVE  ConditionsInv'
<1> DEFINE values == IF monitored THEN window ELSE << >>
           found == GetMetricBaselines(values)
<1>1. values \in Seq(SampleValues \cup {NoValue}) /\ Len(values) \in 0..MaxSamples
  BY ConditionConstants DEF ConditionsInv, ConditionsSafe, ConditionsTypeOK
<1>2. found.n \in 0..MaxSamples
  <2>1. found.n = Cardinality({i \in DOMAIN values : values[i] # NoValue})
    BY DEF GetMetricBaselines
  <2> QED
    <3>1. Cardinality({i \in DOMAIN values : values[i] # NoValue}) \in 0..Len(values)
      BY <1>1, SampleCount
    <3> QED
      BY <1>1, <2>1, <3>1, ConditionConstants
<1>3. /\ found.at = conditionClock /\ found.readAt = conditionClock
      /\ {"n", "at", "readAt"} \subseteq DOMAIN found
  BY DEF GetMetricBaselines
<1> HIDE DEF found
<1>4. /\ refresh'.pc = "read" /\ refresh'.found = found
      /\ UNCHANGED <<rule, window, monitored, baseline, conditionClock>>
  BY DEF QueryBaselines, found
<1>5. BaselinesTimed'
  BY <1>2, <1>3, <1>4, ConditionConstants DEF BaselinesTimed, ConditionsInv, ConditionsSafe, ConditionsTypeOK
<1>6. ConditionsTypeOK'
  BY <1>4 DEF ConditionsTypeOK, ConditionsInv, ConditionsSafe
<1> QED
  BY <1>3, <1>4, <1>5, <1>6, NothingJudged DEF ConditionsInv, ConditionsSafe

\* What is cached was found by a query that took at most RefreshTime.
LEMMA RefreshKeeps ==
    ASSUME ConditionsInv, RefreshBaselines, verdict' = NoVerdict
    PROVE  ConditionsInv'
<1>1. /\ refresh.pc = "read" /\ refresh'.pc = "idle" /\ refresh'.found = NoBaseline
      /\ UNCHANGED <<rule, window, monitored, conditionClock>>
  BY DEF RefreshBaselines
<1>2. conditionClock \in Nat /\ BaselinesTimed
  BY ConditionConstants DEF ConditionsInv, ConditionsSafe, ConditionsTypeOK
<1>3. NoBaseline.n = 0 /\ NoBaseline.at = 0 /\ NoBaseline.readAt = 0 /\ {"n", "at", "readAt"} \subseteq DOMAIN NoBaseline
  BY DEF NoBaseline
<1>4. PICK stamped : stamped = [refresh.found EXCEPT !.at = conditionClock]
  OBVIOUS
<1>5. stamped.n = refresh.found.n /\ stamped.at = conditionClock /\ stamped.readAt = refresh.found.readAt
  BY <1>4 DEF ConditionsInv
<1>6. baseline' \in {NoBaseline, stamped, baseline}
  BY <1>4 DEF RefreshBaselines
<1>7. /\ baseline'.n \in 0..MaxSamples /\ baseline'.at \in Nat /\ baseline'.readAt \in Nat
      /\ baseline'.at <= conditionClock /\ baseline'.at - baseline'.readAt <= RefreshTime
  <2>1. CASE baseline' = NoBaseline
    BY <1>2, <1>3, <2>1, ConditionConstants
  <2>2. CASE baseline' = stamped
    BY <1>1, <1>2, <1>5, <2>2, ConditionConstants DEF BaselinesTimed
  <2>3. CASE baseline' = baseline
    BY <1>2, <2>3 DEF BaselinesTimed
  <2> QED
    BY <1>6, <2>1, <2>2, <2>3
<1>8. BaselinesTimed'
  BY <1>1, <1>2, <1>3, <1>7, ConditionConstants DEF BaselinesTimed
<1>9. ConditionsTypeOK'
  BY <1>1, <1>7 DEF ConditionsTypeOK, ConditionsInv, ConditionsSafe
<1> QED
  BY <1>1, <1>3, <1>8, <1>9, NothingJudged DEF ConditionsInv, ConditionsSafe

\* The window, the device and the clock move.
LEMMA OthersKeep ==
    ASSUME ConditionsInv, LeaveWindow \/ DisableDevice \/ ConditionTick, verdict' = NoVerdict
    PROVE  ConditionsInv'
<1>1. UNCHANGED <<rule, baseline, refresh>> /\ monitored' \in BOOLEAN
  BY DEF LeaveWindow, DisableDevice, ConditionTick, ConditionsInv, ConditionsSafe, ConditionsTypeOK
<1>2. window' \in Seq(SampleValues \cup {NoValue}) /\ Len(window') <= MaxSamples
  BY ConditionConstants DEF LeaveWindow, DisableDevice, ConditionTick, ConditionsInv, ConditionsSafe, ConditionsTypeOK
<1>3. /\ conditionClock \in 0..MaxConditionClock /\ conditionClock' \in 0..MaxConditionClock
      /\ conditionClock' >= conditionClock
      /\ refresh.pc = "read" /\ conditionClock' # conditionClock =>
             conditionClock' = conditionClock + 1 /\ conditionClock - refresh.found.at < RefreshTime
  BY ConditionConstants DEF LeaveWindow, DisableDevice, ConditionTick, ConditionsInv, ConditionsSafe, ConditionsTypeOK
<1>4. BaselinesTimed'
  BY <1>1, <1>3, ConditionConstants DEF BaselinesTimed, ConditionsInv
<1>5. ConditionsTypeOK'
  BY <1>1, <1>2, <1>3 DEF ConditionsTypeOK, ConditionsInv, ConditionsSafe
<1> QED
  BY <1>1, <1>2, <1>4, <1>5, NothingJudged DEF ConditionsInv, ConditionsSafe

\* A verdict is what the conditions say of the metric and of the baseline.
LEMMA EvaluateKeeps ==
    ASSUME ConditionsInv, NEW m \in MetricsOfDevice, EvaluateRule(m)
    PROVE  ConditionsInv'
<1> DEFINE b == GetBaseline
<1>1. /\ refresh.pc = "idle" /\ Len(window) < MaxSamples /\ window' = Append(window, m.value)
      /\ UNCHANGED <<rule, monitored, baseline, refresh, conditionClock>>
  BY DEF EvaluateRule
<1>2. /\ verdict'.done /\ verdict'.metric = m /\ verdict'.used = b /\ verdict'.at = conditionClock
      /\ verdict'.fired = Triggered(rule, m, b) /\ verdict'.tested = FALSE
  BY DEF EvaluateRule
<1>3. m.value \in SampleValues \cup {NoValue} /\ m.value \in Int
  <2>1. m.value \in SampleValues \cup {NoValue}
    BY DEF MetricsOfDevice
  <2>2. SampleValues \subseteq Nat
    BY ConditionBounds
  <2>3. NoValue \in Int
    BY DEF NoValue
  <2>4. \A v \in SampleValues \cup {NoValue} : v \in Int
    BY <2>2, <2>3, Nat \subseteq Int
  <2> QED
    BY <2>1, <2>4
<1>4. /\ b.n \in 0..MaxSamples /\ b.readAt \in Nat
      /\ b.n > 0 => conditionClock - b.readAt <= BaselineTTL + RefreshTime
  <2>1. CASE b = NoBaseline
    BY <2>1, ConditionConstants DEF NoBaseline
  <2>2. CASE b = baseline /\ ~(conditionClock - baseline.at > BaselineTTL)
    <3>1. /\ baseline.n \in 0..MaxSamples /\ baseline.at \in Nat /\ baseline.readAt \in Nat
          /\ baseline.at - baseline.readAt <= RefreshTime /\ conditionClock \in Nat
      BY ConditionConstants DEF ConditionsInv, ConditionsSafe, ConditionsTypeOK, BaselinesTimed
    <3> QED
      BY <2>2, <3>1, ConditionConstants
  <2> QED
    BY <2>1, <2>2 DEF GetBaseline
<1> HIDE DEF b
<1>5. rule \in AlertRules /\ Anomalies' = Anomalies
  BY <1>1 DEF Anomalies, ConditionsInv, ConditionsSafe, ConditionsTypeOK
<1>6. AnomalyFromRecentBaseline'
  <2> SUFFICES ASSUME Triggered(rule, m, b), rule.conds = Anomalies, Anomalies # {}
               PROVE  b.n >= MinBaselineSamples /\ conditionClock - b.readAt <= BaselineTTL + RefreshTime
    BY <1>1, <1>2, <1>5 DEF AnomalyFromRecentBaseline
  <2>1. PICK c \in rule.conds : EvaluateCondition(c, m, b)
    BY FiredMeets
  <2>2. c.type = "anomaly"
    BY <2>1 DEF Anomalies
  <2>3. b.n >= MinBaselineSamples
    BY <2>1, <2>2, AnomalyMeans DEF EvaluateAnomaly
  <2> QED
    BY <2>3, <1>4, ConditionConstants
<1>7. UsualIsNoAnomaly'
  <2> SUFFICES ASSUME Triggered(rule, m, b), rule.conds = Anomalies,
                      NEW c \in Anomalies, NEW k \in Occurrences(b, m.value), k > 0, rule.logic = "all"
               PROVE  Halves(c) * Halves(c) * k < 4 * (b.n - k)
    BY <1>1, <1>2, <1>5 DEF UsualIsNoAnomaly, Occurrences
  <2>1. c \in rule.conds /\ c.type = "anomaly" /\ c.value \in Int
    BY <1>5, ConditionBounds DEF Anomalies
  <2>2. EvaluateAnomaly(c, m, b)
    BY <2>1, FiredMeets, AnomalyMeans
  <2>3. Deviates(b, m.value, Halves(c))
    BY <2>2 DEF EvaluateAnomaly
  <2>4. PICK y \in SampleValues :
           b.sum = k * m.value + (b.n - k) * y /\ b.squares = k * m.value * m.value + (b.n - k) * y * y
    BY DEF Occurrences
  <2>5. k \in 0..b.n /\ b.n \in Nat /\ k \in Nat /\ k <= b.n /\ y \in Int /\ Halves(c) \in Int
    BY <1>4, <2>1, ConditionBounds DEF Occurrences, Halves
  <2> QED
    BY <1>3, <2>3, <2>4, <2>5, UsualWithin
<1>8. DryRunAgrees' /\ VerdictSays'
  BY <1>1, <1>2 DEF DryRunAgrees, VerdictSays
<1>9. window' \in Seq(SampleValues \cup {NoValue}) /\ Len(window') <= MaxSamples
  BY <1>1, <1>3, ConditionConstants DEF ConditionsInv
<1>10. ConditionsTypeOK'
  BY <1>1, <1>9 DEF ConditionsTypeOK, ConditionsInv, ConditionsSafe
<1>11. BaselinesTimed'
  BY <1>1 DEF BaselinesTimed, ConditionsInv
<1> QED
  BY <1>1, <1>6, <1>7, <1>8, <1>9, <1>10, <1>11 DEF ConditionsInv, ConditionsSafe

\* The dry run of the metric just evaluated.
LEMMA DryRunKeeps ==
    ASSUME ConditionsInv, NEW later \in {0, 3}, DryRun(later)
    PROVE  ConditionsInv'
<1> DEFINE stored == [verdict.metric EXCEPT !.age = @ + later]
<1>1. /\ verdict.done /\ UNCHANGED <<rule, window, monitored, baseline, refresh, conditionClock>>
      /\ verdict'.done = TRUE /\ verdict'.metric = verdict.metric /\ verdict'.used = verdict.used
      /\ verdict'.at = verdict.at /\ verdict'.fired = verdict.fired
      /\ verdict'.matched = Test(rule, stored)
  BY DEF DryRun
<1> HIDE DEF stored
<1>2. /\ verdict.metric \in MetricsOfDevice /\ verdict.fired = Triggered(rule, verdict.metric, verdict.used)
      /\ AnomalyFromRecentBaseline /\ UsualIsNoAnomaly /\ rule \in AlertRules
  BY <1>1 DEF ConditionsInv, VerdictSays, ConditionsSafe, ConditionsTypeOK
<1>3. Anomalies' = Anomalies /\ Timed' = Timed
  BY <1>1 DEF Anomalies, Timed
<1>4. VerdictSays'
  BY <1>1, <1>2 DEF VerdictSays
<1>5. AnomalyFromRecentBaseline'
  BY <1>1, <1>2, <1>3 DEF AnomalyFromRecentBaseline
<1>6. UsualIsNoAnomaly'
  BY <1>1, <1>2, <1>3 DEF UsualIsNoAnomaly, Occurrences
<1>7. DryRunAgrees'
  <2> SUFFICES ASSUME Timed = {} PROVE Test(rule, stored) = Triggered(rule, verdict.metric, verdict.used)
    BY <1>1, <1>2, <1>3 DEF DryRunAgrees
  <2>1. \A c \in rule.conds : c.type \notin {"anomaly", "absence"}
    BY DEF Timed
  <2> QED
    BY <1>2, <2>1, OthersIgnoreBaseline DEF stored
<1>8. ConditionsTypeOK' /\ BaselinesTimed'
  BY <1>1 DEF ConditionsTypeOK, BaselinesTimed, ConditionsInv, ConditionsSafe
<1> QED
  BY <1>1, <1>4, <1>5, <1>6, <1>7, <1>8 DEF ConditionsInv, ConditionsSafe

\* An anomaly is judged by a recent and sufficient baseline and is never what is
\* usual, and where neither baselines nor ages matter the dry run agrees with
\* the evaluation (engine/alert_conditions.go, engine/baseline.go,
\* handlers/alert_rules.go).
THEOREM ConditionsSafeAlways == ConditionsSpec => []ConditionsSafe
<1>1. ConditionsInv /\ [ConditionsNext]_conditionVars => ConditionsInv'
  <2> SUFFICES ASSUME ConditionsInv, [ConditionsNext]_conditionVars PROVE ConditionsInv'
    OBVIOUS
  <2>1. CASE QueryBaselines /\ verdict' = NoVerdict
    BY <2>1, QueryKeeps
  <2>2. CASE RefreshBaselines /\ verdict' = NoVerdict
    BY <2>2, RefreshKeeps
  <2>3. CASE (LeaveWindow \/ DisableDevice \/ ConditionTick) /\ verdict' = NoVerdict
    BY <2>3, OthersKeep
  <2>4. CASE \E m \in MetricsOfDevice : EvaluateRule(m)
    BY <2>4, EvaluateKeeps
  <2>6. CASE \E later \in {0, 3} : DryRun(later)
    BY <2>6, DryRunKeeps
  <2>5. CASE UNCHANGED conditionVars
    BY <2>5 DEF conditionVars, ConditionsInv, ConditionsSafe, ConditionsTypeOK, BaselinesTimed,
                AnomalyFromRecentBaseline, UsualIsNoAnomaly, DryRunAgrees, Anomalies, Timed, Occurrences,
                VerdictSays
  <2> QED
    BY <2>1, <2>2, <2>3, <2>4, <2>5, <2>6 DEF ConditionsNext
<1>2. ConditionsInv => ConditionsSafe
  BY DEF ConditionsInv
<1> QED
  BY <1>1, <1>2, InitConditions, PTL DEF ConditionsSpec
=============================================================================
