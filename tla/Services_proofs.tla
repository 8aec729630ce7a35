---------------------------- MODULE Services_proofs ----------------------------
(* Theorems about components that meet only in the database or in files, for  *)
(* every value of their constants: the trust workflow, the benign field       *)
(* study, the external source, the anomaly detector, accounts, live           *)
(* ingestion and the live view.                                               *)
EXTENDS TrustWorkflow, FieldStudy, ExternalSource, AnomalyDetector, Accounts, LiveIngestion,
        LiveView, SequenceTheorems, FiniteSetTheorems, TLAPS

(***************************************************************************)
(* The trust workflow: every action and every assessment is audited once,  *)
(* for every set of operators, ids, contents and evidence.                 *)
(***************************************************************************)
Bag(b) == b \in [DOMAIN b -> Nat]

\* A record that is added to a bag is there once more, and no other is.
Plus(b, x) == b (+) SetToBag({x})

LEMMA AddedCopies ==
    ASSUME NEW b, Bag(b), NEW x
    PROVE  /\ Bag(Plus(b, x)) /\ DOMAIN Plus(b, x) = DOMAIN b \cup {x}
           /\ x \notin DOMAIN b => Plus(b, x)[x] = 1
           /\ \A e \in DOMAIN b : e # x => Plus(b, x)[e] = b[e]
<1>. DEFINE s == SetToBag({x})
            c == Plus(b, x)
<1>1. DOMAIN s = {x} /\ s[x] = 1
  BY DEF SetToBag
<1>2. c = b (+) s
  BY DEF Plus
<1>. HIDE DEF s, c
<1>3. DOMAIN c = DOMAIN b \cup {x}
  BY <1>2, <1>1 DEF (+)
<1>4. \A e \in DOMAIN c : c[e] = (IF e \in DOMAIN b THEN b[e] ELSE 0) + (IF e = x THEN 1 ELSE 0)
  BY <1>2, <1>1 DEF (+)
<1>5. \A e \in DOMAIN b : b[e] \in Nat
  BY DEF Bag
<1>6. \A e \in DOMAIN c : c[e] \in Nat
  BY <1>3, <1>4, <1>5
<1>7. c = [e \in DOMAIN c |-> c[e]]
  BY <1>2 DEF (+)
<1>8. Bag(c)
  BY <1>6, <1>7 DEF Bag
<1>9. x \notin DOMAIN b => c[x] = 1
  BY <1>3, <1>4
<1>10. \A e \in DOMAIN b : e # x => c[e] = b[e]
  BY <1>3, <1>4, <1>5
<1>. QED BY <1>3, <1>8, <1>9, <1>10 DEF c

OnceIn(what, b) == what \in DOMAIN b /\ b[what] = 1
InsertedAction(a) == [event |-> "action", of |-> a, inserted |-> TRUE]
InsertedRow(item) == [event |-> "assessment", of |-> item, inserted |-> TRUE]

\* Beside the property: the audits are a bag, and what they record was inserted.
AuditInv ==
    /\ Bag(audits) /\ DOMAIN request = Operators
    /\ \A a : InsertedAction(a) \in DOMAIN audits => a \in actions
    /\ \A item : InsertedRow(item) \in DOMAIN audits => item \in assessments
    /\ ActionsAreRecordedOnce

\* It holds at the start, and every step keeps it.
LEMMA AuditInit == TrustInit => AuditInv
<1>. SUFFICES ASSUME TrustInit
              PROVE  AuditInv
  OBVIOUS
<1>1. audits = [e \in {} |-> 1]
  BY DEF TrustInit, EmptyBag, SetToBag
<1>2. DOMAIN audits = {} /\ Bag(audits)
  BY <1>1 DEF Bag
<1>3. actions = {} /\ assessments = {} /\ confirmed = {} /\ DOMAIN request = Operators
  BY DEF TrustInit
<1>. QED BY <1>2, <1>3 DEF AuditInv, ActionsAreRecordedOnce, AuditedOnce, BagIn, BagToSet

\* The records of an insertion differ in what they are about.
LEMMA RecordsDiffer ==
    /\ \A a, item : InsertedAction(a) # InsertedRow(item)
    /\ \A a, b : InsertedAction(a) = InsertedAction(b) => a = b
    /\ \A r, q : InsertedRow(r) = InsertedRow(q) => r = q
BY DEF InsertedAction, InsertedRow

\* A request is confirmed only with its action in the table.
LEMMA ConfirmKeeps ==
    ASSUME NEW o \in Operators, confirmed \subseteq actions, DOMAIN request = Operators,
           Wanted(o) \in actions', actions \subseteq actions', Confirm(o) \/ Refuse(o)
    PROVE  confirmed' \subseteq actions' /\ DOMAIN request' = Operators
BY DEF Confirm, Refuse, Becomes

LEMMA AuditStep == AuditInv /\ [TrustNext]_trustVars => AuditInv'
<1>. SUFFICES ASSUME AuditInv, [TrustNext]_trustVars
              PROVE  AuditInv'
  OBVIOUS
<1>1. /\ Bag(audits) /\ DOMAIN request = Operators /\ confirmed \subseteq actions
      /\ \A a : InsertedAction(a) \in DOMAIN audits => a \in actions
      /\ \A item : InsertedRow(item) \in DOMAIN audits => item \in assessments
      /\ \A a, b \in actions : a.id = b.id => a = b
      /\ \A a \in actions : OnceIn(InsertedAction(a), audits)
      /\ \A item \in assessments : OnceIn(InsertedRow(item), audits)
  BY DEF AuditInv, ActionsAreRecordedOnce, InsertedAction, InsertedRow,
           AuditedOnce, BagIn, BagToSet, OnceIn
<1>2. ASSUME confirmed' \subseteq actions', DOMAIN request' = Operators,
             UNCHANGED <<audits, actions, assessments>>
      PROVE  AuditInv'
  BY <1>2 DEF AuditInv, ActionsAreRecordedOnce, AuditedOnce, BagIn, BagToSet
<1>3. ASSUME NEW o \in Operators, FinishAssessment(o)
      PROVE  AuditInv'
  <2>1. PICK read \in assessing[o] :
            LET item == AssessmentRow(Assembled(read)) IN
            /\ assessments' = assessments \cup {item}
            /\ Audited([event |-> "assessment", of |-> item, inserted |-> item \notin assessments])
    BY <1>3 DEF FinishAssessment
  <2>. DEFINE item == AssessmentRow(Assembled(read))
              rec == [event |-> "assessment", of |-> item, inserted |-> item \notin assessments]
  <2>2. assessments' = assessments \cup {item} /\ audits' = audits (+) SetToBag({rec})
    BY <2>1 DEF Audited
  <2>. HIDE DEF item
  <2>3. /\ \A a : InsertedAction(a) # rec
        /\ \A r : InsertedRow(r) = rec => r = item /\ item \notin assessments
        /\ item \notin assessments => rec = InsertedRow(item)
    BY DEF InsertedAction, InsertedRow
  <2>. HIDE DEF rec
  <2>4. /\ Bag(audits') /\ DOMAIN audits' = DOMAIN audits \cup {rec}
        /\ rec \notin DOMAIN audits => audits'[rec] = 1
        /\ \A e \in DOMAIN audits : e # rec => audits'[e] = audits[e]
    <3>1. Bag(audits) /\ audits' = Plus(audits, rec)
      BY <1>1, <2>2 DEF Plus
    <3>. QED BY <3>1, AddedCopies
  <2>5. UNCHANGED <<actions, request, confirmed>>
    BY <1>3 DEF FinishAssessment
  <2>6. \A a \in actions' : OnceIn(InsertedAction(a), audits')
    BY <1>1, <2>3, <2>4, <2>5 DEF OnceIn
  <2>7. ASSUME NEW r \in assessments'
        PROVE  OnceIn(InsertedRow(r), audits')
    <3>1. CASE r \in assessments
      <4>1. InsertedRow(r) # rec
        BY <2>3, <3>1
      <4>. QED BY <1>1, <2>4, <3>1, <4>1 DEF OnceIn
    <3>2. CASE r \notin assessments
      <4>1. r = item /\ InsertedRow(r) = rec
        BY <2>2, <2>3, <3>2
      <4>2. rec \notin DOMAIN audits
        BY <1>1, <3>2, <4>1
      <4>. QED BY <2>4, <4>1, <4>2 DEF OnceIn
    <3>. QED BY <3>1, <3>2
  <2>8. /\ \A a : InsertedAction(a) \in DOMAIN audits' => a \in actions'
        /\ \A r : InsertedRow(r) \in DOMAIN audits' => r \in assessments'
    BY <1>1, <2>2, <2>3, <2>4, <2>5
  <2>. QED BY <1>1, <2>4, <2>5, <2>6, <2>7, <2>8
       DEF AuditInv, ActionsAreRecordedOnce, InsertedAction, InsertedRow,
           AuditedOnce, BagIn, BagToSet, OnceIn
<1>4. ASSUME NEW o \in Operators, CheckAction(o) \/ AfterConflict(o)
      PROVE  AuditInv'
  <2>1. UNCHANGED <<audits, actions, assessments>>
    BY <1>4 DEF CheckAction, AfterConflict
  <2>2. CASE UNCHANGED confirmed /\ DOMAIN request' = DOMAIN request
    BY <1>1, <1>2, <2>1, <2>2
  <2>3. CASE Stored(request[o].id) = {Wanted(o)} /\ Confirm(o)
    <3>1. Wanted(o) \in actions
      BY <2>3 DEF Stored
    <3>. QED BY <1>1, <1>2, <2>1, <2>3, <3>1, ConfirmKeeps
  <2>. QED BY <1>4, <2>2, <2>3 DEF CheckAction, AfterConflict, Refuse, Becomes
<1>5. ASSUME NEW o \in Operators, InsertAction(o)
      PROVE  AuditInv'
  <2>. DEFINE item == Wanted(o)
              rec == InsertedAction(item)
  <2>1. item.id = request[o].id /\ assessments' = assessments
    BY <1>5 DEF Wanted, InsertAction
  <2>2. CASE Stored(request[o].id) # {}
    <3>1. /\ UNCHANGED <<audits, actions, assessments, confirmed>>
          /\ DOMAIN request' = DOMAIN request
      BY <1>5, <2>1, <2>2 DEF InsertAction, WithAction, Becomes
    <3>. QED BY <1>1, <1>2, <3>1
  <2>3. CASE Stored(request[o].id) = {}
    <3>1. /\ actions' = actions \cup {item} /\ audits' = audits (+) SetToBag({rec})
          /\ Confirm(o)
      BY <1>5, <2>1, <2>3 DEF InsertAction, WithAction, Audited, InsertedAction
    <3>2. \A a \in actions : a.id # item.id
      BY <2>1, <2>3 DEF Stored
    <3>3. confirmed' \subseteq actions' /\ DOMAIN request' = Operators
      BY <1>1, <3>1, ConfirmKeeps
    <3>. HIDE DEF item, rec
    <3>4. /\ Bag(audits') /\ DOMAIN audits' = DOMAIN audits \cup {rec}
          /\ rec \notin DOMAIN audits => audits'[rec] = 1
          /\ \A e \in DOMAIN audits : e # rec => audits'[e] = audits[e]
      <4>1. Bag(audits) /\ audits' = Plus(audits, rec)
        BY <1>1, <3>1 DEF Plus
      <4>. QED BY <4>1, AddedCopies
    <3>5. item \notin actions
      BY <3>2
    <3>6. /\ \A r : InsertedRow(r) # rec
          /\ \A a : InsertedAction(a) = rec => a = item
      BY RecordsDiffer, Zenon DEF rec
    <3>7. ASSUME NEW a \in actions'
          PROVE  OnceIn(InsertedAction(a), audits')
      <4>1. CASE a \in actions
        <5>1. InsertedAction(a) # rec
          BY <3>5, <3>6, <4>1
        <5>. QED BY <1>1, <3>4, <4>1, <5>1 DEF OnceIn
      <4>2. CASE a \notin actions
        <5>1. a = item /\ InsertedAction(a) = rec
          BY <3>1, <4>2 DEF rec
        <5>2. rec \notin DOMAIN audits
          BY <1>1, <4>2, <5>1
        <5>. QED BY <3>4, <5>1, <5>2 DEF OnceIn
      <4>. QED BY <4>1, <4>2
    <3>8. \A r \in assessments' : OnceIn(InsertedRow(r), audits')
      BY <1>1, <2>1, <3>4, <3>6 DEF OnceIn
    <3>9. /\ \A a : InsertedAction(a) \in DOMAIN audits' => a \in actions'
          /\ \A r : InsertedRow(r) \in DOMAIN audits' => r \in assessments'
      BY <1>1, <2>1, <3>1, <3>4, <3>6
    <3>10. \A a, b \in actions' : a.id = b.id => a = b
      BY <1>1, <3>1, <3>2
    <3>. QED BY <3>3, <3>4, <3>7, <3>8, <3>9, <3>10
         DEF AuditInv, ActionsAreRecordedOnce, InsertedAction, InsertedRow,
           AuditedOnce, BagIn, BagToSet, OnceIn
  <2>. QED BY <2>2, <2>3
<1>6. CASE EvidenceChanges \/ UNCHANGED trustVars
  BY <1>1, <1>2, <1>6 DEF EvidenceChanges, trustVars
<1>7. ASSUME NEW o \in Operators, BeginAssessment(o)
      PROVE  AuditInv'
  BY <1>1, <1>2, <1>7 DEF BeginAssessment
<1>8. ASSUME NEW o \in Operators, NEW id \in ActionIds, NEW item \in assessments,
             NEW c \in Contents, WantAction(o, id, item, c)
      PROVE  AuditInv'
  BY <1>1, <1>2, <1>8 DEF WantAction
<1>. QED
  BY <1>3, <1>4, <1>5, <1>6, <1>7, <1>8 DEF TrustNext

\* Whoever was told that an action is recorded finds it, an id is one action, and
\* every action and every assessment was audited once when it was inserted, in
\* every crossing and repetition of requests (trust_persistence.py, trust.py).
THEOREM ActionsCorrect == TrustSpec => []ActionsAreRecordedOnce
<1>1. AuditInv => ActionsAreRecordedOnce
  BY DEF AuditInv
<1>. QED BY <1>1, AuditInit, AuditStep, PTL DEF TrustSpec

(***************************************************************************)
(* The field study: what an entry of any copy of the manifest says of its  *)
(* file stays true, because a file has one writer (O_EXCL) and the entry   *)
(* is made after the last line.                                            *)
(***************************************************************************)
IsEntry(e) == e = [file |-> e.file, sum |-> e.sum, state |-> e.state, usable |-> e.usable]
IsManifest(m) == m = [entries |-> m.entries, viewed |-> m.viewed]

\* The file holds what the entry says, and nobody writes to it any more.
Kept(e) ==
    /\ IsEntry(e)
    /\ e.file \in DOMAIN captures /\ captures[e.file] = e.sum
    /\ \A c \in Commands : command[c].step = "capturing" => command[c].file # e.file

\* A command that was killed is forgotten; one that has opened its file is its
\* only writer and knows what the file holds.
CommandInv(c) ==
    /\ command[c].step \in {"idle", "allocated", "capturing", "ended"}
    /\ command[c].step # "idle" =>
          /\ IsManifest(command[c].loaded)
          /\ \A e \in command[c].loaded.entries : Kept(e)
    /\ command[c].step = "capturing" =>
          command[c] = [step |-> "capturing", file |-> command[c].file,
                        loaded |-> command[c].loaded, link |-> command[c].link,
                        digest |-> command[c].digest]
    /\ command[c].step \in {"capturing", "ended"} =>
          /\ command[c].file \in DOMAIN captures
          /\ captures[command[c].file] = command[c].digest
          /\ \A d \in Commands : d # c /\ command[d].step = "capturing" =>
                                     command[d].file # command[c].file

CommandsInv == DOMAIN command = Commands /\ \A c \in Commands : CommandInv(c)

ManifestInv == IsManifest(manifest) /\ \A e \in manifest.entries : Kept(e)

\* What an export, and so a report of it, rests on.
Sound(x) ==
    /\ \A e \in x.from : e.state = "COMPLETED" /\ Kept(e)
    /\ \A e, f \in x.from : e.file.day = f.file.day => e = f
    /\ HoldoutComplete(x) => \E e \in x.from : e.file.day = HoldoutDay

\* The public manifest describes this export or an earlier one; if this one,
\* it was verified.
ExportInv ==
    /\ export = [label |-> export.label, rows |-> export.rows, from |-> export.from,
                 verified |-> export.verified]
    /\ export.label \in Nat /\ public \in Nat /\ public <= export.label
    /\ public = export.label /\ public # 0 => export.verified
    /\ Sound(export)

ReportInv ==
    fieldReport.status = "PASSED" =>
        /\ Sound(fieldReport.of) /\ HoldoutComplete(fieldReport.of)
        /\ Episodes(fieldReport.of, HoldoutDay) \subseteq reviewed
        /\ fieldReport.published => fieldReport.of.verified

FieldInv == CommandsInv /\ ManifestInv /\ ExportInv /\ ReportInv

LEMMA FieldInitially == FieldInit => FieldInv
<1> SUFFICES ASSUME FieldInit PROVE FieldInv
    OBVIOUS
<1>1. CommandsInv
    BY DEF FieldInit, CommandsInv, CommandInv, Resting
<1>2. ManifestInv
    BY DEF FieldInit, ManifestInv, IsManifest
<1>3. ExportInv
    <2>1. NoExport.rows[HoldoutDay] = <<>>
        BY DEF NoExport, StudyDays
    <2> QED
        BY <2>1 DEF FieldInit, ExportInv, Sound, HoldoutComplete, NoExport
<1>4. ReportInv
    BY DEF FieldInit, ReportInv, NothingReported
<1> QED
    BY <1>1, <1>2, <1>3, <1>4 DEF FieldInv

-----------------------------------------------------------------------------
\* A command that goes on from one of its steps to the next, or is killed,
\* leaves everything that is recorded as it is.
LEMMA RecordedStays ==
    ASSUME CommandsInv, NEW c \in Commands, CommandStep(c), NEW e, Kept(e)
    PROVE  Kept(e)'
<1>1. DOMAIN command = Commands /\ CommandInv(c)
    BY DEF CommandsInv
<1>2. CASE OpensFile(c)
    <2>1. CASE UNCHANGED captures
        BY <1>1, <1>2, <2>1 DEF OpensFile, Kept, Resting, Capturing
    <2>2. CASE command[c].file \notin DOMAIN captures /\ captures' = WithFile(command[c].file)
        BY <1>1, <1>2, <2>2 DEF OpensFile, Kept, Resting, Capturing, WithFile
    <2> QED
        BY <1>2, <2>1, <2>2 DEF OpensFile
<1>3. CASE WritesLine(c)
    <2>1. PICK line \in LineStates :
            /\ captures' = [captures EXCEPT ![command[c].file] = Append(@, line)]
            /\ command' = [command EXCEPT ![c].digest = Append(@, line)]
        BY <1>3 DEF WritesLine
    <2>2. command[c].step = "capturing" /\ command[c].file # e.file
        BY <1>3 DEF WritesLine, Kept
    <2>3. command'[c].step = "capturing" /\ command'[c].file = command[c].file
        BY <1>1, <2>1, <2>2 DEF CommandInv
    <2> QED
        BY <1>1, <2>1, <2>2, <2>3 DEF Kept
<1>4. CASE ReachesSource(c) \/ LosesSource(c)
    <2>1. command'[c].step = "capturing" /\ command'[c].file = command[c].file
        BY <1>1, <1>4 DEF CommandInv, ReachesSource, LosesSource
    <2> QED
        BY <1>1, <1>4, <2>1 DEF Kept, ReachesSource, LosesSource
<1>5. CASE \E day \in StudyDays : BeginsCapture(c, day)
    BY <1>1, <1>5 DEF BeginsCapture, Kept
<1>6. CASE CaptureEnds(c)
    BY <1>1, <1>6 DEF CaptureEnds, Kept
<1>7. CASE CommandDies(c) \/ RecordsCapture(c)
    BY <1>1, <1>7 DEF CommandDies, RecordsCapture, Kept, Resting
<1> QED
    BY <1>2, <1>3, <1>4, <1>5, <1>6, <1>7 DEF CommandStep

\* What a command does to the commands beside it.
LEMMA OthersStay ==
    ASSUME CommandsInv, NEW c \in Commands, CommandStep(c), NEW d \in Commands, d # c
    PROVE  /\ command'[d] = command[d]
           /\ command[d].step \in {"capturing", "ended"} =>
                 /\ command[d].file \in DOMAIN captures'
                 /\ captures'[command[d].file] = captures[command[d].file]
                 /\ command'[c].step = "capturing" => command'[c].file # command[d].file
<1>1. DOMAIN command = Commands /\ CommandInv(c) /\ CommandInv(d)
    BY DEF CommandsInv
<1>2. CASE OpensFile(c)
    <2>1. CASE UNCHANGED captures
        BY <1>1, <1>2, <2>1 DEF OpensFile, CommandInv, Resting, Capturing
    <2>2. CASE command[c].file \notin DOMAIN captures /\ captures' = WithFile(command[c].file)
        BY <1>1, <1>2, <2>2 DEF OpensFile, CommandInv, Resting, Capturing, WithFile
    <2> QED
        BY <1>2, <2>1, <2>2 DEF OpensFile
<1>3. CASE WritesLine(c)
    <2>1. PICK line \in LineStates :
            /\ captures' = [captures EXCEPT ![command[c].file] = Append(@, line)]
            /\ command' = [command EXCEPT ![c].digest = Append(@, line)]
        BY <1>3 DEF WritesLine
    <2>2. command[c].step = "capturing"
        BY <1>3 DEF WritesLine
    <2>3. command'[c].file = command[c].file
        BY <1>1, <2>1, <2>2 DEF CommandInv
    <2> QED
        BY <1>1, <2>1, <2>2, <2>3 DEF CommandInv
<1>4. CASE ReachesSource(c) \/ LosesSource(c)
    <2>1. command[c].step = "capturing" /\ command'[c].file = command[c].file
        BY <1>1, <1>4 DEF CommandInv, ReachesSource, LosesSource
    <2> QED
        BY <1>1, <1>4, <2>1 DEF CommandInv, ReachesSource, LosesSource
<1>5. CASE \E day \in StudyDays : BeginsCapture(c, day)
    BY <1>1, <1>5 DEF BeginsCapture, CommandInv
<1>6. CASE CaptureEnds(c)
    BY <1>1, <1>6 DEF CaptureEnds, CommandInv
<1>7. CASE CommandDies(c) \/ RecordsCapture(c)
    BY <1>1, <1>7 DEF CommandDies, RecordsCapture, CommandInv, Resting
<1> QED
    BY <1>2, <1>3, <1>4, <1>5, <1>6, <1>7 DEF CommandStep

\* What a command does to itself.
LEMMA OwnStep ==
    ASSUME CommandsInv, ManifestInv, NEW c \in Commands, CommandStep(c)
    PROVE  CommandInv(c)'
<1>1. DOMAIN command = Commands /\ CommandInv(c)
    BY DEF CommandsInv
<1>2. \A e : Kept(e) => Kept(e)'
    BY RecordedStays
<1>3. \A d \in Commands : d # c =>
        /\ command'[d] = command[d]
        /\ command[d].step \in {"capturing", "ended"} =>
              /\ command[d].file \in DOMAIN captures'
              /\ command'[c].step = "capturing" => command'[c].file # command[d].file
    BY OthersStay
<1>4. CASE OpensFile(c)
    <2>1. CASE command' = [command EXCEPT ![c] = Resting]
        BY <1>1, <2>1 DEF CommandInv, Resting
    <2>2. CASE /\ command[c].file \notin DOMAIN captures /\ captures' = WithFile(command[c].file)
               /\ command' = [command EXCEPT ![c] = Capturing(c)]
        <3>1. command[c].step = "allocated"
            BY <1>4 DEF OpensFile
        <3>2. command'[c] = [step |-> "capturing", file |-> command[c].file,
                              loaded |-> command[c].loaded, link |-> "down", digest |-> <<>>]
            BY <1>1, <2>2 DEF Capturing
        <3>3. captures'[command[c].file] = <<>> /\ command[c].file \in DOMAIN captures'
            BY <2>2 DEF WithFile
        <3>4. \A e \in command[c].loaded.entries : Kept(e)'
            BY <1>1, <1>2, <3>1 DEF CommandInv
        <3> HIDE <2>2
        <3>5. IsManifest(command'[c].loaded)
            BY <1>1, <3>1, <3>2 DEF CommandInv
        <3>6. \A d \in Commands : d # c /\ command'[d].step = "capturing" =>
                                     command'[d].file # command'[c].file
            BY <1>3, <3>2
        <3> QED
            BY <3>2, <3>3, <3>4, <3>5, <3>6 DEF CommandInv, IsManifest
    <2> QED
        BY <1>4, <2>1, <2>2 DEF OpensFile
<1>5. CASE WritesLine(c)
    <2>1. PICK line \in LineStates :
            /\ captures' = [captures EXCEPT ![command[c].file] = Append(@, line)]
            /\ command' = [command EXCEPT ![c].digest = Append(@, line)]
        BY <1>5 DEF WritesLine
    <2>2. command[c].step = "capturing"
        BY <1>5 DEF WritesLine
    <2>3. command'[c] = [step |-> "capturing", file |-> command[c].file,
                          loaded |-> command[c].loaded, link |-> command[c].link,
                          digest |-> Append(command[c].digest, line)]
        BY <1>1, <2>1, <2>2 DEF CommandInv
    <2>4. /\ command[c].file \in DOMAIN captures'
          /\ captures'[command[c].file] = Append(command[c].digest, line)
        BY <1>1, <2>1, <2>2 DEF CommandInv
    <2> QED
        BY <1>1, <1>2, <1>3, <2>2, <2>3, <2>4 DEF CommandInv, IsManifest
<1>6. CASE ReachesSource(c) \/ LosesSource(c)
    <2>1. command[c].step = "capturing"
        BY <1>6 DEF ReachesSource, LosesSource
    <2>2. PICK l : command' = [command EXCEPT ![c].link = l] /\ captures' = captures
        BY <1>6 DEF ReachesSource, LosesSource
    <2>3. command'[c] = [step |-> "capturing", file |-> command[c].file,
                          loaded |-> command[c].loaded, link |-> l,
                          digest |-> command[c].digest]
        BY <1>1, <2>1, <2>2 DEF CommandInv
    <2> QED
        BY <1>1, <1>2, <1>3, <2>1, <2>2, <2>3 DEF CommandInv, IsManifest
<1>7. CASE \E day \in StudyDays : BeginsCapture(c, day)
    <2>1. PICK file : command'[c] = [step |-> "allocated", loaded |-> manifest, file |-> file]
        BY <1>1, <1>7 DEF BeginsCapture
    <2> QED
        BY <1>2, <2>1 DEF CommandInv, ManifestInv, IsManifest
<1>8. CASE CaptureEnds(c)
    <2>1. PICK state \in {"COMPLETED", "INTERRUPTED"} :
            command'[c] = [step |-> "ended", file |-> command[c].file,
                           loaded |-> command[c].loaded, digest |-> command[c].digest,
                           state |-> state]
        BY <1>1, <1>8 DEF CaptureEnds
    <2>2. command[c].step = "capturing" /\ captures' = captures
        BY <1>8 DEF CaptureEnds
    <2> QED
        BY <1>1, <1>2, <1>3, <2>1, <2>2 DEF CommandInv, IsManifest
<1>9. CASE CommandDies(c) \/ RecordsCapture(c)
    BY <1>1, <1>9 DEF CommandDies, RecordsCapture, CommandInv, Resting
<1> QED
    BY <1>4, <1>5, <1>6, <1>7, <1>8, <1>9 DEF CommandStep

LEMMA CommandsStep ==
    ASSUME CommandsInv, ManifestInv, NEW c \in Commands, CommandStep(c)
    PROVE  CommandsInv'
<1>1. DOMAIN command' = Commands
    BY DEF CommandsInv, CommandStep, BeginsCapture, OpensFile, ReachesSource, WritesLine,
           LosesSource, CaptureEnds, CommandDies, RecordsCapture
<1>2. ASSUME NEW d \in Commands, d # c PROVE CommandInv(d)'
    <2>1. CommandInv(d)
        BY DEF CommandsInv
    <2>2. \A e : Kept(e) => Kept(e)'
        BY RecordedStays
    <2>3. /\ command'[d] = command[d]
          /\ command[d].step \in {"capturing", "ended"} =>
                /\ command[d].file \in DOMAIN captures'
                /\ captures'[command[d].file] = captures[command[d].file]
                /\ command'[c].step = "capturing" => command'[c].file # command[d].file
        BY <1>2, OthersStay
    <2>4. \A b \in Commands : b # c => command'[b] = command[b]
        BY OthersStay
    <2>5. command[d].step \in {"capturing", "ended"} =>
            \A b \in Commands : b # d /\ command'[b].step = "capturing" =>
                                    command'[b].file # command'[d].file
        BY <2>1, <2>3, <2>4 DEF CommandInv
    <2> QED
        BY <2>1, <2>2, <2>3, <2>5 DEF CommandInv, IsManifest
<1> QED
    BY <1>1, <1>2, OwnStep DEF CommandsInv

LEMMA ManifestStep ==
    ASSUME CommandsInv, ManifestInv, NEW c \in Commands, CommandStep(c)
    PROVE  ManifestInv'
<1>1. \A e : Kept(e) => Kept(e)'
    BY RecordedStays
<1>2. DOMAIN command = Commands /\ CommandInv(c)
    BY DEF CommandsInv
<1>3. CASE RecordsCapture(c)
    <2>1. command[c].step = "ended" /\ command' = [command EXCEPT ![c] = Resting] /\ captures' = captures
        BY <1>3 DEF RecordsCapture
    <2>2. PICK e : e = Entry(c)
        OBVIOUS
    <2>3. e.file = command[c].file /\ e.sum = command[c].digest /\ IsEntry(e)
        BY <2>2 DEF Entry, IsEntry
    <2>4. Kept(e)'
        BY <1>2, <2>1, <2>3 DEF Kept, CommandInv, Resting
    <2>5. manifest' = [command[c].loaded EXCEPT !.entries = @ \cup {e}]
        BY <1>3, <2>2 DEF RecordsCapture
    <2>6. command[c].loaded = [entries |-> command[c].loaded.entries, viewed |-> command[c].loaded.viewed]
          /\ \A x \in command[c].loaded.entries : Kept(x)'
        BY <1>1, <1>2, <2>1 DEF CommandInv, IsManifest
    <2>7. manifest' = [entries |-> command[c].loaded.entries \cup {e}, viewed |-> command[c].loaded.viewed]
        BY <2>5, <2>6
    <2> QED
        BY <2>4, <2>6, <2>7 DEF ManifestInv, IsManifest
<1>4. CASE manifest' = manifest
    BY <1>1, <1>4 DEF ManifestInv, IsManifest
<1> QED
    BY <1>3, <1>4 DEF CommandStep, BeginsCapture, OpensFile, ReachesSource, WritesLine,
           LosesSource, CaptureEnds, CommandDies

\* A step after which everything that was kept is kept, and the export and the
\* report are the same.
LEMMA ResultsStay ==
    ASSUME ExportInv, ReportInv, UNCHANGED <<export, public, fieldReport>>,
           reviewed \subseteq reviewed', \A e : Kept(e) => Kept(e)'
    PROVE  ExportInv' /\ ReportInv'
<1>1. ASSUME NEW x, Sound(x) PROVE Sound(x)'
    BY <1>1 DEF Sound, HoldoutComplete
<1> QED
    BY <1>1 DEF ExportInv, ReportInv, Episodes, HoldoutComplete

\* What is recorded is about the files and the commands only.
LEMMA KeptOfCaptures ==
    ASSUME UNCHANGED <<captures, command>>
    PROVE  \A e : Kept(e) => Kept(e)'
BY DEF Kept

LEMMA CommandsRest ==
    ASSUME CommandsInv, UNCHANGED <<captures, command>>
    PROVE  CommandsInv'
<1>1. \A e : Kept(e) => Kept(e)'
    BY KeptOfCaptures
<1> QED
    BY <1>1 DEF CommandsInv, CommandInv, IsManifest

LEMMA ManifestRests ==
    ASSUME ManifestInv, UNCHANGED <<captures, command, manifest>>
    PROVE  ManifestInv'
<1>1. \A e : Kept(e) => Kept(e)'
    BY KeptOfCaptures
<1> QED
    BY <1>1 DEF ManifestInv, IsManifest

-----------------------------------------------------------------------------
\* The rows are those of the captures chosen, and there are rows of the holdout
\* only if a capture of that day was.
LEMMA ExportStep ==
    ASSUME FieldInv, WritesExport
    PROVE  ExportInv'
<1>1. PICK kept \in 0..Len(RowsOf(HoldoutDay)) :
        export' = [label |-> export.label + 1, from |-> UsableEntries, verified |-> FALSE,
                   rows |-> [d \in StudyDays |->
                       IF d = HoldoutDay THEN SubSeq(RowsOf(d), 1, kept) ELSE RowsOf(d)]]
    BY DEF WritesExport
<1>2. export'.rows[HoldoutDay] = SubSeq(RowsOf(HoldoutDay), 1, kept)
    BY <1>1 DEF StudyDays
<1>3. ASSUME export'.rows[HoldoutDay] # <<>>
      PROVE  \E e \in UsableEntries : e.file.day = HoldoutDay
    <2>1. CASE {e \in UsableEntries : e.file.day = HoldoutDay} = {}
        <3>1. RowsOf(HoldoutDay) = <<>>
            BY <2>1 DEF RowsOf
        <3>2. kept = 0
            BY <3>1
        <3>3. SubSeq(<<>>, 1, 0) = <<>>
            OBVIOUS
        <3> QED
            BY <1>2, <1>3, <3>1, <3>2, <3>3
    <2> QED
        BY <2>1
<1>4. PICK U : U = UsableEntries
    OBVIOUS
<1>5. \A e \in U : e.state = "COMPLETED" /\ Kept(e)'
    BY <1>4, KeptOfCaptures DEF WritesExport, WellChosen, UsableEntries, FieldInv, ManifestInv, captureVars
<1>6. \A e, f \in U : e.file.day = f.file.day => e = f
    BY <1>4 DEF WritesExport, WellChosen
<1>7. export'.from = U /\ export'.label = export.label + 1 /\ ~export'.verified
    BY <1>1, <1>4
<1>8. Sound(export)'
    BY <1>3, <1>4, <1>5, <1>6, <1>7 DEF Sound, HoldoutComplete
<1>9. public' = public
    BY DEF WritesExport
<1>10. export.label \in Nat /\ public \in Nat /\ public <= export.label
    BY DEF FieldInv, ExportInv
<1>11. ASSUME NEW l \in Nat, NEW p \in Nat, p <= l PROVE l + 1 \in Nat /\ p <= l + 1 /\ p # l + 1
    BY <1>11
<1>12. export'.label \in Nat /\ public' <= export'.label /\ public' # export'.label
    BY <1>7, <1>9, <1>10, <1>11
<1>13. export' = [label |-> export'.label, rows |-> export'.rows, from |-> export'.from,
                  verified |-> export'.verified]
    BY <1>1
<1> QED
    BY <1>8, <1>9, <1>10, <1>12, <1>13 DEF ExportInv

LEMMA PublishStep ==
    ASSUME ExportInv, ReportInv, PublishesExport
    PROVE  ExportInv' /\ ReportInv'
<1>1. \A e : Kept(e) => Kept(e)'
    BY KeptOfCaptures DEF PublishesExport, captureVars
<1>2. /\ export' = [label |-> export.label, rows |-> export.rows, from |-> export.from,
                   verified |-> TRUE]
      /\ public' = export.label
    BY DEF PublishesExport, ExportInv
<1>3. ASSUME NEW x, Sound(x) PROVE Sound(x)'
    BY <1>1, <1>3 DEF Sound, HoldoutComplete
<1>4. Sound(export)'
    <2>1. PICK x : x = export
        OBVIOUS
    <2>2. Sound(x)'
        BY <1>3, <2>1 DEF ExportInv
    <2> QED
        BY <1>2, <2>1, <2>2 DEF Sound, HoldoutComplete
<1>5. ASSUME NEW l \in Nat PROVE l <= l
    BY <1>5
<1>6. ReportInv'
    BY <1>3 DEF ReportInv, PublishesExport, Episodes, HoldoutComplete
<1> QED
    BY <1>2, <1>4, <1>5, <1>6 DEF ExportInv

\* A report passes only of an export whose holdout is complete and reviewed.
LEMMA ReportStep ==
    ASSUME ExportInv, BuildsReport
    PROVE  ReportInv'
<1>1. PICK synthetic \in BOOLEAN :
        fieldReport' = [status |-> StatusOf(export, reviewed, synthetic), of |-> export,
                        published |-> public # 0]
    BY DEF BuildsReport
<1>2. UNCHANGED <<captures, command, export, reviewed, public>> /\ public \in {0, export.label}
    BY DEF BuildsReport, captureVars
<1>3. SUFFICES ASSUME fieldReport'.status = "PASSED"
               PROVE  /\ Sound(fieldReport.of)' /\ HoldoutComplete(fieldReport.of)'
                      /\ (Episodes(fieldReport.of, HoldoutDay) \subseteq reviewed)'
                      /\ (fieldReport.published => fieldReport.of.verified)'
    BY DEF ReportInv
<1>4. HoldoutComplete(export) /\ Episodes(export, HoldoutDay) \subseteq reviewed
    BY <1>1, <1>3 DEF StatusOf, GatePassed
<1>5. PICK x : x = export
    OBVIOUS
<1>6. fieldReport'.of = x /\ fieldReport'.published = (public # 0)
    BY <1>1, <1>5
<1>7. Sound(x)'
    BY <1>2, <1>5, KeptOfCaptures DEF ExportInv, Sound, HoldoutComplete
<1>8. Sound(fieldReport.of)'
    BY <1>6, <1>7 DEF Sound, HoldoutComplete
<1>9. HoldoutComplete(fieldReport.of)' /\ (Episodes(fieldReport.of, HoldoutDay) \subseteq reviewed)'
    BY <1>2, <1>4, <1>5, <1>6 DEF HoldoutComplete, Episodes
<1>10. (fieldReport.published => fieldReport.of.verified)'
    BY <1>2, <1>5, <1>6 DEF ExportInv
<1> QED
    BY <1>8, <1>9, <1>10

LEMMA FieldStep == FieldInv /\ [FieldNext]_fieldVars => FieldInv'
<1> SUFFICES ASSUME FieldInv, [FieldNext]_fieldVars PROVE FieldInv'
    OBVIOUS
<1>1. CommandsInv /\ ManifestInv /\ ExportInv /\ ReportInv
    BY DEF FieldInv
<1>2. CASE \E c \in Commands : CommandStep(c)
    <2>1. PICK c \in Commands : CommandStep(c)
        BY <1>2
    <2>2. CommandsInv' /\ ManifestInv' /\ \A e : Kept(e) => Kept(e)'
        BY <1>1, <2>1, CommandsStep, ManifestStep, RecordedStays
    <2>3. UNCHANGED resultVars
        BY <2>1 DEF CommandStep, BeginsCapture, OpensFile, ReachesSource, WritesLine,
               LosesSource, CaptureEnds, CommandDies, RecordsCapture
    <2> QED
        BY <1>1, <2>2, <2>3, ResultsStay DEF FieldInv, resultVars
<1>3. CASE UNCHANGED <<captures, command>> /\ UNCHANGED <<export, public, fieldReport>>
           /\ reviewed \subseteq reviewed' /\ ManifestInv'
    BY <1>1, <1>3, CommandsRest, KeptOfCaptures, ResultsStay DEF FieldInv
<1>4. CASE MarksUsable
    <2>1. PICK e \in manifest.entries :
            manifest' = [manifest EXCEPT !.entries = (@ \ {e}) \cup {[e EXCEPT !.usable = TRUE]}]
        BY <1>4 DEF MarksUsable
    <2>2. \A x : Kept(x) => Kept(x)'
        BY <1>4, KeptOfCaptures DEF MarksUsable
    <2>3. PICK f : f = [e EXCEPT !.usable = TRUE]
        OBVIOUS
    <2>4. Kept(e)
        BY <1>1 DEF ManifestInv
    <2>5. f = [file |-> e.file, sum |-> e.sum, state |-> e.state, usable |-> TRUE]
        BY <2>3, <2>4 DEF Kept, IsEntry
    <2>6. Kept(f)
        BY <2>4, <2>5 DEF Kept, IsEntry
    <2>7. manifest' = [entries |-> (manifest.entries \ {e}) \cup {f}, viewed |-> manifest.viewed]
        BY <1>1, <2>1, <2>3 DEF ManifestInv, IsManifest
    <2>8. \A x \in manifest.entries : Kept(x)
        BY <1>1 DEF ManifestInv
    <2>9. ManifestInv'
        BY <2>2, <2>6, <2>7, <2>8 DEF ManifestInv, IsManifest
    <2> QED
        BY <1>3, <1>4, <2>9 DEF MarksUsable, resultVars
<1>5. CASE NotesHoldoutViewed
    <2>1. manifest' = [entries |-> manifest.entries, viewed |-> TRUE]
        BY <1>1, <1>5 DEF NotesHoldoutViewed, ManifestInv, IsManifest
    <2>2. \A x : Kept(x) => Kept(x)'
        BY <1>5, KeptOfCaptures DEF NotesHoldoutViewed
    <2>3. ManifestInv'
        BY <1>1, <2>1, <2>2 DEF ManifestInv, IsManifest
    <2> QED
        BY <1>3, <1>5, <2>3 DEF NotesHoldoutViewed, resultVars
<1>6. CASE ChangesPolicy \/ Freezes \/ RefusesExport \/ ReviewsEpisode \/ UNCHANGED fieldVars
    <2>1. UNCHANGED <<captures, command, manifest>> /\ UNCHANGED <<export, public, fieldReport>>
          /\ reviewed \subseteq reviewed'
        BY <1>6 DEF ChangesPolicy, Freezes, RefusesExport, ReviewsEpisode, fieldVars, captureVars,
               resultVars
    <2> QED
        BY <1>1, <1>3, <2>1, ManifestRests
<1>7. CASE WritesExport
    <2>1. UNCHANGED <<captures, command, manifest>> /\ UNCHANGED <<fieldReport, reviewed>>
        BY <1>7 DEF WritesExport, captureVars
    <2>2. ASSUME NEW x, Sound(x) PROVE Sound(x)'
        BY <2>1, <2>2, KeptOfCaptures DEF Sound, HoldoutComplete
    <2>3. ReportInv'
        BY <1>1, <2>1, <2>2 DEF ReportInv, Episodes, HoldoutComplete
    <2> QED
        BY <1>1, <1>7, <2>1, <2>3, ExportStep, CommandsRest, ManifestRests DEF FieldInv
<1>8. CASE PublishesExport
    <2>1. UNCHANGED <<captures, command, manifest>>
        BY <1>8 DEF PublishesExport, captureVars
    <2> QED
        BY <1>1, <1>8, <2>1, PublishStep, CommandsRest, ManifestRests DEF FieldInv
<1>9. CASE BuildsReport
    <2>1. UNCHANGED <<captures, command, manifest>> /\ UNCHANGED <<export, public>>
        BY <1>9 DEF BuildsReport, captureVars
    <2>2. ASSUME NEW x, Sound(x) PROVE Sound(x)'
        BY <2>1, <2>2, KeptOfCaptures DEF Sound, HoldoutComplete
    <2>3. ExportInv'
        BY <1>1, <2>1, <2>2 DEF ExportInv
    <2> QED
        BY <1>1, <1>9, <2>1, <2>3, ReportStep, CommandsRest, ManifestRests DEF FieldInv
<1> QED
    BY <1>2, <1>4, <1>5, <1>6, <1>7, <1>8, <1>9 DEF FieldNext

LEMMA FieldSuffices == FieldInv => FieldStudyIsSound
<1> SUFFICES ASSUME FieldInv PROVE FieldStudyIsSound
    OBVIOUS
<1>1. EntriesMatchFiles
    BY DEF FieldInv, ManifestInv, Kept, EntriesMatchFiles
<1>2. PassedIsEarned
    BY DEF FieldInv, ReportInv, Sound, Kept, PassedIsEarned
<1> QED
    BY <1>1, <1>2 DEF FieldStudyIsSound

\* What the manifest says of a capture is what its file holds, and a report that
\* passes rests on such captures and on a person's review, for any number of
\* commands, days, lines and exports, whatever dies or is killed between.
THEOREM FieldStudyCorrect == FieldSpec => []FieldStudyIsSound
BY FieldInitially, FieldStep, FieldSuffices, PTL DEF FieldSpec

(***************************************************************************)
(* How often the provider is asked.  The time of the next request is a     *)
(* poll interval after the last one unless a refusal has set it since; and *)
(* whoever trips the circuit keeps it open for every request in flight     *)
(* with it, since none of those began before the oldest of them.           *)
(***************************************************************************)
Requests == [at : Int, refusals : Nat, trips : SUBSET SUBSET Int]

SpareTypes ==
    /\ asked \in Seq(Requests) /\ tick \in Int /\ circuitUntil \in Int /\ refusals \in Nat
    /\ trips \in SUBSET SUBSET Int
    /\ \A r \in fetching : r.began \in Int

AskedInOrder ==
    /\ \A i \in 1..Len(asked) : asked[i].at <= tick /\ asked[i].refusals <= refusals
    /\ \A i, j \in 1..Len(asked) : i <= j => asked[i].at <= asked[j].at

\* What is known of the last request, for the next one.
IntervalKept ==
    asked # <<>> =>
        \/ nextRequest \in Int /\ nextRequest >= asked[Len(asked)].at + PollInterval
        \/ refusals > asked[Len(asked)].refusals

CircuitKept ==
    \A began \in trips :
        /\ \E b \in began : circuitUntil >= b + CircuitOpen
        /\ \A r \in fetching : \E b \in began : b <= r.began

SpareInv == SpareTypes /\ AskedInOrder /\ IntervalKept /\ CircuitKept /\ ProviderIsSpared

LEMMA SpareInitially == SourceInit => SpareInv
<1>. SUFFICES ASSUME SourceInit PROVE SpareInv
    OBVIOUS
<1>1. PICK s : s = asked
    OBVIOUS
<1>2. s = <<>> /\ s \in Seq(Requests) /\ Len(s) = 0 /\ DOMAIN s = {}
    BY <1>1 DEF SourceInit
<1>3. SpareTypes
    BY <1>1, <1>2 DEF SourceInit, SpareTypes
<1>4. AskedInOrder /\ IntervalKept /\ ProviderIsSpared
    BY <1>1, <1>2 DEF AskedInOrder, IntervalKept, ProviderIsSpared
<1>5. CircuitKept
    BY DEF SourceInit, CircuitKept
<1>. QED BY <1>3, <1>4, <1>5 DEF SpareInv

\* The request that is sent next: within a poll interval of an earlier one it
\* follows one more refusal, and the circuit has been open for its time.
LEMMA AskIsSpare ==
    ASSUME SpareInv, ~Blocked, NEW n \in Nat, n = Len(asked)
    PROVE  /\ \A i \in 1..n : tick - asked[i].at < PollInterval =>
                                n + 1 - i <= refusals - asked[i].refusals
           /\ \A began \in trips : \E b \in began : b <= tick /\ tick >= b + CircuitOpen
<1>1. /\ tick \in Int /\ circuitUntil \in Int /\ refusals \in Nat /\ trips \in SUBSET SUBSET Int
      /\ asked \in Seq(Requests)
    BY DEF SpareInv, SpareTypes
<1>2. ASSUME NEW i \in 1..n PROVE asked[i].at \in Int /\ asked[i].refusals \in Nat
    <2>1. asked[i] \in Requests
        BY <1>1
    <2>. QED BY <2>1 DEF Requests
<1>3. PollInterval \in Nat /\ CircuitOpen \in Nat
    BY SourceAssumption DEF SourceAssumption
<1>4. ASSUME NEW i \in 1..n, tick - asked[i].at < PollInterval
      PROVE  n + 1 - i <= refusals - asked[i].refusals
    <2>1. n \in 1..n /\ asked # <<>> /\ n \in DOMAIN asked /\ i \in 1..n
        BY <1>1
    <2>2. asked[i].at <= asked[n].at /\ asked[n].at <= tick
        BY <2>1 DEF SpareInv, AskedInOrder
    <2>3. \/ nextRequest \in Int /\ nextRequest >= asked[n].at + PollInterval
          \/ refusals > asked[n].refusals
        BY <2>1 DEF SpareInv, IntervalKept
    <2>4. ~(nextRequest \in Int /\ nextRequest >= asked[n].at + PollInterval)
        BY <1>1, <1>2, <1>3, <1>4, <2>1, <2>2 DEF Blocked
    <2>5. asked[n].at - asked[i].at < PollInterval
        BY <1>1, <1>2, <1>3, <1>4, <2>1, <2>2
    <2>6. n - i <= asked[n].refusals - asked[i].refusals
        BY <2>1, <2>5 DEF SpareInv, ProviderIsSpared
    <2>. QED BY <1>1, <1>2, <2>1, <2>3, <2>4, <2>6
<1>5. ASSUME NEW began \in trips
      PROVE  \E b \in began : b <= tick /\ tick >= b + CircuitOpen
    <2>1. PICK b \in began : circuitUntil >= b + CircuitOpen
        BY DEF SpareInv, CircuitKept
    <2>2. b \in Int
        BY <1>1
    <2>3. b <= tick /\ tick >= b + CircuitOpen
        BY <1>1, <1>3, <2>1, <2>2 DEF Blocked
    <2>. QED BY <2>3
<1>. QED BY <1>4, <1>5

LEMMA AskStep ==
    ASSUME SpareInv, NEW f \in Flights, NEW report \in LocalReports, Ask(f, report)
    PROVE  SpareInv'
<1>1. PICK n, s, new : n = Len(asked) /\ s = asked
                       /\ new = [at |-> tick, refusals |-> refusals, trips |-> trips]
    OBVIOUS
<1>2. /\ s \in Seq(Requests) /\ n \in Nat /\ DOMAIN s = 1..n
      /\ tick \in Int /\ circuitUntil \in Int /\ refusals \in Nat /\ trips \in SUBSET SUBSET Int
    BY <1>1 DEF SpareInv, SpareTypes
<1>3. new \in Requests
    BY <1>1, <1>2 DEF Requests
<1>4. /\ ~Blocked /\ asked' = Append(s, new) /\ nextRequest' = tick + PollInterval
      /\ UNCHANGED <<circuitUntil, refusals, trips, tick>>
    BY <1>1 DEF Ask
<1>5. PICK r : r = [nr |-> Len(asked) + 1, flight |-> f, local |-> Observed(report), began |-> tick]
    OBVIOUS
<1>6. fetching' = fetching \cup {r} /\ r.began = tick
    BY <1>5 DEF Ask
<1>7. /\ asked' \in Seq(Requests) /\ Len(asked') = n + 1 /\ DOMAIN asked' = 1..(n + 1)
      /\ asked'[n + 1] = new /\ \A i \in 1..n : asked'[i] = asked[i]
    BY <1>1, <1>2, <1>3, <1>4
<1>8. /\ \A i \in 1..n : tick - asked[i].at < PollInterval =>
                           n + 1 - i <= refusals - asked[i].refusals
      /\ \A began \in trips : \E b \in began : b <= tick /\ tick >= b + CircuitOpen
    BY <1>1, <1>2, <1>4, AskIsSpare
<1>9. SpareTypes'
    BY <1>2, <1>4, <1>6, <1>7 DEF SpareInv, SpareTypes
<1>10. AskedInOrder'
    <2>1. \A i \in 1..n : asked[i].at <= tick /\ asked[i].refusals <= refusals
        BY <1>1 DEF SpareInv, AskedInOrder
    <2>2. \A i, j \in 1..n : i <= j => asked[i].at <= asked[j].at
        BY <1>1 DEF SpareInv, AskedInOrder
    <2>3. new.at = tick /\ new.refusals = refusals
        BY <1>1
    <2>4. \A i \in 1..(n + 1) : i \in 1..n \/ i = n + 1
        BY <1>2
    <2>5. \A i \in 1..(n + 1) : asked'[i].at <= tick /\ asked'[i].refusals <= refusals
        BY <1>2, <1>7, <2>1, <2>3, <2>4
    <2>6. ASSUME NEW i \in 1..(n + 1), NEW j \in 1..(n + 1), i <= j
          PROVE  asked'[i].at <= asked'[j].at
        <3>1. CASE j = n + 1
            BY <1>7, <2>3, <2>5, <3>1
        <3>2. CASE j # n + 1
            BY <1>2, <1>7, <2>2, <2>6, <3>2
        <3>. QED BY <3>1, <3>2
    <2>. QED BY <1>4, <1>7, <2>5, <2>6 DEF AskedInOrder
<1>11. IntervalKept'
    <2>1. PollInterval \in Nat
        BY SourceAssumption DEF SourceAssumption
    <2>2. nextRequest' \in Int /\ nextRequest' >= asked'[Len(asked')].at + PollInterval
        BY <1>1, <1>2, <1>4, <1>7, <2>1
    <2>. QED BY <2>2 DEF IntervalKept
<1>12. CircuitKept'
    <2>1. ASSUME NEW began \in trips PROVE \A q \in fetching' : \E b \in began : b <= q.began
        BY <1>6, <1>8 DEF SpareInv, CircuitKept
    <2>. QED BY <1>4, <2>1 DEF SpareInv, CircuitKept
<1>13. ProviderIsSpared'
    <2>1. ASSUME NEW k \in 1..(n + 1), NEW i \in 1..k,
                 asked'[k].at - asked'[i].at < PollInterval
          PROVE  k - i <= asked'[k].refusals - asked'[i].refusals
        <3>1. CASE k \in 1..n
            <4>1. i \in 1..n /\ k \in DOMAIN asked
                BY <1>1, <1>2, <3>1
            <4>. QED BY <1>7, <2>1, <3>1, <4>1 DEF SpareInv, ProviderIsSpared
        <3>2. CASE k = n + 1 /\ i \in 1..n
            BY <1>1, <1>2, <1>7, <1>8, <2>1, <3>2
        <3>3. CASE k = n + 1 /\ i = n + 1
            BY <1>1, <1>2, <1>7, <3>3
        <3>. QED BY <1>2, <3>1, <3>2, <3>3
    <2>2. ASSUME NEW k \in 1..(n + 1), NEW began \in asked'[k].trips
          PROVE  \E b \in began : asked'[k].at >= b + CircuitOpen
        <3>1. CASE k \in 1..n
            BY <1>1, <1>2, <1>7, <2>2, <3>1 DEF SpareInv, ProviderIsSpared
        <3>2. CASE k = n + 1
            BY <1>1, <1>7, <1>8, <2>2, <3>2
        <3>. QED BY <1>2, <3>1, <3>2
    <2>. QED BY <1>7, <2>1, <2>2 DEF ProviderIsSpared
<1>. QED BY <1>9, <1>10, <1>11, <1>12, <1>13 DEF SpareInv

\* Where no request is sent: what a step has to keep.
LEMMA NoneSent ==
    ASSUME SpareInv, UNCHANGED asked, SpareTypes', CircuitKept',
           tick' >= tick, refusals' >= refusals, nextRequest' = nextRequest \/ refusals' > refusals
    PROVE  SpareInv'
<1>1. PICK n, s : n = Len(asked) /\ s = asked
    OBVIOUS
<1>2. /\ s \in Seq(Requests) /\ n \in Nat /\ DOMAIN s = 1..n
      /\ tick \in Int /\ refusals \in Nat /\ tick' \in Int /\ refusals' \in Nat
    BY <1>1 DEF SpareInv, SpareTypes
<1>3. \A i \in 1..n : s[i].at \in Int /\ s[i].refusals \in Nat
    <2>1. \A i \in 1..n : s[i] \in Requests
        BY <1>2
    <2>. QED BY <2>1 DEF Requests
<1>4. /\ \A i \in 1..n : s[i].at <= tick /\ s[i].refusals <= refusals
      /\ \A i, j \in 1..n : i <= j => s[i].at <= s[j].at
    BY <1>1 DEF SpareInv, AskedInOrder
<1>5. \A i \in 1..n : s[i].at <= tick' /\ s[i].refusals <= refusals'
    BY <1>2, <1>3, <1>4
<1>6. AskedInOrder'
    BY <1>1, <1>4, <1>5 DEF AskedInOrder
<1>7. IntervalKept'
    <2>1. SUFFICES ASSUME s # <<>> PROVE \/ nextRequest' \in Int /\ nextRequest' >= s[n].at + PollInterval
                                         \/ refusals' > s[n].refusals
        BY <1>1 DEF IntervalKept
    <2>2. n \in 1..n
        BY <1>1, <1>2, <2>1
    <2>3. \/ nextRequest \in Int /\ nextRequest >= s[n].at + PollInterval
          \/ refusals > s[n].refusals
        BY <1>1, <2>1 DEF SpareInv, IntervalKept
    <2>. QED BY <1>2, <1>3, <1>4, <2>2, <2>3
<1>8. ProviderIsSpared'
    BY DEF SpareInv, ProviderIsSpared
<1>. QED BY <1>6, <1>7, <1>8 DEF SpareInv

LEMMA FailsStep ==
    ASSUME SpareInv, NEW r \in fetching, Fails(r)
    PROVE  SpareInv'
<1>1. PICK trip : trip = {other.began : other \in fetching}
    OBVIOUS
<1>2. /\ fetching' = fetching \ {r} /\ refusals' = refusals + 1 /\ UNCHANGED <<asked, tick>>
      /\ \/ UNCHANGED <<circuitUntil, trips>>
         \/ circuitUntil' = r.began + CircuitOpen /\ trips' = trips \cup {trip}
    BY <1>1 DEF Fails, FailsAt, Answers, Unavailable
<1>3. /\ tick \in Int /\ circuitUntil \in Int /\ refusals \in Nat /\ trips \in SUBSET SUBSET Int
      /\ asked \in Seq(Requests) /\ \A q \in fetching : q.began \in Int
    BY DEF SpareInv, SpareTypes
<1>4. CircuitOpen \in Nat /\ r.began \in Int /\ trip \in SUBSET Int
    BY <1>1, <1>3, SourceAssumption DEF SourceAssumption
<1>5. SpareTypes'
    <2>1. circuitUntil' \in Int
        BY <1>2, <1>3, <1>4
    <2>2. trips' \in SUBSET SUBSET Int
        BY <1>2, <1>3, <1>4
    <2>3. refusals' \in Nat
        BY <1>2, <1>3
    <2>. QED BY <1>2, <1>3, <2>1, <2>2, <2>3 DEF SpareTypes
<1>6. CircuitKept'
    <2>1. CASE UNCHANGED <<circuitUntil, trips>>
        BY <1>2, <2>1 DEF SpareInv, CircuitKept
    <2>2. CASE circuitUntil' = r.began + CircuitOpen /\ trips' = trips \cup {trip}
        <3>1. ASSUME NEW began \in trips'
              PROVE  \E b \in began : b <= r.began
            <4>1. CASE began \in trips
                BY <4>1 DEF SpareInv, CircuitKept
            <4>2. CASE began = trip
                BY <1>1, <1>4, <4>2
            <4>. QED BY <2>2, <3>1, <4>1, <4>2
        <3>2. ASSUME NEW began \in trips'
              PROVE  \E b \in began : circuitUntil' >= b + CircuitOpen
            <4>1. PICK b \in began : b <= r.began
                BY <3>1
            <4>2. b \in Int
                BY <1>3, <1>4, <2>2
            <4>. QED BY <1>4, <2>2, <4>1, <4>2
        <3>3. ASSUME NEW began \in trips', NEW q \in fetching'
              PROVE  \E b \in began : b <= q.began
            <4>1. CASE began \in trips
                BY <1>2, <4>1 DEF SpareInv, CircuitKept
            <4>2. CASE began = trip
                <5>1. q.began \in trip /\ q.began \in Int
                    BY <1>1, <1>2, <1>3
                <5>2. q.began <= q.began
                    BY <5>1
                <5>. QED BY <4>2, <5>1, <5>2
            <4>. QED BY <2>2, <3>3, <4>1, <4>2
        <3>. QED BY <3>2, <3>3 DEF CircuitKept
    <2>. QED BY <1>2, <2>1, <2>2
<1>7. tick' >= tick /\ refusals' > refusals /\ refusals' >= refusals
    BY <1>2, <1>3
<1>. QED BY <1>2, <1>5, <1>6, <1>7, NoneSent

LEMMA OtherSourceStep ==
    ASSUME SpareInv, UNCHANGED <<asked, circuitUntil, trips>>, fetching' \subseteq fetching,
           tick' \in {tick, tick + 1},
           refusals' = refusals + 1 \/ UNCHANGED <<nextRequest, refusals>>
    PROVE  SpareInv'
<1>1. /\ tick \in Int /\ circuitUntil \in Int /\ refusals \in Nat /\ trips \in SUBSET SUBSET Int
      /\ asked \in Seq(Requests) /\ \A q \in fetching : q.began \in Int
    BY DEF SpareInv, SpareTypes
<1>2. SpareTypes'
    BY <1>1 DEF SpareTypes
<1>3. CircuitKept'
    BY DEF SpareInv, CircuitKept
<1>4. tick' >= tick /\ refusals' >= refusals /\ (nextRequest' = nextRequest \/ refusals' > refusals)
    BY <1>1
<1>. QED BY <1>2, <1>3, <1>4, NoneSent

LEMMA SpareStep == SpareInv /\ [SourceNext]_sourceVars => SpareInv'
<1>. SUFFICES ASSUME SpareInv, [SourceNext]_sourceVars PROVE SpareInv'
    OBVIOUS
<1>1. ASSUME NEW f \in Flights, NEW report \in LocalReports, Ask(f, report) PROVE SpareInv'
    BY <1>1, AskStep
<1>2. ASSUME NEW r \in fetching, Fails(r) PROVE SpareInv'
    BY <1>2, FailsStep
<1>3. ASSUME NEW r \in fetching, RateLimited(r) \/ Succeeds(r) PROVE SpareInv'
    <2>1. /\ UNCHANGED <<asked, circuitUntil, trips, tick>> /\ fetching' \subseteq fetching
          /\ refusals' = refusals + 1 \/ UNCHANGED <<nextRequest, refusals>>
        BY <1>3 DEF RateLimited, Succeeds, Answers, Unavailable
    <2>. QED BY <2>1, OtherSourceStep
<1>4. CASE SourceTicks
    <2>1. /\ UNCHANGED <<asked, circuitUntil, trips, nextRequest, refusals, fetching>>
          /\ tick' = tick + 1
        BY <1>4 DEF SourceTicks
    <2>. QED BY <2>1, OtherSourceStep
<1>5. CASE UNCHANGED <<asked, circuitUntil, trips, nextRequest, refusals, fetching, tick>>
    BY <1>5, OtherSourceStep
<1>6. ASSUME NEW report \in LocalReports, NEW f,
             WithoutPosition(report) \/ FromCache(f, report) \/ RefusedBySource(f, report)
      PROVE  UNCHANGED <<asked, circuitUntil, trips, nextRequest, refusals, fetching, tick>>
    BY <1>6 DEF WithoutPosition, FromCache, RefusedBySource
<1>. QED BY <1>1, <1>2, <1>3, <1>4, <1>5, <1>6 DEF SourceNext, sourceVars

\* However many requests are in flight and however late they are answered, a
\* request follows another within a poll interval only upon a refusal, and the
\* circuit, once open, stays open from the oldest request then in flight
\* (external_observations.py fetch_states, _record_failure).
THEOREM SparedCorrect == SourceSpec => []ProviderIsSpared
<1>1. SpareInv => ProviderIsSpared
    BY DEF SpareInv
<1>. QED BY <1>1, SpareInitially, SpareStep, PTL DEF SourceSpec

(***************************************************************************)
(* The answers of operators to alerts.  A request that is being handled    *)
(* knows an alert as it was; what it may have missed is an answer, never   *)
(* that one was taken back.                                                *)
(***************************************************************************)
IsAlert(a) == a = [sign |-> a.sign, at |-> a.at, state |-> a.state, resolved |-> a.resolved]

SaidOf(key) == {e \in acknowledged : e.alert = key}

\* An alert is the one of its sign and minute, which no later turn adds again.
FlaggedInv ==
    /\ minute \in Nat /\ lastTurn.at \in Int /\ lastTurn.at <= minute
    /\ \A a \in anomalies : IsAlert(a) /\ a.at \in Int /\ a.at <= lastTurn.at
    /\ \A a, b \in anomalies : Key(a) = Key(b) => a = b
    /\ \A x \in acknowledged \cup handling :
         x.alert[2] \in Int /\ x.alert[2] <= lastTurn.at /\ x.verdict \in Nat

RequestInv ==
    \A q \in handling :
        /\ SaidOf(q.alert) = {} => q.state = 0
        /\ \A a \in anomalies : Key(a) = q.alert /\ a.resolved = -1 => q.resolved = -1

Stands(a) ==
    /\ IF SaidOf(Key(a)) = {} THEN a.state = 0 ELSE \E e \in SaidOf(Key(a)) : e.verdict = a.state
    /\ IF a.resolved = -1 THEN \A e \in SaidOf(Key(a)) : e.verdict = 0
       ELSE \E e \in SaidOf(Key(a)) : e.verdict > 0 /\ e.at = a.resolved

DetectorInv == FlaggedInv /\ RequestInv /\ \A a \in anomalies : Stands(a)

LEMMA DetectorInitially == DetectorInit => DetectorInv
BY DEF DetectorInit, DetectorInv, FlaggedInv, RequestInv

\* The alerts of a turn are new, and nobody has said anything of them.
LEMMA TurnStep ==
    ASSUME DetectorInv, Turn
    PROVE  DetectorInv'
<1>1. PICK found, new :
        /\ new = {[sign |-> s, at |-> minute, state |-> 0, resolved |-> -1] : s \in found}
        /\ anomalies' = anomalies \cup new \/ anomalies' = anomalies
    BY DEF Turn
<1>2. /\ lastTurn.at < minute /\ lastTurn'.at = minute
      /\ UNCHANGED <<handling, acknowledged, minute>>
    BY DEF Turn, ackVars
<1>3. \A a \in new : IsAlert(a) /\ a.at = minute /\ a.state = 0 /\ a.resolved = -1
    BY <1>1 DEF IsAlert
<1>4. /\ minute \in Nat /\ lastTurn.at \in Int
      /\ \A a \in anomalies : IsAlert(a) /\ a.at \in Int /\ a.at <= lastTurn.at
      /\ \A a, b \in anomalies : Key(a) = Key(b) => a = b
      /\ \A x \in acknowledged \cup handling :
           x.alert[2] \in Int /\ x.alert[2] <= lastTurn.at /\ x.verdict \in Nat
    BY DEF DetectorInv, FlaggedInv
<1>5. \A a : Key(a)[2] = a.at
    BY DEF Key
<1>6. \A key : SaidOf(key)' = SaidOf(key)
    BY <1>2 DEF SaidOf
<1>7. FlaggedInv'
    <2>1. \A a, b \in new : Key(a) = Key(b) => a = b
        BY <1>3 DEF Key, IsAlert
    <2>2. \A a \in anomalies, b \in new : Key(a) # Key(b)
        BY <1>2, <1>3, <1>4, <1>5
    <2>3. \A a, b \in anomalies' : Key(a) = Key(b) => a = b
        BY <1>1, <1>4, <2>1, <2>2
    <2>4. \A a \in anomalies' : IsAlert(a) /\ a.at \in Int /\ a.at <= minute
        BY <1>1, <1>2, <1>3, <1>4
    <2>5. \A x \in acknowledged \cup handling : x.alert[2] <= minute
        BY <1>2, <1>4
    <2>. QED BY <1>2, <1>4, <2>3, <2>4, <2>5 DEF FlaggedInv, Key, IsAlert
<1>8. RequestInv'
    <2>1. ASSUME NEW q \in handling, NEW a \in new PROVE Key(a) # q.alert
        BY <1>2, <1>3, <1>4, <1>5
    <2>2. \A q \in handling : \A a \in anomalies' : Key(a) = q.alert => a \in anomalies
        BY <1>1, <2>1
    <2>3. \A q \in handling :
            /\ SaidOf(q.alert) = {} => q.state = 0
            /\ \A a \in anomalies' : Key(a) = q.alert /\ a.resolved = -1 => q.resolved = -1
        BY <2>2 DEF DetectorInv, RequestInv
    <2>. QED BY <1>2, <1>6, <2>3 DEF RequestInv, Key
<1>9. \A a \in anomalies' : Stands(a)'
    <2>1. ASSUME NEW a \in anomalies PROVE Stands(a)'
        BY <1>6 DEF DetectorInv, Stands, Key
    <2>2. ASSUME NEW a \in new PROVE Stands(a)'
        <3>1. SaidOf(Key(a)) = {}
            <4>1. ASSUME NEW e \in acknowledged PROVE e.alert # Key(a)
                BY <1>2, <1>3, <1>4, <1>5
            <4>. QED BY <4>1 DEF SaidOf
        <3>2. SaidOf(Key(a))' = {}
            BY <1>6, <3>1 DEF Key
        <3>. QED BY <1>3, <3>2 DEF Stands
    <2>. QED BY <1>1, <2>1, <2>2
<1>. QED BY <1>7, <1>8, <1>9 DEF DetectorInv

LEMMA ReadsStep ==
    ASSUME DetectorInv, NEW a \in anomalies, NEW v \in Verdicts, ReadsAlert(a, v)
    PROVE  DetectorInv'
<1>1. PICK q : q = [nr |-> handled', alert |-> Key(a), verdict |-> v,
                    state |-> a.state, resolved |-> a.resolved]
    OBVIOUS
<1>2. /\ handling' = handling \cup {q}
      /\ q.alert = Key(a) /\ q.verdict = v /\ q.state = a.state /\ q.resolved = a.resolved
    BY <1>1 DEF ReadsAlert
<1>3. UNCHANGED <<anomalies, lastTurn, acknowledged, minute>>
    BY DEF ReadsAlert
<1>4. \A key : SaidOf(key)' = SaidOf(key)
    BY <1>3 DEF SaidOf
<1>5. /\ a.at \in Int /\ a.at <= lastTurn.at /\ Stands(a)
      /\ \A b \in anomalies : Key(a) = Key(b) => a = b
    BY DEF DetectorInv, FlaggedInv
<1>6. FlaggedInv'
    <2>1. q.alert[2] \in Int /\ q.alert[2] <= lastTurn.at /\ q.verdict \in Nat
        BY <1>2, <1>5, VerdictAssumption DEF Key, VerdictAssumption
    <2>. QED BY <1>2, <1>3, <2>1 DEF DetectorInv, FlaggedInv, Key, IsAlert
<1>7. RequestInv'
    <2>1. SaidOf(q.alert) = {} => q.state = 0
        BY <1>2, <1>5 DEF Stands
    <2>2. \A b \in anomalies : Key(b) = q.alert /\ b.resolved = -1 => q.resolved = -1
        BY <1>2, <1>5
    <2>3. \A x \in handling' :
            /\ SaidOf(x.alert) = {} => x.state = 0
            /\ \A b \in anomalies : Key(b) = x.alert /\ b.resolved = -1 => x.resolved = -1
        BY <1>2, <2>1, <2>2 DEF DetectorInv, RequestInv
    <2>. QED BY <1>3, <1>4, <2>3 DEF RequestInv, Key
<1>8. \A b \in anomalies' : Stands(b)'
    BY <1>3, <1>4 DEF DetectorInv, Stands, Key
<1>. QED BY <1>6, <1>7, <1>8 DEF DetectorInv

\* One alert takes the answer: its state is what is written or what somebody has
\* written since it was read, and it is resolved if it was not and should be.
LEMMA WrittenStands ==
    ASSUME DetectorInv, NEW q \in handling, NEW a \in anomalies, Key(a) = q.alert,
           NEW e, e.verdict = q.verdict, e.at = minute,
           SaidOf(Key(a))' = SaidOf(Key(a)) \cup {e}, NEW b, b = Written(a, q)
    PROVE  /\ IsAlert(b) /\ Key(b) = Key(a) /\ b.at = a.at
           /\ b.resolved = -1 => a.resolved = -1
           /\ Stands(b)'
<1>1. a = [sign |-> a.sign, at |-> a.at, state |-> a.state, resolved |-> a.resolved]
    BY DEF DetectorInv, FlaggedInv, IsAlert
<1>2. /\ b = [sign |-> b.sign, at |-> b.at, state |-> b.state, resolved |-> b.resolved]
      /\ b.sign = a.sign /\ b.at = a.at
      /\ b.state = IF q.verdict # q.state THEN q.verdict ELSE a.state
      /\ b.resolved = IF ResolvedNow(q) THEN minute ELSE a.resolved
    BY <1>1 DEF Written
<1>3. Key(b) = Key(a) /\ Key(b)' = Key(b)
    BY <1>2 DEF Key
<1>4. PICK said : said = SaidOf(Key(a))
    OBVIOUS
<1>5. SaidOf(Key(b))' = said \cup {e}
    BY <1>3, <1>4
<1>6. /\ minute \in Nat /\ q.verdict \in Nat /\ Stands(a)
      /\ said = {} => q.state = 0
      /\ a.resolved = -1 => q.resolved = -1
    BY <1>4 DEF DetectorInv, FlaggedInv, RequestInv
<1>7. \E x \in said \cup {e} : x.verdict = b.state
    <2>1. CASE q.verdict # q.state
        BY <1>2, <2>1
    <2>2. CASE q.verdict = q.state /\ said = {}
        BY <1>2, <1>4, <1>6, <2>2 DEF Stands
    <2>3. CASE q.verdict = q.state /\ said # {}
        BY <1>2, <1>4, <1>6, <2>3 DEF Stands
    <2>. QED BY <2>1, <2>2, <2>3
<1>8. IF b.resolved = -1 THEN \A x \in said \cup {e} : x.verdict = 0
      ELSE \E x \in said \cup {e} : x.verdict > 0 /\ x.at = b.resolved
    <2>1. CASE ResolvedNow(q)
        BY <1>2, <1>6, <2>1 DEF ResolvedNow
    <2>2. CASE ~ResolvedNow(q) /\ a.resolved = -1
        <3>1. b.resolved = -1 /\ q.verdict = 0
            BY <1>2, <1>6, <2>2 DEF ResolvedNow
        <3>2. \A x \in said : x.verdict = 0
            BY <1>4, <1>6, <2>2 DEF Stands
        <3>. QED BY <3>1, <3>2
    <2>3. CASE ~ResolvedNow(q) /\ a.resolved # -1
        <3>1. b.resolved = a.resolved
            BY <1>2, <2>3
        <3>2. \E x \in said : x.verdict > 0 /\ x.at = a.resolved
            BY <1>4, <1>6, <2>3 DEF Stands
        <3>. QED BY <2>3, <3>1, <3>2
    <2>. QED BY <2>1, <2>2, <2>3
<1>9. b.resolved = -1 => a.resolved = -1
    BY <1>2, <1>6
<1>10. Stands(b)'
    BY <1>3, <1>5, <1>7, <1>8 DEF Stands
<1>. QED BY <1>2, <1>3, <1>9, <1>10 DEF IsAlert

LEMMA AcknowledgeStep ==
    ASSUME DetectorInv, NEW q \in handling, Acknowledge(q)
    PROVE  DetectorInv'
<1>1. PICK e : e = [nr |-> q.nr, alert |-> q.alert, verdict |-> q.verdict, at |-> minute]
    OBVIOUS
<1>2. /\ acknowledged' = acknowledged \cup {e}
      /\ e.alert = q.alert /\ e.verdict = q.verdict /\ e.at = minute
    BY <1>1 DEF Acknowledge
<1>3. /\ handling' = handling \ {q} /\ UNCHANGED <<lastTurn, minute>>
      /\ anomalies' = {IF Key(a) = q.alert THEN Written(a, q) ELSE a : a \in anomalies}
    BY DEF Acknowledge
<1>4. \A key : SaidOf(key)' = IF key = q.alert THEN SaidOf(key) \cup {e} ELSE SaidOf(key)
    BY <1>2 DEF SaidOf
<1>5. ASSUME NEW b \in anomalies'
      PROVE  \E a \in anomalies : /\ Key(a) = Key(b) /\ IsAlert(b) /\ b.at = a.at
                                  /\ b.resolved = -1 => a.resolved = -1
                                  /\ Stands(b)'
                                  /\ b = IF Key(a) = q.alert THEN Written(a, q) ELSE a
    <2>1. PICK a \in anomalies : b = IF Key(a) = q.alert THEN Written(a, q) ELSE a
        BY <1>3
    <2>2. CASE Key(a) = q.alert
        <3>1. SaidOf(Key(a))' = SaidOf(Key(a)) \cup {e}
            <4>1. Key(a)' = Key(a)
                BY DEF Key
            <4>. QED BY <1>4, <2>2, <4>1
        <3>2. b = Written(a, q)
            BY <2>1, <2>2
        <3>3. /\ IsAlert(b) /\ Key(b) = Key(a) /\ b.at = a.at
              /\ b.resolved = -1 => a.resolved = -1
              /\ Stands(b)'
            BY <1>2, <2>2, <3>1, <3>2, WrittenStands
        <3>. QED BY <2>1, <3>3
    <2>3. CASE Key(a) # q.alert
        <3>1. b = a /\ IsAlert(a) /\ Stands(a)
            BY <2>1, <2>3 DEF DetectorInv, FlaggedInv
        <3>2. Stands(a)'
            BY <1>4, <2>3, <3>1 DEF Stands, Key
        <3>3. Stands(b)'
            BY <3>1, <3>2
        <3>. QED BY <2>1, <3>1, <3>3
    <2>. QED BY <2>2, <2>3
<1>6. FlaggedInv'
    <2>1. \A a \in anomalies : a.at \in Int /\ a.at <= lastTurn.at
        BY DEF DetectorInv, FlaggedInv
    <2>2. \A b \in anomalies' : IsAlert(b) /\ b.at \in Int /\ b.at <= lastTurn.at
        BY <1>5, <2>1
    <2>3. \A a, b \in anomalies : Key(a) = Key(b) => a = b
        BY DEF DetectorInv, FlaggedInv
    <2>4. ASSUME NEW b \in anomalies', NEW c \in anomalies', Key(b) = Key(c)
          PROVE  b = c
        <3>1. PICK a \in anomalies : Key(a) = Key(b) /\ b = IF Key(a) = q.alert THEN Written(a, q) ELSE a
            BY <1>5
        <3>2. PICK d \in anomalies : Key(d) = Key(c) /\ c = IF Key(d) = q.alert THEN Written(d, q) ELSE d
            BY <1>5
        <3>3. a = d
            BY <2>3, <2>4, <3>1, <3>2
        <3>. QED BY <3>1, <3>2, <3>3
    <2>5. \A x \in acknowledged' \cup handling' :
            x.alert[2] \in Int /\ x.alert[2] <= lastTurn.at /\ x.verdict \in Nat
        BY <1>2, <1>3 DEF DetectorInv, FlaggedInv
    <2>6. minute \in Nat /\ lastTurn.at \in Int /\ lastTurn.at <= minute
        BY DEF DetectorInv, FlaggedInv
    <2>. QED BY <1>3, <2>2, <2>4, <2>5, <2>6 DEF FlaggedInv, Key, IsAlert
<1>7. RequestInv'
    <2>1. ASSUME NEW x \in handling', SaidOf(x.alert)' = {} PROVE x.state = 0
        BY <1>3, <1>4, <2>1 DEF DetectorInv, RequestInv
    <2>2. ASSUME NEW x \in handling', NEW b \in anomalies', Key(b) = x.alert, b.resolved = -1
          PROVE  x.resolved = -1
        <3>1. PICK a \in anomalies : Key(a) = Key(b) /\ (b.resolved = -1 => a.resolved = -1)
            BY <1>5
        <3>. QED BY <1>3, <2>2, <3>1 DEF DetectorInv, RequestInv
    <2>. QED BY <2>1, <2>2 DEF RequestInv, Key
<1>8. \A b \in anomalies' : Stands(b)'
    BY <1>5
<1>. QED BY <1>6, <1>7, <1>8 DEF DetectorInv

LEMMA DetectorStep == DetectorInv /\ [DetectorNext]_detectorVars => DetectorInv'
<1>. SUFFICES ASSUME DetectorInv, [DetectorNext]_detectorVars PROVE DetectorInv'
    OBVIOUS
<1>1. ASSUME UNCHANGED <<anomalies, lastTurn, acknowledged>>, minute' \in {minute, minute + 1},
             handling' \subseteq handling
      PROVE  DetectorInv'
    <2>1. \A key : SaidOf(key)' = SaidOf(key)
        BY <1>1 DEF SaidOf
    <2>2. minute \in Nat /\ lastTurn.at \in Int /\ lastTurn.at <= minute
        BY DEF DetectorInv, FlaggedInv
    <2>3. minute' \in Nat /\ lastTurn.at <= minute'
        BY <1>1, <2>2
    <2>4. FlaggedInv'
        BY <1>1, <2>2, <2>3 DEF DetectorInv, FlaggedInv, Key, IsAlert
    <2>5. RequestInv'
        BY <1>1, <2>1 DEF DetectorInv, RequestInv, Key
    <2>6. \A a \in anomalies' : Stands(a)'
        BY <1>1, <2>1 DEF DetectorInv, Stands, Key
    <2>. QED BY <2>4, <2>5, <2>6 DEF DetectorInv
<1>2. CASE Turn
    BY <1>2, TurnStep
<1>3. ASSUME NEW a \in anomalies, NEW v \in Verdicts, ReadsAlert(a, v) PROVE DetectorInv'
    BY <1>3, ReadsStep
<1>4. ASSUME NEW q \in handling, Acknowledge(q) PROVE DetectorInv'
    BY <1>4, AcknowledgeStep
<1>5. ASSUME NEW q \in handling, AcknowledgeFails(q) PROVE DetectorInv'
    BY <1>1, <1>5 DEF AcknowledgeFails
<1>6. ASSUME NEW h \in Aircrafts, NEW r \in Rows, IsSeen(h, r) PROVE DetectorInv'
    BY <1>1, <1>6 DEF IsSeen, ackVars
<1>7. CASE MinutePasses
    BY <1>1, <1>7 DEF MinutePasses, ackVars
<1>8. CASE UNCHANGED detectorVars
    BY <1>1, <1>8 DEF detectorVars
<1>. QED BY <1>2, <1>3, <1>4, <1>5, <1>6, <1>7, <1>8 DEF DetectorNext

\* Whatever turns and requests cross, an alert says what an operator was recorded
\* to have said of it, and is resolved exactly if one has acknowledged or
\* dismissed it (backend/app/api/anomalies.py acknowledge_anomaly).
THEOREM AcknowledgedCorrect == DetectorSpec => []AcknowledgementsStand
<1>1. DetectorInv => AcknowledgementsStand
    BY DEF DetectorInv, Stands, SaidOf, AcknowledgementsStand
<1>. QED BY <1>1, DetectorInitially, DetectorStep, PTL DEF DetectorSpec

(***************************************************************************)
(* Accounts: an event names what it records, and it is recorded in the     *)
(* transaction that makes it true; nothing makes it true a second time.    *)
(***************************************************************************)
SessionRows == [user : Names, until : Int, revoked : BOOLEAN]

\* The event is in the trail once if it is true, and not at all otherwise.
RecordedOnceIf(event, holds) ==
    /\ event \in DOMAIN trail <=> holds
    /\ event \in DOMAIN trail => trail[event] = 1

AccountsTypes ==
    /\ Bag(trail) /\ sessions \in Seq(SessionRows) /\ clock \in Int
    /\ DOMAIN cookie = Browsers /\ \A b \in Browsers : cookie[b] \in 0..Len(sessions)

CreatedInv == \A u : RecordedOnceIf(Event("created", u), u \in DOMAIN accounts)

LoginInv == \A s : RecordedOnceIf(Event("login", s), s \in 1..Len(sessions))

LogoutInv ==
    \A s : RecordedOnceIf(Event("logout", s), s \in 1..Len(sessions) /\ sessions[s].revoked)

AccountsInv == AccountsTypes /\ CreatedInv /\ LoginInv /\ LogoutInv

\* An event that is new is in the trail once after it, and every other is as
\* often as before.
LEMMA RecordedStep ==
    ASSUME AccountsTypes, NEW e, Recorded(e)
    PROVE  /\ Bag(trail)' /\ e \in DOMAIN trail'
           /\ e \notin DOMAIN trail => trail'[e] = 1
           /\ \A x : x # e => /\ x \in DOMAIN trail' <=> x \in DOMAIN trail
                              /\ x \in DOMAIN trail => trail'[x] = trail[x]
<1>1. Bag(trail) /\ trail' = Plus(trail, e)
    BY DEF AccountsTypes, Recorded, Plus
<1>2. /\ Bag(trail') /\ DOMAIN trail' = DOMAIN trail \cup {e}
      /\ e \notin DOMAIN trail => trail'[e] = 1
      /\ \A x \in DOMAIN trail : x # e => trail'[x] = trail[x]
    BY <1>1, AddedCopies
<1> QED
    BY <1>2

\* An event is about one thing.
LEMMA EventsDiffer ==
    /\ \A x, y : Event("created", x) # Event("login", y)
    /\ \A x, y : Event("created", x) # Event("logout", y)
    /\ \A x, y : Event("created", x) # Event("login refused", y)
    /\ \A x, y : Event("login", x) # Event("logout", y)
    /\ \A x, y : Event("login", x) # Event("login refused", y)
    /\ \A x, y : Event("logout", x) # Event("login refused", y)
    /\ \A x, y : Event("created", x) = Event("created", y) => x = y
    /\ \A x, y : Event("login", x) = Event("login", y) => x = y
    /\ \A x, y : Event("logout", x) = Event("logout", y) => x = y
BY DEF Event

LEMMA AccountsInitially == AccountsInit => AccountsInv
<1> SUFFICES ASSUME AccountsInit PROVE AccountsInv
    OBVIOUS
<1>1. DOMAIN trail = {} /\ Bag(trail)
    <2>1. trail = [e \in {} |-> 1]
        BY DEF AccountsInit, EmptyBag, SetToBag
    <2> QED
        BY <2>1 DEF Bag
<1>2. sessions = <<>> /\ Len(sessions) = 0 /\ DOMAIN accounts = {}
    BY DEF AccountsInit
<1>3. AccountsTypes
    BY <1>1, <1>2 DEF AccountsInit, AccountsTypes
<1> QED
    BY <1>1, <1>2, <1>3 DEF AccountsInv, CreatedInv, LoginInv, LogoutInv, RecordedOnceIf

\* A step that records nothing and leaves accounts and sessions what they are.
LEMMA NothingRecorded ==
    ASSUME AccountsInv, UNCHANGED <<sessions, trail, cookie>>, DOMAIN accounts' = DOMAIN accounts,
           clock' \in Int
    PROVE  AccountsInv'
BY DEF AccountsInv, AccountsTypes, CreatedInv, LoginInv, LogoutInv, RecordedOnceIf, Bag

LEMMA LoginFailsStep ==
    ASSUME AccountsInv, NEW b \in Browsers, NEW n \in Names, LoginFails(b, n)
    PROVE  AccountsInv'
<1>1. PICK e : e = Event("login refused", n)
    OBVIOUS
<1>2. Recorded(e) /\ UNCHANGED <<accounts, sessions, cookie, clock>>
    BY <1>1 DEF LoginFails, Admits
<1>3. AccountsTypes /\ CreatedInv /\ LoginInv /\ LogoutInv
    BY DEF AccountsInv
<1>4. /\ Bag(trail)'
      /\ \A x : x # e => /\ x \in DOMAIN trail' <=> x \in DOMAIN trail
                         /\ x \in DOMAIN trail => trail'[x] = trail[x]
    BY <1>2, <1>3, RecordedStep
<1>5. AccountsTypes'
    BY <1>2, <1>3, <1>4 DEF AccountsTypes
<1>6. \A x : Event("created", x) # e /\ Event("login", x) # e /\ Event("logout", x) # e
    BY <1>1, EventsDiffer
<1>7. CreatedInv'
    BY <1>2, <1>3, <1>4, <1>6 DEF CreatedInv, RecordedOnceIf
<1>8. LoginInv'
    BY <1>2, <1>3, <1>4, <1>6 DEF LoginInv, RecordedOnceIf
<1>9. LogoutInv'
    BY <1>2, <1>3, <1>4, <1>6 DEF LogoutInv, RecordedOnceIf
<1> QED
    BY <1>5, <1>7, <1>8, <1>9 DEF AccountsInv

\* A session is one position further than all others.
LEMMA LoginStep ==
    ASSUME AccountsInv, NEW b \in Browsers, NEW n \in Names, NEW answered \in BOOLEAN,
           Login(b, n, answered)
    PROVE  AccountsInv'
<1>1. AccountsTypes /\ CreatedInv /\ LoginInv /\ LogoutInv
    BY DEF AccountsInv
<1>2. PICK k : k = Len(sessions)
    OBVIOUS
<1>3. PICK S : S = sessions
    OBVIOUS
<1>4. S \in Seq(SessionRows) /\ k \in Nat /\ k = Len(S)
    BY <1>1, <1>2, <1>3 DEF AccountsTypes
<1>5. PICK r : r = [user |-> n, until |-> clock + SessionLength, revoked |-> FALSE]
    OBVIOUS
<1>6. r \in SessionRows /\ ~r.revoked
    <2>1. ASSUME NEW x \in Int, NEW y \in Int PROVE x + y \in Int
        BY <2>1
    <2> QED
        BY <1>1, <1>5, <2>1, AccountsAssumption DEF AccountsTypes, SessionRows
<1>7. sessions' = Append(S, r) /\ UNCHANGED <<accounts, clock>>
    BY <1>3, <1>5 DEF Login, Admits
<1>8. /\ sessions' \in Seq(SessionRows) /\ Len(sessions') = k + 1
      /\ \A s \in 1..k : sessions'[s] = sessions[s]
      /\ sessions'[k + 1] = r
    BY <1>3, <1>4, <1>6, <1>7
<1>9. PICK e : e = Event("login", k + 1)
    OBVIOUS
<1>10. Recorded(e)
    BY <1>8, <1>9 DEF Login
<1>11. /\ Bag(trail)' /\ e \in DOMAIN trail'
       /\ e \notin DOMAIN trail => trail'[e] = 1
       /\ \A x : x # e => /\ x \in DOMAIN trail' <=> x \in DOMAIN trail
                          /\ x \in DOMAIN trail => trail'[x] = trail[x]
    BY <1>1, <1>10, RecordedStep
<1>12. e \notin DOMAIN trail
    BY <1>1, <1>2, <1>4, <1>9 DEF LoginInv, RecordedOnceIf
<1>13. AccountsTypes'
    <2>1. DOMAIN cookie' = Browsers /\ \A c \in Browsers : cookie'[c] \in {cookie[c], k + 1}
        BY <1>1, <1>8 DEF Login, AccountsTypes
    <2>2. \A c \in Browsers : cookie[c] \in 0..k
        BY <1>1, <1>2 DEF AccountsTypes
    <2>3. \A c \in Browsers : cookie'[c] \in 0..(k + 1)
        BY <1>4, <2>1, <2>2
    <2> QED
        BY <1>1, <1>7, <1>8, <1>11, <2>1, <2>3 DEF AccountsTypes
<1>14. CreatedInv'
    <2>1. \A x : Event("created", x) # e
        BY <1>9, EventsDiffer
    <2> QED
        BY <1>1, <1>7, <1>11, <2>1 DEF CreatedInv, RecordedOnceIf
<1>15. \A s : s \in 1..(k + 1) <=> (s \in 1..k \/ s = k + 1)
    BY <1>4
<1>16. LoginInv'
    <2>1. ASSUME NEW s, s # k + 1 PROVE Event("login", s) # e
        BY <1>9, <2>1, EventsDiffer
    <2>2. \A s : /\ Event("login", s) \in DOMAIN trail' <=> s \in 1..(k + 1)
                 /\ Event("login", s) \in DOMAIN trail' => trail'[Event("login", s)] = 1
        BY <1>1, <1>2, <1>9, <1>11, <1>12, <1>15, <2>1 DEF LoginInv, RecordedOnceIf
    <2> QED
        BY <1>8, <2>2 DEF LoginInv, RecordedOnceIf
<1>17. LogoutInv'
    <2>1. \A s : Event("logout", s) # e
        BY <1>9, EventsDiffer
    <2>2. \A s : (s \in 1..(k + 1) /\ sessions'[s].revoked) <=> (s \in 1..k /\ sessions[s].revoked)
        BY <1>6, <1>8, <1>15
    <2>3. \A s : /\ Event("logout", s) \in DOMAIN trail' <=> (s \in 1..k /\ sessions[s].revoked)
                 /\ Event("logout", s) \in DOMAIN trail' => trail'[Event("logout", s)] = 1
        BY <1>1, <1>2, <1>11, <2>1 DEF LogoutInv, RecordedOnceIf
    <2> QED
        BY <1>8, <2>2, <2>3 DEF LogoutInv, RecordedOnceIf
<1> QED
    BY <1>13, <1>14, <1>16, <1>17 DEF AccountsInv

\* A session is revoked by a request that found it not revoked.
LEMMA LogoutStep ==
    ASSUME AccountsInv, NEW b \in Browsers, NEW answered \in BOOLEAN, Logout(b, answered)
    PROVE  AccountsInv'
<1>1. AccountsTypes /\ CreatedInv /\ LoginInv /\ LogoutInv
    BY DEF AccountsInv
<1>2. PICK k : k = cookie[b]
    OBVIOUS
<1>3. k \in 1..Len(sessions) /\ ~sessions[k].revoked /\ Len(sessions) \in Nat
    <2>1. k \in 0..Len(sessions) /\ k # 0 /\ ~sessions[k].revoked /\ Len(sessions) \in Nat
        BY <1>1, <1>2 DEF Logout, Live, AccountsTypes
    <2> QED
        BY <2>1
<1>4. sessions' = [sessions EXCEPT ![k].revoked = TRUE] /\ UNCHANGED <<accounts, clock>>
    BY <1>2 DEF Logout, Admits
<1>5. \A s \in 1..Len(sessions) : sessions[s] \in SessionRows
    BY <1>1 DEF AccountsTypes
<1>6. /\ DOMAIN sessions' = 1..Len(sessions)
      /\ \A s \in 1..Len(sessions) : s # k => sessions'[s] = sessions[s]
      /\ sessions'[k] = [sessions[k] EXCEPT !.revoked = TRUE]
    <2>1. DOMAIN sessions = 1..Len(sessions)
        BY <1>1 DEF AccountsTypes
    <2>2. DOMAIN sessions' = DOMAIN sessions
        BY <1>4
    <2>3. \A s \in DOMAIN sessions :
            sessions'[s] = IF s = k THEN [sessions[k] EXCEPT !.revoked = TRUE] ELSE sessions[s]
        BY <1>4
    <2> QED
        BY <1>3, <2>1, <2>2, <2>3
<1>7. sessions'[k].revoked /\ sessions'[k] \in SessionRows
    BY <1>3, <1>5, <1>6 DEF SessionRows
<1>8. sessions' \in Seq(SessionRows) /\ Len(sessions') = Len(sessions)
    <2>1. \A s \in 1..Len(sessions) : sessions'[s] \in SessionRows
        BY <1>5, <1>6, <1>7
    <2>2. sessions' = [s \in 1..Len(sessions) |-> sessions'[s]]
        BY <1>4, <1>6
    <2>3. PICK n : n = Len(sessions)
        OBVIOUS
    <2>4. PICK T : T = sessions'
        OBVIOUS
    <2>5. T \in [1..n -> SessionRows] /\ n \in Nat
        BY <1>3, <2>1, <2>2, <2>3, <2>4
    <2>6. T \in Seq(SessionRows) /\ Len(T) = n
        BY <2>5
    <2> QED
        BY <2>3, <2>4, <2>6
<1>9. PICK e : e = Event("logout", k)
    OBVIOUS
<1>10. Recorded(e)
    BY <1>2, <1>9 DEF Logout
<1>11. /\ Bag(trail)' /\ e \in DOMAIN trail'
       /\ e \notin DOMAIN trail => trail'[e] = 1
       /\ \A x : x # e => /\ x \in DOMAIN trail' <=> x \in DOMAIN trail
                          /\ x \in DOMAIN trail => trail'[x] = trail[x]
    BY <1>1, <1>10, RecordedStep
<1>12. e \notin DOMAIN trail
    BY <1>1, <1>3, <1>9 DEF LogoutInv, RecordedOnceIf
<1>13. AccountsTypes'
    <2>1. DOMAIN cookie' = Browsers /\ \A c \in Browsers : cookie'[c] \in {cookie[c], 0}
        BY <1>1 DEF Logout, AccountsTypes
    <2>2. \A c \in Browsers : cookie[c] \in 0..Len(sessions)
        BY <1>1 DEF AccountsTypes
    <2>3. 0 \in 0..Len(sessions)
        BY <1>3
    <2> QED
        BY <1>1, <1>4, <1>8, <1>11, <2>1, <2>2, <2>3 DEF AccountsTypes
<1>14. CreatedInv'
    <2>1. \A x : Event("created", x) # e
        BY <1>9, EventsDiffer
    <2> QED
        BY <1>1, <1>4, <1>11, <2>1 DEF CreatedInv, RecordedOnceIf
<1>15. LoginInv'
    <2>1. \A s : Event("login", s) # e
        BY <1>9, EventsDiffer
    <2> QED
        BY <1>1, <1>8, <1>11, <2>1 DEF LoginInv, RecordedOnceIf
<1>16. LogoutInv'
    <2>1. ASSUME NEW s, s # k PROVE Event("logout", s) # e
        BY <1>9, <2>1, EventsDiffer
    <2>2. \A s : (s \in 1..Len(sessions) /\ sessions'[s].revoked) <=>
                     (s = k \/ (s \in 1..Len(sessions) /\ sessions[s].revoked))
        BY <1>3, <1>6, <1>7
    <2>3. \A s : /\ Event("logout", s) \in DOMAIN trail' <=>
                        (s = k \/ (s \in 1..Len(sessions) /\ sessions[s].revoked))
                 /\ Event("logout", s) \in DOMAIN trail' => trail'[Event("logout", s)] = 1
        BY <1>1, <1>9, <1>11, <1>12, <2>1 DEF LogoutInv, RecordedOnceIf
    <2> QED
        BY <1>8, <2>2, <2>3 DEF LogoutInv, RecordedOnceIf
<1> QED
    BY <1>13, <1>14, <1>15, <1>16 DEF AccountsInv

\* The unique constraints let an account be inserted only where there was none.
LEMMA InsertStep ==
    ASSUME AccountsInv, NEW w \in {"api", "bootstrap"}, Insert(w)
    PROVE  AccountsInv'
<1>1. AccountsTypes /\ CreatedInv /\ LoginInv /\ LogoutInv /\ clock \in Int
    BY DEF AccountsInv, AccountsTypes
<1>2. UNCHANGED <<sessions, cookie, clock>>
    BY DEF Insert
<1>3. CASE UNCHANGED <<accounts, trail>>
    BY <1>1, <1>2, <1>3, NothingRecorded
<1>4. ASSUME NEW p, ~Taken(p.name, p.mail), accounts' = WithAccount(p),
             Recorded(Event("created", p.name))
      PROVE  AccountsInv'
    <2>1. PICK n : n = p.name
        OBVIOUS
    <2>2. n \notin DOMAIN accounts /\ DOMAIN accounts' = DOMAIN accounts \cup {n}
        BY <1>4, <2>1 DEF Taken, WithAccount
    <2>3. PICK e : e = Event("created", n)
        OBVIOUS
    <2>4. /\ Bag(trail)' /\ e \in DOMAIN trail'
          /\ e \notin DOMAIN trail => trail'[e] = 1
          /\ \A x : x # e => /\ x \in DOMAIN trail' <=> x \in DOMAIN trail
                             /\ x \in DOMAIN trail => trail'[x] = trail[x]
        BY <1>1, <1>4, <2>1, <2>3, RecordedStep
    <2>5. e \notin DOMAIN trail
        BY <1>1, <2>2, <2>3 DEF CreatedInv, RecordedOnceIf
    <2>6. AccountsTypes'
        BY <1>1, <1>2, <2>4 DEF AccountsTypes
    <2>7. \A x : Event("login", x) # e /\ Event("logout", x) # e
        BY <2>3, EventsDiffer
    <2>8. LoginInv'
        BY <1>1, <1>2, <2>4, <2>7 DEF LoginInv, RecordedOnceIf
    <2>9. LogoutInv'
        BY <1>1, <1>2, <2>4, <2>7 DEF LogoutInv, RecordedOnceIf
    <2>10. CreatedInv'
        <3>1. ASSUME NEW u, u # n PROVE Event("created", u) # e
            BY <2>3, <3>1, EventsDiffer
        <3> QED
            BY <1>1, <2>2, <2>3, <2>4, <2>5, <3>1 DEF CreatedInv, RecordedOnceIf
    <2> QED
        BY <2>6, <2>8, <2>9, <2>10 DEF AccountsInv
<1> QED
    BY <1>3, <1>4 DEF Insert

LEMMA AccountsStep == AccountsInv /\ [AccountsNext]_accountVars => AccountsInv'
<1> SUFFICES ASSUME AccountsInv, [AccountsNext]_accountVars PROVE AccountsInv'
    OBVIOUS
<1>1. clock \in Int
    BY DEF AccountsInv, AccountsTypes
<1>2. ASSUME NEW b \in Browsers, NEW n \in Names,
             \E m \in Mails, r \in Roles \ {"operator"} : Register(b, n, m, r)
      PROVE  AccountsInv'
    BY <1>1, <1>2, NothingRecorded DEF Register, Admits, Checked
<1>3. ASSUME NEW b \in Browsers, NEW answered \in BOOLEAN, LoadPage(b, answered)
      PROVE  AccountsInv'
    BY <1>1, <1>3, NothingRecorded DEF LoadPage, Admits
<1>4. ASSUME NEW n \in Names, NEW m \in Mails, Bootstrap(n, m) PROVE AccountsInv'
    BY <1>1, <1>4, NothingRecorded DEF Bootstrap, Checked
<1>5. ASSUME NEW n \in Names, Deactivate(n) PROVE AccountsInv'
    <2>1. DOMAIN accounts' = DOMAIN accounts
        BY <1>5 DEF Deactivate
    <2> QED
        BY <1>1, <1>5, <2>1, NothingRecorded DEF Deactivate
<1>6. CASE ClockTicks
    <2>1. clock' \in Int
        BY <1>1, <1>6 DEF ClockTicks
    <2> QED
        BY <1>6, <2>1, NothingRecorded DEF ClockTicks
<1>7. CASE UNCHANGED accountVars
    BY <1>1, <1>7, NothingRecorded DEF accountVars
<1> QED
    BY <1>2, <1>3, <1>4, <1>5, <1>6, <1>7, LoginFailsStep, LoginStep, LogoutStep, InsertStep
    DEF AccountsNext

\* Every account, session and revocation has its audit event exactly once, for
\* any number of users, browsers, sessions and writers.
THEOREM AuditCorrect == AccountsSpec => []AuditIsComplete
<1>1. AccountsInv => AuditIsComplete
    <2> SUFFICES ASSUME AccountsInv PROVE AuditIsComplete
        OBVIOUS
    <2>1. \A u \in Names : Recordings(Event("created", u)) = IF u \in DOMAIN accounts THEN 1 ELSE 0
        BY DEF AccountsInv, CreatedInv, RecordedOnceIf, Recordings, BagIn, BagToSet
    <2>2. \A s \in 1..Len(sessions) : Recordings(Event("login", s)) = 1
        BY DEF AccountsInv, LoginInv, RecordedOnceIf, Recordings, BagIn, BagToSet
    <2>3. \A s \in 1..Len(sessions) :
            Recordings(Event("logout", s)) = IF sessions[s].revoked THEN 1 ELSE 0
        BY DEF AccountsInv, LogoutInv, RecordedOnceIf, Recordings, BagIn, BagToSet
    <2> QED
        BY <2>1, <2>2, <2>3 DEF AuditIsComplete
<1> QED
    BY <1>1, AccountsInitially, AccountsStep, PTL DEF AccountsSpec

(***************************************************************************)
(* The rate limiter: the list of an address has every request of the last  *)
(* minute, so of each kind no more than its limit are in any minute.       *)
(***************************************************************************)
Since(requests, kind, start) == {r \in requests : r.at > start /\ r.kind = kind}
During(requests, kind, t) == {r \in requests : r.at > t - Minute /\ r.at <= t /\ r.kind = kind}
Alike(requests, r) == {q \in requests : q.at = r.at /\ q.kind = r.kind}

Limited(requests) ==
    \A t \in 0..MaxClock, kind \in {"login", "other"} :
        Cardinality(During(requests, kind, t)) <= Limit(kind)

Tracks(requests, list, now) ==
    /\ now \in Int /\ IsFiniteSet(requests)
    /\ \A r \in requests : /\ r.at \in Int /\ r.at <= now /\ r.kind \in {"login", "other"}
                           /\ r.nth \in 1..Cardinality(Alike(requests, r))
    /\ list \subseteq requests /\ \A r \in requests : r.at > now - Minute => r \in list
    /\ \A kind \in {"login", "other"} :
          Cardinality(Since(requests, kind, now - Minute)) <= Limit(kind)
    /\ Limited(requests)

LimiterInv == \A b \in Browsers : Tracks(admitted[b], history[b], clock)
LimiterTypes == DOMAIN admitted = Browsers /\ DOMAIN history = Browsers

LEMMA LimitIs == \A kind : Limit(kind) \in Nat
BY AccountsAssumption DEF AccountsAssumption, Limit

LEMMA SubsetCount ==
    ASSUME NEW S, IsFiniteSet(S), NEW T, T \subseteq S
    PROVE  IsFiniteSet(T) /\ Cardinality(T) \in Nat /\ Cardinality(S) \in Nat
           /\ Cardinality(T) <= Cardinality(S)
BY FS_Subset, FS_CardinalityType

\* A request that is let through is a new one, and within the limit of its kind.
LEMMA LetThrough ==
    ASSUME NEW requests, NEW list, NEW now, Tracks(requests, list, now),
           NEW kind \in {"login", "other"}, NEW x,
           x = [at |-> now, kind |-> kind,
                nth |-> Cardinality({r \in requests : r.at = now /\ r.kind = kind}) + 1],
           NEW inWindow, inWindow = {r \in list : r.at > now - Minute},
           (IF kind = "login" THEN Cardinality({r \in inWindow : r.kind = "login"})
                              ELSE Cardinality(inWindow)) < Limit(kind)
    PROVE  Tracks(requests \cup {x}, inWindow \cup {x}, now)
<1>. DEFINE more == requests \cup {x}
            start == now - Minute
            alike == {r \in requests : r.at = now /\ r.kind = kind}
<1>1. /\ now \in Int /\ IsFiniteSet(requests) /\ list \subseteq requests /\ Limited(requests)
      /\ \A r \in requests : /\ r.at \in Int /\ r.at <= now /\ r.kind \in {"login", "other"}
                             /\ r.nth \in 1..Cardinality(Alike(requests, r))
      /\ \A r \in requests : r.at > now - Minute => r \in list
      /\ \A k \in {"login", "other"} : Cardinality(Since(requests, k, start)) <= Limit(k)
  BY DEF Tracks
<1>2. x.at = now /\ x.kind = kind /\ x.nth = Cardinality(alike) + 1
  OBVIOUS
<1>3. IsFiniteSet(more) /\ IsFiniteSet(alike) /\ Cardinality(alike) \in Nat
  <2>1. alike \subseteq requests
    OBVIOUS
  <2>. HIDE DEF alike
  <2>. QED BY <1>1, <2>1, FS_AddElement, SubsetCount
<1>4. x \notin requests
  <2>1. SUFFICES ASSUME x \in requests PROVE FALSE
    OBVIOUS
  <2>2. Alike(requests, x) = alike
    BY <1>2 DEF Alike
  <2>3. x.nth \in 1..Cardinality(alike)
    BY <1>1, <2>1, <2>2
  <2>. HIDE DEF alike
  <2>. QED BY <1>2, <1>3, <2>3
<1>5. inWindow = {r \in requests : r.at > start}
  BY <1>1
<1>6. IsFiniteSet(inWindow)
  <2>1. inWindow \subseteq requests
    BY <1>5
  <2>. QED BY <1>1, <2>1, SubsetCount
<1>7. Cardinality(Since(requests, kind, start)) < Limit(kind) /\ IsFiniteSet(Since(requests, kind, start))
  <2>1. Since(requests, kind, start) = {r \in inWindow : r.kind = kind}
    BY <1>5 DEF Since
  <2>2. Since(requests, kind, start) \subseteq inWindow
    BY <2>1
  <2>3. /\ IsFiniteSet(Since(requests, kind, start))
        /\ Cardinality(Since(requests, kind, start)) <= Cardinality(inWindow)
        /\ Cardinality(Since(requests, kind, start)) \in Nat /\ Cardinality(inWindow) \in Nat
    BY <1>6, <2>2, SubsetCount
  <2>4. CASE kind = "login"
    BY <2>1, <2>3, <2>4
  <2>5. CASE kind # "login"
    BY <2>3, <2>5, LimitIs
  <2>. QED BY <2>3, <2>4, <2>5
<1>8. ASSUME NEW k \in {"login", "other"}
      PROVE  Cardinality(Since(more, k, start)) <= Limit(k) /\ IsFiniteSet(Since(more, k, start))
  <2>1. CASE k = kind
    <3>1. Since(more, k, start) \subseteq Since(requests, kind, start) \cup {x}
      BY <2>1 DEF Since
    <3>2. /\ IsFiniteSet(Since(requests, kind, start) \cup {x})
          /\ Cardinality(Since(requests, kind, start) \cup {x}) <= Cardinality(Since(requests, kind, start)) + 1
      <4>1. x \notin Since(requests, kind, start)
        BY <1>4 DEF Since
      <4>2. Cardinality(Since(requests, kind, start)) \in Nat
        BY <1>7, FS_CardinalityType
      <4>3. /\ IsFiniteSet(Since(requests, kind, start) \cup {x})
            /\ Cardinality(Since(requests, kind, start) \cup {x}) = Cardinality(Since(requests, kind, start)) + 1
        <5>. HIDE DEF start
        <5>. QED BY <1>7, <4>1, FS_AddElement
      <4>. QED BY <4>2, <4>3
    <3>3. /\ IsFiniteSet(Since(more, k, start)) /\ Cardinality(Since(more, k, start)) \in Nat
          /\ Cardinality(Since(requests, kind, start) \cup {x}) \in Nat
          /\ Cardinality(Since(more, k, start)) <= Cardinality(Since(requests, kind, start) \cup {x})
      BY <3>1, <3>2, SubsetCount
    <3>4. Cardinality(Since(requests, kind, start)) \in Nat /\ Limit(kind) \in Nat
      BY <1>7, FS_CardinalityType, LimitIs
    <3>. QED BY <1>7, <2>1, <3>2, <3>3, <3>4
  <2>2. CASE k # kind
    <3>1. Since(more, k, start) = Since(requests, k, start)
      BY <1>2, <2>2 DEF Since
    <3>2. Since(requests, k, start) \subseteq requests
      BY DEF Since
    <3>3. IsFiniteSet(Since(requests, k, start))
      BY <1>1, <3>2, SubsetCount
    <3>. QED BY <1>1, <3>1, <3>3
  <2>. QED BY <2>1, <2>2
<1>9. Limited(more)
  <2>1. SUFFICES ASSUME NEW t \in 0..MaxClock, NEW k \in {"login", "other"}
                 PROVE  Cardinality(During(more, k, t)) <= Limit(k)
    BY DEF Limited
  <2>2. CASE t < now
    <3>1. During(more, k, t) = During(requests, k, t)
      <4>1. ~(x.at <= t)
        BY <1>1, <1>2, <2>2, AccountsAssumption DEF AccountsAssumption
      <4>. QED BY <4>1 DEF During
    <3>. QED BY <1>1, <3>1 DEF Limited
  <2>3. CASE ~(t < now)
    <3>1. ASSUME NEW r \in During(more, k, t) PROVE r \in Since(more, k, start)
      <4>1. r.at > t - Minute /\ r.kind = k /\ r \in more /\ r.at \in Int
        BY <1>1, <1>2 DEF During
      <4>2. r.at > start
        BY <1>1, <2>3, <4>1, AccountsAssumption DEF AccountsAssumption
      <4>. QED BY <4>1, <4>2 DEF Since
    <3>2. /\ Cardinality(During(more, k, t)) <= Cardinality(Since(more, k, start))
          /\ Cardinality(During(more, k, t)) \in Nat /\ Cardinality(Since(more, k, start)) \in Nat
      <4>1. During(more, k, t) \subseteq Since(more, k, start)
        BY <3>1
      <4>. QED BY <1>8, <4>1, SubsetCount
    <3>. QED BY <1>8, <3>2, LimitIs
  <2>. QED BY <2>2, <2>3
<1>10. ASSUME NEW r \in more
      PROVE  /\ r.at \in Int /\ r.at <= now /\ r.kind \in {"login", "other"}
             /\ r.nth \in 1..Cardinality(Alike(more, r))
  <2>1. r.at \in Int /\ r.at <= now /\ r.kind \in {"login", "other"}
    BY <1>1, <1>2
  <2>2. /\ IsFiniteSet(Alike(more, r)) /\ Cardinality(Alike(more, r)) \in Nat
    <3>1. Alike(more, r) \subseteq more
      BY DEF Alike
    <3>. QED BY <1>3, <3>1, SubsetCount
  <2>3. CASE r \in requests
    <3>1. Alike(requests, r) \subseteq Alike(more, r)
      BY DEF Alike
    <3>2. Cardinality(Alike(requests, r)) <= Cardinality(Alike(more, r)) /\ Cardinality(Alike(requests, r)) \in Nat
      BY <2>2, <3>1, SubsetCount
    <3>3. r.nth \in 1..Cardinality(Alike(requests, r))
      BY <1>1, <2>3
    <3>. QED BY <2>1, <2>2, <3>2, <3>3
  <2>4. CASE r = x
    <3>1. Alike(more, r) = alike \cup {x}
      BY <1>2, <2>4 DEF Alike
    <3>2. x \notin alike
      BY <1>4
    <3>3. Cardinality(alike \cup {x}) = Cardinality(alike) + 1
      <4>. HIDE DEF alike
      <4>. QED BY <1>3, <3>2, FS_AddElement
    <3>4. r.nth = Cardinality(alike) + 1
      BY <1>2, <2>4
    <3>5. r.nth \in 1..Cardinality(Alike(more, r))
      <4>1. Cardinality(Alike(more, r)) = Cardinality(alike) + 1
        BY <3>1, <3>3
      <4>2. Cardinality(alike) \in Nat
        BY <1>3
      <4>. HIDE DEF alike
      <4>. QED BY <3>4, <4>1, <4>2
    <3>. QED BY <2>1, <3>5
  <2>. QED BY <2>3, <2>4
<1>11. inWindow \cup {x} \subseteq more /\ \A r \in more : r.at > now - Minute => r \in inWindow \cup {x}
  BY <1>5
<1>. QED BY <1>1, <1>3, <1>8, <1>9, <1>10, <1>11 DEF Tracks

\* Time passes.
LEMMA TimePasses ==
    ASSUME NEW requests, NEW list, NEW now, Tracks(requests, list, now)
    PROVE  Tracks(requests, list, now + 1)
<1>1. /\ now \in Int /\ IsFiniteSet(requests) /\ list \subseteq requests /\ Limited(requests)
      /\ \A r \in requests : /\ r.at \in Int /\ r.at <= now /\ r.kind \in {"login", "other"}
                             /\ r.nth \in 1..Cardinality(Alike(requests, r))
      /\ \A r \in requests : r.at > now - Minute => r \in list
      /\ \A k \in {"login", "other"} : Cardinality(Since(requests, k, now - Minute)) <= Limit(k)
  BY DEF Tracks
<1>2. Minute \in Int
  BY AccountsAssumption DEF AccountsAssumption
<1>3. \A r \in requests : r.at <= now + 1 /\ (r.at > (now + 1) - Minute => r.at > now - Minute)
  BY <1>1, <1>2
<1>4. ASSUME NEW k \in {"login", "other"}
      PROVE  Cardinality(Since(requests, k, (now + 1) - Minute)) <= Limit(k)
  <2>1. Since(requests, k, (now + 1) - Minute) \subseteq Since(requests, k, now - Minute)
    BY <1>3 DEF Since
  <2>2. Since(requests, k, now - Minute) \subseteq requests
    BY DEF Since
  <2>3. IsFiniteSet(Since(requests, k, now - Minute))
    BY <1>1, <2>2, SubsetCount
  <2>4. /\ Cardinality(Since(requests, k, (now + 1) - Minute)) <= Cardinality(Since(requests, k, now - Minute))
        /\ Cardinality(Since(requests, k, (now + 1) - Minute)) \in Nat
        /\ Cardinality(Since(requests, k, now - Minute)) \in Nat
    BY <2>1, <2>3, SubsetCount
  <2>. QED BY <1>1, <2>4, LimitIs
<1>5. now + 1 \in Int
  BY <1>1
<1>. QED BY <1>1, <1>3, <1>4, <1>5 DEF Tracks

\* No more requests are in a minute than logins and others together.
LEMMA WithinTheLimits ==
    ASSUME NEW requests, NEW list, NEW now, Tracks(requests, list, now), NEW t \in 0..MaxClock,
           NEW within, within = {r \in requests : r.at > t - Minute /\ r.at <= t}
    PROVE  /\ Cardinality({r \in within : r.kind = "login"}) <= LoginLimit
           /\ Cardinality(within) <= LoginLimit + RequestLimit
<1>. DEFINE logins == During(requests, "login", t)
            others == During(requests, "other", t)
<1>1. IsFiniteSet(requests) /\ \A r \in requests : r.kind \in {"login", "other"}
  BY DEF Tracks
<1>2. Cardinality(logins) <= LoginLimit /\ Cardinality(others) <= RequestLimit
  BY DEF Tracks, Limited, Limit
<1>3. logins \subseteq requests /\ others \subseteq requests
  BY DEF During
<1>4. /\ IsFiniteSet(logins) /\ Cardinality(logins) \in Nat
      /\ IsFiniteSet(others) /\ Cardinality(others) \in Nat
  BY <1>1, <1>3, SubsetCount
<1>5. {r \in within : r.kind = "login"} = logins
  BY DEF During
<1>6. within = logins \cup others
  BY <1>1 DEF During
<1>7. logins \cap others = {}
  BY DEF During
<1>8. Cardinality(logins \cup others) = Cardinality(logins) + Cardinality(others)
  <2>. HIDE DEF logins, others
  <2>1. Cardinality(logins \cap others) = 0
    BY <1>7, FS_EmptySet
  <2>2. Cardinality(logins \cup others)
        = Cardinality(logins) + Cardinality(others) - Cardinality(logins \cap others)
    BY <1>4, FS_Union
  <2>. QED BY <1>4, <2>1, <2>2
<1>9. LoginLimit \in Nat /\ RequestLimit \in Nat
  BY AccountsAssumption DEF AccountsAssumption
<1>. HIDE DEF logins, others
<1>10. Cardinality(within) <= LoginLimit + RequestLimit
  <2>1. Cardinality(within) = Cardinality(logins) + Cardinality(others)
    BY <1>6, <1>8
  <2>. QED BY <1>2, <1>4, <1>9, <2>1
<1>. QED BY <1>2, <1>5, <1>10

LEMMA NothingYet == AccountsInit => LimiterInv /\ LimiterTypes
<1>. SUFFICES ASSUME AccountsInit PROVE LimiterInv /\ LimiterTypes
  OBVIOUS
<1>1. LimiterTypes
  BY DEF AccountsInit, LimiterTypes
<1>2. ASSUME NEW b \in Browsers PROVE Tracks(admitted[b], history[b], clock)
  <2>1. admitted[b] = {} /\ history[b] = {} /\ clock = 0
    BY DEF AccountsInit
  <2>2. \A k, s : Since({}, k, s) = {}
    BY DEF Since
  <2>3. \A k, t : During({}, k, t) = {}
    BY DEF During
  <2>4. IsFiniteSet({}) /\ Cardinality({}) = 0
    BY FS_EmptySet
  <2>5. \A k, s : Cardinality(Since({}, k, s)) <= Limit(k)
    BY <2>2, <2>4, LimitIs
  <2>6. Limited({})
    BY <2>3, <2>4, LimitIs DEF Limited
  <2>. QED BY <2>1, <2>4, <2>5, <2>6 DEF Tracks
<1>. QED BY <1>1, <1>2 DEF LimiterInv

LEMMA LimiterStep ==
    LimiterInv /\ LimiterTypes /\ [AccountsNext]_accountVars => LimiterInv' /\ LimiterTypes'
<1>. SUFFICES ASSUME LimiterInv, LimiterTypes, [AccountsNext]_accountVars
              PROVE  LimiterInv' /\ LimiterTypes'
  OBVIOUS
<1>1. ASSUME NEW b \in Browsers, NEW kind \in {"login", "other"}, Admits(b, kind)
      PROVE  LimiterInv' /\ LimiterTypes'
  <2>1. PICK x : x = Request(b, kind)
    OBVIOUS
  <2>2. PICK inWindow : inWindow = Recent(b)
    OBVIOUS
  <2>3. /\ x = [at |-> clock, kind |-> kind,
                nth |-> Cardinality({r \in admitted[b] : r.at = clock /\ r.kind = kind}) + 1]
        /\ inWindow = {r \in history[b] : r.at > clock - Minute}
    BY <2>1, <2>2 DEF Request, Recent
  <2>4. (IF kind = "login" THEN Cardinality({r \in inWindow : r.kind = "login"})
                           ELSE Cardinality(inWindow)) < Limit(kind)
    BY <1>1, <2>2 DEF Admits, Counted
  <2>5. Tracks(admitted[b], history[b], clock)
    BY DEF LimiterInv
  <2>6. Tracks(admitted[b] \cup {x}, inWindow \cup {x}, clock)
    BY <2>3, <2>4, <2>5, LetThrough
  <2>7. /\ history' = [history EXCEPT ![b] = inWindow \cup {x}]
        /\ admitted' = [admitted EXCEPT ![b] = admitted[b] \cup {x}]
        /\ clock' = clock
    BY <1>1, <2>1, <2>2 DEF Admits
  <2>8. \A c \in Browsers :
           /\ admitted'[c] = IF c = b THEN admitted[b] \cup {x} ELSE admitted[c]
           /\ history'[c] = IF c = b THEN inWindow \cup {x} ELSE history[c]
    BY <2>7 DEF LimiterTypes
  <2>9. LimiterTypes'
    BY <2>7 DEF LimiterTypes
  <2>10. ASSUME NEW c \in Browsers PROVE Tracks(admitted'[c], history'[c], clock')
    <3>1. CASE c = b
      BY <2>6, <2>7, <2>8, <3>1
    <3>2. CASE c # b
      <4>1. admitted'[c] = admitted[c] /\ history'[c] = history[c] /\ clock' = clock
        BY <2>7, <2>8, <3>2
      <4>2. Tracks(admitted[c], history[c], clock)
        BY DEF LimiterInv
      <4>. QED BY <4>1, <4>2
    <3>. QED BY <3>1, <3>2
  <2>. QED BY <2>9, <2>10 DEF LimiterInv
<1>2. CASE UNCHANGED <<history, admitted, clock>>
  BY <1>2 DEF LimiterInv, LimiterTypes
<1>3. CASE ClockTicks
  <2>1. history' = history /\ admitted' = admitted /\ clock' = clock + 1
    BY <1>3 DEF ClockTicks
  <2>2. ASSUME NEW b \in Browsers PROVE Tracks(admitted[b], history[b], clock + 1)
    BY TimePasses DEF LimiterInv
  <2>. QED BY <2>1, <2>2 DEF LimiterInv, LimiterTypes
<1>4. CASE AccountsNext
  <2>1. ASSUME NEW b \in Browsers, NEW n \in Names, LoginFails(b, n)
        PROVE  LimiterInv' /\ LimiterTypes'
    BY <1>1, <2>1 DEF LoginFails
  <2>2. ASSUME NEW b \in Browsers, NEW n \in Names, NEW answered \in BOOLEAN,
               Login(b, n, answered)
        PROVE  LimiterInv' /\ LimiterTypes'
    BY <1>1, <2>2 DEF Login
  <2>3. ASSUME NEW b \in Browsers, NEW n \in Names, NEW m \in Mails,
               NEW r \in Roles \ {"operator"}, Register(b, n, m, r)
        PROVE  LimiterInv' /\ LimiterTypes'
    BY <1>1, <2>3 DEF Register
  <2>4. ASSUME NEW b \in Browsers, NEW answered \in BOOLEAN,
               Logout(b, answered) \/ LoadPage(b, answered)
        PROVE  LimiterInv' /\ LimiterTypes'
    BY <1>1, <2>4 DEF Logout, LoadPage
  <2>5. CASE \E n \in Names, m \in Mails : Bootstrap(n, m)
    BY <1>2, <2>5 DEF Bootstrap
  <2>6. CASE \E w \in {"api", "bootstrap"} : Insert(w)
    BY <1>2, <2>6 DEF Insert
  <2>7. CASE \E n \in Names : Deactivate(n)
    BY <1>2, <2>7 DEF Deactivate
  <2>. QED BY <1>3, <1>4, <2>1, <2>2, <2>3, <2>4, <2>5, <2>6, <2>7 DEF AccountsNext
<1>5. CASE UNCHANGED accountVars
  BY <1>2, <1>5 DEF accountVars
<1>. QED BY <1>4, <1>5

\* Whichever minute one looks at, no address got more logins through than the
\* login limit, nor more requests than both limits together, however its
\* requests are spread and whatever else goes on between them
\* (rate_limiter.py RateLimiter, with auth.py).
THEOREM LimitsCorrect == AccountsSpec => []LimitsHold
<1>1. LimiterInv => LimitsHold
  <2>. SUFFICES ASSUME LimiterInv, NEW b \in Browsers, NEW t \in 0..MaxClock
                PROVE  LET Within == {r \in admitted[b] : r.at > t - Minute /\ r.at <= t}
                       IN  /\ Cardinality({r \in Within : r.kind = "login"}) <= LoginLimit
                           /\ Cardinality(Within) <= LoginLimit + RequestLimit
    BY DEF LimitsHold
  <2>1. PICK within : within = {r \in admitted[b] : r.at > t - Minute /\ r.at <= t}
    OBVIOUS
  <2>2. Tracks(admitted[b], history[b], clock)
    BY DEF LimiterInv
  <2>3. /\ Cardinality({r \in within : r.kind = "login"}) <= LoginLimit
        /\ Cardinality(within) <= LoginLimit + RequestLimit
    BY <2>1, <2>2, WithinTheLimits
  <2>. QED BY <2>1, <2>3
<1>. QED BY <1>1, NothingYet, LimiterStep, PTL DEF AccountsSpec
(***************************************************************************)
(* Live ingestion: an observation is inserted once, and what is evaluated  *)
(* is inserted with it, so a pair is new when its later report is.         *)
(***************************************************************************)
IsPair(e) == e = [previous |-> e.previous, current |-> e.current, status |-> e.status]

TableShape(t) ==
    /\ t = [observations |-> t.observations, pairs |-> t.pairs, windows |-> t.windows,
            alerts |-> t.alerts, rows |-> t.rows, trail |-> t.trail]
    /\ IsFiniteSet(t.observations) /\ Bag(t.alerts)

PairInv(t) ==
    /\ \A e \in t.pairs :
          IsPair(e) /\ e.previous \in t.observations /\ e.current \in t.observations
    /\ \A e, f \in t.pairs : e.current = f.current => e = f

AlertInv(t) ==
    /\ \A e \in t.pairs : e.status = "FLAGGED" => OnceIn(Alert(e), t.alerts)
    /\ \A a \in DOMAIN t.alerts : \E e \in t.pairs : a = Alert(e) /\ e.status = "FLAGGED"

WindowInv(t) ==
    \A w \in t.windows : \A i \in 1..Len(w.reports) : w.reports[i] \in t.observations

\* Of the committed tables and of those the open session sees.
TablesInv(t) == TableShape(t) /\ PairInv(t) /\ AlertInv(t) /\ WindowInv(t)

IngestInv == TablesInv(db) /\ TablesInv(work)

LEMMA AlertsDiffer == \A e, f : Alert(e) = Alert(f) => e = f
BY DEF Alert

LEMMA ObservationInserted ==
    ASSUME NEW t, TablesInv(t), NEW o, o \notin t.observations,
           NEW u, u = [t EXCEPT !.observations = @ \cup {o}]
    PROVE  /\ TablesInv(u) /\ o \in u.observations
           /\ \A e \in u.pairs : e.current # o
<1>1. u = [observations |-> t.observations \cup {o}, pairs |-> t.pairs, windows |-> t.windows,
           alerts |-> t.alerts, rows |-> t.rows, trail |-> t.trail]
    BY DEF TablesInv, TableShape
<1>2. IsFiniteSet(t.observations \cup {o})
    BY FS_AddElement DEF TablesInv, TableShape
<1>3. TableShape(u)
    BY <1>1, <1>2 DEF TablesInv, TableShape
<1>4. PairInv(u) /\ \A e \in u.pairs : e.current # o
    BY <1>1 DEF TablesInv, PairInv
<1>5. AlertInv(u)
    BY <1>1 DEF TablesInv, AlertInv
<1>6. WindowInv(u)
    BY <1>1 DEF TablesInv, WindowInv
<1> QED
    BY <1>1, <1>3, <1>4, <1>5, <1>6 DEF TablesInv

LEMMA PairInserted ==
    ASSUME NEW t, TablesInv(t), NEW e, IsPair(e),
           e.previous \in t.observations, e.current \in t.observations,
           \A f \in t.pairs : f.current # e.current,
           NEW u, u = WithPair(t, e)
    PROVE  TablesInv(u) /\ u.observations = t.observations
<1>1. e \notin t.pairs
    OBVIOUS
<1>2. u = [observations |-> t.observations, pairs |-> t.pairs \cup {e}, windows |-> t.windows,
           alerts |-> IF e.status = "FLAGGED" THEN Plus(t.alerts, Alert(e)) ELSE t.alerts,
           rows |-> t.rows, trail |-> t.trail]
    BY <1>1 DEF TablesInv, TableShape, WithPair, Plus
<1>3. Alert(e) \notin DOMAIN t.alerts
    BY <1>1, AlertsDiffer DEF TablesInv, AlertInv
<1>4. PICK a : a = Alert(e)
    OBVIOUS
<1>5. CASE e.status = "FLAGGED"
    <2>1. u.alerts = Plus(t.alerts, a) /\ u.pairs = t.pairs \cup {e}
        BY <1>2, <1>4, <1>5
    <2>2. /\ Bag(u.alerts) /\ DOMAIN u.alerts = DOMAIN t.alerts \cup {a}
          /\ u.alerts[a] = 1
          /\ \A x \in DOMAIN t.alerts : x # a => u.alerts[x] = t.alerts[x]
        <3>1. Bag(t.alerts) /\ a \notin DOMAIN t.alerts
            BY <1>3, <1>4 DEF TablesInv, TableShape
        <3>2. PICK b : b = t.alerts
            OBVIOUS
        <3>3. /\ Bag(Plus(b, a)) /\ DOMAIN Plus(b, a) = DOMAIN b \cup {a}
              /\ Plus(b, a)[a] = 1
              /\ \A x \in DOMAIN b : x # a => Plus(b, a)[x] = b[x]
            <4>1. Bag(b) /\ a \notin DOMAIN b
                BY <3>1, <3>2
            <4> HIDE DEF Bag, Plus
            <4> QED
                BY <4>1, AddedCopies
        <3> QED
            BY <2>1, <3>2, <3>3
    <2>3. AlertInv(u)
        <3>1. ASSUME NEW f \in t.pairs, f.status = "FLAGGED" PROVE OnceIn(Alert(f), u.alerts)
            <4>1. OnceIn(Alert(f), t.alerts)
                BY <3>1 DEF TablesInv, AlertInv
            <4> QED
                BY <1>3, <1>4, <2>2, <4>1 DEF OnceIn
        <3>2. OnceIn(Alert(e), u.alerts)
            BY <1>4, <2>2 DEF OnceIn
        <3>3. \A x \in DOMAIN u.alerts : \E f \in u.pairs : x = Alert(f) /\ f.status = "FLAGGED"
            BY <1>4, <1>5, <2>1, <2>2 DEF TablesInv, AlertInv
        <3> QED
            BY <2>1, <3>1, <3>2, <3>3 DEF AlertInv
    <2> QED
        BY <1>2, <2>2, <2>3 DEF TablesInv, TableShape, PairInv, WindowInv
<1>6. CASE e.status # "FLAGGED"
    <2>1. u.alerts = t.alerts /\ u.pairs = t.pairs \cup {e}
        BY <1>2, <1>6
    <2>2. AlertInv(u)
        BY <1>6, <2>1 DEF TablesInv, AlertInv
    <2> QED
        BY <1>2, <2>1, <2>2 DEF TablesInv, TableShape, PairInv, WindowInv
<1> QED
    BY <1>2, <1>5, <1>6

LEMMA WindowReports ==
    ASSUME NEW S, IsFiniteSet(S), NEW v \in InOrder(S)
    PROVE  LET w == SubSeq(v, Larger(1, Len(v) - Policy.maxObservations + 1), Len(v))
           IN  \A i \in 1..Len(w) : w[i] \in S
<1>1. PICK n : n = Cardinality(S)
    OBVIOUS
<1>2. n \in Nat
    BY <1>1, FS_CardinalityType
<1>3. v \in [1..n -> S]
    BY <1>1 DEF InOrder
<1>4. v \in Seq(S) /\ Len(v) = n
    BY <1>2, <1>3
<1>5. PICK m : m = Larger(1, n - Policy.maxObservations + 1)
    OBVIOUS
<1>6. m \in Int /\ m >= 1
    BY <1>2, <1>5, PolicyAssumption DEF Larger
<1>7. \A i \in 1..Len(SubSeq(v, m, n)) : SubSeq(v, m, n)[i] \in S
    BY <1>2, <1>4, <1>6
<1> QED
    BY <1>4, <1>5, <1>7

LEMMA WindowInserted ==
    ASSUME NEW t, TablesInv(t), NEW o, NEW w \in Windows(t, o), NEW u, u = WithWindow(t, w)
    PROVE  TablesInv(u)
<1>1. PICK S : S = WindowCandidates(t, o)
    OBVIOUS
<1>2. S \subseteq t.observations /\ IsFiniteSet(S)
    BY <1>1, FS_Subset DEF WindowCandidates, TablesInv, TableShape
<1>3. \A i \in 1..Len(w) : w[i] \in t.observations
    BY <1>1, <1>2, WindowReports DEF Windows
<1>4. CASE u = t
    BY <1>4
<1>5. CASE u = [t EXCEPT !.windows = @ \cup {[reports |-> w, status |-> WindowStatus(w)]}]
    <2>1. PICK x : x = [reports |-> w, status |-> WindowStatus(w)]
        OBVIOUS
    <2>2. x.reports = w
        BY <2>1
    <2>3. u = [observations |-> t.observations, pairs |-> t.pairs, windows |-> t.windows \cup {x},
               alerts |-> t.alerts, rows |-> t.rows, trail |-> t.trail]
        BY <1>5, <2>1 DEF TablesInv, TableShape
    <2> QED
        BY <1>3, <2>2, <2>3 DEF TablesInv, TableShape, PairInv, AlertInv, WindowInv
<1> QED
    BY <1>4, <1>5 DEF WithWindow

\* Whatever of the possible evaluations is chosen.
LEMMA InsertedKeeps ==
    ASSUME NEW t, TablesInv(t), NEW o, NEW u \in Inserted(t, o)
    PROVE  TablesInv(u)
<1>1. CASE o \in t.observations
    BY <1>1 DEF Inserted
<1>2. CASE o \notin t.observations
    <2>1. PICK s : s = [t EXCEPT !.observations = @ \cup {o}]
        OBVIOUS
    <2>2. TablesInv(s) /\ o \in s.observations /\ \A e \in s.pairs : e.current # o
        BY <1>2, <2>1, ObservationInserted
    <2>3. u \in Evaluated(s, o)
        BY <1>2, <2>1 DEF Inserted
    <2>4. CASE u = s
        BY <2>2, <2>4
    <2>5. ASSUME NEW p \in Previous(s, o), NEW w \in Windows(s, o),
                 u = WithWindow(WithPair(s, Pair(p, o)), w)
          PROVE  TablesInv(u)
        <3>1. PICK e : e = Pair(p, o)
            OBVIOUS
        <3>2. IsPair(e) /\ e.previous = p /\ e.current = o /\ p \in s.observations
            BY <3>1 DEF Pair, IsPair, Previous, Earlier
        <3>3. PICK r : r = WithPair(s, e)
            OBVIOUS
        <3>4. TablesInv(r) /\ r.observations = s.observations
            BY <2>2, <3>2, <3>3, PairInserted
        <3>5. w \in Windows(r, o)
            BY <3>4 DEF Windows, WindowCandidates
        <3> QED
            BY <2>5, <3>1, <3>3, <3>4, <3>5, WindowInserted
    <2> QED
        BY <2>3, <2>4, <2>5 DEF Evaluated
<1> QED
    BY <1>1, <1>2

LEMMA AircraftKeeps ==
    ASSUME NEW t, TablesInv(t), NEW hex, NEW place
    PROVE  TablesInv(WithAircraft(t, hex, place))
<1>1. PICK u : u = WithAircraft(t, hex, place)
    OBVIOUS
<1>2. u = [observations |-> t.observations, pairs |-> t.pairs, windows |-> t.windows,
           alerts |-> t.alerts, rows |-> u.rows, trail |-> u.trail]
    BY <1>1 DEF WithAircraft, TablesInv, TableShape
<1> QED
    BY <1>1, <1>2 DEF TablesInv, TableShape, PairInv, AlertInv, WindowInv

LEMMA IngestInitially == IngestInit => IngestInv
<1>1. TablesInv(NoTables)
    <2>1. EmptyBag = [e \in {} |-> 1]
        BY DEF EmptyBag, SetToBag
    <2>2. Bag(EmptyBag) /\ DOMAIN EmptyBag = {}
        BY <2>1 DEF Bag
    <2> QED
        BY <2>2, FS_EmptySet DEF NoTables, TablesInv, TableShape, PairInv, AlertInv, WindowInv
<1> QED
    BY <1>1 DEF IngestInit, IngestInv

LEMMA IngestStep == IngestInv /\ [IngestNext]_ingestVars => IngestInv'
<1> SUFFICES ASSUME IngestInv, [IngestNext]_ingestVars PROVE IngestInv'
    OBVIOUS
<1>1. PICK d, w : d = db /\ w = work
    OBVIOUS
<1>2. TablesInv(d) /\ TablesInv(w)
    BY <1>1 DEF IngestInv
<1>3. ASSUME db' = d, work' \in {d, w} PROVE IngestInv'
    BY <1>2, <1>3 DEF IngestInv
<1>4. ASSUME NEW o \in Messages, TakesMessage(o) PROVE IngestInv'
    <2>1. PICK tables \in Inserted(work, o) : work' = WithAircraft(tables, o.hex, Merged(o))
        BY <1>4 DEF TakesMessage
    <2>2. TablesInv(tables)
        BY <1>1, <1>2, <2>1, InsertedKeeps
    <2>3. PICK place : place = Merged(o)
        OBVIOUS
    <2>4. PICK u : u = WithAircraft(tables, o.hex, place)
        OBVIOUS
    <2>5. TablesInv(u) /\ work' = u
        BY <2>1, <2>2, <2>3, <2>4, AircraftKeeps
    <2>6. db' \in {d, u}
        BY <1>1, <1>4, <2>5 DEF TakesMessage
    <2> QED
        BY <1>2, <2>5, <2>6 DEF IngestInv
<1>5. ASSUME NEW o \in Messages, RaisesOnMessage(o) PROVE IngestInv'
    BY <1>1, <1>3, <1>5 DEF RaisesOnMessage, RollsBack
<1>6. CASE Connects \/ LosesConnection \/ ProcessRestarts
    BY <1>1, <1>3, <1>6 DEF Connects, LosesConnection, ProcessRestarts, RollsBack
<1>7. CASE UNCHANGED ingestVars
    BY <1>1, <1>3, <1>7 DEF ingestVars
<1> QED
    BY <1>4, <1>5, <1>6, <1>7 DEF IngestNext

\* What is committed rests on what is stored, a flagged pair has one alert, and
\* no report is the later one of two pairs, for all lines and policies, however
\* often the session is rolled back and the same lines are sent again.
THEOREM EvidenceCorrect == IngestSpec => []EvidenceIsBacked
<1>1. IngestInv => EvidenceIsBacked
    <2> SUFFICES ASSUME IngestInv PROVE EvidenceIsBacked
        OBVIOUS
    <2>1. PairInv(db) /\ AlertInv(db) /\ WindowInv(db)
        BY DEF IngestInv, TablesInv
    <2>2. \A e \in db.pairs : AlertsOf(e, db) = IF e.status = "FLAGGED" THEN 1 ELSE 0
        <3>1. ASSUME NEW e \in db.pairs, e.status # "FLAGGED" PROVE Alert(e) \notin DOMAIN db.alerts
            BY <2>1, <3>1, AlertsDiffer DEF AlertInv
        <3> QED
            BY <2>1, <3>1 DEF AlertInv, OnceIn, AlertsOf, BagIn, BagToSet
    <2>3. BagToSet(db.alerts) \subseteq {Alert(e) : e \in db.pairs}
        BY <2>1 DEF AlertInv, BagToSet
    <2> QED
        BY <2>1, <2>2, <2>3 DEF EvidenceIsBacked, PairInv, WindowInv
<1> QED
    BY <1>1, IngestInitially, IngestStep, PTL DEF IngestSpec

(***************************************************************************)
(* The live view of the browser, for every number of connections, of       *)
(* requests and of changes of the table, and every longest delay.          *)
(***************************************************************************)
Hook == [open : BOOLEAN, socket : SUBSET Sockets, accepted : BOOLEAN, polling : BOOLEAN,
         timer : BOOLEAN, delay : 1..MaxDelay, lost : BOOLEAN]

\* An accepted connection is one the page holds, and a page that is not open
\* waits for nothing.
PageInv ==
    /\ page \in Hook /\ connected \in BOOLEAN
    /\ page.accepted => page.socket # {}
    /\ page.timer \/ page.socket # {} => page.open
    /\ ViewHasASource

\* The page that is not open.
LEMMA NoPageFields ==
    /\ NoPage \in Hook
    /\ ~NoPage.open /\ ~NoPage.accepted /\ ~NoPage.polling /\ ~NoPage.timer /\ ~NoPage.lost
    /\ NoPage.socket = {}
<1>1. 1 \in 1..MaxDelay
  BY DelayAssumption DEF DelayAssumption
<1>. QED BY <1>1 DEF NoPage, Hook

LEMMA PageInit == ViewInit => PageInv
BY NoPageFields DEF ViewInit, PageInv, ViewHasASource

\* The delay doubles up to its limit.
LEMMA NextDelay ==
    ASSUME NEW d \in 1..MaxDelay
    PROVE  (IF 2 * d > MaxDelay THEN MaxDelay ELSE 2 * d) \in 2..MaxDelay
BY DelayAssumption DEF DelayAssumption

\* After an attempt has failed the page polls and waits for the next one.
LEMMA FallsBackKeeps ==
    ASSUME PageInv, page.open, FallsBack, connected' = FALSE
    PROVE  PageInv'
<1>. DEFINE d == IF 2 * page.delay > MaxDelay THEN MaxDelay ELSE 2 * page.delay
<1>1. page.delay \in 1..MaxDelay
  BY DEF PageInv, Hook
<1>2. d \in 2..MaxDelay /\ d \in 1..MaxDelay
  BY <1>1, NextDelay
<1>. HIDE DEF d
<1>3. page' = [page EXCEPT !.socket = {}, !.accepted = FALSE, !.polling = TRUE, !.timer = TRUE,
                           !.lost = TRUE, !.delay = d]
  BY DEF FallsBack, FellBack, d
<1>. QED BY <1>2, <1>3 DEF PageInv, Hook, ViewHasASource

LEMMA PageStep == PageInv /\ [ViewNext]_viewVars => PageInv'
<1>. SUFFICES ASSUME PageInv, [ViewNext]_viewVars
              PROVE  PageInv'
  OBVIOUS
<1>1. CASE UNCHANGED <<page, connected>>
  BY <1>1 DEF PageInv, ViewHasASource
<1>2. CASE Accepts
  <2>1. /\ page.socket # {} /\ page' = [page EXCEPT !.accepted = TRUE] /\ connected' = connected
    BY <1>2 DEF Accepts
  <2>2. /\ page' \in Hook /\ page'.open = page.open /\ page'.socket = page.socket
        /\ page'.polling = page.polling /\ page'.timer = page.timer
        /\ page'.delay = page.delay /\ page'.lost = page.lost
    BY <2>1 DEF PageInv, Hook
  <2>3. page.open
    BY <2>1 DEF PageInv, ViewHasASource
  <2>. QED BY <2>1, <2>2, <2>3 DEF PageInv, ViewHasASource
<1>3. CASE PageOpens
  <2>1. connected' = FALSE
    BY <1>3 DEF PageOpens
  <2>2. ASSUME NEW k \in Sockets, page' = [NoPage EXCEPT !.open = TRUE, !.socket = {k}]
        PROVE  PageInv'
    <3>1. /\ page' \in Hook /\ page'.open /\ page'.socket = {k}
          /\ ~page'.accepted /\ ~page'.polling /\ ~page'.timer /\ ~page'.lost
      BY <2>2, NoPageFields DEF Hook
    <3>. QED BY <2>1, <3>1 DEF PageInv, ViewHasASource
  <2>3. ASSUME page' = FellBack([NoPage EXCEPT !.open = TRUE])
        PROVE  PageInv'
    <3>. DEFINE opened == [NoPage EXCEPT !.open = TRUE]
                d == IF 2 * opened.delay > MaxDelay THEN MaxDelay ELSE 2 * opened.delay
    <3>1. opened \in Hook /\ opened.open
      BY NoPageFields DEF Hook
    <3>2. opened.delay \in 1..MaxDelay
      BY <3>1 DEF Hook
    <3>3. d \in 2..MaxDelay /\ d \in 1..MaxDelay
      BY <3>2, NextDelay
    <3>4. page' = [opened EXCEPT !.socket = {}, !.accepted = FALSE, !.polling = TRUE,
                                 !.timer = TRUE, !.lost = TRUE, !.delay = d]
      BY <2>3 DEF FellBack
    <3>. HIDE DEF opened, d
    <3>5. /\ page' \in Hook /\ page'.open /\ page'.socket = {} /\ ~page'.accepted
          /\ page'.polling /\ page'.timer /\ page'.lost /\ page'.delay = d
      BY <3>1, <3>3, <3>4 DEF Hook
    <3>. QED BY <2>1, <3>3, <3>5 DEF PageInv, ViewHasASource
  <2>. QED BY <1>3, <2>2, <2>3 DEF PageOpens, FreeSockets
<1>4. CASE Opened
  <2>1. /\ page' = [page EXCEPT !.delay = 1, !.polling = FALSE] /\ connected' = TRUE
        /\ page.accepted /\ page.open /\ page.socket # {}
    BY <1>4 DEF Opened, PageInv
  <2>2. /\ page' \in Hook /\ page'.open = page.open /\ page'.socket = page.socket
        /\ ~page'.polling /\ page'.timer = page.timer
    <3>1. 1 \in 1..MaxDelay
      BY DelayAssumption DEF DelayAssumption
    <3>. QED BY <2>1, <3>1 DEF PageInv, Hook
  <2>3. ~page'.timer
    BY <2>1, <2>2 DEF PageInv, ViewHasASource
  <2>4. connected' /\ connected' \in BOOLEAN
    BY <2>1
  <2>5. page'.open /\ page'.socket # {}
    BY <2>1, <2>2
  <2>. QED BY <2>2, <2>3, <2>4, <2>5 DEF PageInv, ViewHasASource
<1>5. CASE Closed
  BY <1>5, FallsBackKeeps DEF Closed
<1>6. CASE Reconnects
  <2>1. page.timer /\ page.open /\ connected = FALSE /\ connected' = FALSE
    BY <1>6 DEF Reconnects, PageInv, ViewHasASource
  <2>2. ASSUME NEW k \in Sockets, page' = [page EXCEPT !.timer = FALSE, !.socket = {k}]
        PROVE  PageInv'
    <3>1. /\ page' \in Hook /\ page'.open = page.open /\ page'.socket = {k}
          /\ page'.polling = page.polling /\ ~page'.timer
          /\ page'.accepted = page.accepted /\ page'.lost = page.lost
      BY <2>2 DEF PageInv, Hook
    <3>. QED BY <2>1, <3>1 DEF PageInv, ViewHasASource
  <2>. QED BY <1>6, <2>1, <2>2, FallsBackKeeps DEF Reconnects, FreeSockets
<1>7. CASE PageCloses
  <2>1. page' = NoPage /\ connected' = FALSE
    BY <1>7 DEF PageCloses
  <2>. QED BY <2>1, NoPageFields DEF PageInv, ViewHasASource
<1>8. CASE TableChanges \/ Sends \/ EndpointFails \/ MessageArrives \/ Polls \/ Reads \/ Answered
  BY <1>1, <1>8 DEF TableChanges, Sends, EndpointFails, MessageArrives, Polls, Reads, Answered
<1>. QED
  BY <1>1, <1>2, <1>3, <1>4, <1>5, <1>6, <1>7, <1>8 DEF ViewNext, viewVars

\* The open page has exactly one way back to the live data, and polls exactly
\* while a lost connection has not been replaced (useWebSocket.ts).
THEOREM ViewCorrect == ViewSpec => []ViewHasASource
<1>1. PageInv => ViewHasASource
  BY DEF PageInv
<1>. QED BY <1>1, PageInit, PageStep, PTL DEF ViewSpec

=============================================================================
