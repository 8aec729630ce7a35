----------------------------- MODULE FieldStudy -----------------------------
(***************************************************************************)
(* The benign field study (evaluation/field,                               *)
(* scripts/freeze_integrity_policy.py).  A command captures one day of     *)
(* lines from the local decoder; a person marks the usable captures in the *)
(* manifest; the policy is frozen; the captures are exported without       *)
(* identities; the episodes in the export are reviewed, and a report says  *)
(* whether the policy passes.                                              *)
(*                                                                         *)
(* The commands are processes that share nothing but files.  Several may   *)
(* run at once and each can be interrupted or killed.  A line stands for   *)
(* a stretch of lines of one aircraft with the policy state its evaluation *)
(* gives, and a checksum is the content.                                   *)
(***************************************************************************)
EXTENDS Integers, Sequences, FiniteSets

CONSTANTS
    Commands,       \* capture processes that may run at one time
    EarlyDays,      \* days 1 to 6
    HoldoutDay,     \* day 7
    LineStates,     \* policy states of a line: NOMINAL, QUESTIONABLE
    Cooldown,       \* lines between two episodes
    RoutineSpan,    \* lines of the holdout per episode that the gate allows
    MaxFiles,       \* bound: captures that exist or are begun
    MaxLines,       \* bound: lines of one capture
    MaxExports      \* bound: exports

VARIABLES
    captures,    \* the capture files: content by [day, attempt]
    manifest,    \* capture-manifest.private.json: [entries, viewed]
    command,     \* of each process: [step, file, loaded, link, digest, state]
    frozen,      \* the freeze manifest exists and is of the policy file as it is
    exporter,    \* "idle", or "written" between the export and its manifest
    export,      \* the exported rows: [label, rows, from, verified]
    public,      \* label of the export that the public manifest describes
    reviewed,    \* the episodes that have a disposition
    fieldReport  \* the last one: [status, of, published]

captureVars == <<captures, manifest, command>>
resultVars == <<frozen, exporter, export, public, reviewed, fieldReport>>
fieldVars == <<captureVars, resultVars>>

StudyDays == EarlyDays \cup {HoldoutDay}
NoExport == [label |-> 0, rows |-> [d \in StudyDays |-> <<>>], from |-> {}, verified |-> FALSE]
NothingReported == [status |-> "none", of |-> NoExport, published |-> FALSE]
Resting == [step |-> "idle"]

-----------------------------------------------------------------------------
(* run_capture_cli                                                         *)

AttemptsOf(day) == {f.attempt : f \in {g \in DOMAIN captures : g.day = day}}
FreeAttempt(day) == CHOOSE n \in 1..(Cardinality(AttemptsOf(day)) + 1) :
                        n \notin AttemptsOf(day) /\ \A m \in 1..(n - 1) : m \in AttemptsOf(day)

Begun == Cardinality(DOMAIN captures)
             + Cardinality({c \in Commands : command[c].step = "allocated"})

\* load_manifest, a source that proves that it emits lines, and
\* allocate_output_path; otherwise the command ends and has changed nothing.
BeginsCapture(c, day) ==
    /\ command[c].step = "idle" /\ Begun < MaxFiles
    /\ command' = [command EXCEPT ![c] =
            [step |-> "allocated", loaded |-> manifest,
             file |-> [day |-> day, attempt |-> FreeAttempt(day)]]]
    /\ UNCHANGED <<captures, manifest, resultVars>>

Capturing(c) == [step |-> "capturing", file |-> command[c].file, loaded |-> command[c].loaded,
                 link |-> "down", digest |-> <<>>]

WithFile(file) == [f \in DOMAIN captures \cup {file} |->
                      IF f \in DOMAIN captures THEN captures[f] ELSE <<>>]

\* Mutant: opened without O_EXCL, to append.
OpensToAppend(c) ==
    /\ command[c].step = "allocated"
    /\ captures' = WithFile(command[c].file)
    /\ command' = [command EXCEPT ![c] = Capturing(c)]
    /\ UNCHANGED <<manifest, resultVars>>

\* O_CREAT with O_EXCL: the command fails if the file has come to exist.
OpensFile(c) ==
    /\ command[c].step = "allocated"
    /\ \/ /\ command[c].file \notin DOMAIN captures
          /\ captures' = WithFile(command[c].file)
          /\ command' = [command EXCEPT ![c] = Capturing(c)]
       \/ /\ command[c].file \in DOMAIN captures
          /\ command' = [command EXCEPT ![c] = Resting]
          /\ UNCHANGED captures
    /\ UNCHANGED <<manifest, resultVars>>

\* The source is reached; an outage that lasted until now is over.
ReachesSource(c) ==
    /\ command[c].step = "capturing" /\ command[c].link = "down"
    /\ command' = [command EXCEPT ![c].link = "up"]
    /\ UNCHANGED <<captures, manifest, resultVars>>

\* A line goes to the file and into the digest.
WritesLine(c) ==
    /\ command[c].step = "capturing" /\ command[c].link = "up"
    /\ Len(captures[command[c].file]) < MaxLines
    /\ \E line \in LineStates :
         /\ captures' = [captures EXCEPT ![command[c].file] = Append(@, line)]
         /\ command' = [command EXCEPT ![c].digest = Append(@, line)]
    /\ UNCHANGED <<manifest, resultVars>>

\* The end of the stream is no outage and the next connection is tried at
\* once; an error or a timeout begins one, with a pause.
LosesSource(c) ==
    /\ command[c].step = "capturing" /\ command[c].link = "up"
    /\ command' = [command EXCEPT ![c].link = "down"]
    /\ UNCHANGED <<captures, manifest, resultVars>>

\* The time is over, or the command is interrupted; what was written stays.
CaptureEnds(c) ==
    /\ command[c].step = "capturing"
    /\ \E state \in {"COMPLETED", "INTERRUPTED"} :
         command' = [command EXCEPT ![c] =
             [step |-> "ended", file |-> command[c].file, loaded |-> command[c].loaded,
              digest |-> command[c].digest, state |-> state]]
    /\ UNCHANGED <<captures, manifest, resultVars>>

\* Killed, or a line longer than the limit of the reader: no entry is written.
CommandDies(c) ==
    /\ command[c].step # "idle"
    /\ command' = [command EXCEPT ![c] = Resting]
    /\ UNCHANGED <<captures, manifest, resultVars>>

Entry(c) == [file |-> command[c].file, sum |-> command[c].digest, state |-> command[c].state,
             usable |-> FALSE]

\* atomic_private_json: what was loaded at the start with the new entry, in
\* place of whatever the manifest has become since.
RecordsCapture(c) ==
    /\ command[c].step = "ended"
    /\ manifest' = [command[c].loaded EXCEPT !.entries = @ \cup {Entry(c)}]
    /\ command' = [command EXCEPT ![c] = Resting]
    /\ UNCHANGED <<captures, resultVars>>

-----------------------------------------------------------------------------
(* What a person does with the files                                       *)

MarksUsable ==
    /\ \E e \in manifest.entries :
         /\ ~e.usable
         /\ manifest' = [manifest EXCEPT !.entries = (@ \ {e}) \cup {[e EXCEPT !.usable = TRUE]}]
    /\ UNCHANGED <<captures, command, resultVars>>

NotesHoldoutViewed ==
    /\ fieldReport.status # "none"
    /\ manifest' = [manifest EXCEPT !.viewed = TRUE]
    /\ UNCHANGED <<captures, command, resultVars>>

\* The policy file is edited, and the freeze is not of it any more.
ChangesPolicy ==
    /\ frozen /\ frozen' = FALSE
    /\ UNCHANGED <<captureVars, exporter, export, public, reviewed, fieldReport>>

-----------------------------------------------------------------------------
(* scripts/freeze_integrity_policy.py and sanitize_capture                 *)

UsableEntries == {e \in manifest.entries : e.usable}

\* usable_captures_by_day does not raise.
WellChosen ==
    /\ \A e \in UsableEntries : e.state = "COMPLETED"
    /\ \A e, f \in UsableEntries : e.file.day = f.file.day => e = f

ChecksumsHold(entries) == \A e \in entries : captures[e.file] = e.sum

Freezes ==
    /\ WellChosen
    /\ \A d \in EarlyDays : \E e \in UsableEntries : e.file.day = d
    /\ ~manifest.viewed
    /\ ChecksumsHold({e \in UsableEntries : e.file.day \in EarlyDays})
    /\ frozen' = TRUE
    /\ UNCHANGED <<captureVars, exporter, export, public, reviewed, fieldReport>>

RowsOf(d) ==
    LET chosen == {e \in UsableEntries : e.file.day = d}
    IN  IF chosen = {} THEN <<>> ELSE captures[(CHOOSE e \in chosen : TRUE).file]

\* The rows replace the former export before they are verified.  Labels of
\* sessions and tracks are new in each export.  Killed while it writes, the
\* command leaves the rows of the last day cut short.
WritesExport ==
    /\ exporter = "idle" /\ export.label < MaxExports
    /\ WellChosen /\ ChecksumsHold(UsableEntries)
    /\ \E kept \in 0..Len(RowsOf(HoldoutDay)) :
         /\ export' = [label |-> export.label + 1, from |-> UsableEntries, verified |-> FALSE,
                       rows |-> [d \in StudyDays |->
                           IF d = HoldoutDay THEN SubSeq(RowsOf(d), 1, kept) ELSE RowsOf(d)]]
         /\ exporter' = IF kept < Len(RowsOf(HoldoutDay)) THEN "idle" ELSE "written"
    /\ UNCHANGED <<captureVars, frozen, public, reviewed, fieldReport>>

\* verify_public_export finds no violation; the public manifest is written
\* with the checksum.
PublishesExport ==
    /\ exporter = "written"
    /\ export' = [export EXCEPT !.verified = TRUE]
    /\ public' = export.label
    /\ exporter' = "idle"
    /\ UNCHANGED <<captureVars, frozen, reviewed, fieldReport>>

\* PrivacyViolation, or the command is killed: the rows stay.
RefusesExport ==
    /\ exporter = "written"
    /\ exporter' = "idle"
    /\ UNCHANGED <<captureVars, frozen, export, public, reviewed, fieldReport>>

-----------------------------------------------------------------------------
(* build_report                                                            *)

\* _episodes: questionable rows of a track that follow each other within the
\* cooldown; the labels of the export and the first row tell one from another.
Episodes(e, d) ==
    LET Questionable == {i \in DOMAIN e.rows[d] : e.rows[d][i] = "QUESTIONABLE"}
    IN  {[label |-> e.label, day |-> d, first |-> i] :
            i \in {k \in Questionable : \A j \in Questionable : j < k => k - j >= Cooldown}}

HoldoutComplete(e) == e.rows[HoldoutDay] # <<>>

GatePassed(e, dispositions, synthetic) ==
    /\ HoldoutComplete(e)
    /\ Episodes(e, HoldoutDay) \subseteq dispositions
    /\ Cardinality(Episodes(e, HoldoutDay)) * RoutineSpan <= Len(e.rows[HoldoutDay])
    /\ synthetic

StatusOf(e, dispositions, synthetic) ==
    IF GatePassed(e, dispositions, synthetic) THEN "PASSED"
    ELSE IF HoldoutComplete(e) THEN "GATE_NOT_MET" ELSE "BLOCKED_CAPTURE_PENDING"

\* The frozen policy must be the one in the file, and the public manifest, if
\* there is one, must describe the export.
BuildsReport ==
    /\ export.label # 0 /\ frozen
    /\ public \in {0, export.label}
    /\ \E synthetic \in BOOLEAN :
         fieldReport' = [status |-> StatusOf(export, reviewed, synthetic), of |-> export,
                    published |-> public # 0]
    /\ UNCHANGED <<captureVars, frozen, exporter, export, public, reviewed>>

\* A person adds a disposition for an episode of the report.
ReviewsEpisode ==
    /\ \E e \in Episodes(fieldReport.of, HoldoutDay) : e \notin reviewed /\ reviewed' = reviewed \cup {e}
    /\ UNCHANGED <<captureVars, frozen, exporter, export, public, fieldReport>>

-----------------------------------------------------------------------------
FieldInit ==
    /\ captures = <<>>
    /\ manifest = [entries |-> {}, viewed |-> FALSE]
    /\ command = [c \in Commands |-> Resting]
    /\ frozen = FALSE
    /\ exporter = "idle" /\ export = NoExport /\ public = 0
    /\ reviewed = {} /\ fieldReport = NothingReported

CommandStep(c) ==
    \/ \E day \in StudyDays : BeginsCapture(c, day)
    \/ OpensFile(c)
    \/ ReachesSource(c) \/ WritesLine(c) \/ LosesSource(c)
    \/ CaptureEnds(c) \/ CommandDies(c) \/ RecordsCapture(c)

FieldNext ==
    \/ \E c \in Commands : CommandStep(c)
    \/ MarksUsable \/ NotesHoldoutViewed \/ ChangesPolicy
    \/ Freezes \/ WritesExport \/ PublishesExport \/ RefusesExport
    \/ BuildsReport \/ ReviewsEpisode

FieldSpec == FieldInit /\ [][FieldNext]_fieldVars

-----------------------------------------------------------------------------
(* Properties                                                              *)

\* An entry of the manifest names a capture whose file still has exactly what
\* was captured, whichever commands ran beside it and died since (O_EXCL).
EntriesMatchFiles ==
    \A e \in manifest.entries : e.file \in DOMAIN captures /\ captures[e.file] = e.sum

\* A report that passes rests on completed captures, one for a day, whose files
\* have not changed since; a person has seen every episode of the holdout in this
\* very export, and if there is a public manifest the export was verified.
PassedIsEarned ==
    fieldReport.status = "PASSED" =>
        /\ \A e \in fieldReport.of.from : e.state = "COMPLETED" /\ captures[e.file] = e.sum
        /\ \A e, f \in fieldReport.of.from : e.file.day = f.file.day => e = f
        /\ \E e \in fieldReport.of.from : e.file.day = HoldoutDay
        /\ Episodes(fieldReport.of, HoldoutDay) \subseteq reviewed
        /\ fieldReport.published => fieldReport.of.verified

FieldStudyIsSound == EntriesMatchFiles /\ PassedIsEarned
=============================================================================
