----------------------------- MODULE MCServices -----------------------------
(* The instances of the components of the platform that share no state with *)
(* each other: a behaviour of this module is one of the component that      *)
(* `service` names, which is chosen at the start, while the others rest.    *)
EXTENDS ReplayController, Accounts, TrustWorkflow, ExternalSource, LiveIngestion,
        AnomalyDetector, ModeSDecoder, SafetyAgent, LiveView, FieldStudy

VARIABLE service

(* Recorded replay: two events of one time at the end. *)
MCOffsets == <<0, 1, 1>>

(* External source: reports that agree, and that are too far or too high. *)
Report(age, place, altitude) == [age |-> age, place |-> place, altitude |-> altitude]
MCLocalReports == {Report(0, 0, 0), Report(1, -1, 0)}
MCExternalReports == {Report(0, 0, -1), Report(2, 2, 0)}

(* Trust: everything agrees, or one pair is flagged and little else is known. *)
Shows(pair, window, localData, corroboration, station) ==
    [pair |-> pair, window |-> window, local |-> localData,
     corroboration |-> corroboration, station |-> station]
MCEvidence == {Shows("PASS", "PASS", TRUE, "CORROBORATED", "HEALTHY"),
               Shows("FLAGGED", "NONE", FALSE, "NONE", "STALE")}

(* Live ingestion: a slow pair, a fast pair, reports with half a position and
   with none, and a line that is no report. *)
Line(at, place, garbled) ==
    [kind |-> "MSG", hex |-> "h1", at |-> at, place |-> place, speed |-> 1, track |-> 0,
     altitude |-> 10, garbled |-> garbled]
MCLines == {Line(0, 0, {}), Line(1, 1, {}), Line(2, 8, {}), Line(2, 3, {"lat", "lon"}),
            Line(3, 5, {"lat"}), [Line(3, 6, {}) EXCEPT !.kind = "STA"]}
MCPolicy ==
    [minInterval |-> 1, maxInterval |-> 2, maxSpeed |-> 2, maxAcceleration |-> 1,
     minDisagreement |-> 1, disagreementPercent |-> 50, minTurnSpeed |-> 1,
     maxTurnRate |-> 10, maxVerticalRate |-> 3, minObservations |-> 2,
     maxObservations |-> 3, minDuration |-> 1, maxDuration |-> 2, maxResidual |-> 1]

(* Anomaly detection: a descent low with an emergency code, and a slow climb. *)
Row(squawk, rate, altitude, rowSpeed) ==
    [squawk |-> squawk, rate |-> rate, altitude |-> altitude, speed |-> rowSpeed,
     restricted |-> FALSE]
MCRows == {Row("7700", -5, 8, 200), Row("1200", 6, 0, 20)}
MCSpeedRanges == {[from |-> 0, to |-> 10, min |-> 60, max |-> 300]}
MCQuiet ==
    [kind \in EmergencyCodes \cup {"RAPID_DESCENT", "RAPID_CLIMB", "SPEED", "RESTRICTED", "TRACK_LOSS"} |->
        IF kind = "TRACK_LOSS" THEN 9 ELSE 2]

(* Decoder: places next to a border of the zones of both latitude and
   longitude, north and south, and messages with none, one and two flips. *)
Place(latitude, longitude) == [lat |-> latitude, lon |-> longitude]
MCStarts == {Place(1046, 17999), Place(-3523, -1), Place(-1, 300), Place(5884, -9000)}
MCHeadings == {Place(1, 1), Place(-1, 1)}
MCFlips == {{}, {60}, {32, 88}, {0, 111}}

(* Corpus: two incidents, of which another export leaves the first without a
   text and shortens the second, which was in the database before runs were
   recorded; and two dated versions of one section. *)
Rec(id, text, valid) == [id |-> id, text |-> text, valid |-> valid]
Export(name, records) == [name |-> name, kind |-> "ntsb", records |-> records]
Part(name, id) == [name |-> name, kind |-> "ecfr", records |-> <<Rec(id, "short", TRUE)>>]
MCArtifacts ==
    {Export("n1", <<Rec(1, "long", FALSE), Rec(1, "short", TRUE), Rec(1, "none", TRUE),
                    Rec(2, "long", TRUE)>>),
     Export("n2", <<Rec(1, "none", TRUE), Rec(2, "short", TRUE)>>),
     Part("e1", 3), Part("e2", 4)}
MCUnversioned == <<"", "short", "", "">>
MCReference == [id \in {3, 4} |-> 3]
MCTexts == {{1, 2, 3}}

(* The agent is asked after an export and a part have been ingested and indexed,
   and while what is left of the bounds is ingested and indexed. *)
InRun(run, text) == {[run |-> run, text |-> text]}
IndexedCorpus ==
    /\ runs = {"n1", "e1"}
    /\ rows = <<InRun("n1", "short"), InRun("n1", "long"), InRun("e1", "short"), {}>>
    /\ vectors = Current
    /\ ingest = NoIngest /\ sync = NoSync
    /\ report = [status |-> "passed", mode |-> "sync"] /\ fresh = TRUE
    /\ used = [ingests |-> 2, syncs |-> 2]

Services == {"replay", "accounts", "trust", "source", "ingestion", "detector", "decoder",
             "corpus", "agent", "view", "field"}

(* What a component may begin with varies only where that component runs. *)
ServicesInit ==
    /\ service \in Services
    /\ ReplayInit    /\ (service # "replay" => speed = 1 /\ loop)
    /\ AccountsInit
    /\ TrustInit     /\ (service # "trust" => evidence = CHOOSE e \in Evidence : TRUE)
    /\ SourceInit
    /\ IngestInit
    /\ DetectorInit  /\ (service # "detector" =>
                            row = CHOOSE r \in [Aircrafts -> [says : Rows, seen : {0}]] : TRUE)
    /\ DecoderInit   /\ (service # "decoder" =>
                            craft = CHOOSE c \in [place : Starts, heading : Headings, steps : {0}] : TRUE)
    /\ IF service = "agent" THEN IndexedCorpus ELSE CorpusInit
    /\ AgentInit
    /\ ViewInit
    /\ FieldInit

ServicesNext ==
    /\ UNCHANGED service
    /\ \/ service = "replay"    /\ ReplayNext
       \/ service = "accounts"  /\ AccountsNext
       \/ service = "trust"     /\ TrustNext
       \/ service = "source"    /\ SourceNext
       \/ service = "ingestion" /\ IngestNext
       \/ service = "detector"  /\ DetectorNext
       \/ service = "decoder"   /\ DecoderNext
       \/ service = "corpus"    /\ CorpusNext /\ UNCHANGED agentVars
       \/ service = "agent"     /\ SafetyNext
       \/ service = "view"      /\ ViewNext
       \/ service = "field"     /\ FieldNext
    /\ service # "replay"    => UNCHANGED replayVars
    /\ service # "accounts"  => UNCHANGED accountVars
    /\ service # "trust"     => UNCHANGED trustVars
    /\ service # "source"    => UNCHANGED sourceVars
    /\ service # "ingestion" => UNCHANGED ingestVars
    /\ service # "detector"  => UNCHANGED detectorVars
    /\ service # "decoder"   => UNCHANGED decoderVars
    /\ service \notin {"corpus", "agent"} => UNCHANGED <<corpusVars, agentVars>>
    /\ service # "view"      => UNCHANGED viewVars
    /\ service # "field"     => UNCHANGED fieldVars

ServicesSpec ==
    ServicesInit /\ [][ServicesNext]_<<service, replayVars, accountVars, trustVars, sourceVars,
                                       ingestVars, detectorVars, decoderVars, corpusVars, agentVars,
                                       viewVars, fieldVars>>
=============================================================================
