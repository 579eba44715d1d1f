----------------------------- MODULE EvalHarness -----------------------------
(***************************************************************************)
(* The evaluation harness: agents run stages of the pipeline on inputs     *)
(* whose right answer a corpus knows; each run is graded against its label *)
(* and its tokens are read back from the transcript it left, if it left    *)
(* one; a scorecard prices each model, retries included, against another.  *)
(***************************************************************************)
EXTENDS Integers, FiniteSets, SequencesExt

CONSTANTS
  Models,     \* what agents run on
  Manifests,  \* corpus files: [json, stages]
  Answers,    \* stage -> runs' inputs and what they may answer: [inputRef, artifact]
  MaxRuns     \* bound on the runs of one collection

VARIABLES
  manifest,  \* the corpus file
  capture,   \* the runs so far: [stage, inputRef, model, spent, transcript, artifact]
  rows,      \* the file of graded rows: by the run each is of
  card       \* the scorecard printed from it: [baseline, cells]

evalVars == <<manifest, capture, rows, card>>

NoCard == [baseline |-> <<"none", "none">>, cells |-> {}]

\* A sum of numbers is as many units as they have among them.
Units(f, S)   == UNION {{i} \X (1..f[i]) : i \in S}
SumOver(f, S) == Cardinality(Units(f, S))

(***************************************************************************)
(* The corpus.                                                              *)
(***************************************************************************)
ScalarFields(stage) ==
  CASE stage = "triage"      -> {"type", "priority", "status"}
    [] stage = "write-code"  -> {"fixesRef", "ciGreen", "reviewVerdict"}
    [] stage = "ship-it"     -> {"merged", "mergeSha"}
    [] OTHER                 -> {"verdict"}

SetFields(stage) ==
  CASE stage = "review-code" -> {"acFindings"}
    [] stage = "review-doc"  -> {"findings"}
    [] OTHER                 -> {}

Literals == [priority |-> {"p0", "p1", "p2"}, verdict |-> {"PASS", "FAIL"}, reviewVerdict |-> {"PASS", "FAIL"}]

Decodes(stage, answer) ==
  /\ ScalarFields(stage) \cup SetFields(stage) \subseteq DOMAIN answer
  /\ \A f \in ScalarFields(stage) \cap DOMAIN Literals : answer[f] \in Literals[f]

DecodeManifest(text) ==
  CASE ~text.json -> "malformed-json"
    [] text.json /\ \E stage \in DOMAIN text.stages : \E i \in DOMAIN text.stages[stage] :
         LET entry == text.stages[stage][i]
         IN  entry.stage # stage \/ ~Decodes(stage, entry.label)      -> "schema-mismatch"
    [] OTHER -> "valid"

(***************************************************************************)
(* The oracle.                                                              *)
(***************************************************************************)
Mismatches(stage, observed, expected) ==
  {f \in ScalarFields(stage) : observed[f] # expected[f]}
    \cup {f \in SetFields(stage) : ToSet(observed[f]) # ToSet(expected[f])}

Grade(stage, label, artifact) ==
  IF ~Decodes(stage, artifact) THEN "MalformedArtifact"
  ELSE IF Mismatches(stage, artifact, label) = {} THEN "pass" ELSE "LabelMismatch"

(***************************************************************************)
(* The token meter, and the runner.                                         *)
(***************************************************************************)
\* Lines without an assistant's usage are skipped, broken ones among them; the last model counts.
ReconstructSpend(transcript) ==
  LET Billed == {i \in DOMAIN transcript : transcript[i].role = "assistant" /\ transcript[i].usage > 0}
      Named  == {i \in Billed : transcript[i].model # "null"}
  IN  [tag    |-> "Reconstructed",
       billed |-> SumOver([i \in Billed |-> transcript[i].usage], Billed),
       model  |-> IF Named = {} THEN "null"
                  ELSE transcript[CHOOSE i \in Named : \A j \in Named : j <= i].model]

Missing == [tag |-> "TranscriptMissing", billed |-> 0, model |-> "null"]

CollectRun(run, label) ==
  [of     |-> run,
   passed |-> Grade(run.stage, label, run.artifact) = "pass",
   spend  |-> IF run.transcript = <<>> THEN Missing ELSE ReconstructSpend(run.transcript)]

\* Two entries for one input: the later one counts.
EntriesFor(run) ==
  {i \in DOMAIN manifest.stages[run.stage] : manifest.stages[run.stage][i].inputRef = run.inputRef}

CollectFromCapture(stage) ==
  [k \in {k \in DOMAIN capture : capture[k].stage = stage /\ EntriesFor(capture[k]) # {}} |->
     LET last == CHOOSE i \in EntriesFor(capture[k]) : \A j \in EntriesFor(capture[k]) : j <= i
     IN  CollectRun(capture[k], manifest.stages[stage][last].label)]

(***************************************************************************)
(* The prices, as fractions <<n, d>>: d = 0 is without bound.               *)
(***************************************************************************)
Minus(a, b) == IF b[2] = 0 THEN <<-1, 0>> ELSE <<a[1] * b[2] - b[1] * a[2], a[2] * b[2]>>

\* Faulty variant: the price of one run, accepted or not.
PerRunOnly(perRun, graded, passed) == perRun

\* A run, and another of the same price for each failure that an accepted one takes.
Amortized(perRun, graded, passed) ==
  LET extraCycles == <<graded - passed, passed>>
  IN  IF extraCycles[2] = 0 THEN <<1, 0>>
      ELSE <<perRun[1] * (extraCycles[2] + extraCycles[1]), perRun[2] * extraCycles[2]>>

KeyOf(row) == <<row.of.stage, row.spend.model>>

BucketOf(file, key) ==
  LET mine == {i \in DOMAIN file : KeyOf(file[i]) = key}
      read == {i \in mine : file[i].spend.tag = "Reconstructed"}
  IN  [stage |-> key[1], model |-> key[2],
       graded |-> Cardinality(mine),
       passed |-> Cardinality({i \in mine : file[i].passed}),
       billed |-> SumOver([i \in read |-> file[i].spend.billed], read),
       reconstructed |-> Cardinality(read)]

Bucketize(file) == {BucketOf(file, key) : key \in {KeyOf(file[i]) : i \in DOMAIN file}}

SpendOf(bucket) == <<bucket.billed, bucket.reconstructed>>

\* As JSON: a number that is not finite is written null.
CellOf(b, base) ==
  LET saving == IF b.reconstructed = 0 THEN {}
                ELSE {Minus(SpendOf(k), Amortized(SpendOf(b), b.graded, b.passed)) : k \in base \ {b}}
      finite == {s \in saving : s[2] # 0}
  IN  [bucket |-> b, netSaving |-> finite, netNegative |-> \E s \in finite : s[1] < 0]

BuildScorecard(file, baseline) ==
  LET buckets == Bucketize(file)
      base    == {b \in buckets : <<b.stage, b.model>> = baseline /\ b.reconstructed > 0}
  IN  {CellOf(b, base) : b \in buckets}

(***************************************************************************)
(* Runs and reports.                                                        *)
(***************************************************************************)
EvalInit ==
  /\ manifest \in Manifests
  /\ capture = <<>> /\ rows = <<>> /\ card = NoCard

Line(role, usage, model) == [role |-> role, usage |-> usage, model |-> model]

\* An agent spends one turn or two.  Its transcript may be torn at the end, lost, or not name
\* the model.
Transcripts(turns, model) ==
  {<<Line("user", 0, "null"), Line("assistant", turns, model)>>}
    \cup IF turns = 1 THEN {<<>>, <<Line("assistant", turns, "null")>>}
         ELSE {<<Line("assistant", turns - 1, model), Line("torn", 0, "null")>>}

RunAgent(stage, model) ==
  /\ rows = <<>> /\ Len(capture) < MaxRuns
  /\ \E answer \in Answers[stage], turns \in 1..2 : \E transcript \in Transcripts(turns, model) :
       capture' = Append(capture, [stage |-> stage, inputRef |-> answer.inputRef, model |-> model,
                                   spent |-> turns, transcript |-> transcript, artifact |-> answer.artifact])
  /\ UNCHANGED <<manifest, rows, card>>

\* The operator collects the stage's runs, when they are done; a manifest that does not pass
\* the check stops here.
Collect(stage) ==
  /\ DecodeManifest(manifest) = "valid"
  /\ rows = <<>> /\ rows' = CollectFromCapture(stage)
  /\ UNCHANGED <<manifest, capture, card>>

\* With a baseline, or without one.
Report ==
  /\ rows # <<>> /\ card = NoCard
  /\ \E baseline \in {NoCard.baseline} \cup ((DOMAIN manifest.stages) \X (Models \cup {"null"})) :
       card' = [baseline |-> baseline, cells |-> BuildScorecard(rows, baseline)]
  /\ UNCHANGED <<manifest, capture, rows>>

EvalNext ==
  \/ \E stage \in DOMAIN manifest.stages : Collect(stage) \/ \E model \in Models : RunAgent(stage, model)
  \/ Report

EvalSpec == EvalInit /\ [][EvalNext]_evalVars

(***************************************************************************)
(* Properties.                                                              *)
(***************************************************************************)
\* Every labelled run counts in one cell.  The cell of a model holds runs of that model only and
\* bills no more than they spent; its net saving is the baseline's price of a run less what
\* this model's runs cost for each one accepted.  No saving is given where there is nothing to
\* compare, or where nothing was accepted (report.ts:115-250, repair-churn.ts:86-140).
ScorecardIsTrue ==
  card # NoCard =>
    /\ SumOver([c \in card.cells |-> c.bucket.graded], card.cells) = Cardinality(DOMAIN rows)
    /\ \A c \in card.cells :
         LET b    == c.bucket
             mine == {i \in DOMAIN rows : rows[i].spend.model = b.model}
             base == {k.bucket : k \in {k \in card.cells : <<k.bucket.stage, k.bucket.model>> = card.baseline}}
         IN  /\ b.model # "null" =>
                  /\ \A i \in mine : rows[i].of.model = b.model
                  /\ b.billed <= SumOver([i \in mine |-> rows[i].of.spent], mine)
                  /\ \A s \in c.netSaving, k \in base :
                       k.reconstructed * s[1] * b.passed = (k.billed * b.passed - b.billed * k.reconstructed) * s[2]
             /\ c.netSaving = {} <=> base \ {b} = {} \/ b.reconstructed = 0 \/ b.passed = 0
                                        \/ \E k \in base : k.reconstructed = 0
             /\ c.netNegative => c.netSaving # {} /\ b.passed > 0
=============================================================================
