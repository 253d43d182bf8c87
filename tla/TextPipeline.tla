---------------------------- MODULE TextPipeline ----------------------------
(***************************************************************************)
(* What POST /prompts/analyze does with its texts: the filter rules and    *)
(* the mask for the composer's, and evaluate_analyze_classifier, which     *)
(* takes one text after the other through scanner, atoms, embeddings,      *)
(* segments, signal mapping, classifier and verifier.                      *)
(*                                                                         *)
(* The models are external: which vectors are zero, any similarity of      *)
(* neighbours, any scores, and a failure or timeout at each stage.  A      *)
(* candidate is a segment with a label.  A document is a sequence of       *)
(* blocks, as the builders take it; the route gives them one block of      *)
(* source "text".  The two runtimes are built when the first request asks. *)
(***************************************************************************)
EXTENDS TextSegmentation

CONSTANTS
  Cases,          \* [documents, setting]: texts of a request, key of Settings
  Settings,       \* what the operator configured, with the disk
  LexicalRules,   \* rules the classifier pipeline scans for
  Enabled,        \* filter rules that are active
  Masking,        \* those of them with the action MASK
  BatchSize,      \* DEFAULT_MICRO_BATCH_SIZE
  Similarities,   \* of two neighbouring atoms
  Bad, Full,
  None

IsSequence(value) == value \in Seq(Range(value))

ASSUME PipelineAssumption ==
  /\ LexicalRules \subseteq Rules /\ Enabled \subseteq Rules /\ Masking \subseteq Enabled
  /\ BatchSize \in Nat \ {0} /\ Similarities \subseteq Int
  /\ Full \in Nat \ {0} /\ None \notin {"timeout", "failed"}
  /\ \A c \in Cases : /\ c.setting \in DOMAIN Settings /\ IsSequence(c.documents) /\ c.documents # <<>>
                   /\ \A document \in Range(c.documents) :
                        /\ IsSequence(document) /\ document # <<>>
                        /\ \A block \in Range(document) : IsSequence(block.text)

Policy == INSTANCE PolicyDecision
Models == INSTANCE ModelArtifacts

\* Of a type that may be wrong: a path or a list, or Bad.
BadOrSeq(value) == value # Bad => IsSequence(value)

\* A path is a sequence, and what is taken for a file of labels holds a list.
SettingsAssumption ==
  \A k \in DOMAIN Settings :
    LET s == Settings[k]
        PathsAreSequences(path, model) ==
          LET manifest == Models!Read(path, s.disk)
          IN /\ BadOrSeq(path)
             /\ manifest # Bad => /\ BadOrSeq(manifest[model])
                                 /\ BadOrSeq(Models!LabelsOf(path, manifest.target_labels_json, s.disk))
    IN PathsAreSequences(s.classifier_manifest, "lr_model") /\ PathsAreSequences(s.verifier_manifest, "verifier_dir")
ASSUME SettingsAssumption

VARIABLES
  documents, setting,
  at,           \* which of the documents is being looked at
  stage,
  signals,      \* scanner signals of it, with their blocks
  atoms,
  vectors,      \* [atoms embedded so far -> "zero" or "some"]
  segments,     \* sequences of indices of atoms
  mapped,       \* [segments -> signals]
  candidates,   \* [documents looked at -> what the classifier chose]
  accepted,     \* [documents looked at -> what the verifier confirmed]
  read,         \* [candidates of this document -> chunks the verifier was given]
  outcome,      \* evidence, or None
  masked        \* the masked first document, or None

pipelineVars == <<documents, setting, at, stage, signals, atoms, vectors, segments, mapped, candidates, accepted, read, outcome, masked>>
request == <<documents, setting>>
perText == <<signals, atoms, vectors, segments, mapped, read>>
results == <<candidates, accepted, outcome>>

PipelineInit ==
  /\ \E c \in Cases : documents = c.documents /\ setting = c.setting
  /\ at = 1 /\ stage = "received"
  /\ signals = {} /\ atoms = <<>> /\ vectors = <<>> /\ segments = <<>> /\ mapped = <<>> /\ read = <<>>
  /\ candidates = <<>> /\ accepted = <<>> /\ outcome = None /\ masked = None

Document == documents[at]
Provider == Models!ClassifierProvider(Settings[setting])
Verifier == Models!VerifierConfig(Settings[setting])

\* Evidence when nothing was evaluated, or only failed.
NoCounts(status) == [status |-> status, candidates |-> 0, accepted |-> 0]

\* evaluate_filter_rules and, for a text of one block, apply_placeholders.
Match ==
  /\ stage = "received"
  /\ LET text == documents[1][1].text
         masking == EvaluateFilterRules(text, Enabled) \cap Masking
         detections == DetectionsForMasking(text, masking)
     IN masked' = IF detections = {} THEN None ELSE ApplyPlaceholders(text, detections)
  /\ IF Provider.status = "available"
       THEN stage' = "scan" /\ UNCHANGED outcome
       ELSE /\ stage' = "done"
            /\ outcome' = NoCounts(IF Provider.status = "disabled" THEN "disabled" ELSE "failed")
  /\ UNCHANGED <<request, at, perText, candidates, accepted>>

Sum(f) == FoldLeft(LAMBDA n, S : n + Cardinality(S), 0, f)

\* Mutant: the counts of a failed evaluation are taken as they are.
OutcomeIgnoringFailure(failure, found, confirmed) ==
  [status |-> Policy!ContextStatus(Sum(found), Sum(confirmed)),
   candidates |-> Sum(found), accepted |-> Sum(confirmed)]

Outcome(failure, found, confirmed) ==
  [status |-> IF failure # None THEN failure ELSE Policy!ContextStatus(Sum(found), Sum(confirmed)),
   candidates |-> Sum(found), accepted |-> Sum(confirmed)]

\* Every failure ends the evaluation.  Summaries that are not passed count as none.
Fails(failures, found, confirmed) ==
  /\ stage' = "done"
  /\ \E failure \in failures : outcome' = Outcome(failure, found, confirmed)
  /\ UNCHANGED <<candidates, accepted>>

NextText(found, confirmed) ==
  IF at = Len(documents)
    THEN stage' = "done" /\ outcome' = Outcome(None, found, confirmed) /\ UNCHANGED at
    ELSE stage' = "scan" /\ at' = at + 1 /\ UNCHANGED outcome

DocumentSignals(document, rules) ==
  UNION {{[block |-> b, rule |-> s.rule, normalized |-> s.normalized, range |-> s.original] :
            s \in UNION {Signals(rule, document[b].text) : rule \in rules}} : b \in DOMAIN document}

\* Normalizer, scanner and atom builder.
Scan ==
  /\ stage = "scan"
  /\ atoms' = Atoms(Document)
  /\ signals' = DocumentSignals(Document, LexicalRules)
  /\ vectors' = <<>> /\ segments' = <<>> /\ mapped' = <<>> /\ read' = <<>>
  /\ IF \E s \in signals' : s.range = NoRange
       THEN Fails({"failed"}, <<>>, <<>>) /\ UNCHANGED at
     ELSE IF atoms' = <<>>
       THEN /\ NextText(Append(candidates, {}), Append(accepted, {}))
            /\ candidates' = Append(candidates, {}) /\ accepted' = Append(accepted, {})
     ELSE stage' = "embed" /\ UNCHANGED <<at, results>>
  /\ UNCHANGED <<request, masked>>

\* The model cannot be had, raises, or its vectors are not what was asked for, or
\* time is up before or after a batch.
EmbedFails ==
  /\ stage = "embed" /\ Fails({"timeout", "failed"}, <<>>, <<>>)
  /\ UNCHANGED <<request, at, perText, masked>>

Batch(n) == Least({BatchSize, Len(atoms) - n})

\* One micro batch: a vector for each of its atoms.
EmbedBatch ==
  /\ stage = "embed"
  /\ \E batch \in [1 .. Batch(Len(vectors)) -> {"zero", "some"}] : vectors' = vectors \o batch
  /\ stage' = IF Len(vectors) + BatchSize >= Len(atoms) THEN "segment" ELSE "embed"
  /\ UNCHANGED <<request, at, signals, atoms, segments, mapped, read, results, masked>>

\* A similarity with a zero vector cannot be had: the builder falls back on the
\* blocks, and the caller gives up.
BuildSegments ==
  /\ stage = "segment"
  /\ IF Len(atoms) > 1 /\ "zero" \in Range(vectors)
       THEN segments' = FallbackSegments(atoms) /\ Fails({"failed"}, <<>>, <<>>)
       ELSE /\ \E similarity \in [1 .. Len(atoms) - 1 -> Similarities] :
                 segments' = SemanticSegments(atoms, similarity)
            /\ stage' = "map" /\ UNCHANGED results
  /\ UNCHANGED <<request, at, signals, atoms, vectors, mapped, read, masked>>

Map ==
  /\ stage = "map" /\ stage' = "pool"
  /\ mapped' = MapSignals(atoms, segments, signals)
  /\ UNCHANGED <<request, at, signals, atoms, vectors, segments, read, results, masked>>

\* The mean of the vectors of a segment may be zero, and then has no direction.
PoolVectors ==
  /\ stage = "pool"
  /\ \E zero \in SUBSET DOMAIN segments :
       /\ \A k \in DOMAIN segments : Len(segments[k]) = 1 => (k \in zero <=> vectors[segments[k][1]] = "zero")
       /\ IF zero # {} THEN Fails({"failed"}, <<>>, <<>>) ELSE stage' = "classify" /\ UNCHANGED results
  /\ UNCHANGED <<request, at, perText, masked>>

\* Queue full, timeout or an exception.
ClassifierFails ==
  /\ stage = "classify" /\ Fails({"timeout", "failed"}, candidates, <<>>)
  /\ UNCHANGED <<request, at, perText, masked>>

\* Rows the model may give: also one too few, and one with a score above Full.
Rows(size, columns) ==
  [1 .. size -> [1 .. columns -> {0, Full}]]
    \cup {[k \in 1 .. size - 1 |-> [j \in 1 .. columns |-> 0]], [k \in 1 .. size |-> [j \in 1 .. columns |-> Full + 1]]}

Classify ==
  /\ stage = "classify"
  /\ \E rows \in Rows(Len(segments), Len(Provider.bundle.columns)) :
       LET found == Models!Classify(Provider.bundle, rows, Len(segments))
       IN IF found = Bad THEN Fails({"failed"}, candidates, <<>>) /\ UNCHANGED <<at, read>>
          ELSE /\ candidates' = Append(candidates, found)
               /\ IF found # {} /\ Verifier # Bad
                    THEN /\ stage' = "verify"
                         /\ read' = [c \in Models!Scorable(Verifier, found) |->
                                       ChunksOf(Content(SegmentText(Document, atoms, segments[c[1]])), Verifier.chunks)]
                         /\ UNCHANGED <<at, accepted, outcome>>
                    ELSE /\ accepted' = Append(accepted, {})
                         /\ NextText(Append(candidates, found), Append(accepted, {}))
                         /\ UNCHANGED read
  /\ UNCHANGED <<request, signals, atoms, vectors, segments, mapped, masked>>

VerifierFails ==
  /\ stage = "verify" /\ Fails({"timeout", "failed"}, candidates, accepted)
  /\ UNCHANGED <<request, at, perText, masked>>

\* Scores the model may give: at most one chunk is like the label, or one is missing.
Scores(size) ==
  {[i \in 1 .. size |-> IF i = hit THEN Full ELSE 0] : hit \in 0 .. size} \cup {[i \in 1 .. size - 1 |-> Full]}

\* One summary for the text.  What is uncertain is not accepted.
Verify ==
  /\ stage = "verify"
  /\ LET sizes == [c \in DOMAIN read |-> Cardinality(read[c])]
     IN \E scores \in {f \in [DOMAIN read -> UNION {Scores(sizes[c]) : c \in DOMAIN read}] :
                         \A c \in DOMAIN read : f[c] \in Scores(sizes[c])} :
          LET confirmed == Models!Verify(Verifier, scores, sizes)
          IN IF confirmed = Bad THEN Fails({"failed"}, candidates, accepted) /\ UNCHANGED at
             ELSE /\ accepted' = Append(accepted, confirmed)
                  /\ NextText(candidates, Append(accepted, confirmed))
                  /\ UNCHANGED candidates
  /\ UNCHANGED <<request, perText, masked>>

PipelineNext ==
  \/ Match \/ Scan \/ EmbedFails \/ EmbedBatch \/ BuildSegments \/ Map \/ PoolVectors
  \/ ClassifierFails \/ Classify \/ VerifierFails \/ Verify

PipelineSpec == PipelineInit /\ [][PipelineNext]_pipelineVars

-----------------------------------------------------------------------------
(***************************************************************************)
(* Properties                                                              *)
(***************************************************************************)
\* A signal found in the normalized text has a range in the original, and taking
\* that range out leaves the rest as it is: the range holds all of the match, runs
\* that were shortened included, and nothing else.
\* normalization/normalizer.py:10, scanner/scanner.py:22
SignalsCoverTheirMatch ==
  stage # "scan" => \A s \in signals :
    LET text == Document[s.block].text
    IN /\ s.range # NoRange
       /\ Normalize(Slice(text, s.range)).text = Slice(Normalize(text).text, s.normalized)
       /\ Normalize(SubSeq(text, 1, s.range.start)).text = SubSeq(Normalize(text).text, 1, s.normalized.start)
       /\ Normalize(SubSeq(text, s.range.end + 1, Len(text))).text
            = SubSeq(Normalize(text).text, s.normalized.end + 1, Len(Normalize(text).text))

\* What the composer shows after a mask is the text with each accepted detection
\* replaced: no detection of a masking rule is left whole, and one placeholder
\* stands for one value.  masking/placeholder.py:52
FindingsMasked ==
  masked # None =>
    LET text == documents[1][1].text
        found == DetectionsForMasking(text, EvaluateFilterRules(text, Enabled) \cap Masking)
        taken == NonOverlapping(found)
        At(i) == {k \in DOMAIN taken : i \in Positions(taken[k].range)}
    IN /\ masked = FlattenSeq([i \in DOMAIN text |->
                      IF At(i) = {} THEN <<text[i]>>
                      ELSE IF taken[Least(At(i))].range.start = i - 1
                             THEN <<Placeholder(text, taken, Least(At(i)))>> ELSE <<>>])
       /\ \A d \in found : \E k \in DOMAIN taken : Overlap(d.range, taken[k].range)
       /\ \A j, k \in DOMAIN taken : Placeholder(text, taken, j) = Placeholder(text, taken, k)
                                     <=> Identity(text, taken[j]) = Identity(text, taken[k])

\* Nothing of a text escapes the models, and nothing is looked at twice: a character
\* that is no blank is in one atom, an atom in one segment, in source order, and a
\* segment stays below the maximum.  atoms/builder.py:46, segmenter/builder.py:19
EveryCharacterInOneSegment ==
  (stage # "scan" /\ segments # <<>>) =>
    /\ \A b \in DOMAIN Document : \A i \in Ink(Document[b].text, Whole(Document[b].text)) :
         Cardinality({k \in DOMAIN atoms : atoms[k].block = b /\ i \in Positions(atoms[k].range)}) = 1
    /\ \A j, k \in DOMAIN atoms : (j < k /\ atoms[j].block = atoms[k].block) => atoms[j].range.end <= atoms[k].range.start
    /\ FlattenSeq(segments) = Interval(1, Len(atoms))
    /\ \A k \in DOMAIN segments : segments[k] # <<>> /\ CharsOf(atoms, segments[k]) <= MaxChars

\* A signal that is more than blanks is told of one segment, also when it starts in
\* another atom than it ends, and none is told of two.  mapping/builder.py:23
EverySignalInOneSegment ==
  (stage # "scan" /\ mapped # <<>>) => \A s \in signals :
    LET told == {k \in DOMAIN mapped : s \in mapped[k]}
    IN Cardinality(told) <= 1 /\ (Ink(Document[s.block].text, s.range) # {} => Cardinality(told) = 1)

\* The verifier is given all of a candidate's segment, in whichever chunk, when the
\* chunk policy of its manifest reaches as far as a segment may.
\* ml/verifier/runtime.py:136
VerifierReadsAll ==
  (stage # "scan" /\ read # <<>> /\ Verifier.chunks.overlap + Verifier.chunks.most * (Verifier.chunks.chars - Verifier.chunks.overlap) >= MaxChars) =>
    \A c \in DOMAIN read :
      LET content == Content(SegmentText(Document, atoms, segments[c[1]]))
      IN \A i \in Ink(content, Whole(content)) :
           \E start \in ChunkStarts(Len(content), Verifier.chunks) :
             /\ i \in start + 1 .. start + Verifier.chunks.chars
             /\ Collapsed(Chunk(content, start, Verifier.chunks)) \in read[c]

\* On the way to the models a text loses nothing: its characters, its signals and
\* what is verified.
NothingIsLost == EveryCharacterInOneSegment /\ EverySignalInOneSegment /\ VerifierReadsAll

\* "no_candidate", which lets a prompt pass, is said only when every text was classified
\* and none had a candidate; what a verifier confirmed was a candidate of a label that
\* the classifier was trained for.  services/analyze_classifier.py:229
ClearMeansClassified ==
  /\ \A i \in DOMAIN accepted : accepted[i] \subseteq candidates[i]
  /\ \A i \in DOMAIN candidates : \A c \in candidates[i] : c[2] \in Range(Provider.bundle.columns)
  /\ (outcome # None /\ outcome.status \notin {"timeout", "failed", "disabled"}) =>
       /\ Len(candidates) = Len(documents) /\ Len(accepted) = Len(documents)
       /\ outcome.status = "no_candidate" <=> \A i \in DOMAIN candidates : candidates[i] = {}

\* What is loaded fits together: the label files, the definitions and the thresholds
\* come from different files, and all are from where the manifest is or from the root
\* of the artifacts.  ml/verifier/manifest.py:33, ml/classifier/manifest.py:53
LoadedFitsTogether ==
  LET Below(path, manifest) ==
        LET root == Models!ArtifactRoot(manifest)
        IN IsPrefix(root, path) /\ ".." \notin Range(SubSeq(path, Len(root) + 1, Len(path)))
  IN stage = "received" =>
     /\ Provider.status = "available" =>
          LET artifact == Provider.bundle.artifact
          IN /\ Below(artifact.model, Settings[setting].classifier_manifest)
             /\ Cardinality(Range(artifact.labels)) = Len(artifact.labels) /\ artifact.threshold \in 0 .. Full
     /\ Verifier # Bad =>
          /\ Below(Verifier.model, Settings[setting].verifier_manifest)
          /\ \A label \in Range(Verifier.labels) :
               /\ label \in DOMAIN Verifier.definitions /\ label \in DOMAIN Verifier.thresholds
               /\ Verifier.thresholds[label] \in 0 .. Full
          /\ Verifier.chunks.overlap < Verifier.chunks.chars

\* An expression that is in the prompt is found by its rule: filter_rules.py:121
\* "Detects exposed API keys, access tokens, webhook tokens, and private-key headers."
ExpressionsAreFound ==
  \A rule \in {r \in Enabled : Kind[r] = "regex"} :
    Find(Words[rule], documents[1][1].text) # {} => Matched(rule, documents[1][1].text)
=============================================================================
