--------------------------- MODULE ModelArtifacts ---------------------------
(***************************************************************************)
(* What the API has of its two context models: manifests, label files and  *)
(* model files are read from a disk, and become the classifier and the     *)
(* verifier that answer for segments.  There is no state here.             *)
(*                                                                         *)
(* A path is a sequence of names and a disk a function from paths to what  *)
(* is there.  Bad stands for all that is not of the wanted type: a missing *)
(* file or field, broken JSON, a text for a number, and for what a loader  *)
(* refuses.  "selected" is not told apart from the manifest around it.     *)
(* Scores and thresholds are shares of Full.                               *)
(***************************************************************************)
EXTENDS Integers, Sequences, SequencesExt

CONSTANTS Bad, Full

\* A file that the manifest names stays under the place it is looked for.
RelativePath(path) == path # Bad /\ path # <<>> /\ path[1] \notin {"/", "c:"} /\ ".." \notin Range(path)

ArtifactRoot(manifest) ==
  LET dir == Front(manifest)
  IN IF dir # <<>> /\ Last(dir) = "models" THEN Front(dir) ELSE dir

Resolved(manifest, path, disk) ==
  IF ArtifactRoot(manifest) \o path \notin DOMAIN disk /\ Front(manifest) \o path \in DOMAIN disk
    THEN Front(manifest) \o path ELSE ArtifactRoot(manifest) \o path

Read(path, disk) == IF path \in DOMAIN disk THEN disk[path] ELSE Bad

Threshold(value) == IF value \in 0 .. Full THEN value ELSE Bad

PositiveInt(value) == value \in Nat \ {0}

NonnegativeInt(value) == value \in Nat

Distinct(s) == \A i, j \in DOMAIN s : s[i] = s[j] => i = j

TargetLabels(value) ==
  IF value # Bad /\ value # <<>> /\ Bad \notin Range(value) /\ Distinct(value) THEN value ELSE Bad

LabelsOf(manifest, path, disk) ==
  IF RelativePath(path) THEN TargetLabels(Read(Resolved(manifest, path, disk), disk)) ELSE Bad

Refused(fields) == Bad \in Range(fields)

(***************************************************************************)
(* Classifier                                                              *)
(***************************************************************************)
CandidateThreshold(manifest) ==
  IF "candidate_threshold" \in DOMAIN manifest THEN Threshold(manifest.candidate_threshold)
  ELSE IF manifest.lr_candidate_policy # Bad /\ manifest.lr_candidate_policy.mode = "global_high_recall_threshold"
         THEN Threshold(manifest.lr_candidate_policy.candidate_threshold) ELSE Bad

ClassifierManifest(path, disk) ==
  LET manifest == Read(path, disk)
      artifact == [model |-> IF RelativePath(manifest.lr_model) THEN ArtifactRoot(path) \o manifest.lr_model ELSE Bad,
                   labels |-> LabelsOf(path, manifest.target_labels_json, disk),
                   threshold |-> CandidateThreshold(manifest)]
  IN IF manifest = Bad \/ Refused(artifact) THEN Bad ELSE artifact

\* The labels in the order of the model's columns.
Predictor(path, disk) ==
  LET payload == Read(path, disk)
  IN IF payload = Bad \/ payload.classifier = Bad THEN Bad ELSE TargetLabels(payload.target_labels)

BuildClassifier(path, disk) ==
  LET artifact == ClassifierManifest(path, disk)
      columns == Predictor(artifact.model, disk)
  IN IF artifact = Bad \/ columns = Bad THEN Bad ELSE [artifact |-> artifact, columns |-> columns]

ClassifierProvider(setting) ==
  LET bundle == BuildClassifier(setting.classifier_manifest, setting.disk)
  IN IF ~setting.classifier_enabled THEN [status |-> "disabled"]
     ELSE IF setting.classifier_manifest = Bad \/ bundle = Bad THEN [status |-> "unavailable"]
     ELSE [status |-> "available", bundle |-> bundle]

(***************************************************************************)
(* Verifier                                                                *)
(***************************************************************************)
Definitions(value, labels) ==
  IF value # Bad /\ \A label \in Range(labels) : label \in DOMAIN value /\ value[label] # Bad
    THEN [label \in Range(labels) |-> value[label]] ELSE Bad

\* Mutant: a label without a threshold is left out.
LabelThresholdsFound(manifest, labels) ==
  IF manifest.verifier_threshold_mode = "global"
    THEN LET threshold == Threshold(manifest.verifier_threshold)
         IN IF threshold = Bad THEN Bad ELSE [label \in Range(labels) |-> threshold]
    ELSE [label \in Range(labels) \cap DOMAIN manifest.verifier_thresholds |-> manifest.verifier_thresholds[label]]

LabelThresholds(manifest, labels) ==
  IF manifest.verifier_threshold_mode = "global"
    THEN LET threshold == Threshold(manifest.verifier_threshold)
         IN IF threshold = Bad THEN Bad ELSE [label \in Range(labels) |-> threshold]
  ELSE IF manifest.verifier_threshold_mode = "labelwise"
    THEN LET thresholds == manifest.verifier_thresholds
         IN IF /\ thresholds # Bad /\ DOMAIN thresholds = Range(labels)
               /\ \A label \in Range(labels) : Threshold(thresholds[label]) # Bad
              THEN thresholds ELSE Bad
  ELSE Bad

\* The policy stands in an object of its own, with its pooling, or in the manifest.
ChunkPolicy(manifest) ==
  LET policy == IF "chunk_policy" \in DOMAIN manifest THEN manifest.chunk_policy ELSE manifest
  IN IF /\ policy # Bad
        /\ "chunk_policy" \in DOMAIN manifest => policy.pooling = "max"
        /\ PositiveInt(policy.chunk_chars) /\ NonnegativeInt(policy.chunk_overlap)
        /\ PositiveInt(policy.max_chunks)
        /\ policy.chunk_overlap < policy.chunk_chars
       THEN [chars |-> policy.chunk_chars, overlap |-> policy.chunk_overlap, most |-> policy.max_chunks]
       ELSE Bad

VerifierManifest(path, disk) ==
  LET manifest == Read(path, disk)
      labels == LabelsOf(path, manifest.target_labels_json, disk)
      definitions == manifest.label_definitions_json
      loaded ==
        [model |-> IF RelativePath(manifest.verifier_dir) THEN ArtifactRoot(path) \o manifest.verifier_dir ELSE Bad,
         labels |-> labels,
         definitions |-> IF RelativePath(definitions) /\ labels # Bad
                           THEN Definitions(Read(Resolved(path, definitions, disk), disk), labels) ELSE Bad,
         thresholds |-> IF labels = Bad THEN Bad ELSE LabelThresholds(manifest, labels),
         chunks |-> ChunkPolicy(manifest)]
  IN IF manifest = Bad \/ Refused(loaded) THEN Bad ELSE loaded

\* Bad when there is none: not wanted, not configured, or not to be built.
VerifierConfig(setting) ==
  LET loaded == VerifierManifest(setting.verifier_manifest, setting.disk)
  IN IF \/ ~setting.verifier_enabled \/ setting.verifier_manifest = Bad
        \/ loaded = Bad \/ Read(loaded.model, setting.disk) = Bad
       THEN Bad ELSE loaded

(***************************************************************************)
(* Answers                                                                 *)
(***************************************************************************)
ValidScores(scores, size) == Len(scores) = size /\ \A i \in DOMAIN scores : scores[i] \in 0 .. Full

\* A row of scores for each segment, a column for each label; Bad is a failure.
Classify(bundle, rows, size) ==
  LET labels == bundle.artifact.labels
  IN IF \/ bundle.columns # labels
        \/ ~(Len(rows) = size /\ \A k \in DOMAIN rows : ValidScores(rows[k], Len(labels)))
       THEN Bad
     ELSE {<<p[1], labels[p[2]]>> :
             p \in {q \in (DOMAIN rows) \X (DOMAIN labels) : rows[q[1]][q[2]] >= bundle.artifact.threshold}}

\* A candidate without a definition, or without a threshold, is uncertain.
Scorable(verifier, candidates) == {c \in candidates : c[2] \in DOMAIN verifier.definitions \cap DOMAIN verifier.thresholds}

\* Scores of the chunks of each candidate, of which there are sizes; the best one
\* counts.
Verify(verifier, scores, sizes) ==
  IF \E c \in DOMAIN scores : ~ValidScores(scores[c], sizes[c]) THEN Bad
  ELSE {c \in DOMAIN scores : \E i \in DOMAIN scores[c] : scores[c][i] >= verifier.thresholds[c[2]]}
=============================================================================
