-------------------------- MODULE TextPipelineProofs --------------------------
(***************************************************************************)
(* TextPipeline for every text, every set of rules, every setting and      *)
(* every answer of the models.                                             *)
(*                                                                         *)
(* Most of what is to be shown is about the texts, not about the steps:    *)
(* scanning and segmenting are functions of a text.  The steps add little  *)
(* but the moment at which what was computed for one text is there: the    *)
(* signals, atoms and segments are those of the text looked at             *)
(* (SignalsFound, SegmentsHold, MappedHold, ReadHold) and the counts those *)
(* of the texts before it (CountsHold); the mask is of the first one       *)
(* (MaskHold).                                                             *)
(*                                                                         *)
(* An induction over a text or over a list is to take the least exception  *)
(* (LeastNumber).  A fold or a recursive function is a chosen function     *)
(* that satisfies its equation: that there is one is shown the same way    *)
(* (FoldExists, RecursionExists and the like), and its values are then     *)
(* followed step by step (FoldSteps).  What a lemma needs of a function    *)
(* under a quantifier is named, so that the provers meet the name only.    *)
(***************************************************************************)
EXTENDS TextPipeline, WellFoundedInduction, FiniteSetTheorems, SequenceTheorems, TLAPS

-------------------------------------------------------------------------------
(***************************************************************************)
(* Numbers, folds and sets                                                 *)
(***************************************************************************)
(* A set of numbers with a member has a least one: induction over numbers    *)
(* here is to take the least exception.                                      *)
LEMMA LeastNumber ==
  ASSUME NEW T, T \subseteq Nat, T # {}
  PROVE  \E least \in T : \A n \in T : least <= n
<1>1. PICK x \in T : \A y \in T : <<y, x>> \notin OpToRel(<, Nat)
  BY WFMin, NatLessThanWellFounded
<1>2. \A y \in T : ~(y < x)
  BY <1>1 DEF OpToRel
<1> QED
  BY <1>2

(* So the helpers of the model that choose a least number find one.         *)
LEMMA LeastOf ==
  ASSUME NEW S, S \subseteq Nat, S # {}
  PROVE  Least(S) \in S /\ \A x \in S : Least(S) <= x
BY LeastNumber DEF Least

(* A set of numbers below a bound has a greatest number.                    *)
LEMMA GreatestOf ==
  ASSUME NEW n \in Nat, NEW S, S \subseteq 0 .. n, S # {}
  PROVE  /\ Greatest(S) \in S /\ \A x \in S : x <= Greatest(S)
         /\ Max(S) \in S /\ \A x \in S : x <= Max(S)
<1> DEFINE T == {m \in Nat : \A x \in S : x <= m}
<1>1. n \in T
  OBVIOUS
<1>2. PICK m \in T : \A k \in T : m <= k
  <2>1. T \subseteq Nat /\ T # {}
    BY <1>1
  <2> HIDE DEF T
  <2> QED
    BY <2>1, LeastNumber
<1>3. m \in S
  <2> SUFFICES ASSUME m \notin S PROVE FALSE
    OBVIOUS
  <2>1. PICK x \in S : TRUE
    OBVIOUS
  <2>2. x \in Nat /\ x < m /\ m - 1 \in Nat
    BY <1>2
  <2>3. \A y \in S : y <= m - 1
    BY <1>2
  <2> QED
    BY <1>2, <2>2, <2>3
<1>4. \A x \in S : x <= m
  BY <1>2
<1>5. \A y \in S : (\A x \in S : x <= y) => y = m
  BY <1>3, <1>4
<1> HIDE DEF T
<1>6. Greatest(S) \in S /\ \A x \in S : x <= Greatest(S)
  BY <1>3, <1>4 DEF Greatest
<1>7. \E x \in S : \A y \in S : x >= y
  BY <1>3, <1>4
<1>8. Max(S) \in S /\ \A y \in S : Max(S) >= y
  BY <1>7 DEF Max
<1> QED
  BY <1>6, <1>8

(* The first n numbers are n.                                               *)
LEMMA CountTo ==
  ASSUME NEW n \in Nat
  PROVE  IsFiniteSet(1 .. n) /\ Cardinality(1 .. n) = n
<1>1. IsFiniteSet(1 .. n) /\ Cardinality(1 .. n) = IF 1 > n THEN 0 ELSE n - 1 + 1
  BY FS_Interval
<1> QED
  BY <1>1

\* iter is what a fold chooses, F what it does with a position and a state of St, and
\* steps are the states after each position.
Folded(iter, n, base, F) ==
  \A s \in SUBSET (1 .. n) : iter[s] = IF s = {} THEN base ELSE F[<<Max(s), iter[s \ {Max(s)}]>>]

FoldedWithin(iter, n, base, St, F) ==
  /\ iter[{}] = base
  /\ \A s \in SUBSET (1 .. n) : s # {} /\ iter[s \ {Max(s)}] \in St => iter[s] = F[<<Max(s), iter[s \ {Max(s)}]>>]

Stepwise(steps, iter, n, base, F) ==
  steps[0] = base /\ steps[n] = iter[1 .. n] /\ \A i \in 1 .. n : steps[i] = F[<<i, steps[i - 1]>>]

(* A fold over a sequence is the last of its steps.  F is what the fold does *)
(* with a position and a state of St; iter is what a fold chooses.           *)
LEMMA FoldExists ==
  ASSUME NEW n \in Nat, NEW St, NEW base \in St, NEW F \in [(1 .. n) \X St -> St]
  PROVE  \E g \in [SUBSET (1 .. n) -> St] : Folded(g, n, base, F)
<1> DEFINE Folds(g, k) == /\ g \in [SUBSET (1 .. k) -> St]
                          /\ \A s \in SUBSET (1 .. k) : g[s] = IF s = {} THEN base ELSE F[<<Max(s), g[s \ {Max(s)}]>>]
           T == {k \in 0 .. n : ~ \E g : Folds(g, k)}
<1>1. T = {}
  <2> SUFFICES ASSUME T # {} PROVE FALSE
    OBVIOUS
  <2>1. PICK k \in T : \A j \in T : k <= j
    <3>1. T \subseteq Nat
      OBVIOUS
    <3> HIDE DEF T
    <3> QED
      BY <3>1, LeastNumber
  <2>2. k \in 0 .. n /\ ~ \E f : Folds(f, k)
    OBVIOUS
  <2>3. k # 0
    <3>1. Folds([s \in SUBSET (1 .. 0) |-> base], 0)
      OBVIOUS
    <3> HIDE DEF Folds
    <3> QED
      BY <2>2, <3>1
  <2>4. k \in 1 .. n
    BY <2>2, <2>3
  <2>5. PICK f : Folds(f, k - 1)
    <3>1. k - 1 \in 0 .. n /\ ~(k <= k - 1)
      BY <2>4
    <3> HIDE DEF Folds
    <3>2. k - 1 \notin T
      BY <2>1, <3>1
    <3> QED
      BY <3>1, <3>2
  <2> DEFINE g == [s \in SUBSET (1 .. k) |-> IF k \in s THEN F[<<k, f[s \ {k}]>>] ELSE f[s]]
  <2>6. ASSUME NEW s \in SUBSET (1 .. k)
        PROVE  /\ g[s] \in St
               /\ g[s] = IF s = {} THEN base ELSE F[<<Max(s), g[s \ {Max(s)}]>>]
    <3>1. CASE k \in s
      <4>1. Max(s) = k
        <5>1. s \subseteq 0 .. k /\ s # {} /\ k \in Nat
          BY <2>4, <3>1
        <5>2. Max(s) \in s /\ \A x \in s : x <= Max(s)
          BY <5>1, GreatestOf
        <5>3. Max(s) \in 1 .. k /\ k <= Max(s)
          BY <3>1, <5>2
        <5> QED
          BY <5>1, <5>3
      <4>2. s \ {k} \in SUBSET (1 .. k - 1) /\ s \ {k} \in SUBSET (1 .. k) /\ k \notin s \ {k}
        BY <2>4
      <4>3. f[s \ {k}] \in St /\ g[s \ {k}] = f[s \ {k}]
        BY <2>5, <4>2
      <4>4. g[s] = F[<<k, f[s \ {k}]>>]
        BY <3>1
      <4> HIDE DEF g
      <4> QED
        BY <2>4, <3>1, <4>1, <4>3, <4>4
    <3>2. CASE k \notin s
      <4>1. s \in SUBSET (1 .. k - 1)
        BY <2>4, <3>2
      <4>2. g[s] = f[s] /\ f[s] \in St
        BY <2>5, <3>2, <4>1
      <4>3. CASE s = {}
        BY <2>5, <4>1, <4>2, <4>3
      <4>4. CASE s # {}
        <5>1. s \ {Max(s)} \in SUBSET (1 .. k) /\ s \ {Max(s)} \in SUBSET (1 .. k - 1) /\ k \notin s \ {Max(s)}
          BY <3>2, <4>1
        <5>2. g[s \ {Max(s)}] = f[s \ {Max(s)}]
          BY <5>1
        <5> HIDE DEF g
        <5> QED
          BY <2>5, <4>1, <4>2, <4>4, <5>2
      <4> QED
        BY <4>3, <4>4
    <3> QED
      BY <3>1, <3>2
  <2>7. Folds(g, k)
    <3>1. g \in [SUBSET (1 .. k) -> St]
      BY <2>6
    <3> HIDE DEF g
    <3> QED
      BY <2>6, <3>1
  <2> HIDE DEF g, Folds
  <2> QED
    BY <2>2, <2>7
<1>2. PICK g : Folds(g, n)
  <2>1. n \in 0 .. n
    OBVIOUS
  <2> HIDE DEF Folds
  <2> QED
    BY <1>1, <2>1
<1> QED
  BY <1>2 DEF Folded

(* What a fold chooses goes through one state of St after the other.        *)
LEMMA FoldSteps ==
  ASSUME NEW n \in Nat, NEW St, NEW base \in St, NEW F \in [(1 .. n) \X St -> St], NEW iter,
         FoldedWithin(iter, n, base, St, F)
  PROVE  \E h \in [0 .. n -> St] : Stepwise(h, iter, n, base, F)
<1> USE DEF FoldedWithin
<1> DEFINE h == [i \in 0 .. n |-> iter[1 .. i]]
<1>1. ASSUME NEW i \in 1 .. n, iter[1 .. i - 1] \in St
      PROVE  iter[1 .. i] \in St /\ iter[1 .. i] = F[<<i, iter[1 .. i - 1]>>]
  <2>1. 1 .. i \in SUBSET (1 .. n) /\ 1 .. i # {} /\ i \in Nat /\ 1 .. i \subseteq 0 .. i
    OBVIOUS
  <2>2. Max(1 .. i) = i
    <3> DEFINE s == 1 .. i
    <3>1. s \subseteq 0 .. i /\ s # {} /\ i \in s /\ i \in Nat
      OBVIOUS
    <3> HIDE DEF s
    <3>2. Max(s) \in s /\ i <= Max(s)
      BY <3>1, GreatestOf
    <3> QED
      BY <3>2 DEF s
  <2>3. (1 .. i) \ {i} = 1 .. i - 1
    OBVIOUS
  <2> QED
    BY <1>1, <2>1, <2>2, <2>3
<1>2. \A i \in 0 .. n : iter[1 .. i] \in St
  <2> DEFINE T == {i \in 0 .. n : iter[1 .. i] \notin St}
  <2> SUFFICES ASSUME T # {} PROVE FALSE
    OBVIOUS
  <2>1. PICK i \in T : \A j \in T : i <= j
    <3>1. T \subseteq Nat
      OBVIOUS
    <3> HIDE DEF T
    <3> QED
      BY <3>1, LeastNumber
  <2>2. i # 0
    <3>1. 1 .. 0 = {}
      OBVIOUS
    <3> QED
      BY <2>1, <3>1
  <2>3. i \in 1 .. n /\ i - 1 \in 0 .. n /\ i - 1 \notin T
    BY <2>1, <2>2
  <2> QED
    BY <1>1, <2>1, <2>3
<1>3. h \in [0 .. n -> St] /\ h[0] = base /\ h[n] = iter[1 .. n]
  <2>1. 1 .. 0 = {}
    OBVIOUS
  <2> QED
    BY <1>2, <2>1
<1>4. \A i \in 1 .. n : h[i] = F[<<i, h[i - 1]>>]
  BY <1>1, <1>2
<1> QED
  BY <1>3, <1>4 DEF Stepwise

(* The file a manifest names is below the root of the manifest.             *)
LEMMA BelowTheRoot ==
  ASSUME NEW manifest, BadOrSeq(manifest), manifest # Bad, NEW path, BadOrSeq(path), Models!RelativePath(path)
  PROVE  LET root == Models!ArtifactRoot(manifest)
             whole == root \o path
         IN IsPrefix(root, whole) /\ ".." \notin Range(SubSeq(whole, Len(root) + 1, Len(whole)))
<1> DEFINE root == Models!ArtifactRoot(manifest)
           whole == root \o path
           names == Range(manifest) \cup Range(path)
<1>1. manifest \in Seq(names) /\ path \in Seq(names) /\ ".." \notin Range(path)
  BY DEF BadOrSeq, IsSequence, Models!RelativePath, Range, Models!Range
<1>2. root \in Seq(names)
  <2> HIDE DEF names
  <2>1. \A s \in Seq(names) : Models!Front(s) \in Seq(names)
    BY DEF Models!Front
  <2> QED
    BY <1>1, <2>1 DEF Models!ArtifactRoot
<1> HIDE DEF root, names
<1>3. IsPrefix(root, whole)
  BY <1>1, <1>2 DEF IsPrefix
<1>4. SubSeq(whole, Len(root) + 1, Len(whole)) = path
  BY <1>1, <1>2
<1> QED
  BY <1>1, <1>3, <1>4 DEF root

(* A list without repetitions has as many members as places.                *)
LEMMA ListedOnce ==
  ASSUME NEW s, s \in Seq(Range(s)), Models!Distinct(s)
  PROVE  Cardinality(Range(s)) = Len(s)
<1> DEFINE n == Len(s)
<1>1. n \in Nat /\ DOMAIN s = 1 .. n /\ s \in [1 .. n -> Range(s)]
  BY DEF Range
<1>2. s \in Injection(1 .. n, Range(s)) /\ s \in Surjection(1 .. n, Range(s))
  BY <1>1 DEF Range, Models!Distinct, Injection, Surjection, IsInjective
<1> QED
  <2>1. ExistsBijection(1 .. n, Range(s))
    BY <1>2 DEF ExistsBijection, Bijection
  <2> HIDE DEF n
  <2> QED
    BY <1>1, <2>1, FS_CountingElements DEF n

(* Whatever the setting, the bundle of the classifier was made of files that *)
(* belong together.                                                          *)
LEMMA ClassifierFits ==
  ASSUME NEW k \in DOMAIN Settings, Models!ClassifierProvider(Settings[k]).status = "available"
  PROVE  LET artifact == Models!ClassifierProvider(Settings[k]).bundle.artifact
             path == Settings[k].classifier_manifest
             root == Models!ArtifactRoot(path)
         IN /\ IsPrefix(root, artifact.model) /\ ".." \notin Range(SubSeq(artifact.model, Len(root) + 1, Len(artifact.model)))
            /\ Cardinality(Range(artifact.labels)) = Len(artifact.labels)
            /\ artifact.labels \in Seq(Range(artifact.labels))
            /\ artifact.threshold \in 0 .. Full
<1> DEFINE set == Settings[k]
           path == set.classifier_manifest
           bundle == Models!BuildClassifier(path, set.disk)
           manifest == Models!Read(path, set.disk)
           artifact == [model |-> IF Models!RelativePath(manifest.lr_model) THEN Models!ArtifactRoot(path) \o manifest.lr_model ELSE Bad,
                        labels |-> Models!LabelsOf(path, manifest.target_labels_json, set.disk),
                        threshold |-> Models!CandidateThreshold(manifest)]
<1>1. path # Bad /\ bundle # Bad /\ Models!ClassifierProvider(set).bundle = bundle
  BY DEF Models!ClassifierProvider
<1>2. Models!ClassifierManifest(path, set.disk) # Bad /\ bundle.artifact = Models!ClassifierManifest(path, set.disk)
  BY <1>1 DEF Models!BuildClassifier
<1>3. manifest # Bad /\ ~Models!Refused(artifact) /\ Models!ClassifierManifest(path, set.disk) = artifact
  BY <1>2 DEF Models!ClassifierManifest
<1>4. artifact.model # Bad /\ artifact.labels # Bad /\ artifact.threshold # Bad
  BY <1>3 DEF Models!Refused, Models!Range
<1>5. BadOrSeq(path) /\ BadOrSeq(manifest.lr_model) /\ BadOrSeq(artifact.labels)
  BY <1>3, SettingsAssumption DEF SettingsAssumption
<1>6. Models!RelativePath(manifest.lr_model) /\ artifact.model = Models!ArtifactRoot(path) \o manifest.lr_model
  BY <1>4
<1>7. artifact.labels \in Seq(Range(artifact.labels)) /\ Models!Distinct(artifact.labels)
  BY <1>4, <1>5 DEF BadOrSeq, IsSequence, Models!LabelsOf, Models!TargetLabels
<1>8. artifact.threshold \in 0 .. Full
  BY <1>4 DEF Models!CandidateThreshold, Models!Threshold
<1> HIDE DEF artifact, manifest, path, bundle, set
<1>9. Cardinality(Range(artifact.labels)) = Len(artifact.labels)
  BY <1>7, ListedOnce
<1>10. LET root == Models!ArtifactRoot(path) IN
         IsPrefix(root, artifact.model) /\ ".." \notin Range(SubSeq(artifact.model, Len(root) + 1, Len(artifact.model)))
  BY <1>1, <1>5, <1>6, BelowTheRoot
<1> QED
  BY <1>1, <1>2, <1>3, <1>7, <1>8, <1>9, <1>10 DEF path, set

(* The verifier that a setting names lies below its root, knows each of its labels, and*)
(* cuts chunks that get on. ml/verifier/artifacts.py                        *)
LEMMA VerifierFits ==
  ASSUME NEW k \in DOMAIN Settings, Models!VerifierConfig(Settings[k]) # Bad
  PROVE  LET verifier == Models!VerifierConfig(Settings[k])
             root == Models!ArtifactRoot(Settings[k].verifier_manifest)
         IN /\ IsPrefix(root, verifier.model) /\ ".." \notin Range(SubSeq(verifier.model, Len(root) + 1, Len(verifier.model)))
            /\ \A label \in Range(verifier.labels) :
                 /\ label \in DOMAIN verifier.definitions /\ label \in DOMAIN verifier.thresholds
                 /\ verifier.thresholds[label] \in 0 .. Full
            /\ verifier.chunks.overlap < verifier.chunks.chars
            /\ verifier.chunks.chars \in Nat /\ verifier.chunks.overlap \in Nat /\ verifier.chunks.most \in Nat \ {0}
<1> DEFINE set == Settings[k]
           path == set.verifier_manifest
           manifest == Models!Read(path, set.disk)
           labels == Models!LabelsOf(path, manifest.target_labels_json, set.disk)
           definitions == manifest.label_definitions_json
           loaded ==
             [model |-> IF Models!RelativePath(manifest.verifier_dir) THEN Models!ArtifactRoot(path) \o manifest.verifier_dir ELSE Bad,
              labels |-> labels,
              definitions |-> IF Models!RelativePath(definitions) /\ labels # Bad
                                THEN Models!Definitions(Models!Read(Models!Resolved(path, definitions, set.disk), set.disk), labels) ELSE Bad,
              thresholds |-> IF labels = Bad THEN Bad ELSE Models!LabelThresholds(manifest, labels),
              chunks |-> Models!ChunkPolicy(manifest)]
<1>1. path # Bad /\ Models!VerifierManifest(path, set.disk) # Bad /\ Models!VerifierConfig(set) = Models!VerifierManifest(path, set.disk)
  BY DEF Models!VerifierConfig
<1>2. manifest # Bad /\ ~Models!Refused(loaded) /\ Models!VerifierManifest(path, set.disk) = loaded
  BY <1>1 DEF Models!VerifierManifest
<1>3. loaded.model # Bad /\ loaded.labels # Bad /\ loaded.definitions # Bad /\ loaded.thresholds # Bad /\ loaded.chunks # Bad
  BY <1>2 DEF Models!Refused, Models!Range
<1>4. BadOrSeq(path) /\ BadOrSeq(manifest.verifier_dir)
  BY <1>2, SettingsAssumption DEF SettingsAssumption
<1>5. Models!RelativePath(manifest.verifier_dir) /\ loaded.model = Models!ArtifactRoot(path) \o manifest.verifier_dir
  BY <1>3
<1>6. DOMAIN loaded.definitions = Range(labels)
  BY <1>3 DEF Models!Definitions, Models!Range, Range
<1>7. DOMAIN loaded.thresholds = Range(labels) /\ \A label \in Range(labels) : loaded.thresholds[label] \in 0 .. Full
  <2>1. loaded.thresholds = Models!LabelThresholds(manifest, labels) /\ loaded.thresholds # Bad
    BY <1>3
  <2> HIDE DEF loaded, labels, manifest
  <2> QED
    BY <2>1 DEF Models!LabelThresholds, Models!Threshold, Models!Range, Range
<1>8. /\ loaded.chunks.overlap < loaded.chunks.chars
      /\ loaded.chunks.chars \in Nat /\ loaded.chunks.overlap \in Nat /\ loaded.chunks.most \in Nat \ {0}
  <2>1. loaded.chunks = Models!ChunkPolicy(manifest) /\ loaded.chunks # Bad
    BY <1>3
  <2> HIDE DEF loaded, labels, manifest
  <2> QED
    BY <2>1 DEF Models!ChunkPolicy, Models!PositiveInt, Models!NonnegativeInt
<1>9. loaded.labels = labels
  OBVIOUS
<1> HIDE DEF loaded, manifest, path, set, labels, definitions
<1>10. LET root == Models!ArtifactRoot(path) IN
         IsPrefix(root, loaded.model) /\ ".." \notin Range(SubSeq(loaded.model, Len(root) + 1, Len(loaded.model)))
  BY <1>1, <1>4, <1>5, BelowTheRoot
<1> QED
  BY <1>1, <1>2, <1>6, <1>7, <1>8, <1>9, <1>10 DEF path, set

Under(R, S, x) == {y \in S : <<y, x>> \in R}

(* R is a strict total order on S: every place is taken by one member.      *)
LEMMA Places ==
  ASSUME NEW S, IsFiniteSet(S), NEW R,
         \A x \in S : <<x, x>> \notin R,
         \A x, y \in S : x = y \/ <<x, y>> \in R \/ <<y, x>> \in R,
         \A x, y, z \in S : <<x, y>> \in R /\ <<y, z>> \in R => <<x, z>> \in R
  PROVE  /\ Cardinality(S) \in Nat
         /\ \A k \in 1 .. Cardinality(S) : \E x \in S : Cardinality(Under(R, S, x)) = k - 1
         /\ \A x \in S : Cardinality(Under(R, S, x)) \in 0 .. Cardinality(S) - 1
         /\ \A x, y \in S : <<x, y>> \in R =>
              Cardinality(Under(R, S, x)) < Cardinality(Under(R, S, y))
<1> DEFINE n == Cardinality(S)
           Above(x) == {y \in S : <<y, x>> \in R}
           place == [x \in S |-> Cardinality(Above(x)) + 1]
<1>1. n \in Nat
  BY FS_CardinalityType
<1>2. ASSUME NEW x \in S PROVE IsFiniteSet(Above(x)) /\ Cardinality(Above(x)) \in Nat /\ place[x] \in 1 .. n
  <2>1. Above(x) \in SUBSET (S \ {x})
    OBVIOUS
  <2>2. IsFiniteSet(S \ {x}) /\ Cardinality(S \ {x}) = n - 1
    BY FS_RemoveElement
  <2>3. place[x] = Cardinality(Above(x)) + 1
    OBVIOUS
  <2> HIDE DEF Above, place, n
  <2>4. IsFiniteSet(Above(x)) /\ Cardinality(Above(x)) <= n - 1
    BY <2>1, <2>2, FS_Subset
  <2>5. Cardinality(Above(x)) \in Nat
    BY <2>4, FS_CardinalityType
  <2> QED
    BY <1>1, <2>3, <2>4, <2>5
<1>3. ASSUME NEW x \in S, NEW y \in S, <<x, y>> \in R PROVE place[x] < place[y]
  <2>1. Above(x) \in SUBSET Above(y) /\ x \in Above(y) /\ x \notin Above(x)
    BY <1>3
  <2>2. place[x] = Cardinality(Above(x)) + 1 /\ place[y] = Cardinality(Above(y)) + 1
    OBVIOUS
  <2> HIDE DEF Above, place
  <2>3. Cardinality(Above(x)) <= Cardinality(Above(y)) /\ Cardinality(Above(x)) # Cardinality(Above(y))
    BY <1>2, <2>1, FS_Subset
  <2> QED
    BY <1>2, <2>2, <2>3
<1>4. \A x \in S : place[x] = Cardinality(Above(x)) + 1
  OBVIOUS
<1> HIDE DEF place
<1>5. place \in Injection(S, 1 .. n)
  <2>1. place \in [S -> 1 .. n]
    BY <1>2 DEF place
  <2>2. ASSUME NEW x \in S, NEW y \in S, place[x] = place[y] PROVE x = y
    <3>1. place[x] \in 1 .. n /\ place[y] \in 1 .. n
      BY <1>2
    <3>2. <<x, y>> \notin R /\ <<y, x>> \notin R
      BY <1>3, <2>2, <3>1
    <3> QED
      BY <3>2
  <2> QED
    BY <2>1, <2>2 DEF Injection, IsInjective
<1>6. place \in Surjection(S, 1 .. n)
  <2>1. IsFiniteSet(1 .. n) /\ Cardinality(1 .. n) = n
    BY <1>1, CountTo
  <2> QED
    BY <1>5, <2>1, FS_Injection
<1>7. \A k \in 1 .. n : \E x \in S : place[x] = k
  BY <1>6 DEF Surjection
<1>8. \A k \in 1 .. n : \E x \in S : Cardinality(Above(x)) = k - 1
  <2> SUFFICES ASSUME NEW k \in 1 .. n PROVE \E x \in S : Cardinality(Above(x)) = k - 1
    OBVIOUS
  <2>1. PICK x \in S : place[x] = k
    BY <1>7
  <2> HIDE DEF n, Above
  <2>2. Cardinality(Above(x)) \in Nat /\ k = Cardinality(Above(x)) + 1
    BY <1>2, <1>4, <2>1
  <2> QED
    BY <2>2
<1>9. \A x \in S : Cardinality(Above(x)) \in 0 .. n - 1
  <2> HIDE DEF n, Above
  <2> QED
    BY <1>1, <1>2, <1>4
<1>10. ASSUME NEW x \in S, NEW y \in S, <<x, y>> \in R PROVE Cardinality(Above(x)) < Cardinality(Above(y))
  <2>1. place[x] < place[y]
    BY <1>3, <1>10
  <2> HIDE DEF n, Above
  <2> QED
    BY <1>2, <1>4, <2>1
<1> QED
  BY <1>1, <1>8, <1>9, <1>10 DEF Under

(* Numbers in order.                                                        *)
LEMMA SortedNumbers ==
  ASSUME NEW S, S \subseteq Nat, IsFiniteSet(S)
  PROVE  LET s == Sorted(S, <) IN
         /\ Cardinality(S) \in Nat /\ DOMAIN s = 1 .. Cardinality(S) /\ s \in [1 .. Cardinality(S) -> S]
         /\ \A j, k \in 1 .. Cardinality(S) : j < k => s[j] < s[k]
         /\ \A x \in S : \E k \in 1 .. Cardinality(S) : s[k] = x
<1> DEFINE n == Cardinality(S)
           R == {p \in S \X S : p[1] < p[2]}
           Below(x) == {y \in S : y < x}
           s == Sorted(S, <)
<1>0. \A x, y \in S : x = y \/ x < y \/ y < x
  <2>1. \A x, y \in Nat : x = y \/ x < y \/ y < x
    OBVIOUS
  <2> QED
    BY <2>1
<1>1. \A x, y \in S : <<x, y>> \in R <=> x < y
  OBVIOUS
<1>2. \A x \in S : Below(x) = Under(R, S, x)
  BY <1>1 DEF Under
<1> HIDE DEF R
<1> HIDE DEF s, n, Below
<1>3. /\ Cardinality(S) \in Nat
      /\ \A k \in 1 .. Cardinality(S) : \E x \in S : Cardinality(Under(R, S, x)) = k - 1
      /\ \A x \in S : Cardinality(Under(R, S, x)) \in 0 .. Cardinality(S) - 1
      /\ \A x, y \in S : <<x, y>> \in R =>
           Cardinality(Under(R, S, x)) < Cardinality(Under(R, S, y))
  <2>1. \A x \in S : <<x, x>> \notin R
    BY <1>1
  <2>2. \A x, y \in S : x = y \/ <<x, y>> \in R \/ <<y, x>> \in R
    BY <1>0, <1>1
  <2>3. \A x, y, z \in S : <<x, y>> \in R /\ <<y, z>> \in R => <<x, z>> \in R
    BY <1>0, <1>1
  <2> QED
    BY <2>1, <2>2, <2>3, Places
<1>4. /\ n \in Nat
      /\ \A k \in 1 .. n : \E x \in S : Cardinality(Below(x)) = k - 1
      /\ \A x \in S : Cardinality(Below(x)) \in 0 .. n - 1
      /\ \A x, y \in S : x < y => Cardinality(Below(x)) < Cardinality(Below(y))
  BY <1>1, <1>2, <1>3 DEF n
<1>5. s = [k \in 1 .. n |-> CHOOSE x \in S : Cardinality(Below(x)) = k - 1]
  BY DEF Sorted, s, n, Below
<1>6. \A k \in 1 .. n : s[k] \in S /\ Cardinality(Below(s[k])) = k - 1
  BY <1>4, <1>5
<1>7. DOMAIN s = 1 .. n /\ s \in [1 .. n -> S]
  BY <1>5, <1>6
<1>8. ASSUME NEW j \in 1 .. n, NEW k \in 1 .. n, j < k PROVE s[j] < s[k]
  <2>1. s[j] # s[k] /\ ~(s[k] < s[j])
    <3>1. Cardinality(Below(s[j])) = j - 1 /\ Cardinality(Below(s[k])) = k - 1 /\ s[j] \in S /\ s[k] \in S
      BY <1>6
    <3>2. s[k] < s[j] => k - 1 < j - 1
      BY <1>4, <3>1
    <3> QED
      BY <1>4, <1>8, <3>1, <3>2
  <2> QED
    BY <1>0, <1>6, <2>1
<1>9. ASSUME NEW x \in S PROVE \E k \in 1 .. n : s[k] = x
  <2> DEFINE k == Cardinality(Below(x)) + 1
  <2>1. k \in 1 .. n /\ Cardinality(Below(x)) = k - 1
    BY <1>4
  <2> HIDE DEF k
  <2>2. s[k] \in S /\ Cardinality(Below(s[k])) = Cardinality(Below(x))
    BY <1>6, <2>1
  <2>3. ~(s[k] < x) /\ ~(x < s[k])
    <3>1. Cardinality(Below(x)) \in 0 .. n - 1
      BY <1>4
    <3>2. s[k] < x => Cardinality(Below(x)) < Cardinality(Below(x))
      BY <1>4, <2>2
    <3>3. x < s[k] => Cardinality(Below(x)) < Cardinality(Below(x))
      BY <1>4, <2>2
    <3> QED
      BY <1>4, <3>1, <3>2, <3>3
  <2> QED
    BY <1>0, <2>1, <2>2, <2>3
<1> QED
  BY <1>4, <1>7, <1>8, <1>9 DEF n, s

(* Two enumerations of a set in order are the same.                         *)
LEMMA SortedUnique ==
  ASSUME NEW S, S \subseteq Nat, NEW m \in Nat, NEW f \in [1 .. m -> S],
         \A j, k \in 1 .. m : j < k => f[j] < f[k],
         \A x \in S : \E k \in 1 .. m : f[k] = x
  PROVE  IsFiniteSet(S) /\ Cardinality(S) = m /\ Sorted(S, <) = f
<1> DEFINE s == Sorted(S, <)
<1>1. \A j, k \in 1 .. m : f[j] = f[k] => j = k
  <2> SUFFICES ASSUME NEW j \in 1 .. m, NEW k \in 1 .. m, f[j] = f[k], j # k PROVE FALSE
    OBVIOUS
  <2>1. f[j] \in Nat
    OBVIOUS
  <2>2. j < k \/ k < j
    OBVIOUS
  <2> QED
    BY <2>1, <2>2
<1>2. IsFiniteSet(S) /\ Cardinality(S) = m
  <2>1. f \in Injection(1 .. m, S) /\ f \in Surjection(1 .. m, S)
    BY <1>1 DEF Injection, Surjection, IsInjective
  <2>2. ExistsBijection(1 .. m, S)
    BY <2>1 DEF ExistsBijection, Bijection
  <2> QED
    BY <2>2, CountTo, FS_Bijection, FS_CountingElements
<1>3. /\ DOMAIN s = 1 .. m /\ s \in [1 .. m -> S]
      /\ \A j, k \in 1 .. m : j < k => s[j] < s[k]
      /\ \A x \in S : \E k \in 1 .. m : s[k] = x
  BY <1>2, SortedNumbers
<1> HIDE DEF s
<1>4. \A k \in 1 .. m : s[k] = f[k]
  <2> DEFINE T == {k \in 1 .. m : s[k] # f[k]}
  <2> SUFFICES ASSUME T # {} PROVE FALSE
    OBVIOUS
  <2>1. PICK k \in T : \A j \in T : k <= j
    <3>1. T \subseteq Nat
      OBVIOUS
    <3> HIDE DEF T
    <3> QED
      BY <3>1, LeastNumber
  <2>2. k \in 1 .. m /\ s[k] # f[k] /\ s[k] \in S /\ f[k] \in S /\ s[k] \in Nat /\ f[k] \in Nat
    BY <1>3
  <2>3. \A j \in 1 .. k - 1 : s[j] = f[j]
    BY <2>1, <2>2
  <2> HIDE DEF T
  <2>4. ~(s[k] < f[k])
    <3> SUFFICES ASSUME s[k] < f[k] PROVE FALSE
      OBVIOUS
    <3>1. PICK j \in 1 .. m : f[j] = s[k]
      BY <2>2
    <3>2. j < k
      <4>1. ~(k < j) /\ j # k
        BY <2>2, <3>1
      <4> QED
        BY <2>2, <4>1
    <3>3. s[j] = s[k] /\ s[j] < s[k]
      BY <1>3, <2>2, <2>3, <3>1, <3>2
    <3> QED
      BY <2>2, <3>3
  <2>5. ~(f[k] < s[k])
    <3> SUFFICES ASSUME f[k] < s[k] PROVE FALSE
      OBVIOUS
    <3>1. PICK j \in 1 .. m : s[j] = f[k]
      BY <1>3, <2>2
    <3>2. j < k
      <4>1. ~(k < j) /\ j # k
        BY <1>3, <2>2, <3>1
      <4> QED
        BY <2>2, <4>1
    <3>3. f[j] = f[k] /\ f[j] < f[k]
      BY <2>2, <2>3, <3>1, <3>2
    <3> QED
      BY <2>2, <3>3
  <2> QED
    BY <2>2, <2>4, <2>5
<1>5. s = f
  BY <1>3, <1>4
<1> QED
  BY <1>2, <1>5 DEF s

(* A run holds one character, and ends where another follows.               *)
LEMMA RunEndFacts ==
  ASSUME NEW A, NEW text \in Seq(A), NEW i \in 1 .. Len(text)
  PROVE  /\ RunEnd(text, i) \in i .. Len(text)
         /\ \A k \in i .. RunEnd(text, i) : text[k] = text[i]
         /\ text[i] \notin Specials => RunEnd(text, i) = i
         /\ text[i] \in Specials /\ RunEnd(text, i) < Len(text) => text[RunEnd(text, i) + 1] # text[i]
<1> DEFINE n == Len(text)
           run == {j \in i .. n : \A k \in i .. j : text[k] = text[i]}
<1>1. CASE text[i] \notin Specials
  BY <1>1 DEF RunEnd
<1>2. CASE text[i] \in Specials
  <2>1. RunEnd(text, i) = Greatest(run)
    BY <1>2 DEF RunEnd
  <2>2. n \in Nat /\ run \subseteq 0 .. n /\ i \in run
    OBVIOUS
  <2> DEFINE e == Greatest(run)
  <2>3. e \in run /\ \A x \in run : x <= e
    <3> HIDE DEF run, n
    <3> QED
      BY <2>2, GreatestOf
  <2>4. e < n => text[e + 1] # text[i]
    <3> SUFFICES ASSUME e < n, text[e + 1] = text[i] PROVE FALSE
      OBVIOUS
    <3> HIDE DEF e
    <3>1. e \in i .. n /\ e + 1 \in i .. n /\ \A k \in i .. e : text[k] = text[i]
      BY <2>3
    <3>2. \A k \in i .. e + 1 : k \in i .. e \/ k = e + 1
      BY <3>1
    <3>3. e + 1 \in run
      BY <3>1, <3>2
    <3> QED
      BY <2>3, <3>1, <3>3
  <2> HIDE DEF e
  <2> QED
    BY <1>2, <2>1, <2>3, <2>4 DEF e
<1> QED
  BY <1>1, <1>2

(* What starts inside a step ends in it.                                    *)
LEMMA StepEndFacts ==
  ASSUME NEW A, NEW text \in Seq(A), NEW i \in 1 .. Len(text)
  PROVE  /\ StepEnd(text, i) \in i .. Len(text)
         /\ \A j \in i .. StepEnd(text, i) : StepEnd(text, j) <= StepEnd(text, i)
<1> DEFINE n == Len(text)
           e == RunEnd(text, i)
<1>1. /\ n \in Nat /\ e \in i .. n /\ \A k \in i .. e : text[k] = text[i]
      /\ text[i] \notin Specials => e = i
      /\ text[i] \in Specials /\ e < n => text[e + 1] # text[i]
  BY RunEndFacts
<1>2. StepEnd(text, i) = IF e - i + 1 < MinimumRepeat THEN i ELSE e
  BY DEF StepEnd
<1> HIDE DEF e
<1>3. CASE StepEnd(text, i) = i
  BY <1>1, <1>3
<1>4. CASE StepEnd(text, i) # i
  <2>1. StepEnd(text, i) = e /\ e # i /\ text[i] \in Specials
    BY <1>1, <1>2, <1>4
  <2>2. ASSUME NEW j \in i .. e PROVE StepEnd(text, j) <= e
    <3> DEFINE d == RunEnd(text, j)
    <3>1. j \in 1 .. n /\ text[j] = text[i]
      BY <1>1
    <3>2. d \in j .. n /\ \A k \in j .. d : text[k] = text[j]
      BY <3>1, RunEndFacts
    <3>3. StepEnd(text, j) \in {j, d}
      BY DEF StepEnd
    <3> HIDE DEF d
    <3>4. d <= e
      <4> SUFFICES ASSUME ~(d <= e) PROVE FALSE
        OBVIOUS
      <4>1. e < n /\ e + 1 \in j .. d
        BY <1>1, <3>2
      <4> QED
        BY <1>1, <2>1, <3>1, <3>2, <4>1
    <3> QED
      BY <1>1, <3>2, <3>3, <3>4
  <2> QED
    BY <1>1, <2>1, <2>2
<1> QED
  BY <1>3, <1>4

(* A place where no step is cut in two.                                     *)
CutPoint(text, u) == u \in 0 .. Len(text) /\ \A j \in 1 .. u : StepEnd(text, j) <= u

KeptSeq(text) == Sorted(Kept(text), <)

(* What is kept of a text are the first characters of steps that fill the text.*)
LEMMA KeptSteps ==
  ASSUME NEW A, NEW text \in Seq(A)
  PROVE  LET kept == KeptSeq(text)
             size == Cardinality(Kept(text))
             n == Len(text)
         IN /\ size \in Nat /\ DOMAIN kept = 1 .. size /\ kept \in [1 .. size -> Kept(text)]
            /\ \A j, k \in 1 .. size : j < k => kept[j] < kept[k]
            /\ \A x \in Kept(text) : \E k \in 1 .. size : kept[k] = x
            /\ Kept(text) \subseteq 1 .. n
            /\ n # 0 => size # 0 /\ kept[1] = 1
            /\ \A k \in 1 .. size : /\ StepEnd(text, kept[k]) \in kept[k] .. n
                                    /\ CutPoint(text, StepEnd(text, kept[k]))
                                    /\ k < size => kept[k + 1] = StepEnd(text, kept[k]) + 1
                                    /\ k = size => StepEnd(text, kept[k]) = n
<1> DEFINE kept == KeptSeq(text)
           K == Kept(text)
           size == Cardinality(K)
           n == Len(text)
<1>1. n \in Nat /\ K \subseteq 1 .. n /\ K \subseteq Nat
  BY DEF Kept
<1>2. IsFiniteSet(K)
  BY <1>1, CountTo, FS_Subset
<1>3. /\ size \in Nat /\ DOMAIN kept = 1 .. size /\ kept \in [1 .. size -> K]
      /\ \A j, k \in 1 .. size : j < k => kept[j] < kept[k]
      /\ \A x \in K : \E k \in 1 .. size : kept[k] = x
  BY <1>1, <1>2, SortedNumbers DEF KeptSeq
<1> HIDE DEF kept, size
<1>4. \A i \in 1 .. n : i \in K <=> \A j \in 1 .. i - 1 : StepEnd(text, j) < i
  BY DEF Kept
<1>5. \A i \in 1 .. n : /\ StepEnd(text, i) \in i .. n
                        /\ \A j \in i .. StepEnd(text, i) : StepEnd(text, j) <= StepEnd(text, i)
  BY StepEndFacts
<1> HIDE DEF K, n
<1>6. n # 0 => size # 0 /\ kept[1] = 1
  <2> SUFFICES ASSUME n # 0 PROVE size # 0 /\ kept[1] = 1
    OBVIOUS
  <2>1. 1 \in K
    BY <1>1, <1>4
  <2>2. PICK k \in 1 .. size : kept[k] = 1
    BY <1>3, <2>1
  <2>3. size # 0 /\ 1 \in 1 .. size /\ kept[1] \in 1 .. n
    <3>1. size \in Nat /\ size # 0 /\ 1 \in 1 .. size
      BY <1>3
    <3>2. kept[1] \in K
      BY <1>3, <3>1
    <3> QED
      BY <1>1, <3>1, <3>2
  <2>4. k # 1 => kept[1] < kept[k]
    BY <1>3, <2>2, <2>3
  <2> QED
    BY <1>1, <2>2, <2>3, <2>4
<1>7. ASSUME NEW k \in 1 .. size
      PROVE  /\ StepEnd(text, kept[k]) \in kept[k] .. n
             /\ CutPoint(text, StepEnd(text, kept[k]))
             /\ k < size => kept[k + 1] = StepEnd(text, kept[k]) + 1
             /\ k = size => StepEnd(text, kept[k]) = n
  <2> DEFINE i == kept[k]
             e == StepEnd(text, i)
  <2>1. i \in K /\ i \in 1 .. n
    BY <1>1, <1>3
  <2>2. e \in i .. n /\ \A j \in i .. e : StepEnd(text, j) <= e
    BY <1>5, <2>1
  <2>3. \A j \in 1 .. i - 1 : StepEnd(text, j) < i /\ StepEnd(text, j) \in Nat
    <3>1. \A j \in 1 .. i - 1 : j \in 1 .. n
      BY <1>1, <2>1
    <3>2. \A j \in 1 .. i - 1 : StepEnd(text, j) \in j .. n
      BY <1>5, <3>1
    <3>3. \A j \in 1 .. i - 1 : StepEnd(text, j) < i
      BY <1>4, <2>1
    <3> QED
      BY <1>1, <3>1, <3>2, <3>3
  <2>4. e = StepEnd(text, i) /\ i = kept[k]
    OBVIOUS
  <2> HIDE DEF e, i
  <2>5. \A j \in 1 .. e : StepEnd(text, j) <= e
    <3> SUFFICES ASSUME NEW j \in 1 .. e PROVE StepEnd(text, j) <= e
      OBVIOUS
    <3>1. CASE j < i
      <4>1. j \in 1 .. i - 1
        BY <2>1, <3>1
      <4> QED
        BY <1>1, <2>1, <2>2, <2>3, <4>1
    <3>2. CASE ~(j < i)
      BY <1>1, <2>1, <2>2, <3>2
    <3> QED
      BY <3>1, <3>2
  <2>6. CutPoint(text, e)
    BY <1>1, <2>1, <2>2, <2>5 DEF CutPoint, n
  <2>7. e < n => e + 1 \in K
    <3> SUFFICES ASSUME e < n PROVE e + 1 \in K
      OBVIOUS
    <3>1. e + 1 \in 1 .. n /\ (e + 1) - 1 = e
      BY <1>1, <2>1, <2>2
    <3>2. \A j \in 1 .. e : StepEnd(text, j) \in Int
      <4>1. \A j \in 1 .. e : j \in 1 .. n
        BY <1>1, <2>1, <2>2
      <4> QED
        BY <1>1, <1>5, <4>1
    <3>3. \A j \in 1 .. e : StepEnd(text, j) < e + 1
      BY <1>1, <2>1, <2>2, <2>5, <3>2
    <3> QED
      BY <1>4, <3>1, <3>3
  <2>8. \A m \in K : ~(i < m /\ m <= e)
    <3> SUFFICES ASSUME NEW m \in K, i < m, m <= e PROVE FALSE
      OBVIOUS
    <3>1. m \in 1 .. n /\ i \in 1 .. m - 1
      BY <1>1, <2>1
    <3>2. e < m
      BY <1>4, <2>4, <3>1
    <3> QED
      BY <1>1, <2>1, <2>2, <3>1, <3>2
  <2>9. ASSUME k < size PROVE kept[k + 1] = e + 1
    <3>1. k + 1 \in 1 .. size /\ kept[k + 1] \in K /\ kept[k + 1] \in 1 .. n /\ i < kept[k + 1]
      <4>1. size \in Nat /\ k + 1 \in 1 .. size /\ k < k + 1
        BY <1>3, <2>9
      <4>2. kept[k + 1] \in K /\ kept[k] < kept[k + 1]
        BY <1>3, <4>1
      <4> QED
        BY <1>1, <2>4, <4>1, <4>2
    <3>2. e < kept[k + 1]
      BY <1>1, <2>1, <2>2, <2>8, <3>1
    <3>3. e < n
      BY <1>1, <2>1, <2>2, <3>1, <3>2
    <3>4. PICK j \in 1 .. size : kept[j] = e + 1
      BY <1>3, <2>7, <3>3
    <3>5. k < j
      <4>1. j # k /\ ~(j < k)
        <5>1. j < k => kept[j] < i
          BY <1>3, <2>4
        <5> QED
          BY <1>1, <2>1, <2>2, <2>4, <3>4, <5>1
      <4> QED
        BY <1>3, <4>1
    <3>6. j = k + 1 \/ kept[k + 1] < kept[j]
      BY <1>3, <3>1, <3>5
    <3> QED
      BY <1>1, <2>1, <2>2, <3>1, <3>2, <3>4, <3>6
  <2>10. ASSUME k = size PROVE e = n
    <3> SUFFICES ASSUME e # n PROVE FALSE
      OBVIOUS
    <3>1. e < n
      BY <1>1, <2>1, <2>2
    <3>2. PICK j \in 1 .. size : kept[j] = e + 1
      BY <1>3, <2>7, <3>1
    <3>3. j = k \/ kept[j] < i
      BY <1>3, <2>4, <2>10
    <3> QED
      BY <1>1, <2>1, <2>2, <2>4, <3>2, <3>3
  <2> QED
    BY <2>2, <2>4, <2>6, <2>9, <2>10
<1> QED
  BY <1>1, <1>3, <1>6, <1>7 DEF kept, K, size, n

(* The cut after the first c steps.                                         *)
CutAfter(text, c) == IF c = 0 THEN 0 ELSE StepEnd(text, KeptSeq(text)[c])

(* The k-th character of a normalized text stands for what is between two cuts.*)
LEMMA NormalizedText ==
  ASSUME NEW A, NEW text \in Seq(A)
  PROVE  LET normal == Normalize(text)
             kept == KeptSeq(text)
             size == Cardinality(Kept(text))
         IN /\ size \in Nat /\ normal.text \in Seq(A) /\ Len(normal.text) = size
            /\ \A k \in 1 .. size : normal.text[k] = text[kept[k]]
            /\ DOMAIN normal.offsets = 1 .. size
            /\ \A k \in 1 .. size : normal.offsets[k] = Span(CutAfter(text, k - 1), CutAfter(text, k))
            /\ \A k \in 1 .. size : kept[k] = CutAfter(text, k - 1) + 1
            /\ \A c \in 0 .. size : CutAfter(text, c) \in 0 .. Len(text) /\ CutPoint(text, CutAfter(text, c))
            /\ CutAfter(text, size) = Len(text)
            /\ \A b, c \in 0 .. size : b < c => CutAfter(text, b) < CutAfter(text, c)
<1> DEFINE kept == KeptSeq(text)
           size == Cardinality(Kept(text))
           n == Len(text)
           cut(c) == CutAfter(text, c)
<1>1. /\ size \in Nat /\ n \in Nat /\ DOMAIN kept = 1 .. size /\ kept \in [1 .. size -> Kept(text)]
      /\ Kept(text) \subseteq 1 .. n
      /\ \A j, k \in 1 .. size : j < k => kept[j] < kept[k]
      /\ n # 0 => size # 0 /\ kept[1] = 1
      /\ \A k \in 1 .. size : /\ StepEnd(text, kept[k]) \in kept[k] .. n
                              /\ CutPoint(text, StepEnd(text, kept[k]))
                              /\ k < size => kept[k + 1] = StepEnd(text, kept[k]) + 1
                              /\ k = size => StepEnd(text, kept[k]) = n
  BY KeptSteps
<1>2. cut(0) = 0 /\ \A k \in 1 .. size : cut(k) = StepEnd(text, kept[k])
  BY <1>1 DEF CutAfter
<1>3. Normalize(text).text = [k \in 1 .. size |-> text[kept[k]]]
      /\ Normalize(text).offsets = [k \in 1 .. size |-> Span(kept[k] - 1, StepEnd(text, kept[k]))]
  BY <1>1 DEF Normalize, KeptSeq
<1> HIDE DEF kept, size, cut
<1>4. \A k \in 1 .. size : kept[k] \in 1 .. n
  BY <1>1
<1>5. \A k \in 1 .. size : kept[k] = cut(k - 1) + 1
  <2> SUFFICES ASSUME NEW k \in 1 .. size PROVE kept[k] = cut(k - 1) + 1
    OBVIOUS
  <2>1. CASE k = 1
    <3>1. n # 0
      BY <1>1, <1>4
    <3> QED
      BY <1>1, <1>2, <2>1, <3>1
  <2>2. CASE k # 1
    <3>1. k - 1 \in 1 .. size /\ k - 1 < size /\ (k - 1) + 1 = k
      BY <1>1, <2>2
    <3>2. kept[(k - 1) + 1] = StepEnd(text, kept[k - 1]) + 1
      BY <1>1, <3>1
    <3> QED
      BY <1>2, <3>1, <3>2
  <2> QED
    BY <2>1, <2>2
<1>6. \A c \in 0 .. size : cut(c) \in 0 .. n /\ CutPoint(text, cut(c))
  <2> SUFFICES ASSUME NEW c \in 0 .. size PROVE cut(c) \in 0 .. n /\ CutPoint(text, cut(c))
    OBVIOUS
  <2>1. CASE c = 0
    BY <1>1, <1>2, <2>1 DEF CutPoint
  <2>2. CASE c # 0
    <3>1. c \in 1 .. size
      BY <1>1, <2>2
    <3> QED
      BY <1>1, <1>2, <1>4, <3>1
  <2> QED
    BY <2>1, <2>2
<1>7. cut(size) = n
  <2>1. CASE size = 0
    BY <1>1, <1>2, <2>1
  <2>2. CASE size # 0
    <3>1. size \in 1 .. size
      BY <1>1, <2>2
    <3> QED
      BY <1>1, <1>2, <3>1
  <2> QED
    BY <2>1, <2>2
<1>8. \A k \in 1 .. size : Normalize(text).offsets[k] = Span(cut(k - 1), cut(k))
  <2> SUFFICES ASSUME NEW k \in 1 .. size PROVE Normalize(text).offsets[k] = Span(cut(k - 1), cut(k))
    OBVIOUS
  <2>1. kept[k] - 1 = cut(k - 1)
    <3>1. k - 1 \in 0 .. size
      BY <1>1
    <3> QED
      BY <1>5, <1>6, <3>1
  <2> QED
    BY <1>2, <1>3, <2>1
<1>9. \A k \in 1 .. size : text[kept[k]] \in A
  BY <1>4
<1>10. Normalize(text).text \in Seq(A) /\ Len(Normalize(text).text) = size
  BY <1>1, <1>3, <1>9
<1>11. ASSUME NEW b \in 0 .. size, NEW c \in 0 .. size, b < c PROVE cut(b) < cut(c)
  <2>1. b + 1 \in 1 .. size /\ c \in 1 .. size /\ (b + 1) - 1 = b
    BY <1>1, <1>11
  <2>2. kept[b + 1] = cut(b) + 1
    BY <1>5, <2>1
  <2>3. b + 1 = c \/ kept[b + 1] < kept[c]
    BY <1>1, <1>11, <2>1
  <2>4. cut(c) \in kept[c] .. n
    BY <1>1, <1>2, <2>1
  <2>5. kept[b + 1] \in 1 .. n /\ kept[c] \in 1 .. n /\ cut(b) \in 0 .. n /\ cut(c) \in 0 .. n
    BY <1>4, <1>6, <2>1
  <2> QED
    BY <2>2, <2>3, <2>4, <2>5
<1> QED
  BY <1>1, <1>3, <1>5, <1>6, <1>7, <1>8, <1>10, <1>11 DEF kept, size, cut

(* A range of the normalized text goes back to whole steps.                 *)
LEMMA RestoredRange ==
  ASSUME NEW A, NEW text \in Seq(A), NEW a \in Nat, NEW b \in Nat, a < b, b <= Len(Normalize(text).text)
  PROVE  RestoreOriginalRange(Span(a, b), Normalize(text).offsets) = Span(CutAfter(text, a), CutAfter(text, b))
<1> DEFINE offsets == Normalize(text).offsets
           size == Cardinality(Kept(text))
           range == Span(a, b)
           selected == Positions(range) \cap DOMAIN offsets
<1>1. /\ size \in Nat /\ b <= size /\ DOMAIN offsets = 1 .. size
      /\ \A k \in 1 .. size : offsets[k] = Span(CutAfter(text, k - 1), CutAfter(text, k))
  BY NormalizedText
<1>2. range.start = a /\ range.end = b /\ Positions(range) = a + 1 .. b
  BY DEF Span, Positions
<1> HIDE DEF offsets, size, range
<1>3. selected = a + 1 .. b /\ selected = Positions(range) /\ selected # {} /\ \A k \in selected : k \in 1 .. size
  <2>1. a + 1 .. b \subseteq 1 .. size /\ a + 1 \in a + 1 .. b
    BY <1>1
  <2>2. selected = (a + 1 .. b) \cap (1 .. size)
    BY <1>1, <1>2
  <2> HIDE DEF selected
  <2>3. selected = a + 1 .. b
    BY <2>1, <2>2
  <2> QED
    BY <1>2, <2>1, <2>3
<1>4. \A k \in selected : k + 1 \in selected => offsets[k].end = offsets[k + 1].start
  <2> SUFFICES ASSUME NEW k \in selected, k + 1 \in selected PROVE offsets[k].end = offsets[k + 1].start
    OBVIOUS
  <2>1. k \in 1 .. size /\ k + 1 \in 1 .. size /\ (k + 1) - 1 = k
    BY <1>3
  <2>2. offsets[k] = Span(CutAfter(text, k - 1), CutAfter(text, k))
        /\ offsets[k + 1] = Span(CutAfter(text, k), CutAfter(text, k + 1))
    BY <1>1, <2>1
  <2> QED
    BY <2>2 DEF Span
<1>5. RestoreOriginalRange(range, offsets) = Span(offsets[range.start + 1].start, offsets[range.end].end)
  BY <1>3, <1>4 DEF RestoreOriginalRange
<1>6. a + 1 \in 1 .. size /\ b \in 1 .. size /\ (a + 1) - 1 = a
  BY <1>1
<1>7. offsets[a + 1] = Span(CutAfter(text, a), CutAfter(text, a + 1)) /\ offsets[b] = Span(CutAfter(text, b - 1), CutAfter(text, b))
  BY <1>1, <1>6
<1> QED
  <2>1. offsets[range.start + 1].start = CutAfter(text, a) /\ offsets[range.end].end = CutAfter(text, b)
    BY <1>2, <1>7 DEF Span
  <2> QED
    BY <1>5, <2>1 DEF range, offsets

(* A text that is cut between steps has the same steps.                     *)
LEMMA StepsOfCut ==
  ASSUME NEW A, NEW text \in Seq(A), NEW u, NEW v, CutPoint(text, u), CutPoint(text, v), u <= v,
         NEW i \in 1 .. v - u
  PROVE  StepEnd(SubSeq(text, u + 1, v), i) = StepEnd(text, u + i) - u
<1> DEFINE n == Len(text)
           sub == SubSeq(text, u + 1, v)
           e == RunEnd(text, u + i)
           d == RunEnd(sub, i)
<1>1. n \in Nat /\ u \in 0 .. n /\ v \in 0 .. n /\ u <= v /\ u + i \in 1 .. v /\ u + i \in 1 .. n /\ i \in 1 .. v - u
  BY DEF CutPoint
<1>2. sub \in Seq(A) /\ Len(sub) = v - u /\ \A k \in 1 .. v - u : sub[k] = text[u + k]
  BY <1>1
<1>3. /\ e \in u + i .. n /\ \A k \in u + i .. e : text[k] = text[u + i]
      /\ text[u + i] \notin Specials => e = u + i
      /\ text[u + i] \in Specials /\ e < n => text[e + 1] # text[u + i]
  BY <1>1, RunEndFacts
<1>4. /\ d \in i .. v - u /\ \A k \in i .. d : sub[k] = sub[i]
      /\ sub[i] \notin Specials => d = i
      /\ sub[i] \in Specials /\ d < v - u => sub[d + 1] # sub[i]
  <2>1. sub \in Seq(A) /\ i \in 1 .. Len(sub) /\ Len(sub) = v - u
    BY <1>1, <1>2
  <2> HIDE DEF sub
  <2> QED
    BY <2>1, RunEndFacts
<1>5. StepEnd(text, u + i) = IF e - (u + i) + 1 < MinimumRepeat THEN u + i ELSE e
  BY DEF StepEnd
<1>6. StepEnd(sub, i) = IF d - i + 1 < MinimumRepeat THEN i ELSE d
  BY DEF StepEnd
<1>7. StepEnd(text, u + i) <= v
  BY <1>1 DEF CutPoint
<1>8. sub[i] = text[u + i]
  BY <1>1, <1>2
<1> HIDE DEF sub, e, d
<1>9. CASE text[u + i] \notin Specials
  BY <1>1, <1>3, <1>4, <1>5, <1>6, <1>8, <1>9 DEF sub
<1>10. CASE text[u + i] \in Specials
  <2>1. CASE e <= v
    <3>1. d = e - u
      <4>1. ~(d < e - u)
        <5> SUFFICES ASSUME d < e - u PROVE FALSE
          OBVIOUS
        <5>1. d + 1 \in 1 .. v - u /\ u + (d + 1) \in u + i .. e /\ d < v - u
          BY <1>1, <1>3, <1>4, <2>1
        <5>2. sub[d + 1] = text[u + (d + 1)]
          BY <1>2, <5>1
        <5>3. text[u + (d + 1)] = text[u + i]
          BY <1>3, <5>1
        <5> QED
          BY <1>4, <1>8, <1>10, <5>1, <5>2, <5>3
      <4>2. ~(e - u < d)
        <5> SUFFICES ASSUME e - u < d PROVE FALSE
          OBVIOUS
        <5>1. e < n /\ e + 1 - u \in i .. d /\ e + 1 - u \in 1 .. v - u /\ u + (e + 1 - u) = e + 1
          BY <1>1, <1>3, <1>4
        <5>2. sub[e + 1 - u] = text[e + 1]
          BY <1>2, <5>1
        <5>3. sub[e + 1 - u] = sub[i]
          BY <1>4, <5>1
        <5> QED
          BY <1>3, <1>8, <1>10, <5>1, <5>2, <5>3
      <4> QED
        BY <1>1, <1>3, <1>4, <4>1, <4>2
    <3>2. d - i + 1 = e - (u + i) + 1
      BY <1>1, <1>3, <3>1
    <3>3. CASE e - (u + i) + 1 < MinimumRepeat
      BY <1>1, <1>5, <1>6, <3>2, <3>3 DEF sub
    <3>4. CASE ~(e - (u + i) + 1 < MinimumRepeat)
      BY <1>1, <1>5, <1>6, <3>1, <3>2, <3>4 DEF sub
    <3> QED
      BY <3>3, <3>4
  <2>2. CASE v < e
    <3>1. StepEnd(text, u + i) = u + i /\ e - (u + i) + 1 < MinimumRepeat
      BY <1>1, <1>3, <1>5, <1>7, <2>2
    <3>2. d - i + 1 < MinimumRepeat
      <4>1. d - i + 1 <= e - (u + i) + 1
        BY <1>1, <1>3, <1>4, <2>2
      <4> QED
        BY <1>1, <1>3, <1>4, <3>1, <4>1, ScanningAssumption DEF ScanningAssumption
    <3>3. StepEnd(sub, i) = i
      BY <1>6, <3>2
    <3> QED
      BY <1>1, <3>1, <3>3 DEF sub
  <2> QED
    BY <1>1, <1>3, <2>1, <2>2
<1> QED
  BY <1>9, <1>10

(* The normalized text of a cut is the cut of the normalized text.          *)
LEMMA CutText ==
  ASSUME NEW A, NEW text \in Seq(A), NEW a \in 0 .. Cardinality(Kept(text)), NEW b \in 0 .. Cardinality(Kept(text)), a <= b
  PROVE  Normalize(SubSeq(text, CutAfter(text, a) + 1, CutAfter(text, b))).text = SubSeq(Normalize(text).text, a + 1, b)
<1> DEFINE n == Len(text)
           size == Cardinality(Kept(text))
           kept == KeptSeq(text)
           u == CutAfter(text, a)
           v == CutAfter(text, b)
           sub == SubSeq(text, u + 1, v)
           K == Kept(sub)
           f == [k \in 1 .. b - a |-> kept[a + k] - u]
           cut(c) == CutAfter(text, c)
<1>1. /\ size \in Nat /\ n \in Nat /\ a \in 0 .. size /\ b \in 0 .. size /\ a <= b
      /\ Normalize(text).text \in Seq(A) /\ Len(Normalize(text).text) = size
      /\ \A k \in 1 .. size : Normalize(text).text[k] = text[kept[k]]
      /\ \A k \in 1 .. size : kept[k] = cut(k - 1) + 1
      /\ \A c \in 0 .. size : cut(c) \in 0 .. n /\ CutPoint(text, cut(c))
      /\ cut(size) = n
      /\ \A c, d \in 0 .. size : c < d => cut(c) < cut(d)
  <2>1. n \in Nat /\ a \in 0 .. size /\ b \in 0 .. size /\ a <= b
    OBVIOUS
  <2>2. /\ size \in Nat /\ Normalize(text).text \in Seq(A) /\ Len(Normalize(text).text) = size
        /\ \A k \in 1 .. size : Normalize(text).text[k] = text[kept[k]]
    BY NormalizedText
  <2>3. /\ \A k \in 1 .. size : kept[k] = cut(k - 1) + 1
        /\ \A c \in 0 .. size : cut(c) \in 0 .. n /\ CutPoint(text, cut(c))
        /\ cut(size) = n
        /\ \A c, d \in 0 .. size : c < d => cut(c) < cut(d)
    BY NormalizedText
  <2> QED
    BY <2>1, <2>2, <2>3
<1>2. /\ kept \in [1 .. size -> Kept(text)]
      /\ \A j, k \in 1 .. size : j < k => kept[j] < kept[k]
      /\ \A x \in Kept(text) : \E k \in 1 .. size : kept[k] = x
      /\ Kept(text) \subseteq 1 .. n
  BY KeptSteps
<1>3. u = cut(a) /\ v = cut(b) /\ u \in 0 .. n /\ v \in 0 .. n /\ u <= v /\ CutPoint(text, u) /\ CutPoint(text, v)
  <2>1. u = cut(a) /\ v = cut(b)
    OBVIOUS
  <2> HIDE DEF u, v, cut, size
  <2>2. a = b \/ a < b
    BY <1>1
  <2> QED
    BY <1>1, <2>1, <2>2
<1> HIDE DEF u, v, cut, size
<1>4. sub \in Seq(A) /\ Len(sub) = v - u /\ \A k \in 1 .. v - u : sub[k] = text[u + k]
  BY <1>3
<1>5. \A i \in 1 .. v - u : StepEnd(sub, i) = StepEnd(text, u + i) - u
  BY <1>3, StepsOfCut
<1>6. \A i \in 1 .. n : /\ StepEnd(text, i) \in i .. n
                        /\ i \in Kept(text) <=> \A j \in 1 .. i - 1 : StepEnd(text, j) < i
  BY StepEndFacts DEF Kept
<1>7. \A i \in 1 .. v - u : i \in K <=> \A j \in 1 .. i - 1 : StepEnd(sub, j) < i
  BY <1>4 DEF Kept
<1>8. K \subseteq 1 .. v - u
  BY <1>4 DEF Kept
<1> HIDE DEF sub, K, kept
<1>9. \A i \in 1 .. v - u : i \in K <=> u + i \in Kept(text)
  <2> SUFFICES ASSUME NEW i \in 1 .. v - u PROVE i \in K <=> u + i \in Kept(text)
    OBVIOUS
  <2>1. u + i \in 1 .. n /\ u \in Nat /\ n \in Nat
    BY <1>1, <1>3
  <2>2. ASSUME i \in K PROVE u + i \in Kept(text)
    <3> SUFFICES ASSUME NEW j \in 1 .. (u + i) - 1 PROVE StepEnd(text, j) < u + i
      BY <1>6, <2>1
    <3>1. j \in 1 .. n /\ StepEnd(text, j) \in j .. n
      <4>1. j \in 1 .. n
        BY <2>1
      <4> QED
        BY <1>6, <4>1
    <3>2. CASE j <= u
      <4>1. StepEnd(text, j) <= u
        BY <1>3, <3>1, <3>2 DEF CutPoint
      <4> QED
        BY <1>3, <3>1, <4>1
    <3>3. CASE ~(j <= u)
      <4>1. j - u \in 1 .. i - 1 /\ j - u \in 1 .. v - u /\ u + (j - u) = j
        BY <1>3, <3>3
      <4>2. StepEnd(sub, j - u) < i /\ StepEnd(sub, j - u) = StepEnd(text, j) - u
        BY <1>5, <1>7, <2>2, <4>1
      <4> QED
        BY <1>3, <3>1, <4>2
    <3> QED
      BY <3>2, <3>3
  <2>3. ASSUME u + i \in Kept(text) PROVE i \in K
    <3> SUFFICES ASSUME NEW j \in 1 .. i - 1 PROVE StepEnd(sub, j) < i
      BY <1>7
    <3>1. j \in 1 .. v - u /\ u + j \in 1 .. (u + i) - 1 /\ u + j \in 1 .. n
      BY <1>3
    <3>2. StepEnd(text, u + j) < u + i /\ StepEnd(text, u + j) \in u + j .. n
      BY <1>6, <2>1, <2>3, <3>1
    <3>3. StepEnd(sub, j) = StepEnd(text, u + j) - u
      BY <1>5, <3>1
    <3> QED
      BY <1>3, <3>2, <3>3
  <2> QED
    BY <2>2, <2>3
<1>10. \A k \in 1 .. b - a : /\ a + k \in 1 .. size /\ kept[a + k] \in Kept(text)
                             /\ f[k] \in 1 .. v - u /\ u + f[k] = kept[a + k] /\ kept[a + k] \in 1 .. n
  <2> SUFFICES ASSUME NEW k \in 1 .. b - a
               PROVE /\ a + k \in 1 .. size /\ kept[a + k] \in Kept(text)
                     /\ f[k] \in 1 .. v - u /\ u + f[k] = kept[a + k] /\ kept[a + k] \in 1 .. n
    OBVIOUS
  <2>1. a + k \in 1 .. size /\ (a + k) - 1 \in 0 .. size /\ (a + k) - 1 < b
    BY <1>1
  <2>2. kept[a + k] = cut((a + k) - 1) + 1 /\ kept[a + k] \in Kept(text)
    BY <1>1, <1>2, <2>1
  <2>3. cut((a + k) - 1) < v /\ u <= cut((a + k) - 1) /\ cut((a + k) - 1) \in 0 .. n
    <3> DEFINE c == (a + k) - 1
    <3>1. c \in 0 .. size /\ c < b /\ (a = c \/ a < c)
      BY <1>1, <2>1
    <3> HIDE DEF c
    <3>2. cut(c) \in 0 .. n /\ cut(c) < cut(b) /\ (a < c => cut(a) < cut(c))
      BY <1>1, <3>1
    <3>3. cut(c) \in 0 .. n /\ cut(c) < v /\ u <= cut(c)
      BY <1>1, <1>3, <3>1, <3>2
    <3> QED
      BY <3>3 DEF c
  <2>4. f[k] = kept[a + k] - u
    OBVIOUS
  <2> HIDE DEF f
  <2> QED
    BY <1>2, <1>3, <2>1, <2>2, <2>3, <2>4
<1> HIDE DEF f
<1>11. f \in [1 .. b - a -> K]
  <2>1. \A k \in 1 .. b - a : f[k] \in K
    BY <1>9, <1>10
  <2> QED
    BY <2>1 DEF f
<1>12. ASSUME NEW j \in 1 .. b - a, NEW k \in 1 .. b - a, j < k PROVE f[j] < f[k]
  <2>1. kept[a + j] < kept[a + k]
    BY <1>1, <1>2, <1>10, <1>12
  <2>2. f[j] \in 1 .. v - u /\ f[k] \in 1 .. v - u /\ u + f[j] = kept[a + j] /\ u + f[k] = kept[a + k]
    BY <1>10
  <2> QED
    BY <1>3, <2>1, <2>2
<1>13. ASSUME NEW x \in K PROVE \E k \in 1 .. b - a : f[k] = x
  <2>1. x \in 1 .. v - u /\ u + x \in Kept(text)
    BY <1>8, <1>9
  <2>2. PICK j \in 1 .. size : kept[j] = u + x
    BY <1>2, <2>1
  <2>3. kept[j] = cut(j - 1) + 1 /\ j - 1 \in 0 .. size /\ cut(j - 1) \in 0 .. n
    BY <1>1
  <2>4. u <= cut(j - 1) /\ cut(j - 1) < v
    BY <1>3, <2>1, <2>2, <2>3
  <2>5. ~(j - 1 < a) /\ j - 1 # b /\ ~(b < j - 1)
    <3> DEFINE c == j - 1
    <3>1. c \in 0 .. size /\ cut(c) \in 0 .. n /\ u <= cut(c) /\ cut(c) < v
      BY <2>3, <2>4
    <3> HIDE DEF c
    <3>2. c < a => cut(c) < cut(a)
      BY <1>1, <3>1
    <3>3. b < c => cut(b) < cut(c)
      BY <1>1, <3>1
    <3>4. ~(c < a) /\ c # b /\ ~(b < c)
      BY <1>3, <3>1, <3>2, <3>3
    <3> QED
      BY <3>4 DEF c
  <2>6. j - a \in 1 .. b - a /\ a + (j - a) = j
    BY <1>1, <2>5
  <2>7. u + f[j - a] = u + x /\ f[j - a] \in 1 .. v - u
    BY <1>10, <2>2, <2>6
  <2> QED
    BY <1>3, <2>1, <2>6, <2>7
<1>14. Sorted(K, <) = f /\ DOMAIN f = 1 .. b - a
  <2>1. b - a \in Nat /\ K \subseteq Nat
    BY <1>1, <1>3, <1>8
  <2>2. Sorted(K, <) = f
    BY <1>11, <1>12, <1>13, <2>1, SortedUnique
  <2> QED
    BY <2>2 DEF f
<1>15. Normalize(sub).text = [k \in 1 .. b - a |-> sub[f[k]]]
  BY <1>14 DEF Normalize, K
<1>16. \A k \in 1 .. b - a : sub[f[k]] = Normalize(text).text[a + k]
  <2> SUFFICES ASSUME NEW k \in 1 .. b - a PROVE sub[f[k]] = Normalize(text).text[a + k]
    OBVIOUS
  <2>1. sub[f[k]] = text[kept[a + k]]
    BY <1>4, <1>10
  <2> QED
    BY <1>1, <1>10, <2>1
<1>17. SubSeq(Normalize(text).text, a + 1, b) = [k \in 1 .. b - a |-> Normalize(text).text[a + k]]
  <2> DEFINE t == Normalize(text).text
  <2>1. t \in Seq(A) /\ Len(t) = size
    BY <1>1
  <2> HIDE DEF t
  <2>2. SubSeq(t, a + 1, b) = [k \in 1 .. b - a |-> t[a + k]]
    BY <1>1, <2>1
  <2> QED
    BY <2>2 DEF t
<1> QED
  BY <1>15, <1>16, <1>17 DEF sub, u, v

(* Ranges of a text that are not empty.                                     *)
TextRanges(text) == {r \in [start : 0 .. Len(text), end : 0 .. Len(text)] : r.start < r.end}

(* What a fold over a sequence ends with is reached step by step; h is the  *)
(* state after each step.                                                   *)
LEMMA FindSteps ==
  ASSUME NEW A, NEW text \in Seq(A), NEW W, NEW words \in Seq(Seq(W) \ {<<>>})
  PROVE  \E h \in [0 .. Len(text) -> SUBSET TextRanges(text)] :
           /\ h[0] = {} /\ h[Len(text)] = Find(words, text)
           /\ \A i \in 1 .. Len(text) :
                h[i] = IF WordsAt(words, text, i) = {} \/ \E m \in h[i - 1] : i <= m.end THEN h[i - 1]
                       ELSE h[i - 1] \cup {Span(i - 1, i - 1 + Len(words[Least(WordsAt(words, text, i))]))}
<1> DEFINE n == Len(text)
           St == SUBSET TextRanges(text)
           Step(found, i) ==
             IF WordsAt(words, text, i) = {} \/ \E m \in found : i <= m.end THEN found
             ELSE found \cup {Span(i - 1, i - 1 + Len(words[Least(WordsAt(words, text, i))]))}
           F == [p \in (1 .. n) \X St |-> Step(p[2], p[1])]
           ids == [i \in DOMAIN text |-> i]
           Iterates(g) == g = [s \in SUBSET DOMAIN ids |->
                                 IF s = {} THEN {} ELSE Step(g[s \ {Max(s)}], ids[Max(s)])]
           iter == CHOOSE g : Iterates(g)
<1>1. n \in Nat /\ DOMAIN text = 1 .. n /\ DOMAIN ids = 1 .. n /\ \A i \in 1 .. n : ids[i] = i
  OBVIOUS
<1>2. Find(words, text) = iter[DOMAIN ids]
  BY DEF Find, FoldLeft, MapThenFoldSet
<1>3. ASSUME NEW found \in St, NEW i \in 1 .. n PROVE Step(found, i) \in St
  <2>1. CASE WordsAt(words, text, i) = {}
    BY <2>1
  <2>2. CASE WordsAt(words, text, i) # {}
    <3> DEFINE k == Least(WordsAt(words, text, i))
    <3>1. WordsAt(words, text, i) \subseteq Nat
      BY DEF WordsAt
    <3>2. k \in WordsAt(words, text, i)
      BY <2>2, <3>1, LeastOf
    <3> HIDE DEF k
    <3>3. k \in DOMAIN words /\ i + Len(words[k]) - 1 <= n
      BY <3>2 DEF WordsAt
    <3>4. words[k] \in Seq(W) /\ words[k] # <<>>
      BY <3>3
    <3>5. Len(words[k]) \in Nat /\ Len(words[k]) # 0
      BY <3>4
    <3>6. Span(i - 1, i - 1 + Len(words[k])) \in TextRanges(text)
      BY <1>1, <3>3, <3>5 DEF Span, TextRanges
    <3> QED
      BY <3>6 DEF k
  <2> QED
    BY <2>1, <2>2
<1>4. St = SUBSET TextRanges(text) /\ {} \in St
  OBVIOUS
<1>5. \A found, i : Step(found, i) =
             IF WordsAt(words, text, i) = {} \/ \E m \in found : i <= m.end THEN found
             ELSE found \cup {Span(i - 1, i - 1 + Len(words[Least(WordsAt(words, text, i))]))}
  OBVIOUS
<1> HIDE DEF Step, St
<1>6. F \in [(1 .. n) \X St -> St] /\ \A i \in 1 .. n, found \in St : F[<<i, found>>] = Step(found, i)
  BY <1>3
<1> HIDE DEF F
<1>7. \E g : Iterates(g) /\ g \in [SUBSET (1 .. n) -> St]
  <2>1. PICK g \in [SUBSET (1 .. n) -> St] :
          \A s \in SUBSET (1 .. n) : g[s] = IF s = {} THEN {} ELSE F[<<Max(s), g[s \ {Max(s)}]>>]
    <3>1. n \in Nat /\ {} \in St /\ F \in [(1 .. n) \X St -> St]
      BY <1>1, <1>4, <1>6
    <3> HIDE DEF n
    <3>2. \E g \in [SUBSET (1 .. n) -> St] : Folded(g, n, {}, F)
      BY <3>1, FoldExists
    <3> QED
      BY <3>2 DEF Folded
  <2>2. \A s \in SUBSET (1 .. n) : s # {} => Max(s) \in 1 .. n /\ s \ {Max(s)} \in SUBSET (1 .. n)
    <3> SUFFICES ASSUME NEW s \in SUBSET (1 .. n), s # {} PROVE Max(s) \in 1 .. n
      OBVIOUS
    <3>1. s \subseteq 0 .. n
      BY <1>1
    <3> QED
      BY <1>1, <3>1, GreatestOf
  <2>3. \A s \in SUBSET (1 .. n) : g[s] = IF s = {} THEN {} ELSE Step(g[s \ {Max(s)}], ids[Max(s)])
    <3> SUFFICES ASSUME NEW s \in SUBSET (1 .. n), s # {} PROVE g[s] = Step(g[s \ {Max(s)}], ids[Max(s)])
      BY <2>1
    <3>1. Max(s) \in 1 .. n /\ s \ {Max(s)} \in SUBSET (1 .. n)
      BY <2>2
    <3>2. g[s \ {Max(s)}] \in St /\ g[s] = F[<<Max(s), g[s \ {Max(s)}]>>] /\ ids[Max(s)] = Max(s)
      BY <1>1, <2>1, <3>1
    <3> QED
      BY <1>6, <3>1, <3>2
  <2> HIDE DEF ids
  <2>4. Iterates(g)
    BY <1>1, <2>1, <2>3
  <2> QED
    BY <2>4
<1>8. Iterates(iter)
  <2> HIDE DEF Iterates
  <2> QED
    BY <1>7
<1>9. iter[{}] = {} /\ \A s \in SUBSET (1 .. n) : s # {} => iter[s] = Step(iter[s \ {Max(s)}], ids[Max(s)])
  <2> HIDE DEF iter, ids
  <2> QED
    BY <1>1, <1>8
<1> HIDE DEF iter
<1>10. ASSUME NEW s \in SUBSET (1 .. n), s # {}, iter[s \ {Max(s)}] \in St
       PROVE  iter[s] = F[<<Max(s), iter[s \ {Max(s)}]>>]
  <2>1. Max(s) \in 1 .. n
    <3>1. s \subseteq 0 .. n
      BY <1>1
    <3> QED
      BY <1>1, <1>10, <3>1, GreatestOf
  <2> QED
    BY <1>1, <1>6, <1>9, <1>10, <2>1
<1>11. PICK h \in [0 .. n -> St] : h[0] = {} /\ h[n] = iter[1 .. n] /\ \A i \in 1 .. n : h[i] = F[<<i, h[i - 1]>>]
  <2>1. n \in Nat /\ {} \in St /\ F \in [(1 .. n) \X St -> St]
    BY <1>1, <1>4, <1>6
  <2>2. FoldedWithin(iter, n, {}, St, F)
    BY <1>9, <1>10 DEF FoldedWithin
  <2> HIDE DEF n
  <2>3. \E h \in [0 .. n -> St] : Stepwise(h, iter, n, {}, F)
    BY <2>1, <2>2, FoldSteps
  <2> QED
    BY <2>3 DEF Stepwise
<1>12. h \in [0 .. n -> SUBSET TextRanges(text)]
  BY <1>4
<1>13. ASSUME NEW i \in 1 .. n PROVE h[i] = Step(h[i - 1], i)
  <2>1. i - 1 \in 0 .. n
    BY <1>1
  <2> QED
    BY <1>6, <1>11, <2>1
<1>14. h[n] = Find(words, text)
  BY <1>1, <1>2, <1>11
<1> HIDE DEF n
<1> QED
  BY <1>5, <1>11, <1>12, <1>13, <1>14 DEF n

(* No rule has an empty word.                                               *)
LEMMA WordsOfRules ==
  ASSUME NEW rule \in Rules
  PROVE  \E W : Words[rule] \in Seq(Seq(W) \ {<<>>})
BY ScanningAssumption DEF ScanningAssumption

(* Matches are ranges of the text that are not empty.                       *)
LEMMA MatchesAreRanges ==
  ASSUME NEW A, NEW text \in Seq(A), NEW rule \in Rules
  PROVE  Find(Words[rule], text) \subseteq TextRanges(text)
<1>1. PICK W : Words[rule] \in Seq(Seq(W) \ {<<>>})
  BY WordsOfRules
<1>2. PICK h \in [0 .. Len(text) -> SUBSET TextRanges(text)] : h[Len(text)] = Find(Words[rule], text)
  BY <1>1, FindSteps
<1>3. Len(text) \in 0 .. Len(text)
  OBVIOUS
<1> QED
  BY <1>2, <1>3

\* The original range of a signal holds what the match holds, in the text around it.
Covers(text, range, normalized) ==
  /\ range # NoRange
  /\ Normalize(Slice(text, range)).text = Slice(Normalize(text).text, normalized)
  /\ Normalize(SubSeq(text, 1, range.start)).text = SubSeq(Normalize(text).text, 1, normalized.start)
  /\ Normalize(SubSeq(text, range.end + 1, Len(text))).text
       = SubSeq(Normalize(text).text, normalized.end + 1, Len(Normalize(text).text))

(* The original range of a match is made of whole steps, and a text cut      *)
(* between steps is normalized as in the whole.                              *)
LEMMA MatchesCovered ==
  ASSUME NEW A, NEW text \in Seq(A), NEW rule \in Rules, NEW s \in Signals(rule, text)
  PROVE  /\ Covers(text, s.original, s.normalized) /\ s.rule = rule
         /\ s.original \in TextRanges(text)
<1> DEFINE normal == Normalize(text)
           size == Cardinality(Kept(text))
           n == Len(text)
           cut(c) == CutAfter(text, c)
<1>1. PICK m \in Find(Words[rule], normal.text) :
        s = [rule |-> rule, normalized |-> m, original |-> RestoreOriginalRange(m, normal.offsets)]
  BY DEF Signals
<1>2. /\ size \in Nat /\ n \in Nat /\ normal.text \in Seq(A) /\ Len(normal.text) = size
      /\ \A c \in 0 .. size : cut(c) \in 0 .. n
      /\ cut(size) = n
      /\ \A c, d \in 0 .. size : c < d => cut(c) < cut(d)
  BY NormalizedText
<1>3. m \in TextRanges(normal.text)
  BY <1>2, MatchesAreRanges
<1> DEFINE a == m.start
           b == m.end
<1>4. a \in 0 .. size /\ b \in 0 .. size /\ a < b /\ m = Span(a, b)
  BY <1>2, <1>3 DEF TextRanges, Span
<1>5. s.original = Span(cut(a), cut(b)) /\ s.normalized = m /\ s.rule = rule
  <2>1. RestoreOriginalRange(Span(a, b), normal.offsets) = Span(cut(a), cut(b))
    <3>1. a \in Nat /\ b \in Nat /\ a < b /\ b <= Len(normal.text)
      BY <1>2, <1>4
    <3> HIDE DEF a, b
    <3> QED
      BY <3>1, RestoredRange
  <2> QED
    BY <1>1, <1>4, <2>1
<1>6. s.original.start = cut(a) /\ s.original.end = cut(b) /\ m.start = a /\ m.end = b
  BY <1>5 DEF Span
<1> HIDE DEF a, b
<1>7. s.original \in TextRanges(text)
  BY <1>2, <1>4, <1>5 DEF TextRanges, Span
<1>8. cut(0) = 0
  BY DEF CutAfter
<1>9. s.original # NoRange
  BY <1>2, <1>4, <1>5, ScanningAssumption DEF ScanningAssumption, Span
<1>10. 0 \in 0 .. size /\ size \in 0 .. size /\ 0 <= a /\ b <= size /\ a <= b
  BY <1>2, <1>4
<1>11. Normalize(SubSeq(text, cut(a) + 1, cut(b))).text = SubSeq(normal.text, a + 1, b)
  BY <1>4, <1>10, CutText
<1>12. Normalize(SubSeq(text, cut(0) + 1, cut(a))).text = SubSeq(normal.text, 0 + 1, a)
  BY <1>4, <1>10, CutText
<1>13. Normalize(SubSeq(text, cut(b) + 1, cut(size))).text = SubSeq(normal.text, b + 1, size)
  BY <1>4, <1>10, CutText
<1> HIDE DEF cut, size
<1>14. Normalize(Slice(text, s.original)).text = Slice(normal.text, m)
  BY <1>6, <1>11 DEF Slice
<1>15. Normalize(SubSeq(text, 1, s.original.start)).text = SubSeq(normal.text, 1, m.start)
  BY <1>6, <1>8, <1>12
<1>16. Normalize(SubSeq(text, s.original.end + 1, n)).text = SubSeq(normal.text, m.end + 1, Len(normal.text))
  BY <1>2, <1>6, <1>13
<1> QED
  BY <1>5, <1>7, <1>9, <1>14, <1>15, <1>16 DEF Covers

-------------------------------------------------------------------------------
(***************************************************************************)
(* The request: its texts, and the one that is looked at.                  *)
(***************************************************************************)
RequestFits ==
  /\ IsSequence(documents) /\ documents # <<>>
  /\ \A document \in Range(documents) :
       /\ IsSequence(document) /\ document # <<>>
       /\ \A block \in Range(document) : IsSequence(block.text)
  /\ setting \in DOMAIN Settings
  /\ at \in 1 .. Len(documents)

SignalsFound == stage # "scan" => signals = {} \/ signals = DocumentSignals(Document, LexicalRules)

(* A request is not changed while it is served, and one of its texts is looked at.*)
LEMMA RequestStays ==
  /\ PipelineInit => RequestFits
  /\ RequestFits /\ [PipelineNext]_pipelineVars => RequestFits'
<1>1. ASSUME PipelineInit PROVE RequestFits
  <2>1. PICK c \in Cases : documents = c.documents /\ setting = c.setting
    BY <1>1 DEF PipelineInit
  <2>2. at = 1 /\ IsSequence(documents) /\ documents # <<>>
    BY <1>1, <2>1, PipelineAssumption DEF PipelineInit, PipelineAssumption
  <2>3. at \in 1 .. Len(documents)
    BY <2>2 DEF IsSequence
  <2> QED
    BY <2>1, <2>2, <2>3, PipelineAssumption DEF RequestFits, PipelineAssumption
<1>2. ASSUME RequestFits, [PipelineNext]_pipelineVars PROVE RequestFits'
  <2>1. documents' = documents /\ setting' = setting
    BY <1>2 DEF PipelineNext, pipelineVars, request, perText, results, Match, Scan, EmbedFails, EmbedBatch, BuildSegments, Map,
                PoolVectors, ClassifierFails, Classify, VerifierFails, Verify
  <2>2. at' = at \/ (at # Len(documents) /\ at' = at + 1)
    BY <1>2 DEF PipelineNext, pipelineVars, request, perText, results, Match, Scan, EmbedFails, EmbedBatch, BuildSegments, Map,
                PoolVectors, ClassifierFails, Classify, VerifierFails, Verify, Fails, NextText
  <2>3. Len(documents) \in Nat /\ at \in 1 .. Len(documents)
    BY <1>2 DEF RequestFits, IsSequence
  <2>4. at' \in 1 .. Len(documents)
    BY <2>2, <2>3
  <2> QED
    BY <1>2, <2>1, <2>4 DEF RequestFits
<1> QED
  BY <1>1, <1>2

(* The signals are those of the text looked at, or none.                    *)
LEMMA SignalsStay ==
  /\ PipelineInit => SignalsFound
  /\ SignalsFound /\ [PipelineNext]_pipelineVars => SignalsFound'
<1>1. ASSUME PipelineInit PROVE SignalsFound
  BY <1>1 DEF PipelineInit, SignalsFound
<1>2. ASSUME SignalsFound, [PipelineNext]_pipelineVars PROVE SignalsFound'
  <2>1. CASE Scan
    <3>1. signals' = DocumentSignals(Document, LexicalRules) /\ documents' = documents
      BY <2>1 DEF Scan, request
    <3>2. stage' # "scan" => at' = at
      BY <2>1 DEF Scan, Fails, NextText
    <3> QED
      BY <3>1, <3>2 DEF SignalsFound, Document
  <2>2. CASE ~Scan
    <3>1. signals' = signals /\ documents' = documents /\ (stage' # "scan" => at' = at)
      BY <1>2, <2>2 DEF PipelineNext, pipelineVars, request, perText, results, Match, EmbedFails, EmbedBatch, BuildSegments, Map,
                PoolVectors, ClassifierFails, Classify, VerifierFails, Verify, Fails, NextText
    <3>2. stage' # "scan" => stage # "scan"
      BY <1>2, <2>2 DEF PipelineNext, pipelineVars, request, perText, results, Match, EmbedFails, EmbedBatch, BuildSegments, Map,
                PoolVectors, ClassifierFails, Classify, VerifierFails, Verify, Fails, NextText
    <3> QED
      BY <1>2, <3>1, <3>2 DEF SignalsFound, Document
  <2> QED
    BY <2>1, <2>2
<1> QED
  BY <1>1, <1>2

(* Each signal of a text is of one of its blocks and covers its match.      *)
LEMMA SignalsOfDocument ==
  ASSUME RequestFits, NEW s \in DocumentSignals(Document, LexicalRules)
  PROVE  /\ s.block \in DOMAIN Document /\ IsSequence(Document[s.block].text)
         /\ s.range \in TextRanges(Document[s.block].text)
         /\ Covers(Document[s.block].text, s.range, s.normalized)
<1>0. PICK b \in DOMAIN Document :
        s \in {[block |-> b, rule |-> t.rule, normalized |-> t.normalized, range |-> t.original] :
                t \in UNION {Signals(rule, Document[b].text) : rule \in LexicalRules}}
  BY DEF DocumentSignals
<1>1. PICK t \in UNION {Signals(rule, Document[b].text) : rule \in LexicalRules} :
        s = [block |-> b, rule |-> t.rule, normalized |-> t.normalized, range |-> t.original]
  BY <1>0
<1>9. PICK rule \in LexicalRules : t \in Signals(rule, Document[b].text)
  BY <1>1
<1>2. Document \in Range(documents)
  BY DEF RequestFits, Document, Range, IsSequence
<1>3. Document[b] \in Range(Document)
  BY DEF Range
<1>4. IsSequence(Document[b].text)
  BY <1>2, <1>3 DEF RequestFits
<1>5. rule \in Rules
  BY PipelineAssumption DEF PipelineAssumption
<1>6. Covers(Document[b].text, t.original, t.normalized) /\ t.original \in TextRanges(Document[b].text)
  BY <1>4, <1>5, <1>9, MatchesCovered DEF IsSequence
<1> QED
  BY <1>1, <1>4, <1>6

(* So the signals of every state cover their match.                         *)
LEMMA SignalsCover ==
  RequestFits /\ SignalsFound => SignalsCoverTheirMatch
<1> SUFFICES ASSUME RequestFits, SignalsFound, stage # "scan", NEW s \in signals
             PROVE Covers(Document[s.block].text, s.range, s.normalized)
  BY DEF SignalsCoverTheirMatch, Covers
<1>1. s \in DocumentSignals(Document, LexicalRules)
  BY DEF SignalsFound
<1> QED
  BY <1>1, SignalsOfDocument

(* In every state, for every text and every rule: a signal has a range in the original,*)
(* and taking that range out leaves the rest as it is, whatever the normalizer shortened.*)
(* normalization/normalizer.py:10                                           *)
THEOREM SignalsAlwaysCover == PipelineSpec => []SignalsCoverTheirMatch
<1>1. PipelineInit => RequestFits /\ SignalsFound
  BY RequestStays, SignalsStay
<1>2. RequestFits /\ SignalsFound /\ [PipelineNext]_pipelineVars => (RequestFits /\ SignalsFound)'
  BY RequestStays, SignalsStay
<1> QED
  BY <1>1, <1>2, SignalsCover, PTL DEF PipelineSpec

(* What a setting loads depends on the setting only.                        *)
LEMMA SettingFits == RequestFits => LoadedFitsTogether
<1> SUFFICES ASSUME RequestFits PROVE LoadedFitsTogether
  OBVIOUS
<1>1. setting \in DOMAIN Settings
  BY DEF RequestFits
<1>2. Provider.status = "available" => 
          LET artifact == Provider.bundle.artifact
              root == Models!ArtifactRoot(Settings[setting].classifier_manifest)
          IN /\ IsPrefix(root, artifact.model) /\ ".." \notin Range(SubSeq(artifact.model, Len(root) + 1, Len(artifact.model)))
             /\ Cardinality(Range(artifact.labels)) = Len(artifact.labels)
             /\ artifact.threshold \in 0 .. Full
  BY <1>1, ClassifierFits DEF Provider
<1>3. Verifier # Bad =>
          LET root == Models!ArtifactRoot(Settings[setting].verifier_manifest)
          IN /\ IsPrefix(root, Verifier.model) /\ ".." \notin Range(SubSeq(Verifier.model, Len(root) + 1, Len(Verifier.model)))
             /\ \A label \in Range(Verifier.labels) :
                  /\ label \in DOMAIN Verifier.definitions /\ label \in DOMAIN Verifier.thresholds
                  /\ Verifier.thresholds[label] \in 0 .. Full
             /\ Verifier.chunks.overlap < Verifier.chunks.chars
  BY <1>1, VerifierFits DEF Verifier
<1> QED
  BY <1>2, <1>3 DEF LoadedFitsTogether

(* In every state, for every setting and every content of the disk: a model that was*)
(* loaded lies below the root of its manifest, and its labels, thresholds and chunks fit*)
(* each other. ml/classifier/lr_artifacts.py, ml/verifier/artifacts.py      *)
THEOREM WhatIsLoadedFits == PipelineSpec => []LoadedFitsTogether
<1>1. PipelineInit => RequestFits
  BY RequestStays
<1>2. RequestFits /\ [PipelineNext]_pipelineVars => RequestFits'
  BY RequestStays
<1> QED
  BY <1>1, <1>2, SettingFits, PTL DEF PipelineSpec

(* s lists the members of S in the order R.                                 *)
Enumerates(s, S, R) ==
  /\ Cardinality(S) \in Nat /\ DOMAIN s = 1 .. Cardinality(S) /\ s \in [1 .. Cardinality(S) -> S]
  /\ \A j, k \in 1 .. Cardinality(S) : j < k => <<s[j], s[k]>> \in R
  /\ \A x \in S : \E k \in 1 .. Cardinality(S) : s[k] = x

StrictOrder(R, S) ==
  /\ \A x \in S : <<x, x>> \notin R
  /\ \A x, y \in S : x = y \/ <<x, y>> \in R \/ <<y, x>> \in R
  /\ \A x, y, z \in S : <<x, y>> \in R /\ <<y, z>> \in R => <<x, z>> \in R

(* Taking the member that has k - 1 others before it lists a finite set in order.*)
LEMMA SortedLists ==
  ASSUME NEW S, IsFiniteSet(S), NEW R, StrictOrder(R, S), NEW s,
         s = [k \in 1 .. Cardinality(S) |-> s[k]],
         \A k \in 1 .. Cardinality(S) :
           (\E x \in S : Cardinality(Under(R, S, x)) = k - 1) => s[k] \in S /\ Cardinality(Under(R, S, s[k])) = k - 1
  PROVE  Enumerates(s, S, R)
<1> DEFINE n == Cardinality(S)
           place(x) == Cardinality(Under(R, S, x))
<1>1. /\ n \in Nat
      /\ \A k \in 1 .. n : \E x \in S : place(x) = k - 1
      /\ \A x \in S : place(x) \in 0 .. n - 1
      /\ \A x, y \in S : <<x, y>> \in R => place(x) < place(y)
  BY Places DEF StrictOrder
<1>2. \A k \in 1 .. n : s[k] \in S /\ place(s[k]) = k - 1
  BY <1>1
<1>3. DOMAIN s = 1 .. n /\ s \in [1 .. n -> S]
  BY <1>2
<1>4. \A x, y \in S : x = y \/ <<x, y>> \in R \/ <<y, x>> \in R
  BY DEF StrictOrder
<1> HIDE DEF n, place
<1>5. ASSUME NEW j \in 1 .. n, NEW k \in 1 .. n, j < k PROVE <<s[j], s[k]>> \in R
  <2>1. s[j] \in S /\ s[k] \in S /\ place(s[j]) = j - 1 /\ place(s[k]) = k - 1
    BY <1>2
  <2>2. <<s[k], s[j]>> \in R => k - 1 < j - 1
    BY <1>1, <2>1
  <2>3. s[j] # s[k] /\ <<s[k], s[j]>> \notin R
    BY <1>1, <1>5, <2>1, <2>2
  <2> QED
    BY <1>4, <2>1, <2>3
<1>6. ASSUME NEW x \in S PROVE \E k \in 1 .. n : s[k] = x
  <2> DEFINE k == place(x) + 1
  <2>1. k \in 1 .. n /\ place(x) = k - 1 /\ place(x) \in 0 .. n - 1
    BY <1>1
  <2> HIDE DEF k
  <2>2. s[k] \in S /\ place(s[k]) = place(x)
    BY <1>2, <2>1
  <2>3. <<s[k], x>> \notin R /\ <<x, s[k]>> \notin R
    <3>1. <<s[k], x>> \in R => place(x) < place(x)
      BY <1>1, <2>2
    <3>2. <<x, s[k]>> \in R => place(x) < place(x)
      BY <1>1, <2>2
    <3> QED
      BY <2>1, <3>1, <3>2
  <2> QED
    BY <1>4, <2>1, <2>2, <2>3
<1> QED
  BY <1>1, <1>3, <1>5, <1>6 DEF n, Enumerates

(* Ranges apart from each other, none of them empty, have an order.          *)
Apart(p, q) == p.end <= q.start \/ q.end <= p.start

(* Sorting ranges that are apart by their start puts one after the other.   *)
LEMMA SortedByStart ==
  ASSUME NEW S, IsFiniteSet(S), NEW n \in Nat, S \subseteq [start : 0 .. n, end : 0 .. n],
         \A p \in S : p.start < p.end, \A p, q \in S : p # q => Apart(p, q)
  PROVE  LET s == Sorted(S, LAMBDA p, q : p.start < q.start) IN
         /\ Cardinality(S) \in Nat /\ DOMAIN s = 1 .. Cardinality(S) /\ s \in [1 .. Cardinality(S) -> S]
         /\ \A j, k \in 1 .. Cardinality(S) : j < k => s[j].end <= s[k].start
         /\ \A p \in S : \E k \in 1 .. Cardinality(S) : s[k] = p
<1> DEFINE R == {p \in S \X S : p[1].start < p[2].start}
           s == Sorted(S, LAMBDA p, q : p.start < q.start)
           Below(x) == {y \in S : y.start < x.start}
<1>1. \A x, y \in S : <<x, y>> \in R <=> x.start < y.start
  OBVIOUS
<1> HIDE DEF R
<1>2. \A x \in S : Below(x) = Under(R, S, x)
  BY <1>1 DEF Under
<1>3. \A x \in S : x.start \in 0 .. n /\ x.end \in 0 .. n
  OBVIOUS
<1>4. StrictOrder(R, S)
  <2>1. \A x \in S : <<x, x>> \notin R
    BY <1>1, <1>3
  <2>2. \A x, y \in S : x = y \/ <<x, y>> \in R \/ <<y, x>> \in R
    <3> SUFFICES ASSUME NEW x \in S, NEW y \in S, x # y PROVE <<x, y>> \in R \/ <<y, x>> \in R
      OBVIOUS
    <3>1. x.start < y.start \/ y.start < x.start
      BY <1>3 DEF Apart
    <3> QED
      BY <1>1, <3>1
  <2>3. \A x, y, z \in S : <<x, y>> \in R /\ <<y, z>> \in R => <<x, z>> \in R
    <3> SUFFICES ASSUME NEW x \in S, NEW y \in S, NEW z \in S, <<x, y>> \in R, <<y, z>> \in R PROVE <<x, z>> \in R
      OBVIOUS
    <3>1. x.start < z.start
      BY <1>1, <1>3
    <3> QED
      BY <1>1, <3>1
  <2> QED
    BY <2>1, <2>2, <2>3 DEF StrictOrder
<1>5. s = [k \in 1 .. Cardinality(S) |-> CHOOSE x \in S : Cardinality(Below(x)) = k - 1]
  BY DEF Sorted
<1> HIDE DEF s, Below
<1>6. ASSUME NEW k \in 1 .. Cardinality(S), NEW x \in S, Cardinality(Under(R, S, x)) = k - 1
      PROVE  s[k] \in S /\ Cardinality(Under(R, S, s[k])) = k - 1
  <2>1. s[k] = CHOOSE y \in S : Cardinality(Below(y)) = k - 1
    BY <1>5
  <2>2. \E y \in S : Cardinality(Below(y)) = k - 1
    BY <1>2, <1>6
  <2>3. s[k] \in S /\ Cardinality(Below(s[k])) = k - 1
    BY <2>1, <2>2
  <2> QED
    BY <1>2, <2>3
<1>7. s = [k \in 1 .. Cardinality(S) |-> s[k]]
  BY <1>5
<1>8. Enumerates(s, S, R)
  BY <1>4, <1>6, <1>7, SortedLists
<1>9. ASSUME NEW j \in 1 .. Cardinality(S), NEW k \in 1 .. Cardinality(S), j < k PROVE s[j].end <= s[k].start
  <2>1. s[j] \in S /\ s[k] \in S /\ <<s[j], s[k]>> \in R
    BY <1>8, <1>9 DEF Enumerates
  <2>2. s[j].start < s[k].start /\ s[j] # s[k]
    BY <1>1, <1>3, <2>1
  <2>3. Apart(s[j], s[k]) /\ s[k].start < s[k].end
    BY <2>1, <2>2
  <2> QED
    BY <1>3, <2>1, <2>2, <2>3 DEF Apart
<1> QED
  BY <1>8, <1>9 DEF Enumerates, s

(* A sequence of sequences is joined from left to right.                    *)
LEMMA FlattenSteps ==
  ASSUME NEW S, NEW seqs \in Seq(Seq(S))
  PROVE  \E joins \in [0 .. Len(seqs) -> Seq(S)] :
           /\ joins[0] = <<>> /\ joins[Len(seqs)] = FlattenSeq(seqs)
           /\ \A k \in 1 .. Len(seqs) : joins[k] = joins[k - 1] \o seqs[k]
<1> DEFINE n == Len(seqs)
           Joins(f, m) == f = [i \in 1 .. m |-> IF i = 1 THEN seqs[i] ELSE f[i - 1] \o seqs[i]]
<1>0. n \in Nat /\ \A k \in 1 .. n : seqs[k] \in Seq(S)
  OBVIOUS
<1>1. \A m \in Nat : \E f : Joins(f, m)
  <2> DEFINE T == {m \in Nat : ~ \E f : Joins(f, m)}
  <2> SUFFICES ASSUME T # {} PROVE FALSE
    OBVIOUS
  <2>1. PICK m \in T : \A j \in T : m <= j
    <3>1. T \subseteq Nat
      OBVIOUS
    <3> HIDE DEF T
    <3> QED
      BY <3>1, LeastNumber
  <2>2. \E f : Joins(f, 0)
    <3>1. Joins(<< >>, 0)
      OBVIOUS
    <3> QED
      BY <3>1
  <2>3. m \in Nat \ {0} /\ m - 1 \in Nat \ T
    <3> HIDE DEF Joins
    <3> QED
      BY <2>1, <2>2
  <2>4. PICK f : Joins(f, m - 1)
    BY <2>3
  <2> DEFINE g == [i \in 1 .. m |-> IF i < m THEN f[i] ELSE IF m = 1 THEN seqs[1] ELSE f[m - 1] \o seqs[m]]
  <2>5. ASSUME NEW i \in 1 .. m PROVE g[i] = IF i = 1 THEN seqs[i] ELSE g[i - 1] \o seqs[i]
    <3>1. CASE i < m
      <4>1. i \in 1 .. m - 1 /\ g[i] = f[i] /\ (i # 1 => g[i - 1] = f[i - 1])
        BY <2>3, <3>1
      <4>2. f[i] = IF i = 1 THEN seqs[i] ELSE f[i - 1] \o seqs[i]
        BY <2>4, <4>1
      <4> QED
        BY <4>1, <4>2
    <3>2. CASE i = m
      BY <2>3, <3>2
    <3> QED
      BY <2>3, <3>1, <3>2
  <2>6. Joins(g, m)
    BY <2>5
  <2> QED
    BY <2>1, <2>6
<1> HIDE DEF Joins
<1>2. CASE n = 0
  <2>1. FlattenSeq(seqs) = seqs /\ seqs = <<>>
    BY <1>2 DEF FlattenSeq
  <2> DEFINE e == [i \in 0 .. n |-> << >>]
  <2>2. e \in [0 .. n -> Seq(S)] /\ e[0] = <<>> /\ e[n] = FlattenSeq(seqs) /\ \A k \in 1 .. n : e[k] = e[k - 1] \o seqs[k]
    BY <1>2, <2>1
  <2> HIDE DEF e
  <2> QED
    BY <2>2
<1>3. CASE n # 0
  <2> DEFINE flatten == CHOOSE f : Joins(f, n)
             h == [i \in 0 .. n |-> IF i = 0 THEN << >> ELSE flatten[i]]
  <2>1. Joins(flatten, n)
    <3>1. \E f : Joins(f, n)
      BY <1>0, <1>1
    <3> HIDE DEF n
    <3> QED
      BY <3>1
  <2>2. FlattenSeq(seqs) = flatten[n]
    BY <1>3 DEF FlattenSeq, Joins
  <2> HIDE DEF flatten
  <2>3. \A i \in 1 .. n : flatten[i] = IF i = 1 THEN seqs[i] ELSE flatten[i - 1] \o seqs[i]
    BY <2>1 DEF Joins
  <2>4. \A i \in 1 .. n : flatten[i] \in Seq(S)
    <3> DEFINE T == {i \in 1 .. n : flatten[i] \notin Seq(S)}
    <3> SUFFICES ASSUME T # {} PROVE FALSE
      OBVIOUS
    <3>1. PICK i \in T : \A j \in T : i <= j
      <4>1. T \subseteq Nat
        OBVIOUS
      <4> HIDE DEF T
      <4> QED
        BY <4>1, LeastNumber
    <3>2. i \in 1 .. n /\ flatten[i] \notin Seq(S) /\ i # 1
      BY <1>0, <2>3, <3>1
    <3>3. i - 1 \in 1 .. n /\ flatten[i - 1] \in Seq(S)
      BY <1>0, <3>1, <3>2
    <3>4. flatten[i] = flatten[i - 1] \o seqs[i] /\ seqs[i] \in Seq(S)
      BY <1>0, <2>3, <3>2
    <3> HIDE DEF T
    <3> QED
      BY <3>2, <3>3, <3>4
  <2>5. h \in [0 .. n -> Seq(S)] /\ h[0] = <<>> /\ h[n] = FlattenSeq(seqs)
    BY <1>0, <1>3, <2>2, <2>4
  <2>6. \A k \in 1 .. n : h[k] = h[k - 1] \o seqs[k]
    <3> SUFFICES ASSUME NEW k \in 1 .. n PROVE h[k] = h[k - 1] \o seqs[k]
      OBVIOUS
    <3>1. CASE k = 1
      <4>1. h[k] = seqs[k] /\ h[k - 1] = <<>> /\ seqs[k] \in Seq(S)
        <5>1. 1 \in 1 .. n /\ flatten[1] = seqs[1] /\ h[1] = flatten[1] /\ h[0] = <<>>
          BY <1>0, <1>3, <2>3
        <5> QED
          BY <1>0, <3>1, <5>1
      <4> HIDE DEF h
      <4> QED
        BY <4>1
    <3>2. CASE k # 1
      <4>1. k - 1 \in 1 .. n /\ h[k] = flatten[k] /\ h[k - 1] = flatten[k - 1]
        BY <1>0, <3>2
      <4>2. flatten[k] = flatten[k - 1] \o seqs[k]
        BY <2>3, <3>2
      <4> HIDE DEF h
      <4> QED
        BY <4>1, <4>2
    <3> QED
      BY <3>1, <3>2
  <2> HIDE DEF h
  <2> QED
    BY <2>5, <2>6
<1> QED
  BY <1>2, <1>3

(***************************************************************************)
(* Ranges that share out a region of a text: none of them meets another,   *)
(* and none of what is not blank is left out.                              *)
(***************************************************************************)
Inside(text, region) == {r \in TextRanges(text) : region.start <= r.start /\ r.end <= region.end}

Tiles(text, region, ranges) ==
  /\ ranges \subseteq Inside(text, region)
  /\ \A p, q \in ranges : p # q => Apart(p, q)
  /\ \A i \in Ink(text, region) : \E p \in ranges : i \in Positions(p)

(* The ink of a region are its characters that are no blanks.               *)
LEMMA InkFacts ==
  ASSUME NEW A, NEW text \in Seq(A), NEW region \in TextRanges(text)
  PROVE  /\ Ink(text, region) \subseteq region.start + 1 .. region.end
         /\ Ink(text, region) \subseteq 1 .. Len(text) /\ Ink(text, region) \subseteq Nat /\ Ink(text, region) \subseteq 0 .. Len(text)
         /\ region.start \in 0 .. Len(text) /\ region.end \in 0 .. Len(text) /\ region.start < region.end
         /\ \A i : i \in Ink(text, region) <=> i \in region.start + 1 .. region.end /\ text[i] \notin Blanks
<1>1. region.start \in 0 .. Len(text) /\ region.end \in 0 .. Len(text) /\ region.start < region.end /\ Len(text) \in Nat
  BY DEF TextRanges
<1>2. \A i : i \in Ink(text, region) <=> i \in region.start + 1 .. region.end /\ text[i] \notin Blanks
  BY DEF Ink, Positions
<1>3. region.start + 1 .. region.end \subseteq 1 .. Len(text)
  BY <1>1
<1> QED
  BY <1>1, <1>2, <1>3

(* A stretch goes from a start to the last ink before the next start.       *)
LEMMA StretchesTile ==
  ASSUME NEW A, NEW text \in Seq(A), NEW region \in TextRanges(text), NEW m
  PROVE  Tiles(text, region, Stretches(text, region, m))
<1> DEFINE n == Len(text)
           ink == Ink(text, region)
           Before(i) == Greatest({j \in ink : j < i})
           starts == {i \in ink : i = Least(ink) \/ Cardinality({k \in Before(i) .. i : text[k] = Newline}) >= m}
           Own(i) == {j \in ink : i <= j /\ \A k \in i + 1 .. j : k \notin starts}
           LastInk(i) == Greatest(Own(i))
           R == {Span(i - 1, LastInk(i)) : i \in starts}
<1>1. Stretches(text, region, m) = R
  BY DEF Stretches
<1>2. /\ ink \subseteq region.start + 1 .. region.end /\ ink \subseteq 1 .. n /\ ink \subseteq Nat
      /\ n \in Nat /\ region.start \in 0 .. n /\ region.end \in 0 .. n
  BY InkFacts
<1>3. starts \subseteq ink /\ (ink # {} => Least(ink) \in starts /\ \A i \in ink : Least(ink) <= i)
  <2> HIDE DEF ink
  <2>1. ink # {} => Least(ink) \in ink /\ \A i \in ink : Least(ink) <= i
    BY <1>2, LeastOf
  <2> QED
    BY <2>1
<1> HIDE DEF ink, starts
<1>4. ASSUME NEW i \in starts
      PROVE  /\ LastInk(i) \in ink /\ i <= LastInk(i) /\ i \in ink
             /\ \A k \in i + 1 .. LastInk(i) : k \notin starts
             /\ \A j \in ink : i <= j /\ (\A k \in i + 1 .. j : k \notin starts) => j <= LastInk(i)
  <2>0. ink \subseteq 0 .. n /\ i \in ink /\ i \in Nat /\ i + 1 .. i = {}
    BY <1>2, <1>3
  <2>1. i \in Own(i) /\ Own(i) \subseteq 0 .. n /\ n \in Nat
    <3>1. i \in Own(i)
      BY <2>0
    <3>2. Own(i) \subseteq ink
      OBVIOUS
    <3> QED
      BY <1>2, <2>0, <3>1, <3>2
  <2>2. \A j : j \in Own(i) <=> j \in ink /\ i <= j /\ \A k \in i + 1 .. j : k \notin starts
    OBVIOUS
  <2>3. LastInk(i) = Greatest(Own(i))
    OBVIOUS
  <2> HIDE DEF Own, LastInk
  <2>4. LastInk(i) \in Own(i) /\ \A x \in Own(i) : x <= LastInk(i)
    BY <2>1, <2>3, GreatestOf
  <2> QED
    BY <2>0, <2>2, <2>4
<1> HIDE DEF LastInk
<1>5. ASSUME NEW i \in starts, NEW j \in starts, i < j PROVE LastInk(i) <= j - 1
  <2>1. i \in ink /\ j \in ink /\ i \in Nat /\ j \in Nat /\ LastInk(i) \in Nat
    BY <1>2, <1>3, <1>4
  <2>2. j \notin i + 1 .. LastInk(i)
    BY <1>4
  <2> QED
    BY <1>5, <2>1, <2>2
<1>6. ASSUME NEW i \in starts
      PROVE  /\ i \in 1 .. n /\ LastInk(i) \in 1 .. n /\ Span(i - 1, LastInk(i)) \in Inside(text, region)
             /\ Positions(Span(i - 1, LastInk(i))) = i .. LastInk(i)
  <2>1. i \in region.start + 1 .. region.end /\ LastInk(i) \in region.start + 1 .. region.end
        /\ i \in 1 .. n /\ LastInk(i) \in 1 .. n /\ i <= LastInk(i)
    BY <1>2, <1>3, <1>4
  <2> QED
    BY <1>2, <2>1 DEF Inside, TextRanges, Span, Positions
<1>7. ASSUME NEW p \in R, NEW q \in R, p # q PROVE Apart(p, q)
  <2>1. PICK i \in starts : p = Span(i - 1, LastInk(i))
    OBVIOUS
  <2>2. PICK j \in starts : q = Span(j - 1, LastInk(j))
    OBVIOUS
  <2>3. i # j /\ i \in Nat /\ j \in Nat
    BY <1>6, <1>7, <2>1, <2>2
  <2>4. CASE i < j
    BY <1>5, <2>1, <2>2, <2>4 DEF Apart, Span
  <2>5. CASE j < i
    BY <1>5, <2>1, <2>2, <2>5 DEF Apart, Span
  <2> QED
    BY <2>3, <2>4, <2>5
<1>8. ASSUME NEW i \in ink PROVE \E p \in R : i \in Positions(p)
  <2> DEFINE earlier == {k \in starts : k <= i}
             k == Greatest(earlier)
  <2>1. earlier # {} /\ earlier \subseteq 0 .. n /\ n \in Nat /\ i \in Nat
    <3>1. Least(ink) \in earlier
      BY <1>3, <1>8
    <3>2. ink \subseteq 0 .. n /\ i \in Nat /\ n \in Nat
      BY <1>2
    <3>3. earlier \subseteq ink
      BY <1>3
    <3> HIDE DEF earlier
    <3> QED
      BY <3>1, <3>2, <3>3
  <2>2. \A x : x \in earlier <=> x \in starts /\ x <= i
    OBVIOUS
  <2> HIDE DEF earlier
  <2>3. k \in earlier /\ \A x \in earlier : x <= k
    BY <2>1, GreatestOf
  <2> HIDE DEF k
  <2>4. k \in starts /\ k <= i /\ k \in Nat
    BY <1>6, <2>2, <2>3
  <2>5. \A x \in k + 1 .. i : x \notin starts
    <3> SUFFICES ASSUME NEW x \in k + 1 .. i, x \in starts PROVE FALSE
      OBVIOUS
    <3>1. x <= k
      BY <2>1, <2>2, <2>3, <2>4
    <3> QED
      BY <2>1, <2>4, <3>1
  <2>6. i <= LastInk(k)
    BY <1>4, <2>4, <2>5
  <2>7. i \in Positions(Span(k - 1, LastInk(k)))
    BY <1>6, <2>1, <2>4, <2>6
  <2> QED
    BY <2>4, <2>7
<1>9. R \subseteq Inside(text, region)
  BY <1>6
<1> HIDE DEF R
<1> QED
  BY <1>1, <1>7, <1>8, <1>9 DEF Tiles, ink

(* The greatest of some of the first n numbers is one of them.              *)
LEMMA MaxOfSubset ==
  ASSUME NEW n \in Nat, NEW s \in SUBSET (1 .. n), s # {}
  PROVE  Max(s) \in 1 .. n /\ s \ {Max(s)} \in SUBSET (1 .. n)
<1>1. s \subseteq 0 .. n
  OBVIOUS
<1> QED
  BY <1>1, GreatestOf

DisjointIn(text, region) == {B \in SUBSET Inside(text, region) : \A p, q \in B : p # q => Apart(p, q)}

(* Fenced blocks are apart from each other and inside the region.           *)
LEMMA FencesApart ==
  ASSUME NEW A, NEW text \in Seq(A), NEW region \in TextRanges(text)
  PROVE  FencedBlocks(text, region) \in DisjointIn(text, region)
<1> DEFINE n == region.end - region.start
           St == DisjointIn(text, region)
           Step(blocks, i) ==
             IF text[i] \notin Fences \/ \E b \in blocks : i <= b.end THEN blocks
             ELSE blocks \cup {Span(i - 1, FenceEnd(text, region, i))}
           ids == [k \in 1 .. n |-> region.start + k]
           F == [p \in (1 .. n) \X St |-> Step(p[2], ids[p[1]])]
           Iterates(g) == g = [s \in SUBSET DOMAIN ids |->
                                 IF s = {} THEN {} ELSE Step(g[s \ {Max(s)}], ids[Max(s)])]
           iter == CHOOSE g : Iterates(g)
<1>0. region.start \in 0 .. Len(text) /\ region.end \in 0 .. Len(text) /\ region.start < region.end /\ Len(text) \in Nat
  BY DEF TextRanges
<1>1. n \in Nat /\ DOMAIN ids = 1 .. n
      /\ \A k \in 1 .. n : ids[k] \in region.start + 1 .. region.end
  BY <1>0
<1>2. FencedBlocks(text, region) = iter[1 .. n]
  BY DEF FencedBlocks, FoldLeft, MapThenFoldSet
<1>3. ASSUME NEW found \in St, NEW i \in region.start + 1 .. region.end PROVE Step(found, i) \in St
  <2>1. CASE text[i] \notin Fences \/ \E b \in found : i <= b.end
    BY <2>1
  <2>2. CASE ~(text[i] \notin Fences \/ \E b \in found : i <= b.end)
    <3> DEFINE e == FenceEnd(text, region, i)
               closing == {j \in i + 1 .. region.end : text[j] = text[i]}
    <3>1. e \in i .. region.end
      <4>1. e = IF closing = {} THEN region.end ELSE Least(closing)
        BY DEF FenceEnd
      <4>2. closing \subseteq Nat /\ closing \subseteq i .. region.end
        BY <1>0
      <4> HIDE DEF closing, e
      <4>3. closing # {} => Least(closing) \in i .. region.end
        BY <4>2, LeastOf
      <4> QED
        BY <1>0, <4>1, <4>3
    <3> HIDE DEF e
    <3>2. Span(i - 1, e) \in Inside(text, region)
      BY <1>0, <3>1 DEF Inside, TextRanges, Span
    <3>3. \A b \in found : b \in Inside(text, region) /\ Apart(b, Span(i - 1, e)) /\ Apart(Span(i - 1, e), b)
      BY <1>0, <2>2, <3>1 DEF Inside, TextRanges, Apart, Span, DisjointIn
    <3>4. found \cup {Span(i - 1, e)} \in St
      BY <3>2, <3>3 DEF DisjointIn
    <3> QED
      BY <3>4 DEF e
  <2> QED
    BY <2>1, <2>2
<1>4. {} \in St
  BY DEF DisjointIn
<1> HIDE DEF Step, St, ids
<1>6. F \in [(1 .. n) \X St -> St] /\ \A i \in 1 .. n, found \in St : F[<<i, found>>] = Step(found, ids[i])
  BY <1>1, <1>3
<1> HIDE DEF F
<1>7. \E g : Iterates(g)
  <2>1. n \in Nat /\ {} \in St /\ F \in [(1 .. n) \X St -> St]
    BY <1>1, <1>4, <1>6
  <2>2. \E g \in [SUBSET (1 .. n) -> St] : Folded(g, n, {}, F)
    <3> HIDE DEF n
    <3> QED
      BY <2>1, FoldExists
  <2>3. PICK g \in [SUBSET (1 .. n) -> St] : Folded(g, n, {}, F)
    BY <2>2
  <2>4. \A s \in SUBSET (1 .. n) : g[s] = IF s = {} THEN {} ELSE Step(g[s \ {Max(s)}], ids[Max(s)])
    <3> SUFFICES ASSUME NEW s \in SUBSET (1 .. n), s # {} PROVE g[s] = Step(g[s \ {Max(s)}], ids[Max(s)])
      BY <2>3 DEF Folded
    <3>1. Max(s) \in 1 .. n /\ s \ {Max(s)} \in SUBSET (1 .. n)
      BY <2>1, MaxOfSubset
    <3>2. g[s \ {Max(s)}] \in St /\ g[s] = F[<<Max(s), g[s \ {Max(s)}]>>]
      BY <2>3, <3>1 DEF Folded
    <3> QED
      BY <1>6, <3>1, <3>2
  <2> HIDE DEF ids
  <2>5. Iterates(g)
    BY <1>1, <2>3, <2>4
  <2> QED
    BY <2>5
<1>8. Iterates(iter)
  <2> HIDE DEF Iterates
  <2> QED
    BY <1>7
<1>9. FoldedWithin(iter, n, {}, St, F)
  <2>1. iter[{}] = {} /\ \A s \in SUBSET (1 .. n) : s # {} => iter[s] = Step(iter[s \ {Max(s)}], ids[Max(s)])
    <3> HIDE DEF iter, ids
    <3> QED
      BY <1>1, <1>8
  <2> HIDE DEF iter
  <2>2. ASSUME NEW s \in SUBSET (1 .. n), s # {}, iter[s \ {Max(s)}] \in St
        PROVE  iter[s] = F[<<Max(s), iter[s \ {Max(s)}]>>]
    <3>1. Max(s) \in 1 .. n
      BY <1>1, <2>2, MaxOfSubset
    <3> QED
      BY <1>6, <2>1, <2>2, <3>1
  <2> QED
    BY <2>1, <2>2 DEF FoldedWithin
<1>10. \E h \in [0 .. n -> St] : Stepwise(h, iter, n, {}, F)
  <2>1. n \in Nat /\ {} \in St /\ F \in [(1 .. n) \X St -> St]
    BY <1>1, <1>4, <1>6
  <2> HIDE DEF n, iter
  <2> QED
    BY <1>9, <2>1, FoldSteps
<1>11. PICK h \in [0 .. n -> St] :
        h[0] = {} /\ h[n] = iter[1 .. n] /\ \A i \in 1 .. n : h[i] = F[<<i, h[i - 1]>>]
  BY <1>10 DEF Stepwise
<1> QED
  BY <1>1, <1>2, <1>11 DEF St

(* What is between the fences, and the fences.                              *)
LEMMA FencesTile ==
  ASSUME NEW A, NEW text \in Seq(A), NEW region \in TextRanges(text)
  PROVE  Tiles(text, region, FencedBlocks(text, region) \cup Prose(text, region))
<1> DEFINE n == Len(text)
           blocks == FencedBlocks(text, region)
           first == region.start
           last == region.end
           edges == {first} \cup {b.end : b \in blocks}
           ahead(e) == {last} \cup {b.start : b \in {c \in blocks : c.start >= e}}
           NextStart(e) == Least(ahead(e))
           prose == {p \in {Span(e, NextStart(e)) : e \in edges} : Ink(text, p) # {}}
<1>1. first \in 0 .. n /\ last \in 0 .. n /\ first < last /\ n \in Nat
  BY DEF TextRanges
<1>2. /\ blocks \subseteq Inside(text, region)
      /\ \A p, q \in blocks : p # q => Apart(p, q)
      /\ \A b \in blocks : b.start \in first .. last /\ b.end \in first .. last /\ b.start < b.end
  <2>1. blocks \in DisjointIn(text, region)
    BY FencesApart
  <2> HIDE DEF blocks
  <2> QED
    BY <1>1, <2>1 DEF DisjointIn, Inside, TextRanges
<1>3. Prose(text, region) = prose
  BY DEF Prose
<1> HIDE DEF blocks
<1>4. \A e \in edges : e \in first .. last
  BY <1>1, <1>2
<1>5. ASSUME NEW e \in edges
      PROVE  /\ NextStart(e) \in e .. last
             /\ \A b \in blocks : b.start >= e => NextStart(e) <= b.start
             /\ NextStart(e) = last \/ \E b \in blocks : b.start >= e /\ NextStart(e) = b.start
  <2>0. e \in first .. last
    BY <1>4
  <2>1. ahead(e) \subseteq Nat /\ ahead(e) # {} /\ ahead(e) \subseteq e .. last
    BY <1>1, <1>2, <2>0
  <2>2. NextStart(e) \in ahead(e) /\ \A x \in ahead(e) : NextStart(e) <= x
    <3> HIDE DEF ahead
    <3> QED
      BY <2>1, LeastOf
  <2> HIDE DEF NextStart
  <2>3. \A b \in blocks : b.start >= e => b.start \in ahead(e)
    OBVIOUS
  <2> QED
    BY <2>1, <2>2, <2>3
<1> HIDE DEF NextStart
<1>6. ASSUME NEW e \in edges, NEW b \in blocks, b.start < e PROVE b.end <= e
  <2>1. CASE e = first
    BY <1>1, <1>2, <1>6, <2>1
  <2>2. CASE e # first
    <3>1. PICK c \in blocks : e = c.end
      BY <2>2
    <3>2. b = c \/ Apart(b, c)
      BY <1>2
    <3> QED
      BY <1>1, <1>2, <1>6, <3>1, <3>2 DEF Apart
  <2> QED
    BY <2>1, <2>2
<1>7. ASSUME NEW p \in prose
      PROVE  \E e \in edges : p = Span(e, NextStart(e)) /\ e < NextStart(e)
  <2>1. PICK e \in edges : p = Span(e, NextStart(e)) /\ Ink(text, p) # {}
    OBVIOUS
  <2>2. PICK i \in Ink(text, p) : TRUE
    BY <2>1
  <2>3. i \in e + 1 .. NextStart(e)
    BY <2>1, <2>2 DEF Ink, Positions, Span
  <2>4. e \in first .. last /\ NextStart(e) \in e .. last
    BY <1>4, <1>5
  <2> QED
    BY <1>1, <2>1, <2>3, <2>4
<1>8. prose \subseteq Inside(text, region)
  <2> SUFFICES ASSUME NEW p \in prose PROVE p \in Inside(text, region)
    OBVIOUS
  <2>1. PICK e \in edges : p = Span(e, NextStart(e)) /\ e < NextStart(e)
    BY <1>7
  <2>2. e \in first .. last /\ NextStart(e) \in e .. last
    BY <1>4, <1>5
  <2> QED
    BY <1>1, <2>1, <2>2 DEF Inside, TextRanges, Span
<1>9. ASSUME NEW p \in prose, NEW b \in blocks PROVE Apart(p, b) /\ Apart(b, p)
  <2>1. PICK e \in edges : p = Span(e, NextStart(e)) /\ e < NextStart(e)
    BY <1>7
  <2>2. b.start \in first .. last /\ b.end \in first .. last /\ e \in first .. last /\ NextStart(e) \in e .. last
    BY <1>2, <1>4, <1>5
  <2>3. CASE b.start >= e
    BY <1>1, <1>5, <2>1, <2>2, <2>3 DEF Apart, Span
  <2>4. CASE b.start < e
    BY <1>1, <1>6, <2>1, <2>2, <2>4 DEF Apart, Span
  <2> QED
    BY <1>1, <2>2, <2>3, <2>4
<1>10. ASSUME NEW d \in edges, NEW e \in edges, d < e PROVE NextStart(d) <= e
  <2>1. d \in first .. last /\ e \in first .. last
    BY <1>4
  <2>2. PICK b \in blocks : e = b.end
    BY <1>1, <1>10, <2>1
  <2>3. b.start \in first .. last /\ b.end \in first .. last /\ b.start < b.end
    BY <1>2
  <2>4. ~(b.start < d)
    <3>1. b.start < d => b.end <= d
      BY <1>6
    <3>2. first \in Nat /\ last \in Nat /\ d \in Nat /\ e \in Nat /\ b.start \in Nat /\ d < e
      BY <1>1, <1>10, <2>1, <2>3
    <3> QED
      BY <2>2, <3>1, <3>2
  <2>5. NextStart(d) <= b.start /\ NextStart(d) \in d .. last
    BY <1>1, <1>5, <2>1, <2>3, <2>4
  <2> QED
    BY <1>1, <2>1, <2>2, <2>3, <2>5
<1>11. ASSUME NEW p \in prose, NEW q \in prose, p # q PROVE Apart(p, q)
  <2>1. PICK d \in edges : p = Span(d, NextStart(d))
    OBVIOUS
  <2>2. PICK e \in edges : q = Span(e, NextStart(e))
    OBVIOUS
  <2>3. d # e /\ d \in first .. last /\ e \in first .. last
    BY <1>4, <1>11, <2>1, <2>2
  <2>4. d < e \/ e < d
    BY <1>1, <2>3
  <2> QED
    BY <1>10, <2>1, <2>2, <2>4 DEF Apart, Span
<1>12. ASSUME NEW i \in Ink(text, region) PROVE \E p \in blocks \cup prose : i \in Positions(p)
  <2> SUFFICES ASSUME ~ \E b \in blocks : i \in Positions(b) PROVE \E p \in prose : i \in Positions(p)
    OBVIOUS
  <2>0. i \in first + 1 .. last /\ i \in Nat /\ text[i] \notin Blanks
    BY <1>1, InkFacts
  <2> DEFINE earlier == {e \in edges : e < i}
             e == Greatest(earlier)
  <2>1. earlier \subseteq 0 .. n /\ first \in earlier
    BY <1>1, <1>4, <2>0
  <2>2. e \in earlier /\ \A x \in earlier : x <= e
    <3> HIDE DEF earlier
    <3> QED
      BY <1>1, <2>1, GreatestOf
  <2> HIDE DEF e
  <2>3. e \in edges /\ e < i /\ e \in first .. last /\ \A x \in edges : x < i => x <= e
    BY <1>4, <2>2
  <2>4. i <= NextStart(e)
    <3> SUFFICES ASSUME NextStart(e) < i PROVE FALSE
      BY <1>1, <1>5, <2>0, <2>3
    <3>1. NextStart(e) \in e .. last /\ NextStart(e) # last
      BY <1>1, <1>5, <2>0, <2>3
    <3>2. PICK b \in blocks : b.start >= e /\ NextStart(e) = b.start
      BY <1>5, <2>3, <3>1
    <3>3. b.start \in first .. last /\ b.end \in first .. last /\ b.start < b.end
      BY <1>2
    <3>4. i \notin b.start + 1 .. b.end
      BY DEF Positions
    <3>5. b.end < i /\ b.end \in edges
      BY <1>1, <2>0, <3>2, <3>3, <3>4
    <3>6. b.end <= e
      BY <2>3, <3>5
    <3> QED
      BY <1>1, <2>3, <3>2, <3>3, <3>6
  <2>5. i \in e + 1 .. NextStart(e)
    BY <1>1, <1>5, <2>0, <2>3, <2>4
  <2>6. i \in Positions(Span(e, NextStart(e)))
    BY <2>5 DEF Positions, Span
  <2>7. i \in Ink(text, Span(e, NextStart(e)))
    BY <2>0, <2>6 DEF Ink
  <2> QED
    BY <2>3, <2>6, <2>7
<1> HIDE DEF prose
<1>13. \A p, q \in blocks \cup prose : p # q => Apart(p, q)
  BY <1>2, <1>9, <1>11
<1> QED
  BY <1>2, <1>3, <1>8, <1>12, <1>13 DEF Tiles, blocks

(* All the ways to share out a text.                                        *)
LEMMA StructuresTile ==
  ASSUME NEW A, NEW text \in Seq(A), NEW source
  PROVE  /\ StructuralRanges(text, source) \subseteq TextRanges(text)
         /\ \A p, q \in StructuralRanges(text, source) : p # q => Apart(p, q)
         /\ \A i \in Ink(text, Whole(text)) : \E p \in StructuralRanges(text, source) : i \in Positions(p)
<1> DEFINE n == Len(text)
           ink == Ink(text, Whole(text))
           content == Trim(text, Whole(text))
           ranges == StructuralRanges(text, source)
<1>1. ink = {i \in 1 .. n : text[i] \notin Blanks} /\ n \in Nat
  BY DEF Ink, Whole, Positions, Span
<1>2. content = IF ink = {} THEN NoRange ELSE Span(Least(ink) - 1, Greatest(ink))
  BY DEF Trim
<1>3. ranges = IF content = NoRange THEN {}
               ELSE IF source = "ocr" THEN {content}
               ELSE IF \E i \in Positions(content) : text[i] \in Fences
                 THEN FencedBlocks(text, content) \cup Prose(text, content)
               ELSE IF IsTable(text, content, source) THEN TableRows(text, content)
               ELSE Paragraphs(text, content)
  BY DEF StructuralRanges
<1> HIDE DEF ranges, content, ink
<1>4. CASE ink = {}
  BY <1>2, <1>3, <1>4 DEF ranges, ink
<1>5. CASE ink # {}
  <2>1. /\ Least(ink) \in ink /\ Greatest(ink) \in ink /\ ink \subseteq 1 .. n
        /\ \A i \in ink : Least(ink) <= i /\ i <= Greatest(ink)
    <3>1. ink \subseteq Nat /\ ink \subseteq 0 .. n /\ ink \subseteq 1 .. n
      BY <1>1
    <3> QED
      BY <1>1, <1>5, <3>1, LeastOf, GreatestOf
  <2>2. content = Span(Least(ink) - 1, Greatest(ink)) /\ Least(ink) \in 1 .. n /\ Greatest(ink) \in 1 .. n /\ Least(ink) <= Greatest(ink)
    BY <1>2, <1>5, <2>1
  <2>3. content \in TextRanges(text) /\ content \in [start : Nat, end : Nat]
    <3> DEFINE a == Least(ink) - 1
               b == Greatest(ink)
    <3>1. a \in Nat /\ b \in Nat /\ a \in 0 .. n /\ b \in 0 .. n /\ a < b
      BY <1>1, <2>2
    <3> HIDE DEF a, b
    <3>2. content = [start |-> a, end |-> b]
      BY <2>2 DEF a, b, Span
    <3> QED
      BY <3>1, <3>2 DEF TextRanges
  <2>4. content # NoRange
    BY <2>3, ScanningAssumption DEF ScanningAssumption
  <2>5. \A i \in ink : i \in Positions(content) /\ i \in Ink(text, content)
    <3>1. content.start = Least(ink) - 1 /\ content.end = Greatest(ink)
      BY <2>2 DEF Span
    <3>2. ASSUME NEW i \in ink PROVE i \in content.start + 1 .. content.end /\ text[i] \notin Blanks
      <4>1. i \in 1 .. n /\ text[i] \notin Blanks
        BY <1>1, <3>2
      <4>2. Least(ink) <= i /\ i <= Greatest(ink)
        BY <2>1, <3>2
      <4> QED
        BY <1>1, <2>2, <3>1, <4>1, <4>2
    <3> QED
      BY <3>2 DEF Positions, Ink
  <2>6. Tiles(text, content, ranges)
    <3>1. CASE source = "ocr"
      <4>1. ranges = {content}
        BY <1>3, <2>4, <3>1
      <4>2. content \in Inside(text, content)
        BY <1>1, <2>3 DEF Inside, TextRanges
      <4>3. \A i \in Ink(text, content) : i \in Positions(content)
        BY DEF Ink
      <4> QED
        BY <4>1, <4>2, <4>3 DEF Tiles
    <3>2. CASE source # "ocr"
      BY <1>3, <2>3, <2>4, <3>2, FencesTile, StretchesTile DEF TableRows, Paragraphs
    <3> QED
      BY <3>1, <3>2
  <2> QED
    BY <2>5, <2>6 DEF Tiles, Inside, ranges, ink
<1> QED
  BY <1>4, <1>5

IsRecursion(f, n, Stop, Base, Step, Next) ==
  /\ f = [s \in 0 .. n |-> f[s]]
  /\ \A s \in 0 .. n : f[s] = IF s \in Stop THEN Base[s] ELSE Step[s] \cup f[Next[s]]

(* A recursion that moves on to a greater number, and stops there at last.  *)
LEMMA RecursionExists ==
  ASSUME NEW n \in Nat, NEW Stop, NEW Base, NEW Step, NEW Next,
         \A s \in 0 .. n : s \notin Stop => Next[s] \in s + 1 .. n
  PROVE  \E f : IsRecursion(f, n, Stop, Base, Step, Next)
<1> DEFINE Solves(f, m) == f = [s \in n + 1 - m .. n |-> IF s \in Stop THEN Base[s] ELSE Step[s] \cup f[Next[s]]]
           T == {m \in 0 .. n + 1 : ~ \E f : Solves(f, m)}
<1>1. T = {}
  <2> SUFFICES ASSUME T # {} PROVE FALSE
    OBVIOUS
  <2>1. PICK m \in T : \A j \in T : m <= j
    <3>1. T \subseteq Nat
      OBVIOUS
    <3> HIDE DEF T
    <3> QED
      BY <3>1, LeastNumber
  <2>2. \E f : Solves(f, 0)
    <3>1. n + 1 - 0 .. n = {}
      OBVIOUS
    <3>2. Solves([s \in {} |-> 0], 0)
      BY <3>1
    <3> HIDE DEF Solves
    <3> QED
      BY <3>2
  <2>3. m \in 0 .. n + 1 /\ ~ \E f : Solves(f, m)
    OBVIOUS
  <2>4. m # 0
    <3> HIDE DEF Solves
    <3> QED
      BY <2>2, <2>3
  <2>5. m - 1 \in 0 .. n + 1 /\ m - 1 \notin T /\ m \in Nat
    <3>1. m - 1 \in 0 .. n + 1 /\ ~(m <= m - 1) /\ m \in Nat
      BY <2>3, <2>4
    <3> HIDE DEF T
    <3> QED
      BY <2>1, <3>1
  <2>6. PICK f : Solves(f, m - 1)
    <3> HIDE DEF Solves
    <3> QED
      BY <2>5
  <2> DEFINE a == n + 1 - m
             g == [s \in a .. n |-> IF s = a THEN (IF s \in Stop THEN Base[s] ELSE Step[s] \cup f[Next[s]]) ELSE f[s]]
  <2>7. a \in 0 .. n /\ n + 1 - (m - 1) = a + 1
    BY <2>3, <2>4
  <2>8. \A s \in a + 1 .. n : f[s] = IF s \in Stop THEN Base[s] ELSE Step[s] \cup f[Next[s]]
    <3>1. f = [s \in a + 1 .. n |-> IF s \in Stop THEN Base[s] ELSE Step[s] \cup f[Next[s]]]
      BY <2>6, <2>7
    <3> HIDE DEF a
    <3> QED
      BY <3>1
  <2> HIDE DEF a
  <2>9. ASSUME NEW s \in a .. n PROVE g[s] = IF s \in Stop THEN Base[s] ELSE Step[s] \cup g[Next[s]]
    <3>1. s \in 0 .. n /\ (s \notin Stop => Next[s] \in s + 1 .. n)
      BY <2>7
    <3>2. s \notin Stop => Next[s] \in a + 1 .. n /\ Next[s] # a /\ Next[s] \in a .. n
      BY <2>7, <3>1
    <3>3. s \notin Stop => g[Next[s]] = f[Next[s]]
      BY <3>2
    <3>4. CASE s = a
      BY <3>3, <3>4
    <3>5. CASE s # a
      <4>1. s \in a + 1 .. n /\ g[s] = f[s]
        BY <2>7, <3>5
      <4> HIDE DEF g
      <4> QED
        BY <2>8, <3>3, <4>1
    <3> QED
      BY <3>4, <3>5
  <2>10. g = [s \in a .. n |-> IF s \in Stop THEN Base[s] ELSE Step[s] \cup g[Next[s]]]
    <3>1. g = [s \in a .. n |-> g[s]]
      OBVIOUS
    <3> HIDE DEF g
    <3> QED
      BY <2>9, <3>1
  <2> HIDE DEF g
  <2>11. Solves(g, m)
    BY <2>10 DEF a
  <2> HIDE DEF Solves
  <2> QED
    BY <2>3, <2>11
<1>2. PICK f : Solves(f, n + 1)
  <2>1. n + 1 \in 0 .. n + 1
    OBVIOUS
  <2> HIDE DEF Solves
  <2> QED
    BY <1>1, <2>1
<1>3. n + 1 - (n + 1) .. n = 0 .. n
  OBVIOUS
<1>4. f = [s \in 0 .. n |-> IF s \in Stop THEN Base[s] ELSE Step[s] \cup f[Next[s]]]
  BY <1>2, <1>3
<1>5. f = [s \in 0 .. n |-> f[s]] /\ \A s \in 0 .. n : f[s] = IF s \in Stop THEN Base[s] ELSE Step[s] \cup f[Next[s]]
  BY <1>4
<1> QED
  BY <1>5 DEF IsRecursion

(* A piece that is split off a range is not empty and within the limit.     *)
LEMMA SplitFacts ==
  ASSUME NEW A, NEW text \in Seq(A), NEW start \in 0 .. Len(text), NEW limit \in 0 .. Len(text), start < limit
  PROVE  SplitBoundary(text, start, limit) \in start + 1 .. limit
<1> DEFINE After(chars) == {i \in start + 2 .. limit : text[i] \in chars}
<1>1. SplitBoundary(text, start, limit) =
        IF After({Newline}) # {} THEN Greatest(After({Newline}))
        ELSE IF After(Sentences) # {} THEN Greatest(After(Sentences))
        ELSE IF After(Blanks) # {} THEN Greatest(After(Blanks))
        ELSE limit
  BY DEF SplitBoundary
<1>2. \A chars : After(chars) # {} => Greatest(After(chars)) \in start + 1 .. limit
  <2> SUFFICES ASSUME NEW chars, After(chars) # {} PROVE Greatest(After(chars)) \in start + 1 .. limit
    OBVIOUS
  <2> DEFINE S == After(chars)
  <2>1. S \subseteq 0 .. limit /\ S # {} /\ limit \in Nat /\ S \subseteq start + 1 .. limit
    OBVIOUS
  <2> HIDE DEF S
  <2>2. Greatest(S) \in S
    BY <2>1, GreatestOf
  <2> QED
    BY <2>1, <2>2 DEF S
<1> HIDE DEF After
<1>3. limit \in start + 1 .. limit
  OBVIOUS
<1> QED
  BY <1>1, <1>2, <1>3

(* The pieces of a range follow each other from its start to its end.       *)
LEMMA PiecesTile ==
  ASSUME NEW A, NEW text \in Seq(A), NEW region \in TextRanges(text)
  PROVE  /\ Pieces(text, region) \subseteq Inside(text, region)
         /\ \A p \in Pieces(text, region) : p.end - p.start <= MaxAtomChars
         /\ \A p, q \in Pieces(text, region) : p # q => Apart(p, q)
         /\ \A i \in Positions(region) : \E p \in Pieces(text, region) : i \in Positions(p)
<1> DEFINE n == Len(text)
           last == region.end
           Stop == {s \in 0 .. n : last - s <= MaxAtomChars}
           Base == [s \in 0 .. n |-> IF s < last THEN {Span(s, last)} ELSE {}]
           Next == [s \in 0 .. n |-> SplitBoundary(text, s, s + MaxAtomChars)]
           Step == [s \in 0 .. n |-> {Span(s, Next[s])}]
           Body(f) == [s \in 0 .. n |-> IF last - s <= MaxAtomChars THEN (IF s < last THEN {Span(s, last)} ELSE {})
                                        ELSE {Span(s, SplitBoundary(text, s, s + MaxAtomChars))}
                                               \cup f[SplitBoundary(text, s, s + MaxAtomChars)]]
           Solves(f) == f = Body(f)
           From == CHOOSE f : Solves(f)
<1>1. n \in Nat /\ region.start \in 0 .. n /\ last \in 0 .. n /\ region.start < last /\ MaxAtomChars \in Nat \ {0}
  BY SegmentationAssumption DEF TextRanges, SegmentationAssumption
<1>2. Pieces(text, region) = From[region.start]
  BY DEF Pieces
<1>3. ASSUME NEW s \in 0 .. n, ~(last - s <= MaxAtomChars)
      PROVE  Next[s] \in s + 1 .. s + MaxAtomChars /\ s + MaxAtomChars <= last /\ Next[s] \in s + 1 .. n
  <2>1. s + MaxAtomChars \in 0 .. n /\ s < s + MaxAtomChars /\ s + MaxAtomChars <= last
    BY <1>1, <1>3
  <2>2. SplitBoundary(text, s, s + MaxAtomChars) \in s + 1 .. s + MaxAtomChars
    BY <2>1, SplitFacts
  <2> HIDE DEF n
  <2>3. Next[s] = SplitBoundary(text, s, s + MaxAtomChars)
    OBVIOUS
  <2> QED
    BY <1>1, <2>1, <2>2, <2>3
<1>4. \E f : Solves(f)
  <2>1. \A s \in 0 .. n : s \notin Stop => Next[s] \in s + 1 .. n
    <3> SUFFICES ASSUME NEW s \in 0 .. n, s \notin Stop PROVE Next[s] \in s + 1 .. n
      OBVIOUS
    <3>1. ~(last - s <= MaxAtomChars)
      OBVIOUS
    <3> HIDE DEF Next
    <3> QED
      BY <1>3, <3>1
  <2>2. PICK f : /\ f = [s \in 0 .. n |-> f[s]]
                 /\ \A s \in 0 .. n : f[s] = IF s \in Stop THEN Base[s] ELSE Step[s] \cup f[Next[s]]
    <3>1. n \in Nat
      BY <1>1
    <3> HIDE DEF n, Stop, Base, Step, Next
    <3>2. \E f : IsRecursion(f, n, Stop, Base, Step, Next)
      BY <2>1, <3>1, RecursionExists
    <3> QED
      BY <3>2 DEF IsRecursion
  <2>3. Solves(f)
    <3>1. \A s \in 0 .. n : f[s] = Body(f)[s]
      BY <2>2
    <3>2. Body(f) = [s \in 0 .. n |-> Body(f)[s]]
      OBVIOUS
    <3>3. f = [s \in 0 .. n |-> f[s]]
      BY <2>2
    <3> HIDE DEF Body
    <3> QED
      BY <3>1, <3>2, <3>3
  <2> HIDE DEF Solves
  <2> QED
    BY <2>3
<1>5. Solves(From)
  <2> HIDE DEF Solves
  <2> QED
    BY <1>4
<1>6. \A s \in 0 .. n : From[s] = IF last - s <= MaxAtomChars THEN (IF s < last THEN {Span(s, last)} ELSE {})
                                  ELSE {Span(s, Next[s])} \cup From[Next[s]]
  <2> HIDE DEF From
  <2> QED
    BY <1>5
<1> HIDE DEF From, Next
<1> DEFINE Good(s, P) == /\ \A p \in P : p \in [start : 0 .. n, end : 0 .. n] /\ s <= p.start /\ p.start < p.end /\ p.end <= last
                                         /\ p.end - p.start <= MaxAtomChars
                         /\ \A p, q \in P : p # q => Apart(p, q)
                         /\ \A i \in s + 1 .. last : \E p \in P : i \in Positions(p)
           Bad0 == {k \in 0 .. last : ~Good(last - k, From[last - k])}
<1>7. Bad0 = {}
  <2> SUFFICES ASSUME Bad0 # {} PROVE FALSE
    OBVIOUS
  <2>1. PICK k \in Bad0 : \A j \in Bad0 : k <= j
    <3>1. Bad0 \subseteq Nat
      BY <1>1
    <3> HIDE DEF Bad0
    <3> QED
      BY <3>1, LeastNumber
  <2> DEFINE s == last - k
  <2>2. k \in 0 .. last /\ ~Good(s, From[s])
    OBVIOUS
  <2>3. s \in 0 .. last /\ s \in 0 .. n
    BY <1>1, <2>2
  <2> HIDE DEF Good
  <2>4. ASSUME NEW t \in s + 1 .. last PROVE Good(t, From[t])
    <3>1. last - t \in 0 .. last /\ ~(k <= last - t) /\ last - (last - t) = t
      BY <1>1, <2>2, <2>3
    <3>2. last - t \notin Bad0
      <4> HIDE DEF Bad0
      <4> QED
        BY <2>1, <3>1
    <3> QED
      BY <3>1, <3>2
  <2> HIDE DEF s, Bad0
  <2>5. CASE last - s <= MaxAtomChars
    <3>1. From[s] = IF s < last THEN {Span(s, last)} ELSE {}
      BY <1>6, <2>3, <2>5
    <3>2. CASE s < last
      <4>1. \A i \in s + 1 .. last : i \in Positions(Span(s, last))
        BY DEF Positions, Span
      <4>2. Span(s, last) \in [start : 0 .. n, end : 0 .. n] /\ Span(s, last).start = s /\ Span(s, last).end = last
        BY <1>1, <2>3 DEF Span
      <4> QED
        BY <2>2, <2>3, <2>5, <3>1, <3>2, <4>1, <4>2, <1>1 DEF Good
    <3>3. CASE ~(s < last)
      <4>1. From[s] = {} /\ s + 1 .. last = {}
        BY <1>1, <2>3, <3>1, <3>3
      <4> QED
        BY <2>2, <4>1 DEF Good
    <3> QED
      BY <3>2, <3>3
  <2>6. CASE ~(last - s <= MaxAtomChars)
    <3> DEFINE t == Next[s]
               first == Span(s, t)
    <3>1. t \in s + 1 .. s + MaxAtomChars /\ t \in s + 1 .. last /\ t \in 0 .. n
      <4>1. Next[s] \in s + 1 .. s + MaxAtomChars /\ s + MaxAtomChars <= last
        BY <1>3, <2>3, <2>6
      <4> QED
        BY <1>1, <2>3, <4>1
    <3>2. From[s] = {first} \cup From[t]
      BY <1>6, <2>3, <2>6
    <3>3. Good(t, From[t])
      BY <2>4, <3>1
    <3> HIDE DEF t
    <3>4. first.start = s /\ first.end = t /\ first \in [start : 0 .. n, end : 0 .. n]
      BY <2>3, <3>1 DEF Span
    <3>5. \A i \in s + 1 .. t : i \in Positions(first)
      BY <3>4 DEF Positions
    <3> HIDE DEF first
    <3>6. \A p \in From[s] : p \in [start : 0 .. n, end : 0 .. n] /\ s <= p.start /\ p.start < p.end /\ p.end <= last
                             /\ p.end - p.start <= MaxAtomChars
      <4>1. \A p \in From[t] : p \in [start : 0 .. n, end : 0 .. n] /\ t <= p.start /\ p.start < p.end /\ p.end <= last
                             /\ p.end - p.start <= MaxAtomChars
        BY <3>3 DEF Good
      <4>2. \A p \in From[t] : s <= p.start
        <5> SUFFICES ASSUME NEW p \in From[t] PROVE s <= p.start
          OBVIOUS
        <5>1. p.start \in 0 .. n /\ t <= p.start
          BY <4>1
        <5> QED
          BY <2>3, <3>1, <5>1
      <4>3. s <= s /\ s < t /\ t <= last /\ t - s <= MaxAtomChars
        BY <1>1, <2>3, <3>1
      <4> QED
        BY <3>2, <3>4, <4>1, <4>2, <4>3
    <3>7. \A p \in From[t] : Apart(first, p) /\ Apart(p, first)
      BY <3>3, <3>4 DEF Good, Apart
    <3>8. \A p, q \in From[s] : p # q => Apart(p, q)
      BY <3>2, <3>3, <3>7 DEF Good
    <3>9. \A i \in s + 1 .. last : \E p \in From[s] : i \in Positions(p)
      <4> SUFFICES ASSUME NEW i \in s + 1 .. last PROVE \E p \in From[s] : i \in Positions(p)
        OBVIOUS
      <4>1. i \in s + 1 .. t \/ i \in t + 1 .. last
        BY <1>1, <2>3, <3>1
      <4> QED
        BY <3>2, <3>3, <3>5, <4>1 DEF Good
    <3> QED
      BY <2>2, <3>6, <3>8, <3>9 DEF Good
  <2> QED
    BY <2>5, <2>6
<1>8. Good(region.start, From[region.start])
  <2>1. last - region.start \in 0 .. last /\ last - (last - region.start) = region.start
    BY <1>1
  <2> HIDE DEF Good
  <2> QED
    BY <1>7, <2>1
<1> DEFINE P == From[region.start]
<1>9. P \subseteq Inside(text, region)
  BY <1>8 DEF Inside, TextRanges
<1>10. \A i \in Positions(region) : \E p \in P : i \in Positions(p)
  BY <1>8 DEF Positions
<1> QED
  BY <1>2, <1>8, <1>9, <1>10

(* Ranges of a text that are apart are finitely many.                       *)
LEMMA ApartFinite ==
  ASSUME NEW A, NEW text \in Seq(A), NEW S, S \subseteq TextRanges(text), \A p, q \in S : p # q => Apart(p, q)
  PROVE  IsFiniteSet(S)
<1> DEFINE n == Len(text)
           f == [p \in S |-> p.start]
<1>1. n \in Nat /\ \A p \in S : p.start \in 0 .. n /\ p.end \in 0 .. n /\ p.start < p.end
  BY DEF TextRanges
<1> HIDE DEF n
<1>2. \A p, q \in S : f[p] = f[q] => p = q
  <2> SUFFICES ASSUME NEW p \in S, NEW q \in S, p # q, p.start = q.start PROVE FALSE
    OBVIOUS
  <2>1. p.end <= q.start \/ q.end <= p.start
    BY DEF Apart
  <2> QED
    BY <1>1, <2>1
<1>3. f \in Injection(S, 0 .. n)
  BY <1>1, <1>2 DEF Injection, IsInjective
<1>4. IsFiniteSet(0 .. n)
  BY <1>1, FS_Interval
<1> HIDE DEF f
<1> QED
  BY <1>3, <1>4, FS_Injection

(* The pieces of a text, in their order.                                    *)
PiecesOf(text, source) == UNION {Pieces(text, range) : range \in StructuralRanges(text, source)}

OrderedPieces(text, source) == Sorted(PiecesOf(text, source), LAMBDA p, q : p.start < q.start)

(* The pieces of a text: short enough, in order, and with all of its ink.   *)
LEMMA PiecesInOrder ==
  ASSUME NEW A, NEW text \in Seq(A), NEW source
  PROVE  LET s == OrderedPieces(text, source) IN
         /\ s \in Seq(TextRanges(text))
         /\ \A k \in DOMAIN s : s[k].end - s[k].start <= MaxAtomChars
         /\ \A j, k \in DOMAIN s : j < k => s[j].end <= s[k].start
         /\ \A i \in Ink(text, Whole(text)) : \E k \in DOMAIN s : i \in Positions(s[k])
<1> DEFINE n == Len(text)
           R == StructuralRanges(text, source)
           S == PiecesOf(text, source)
           s == OrderedPieces(text, source)
<1>0. n \in Nat
  OBVIOUS
<1>1. /\ R \subseteq TextRanges(text)
      /\ \A p, q \in R : p # q => Apart(p, q)
      /\ \A i \in Ink(text, Whole(text)) : \E p \in R : i \in Positions(p)
  BY StructuresTile
<1>2. \A r \in R : /\ Pieces(text, r) \subseteq Inside(text, r)
                   /\ \A p \in Pieces(text, r) : p.end - p.start <= MaxAtomChars
                   /\ \A p, q \in Pieces(text, r) : p # q => Apart(p, q)
                   /\ \A i \in Positions(r) : \E p \in Pieces(text, r) : i \in Positions(p)
  BY <1>1, PiecesTile
<1>3. \A p : p \in S <=> \E r \in R : p \in Pieces(text, r)
  BY DEF PiecesOf
<1> HIDE DEF R, S
<1>4. S \subseteq TextRanges(text) /\ \A p \in S : p.end - p.start <= MaxAtomChars
  BY <1>2, <1>3 DEF Inside
<1>5. \A p, q \in S : p # q => Apart(p, q)
  <2> SUFFICES ASSUME NEW p \in S, NEW q \in S, p # q PROVE Apart(p, q)
    OBVIOUS
  <2>1. PICK r \in R : p \in Pieces(text, r)
    BY <1>3
  <2>2. PICK t \in R : q \in Pieces(text, t)
    BY <1>3
  <2>3. CASE r = t
    BY <1>2, <2>1, <2>2, <2>3
  <2>4. CASE r # t
    <3>1. Apart(r, t) /\ p \in Inside(text, r) /\ q \in Inside(text, t)
      BY <1>1, <1>2, <2>1, <2>2, <2>4
    <3>2. r \in TextRanges(text) /\ t \in TextRanges(text)
      BY <1>1
    <3> QED
      BY <3>1, <3>2 DEF Inside, TextRanges, Apart
  <2> QED
    BY <2>3, <2>4
<1>6. IsFiniteSet(S)
  BY <1>4, <1>5, ApartFinite
<1>7. /\ Cardinality(S) \in Nat /\ DOMAIN s = 1 .. Cardinality(S) /\ s \in [1 .. Cardinality(S) -> S]
      /\ \A j, k \in 1 .. Cardinality(S) : j < k => s[j].end <= s[k].start
      /\ \A p \in S : \E k \in 1 .. Cardinality(S) : s[k] = p
  <2>1. S \subseteq [start : 0 .. n, end : 0 .. n] /\ \A p \in S : p.start < p.end
    BY <1>4 DEF TextRanges
  <2>2. s = Sorted(S, LAMBDA p, q : p.start < q.start)
    BY DEF OrderedPieces, S
  <2> HIDE DEF s, n
  <2> QED
    BY <1>0, <1>5, <1>6, <2>1, <2>2, SortedByStart
<1> HIDE DEF s
<1>8. s \in Seq(TextRanges(text))
  BY <1>4, <1>7
<1>9. \A i \in Ink(text, Whole(text)) : \E k \in DOMAIN s : i \in Positions(s[k])
  <2> SUFFICES ASSUME NEW i \in Ink(text, Whole(text)) PROVE \E k \in DOMAIN s : i \in Positions(s[k])
    OBVIOUS
  <2>1. PICK r \in R : i \in Positions(r)
    BY <1>1
  <2>2. PICK p \in Pieces(text, r) : i \in Positions(p)
    BY <1>2, <2>1
  <2>3. PICK k \in 1 .. Cardinality(S) : s[k] = p
    BY <1>3, <1>7, <2>2
  <2> QED
    BY <1>7, <2>2, <2>3
<1>10. \A k \in DOMAIN s : s[k].end - s[k].start <= MaxAtomChars
  BY <1>4, <1>7
<1> QED
  BY <1>7, <1>8, <1>9, <1>10 DEF s

DocumentFits(document) ==
  /\ IsSequence(document) /\ document # <<>>
  /\ \A block \in Range(document) : IsSequence(block.text)

AtomsOf(document) ==
  {a \in [block : DOMAIN document, range : [start : Nat, end : Nat]] :
     a.range \in TextRanges(document[a.block].text) /\ Length(a) <= MaxAtomChars}

InSourceOrder(s) == \A j, k \in DOMAIN s : j < k => /\ s[j].block <= s[k].block
                                                    /\ s[j].block = s[k].block => s[j].range.end <= s[k].range.start

(* The atoms of a document hold what is not blank, in source order.         *)
LEMMA AtomsFacts ==
  ASSUME NEW document, DocumentFits(document)
  PROVE  LET atms == Atoms(document) IN
         /\ atms \in Seq(AtomsOf(document))
         /\ InSourceOrder(atms)
         /\ \A b \in DOMAIN document : \A i \in Ink(document[b].text, Whole(document[b].text)) :
              \E k \in DOMAIN atms : atms[k].block = b /\ i \in Positions(atms[k].range)
<1> DEFINE m == Len(document)
           ordered(b) == OrderedPieces(document[b].text, document[b].source)
           own(b) == [k \in DOMAIN ordered(b) |-> [block |-> b, range |-> ordered(b)[k]]]
           parts == [b \in DOMAIN document |-> own(b)]
           St == AtomsOf(document)
<1>1. m \in Nat /\ DOMAIN document = 1 .. m /\ \A b \in 1 .. m : IsSequence(document[b].text)
  BY DEF DocumentFits, IsSequence, Range
<1>2. Atoms(document) = FlattenSeq(parts)
  BY DEF Atoms, OrderedPieces, PiecesOf
<1>3. ASSUME NEW b \in 1 .. m
      PROVE  LET s == ordered(b) IN
         /\ s \in Seq(TextRanges(document[b].text))
         /\ \A k \in DOMAIN s : s[k].end - s[k].start <= MaxAtomChars
         /\ \A j, k \in DOMAIN s : j < k => s[j].end <= s[k].start
         /\ \A i \in Ink(document[b].text, Whole(document[b].text)) : \E k \in DOMAIN s : i \in Positions(s[k])
  <2>1. document[b].text \in Seq(Range(document[b].text))
    BY <1>1 DEF IsSequence
  <2> QED
    BY <2>1, PiecesInOrder
<1> HIDE DEF ordered
<1>4. ASSUME NEW b \in 1 .. m
      PROVE  /\ own(b) \in Seq(St) /\ InSourceOrder(own(b))
             /\ DOMAIN own(b) = DOMAIN ordered(b)
             /\ \A k \in DOMAIN own(b) : own(b)[k].block = b
             /\ \A i \in Ink(document[b].text, Whole(document[b].text)) : \E k \in DOMAIN own(b) : i \in Positions(own(b)[k].range)
  <2> DEFINE s == ordered(b)
  <2>1. /\ s \in Seq(TextRanges(document[b].text))
        /\ \A k \in DOMAIN s : s[k].end - s[k].start <= MaxAtomChars
        /\ \A j, k \in DOMAIN s : j < k => s[j].end <= s[k].start
        /\ \A i \in Ink(document[b].text, Whole(document[b].text)) : \E k \in DOMAIN s : i \in Positions(s[k])
    BY <1>3
  <2> HIDE DEF s
  <2>2. own(b) = [k \in DOMAIN s |-> [block |-> b, range |-> s[k]]]
    BY DEF s
  <2> HIDE DEF own
  <2>3. Len(s) \in Nat /\ DOMAIN s = 1 .. Len(s) /\ DOMAIN own(b) = 1 .. Len(s)
        /\ \A k \in 1 .. Len(s) : own(b)[k] = [block |-> b, range |-> s[k]]
    BY <2>1, <2>2
  <2>4. \A k \in 1 .. Len(s) : s[k] \in TextRanges(document[b].text) /\ s[k] \in [start : Nat, end : Nat]
    BY <2>1, <2>3 DEF TextRanges
  <2>5. \A k \in 1 .. Len(s) : own(b)[k] \in St
    <3> SUFFICES ASSUME NEW k \in 1 .. Len(s) PROVE own(b)[k] \in St
      OBVIOUS
    <3> DEFINE a == [block |-> b, range |-> s[k]]
    <3>1. a \in [block : DOMAIN document, range : [start : Nat, end : Nat]] /\ a.block = b /\ a.range = s[k]
      BY <1>1, <2>4
    <3>2. own(b)[k] = a /\ s[k].end - s[k].start <= MaxAtomChars /\ s[k] \in TextRanges(document[b].text)
      BY <2>1, <2>3, <2>4
    <3> HIDE DEF a
    <3> QED
      BY <3>1, <3>2 DEF AtomsOf, Length
  <2>6. own(b) \in Seq(St)
    <3>1. own(b) = [k \in 1 .. Len(s) |-> own(b)[k]]
      BY <2>2, <2>3
    <3> HIDE DEF St
    <3> QED
      BY <2>3, <2>5, <3>1
  <2>7. InSourceOrder(own(b))
    BY <1>1, <2>1, <2>3 DEF InSourceOrder
  <2> QED
    BY <2>1, <2>3, <2>6, <2>7 DEF s
<1> HIDE DEF own
<1>5. parts \in Seq(Seq(St)) /\ Len(parts) = m /\ \A b \in 1 .. m : parts[b] = own(b)
  <2> HIDE DEF St
  <2> QED
    BY <1>1, <1>4
<1> HIDE DEF parts, St
<1>6. PICK joins \in [0 .. Len(parts) -> Seq(St)] :
           /\ joins[0] = <<>> /\ joins[Len(parts)] = FlattenSeq(parts)
           /\ \A k \in 1 .. Len(parts) : joins[k] = joins[k - 1] \o parts[k]
  BY <1>5, FlattenSteps
<1> DEFINE Good(k) ==
             /\ InSourceOrder(joins[k])
             /\ \A j \in DOMAIN joins[k] : joins[k][j].block <= k
             /\ \A b \in 1 .. k : \A i \in Ink(document[b].text, Whole(document[b].text)) :
                  \E j \in DOMAIN joins[k] : joins[k][j].block = b /\ i \in Positions(joins[k][j].range)
           T == {k \in 0 .. m : ~Good(k)}
<1>7. T = {}
  <2> SUFFICES ASSUME T # {} PROVE FALSE
    OBVIOUS
  <2>1. PICK k \in T : \A j \in T : k <= j
    <3>1. T \subseteq Nat
      OBVIOUS
    <3> HIDE DEF T
    <3> QED
      BY <3>1, LeastNumber
  <2>2. k \in 0 .. m /\ ~Good(k)
    OBVIOUS
  <2>3. k # 0
    <3>1. joins[0] = <<>>
      BY <1>6
    <3>2. DOMAIN joins[0] = {}
      BY <3>1
    <3>3. Good(0)
      BY <3>2 DEF InSourceOrder
    <3> QED
      BY <2>2, <3>3
  <2>4. k \in 1 .. m /\ k - 1 \in 0 .. m /\ Good(k - 1)
    <3>1. k \in 1 .. m /\ k - 1 \in 0 .. m /\ ~(k <= k - 1)
      BY <1>1, <2>2, <2>3
    <3>2. k - 1 \notin T
      <4> HIDE DEF T
      <4> QED
        BY <2>1, <3>1
    <3> HIDE DEF Good
    <3> QED
      BY <3>1, <3>2
  <2> HIDE DEF T
  <2> DEFINE p == joins[k - 1]
             q == own(k)
  <2>5. joins[k] = p \o q /\ p \in Seq(St) /\ q \in Seq(St)
    BY <1>4, <1>5, <1>6, <2>4
  <2>6. /\ InSourceOrder(q)
        /\ \A j \in DOMAIN q : q[j].block = k
        /\ \A i \in Ink(document[k].text, Whole(document[k].text)) : \E j \in DOMAIN q : i \in Positions(q[j].range)
    BY <1>4, <2>4
  <2>7. /\ InSourceOrder(p)
        /\ \A j \in DOMAIN p : p[j].block <= k - 1
        /\ \A b \in 1 .. k - 1 : \A i \in Ink(document[b].text, Whole(document[b].text)) :
                  \E j \in DOMAIN p : p[j].block = b /\ i \in Positions(p[j].range)
    BY <2>4
  <2> HIDE DEF p, q, Good
  <2> DEFINE r == p \o q
             u == Len(p)
             v == Len(q)
  <2>8. /\ u \in Nat /\ v \in Nat /\ DOMAIN p = 1 .. u /\ DOMAIN q = 1 .. v /\ DOMAIN r = 1 .. u + v
        /\ \A j \in 1 .. u : r[j] = p[j]
        /\ \A j \in 1 .. v : u + j \in 1 .. u + v /\ r[u + j] = q[j]
        /\ \A j \in u + 1 .. u + v : j - u \in 1 .. v /\ r[j] = q[j - u]
    BY <2>5
  <2>9. \A j \in 1 .. u : p[j] \in St /\ p[j].block \in 1 .. m
    BY <1>1, <2>5, <2>8 DEF St, AtomsOf
  <2>19. joins[k] = r
    BY <2>5
  <2> HIDE DEF r, u, v
  <2>10. InSourceOrder(r)
    <3> SUFFICES ASSUME NEW j \in 1 .. u + v, NEW l \in 1 .. u + v, j < l
                 PROVE  r[j].block <= r[l].block /\ (r[j].block = r[l].block => r[j].range.end <= r[l].range.start)
      BY <2>8 DEF InSourceOrder
    <3>1. CASE j \in 1 .. u /\ l \in 1 .. u
      BY <2>7, <2>8, <3>1 DEF InSourceOrder
    <3>2. CASE j \in u + 1 .. u + v /\ l \in u + 1 .. u + v
      <4>1. j - u \in 1 .. v /\ l - u \in 1 .. v /\ j - u < l - u /\ r[j] = q[j - u] /\ r[l] = q[l - u]
        BY <2>8, <3>2
      <4> DEFINE x == j - u
                 y == l - u
      <4>2. x \in DOMAIN q /\ y \in DOMAIN q /\ x < y /\ r[j] = q[x] /\ r[l] = q[y]
        BY <2>8, <4>1
      <4> HIDE DEF x, y
      <4> QED
        BY <2>6, <4>2 DEF InSourceOrder
    <3>3. CASE j \in 1 .. u /\ l \in u + 1 .. u + v
      <4>1. l - u \in 1 .. v /\ r[j] = p[j] /\ r[l] = q[l - u]
        BY <2>8, <3>3
      <4>2. p[j].block <= k - 1 /\ q[l - u].block = k /\ p[j].block \in 1 .. m
        BY <2>6, <2>7, <2>8, <2>9, <3>3, <4>1
      <4> QED
        BY <2>4, <4>1, <4>2
    <3> QED
      BY <2>8, <3>1, <3>2, <3>3
  <2>11. \A j \in DOMAIN r : r[j].block <= k
    <3> SUFFICES ASSUME NEW j \in 1 .. u + v PROVE r[j].block <= k
      BY <2>8
    <3>1. CASE j \in 1 .. u
      <4>1. r[j] = p[j] /\ p[j].block <= k - 1 /\ p[j].block \in 1 .. m
        BY <2>7, <2>8, <2>9, <3>1
      <4> QED
        BY <2>4, <4>1
    <3>2. CASE j \in u + 1 .. u + v
      <4>1. r[j] = q[j - u] /\ j - u \in DOMAIN q
        BY <2>8, <3>2
      <4> QED
        BY <2>4, <2>6, <4>1
    <3> QED
      BY <2>8, <3>1, <3>2
  <2>12. \A b \in 1 .. k : \A i \in Ink(document[b].text, Whole(document[b].text)) :
                  \E j \in DOMAIN r : r[j].block = b /\ i \in Positions(r[j].range)
    <3> SUFFICES ASSUME NEW b \in 1 .. k, NEW i \in Ink(document[b].text, Whole(document[b].text))
                 PROVE  \E j \in DOMAIN r : r[j].block = b /\ i \in Positions(r[j].range)
      OBVIOUS
    <3>1. CASE b = k
      <4>1. PICK j \in DOMAIN q : i \in Positions(q[j].range)
        BY <2>6, <3>1
      <4>2. u + j \in DOMAIN r /\ r[u + j] = q[j] /\ q[j].block = k
        BY <2>6, <2>8, <4>1
      <4> QED
        BY <3>1, <4>1, <4>2
    <3>2. CASE b # k
      <4>1. b \in 1 .. k - 1
        BY <2>4, <3>2
      <4>2. PICK j \in DOMAIN p : p[j].block = b /\ i \in Positions(p[j].range)
        BY <2>7, <4>1
      <4>3. j \in DOMAIN r /\ r[j] = p[j]
        BY <2>8, <4>2
      <4> QED
        BY <4>2, <4>3
    <3> QED
      BY <3>1, <3>2
  <2>13. Good(k)
    BY <2>19, <2>10, <2>11, <2>12 DEF Good
  <2> QED
    BY <2>2, <2>13
<1>8. Good(m)
  <2> HIDE DEF Good
  <2> QED
    BY <1>1, <1>7
<1>9. Atoms(document) = joins[m] /\ joins[m] \in Seq(AtomsOf(document))
  <2>1. m \in 0 .. Len(parts)
    BY <1>1, <1>5
  <2> QED
    BY <1>2, <1>5, <1>6, <2>1 DEF St
<1>10. \A b \in DOMAIN document : \A i \in Ink(document[b].text, Whole(document[b].text)) :
              \E k \in DOMAIN joins[m] : joins[m][k].block = b /\ i \in Positions(joins[m][k].range)
  BY <1>1, <1>8
<1> QED
  BY <1>8, <1>9, <1>10

-------------------------------------------------------------------------------
(***************************************************************************)
(* Segments: their characters, and what is in them.                        *)
(***************************************************************************)
LEMMA CharsSteps ==
  ASSUME NEW atms, NEW group \in Seq(DOMAIN atms), \A i \in DOMAIN atms : Length(atms[i]) \in Nat
  PROVE  \E h \in [0 .. Len(group) -> Nat] :
           /\ h[0] = 0 /\ h[Len(group)] = CharsOf(atms, group)
           /\ \A k \in 1 .. Len(group) : h[k] = h[k - 1] + Length(atms[group[k]])
<1> DEFINE n == Len(group)
           St == Nat
           Step(m, i) == m + Length(atms[i])
           ids == group
           F == [p \in (1 .. n) \X St |-> Step(p[2], ids[p[1]])]
           Iterates(g) == g = [s \in SUBSET DOMAIN ids |->
                                 IF s = {} THEN 0 ELSE Step(g[s \ {Max(s)}], ids[Max(s)])]
           iter == CHOOSE g : Iterates(g)
<1>1. n \in Nat /\ DOMAIN ids = 1 .. n /\ \A k \in 1 .. n : ids[k] \in DOMAIN atms
  OBVIOUS
<1>2. CharsOf(atms, group) = iter[1 .. n]
  BY DEF CharsOf, FoldLeft, MapThenFoldSet
<1>3. ASSUME NEW m \in St, NEW i \in DOMAIN atms PROVE Step(m, i) \in St
  OBVIOUS
<1>4. 0 \in St
  OBVIOUS
<1>5. \A m, i : Step(m, i) = m + Length(atms[i])
  OBVIOUS
<1> HIDE DEF Step, St, ids
<1>6. F \in [(1 .. n) \X St -> St] /\ \A i \in 1 .. n, m \in St : F[<<i, m>>] = Step(m, ids[i])
  BY <1>1, <1>3
<1> HIDE DEF F
<1>7. \E g : Iterates(g)
  <2>1. n \in Nat /\ 0 \in St /\ F \in [(1 .. n) \X St -> St]
    BY <1>1, <1>4, <1>6
  <2>2. \E g \in [SUBSET (1 .. n) -> St] : Folded(g, n, 0, F)
    <3> HIDE DEF n
    <3> QED
      BY <2>1, FoldExists
  <2>3. PICK g \in [SUBSET (1 .. n) -> St] : Folded(g, n, 0, F)
    BY <2>2
  <2>4. \A s \in SUBSET (1 .. n) : g[s] = IF s = {} THEN 0 ELSE Step(g[s \ {Max(s)}], ids[Max(s)])
    <3> SUFFICES ASSUME NEW s \in SUBSET (1 .. n), s # {} PROVE g[s] = Step(g[s \ {Max(s)}], ids[Max(s)])
      BY <2>3 DEF Folded
    <3>1. Max(s) \in 1 .. n /\ s \ {Max(s)} \in SUBSET (1 .. n)
      BY <2>1, MaxOfSubset
    <3>2. g[s \ {Max(s)}] \in St /\ g[s] = F[<<Max(s), g[s \ {Max(s)}]>>]
      BY <2>3, <3>1 DEF Folded
    <3> QED
      BY <1>6, <3>1, <3>2
  <2> HIDE DEF ids
  <2>5. Iterates(g)
    BY <1>1, <2>3, <2>4
  <2> QED
    BY <2>5
<1>8. Iterates(iter)
  <2> HIDE DEF Iterates
  <2> QED
    BY <1>7
<1>9. FoldedWithin(iter, n, 0, St, F)
  <2>1. iter[{}] = 0 /\ \A s \in SUBSET (1 .. n) : s # {} => iter[s] = Step(iter[s \ {Max(s)}], ids[Max(s)])
    <3> HIDE DEF iter, ids
    <3> QED
      BY <1>1, <1>8
  <2> HIDE DEF iter
  <2>2. ASSUME NEW s \in SUBSET (1 .. n), s # {}, iter[s \ {Max(s)}] \in St
        PROVE  iter[s] = F[<<Max(s), iter[s \ {Max(s)}]>>]
    <3>1. Max(s) \in 1 .. n
      BY <1>1, <2>2, MaxOfSubset
    <3> QED
      BY <1>6, <2>1, <2>2, <3>1
  <2> QED
    BY <2>1, <2>2 DEF FoldedWithin
<1>10. \E h \in [0 .. n -> St] : Stepwise(h, iter, n, 0, F)
  <2>1. n \in Nat /\ 0 \in St /\ F \in [(1 .. n) \X St -> St]
    BY <1>1, <1>4, <1>6
  <2> HIDE DEF n, iter
  <2> QED
    BY <1>9, <2>1, FoldSteps
<1>11. PICK h \in [0 .. n -> St] :
        h[0] = 0 /\ h[n] = iter[1 .. n] /\ \A i \in 1 .. n : h[i] = F[<<i, h[i - 1]>>]
  BY <1>10 DEF Stepwise
<1>12. \A k \in 1 .. n : h[k] = h[k - 1] + Length(atms[ids[k]])
  <2> SUFFICES ASSUME NEW k \in 1 .. n PROVE h[k] = Step(h[k - 1], ids[k])
    BY <1>5
  <2>1. k - 1 \in 0 .. n /\ h[k - 1] \in St
    BY <1>1
  <2> QED
    BY <1>6, <1>11, <2>1
<1>13. h \in [0 .. n -> Nat]
  BY DEF St
<1> HIDE DEF n, iter
<1> QED
  BY <1>2, <1>11, <1>12, <1>13 DEF n, ids

(* Two sums that grow alike are equal.                                      *)
LEMMA SumsAgree ==
  ASSUME NEW n \in Nat, NEW f \in [0 .. n -> Nat], NEW h \in [0 .. n -> Nat], f[0] = h[0],
         \A k \in 1 .. n : \E d \in Nat : f[k] = f[k - 1] + d /\ h[k] = h[k - 1] + d
  PROVE  f[n] = h[n]
<1> DEFINE T == {k \in 0 .. n : f[k] # h[k]}
<1>1. T = {}
  <2> SUFFICES ASSUME T # {} PROVE FALSE
    OBVIOUS
  <2>1. PICK k \in T : \A j \in T : k <= j
    <3>1. T \subseteq Nat
      OBVIOUS
    <3> HIDE DEF T
    <3> QED
      BY <3>1, LeastNumber
  <2>2. k \in 0 .. n /\ f[k] # h[k] /\ k # 0
    OBVIOUS
  <2>3. k \in 1 .. n /\ k - 1 \in 0 .. n /\ ~(k <= k - 1)
    BY <2>2
  <2>4. f[k - 1] = h[k - 1]
    BY <2>1, <2>3
  <2> QED
    BY <2>2, <2>3, <2>4
<1>2. n \in 0 .. n
  OBVIOUS
<1> QED
  BY <1>1, <1>2

(* One more atom makes a group longer by its characters.                    *)
LEMMA CharsGrow ==
  ASSUME NEW atms, NEW group \in Seq(DOMAIN atms), NEW i \in DOMAIN atms, \A j \in DOMAIN atms : Length(atms[j]) \in Nat
  PROVE  /\ CharsOf(atms, group) \in Nat
         /\ CharsOf(atms, << >>) = 0
         /\ CharsOf(atms, Append(group, i)) = CharsOf(atms, group) + Length(atms[i])
<1> DEFINE n == Len(group)
           longer == Append(group, i)
<1>0. n \in Nat /\ longer \in Seq(DOMAIN atms) /\ Len(longer) = n + 1 /\ << >> \in Seq(DOMAIN atms) /\ longer[n + 1] = i
      /\ \A k \in 1 .. n : longer[k] = group[k] /\ group[k] \in DOMAIN atms
  OBVIOUS
<1> HIDE DEF longer
<1>1. PICK f \in [0 .. n -> Nat] : f[0] = 0 /\ f[n] = CharsOf(atms, group) /\ \A k \in 1 .. n : f[k] = f[k - 1] + Length(atms[group[k]])
  BY CharsSteps
<1>2. PICK h \in [0 .. n + 1 -> Nat] :
        h[0] = 0 /\ h[n + 1] = CharsOf(atms, longer) /\ \A k \in 1 .. n + 1 : h[k] = h[k - 1] + Length(atms[longer[k]])
  <2>1. \E h \in [0 .. Len(longer) -> Nat] :
        h[0] = 0 /\ h[Len(longer)] = CharsOf(atms, longer) /\ \A k \in 1 .. Len(longer) : h[k] = h[k - 1] + Length(atms[longer[k]])
    BY <1>0, CharsSteps
  <2> QED
    BY <1>0, <2>1
<1>3. PICK z \in [0 .. 0 -> Nat] : z[0] = 0 /\ z[0] = CharsOf(atms, << >>)
  <2>1. \E z \in [0 .. Len(<< >>) -> Nat] : z[0] = 0 /\ z[Len(<< >>)] = CharsOf(atms, << >>)
    BY <1>0, CharsSteps
  <2>2. Len(<< >>) = 0
    OBVIOUS
  <2> QED
    BY <2>1, <2>2
<1> DEFINE g == [k \in 0 .. n |-> h[k]]
<1>4. g \in [0 .. n -> Nat] /\ g[0] = f[0]
  BY <1>0, <1>1, <1>2
<1>5. \A k \in 1 .. n : \E d \in Nat : f[k] = f[k - 1] + d /\ g[k] = g[k - 1] + d
  <2> SUFFICES ASSUME NEW k \in 1 .. n PROVE \E d \in Nat : f[k] = f[k - 1] + d /\ g[k] = g[k - 1] + d
    OBVIOUS
  <2>1. k \in 1 .. n + 1 /\ k \in 0 .. n /\ k - 1 \in 0 .. n /\ longer[k] = group[k] /\ Length(atms[group[k]]) \in Nat
    BY <1>0
  <2>2. h[k] = h[k - 1] + Length(atms[group[k]]) /\ f[k] = f[k - 1] + Length(atms[group[k]])
    BY <1>1, <1>2, <2>1
  <2>3. g[k] = h[k] /\ g[k - 1] = h[k - 1]
    BY <2>1
  <2> HIDE DEF g
  <2> QED
    BY <2>1, <2>2, <2>3
<1>6. g[n] = h[n]
  BY <1>0
<1> HIDE DEF g, n
<1>7. f[n] = g[n]
  BY <1>0, <1>4, <1>5, SumsAgree
<1>8. h[n + 1] = h[(n + 1) - 1] + Length(atms[longer[n + 1]]) /\ (n + 1) - 1 = n /\ n \in 0 .. n
  <2>1. n + 1 \in 1 .. n + 1 /\ (n + 1) - 1 = n /\ n \in 0 .. n
    BY <1>0
  <2> QED
    BY <1>2, <2>1
<1> QED
  BY <1>0, <1>1, <1>2, <1>3, <1>6, <1>7, <1>8 DEF longer

(* FlattenSeq of one sequence more, and of two joined.                      *)
LEMMA FlattenAppend ==
  ASSUME NEW S, NEW seqs \in Seq(Seq(S)), NEW s \in Seq(S)
  PROVE  /\ FlattenSeq(seqs) \in Seq(S)
         /\ FlattenSeq(Append(seqs, s)) = FlattenSeq(seqs) \o s
         /\ FlattenSeq(<< >>) = << >>
<1> DEFINE n == Len(seqs)
           longer == Append(seqs, s)
<1>0. n \in Nat /\ longer \in Seq(Seq(S)) /\ Len(longer) = n + 1 /\ longer[n + 1] = s /\ \A k \in 1 .. n : longer[k] = seqs[k]
  OBVIOUS
<1> HIDE DEF longer
<1>1. PICK f \in [0 .. n -> Seq(S)] : f[0] = <<>> /\ f[n] = FlattenSeq(seqs) /\ \A k \in 1 .. n : f[k] = f[k - 1] \o seqs[k]
  BY FlattenSteps
<1>2. PICK h \in [0 .. n + 1 -> Seq(S)] :
        h[0] = <<>> /\ h[n + 1] = FlattenSeq(longer) /\ \A k \in 1 .. n + 1 : h[k] = h[k - 1] \o longer[k]
  <2>1. \E h \in [0 .. Len(longer) -> Seq(S)] :
        h[0] = <<>> /\ h[Len(longer)] = FlattenSeq(longer) /\ \A k \in 1 .. Len(longer) : h[k] = h[k - 1] \o longer[k]
    BY <1>0, FlattenSteps
  <2> QED
    BY <1>0, <2>1
<1> DEFINE T == {k \in 0 .. n : f[k] # h[k]}
<1>3. T = {}
  <2> SUFFICES ASSUME T # {} PROVE FALSE
    OBVIOUS
  <2>1. PICK k \in T : \A j \in T : k <= j
    <3>1. T \subseteq Nat
      OBVIOUS
    <3> HIDE DEF T
    <3> QED
      BY <3>1, LeastNumber
  <2>2. k \in 0 .. n /\ f[k] # h[k]
    OBVIOUS
  <2>3. k # 0
    BY <1>1, <1>2, <2>2
  <2>4. k \in 1 .. n /\ k \in 1 .. n + 1 /\ k - 1 \in 0 .. n /\ ~(k <= k - 1)
    BY <1>0, <2>2, <2>3
  <2>5. f[k - 1] = h[k - 1]
    BY <2>1, <2>4
  <2> QED
    BY <1>0, <1>1, <1>2, <2>2, <2>4, <2>5
<1>4. f[n] = h[n] /\ f[n] \in Seq(S)
  <2>1. n \in 0 .. n
    BY <1>0
  <2> QED
    BY <1>3, <2>1
<1>5. h[n + 1] = h[n] \o s
  <2>1. n + 1 \in 1 .. n + 1 /\ (n + 1) - 1 = n
    BY <1>0
  <2> QED
    BY <1>0, <1>2, <2>1
<1>6. FlattenSeq(<< >>) = << >>
  BY DEF FlattenSeq
<1> HIDE DEF n
<1> QED
  BY <1>1, <1>2, <1>4, <1>5, <1>6 DEF longer

(* One more member makes a prefix the next one.                             *)
LEMMA PrefixGrows ==
  ASSUME NEW Q, NEW v \in Seq(Q), NEW k \in 1 .. Len(v)
  PROVE  /\ SubSeq(v, 1, k - 1) \in Seq(Q) /\ v[k] \in Q
         /\ SubSeq(v, 1, k) = Append(SubSeq(v, 1, k - 1), v[k])
<1> DEFINE w == SubSeq(v, 1, k - 1)
           x == SubSeq(v, 1, k)
           y == Append(w, v[k])
<1>1. Len(v) \in Nat /\ k \in Nat /\ k - 1 \in Nat /\ k <= Len(v)
  OBVIOUS
<1>2. w \in Seq(Q) /\ Len(w) = k - 1 /\ v[k] \in Q /\ x \in Seq(Q) /\ Len(x) = k
      /\ (\A i \in 1 .. k - 1 : w[i] = v[i]) /\ \A i \in 1 .. k : x[i] = v[i]
  BY <1>1
<1> HIDE DEF w, x
<1>3. y \in Seq(Q) /\ Len(y) = k /\ \A i \in 1 .. k : y[i] = v[i]
  BY <1>1, <1>2
<1> HIDE DEF y
<1>4. x = y
  BY <1>1, <1>2, <1>3
<1> QED
  BY <1>2, <1>4 DEF w, x, y

(* Appending after joining is joining what was appended to.                 *)
LEMMA JoinAppend ==
  ASSUME NEW Q, NEW u \in Seq(Q), NEW w \in Seq(Q), NEW s \in Q
  PROVE  u \o Append(w, s) = Append(u \o w, s) /\ u \o w \in Seq(Q)
OBVIOUS

(* Flattening two lists that are joined joins what they are flattened to.   *)
LEMMA FlattenJoined ==
  ASSUME NEW S, NEW u \in Seq(Seq(S)), NEW v \in Seq(Seq(S))
  PROVE  FlattenSeq(u \o v) = FlattenSeq(u) \o FlattenSeq(v)
<1> DEFINE n == Len(v)
           upto(k) == SubSeq(v, 1, k)
           T == {k \in 0 .. n : FlattenSeq(u \o upto(k)) # FlattenSeq(u) \o FlattenSeq(upto(k))}
<1>0. n \in Nat /\ FlattenSeq(u) \in Seq(S) /\ FlattenSeq(<< >>) = << >>
  <2>1. << >> \in Seq(S)
    OBVIOUS
  <2> QED
    BY <2>1, FlattenAppend
<1>1. T = {}
  <2> SUFFICES ASSUME T # {} PROVE FALSE
    OBVIOUS
  <2>1. PICK k \in T : \A j \in T : k <= j
    <3>1. T \subseteq Nat
      OBVIOUS
    <3> HIDE DEF T
    <3> QED
      BY <3>1, LeastNumber
  <2>2. k \in 0 .. n /\ FlattenSeq(u \o upto(k)) # FlattenSeq(u) \o FlattenSeq(upto(k))
    OBVIOUS
  <2>3. k # 0
    <3>1. upto(0) = << >>
      OBVIOUS
    <3>2. u \o << >> = u /\ FlattenSeq(u) \o << >> = FlattenSeq(u)
      BY <1>0
    <3> QED
      BY <1>0, <2>2, <3>1, <3>2
  <2>4. k \in 1 .. n /\ k - 1 \in 0 .. n /\ ~(k <= k - 1)
    BY <1>0, <2>2, <2>3
  <2>5. FlattenSeq(u \o upto(k - 1)) = FlattenSeq(u) \o FlattenSeq(upto(k - 1))
    BY <2>1, <2>4
  <2> DEFINE w == upto(k - 1)
             s == v[k]
  <2>6. w \in Seq(Seq(S)) /\ s \in Seq(S) /\ upto(k) = Append(w, s)
    <3> DEFINE Q == Seq(S)
    <3>1. v \in Seq(Q) /\ k \in 1 .. Len(v)
      BY <2>4
    <3> HIDE DEF Q
    <3>2. w \in Seq(Q) /\ s \in Q /\ upto(k) = Append(w, s)
      BY <3>1, PrefixGrows
    <3> QED
      BY <3>2 DEF Q
  <2>7. u \o upto(k) = Append(u \o w, s) /\ u \o w \in Seq(Seq(S))
    <3> HIDE DEF w, s, upto
    <3>1. u \o Append(w, s) = Append(u \o w, s) /\ u \o w \in Seq(Seq(S))
      BY <2>6, JoinAppend
    <3> QED
      BY <2>6, <3>1
  <2> HIDE DEF w, s, T
  <2>8. FlattenSeq(u \o upto(k)) = FlattenSeq(u \o w) \o s
    BY <2>6, <2>7, FlattenAppend
  <2>9. FlattenSeq(upto(k)) = FlattenSeq(w) \o s /\ FlattenSeq(w) \in Seq(S)
    BY <2>6, FlattenAppend
  <2>10. FlattenSeq(u \o w) = FlattenSeq(u) \o FlattenSeq(w)
    BY <2>5 DEF w
  <2>11. (FlattenSeq(u) \o FlattenSeq(w)) \o s = FlattenSeq(u) \o (FlattenSeq(w) \o s)
    <3> DEFINE x == FlattenSeq(u)
               y == FlattenSeq(w)
    <3>1. x \in Seq(S) /\ y \in Seq(S) /\ s \in Seq(S)
      BY <1>0, <2>6, <2>9
    <3> HIDE DEF x, y
    <3>2. (x \o y) \o s = x \o (y \o s)
      BY <3>1
    <3> QED
      BY <3>2 DEF x, y
  <2> QED
    BY <2>2, <2>8, <2>9, <2>10, <2>11
<1>2. n \in 0 .. n /\ upto(n) = v
  OBVIOUS
<1> QED
  BY <1>1, <1>2

Joins(f, seqs) ==
  /\ f[0] = << >> /\ f[Len(seqs)] = FlattenSeq(seqs)
  /\ \A k \in 1 .. Len(seqs) : f[k] = f[k - 1] \o seqs[k]

(* The stages of a flattening can be listed.                                *)
LEMMA JoinsExist ==
  ASSUME NEW S, NEW seqs \in Seq(Seq(S))
  PROVE  \E f \in [0 .. Len(seqs) -> Seq(S)] : Joins(f, seqs)
BY FlattenSteps DEF Joins

(* Parts that are each shared out stay shared out when they are joined.     *)
LEMMA FlattenParts ==
  ASSUME NEW S, NEW parts \in Seq(Seq(S)), NEW shares \in Seq(Seq(Seq(S))), Len(shares) = Len(parts),
         \A k \in 1 .. Len(parts) : FlattenSeq(shares[k]) = parts[k]
  PROVE  FlattenSeq(FlattenSeq(shares)) = FlattenSeq(parts)
<1> DEFINE n == Len(parts)
<1>0. n \in Nat /\ Len(shares) = n /\ \A k \in 1 .. n : parts[k] \in Seq(S) /\ shares[k] \in Seq(Seq(S))
  OBVIOUS
<1>1. PICK f \in [0 .. n -> Seq(S)] : f[0] = <<>> /\ f[n] = FlattenSeq(parts) /\ \A k \in 1 .. n : f[k] = f[k - 1] \o parts[k]
  <2>1. \E f \in [0 .. Len(parts) -> Seq(S)] : Joins(f, parts)
    BY JoinsExist
  <2> QED
    BY <2>1 DEF Joins
<1>2. PICK h \in [0 .. n -> Seq(Seq(S))] : h[0] = <<>> /\ h[n] = FlattenSeq(shares) /\ \A k \in 1 .. n : h[k] = h[k - 1] \o shares[k]
  <2> DEFINE Q == Seq(S)
  <2>1. shares \in Seq(Seq(Q))
    OBVIOUS
  <2> HIDE DEF Q
  <2>2. \E h \in [0 .. Len(shares) -> Seq(Q)] : Joins(h, shares)
    BY <2>1, JoinsExist
  <2> QED
    BY <1>0, <2>2 DEF Joins, Q
<1> HIDE DEF n
<1> DEFINE T == {k \in 0 .. n : FlattenSeq(h[k]) # f[k]}
<1>3. T = {}
  <2> SUFFICES ASSUME T # {} PROVE FALSE
    OBVIOUS
  <2>1. PICK k \in T : \A j \in T : k <= j
    <3>1. T \subseteq Nat
      OBVIOUS
    <3> HIDE DEF T
    <3> QED
      BY <3>1, LeastNumber
  <2>2. k \in 0 .. n /\ FlattenSeq(h[k]) # f[k]
    OBVIOUS
  <2>3. k # 0
    <3>1. FlattenSeq(<< >>) = << >>
      BY Zenon DEF FlattenSeq
    <3> QED
      BY <1>1, <1>2, <2>2, <3>1
  <2>4. k \in 1 .. n /\ k - 1 \in 0 .. n /\ ~(k <= k - 1)
    BY <1>0, <2>2, <2>3
  <2>5. FlattenSeq(h[k - 1]) = f[k - 1]
    BY <2>1, <2>4
  <2>6. h[k - 1] \in Seq(Seq(S)) /\ shares[k] \in Seq(Seq(S)) /\ h[k] = h[k - 1] \o shares[k] /\ f[k] = f[k - 1] \o parts[k]
        /\ FlattenSeq(shares[k]) = parts[k]
    BY <1>0, <1>1, <1>2, <2>4 DEF n
  <2>7. FlattenSeq(h[k - 1] \o shares[k]) = FlattenSeq(h[k - 1]) \o FlattenSeq(shares[k])
    BY <2>6, FlattenJoined
  <2> QED
    BY <2>2, <2>5, <2>6, <2>7
<1>4. n \in 0 .. n
  BY <1>0
<1> QED
  BY <1>1, <1>2, <1>3, <1>4

(* An interval lists its numbers.                                           *)
LEMMA IntervalFacts ==
  ASSUME NEW a \in Nat \ {0}, NEW b \in Nat, a <= b + 1
  PROVE  /\ Interval(a, b) \in Seq(a .. b) /\ Len(Interval(a, b)) = b - a + 1
         /\ \A k \in 1 .. b - a + 1 : Interval(a, b)[k] = a + k - 1
         /\ a <= b => Interval(a, b) # << >> /\ Range(Interval(a, b)) = a .. b
<1> DEFINE f == Interval(a, b)
           m == b - a + 1
<1>1. m \in Nat /\ f = [k \in 1 .. m |-> a + k - 1]
  BY DEF Interval
<1>2. \A k \in 1 .. m : a + k - 1 \in a .. b
  OBVIOUS
<1> HIDE DEF f, m
<1>3. f \in Seq(a .. b) /\ Len(f) = m /\ \A k \in 1 .. m : f[k] = a + k - 1
  BY <1>1, <1>2
<1>4. a <= b => f # << >> /\ Range(f) = a .. b
  <2> SUFFICES ASSUME a <= b PROVE f # << >> /\ Range(f) = a .. b
    OBVIOUS
  <2>1. m \in Nat \ {0}
    BY <1>1 DEF m
  <2>2. f # << >>
    BY <1>3, <2>1
  <2>3. ASSUME NEW x \in a .. b PROVE \E k \in DOMAIN f : f[k] = x
    <3> DEFINE k == x - a + 1
    <3>1. k \in 1 .. m /\ a + k - 1 = x
      BY DEF m
    <3> HIDE DEF k
    <3> QED
      BY <1>1, <1>3, <3>1
  <2>4. \A k \in DOMAIN f : f[k] \in a .. b
    BY <1>3
  <2> QED
    BY <2>2, <2>3, <2>4 DEF Range
<1> QED
  BY <1>3, <1>4 DEF f, m

(* What a joined sequence holds.                                            *)
LEMMA JoinFacts ==
  ASSUME NEW S, NEW u \in Seq(S), NEW v \in Seq(S)
  PROVE  /\ u \o v \in Seq(S) /\ Len(u \o v) = Len(u) + Len(v)
         /\ \A i \in 1 .. Len(u) : (u \o v)[i] = u[i]
         /\ \A i \in Len(u) + 1 .. Len(u) + Len(v) : (u \o v)[i] = v[i - Len(u)]
OBVIOUS

(* Two intervals that meet are one.                                         *)
LEMMA IntervalsJoin ==
  ASSUME NEW a \in Nat, NEW b \in Nat, a <= b
  PROVE  Interval(1, a) \o Interval(a + 1, b) = Interval(1, b)
<1> DEFINE f == Interval(1, a)
           g == Interval(a + 1, b)
           h == Interval(1, b)
           r == f \o g
<1>1. f \in Seq(Nat) /\ Len(f) = a /\ \A k \in 1 .. a : f[k] = k
  <2>1. f = [k \in 1 .. a |-> k]
    <3>1. a - 1 + 1 = a /\ \A k \in 1 .. a : 1 + k - 1 = k
      OBVIOUS
    <3> QED
      BY <3>1 DEF Interval
  <2> HIDE DEF f
  <2> QED
    BY <2>1
<1>2. g \in Seq(Nat) /\ Len(g) = b - a /\ \A k \in 1 .. b - a : g[k] = a + k
  <2>1. g = [k \in 1 .. b - a |-> a + k]
    <3>1. b - (a + 1) + 1 = b - a /\ \A k \in 1 .. b - a : (a + 1) + k - 1 = a + k
      OBVIOUS
    <3> QED
      BY <3>1 DEF Interval
  <2> HIDE DEF g
  <2>2. b - a \in Nat
    OBVIOUS
  <2> QED
    BY <2>1, <2>2
<1>3. h = [k \in 1 .. b |-> k]
  <2>1. b - 1 + 1 = b /\ \A k \in 1 .. b : 1 + k - 1 = k
    OBVIOUS
  <2> QED
    BY <2>1 DEF Interval
<1> HIDE DEF f, g, h
<1>4. r \in Seq(Nat) /\ Len(r) = b
  <2>1. r \in Seq(Nat) /\ Len(r) = Len(f) + Len(g)
    BY <1>1, <1>2, JoinFacts
  <2>2. a + (b - a) = b
    OBVIOUS
  <2> QED
    BY <1>1, <1>2, <2>1, <2>2
<1>5. ASSUME NEW k \in 1 .. b PROVE r[k] = k
  <2>1. CASE k <= a
    BY <1>1, <1>2, <2>1
  <2>2. CASE ~(k <= a)
    <3>1. k - a \in 1 .. b - a /\ g[k - a] = k
      BY <1>2, <2>2
    <3>2. r[k] = g[k - a]
      BY <1>1, <1>2, <2>2
    <3> QED
      BY <3>1, <3>2
  <2> QED
    BY <2>1, <2>2
<1> HIDE DEF r
<1>6. r = h
  BY <1>3, <1>4, <1>5
<1> QED
  BY <1>6 DEF r, f, g, h

(* Groups follow each other from the first atom to the last.                *)
LEMMA GroupsFacts ==
  ASSUME NEW n \in Nat \ {0}, NEW boundaries \in SUBSET (1 .. n - 1)
  PROVE  /\ Groups(n, boundaries) \in Seq(Seq(1 .. n) \ {<< >>})
         /\ FlattenSeq(Groups(n, boundaries)) = Interval(1, n)
         /\ \A g \in Range(Groups(n, boundaries)) : \E a, b \in 1 .. n : a <= b /\ g = Interval(a, b)
<1> DEFINE S == boundaries \cup {n}
           ends == Sorted(S, <)
           c == Cardinality(S)
           groups == Groups(n, boundaries)
           e == [k \in 0 .. c |-> IF k = 0 THEN 0 ELSE ends[k]]
<1>1. S \subseteq 1 .. n /\ S \subseteq Nat /\ n \in S /\ IsFiniteSet(S)
  <2>1. S \subseteq 1 .. n /\ n \in S
    OBVIOUS
  <2>2. IsFiniteSet(1 .. n)
    BY FS_Interval
  <2>3. S \in SUBSET (1 .. n)
    BY <2>1
  <2> HIDE DEF S
  <2>4. IsFiniteSet(S)
    BY <2>2, <2>3, FS_Subset
  <2> QED
    BY <2>1, <2>4
<1>2. /\ c \in Nat /\ DOMAIN ends = 1 .. c /\ ends \in [1 .. c -> S]
      /\ \A j, k \in 1 .. c : j < k => ends[j] < ends[k]
      /\ \A x \in S : \E k \in 1 .. c : ends[k] = x
  <2> HIDE DEF S
  <2> QED
    BY <1>1, SortedNumbers
<1>3. groups = [k \in 1 .. c |-> Interval(IF k = 1 THEN 1 ELSE ends[k - 1] + 1, ends[k])]
  BY <1>2 DEF Groups
<1> HIDE DEF S, ends, c, groups
<1>4. e[0] = 0 /\ \A k \in 1 .. c : e[k] \in 1 .. n /\ e[k - 1] \in 0 .. n /\ e[k - 1] < e[k] /\ e[k] \in S
  <2>0. c \in Nat /\ e[0] = 0 /\ \A k \in 1 .. c : e[k] = ends[k]
    BY <1>2
  <2> HIDE DEF e
  <2> SUFFICES ASSUME NEW k \in 1 .. c PROVE e[k] \in 1 .. n /\ e[k - 1] \in 0 .. n /\ e[k - 1] < e[k] /\ e[k] \in S
    BY <2>0
  <2>1. e[k] = ends[k] /\ ends[k] \in 1 .. n /\ ends[k] \in S
    BY <1>1, <1>2, <2>0
  <2>2. CASE k = 1
    BY <2>0, <2>1, <2>2
  <2>3. CASE k # 1
    <3>1. k - 1 \in 1 .. c /\ k - 1 < k /\ e[k - 1] = ends[k - 1]
      BY <2>0, <2>3
    <3>2. ends[k - 1] < ends[k] /\ ends[k - 1] \in 1 .. n
      BY <1>1, <1>2, <3>1
    <3> QED
      BY <2>1, <3>1, <3>2
  <2> QED
    BY <2>2, <2>3
<1>5. \A k \in 1 .. c : groups[k] = Interval(e[k - 1] + 1, e[k])
  <2> SUFFICES ASSUME NEW k \in 1 .. c PROVE groups[k] = Interval(e[k - 1] + 1, e[k])
    OBVIOUS
  <2>1. e[k] = ends[k] /\ (k # 1 => e[k - 1] = ends[k - 1]) /\ (k = 1 => e[k - 1] + 1 = 1)
    BY <1>2
  <2> HIDE DEF e
  <2> QED
    BY <1>3, <2>1
<1> HIDE DEF e
<1>6. ASSUME NEW k \in 1 .. c
      PROVE  groups[k] \in Seq(1 .. n) \ {<< >>} /\ \E a, b \in 1 .. n : a <= b /\ groups[k] = Interval(a, b)
  <2> DEFINE a == e[k - 1] + 1
             b == e[k]
  <2>1. a \in Nat \ {0} /\ b \in Nat /\ a \in 1 .. n /\ b \in 1 .. n /\ a <= b /\ a <= b + 1 /\ groups[k] = Interval(a, b)
    BY <1>4, <1>5
  <2> HIDE DEF a, b
  <2>2. Interval(a, b) \in Seq(a .. b) /\ Interval(a, b) # << >>
    BY <2>1, IntervalFacts
  <2>3. a .. b \subseteq 1 .. n
    BY <2>1
  <2> QED
    BY <2>1, <2>2, <2>3
<1>7. groups \in Seq(Seq(1 .. n) \ {<< >>}) /\ Len(groups) = c /\ DOMAIN groups = 1 .. c
  <2> DEFINE Q == Seq(1 .. n) \ {<< >>}
  <2>1. \A k \in 1 .. c : groups[k] \in Q
    BY <1>6
  <2> HIDE DEF Q
  <2>2. groups \in Seq(Q) /\ Len(groups) = c /\ DOMAIN groups = 1 .. c
    BY <1>2, <1>3, <2>1
  <2> QED
    BY <2>2 DEF Q
<1>8. e[c] = n /\ c \in 1 .. c
  <2>1. PICK k \in 1 .. c : ends[k] = n
    BY <1>1, <1>2
  <2>0. c \in 1 .. c
    BY <1>2, <2>1
  <2>2. c \in 1 .. c /\ ends[c] \in 1 .. n
    BY <1>1, <1>2, <2>0
  <2>3. k = c
    <3>1. k < c => ends[k] < ends[c]
      BY <1>2, <2>2
    <3> QED
      BY <1>2, <2>1, <2>2, <3>1
  <2> QED
    BY <1>2, <2>1, <2>2, <2>3 DEF e
<1>9. PICK f \in [0 .. c -> Seq(1 .. n)] : f[0] = << >> /\ f[c] = FlattenSeq(groups) /\ \A k \in 1 .. c : f[k] = f[k - 1] \o groups[k]
  <2>1. groups \in Seq(Seq(1 .. n))
    BY <1>7
  <2>2. \E f \in [0 .. Len(groups) -> Seq(1 .. n)] : Joins(f, groups)
    BY <2>1, JoinsExist
  <2> QED
    BY <1>7, <2>2 DEF Joins
<1> DEFINE T == {k \in 0 .. c : f[k] # Interval(1, e[k])}
<1>10. T = {}
  <2> SUFFICES ASSUME T # {} PROVE FALSE
    OBVIOUS
  <2>1. PICK k \in T : \A j \in T : k <= j
    <3>1. T \subseteq Nat
      OBVIOUS
    <3> HIDE DEF T
    <3> QED
      BY <3>1, LeastNumber
  <2>2. k \in 0 .. c /\ f[k] # Interval(1, e[k])
    OBVIOUS
  <2>3. k # 0
    <3>1. Interval(1, 0) = << >>
      BY DEF Interval
    <3> QED
      BY <1>4, <1>9, <2>2, <3>1
  <2>4. k \in 1 .. c /\ k - 1 \in 0 .. c /\ ~(k <= k - 1)
    BY <1>2, <2>2, <2>3
  <2>5. f[k - 1] = Interval(1, e[k - 1])
    BY <2>1, <2>4
  <2>6. e[k - 1] \in Nat /\ e[k] \in Nat /\ e[k - 1] <= e[k]
    BY <1>4, <2>4
  <2> HIDE DEF T
  <2>7. Interval(1, e[k - 1]) \o Interval(e[k - 1] + 1, e[k]) = Interval(1, e[k])
    BY <2>6, IntervalsJoin
  <2> QED
    BY <1>5, <1>9, <2>2, <2>4, <2>5, <2>7
<1>11. f[c] = Interval(1, n)
  <2>1. c \in 0 .. c
    BY <1>2
  <2> QED
    BY <1>8, <1>10, <2>1
<1>12. \A g \in Range(groups) : \E a, b \in 1 .. n : a <= b /\ g = Interval(a, b)
  BY <1>6, <1>7 DEF Range
<1> QED
  BY <1>7, <1>9, <1>11, <1>12 DEF groups

(* A boundary is chosen only between two atoms.                             *)
LEMMA SelectedInside ==
  ASSUME NEW atms, NEW similarity, Len(atms) \in Nat \ {0}
  PROVE  SelectedBoundaries(atms, similarity) \in SUBSET (1 .. Len(atms) - 1)
<1> DEFINE n == Len(atms) - 1
           St == SUBSET (1 .. Len(atms) - 1)
           Step(boundaries, i) ==
             IF /\ similarity[i] < BreakThreshold \/ OtherBlock(atms, i)
                /\ RespectsMinAtoms(i, boundaries, Len(atms))
               THEN boundaries \cup {i} ELSE boundaries
           ids == Interval(1, Len(atms) - 1)
           F == [p \in (1 .. n) \X St |-> Step(p[2], ids[p[1]])]
           Iterates(g) == g = [s \in SUBSET DOMAIN ids |->
                                 IF s = {} THEN {} ELSE Step(g[s \ {Max(s)}], ids[Max(s)])]
           iter == CHOOSE g : Iterates(g)
<1>1. n \in Nat /\ DOMAIN ids = 1 .. n /\ \A k \in 1 .. n : ids[k] \in 1 .. n
  <2>1. n \in Nat /\ n - 1 + 1 = n
    OBVIOUS
  <2> HIDE DEF n
  <2>2. ids = [k \in 1 .. n |-> 1 + k - 1]
    BY <2>1 DEF Interval, n
  <2> HIDE DEF ids
  <2> QED
    BY <2>1, <2>2
<1>2. SelectedBoundaries(atms, similarity) = iter[1 .. n]
  BY <1>1 DEF SelectedBoundaries, FoldLeft, MapThenFoldSet
<1>3. ASSUME NEW boundaries \in St, NEW i \in 1 .. n PROVE Step(boundaries, i) \in St
  OBVIOUS
<1>4. {} \in St
  OBVIOUS
<1> HIDE DEF Step, St, ids
<1>6. F \in [(1 .. n) \X St -> St] /\ \A i \in 1 .. n, m \in St : F[<<i, m>>] = Step(m, ids[i])
  BY <1>1, <1>3
<1> HIDE DEF F
<1>7. \E g : Iterates(g)
  <2>1. n \in Nat /\ {} \in St /\ F \in [(1 .. n) \X St -> St]
    BY <1>1, <1>4, <1>6
  <2>2. \E g \in [SUBSET (1 .. n) -> St] : Folded(g, n, {}, F)
    <3> HIDE DEF n
    <3> QED
      BY <2>1, FoldExists
  <2>3. PICK g \in [SUBSET (1 .. n) -> St] : Folded(g, n, {}, F)
    BY <2>2
  <2>4. \A s \in SUBSET (1 .. n) : g[s] = IF s = {} THEN {} ELSE Step(g[s \ {Max(s)}], ids[Max(s)])
    <3> SUFFICES ASSUME NEW s \in SUBSET (1 .. n), s # {} PROVE g[s] = Step(g[s \ {Max(s)}], ids[Max(s)])
      BY <2>3 DEF Folded
    <3>1. Max(s) \in 1 .. n /\ s \ {Max(s)} \in SUBSET (1 .. n)
      BY <2>1, MaxOfSubset
    <3>2. g[s \ {Max(s)}] \in St /\ g[s] = F[<<Max(s), g[s \ {Max(s)}]>>]
      BY <2>3, <3>1 DEF Folded
    <3> QED
      BY <1>6, <3>1, <3>2
  <2> HIDE DEF ids
  <2>5. Iterates(g)
    BY <1>1, <2>3, <2>4
  <2> QED
    BY <2>5
<1>8. Iterates(iter)
  <2> HIDE DEF Iterates
  <2> QED
    BY <1>7
<1>9. FoldedWithin(iter, n, {}, St, F)
  <2>1. iter[{}] = {} /\ \A s \in SUBSET (1 .. n) : s # {} => iter[s] = Step(iter[s \ {Max(s)}], ids[Max(s)])
    <3> HIDE DEF iter, ids
    <3> QED
      BY <1>1, <1>8
  <2> HIDE DEF iter
  <2>2. ASSUME NEW s \in SUBSET (1 .. n), s # {}, iter[s \ {Max(s)}] \in St
        PROVE  iter[s] = F[<<Max(s), iter[s \ {Max(s)}]>>]
    <3>1. Max(s) \in 1 .. n
      BY <1>1, <2>2, MaxOfSubset
    <3> QED
      BY <1>6, <2>1, <2>2, <3>1
  <2> QED
    BY <2>1, <2>2 DEF FoldedWithin
<1>10. \E h \in [0 .. n -> St] : Stepwise(h, iter, n, {}, F)
  <2>1. n \in Nat /\ {} \in St /\ F \in [(1 .. n) \X St -> St]
    BY <1>1, <1>4, <1>6
  <2> HIDE DEF n, iter
  <2> QED
    BY <1>9, <2>1, FoldSteps
<1>11. PICK h \in [0 .. n -> St] :
        h[0] = {} /\ h[n] = iter[1 .. n] /\ \A i \in 1 .. n : h[i] = F[<<i, h[i - 1]>>]
  BY <1>10 DEF Stepwise
<1>12. n \in 0 .. n
  BY <1>1
<1>13. h[n] \in St
  BY <1>12
<1> QED
  BY <1>2, <1>11, <1>13 DEF St

(* Numbers have a weakest link among those with a value.                    *)
LEMMA WeakestLink ==
  ASSUME NEW n \in Nat, NEW links \in SUBSET (1 .. n), links # {}, NEW v, \A i \in 1 .. n : v[i] \in Int
  PROVE  \E i \in links : \A j \in links : v[i] < v[j] \/ (v[i] = v[j] /\ i <= j)
<1> DEFINE Weakest(k) == \E i \in links : i <= k /\ \A j \in links : j <= k => v[i] < v[j] \/ (v[i] = v[j] /\ i <= j)
           T == {k \in 0 .. n : (\E i \in links : i <= k) /\ ~Weakest(k)}
<1>1. T = {}
  <2> SUFFICES ASSUME T # {} PROVE FALSE
    OBVIOUS
  <2>1. PICK k \in T : \A j \in T : k <= j
    <3>1. T \subseteq Nat
      OBVIOUS
    <3> HIDE DEF T
    <3> QED
      BY <3>1, LeastNumber
  <2>2. k \in 0 .. n /\ (\E i \in links : i <= k) /\ ~Weakest(k)
    OBVIOUS
  <2>3. k \in 1 .. n /\ k - 1 \in 0 .. n /\ ~(k <= k - 1)
    BY <2>2
  <2>4. (\E i \in links : i <= k - 1) => Weakest(k - 1)
    <3> HIDE DEF Weakest
    <3> QED
      BY <2>1, <2>3
  <2> HIDE DEF T
  <2>5. \A j \in links : j \in 1 .. n /\ v[j] \in Int /\ (j <= k <=> j <= k - 1 \/ j = k)
    BY <2>3
  <2>6. CASE ~ \E i \in links : i <= k - 1
    <3>1. k \in links /\ \A j \in links : j <= k => j = k
      BY <2>2, <2>5, <2>6
    <3> QED
      BY <2>2, <2>3, <2>5, <3>1
  <2>7. CASE \E i \in links : i <= k - 1
    <3>1. PICK i \in links : i <= k - 1 /\ \A j \in links : j <= k - 1 => v[i] < v[j] \/ (v[i] = v[j] /\ i <= j)
      BY <2>4, <2>7
    <3>2. i \in 1 .. n /\ i <= k /\ v[i] \in Int
      BY <2>3, <2>5, <3>1
    <3>3. CASE k \notin links \/ v[i] <= v[k]
      <4>1. \A j \in links : j <= k => v[i] < v[j] \/ (v[i] = v[j] /\ i <= j)
        BY <2>3, <2>5, <3>1, <3>2, <3>3
      <4> QED
        BY <2>2, <3>2, <4>1
    <3>4. CASE k \in links /\ v[k] < v[i]
      <4>1. v[k] \in Int
        BY <2>5, <3>4
      <4>2. \A j \in links : j <= k => v[k] < v[j] \/ (v[k] = v[j] /\ k <= j)
        <5> SUFFICES ASSUME NEW j \in links, j <= k PROVE v[k] < v[j] \/ (v[k] = v[j] /\ k <= j)
          OBVIOUS
        <5>1. j = k \/ j <= k - 1
          BY <2>5
        <5>2. j <= k - 1 => v[i] < v[j] \/ v[i] = v[j]
          BY <3>1
        <5>3. v[j] \in Int /\ k \in Nat
          BY <2>3, <2>5
        <5> QED
          BY <3>2, <3>4, <4>1, <5>1, <5>2, <5>3
      <4>3. Weakest(k)
        BY <2>3, <3>4, <4>2
      <4> QED
        BY <2>2, <4>3
    <3>5. k \in links => v[k] \in Int
      BY <2>5
    <3>6. k \notin links \/ v[i] <= v[k] \/ v[k] < v[i]
      BY <3>2, <3>5
    <3> QED
      BY <3>3, <3>4, <3>6
  <2> QED
    BY <2>6, <2>7
<1>2. n \in 0 .. n /\ \A j \in links : j <= n
  OBVIOUS
<1>3. Weakest(n)
  <2>1. \E i \in links : i <= n
    BY <1>2
  <2> HIDE DEF Weakest
  <2> QED
    BY <1>1, <1>2, <2>1
<1> QED
  BY <1>2, <1>3

(* Splitting groups that are too long only adds boundaries between atoms.   *)
LEMMA TargetInside ==
  ASSUME NEW atms, NEW similarity, Len(atms) \in Nat \ {0}, \A i \in 1 .. Len(atms) - 1 : similarity[i] \in Int,
         NEW boundaries \in SUBSET (1 .. Len(atms) - 1)
  PROVE  TargetSizeBoundaries(atms, similarity, boundaries) \in SUBSET (1 .. Len(atms) - 1)
<1> DEFINE n == Len(atms)
           Links(g) == {i \in Range(g) : i # g[Len(g)]}
           Weaker(i, j) == similarity[i] < similarity[j] \/ (similarity[i] = similarity[j] /\ i <= j)
           Chosen(g) == CHOOSE i \in Links(g) : \A j \in Links(g) : Weaker(i, j)
           Split == {g \in Range(Groups(n, boundaries)) : CharsOf(atms, g) > TargetChars /\ Len(g) > MinAtoms /\ Len(g) > 1}
<1>1. TargetSizeBoundaries(atms, similarity, boundaries) = {Chosen(g) : g \in Split}
  BY DEF TargetSizeBoundaries
<1>2. ASSUME NEW g \in Split PROVE Chosen(g) \in 1 .. n - 1
  <2>1. PICK a, b \in 1 .. n : a <= b /\ g = Interval(a, b)
    <3>1. n \in Nat \ {0} /\ boundaries \in SUBSET (1 .. n - 1)
      OBVIOUS
    <3>2. \A x \in Range(Groups(n, boundaries)) : \E a, b \in 1 .. n : a <= b /\ x = Interval(a, b)
      BY <3>1, GroupsFacts
    <3>3. g \in Range(Groups(n, boundaries))
      OBVIOUS
    <3> QED
      BY <3>2, <3>3
  <2>2. a \in Nat \ {0} /\ b \in Nat /\ a <= b + 1 /\ a \in 1 .. n /\ b \in 1 .. n
    BY <2>1
  <2>3. Len(g) > 1
    OBVIOUS
  <2> HIDE DEF Split
  <2>4. Len(g) = b - a + 1 /\ Range(g) = a .. b /\ \A k \in 1 .. b - a + 1 : g[k] = a + k - 1
    BY <2>1, <2>2, IntervalFacts
  <2>5. a < b /\ g[Len(g)] = b
    BY <2>2, <2>3, <2>4
  <2>6. Links(g) = a .. b - 1
    <3>1. Links(g) = {i \in a .. b : i # b}
      BY <2>4, <2>5
    <3>2. {i \in a .. b : i # b} = a .. b - 1
      BY <2>2, <2>5
    <3> QED
      BY <3>1, <3>2
  <2>7. Links(g) \in SUBSET (1 .. n - 1) /\ Links(g) # {} /\ n - 1 \in Nat
    <3>1. a \in a .. b - 1 /\ n - 1 \in Nat /\ a .. b - 1 \subseteq 1 .. n - 1
      BY <2>2, <2>5
    <3> HIDE DEF Links
    <3> QED
      BY <2>6, <3>1
  <2> DEFINE L == Links(g)
             m == n - 1
  <2>8. Chosen(g) = CHOOSE i \in L : \A j \in L : Weaker(i, j)
    OBVIOUS
  <2>9. L \in SUBSET (1 .. m) /\ L # {} /\ m \in Nat /\ \A i \in 1 .. m : similarity[i] \in Int
    BY <2>7
  <2> HIDE DEF L, m, Links
  <2>10. \E i \in L : \A j \in L : similarity[i] < similarity[j] \/ (similarity[i] = similarity[j] /\ i <= j)
    BY <2>9, WeakestLink
  <2>11. \E i \in L : \A j \in L : Weaker(i, j)
    BY <2>10
  <2> HIDE DEF Weaker
  <2>12. (CHOOSE i \in L : \A j \in L : Weaker(i, j)) \in L
    BY <2>11
  <2> HIDE DEF Chosen
  <2> QED
    BY <2>8, <2>9, <2>12 DEF m
<1> HIDE DEF Chosen, Split
<1> QED
  BY <1>1, <1>2

(* A sequence is its front and its last member.                             *)
LEMMA LastOfSeq ==
  ASSUME NEW Q, NEW s \in Seq(Q), s # << >>, NEW x \in Q
  PROVE  /\ Len(s) \in Nat \ {0} /\ s[Len(s)] \in Q
         /\ SubSeq(s, 1, Len(s) - 1) \in Seq(Q)
         /\ s = Append(SubSeq(s, 1, Len(s) - 1), s[Len(s)])
         /\ [s EXCEPT ![Len(s)] = x] = Append(SubSeq(s, 1, Len(s) - 1), x)
<1> DEFINE m == Len(s)
           w == SubSeq(s, 1, m - 1)
<1>1. m \in Nat \ {0} /\ m \in 1 .. m /\ s[m] \in Q /\ SubSeq(s, 1, m) = s
  OBVIOUS
<1>2. w \in Seq(Q) /\ s = Append(w, s[m])
  BY <1>1, PrefixGrows
<1>3. Len(w) = m - 1 /\ \A i \in 1 .. m - 1 : w[i] = s[i]
  BY <1>1
<1> DEFINE y == Append(w, x)
           z == [s EXCEPT ![m] = x]
<1>4. y \in Seq(Q) /\ Len(y) = m /\ y[m] = x /\ \A i \in 1 .. m - 1 : y[i] = s[i]
  <2> HIDE DEF w, m
  <2> QED
    BY <1>1, <1>2, <1>3
<1>5. z \in Seq(Q) /\ Len(z) = m /\ z[m] = x /\ \A i \in 1 .. m - 1 : z[i] = s[i]
  <2>1. DOMAIN s = 1 .. m /\ z = [i \in 1 .. m |-> IF i = m THEN x ELSE s[i]] /\ \A i \in 1 .. m : s[i] \in Q
    <3>1. DOMAIN s = 1 .. m /\ \A i \in 1 .. m : s[i] \in Q
      BY <1>1
    <3> HIDE DEF m
    <3>2. z = [i \in 1 .. m |-> IF i = m THEN x ELSE s[i]]
      BY <3>1
    <3> QED
      BY <3>1, <3>2
  <2> HIDE DEF z, m
  <2>2. \A i \in 1 .. m - 1 : i \in 1 .. m /\ i # m
    BY <1>1
  <2>3. \A i \in 1 .. m : z[i] \in Q
    BY <2>1
  <2> QED
    BY <1>1, <2>1, <2>2, <2>3
<1> HIDE DEF y, z, w
<1>6. y = z
  <2> HIDE DEF m
  <2>1. \A i \in 1 .. m : i \in 1 .. m - 1 \/ i = m
    BY <1>1
  <2>2. \A i \in 1 .. m : y[i] = z[i]
    BY <1>4, <1>5, <2>1
  <2> QED
    BY <1>4, <1>5, <2>2
<1> QED
  BY <1>1, <1>2, <1>6 DEF y, z, w

GoodSegments(atms) == {g \in Seq(DOMAIN atms) : g # << >> /\ CharsOf(atms, g) <= MaxChars}

(* A group that is filled again keeps its atoms, in segments that fit.      *)
LEMMA PackedFacts ==
  ASSUME NEW atms, NEW group \in Seq(DOMAIN atms), \A j \in DOMAIN atms : Length(atms[j]) \in 0 .. MaxAtomChars
  PROVE  Packed(atms, group) \in Seq(GoodSegments(atms)) /\ FlattenSeq(Packed(atms, group)) = group
<1> DEFINE D == DOMAIN atms
           n == Len(group)
           Q == GoodSegments(atms)
           St == Seq(Q)
           Over(packed, i) == packed = <<>> \/ CharsOf(atms, packed[Len(packed)]) + Length(atms[i]) > MaxChars
           Step(packed, i) ==
             IF packed = <<>> \/ CharsOf(atms, packed[Len(packed)]) + Length(atms[i]) > MaxChars
               THEN Append(packed, <<i>>)
               ELSE [packed EXCEPT ![Len(packed)] = Append(@, i)]
           ids == group
           F == [p \in (1 .. n) \X St |-> Step(p[2], ids[p[1]])]
           Iterates(g) == g = [s \in SUBSET DOMAIN ids |->
                                 IF s = {} THEN << >> ELSE Step(g[s \ {Max(s)}], ids[Max(s)])]
           iter == CHOOSE g : Iterates(g)
<1>1. n \in Nat /\ DOMAIN ids = 1 .. n /\ (\A k \in 1 .. n : ids[k] \in D) /\ group \in Seq(D)
  OBVIOUS
<1>2. Packed(atms, group) = iter[1 .. n]
  BY DEF Packed, FoldLeft, MapThenFoldSet
<1> HIDE DEF D
<1>0. \A j \in D : Length(atms[j]) \in Nat /\ Length(atms[j]) <= MaxChars
  BY SegmentationAssumption DEF SegmentationAssumption, D
<1>3. ASSUME NEW packed \in St, NEW i \in D
      PROVE  Step(packed, i) \in St /\ packed \in Seq(Seq(D)) /\ FlattenSeq(Step(packed, i)) = FlattenSeq(packed) \o << i >>
  <2>1. packed \in Seq(Seq(D)) /\ Q \subseteq Seq(D) /\ \A g \in Q : g \in Seq(D) /\ g # << >> /\ CharsOf(atms, g) <= MaxChars
    BY DEF D, GoodSegments
  <2>2. ASSUME NEW g \in Seq(D)
        PROVE  CharsOf(atms, g) \in Nat /\ CharsOf(atms, Append(g, i)) = CharsOf(atms, g) + Length(atms[i]) /\ CharsOf(atms, << >>) = 0
    BY <1>0, CharsGrow DEF D
  <2>3. << i >> = Append(<< >>, i) /\ << >> \in Seq(D) /\ << i >> \in Seq(D) /\ << i >> # << >>
    OBVIOUS
  <2>4. << i >> \in Q
    <3>1. CharsOf(atms, << i >>) = 0 + Length(atms[i])
      BY <2>2, <2>3
    <3>2. CharsOf(atms, << i >>) <= MaxChars
      BY <1>0, <3>1
    <3> QED
      BY <2>3, <3>2 DEF GoodSegments, D
  <2>5. CASE Over(packed, i)
    <3>1. Step(packed, i) = Append(packed, << i >>)
      BY <2>5
    <3> HIDE DEF Step, Q
    <3>2. Append(packed, << i >>) \in Seq(Q)
      BY <2>4
    <3>3. FlattenSeq(Append(packed, << i >>)) = FlattenSeq(packed) \o << i >>
      BY <2>1, <2>3, FlattenAppend
    <3> QED
      BY <2>1, <3>1, <3>2, <3>3 DEF Q
  <2>6. CASE ~Over(packed, i)
    <3> DEFINE m == Len(packed)
               last == packed[m]
               front == SubSeq(packed, 1, m - 1)
               longer == Append(last, i)
    <3>1. Step(packed, i) = [packed EXCEPT ![m] = longer] /\ packed # << >> /\ CharsOf(atms, last) + Length(atms[i]) <= MaxChars
      <4>1. packed # << >>
        BY <2>6
      <4>2. last \in Q
        <5> HIDE DEF Q
        <5> QED
          BY <4>1
      <4>3. CharsOf(atms, last) \in Nat /\ Length(atms[i]) \in Nat /\ MaxChars \in Nat
        BY <1>0, <2>1, <2>2, <4>2, SegmentationAssumption DEF SegmentationAssumption
      <4> QED
        BY <2>6, <4>1, <4>3
    <3> HIDE DEF Step, Q, Over
    <3>2. m \in Nat \ {0} /\ last \in Q /\ last \in Seq(D)
      BY <2>1, <3>1
    <3>3. longer \in Q
      <4>1. longer \in Seq(D) /\ longer # << >>
        <5> HIDE DEF last
        <5> QED
          BY <3>2
      <4>2. CharsOf(atms, longer) <= MaxChars
        BY <2>2, <3>1, <3>2
      <4> QED
        BY <4>1, <4>2 DEF Q, D, GoodSegments
    <3>4. front \in Seq(Q) /\ packed = Append(front, last) /\ [packed EXCEPT ![m] = longer] = Append(front, longer)
      <4>1. packed \in Seq(Q) /\ packed # << >>
        BY <3>1
      <4> HIDE DEF longer
      <4> QED
        BY <3>3, <4>1, LastOfSeq
    <3> HIDE DEF front
    <3>5. Step(packed, i) = Append(front, longer) /\ Append(front, longer) \in Seq(Q)
      BY <3>1, <3>3, <3>4
    <3>6. front \in Seq(Seq(D)) /\ longer \in Seq(D)
      BY <2>1, <3>3, <3>4
    <3> HIDE DEF last
    <3>7. FlattenSeq(Append(front, last)) = FlattenSeq(front) \o last /\ FlattenSeq(front) \in Seq(D)
      BY <3>2, <3>6, FlattenAppend
    <3>8. FlattenSeq(Append(front, longer)) = FlattenSeq(front) \o longer
      BY <3>6, FlattenAppend
    <3>9. FlattenSeq(front) \o Append(last, i) = (FlattenSeq(front) \o last) \o << i >>
      <4> DEFINE x == FlattenSeq(front)
      <4>1. x \in Seq(D)
        BY <3>7
      <4> HIDE DEF x
      <4>2. x \o Append(last, i) = (x \o last) \o << i >>
        BY <3>2, <4>1
      <4> QED
        BY <4>2 DEF x
    <3> QED
      BY <2>1, <3>4, <3>5, <3>7, <3>8, <3>9 DEF Q
  <2> QED
    BY <2>5, <2>6
<1>4. << >> \in St
  OBVIOUS
<1> HIDE DEF Step, St, ids
<1>6. F \in [(1 .. n) \X St -> St] /\ \A i \in 1 .. n, m \in St : F[<<i, m>>] = Step(m, ids[i])
  BY <1>1, <1>3
<1> HIDE DEF F
<1>7. \E g : Iterates(g)
  <2>1. n \in Nat /\ <<>> \in St /\ F \in [(1 .. n) \X St -> St]
    BY <1>1, <1>4, <1>6
  <2>2. \E g \in [SUBSET (1 .. n) -> St] : Folded(g, n, <<>>, F)
    <3> HIDE DEF n
    <3> QED
      BY <2>1, FoldExists
  <2>3. PICK g \in [SUBSET (1 .. n) -> St] : Folded(g, n, <<>>, F)
    BY <2>2
  <2>4. \A s \in SUBSET (1 .. n) : g[s] = IF s = {} THEN <<>> ELSE Step(g[s \ {Max(s)}], ids[Max(s)])
    <3> SUFFICES ASSUME NEW s \in SUBSET (1 .. n), s # {} PROVE g[s] = Step(g[s \ {Max(s)}], ids[Max(s)])
      BY <2>3 DEF Folded
    <3>1. Max(s) \in 1 .. n /\ s \ {Max(s)} \in SUBSET (1 .. n)
      BY <2>1, MaxOfSubset
    <3>2. g[s \ {Max(s)}] \in St /\ g[s] = F[<<Max(s), g[s \ {Max(s)}]>>]
      BY <2>3, <3>1 DEF Folded
    <3> QED
      BY <1>6, <3>1, <3>2
  <2> HIDE DEF ids
  <2>5. Iterates(g)
    BY <1>1, <2>3, <2>4
  <2> QED
    BY <2>5
<1>8. Iterates(iter)
  <2> HIDE DEF Iterates
  <2> QED
    BY <1>7
<1>9. FoldedWithin(iter, n, <<>>, St, F)
  <2>1. iter[{}] = <<>> /\ \A s \in SUBSET (1 .. n) : s # {} => iter[s] = Step(iter[s \ {Max(s)}], ids[Max(s)])
    <3> HIDE DEF iter, ids
    <3> QED
      BY <1>1, <1>8
  <2> HIDE DEF iter
  <2>2. ASSUME NEW s \in SUBSET (1 .. n), s # {}, iter[s \ {Max(s)}] \in St
        PROVE  iter[s] = F[<<Max(s), iter[s \ {Max(s)}]>>]
    <3>1. Max(s) \in 1 .. n
      BY <1>1, <2>2, MaxOfSubset
    <3> QED
      BY <1>6, <2>1, <2>2, <3>1
  <2> QED
    BY <2>1, <2>2 DEF FoldedWithin
<1>10. \E h \in [0 .. n -> St] : Stepwise(h, iter, n, <<>>, F)
  <2>1. n \in Nat /\ <<>> \in St /\ F \in [(1 .. n) \X St -> St]
    BY <1>1, <1>4, <1>6
  <2> HIDE DEF n, iter
  <2> QED
    BY <1>9, <2>1, FoldSteps
<1>11. PICK h \in [0 .. n -> St] :
        h[0] = <<>> /\ h[n] = iter[1 .. n] /\ \A i \in 1 .. n : h[i] = F[<<i, h[i - 1]>>]
  BY <1>10 DEF Stepwise
<1>12. h[n] \in St
  <2>1. n \in 0 .. n
    BY <1>1
  <2> QED
    BY <2>1
<1>13. \A k \in 1 .. n : h[k - 1] \in St /\ ids[k] \in D /\ h[k] = Step(h[k - 1], ids[k])
  <2> SUFFICES ASSUME NEW k \in 1 .. n PROVE h[k - 1] \in St /\ ids[k] \in D /\ h[k] = Step(h[k - 1], ids[k])
    OBVIOUS
  <2>1. k - 1 \in 0 .. n /\ h[k - 1] \in St
    BY <1>1
  <2> QED
    BY <1>1, <1>6, <1>11, <2>1
<1> DEFINE T == {k \in 0 .. n : FlattenSeq(h[k]) # SubSeq(group, 1, k)}
<1>14. T = {}
  <2> SUFFICES ASSUME T # {} PROVE FALSE
    OBVIOUS
  <2>1. PICK k \in T : \A j \in T : k <= j
    <3>1. T \subseteq Nat
      OBVIOUS
    <3> HIDE DEF T
    <3> QED
      BY <3>1, LeastNumber
  <2>2. k \in 0 .. n /\ FlattenSeq(h[k]) # SubSeq(group, 1, k)
    OBVIOUS
  <2>3. k # 0
    <3>1. FlattenSeq(<< >>) = << >>
      BY Zenon DEF FlattenSeq
    <3>3. SubSeq(group, 1, 0) = << >>
      OBVIOUS
    <3> QED
      BY <1>11, <2>2, <3>1, <3>3
  <2>4. k \in 1 .. n /\ k - 1 \in 0 .. n /\ ~(k <= k - 1)
    BY <1>1, <2>2, <2>3
  <2>5. FlattenSeq(h[k - 1]) = SubSeq(group, 1, k - 1)
    BY <2>1, <2>4
  <2> HIDE DEF T
  <2>6. FlattenSeq(h[k]) = FlattenSeq(h[k - 1]) \o << ids[k] >>
    BY <1>3, <1>13, <2>4
  <2>7. SubSeq(group, 1, k - 1) \in Seq(D) /\ SubSeq(group, 1, k) = Append(SubSeq(group, 1, k - 1), group[k]) /\ group[k] \in D
    BY <1>1, <2>4, PrefixGrows
  <2>8. Append(SubSeq(group, 1, k - 1), group[k]) = SubSeq(group, 1, k - 1) \o << group[k] >>
    BY <2>7
  <2> QED
    BY <2>2, <2>5, <2>6, <2>7, <2>8 DEF ids
<1>15. n \in 0 .. n /\ SubSeq(group, 1, n) = group
  BY <1>1
<1> QED
  BY <1>2, <1>11, <1>12, <1>14, <1>15 DEF St

(* What is done to a group that is too long.                                *)
LEMMA EnforcedFacts ==
  ASSUME NEW atms, NEW groups \in Seq(Seq(DOMAIN atms) \ {<< >>}), \A j \in DOMAIN atms : Length(atms[j]) \in 0 .. MaxAtomChars
  PROVE  /\ EnforceMaxChars(atms, groups) \in Seq(GoodSegments(atms))
         /\ FlattenSeq(EnforceMaxChars(atms, groups)) = FlattenSeq(groups)
<1> DEFINE D == DOMAIN atms
           n == Len(groups)
           Q == GoodSegments(atms)
           shares == [k \in DOMAIN groups |-> IF CharsOf(atms, groups[k]) <= MaxChars THEN <<groups[k]>> ELSE Packed(atms, groups[k])]
<1>1. EnforceMaxChars(atms, groups) = FlattenSeq(shares)
  BY DEF EnforceMaxChars
<1>2. n \in Nat /\ DOMAIN groups = 1 .. n /\ \A k \in 1 .. n : groups[k] \in Seq(D) /\ groups[k] # << >>
  OBVIOUS
<1>3. ASSUME NEW k \in 1 .. n
      PROVE  shares[k] \in Seq(Q) /\ FlattenSeq(shares[k]) = groups[k]
  <2>1. CASE CharsOf(atms, groups[k]) <= MaxChars
    <3>1. shares[k] = << groups[k] >> /\ groups[k] \in Q /\ groups[k] \in Seq(D)
      BY <1>2, <2>1 DEF GoodSegments
    <3>2. << groups[k] >> = Append(<< >>, groups[k]) /\ << >> \in Seq(Seq(D))
      OBVIOUS
    <3>3. FlattenSeq(Append(<< >>, groups[k])) = FlattenSeq(<< >>) \o groups[k] /\ FlattenSeq(<< >>) = << >>
      BY <3>1, <3>2, FlattenAppend
    <3>4. << >> \o groups[k] = groups[k] /\ << groups[k] >> \in Seq(Q)
      BY <3>1
    <3> QED
      BY <3>1, <3>2, <3>3, <3>4
  <2>2. CASE ~(CharsOf(atms, groups[k]) <= MaxChars)
    <3>1. shares[k] = Packed(atms, groups[k])
      BY <1>2, <2>2
    <3> QED
      BY <1>2, <3>1, PackedFacts
  <2> QED
    BY <2>1, <2>2
<1>4. DOMAIN shares = 1 .. n /\ shares = [k \in 1 .. n |-> shares[k]]
  BY <1>2
<1> HIDE DEF shares
<1>5. shares \in Seq(Seq(Q)) /\ Len(shares) = n
  <2> HIDE DEF Q
  <2> DEFINE QQ == Seq(Q)
  <2>1. \A k \in 1 .. n : shares[k] \in QQ
    BY <1>3
  <2> HIDE DEF QQ
  <2>2. shares \in Seq(QQ) /\ Len(shares) = n
    BY <1>2, <1>4, <2>1
  <2> QED
    BY <2>2 DEF QQ
<1>6. FlattenSeq(shares) \in Seq(Q)
  <2> HIDE DEF Q
  <2>1. << >> \in Seq(Q)
    OBVIOUS
  <2> QED
    BY <1>5, <2>1, FlattenAppend
<1>7. shares \in Seq(Seq(Seq(D))) /\ groups \in Seq(Seq(D))
  <2> DEFINE R == Seq(D)
  <2>1. \A k \in 1 .. n : shares[k] \in Seq(R) /\ groups[k] \in R
    <3>1. Q \subseteq R
      BY DEF GoodSegments
    <3> HIDE DEF Q, R
    <3> QED
      BY <1>2, <1>3, <3>1 DEF R
  <2> DEFINE RR == Seq(R)
  <2>2. \A k \in 1 .. n : shares[k] \in RR
    BY <2>1
  <2> HIDE DEF RR, R
  <2>3. shares \in Seq(RR)
    BY <1>2, <1>4, <2>2
  <2>4. groups \in Seq(R)
    BY <1>2, <2>1 DEF R
  <2> QED
    BY <2>3, <2>4 DEF RR, R
<1>8. FlattenSeq(FlattenSeq(shares)) = FlattenSeq(groups)
  <2> HIDE DEF D, n
  <2>1. Len(shares) = Len(groups) /\ \A k \in 1 .. Len(groups) : FlattenSeq(shares[k]) = groups[k]
    BY <1>3, <1>5 DEF n
  <2> QED
    BY <1>7, <2>1, FlattenParts
<1> QED
  BY <1>1, <1>6, <1>8

(* Atoms are put into segments that fit, each atom once, in order.          *)
SegmentsFit(atms, segs) ==
  segs \in Seq(GoodSegments(atms)) /\ FlattenSeq(segs) = Interval(1, Len(atms))

(* However alike the atoms are, each of them is in one segment, in order, and no segment*)
(* is above the maximum. segmenter/builder.py:19                            *)
LEMMA SegmentsFacts ==
  ASSUME NEW A, NEW atms \in Seq(A), atms # << >>, \A j \in DOMAIN atms : Length(atms[j]) \in 0 .. MaxAtomChars
  PROVE  /\ SegmentsFit(atms, FallbackSegments(atms))
         /\ \A similarity : (\A i \in 1 .. Len(atms) - 1 : similarity[i] \in Int) => SegmentsFit(atms, SemanticSegments(atms, similarity))
<1> DEFINE n == Len(atms)
<1>1. n \in Nat \ {0} /\ DOMAIN atms = 1 .. n
  OBVIOUS
<1>2. ASSUME NEW boundaries \in SUBSET (1 .. n - 1)
      PROVE  SegmentsFit(atms, EnforceMaxChars(atms, Groups(n, boundaries)))
  <2> DEFINE groups == Groups(n, boundaries)
  <2>1. groups \in Seq(Seq(1 .. n) \ {<< >>}) /\ FlattenSeq(groups) = Interval(1, n)
    BY <1>1, GroupsFacts
  <2> HIDE DEF groups
  <2>2. groups \in Seq(Seq(DOMAIN atms) \ {<< >>})
    BY <1>1, <2>1
  <2>3. /\ EnforceMaxChars(atms, groups) \in Seq(GoodSegments(atms))
        /\ FlattenSeq(EnforceMaxChars(atms, groups)) = FlattenSeq(groups)
    BY <2>2, EnforcedFacts
  <2> QED
    BY <2>1, <2>3 DEF SegmentsFit, groups
<1>3. {i \in 1 .. n - 1 : OtherBlock(atms, i)} \in SUBSET (1 .. n - 1)
  OBVIOUS
<1>4. SegmentsFit(atms, FallbackSegments(atms))
  BY <1>2, <1>3 DEF FallbackSegments
<1>5. ASSUME NEW similarity, \A i \in 1 .. n - 1 : similarity[i] \in Int
      PROVE  SegmentsFit(atms, SemanticSegments(atms, similarity))
  <2> DEFINE selected == SelectedBoundaries(atms, similarity)
             more == TargetSizeBoundaries(atms, similarity, selected)
  <2>1. selected \in SUBSET (1 .. n - 1)
    BY <1>1, SelectedInside
  <2> HIDE DEF selected
  <2>2. more \in SUBSET (1 .. n - 1)
    BY <1>1, <1>5, <2>1, TargetInside
  <2> HIDE DEF more
  <2>3. selected \cup more \in SUBSET (1 .. n - 1)
    BY <2>1, <2>2
  <2>4. SemanticSegments(atms, similarity) = EnforceMaxChars(atms, Groups(n, selected \cup more))
    BY DEF SemanticSegments, selected, more
  <2> QED
    BY <1>2, <2>3, <2>4
<1> QED
  BY <1>4, <1>5

-------------------------------------------------------------------------------
(***************************************************************************)
(* The text that is looked at, in its segments.                            *)
(***************************************************************************)
Evaluating == {"embed", "segment", "map", "pool", "classify", "verify"}

SegmentsHold ==
  /\ stage = "received" => segments = << >>
  /\ stage \in Evaluating => atoms = Atoms(Document) /\ atoms # << >>
  /\ stage # "scan" /\ segments # << >> => atoms = Atoms(Document) /\ SegmentsFit(atoms, segments)

(* The text looked at is a document.                                        *)
LEMMA DocumentLookedAt ==
  ASSUME RequestFits
  PROVE  DocumentFits(Document)
<1>1. Document \in Range(documents)
  BY DEF RequestFits, Document, Range, IsSequence
<1> QED
  BY <1>1 DEF RequestFits, DocumentFits

(* The atoms of the text looked at are not too long.                        *)
LEMMA AtomLengths ==
  ASSUME RequestFits
  PROVE  /\ Atoms(Document) \in Seq(AtomsOf(Document))
         /\ \A j \in DOMAIN Atoms(Document) : Length(Atoms(Document)[j]) \in 0 .. MaxAtomChars
<1>1. Atoms(Document) \in Seq(AtomsOf(Document))
  BY DocumentLookedAt, AtomsFacts
<1>2. ASSUME NEW a \in AtomsOf(Document) PROVE Length(a) \in 0 .. MaxAtomChars
  <2>1. a.range.start \in Nat /\ a.range.end \in Nat /\ a.range.start < a.range.end /\ a.range.end - a.range.start <= MaxAtomChars
        /\ MaxAtomChars \in Nat
    BY SegmentationAssumption DEF AtomsOf, TextRanges, Length, SegmentationAssumption
  <2> QED
    BY <2>1 DEF Length
<1>3. \A j \in DOMAIN Atoms(Document) : Atoms(Document)[j] \in AtomsOf(Document)
  BY <1>1
<1> QED
  BY <1>1, <1>2, <1>3

(* What the other actions leave of a text that is looked at.                *)
LEMMA TextStays ==
  ASSUME [PipelineNext]_pipelineVars, ~Scan, stage' # "scan"
  PROVE  /\ documents' = documents /\ setting' = setting /\ at' = at /\ atoms' = atoms /\ Document' = Document
         /\ segments' = segments \/ BuildSegments
         /\ mapped' = mapped \/ Map
         /\ read' = read \/ Classify
         /\ stage # "scan"
         /\ stage' \in Evaluating => stage \in Evaluating
         /\ stage' = "received" => stage = "received"
<1> USE DEF PipelineNext, pipelineVars, request, perText, results, Match, EmbedFails, EmbedBatch, BuildSegments, Map,
            PoolVectors, ClassifierFails, Classify, VerifierFails, Verify, Fails, NextText, Evaluating
<1>1. documents' = documents /\ setting' = setting /\ at' = at /\ atoms' = atoms
  OBVIOUS
<1>2. Document' = Document
  BY <1>1 DEF Document
<1>3. /\ segments' = segments \/ BuildSegments
      /\ mapped' = mapped \/ Map
      /\ read' = read \/ Classify
  OBVIOUS
<1>4. stage # "scan" /\ (stage' \in Evaluating => stage \in Evaluating) /\ (stage' = "received" => stage = "received")
  OBVIOUS
<1> QED
  BY <1>1, <1>2, <1>3, <1>4

(* The segments are of the atoms of the text looked at.                     *)
LEMMA SegmentsStay ==
  /\ PipelineInit => SegmentsHold
  /\ RequestFits /\ SegmentsHold /\ [PipelineNext]_pipelineVars => SegmentsHold'
<1>1. ASSUME PipelineInit PROVE SegmentsHold
  BY <1>1 DEF PipelineInit, SegmentsHold, Evaluating
<1>2. ASSUME RequestFits, SegmentsHold, [PipelineNext]_pipelineVars PROVE SegmentsHold'
  <2>1. CASE stage' = "scan"
    BY <2>1 DEF SegmentsHold, Evaluating
  <2>2. CASE Scan /\ stage' # "scan"
    <3>1. segments' = << >> /\ atoms' = Atoms(Document) /\ documents' = documents /\ at' = at
      BY <2>2 DEF Scan, NextText, request
    <3>2. Document' = Document
      BY <3>1 DEF Document
    <3>3. stage' \in Evaluating => atoms' # << >>
      BY <2>2 DEF Scan, NextText, Fails, Evaluating
    <3> QED
      BY <3>1, <3>2, <3>3 DEF SegmentsHold
  <2>3. CASE BuildSegments
    <3>1. stage = "segment" /\ atoms' = atoms /\ documents' = documents /\ at' = at
      BY <2>3 DEF BuildSegments, request
    <3>2. Document' = Document /\ atoms = Atoms(Document) /\ atoms # << >>
      BY <1>2, <3>1 DEF Document, SegmentsHold, Evaluating
    <3>3. /\ SegmentsFit(atoms, FallbackSegments(atoms))
          /\ \A similarity : (\A i \in 1 .. Len(atoms) - 1 : similarity[i] \in Int) => SegmentsFit(atoms, SemanticSegments(atoms, similarity))
      BY <1>2, <3>2, AtomLengths, SegmentsFacts
    <3>4. \/ segments' = FallbackSegments(atoms)
          \/ \E similarity \in [1 .. Len(atoms) - 1 -> Similarities] : segments' = SemanticSegments(atoms, similarity)
      BY <2>3 DEF BuildSegments
    <3>5. SegmentsFit(atoms, segments')
      <4>1. CASE segments' = FallbackSegments(atoms)
        BY <3>3, <4>1
      <4>2. CASE \E similarity \in [1 .. Len(atoms) - 1 -> Similarities] : segments' = SemanticSegments(atoms, similarity)
        <5>1. PICK similarity \in [1 .. Len(atoms) - 1 -> Similarities] : segments' = SemanticSegments(atoms, similarity)
          BY <4>2
        <5>2. \A i \in 1 .. Len(atoms) - 1 : similarity[i] \in Int
          BY PipelineAssumption DEF PipelineAssumption
        <5> QED
          BY <3>3, <5>1, <5>2
      <4> QED
        BY <3>4, <4>1, <4>2
    <3>6. stage' # "received"
      BY <2>3 DEF BuildSegments, Fails
    <3> QED
      BY <3>1, <3>2, <3>5, <3>6 DEF SegmentsHold
  <2>4. CASE ~Scan /\ ~BuildSegments /\ stage' # "scan"
    <3>1. /\ atoms' = atoms /\ Document' = Document /\ segments' = segments /\ stage # "scan"
          /\ stage' \in Evaluating => stage \in Evaluating
          /\ stage' = "received" => stage = "received"
      BY <1>2, <2>4, TextStays
    <3> QED
      BY <1>2, <3>1 DEF SegmentsHold
  <2> QED
    BY <2>1, <2>2, <2>3, <2>4
<1> QED
  BY <1>1, <1>2

(* So every character that is no blank is in one segment.                   *)
LEMMA CharactersInSegments ==
  RequestFits /\ SegmentsHold => EveryCharacterInOneSegment
<1> SUFFICES ASSUME RequestFits, SegmentsHold, stage # "scan", segments # << >>
             PROVE  /\ \A b \in DOMAIN Document : \A i \in Ink(Document[b].text, Whole(Document[b].text)) :
                         Cardinality({k \in DOMAIN atoms : atoms[k].block = b /\ i \in Positions(atoms[k].range)}) = 1
                    /\ \A j, k \in DOMAIN atoms : (j < k /\ atoms[j].block = atoms[k].block) => atoms[j].range.end <= atoms[k].range.start
                    /\ FlattenSeq(segments) = Interval(1, Len(atoms))
                    /\ \A k \in DOMAIN segments : segments[k] # << >> /\ CharsOf(atoms, segments[k]) <= MaxChars
  BY DEF EveryCharacterInOneSegment
<1>1. SegmentsFit(atoms, segments) /\ atoms = Atoms(Document)
  BY DEF SegmentsHold
<1>2. /\ atoms \in Seq(AtomsOf(Document))
      /\ InSourceOrder(atoms)
      /\ \A b \in DOMAIN Document : \A i \in Ink(Document[b].text, Whole(Document[b].text)) :
           \E k \in DOMAIN atoms : atoms[k].block = b /\ i \in Positions(atoms[k].range)
  BY <1>1, DocumentLookedAt, AtomsFacts
<1>3. \A k \in DOMAIN atoms : k \in Nat /\ atoms[k].range.start \in Nat /\ atoms[k].range.end \in Nat
  BY <1>2 DEF AtomsOf
<1>4. ASSUME NEW b \in DOMAIN Document, NEW i \in Ink(Document[b].text, Whole(Document[b].text))
      PROVE  Cardinality({k \in DOMAIN atoms : atoms[k].block = b /\ i \in Positions(atoms[k].range)}) = 1
  <2>1. PICK k \in DOMAIN atoms : atoms[k].block = b /\ i \in Positions(atoms[k].range)
    BY <1>2
  <2>2. ASSUME NEW j \in DOMAIN atoms, atoms[j].block = b, i \in Positions(atoms[j].range) PROVE j = k
    <3>1. i \in atoms[j].range.start + 1 .. atoms[j].range.end /\ i \in atoms[k].range.start + 1 .. atoms[k].range.end
      BY <2>1, <2>2 DEF Positions
    <3>2. ~(j < k)
      <4>1. j < k => atoms[j].range.end <= atoms[k].range.start
        BY <1>2, <2>1, <2>2 DEF InSourceOrder
      <4> QED
        BY <1>3, <3>1, <4>1
    <3>3. ~(k < j)
      <4>1. k < j => atoms[k].range.end <= atoms[j].range.start
        BY <1>2, <2>1, <2>2 DEF InSourceOrder
      <4> QED
        BY <1>3, <3>1, <4>1
    <3> QED
      BY <1>3, <3>2, <3>3
  <2>3. {j \in DOMAIN atoms : atoms[j].block = b /\ i \in Positions(atoms[j].range)} = {k}
    BY <2>1, <2>2
  <2> QED
    BY <2>3, FS_Singleton
<1>5. \A j, k \in DOMAIN atoms : (j < k /\ atoms[j].block = atoms[k].block) => atoms[j].range.end <= atoms[k].range.start
  BY <1>2 DEF InSourceOrder
<1>6. \A k \in DOMAIN segments : segments[k] \in GoodSegments(atoms)
  BY <1>1 DEF SegmentsFit
<1> QED
  BY <1>1, <1>4, <1>5, <1>6 DEF SegmentsFit, GoodSegments

-------------------------------------------------------------------------------
(***************************************************************************)
(* The signals of a text, in its segments.                                 *)
(***************************************************************************)
(* What a flattened sequence holds, one of its parts holds.                 *)
LEMMA PartReached ==
  ASSUME NEW S, NEW seqs \in Seq(Seq(S)), NEW x, x \in Range(FlattenSeq(seqs))
  PROVE  \E j \in DOMAIN seqs : x \in Range(seqs[j])
<1>1. PICK f \in [0 .. Len(seqs) -> Seq(S)] : Joins(f, seqs)
  BY JoinsExist
<1> DEFINE n == Len(seqs)
           T == {k \in 0 .. n : x \in Range(f[k])}
<1>2. n \in Nat /\ DOMAIN seqs = 1 .. n
  OBVIOUS
<1>3. n \in T
  BY <1>1, <1>2 DEF Joins
<1>4. PICK k \in T : \A j \in T : k <= j
  <2>1. T \subseteq Nat /\ T # {}
    BY <1>2, <1>3
  <2> QED
    BY <2>1, LeastNumber
<1>5. k # 0
  <2>1. f[0] = << >> /\ Range(<< >>) = {}
    BY <1>1 DEF Joins, Range
  <2> QED
    BY <2>1
<1>6. k \in 1 .. n /\ k - 1 \in 0 .. n /\ ~(k <= k - 1)
  BY <1>2, <1>5
<1>7. x \notin Range(f[k - 1])
  BY <1>4, <1>6
<1>8. f[k] = f[k - 1] \o seqs[k] /\ f[k - 1] \in Seq(S) /\ seqs[k] \in Seq(S)
  <2>1. f[k - 1] \in Seq(S)
    BY <1>1, <1>6
  <2>2. seqs[k] \in Seq(S)
    BY <1>2, <1>6
  <2> QED
    BY <1>1, <1>6, <2>1, <2>2 DEF Joins
<1>9. x \in Range(seqs[k])
  <2>1. PICK i \in DOMAIN f[k] : f[k][i] = x
    BY <1>4 DEF Range
  <2> DEFINE u == f[k - 1]
             v == seqs[k]
  <2>2. /\ Len(u \o v) = Len(u) + Len(v) /\ u \o v \in Seq(S) /\ Len(u) \in Nat /\ Len(v) \in Nat
        /\ \A m \in 1 .. Len(u) : (u \o v)[m] = u[m]
        /\ \A m \in Len(u) + 1 .. Len(u) + Len(v) : (u \o v)[m] = v[m - Len(u)]
    <3>1. u \in Seq(S) /\ v \in Seq(S)
      BY <1>8
    <3> HIDE DEF u, v
    <3> QED
      BY <3>1, JoinFacts
  <2>3. i \in 1 .. Len(u) + Len(v)
    <3>1. f[k] = u \o v
      BY <1>8
    <3> DEFINE w == u \o v
    <3>2. w \in Seq(S) /\ i \in DOMAIN w /\ Len(w) = Len(u) + Len(v)
      BY <2>1, <2>2, <3>1
    <3> HIDE DEF w
    <3>3. i \in 1 .. Len(w)
      <4>1. \A z \in Seq(S) : DOMAIN z = 1 .. Len(z)
        OBVIOUS
      <4> QED
        BY <3>2, <4>1
    <3> QED
      BY <3>2, <3>3 DEF w
  <2>4. ~(i \in 1 .. Len(u))
    <3>1. DOMAIN u = 1 .. Len(u)
      BY <1>8
    <3>2. i \in 1 .. Len(u) => u[i] = x
      BY <1>8, <2>1, <2>2
    <3> QED
      BY <1>7, <3>1, <3>2 DEF Range
  <2>5. i - Len(u) \in 1 .. Len(v) /\ v[i - Len(u)] = x
    <3>1. f[k] = u \o v /\ (u \o v)[i] = x
      BY <1>8, <2>1
    <3> HIDE DEF u, v
    <3>2. i \in Len(u) + 1 .. Len(u) + Len(v)
      BY <2>2, <2>3, <2>4
    <3> QED
      BY <2>2, <3>1, <3>2
  <2>6. DOMAIN v = 1 .. Len(v)
    BY <1>8
  <2> QED
    BY <2>5, <2>6 DEF Range
<1> QED
  BY <1>2, <1>6, <1>9

MappedHold ==
  /\ stage \in {"received", "embed", "segment", "map"} => mapped = << >>
  /\ stage # "scan" /\ mapped # << >> => segments # << >> /\ mapped = MapSignals(atoms, segments, signals)

(* What is mapped are the signals of the text looked at, to its segments.   *)
LEMMA MappedStay ==
  /\ PipelineInit => MappedHold
  /\ MappedHold /\ [PipelineNext]_pipelineVars => MappedHold'
<1>1. ASSUME PipelineInit PROVE MappedHold
  BY <1>1 DEF PipelineInit, MappedHold
<1>2. ASSUME MappedHold, [PipelineNext]_pipelineVars PROVE MappedHold'
  <2>1. CASE stage' = "scan"
    BY <2>1 DEF MappedHold
  <2>2. CASE Scan /\ stage' # "scan"
    <3>1. mapped' = << >>
      BY <2>2 DEF Scan
    <3> QED
      BY <3>1 DEF MappedHold
  <2>3. CASE BuildSegments
    <3>1. mapped = << >> /\ mapped' = mapped
      BY <1>2, <2>3 DEF BuildSegments, MappedHold
    <3> QED
      BY <3>1 DEF MappedHold
  <2>4. CASE Map
    <3>1. stage' = "pool" /\ atoms' = atoms /\ segments' = segments /\ signals' = signals /\ mapped' = MapSignals(atoms, segments, signals)
      BY <2>4 DEF Map
    <3>2. segments = << >> => mapped' = << >>
      BY <3>1 DEF MapSignals
    <3> QED
      BY <3>1, <3>2 DEF MappedHold
  <2>5. CASE ~Scan /\ ~BuildSegments /\ ~Map /\ stage' # "scan"
    <3>1. atoms' = atoms /\ segments' = segments /\ mapped' = mapped /\ stage # "scan"
      BY <1>2, <2>5, TextStays
    <3>2. signals' = signals /\ (stage' \in {"received", "embed", "segment", "map"} => stage \in {"received", "embed", "segment", "map"})
      BY <1>2, <2>5 DEF PipelineNext, pipelineVars, perText, Match, EmbedFails, EmbedBatch, PoolVectors, ClassifierFails, Classify,
                        VerifierFails, Verify, Fails, NextText
    <3> QED
      BY <1>2, <3>1, <3>2 DEF MappedHold
  <2> QED
    BY <2>1, <2>2, <2>3, <2>4, <2>5
<1> QED
  BY <1>1, <1>2

(* So every signal that is more than blanks is told of one segment.         *)
LEMMA SignalsInSegments ==
  RequestFits /\ SignalsFound /\ SegmentsHold /\ MappedHold => EverySignalInOneSegment
<1> SUFFICES ASSUME RequestFits, SignalsFound, SegmentsHold, MappedHold, stage # "scan", mapped # << >>, NEW s \in signals
             PROVE  LET told == {k \in DOMAIN mapped : s \in mapped[k]}
                    IN Cardinality(told) <= 1 /\ (Ink(Document[s.block].text, s.range) # {} => Cardinality(told) = 1)
  BY DEF EverySignalInOneSegment
<1> DEFINE Hit(k) == AtomsHit(atoms, segments[k], s)
           text == Document[s.block].text
           told == {k \in DOMAIN mapped : s \in mapped[k]}
<1>1. segments # << >> /\ mapped = MapSignals(atoms, segments, signals) /\ atoms = Atoms(Document) /\ SegmentsFit(atoms, segments)
  BY DEF MappedHold, SegmentsHold
<1>2. /\ s.block \in DOMAIN Document /\ IsSequence(text) /\ s.range \in TextRanges(text)
  BY SignalsOfDocument DEF SignalsFound
<1>3. /\ atoms \in Seq(AtomsOf(Document))
      /\ \A i \in Ink(text, Whole(text)) : \E k \in DOMAIN atoms : atoms[k].block = s.block /\ i \in Positions(atoms[k].range)
  <2>1. DocumentFits(Document)
    BY DocumentLookedAt
  <2>2. /\ Atoms(Document) \in Seq(AtomsOf(Document))
        /\ \A b \in DOMAIN Document : \A i \in Ink(Document[b].text, Whole(Document[b].text)) :
             \E k \in DOMAIN Atoms(Document) :
               Atoms(Document)[k].block = b /\ i \in Positions(Atoms(Document)[k].range)
    BY <2>1, AtomsFacts
  <2>3. s.block \in DOMAIN Document
    BY <1>2
  <2> QED
    BY ONLY <1>1, <2>2, <2>3
<1>4. DOMAIN mapped = DOMAIN segments /\ DOMAIN segments = 1 .. Len(segments) /\ Len(segments) \in Nat
  BY <1>1 DEF MapSignals, SegmentsFit
<1>5. \A k \in DOMAIN segments : s \in mapped[k] <=> Hit(k) # {} /\ \A j \in 1 .. k - 1 : Hit(j) = {}
  BY <1>1 DEF MapSignals
<1> HIDE DEF Hit
<1>6. \A j, k \in told : j = k
  <2> SUFFICES ASSUME NEW j \in told, NEW k \in told, j < k PROVE FALSE
    BY <1>4
  <2>1. j \in 1 .. k - 1
    BY <1>4
  <2> QED
    BY <1>4, <1>5, <2>1
<1>7. ASSUME Ink(text, s.range) # {} PROVE told # {}
  <2>1. PICK i \in Ink(text, s.range) : TRUE
    BY <1>7
  <2>2. /\ s.range.start \in Nat /\ s.range.end \in Nat /\ s.range.end <= Len(text) /\ Len(text) \in Nat
        /\ i \in s.range.start + 1 .. s.range.end /\ text[i] \notin Blanks
    BY <1>2, <2>1 DEF TextRanges, Ink, Positions, IsSequence
  <2>3. i \in Ink(text, Whole(text))
    BY <2>2 DEF Ink, Whole, Positions, Span
  <2>4. PICK a \in DOMAIN atoms : atoms[a].block = s.block /\ i \in Positions(atoms[a].range)
    BY <1>3, <2>3
  <2>5. Touches(s, atoms[a])
    <3>1. atoms[a].range.start \in Nat /\ atoms[a].range.end \in Nat /\ i \in atoms[a].range.start + 1 .. atoms[a].range.end
      BY <1>3, <2>4 DEF AtomsOf, Positions
    <3> QED
      BY <2>2, <2>4, <3>1 DEF Touches, Overlap
  <2>6. a \in Range(FlattenSeq(segments))
    <3>1. DOMAIN atoms = 1 .. Len(atoms) /\ Len(atoms) \in Nat
      BY <1>3
    <3>2. a \in 1 .. Len(atoms) /\ 1 <= Len(atoms)
      BY <3>1
    <3>3. Range(Interval(1, Len(atoms))) = 1 .. Len(atoms)
      BY <3>1, <3>2, IntervalFacts
    <3> QED
      BY <1>1, <3>2, <3>3 DEF SegmentsFit
  <2>7. segments \in Seq(Seq(DOMAIN atoms))
    BY <1>1 DEF SegmentsFit, GoodSegments
  <2>8. PICK k0 \in DOMAIN segments : a \in Range(segments[k0])
    BY <2>6, <2>7, PartReached
  <2>9. Hit(k0) # {}
    BY <2>5, <2>8 DEF Hit, AtomsHit
  <2> DEFINE T == {k \in DOMAIN segments : Hit(k) # {}}
  <2>10. PICK k \in T : \A j \in T : k <= j
    <3>1. T \subseteq Nat /\ T # {}
      BY <1>4, <2>9
    <3> QED
      BY <3>1, LeastNumber
  <2>11. ASSUME NEW j \in 1 .. k - 1 PROVE Hit(j) = {}
    <3>1. j \in DOMAIN segments /\ ~(k <= j)
      BY <1>4
    <3> QED
      BY <2>10, <3>1
  <2>12. k \in told
    BY <1>4, <1>5, <2>10, <2>11
  <2> QED
    BY <2>12
<1> HIDE DEF told
<1>8. told = {} \/ \E k : told = {k}
  <2> SUFFICES ASSUME told # {} PROVE \E k : told = {k}
    OBVIOUS
  <2>1. PICK k \in told : TRUE
    OBVIOUS
  <2>2. told = {k}
    BY <1>6, <2>1
  <2> QED
    BY <2>2
<1>9. Cardinality({}) = 0 /\ \A k : Cardinality({k}) = 1
  BY FS_EmptySet, FS_Singleton
<1>10. Cardinality(told) <= 1 /\ (Ink(text, s.range) # {} => Cardinality(told) = 1)
  <2>1. Cardinality(told) = 0 \/ Cardinality(told) = 1
    BY <1>8, <1>9
  <2>2. told # {} => Cardinality(told) = 1
    BY <1>8, <1>9
  <2> QED
    BY <1>7, <2>1, <2>2
<1> QED
  BY <1>10 DEF told

-------------------------------------------------------------------------------
(***************************************************************************)
(* What is given to the verifier of a segment.                             *)
(***************************************************************************)
ChunksFit(chunks) ==
  /\ chunks.chars \in Nat /\ chunks.overlap \in Nat /\ chunks.most \in Nat \ {0}
  /\ chunks.overlap < chunks.chars

(* Multiples of d, as the starts of chunks are.                             *)
LEMMA Multiples ==
  ASSUME NEW d \in Nat \ {0}
  PROVE  /\ \A k \in Nat : (k * d) % d = 0 /\ k * d \in Nat
         /\ \A s \in Nat : s % d = 0 => \E k \in Nat : s = k * d
         /\ \A s \in Nat : s % d = 0 => (s + d) % d = 0
         /\ \A j, k \in Nat : j * d < k * d => j < k
<1>1. ASSUME NEW k \in Nat PROVE (k * d) % d = 0 /\ k * d \in Nat
  OBVIOUS
<1>2. ASSUME NEW s \in Nat, s % d = 0 PROVE \E k \in Nat : s = k * d
  BY <1>2
<1>3. ASSUME NEW s \in Nat, s % d = 0 PROVE (s + d) % d = 0
  <2>1. PICK k \in Nat : s = k * d
    BY <1>2, <1>3
  <2>2. s + d = (k + 1) * d /\ k + 1 \in Nat
    BY <2>1
  <2> QED
    BY <1>1, <2>2
<1>4. ASSUME NEW j \in Nat, NEW k \in Nat, j * d < k * d PROVE j < k
  BY <1>4
<1> QED
  BY <1>1, <1>2, <1>3, <1>4

(* The chunks reach each character of a text that the policy reaches.       *)
LEMMA ChunksReach ==
  ASSUME NEW chunks, ChunksFit(chunks), NEW n \in Nat, NEW i \in 1 .. n
  PROVE  \E start \in ChunkStarts(n, chunks) : i \in start + 1 .. start + chunks.chars
<1> DEFINE d == chunks.chars - chunks.overlap
           starts == ChunkStarts(n, chunks)
           S == {s \in starts : s <= i - 1}
<1>1. d \in Nat \ {0} /\ chunks.chars \in Nat /\ chunks.overlap \in Nat /\ chunks.chars = d + chunks.overlap
  BY DEF ChunksFit
<1>2. CASE n <= chunks.chars
  BY <1>1, <1>2 DEF ChunkStarts
<1>3. CASE ~(n <= chunks.chars)
  <2>1. starts = {s \in 0 .. n - 1 : s % d = 0 /\ (s = 0 \/ s + chunks.overlap < n)}
    BY <1>3 DEF ChunkStarts
  <2> HIDE DEF d
  <2>2. 0 \in S
    <3>1. 0 % d = 0
      BY <1>1
    <3> QED
      BY <2>1, <3>1
  <2>3. S \subseteq 0 .. n
    BY <2>1
  <2>4. Greatest(S) \in S /\ \A x \in S : x <= Greatest(S)
    <3> HIDE DEF S
    <3> QED
      BY <2>2, <2>3, GreatestOf
  <2>5. PICK s \in S : \A x \in S : x <= s
    BY <2>4
  <2>6. s \in Nat /\ s % d = 0 /\ s <= i - 1 /\ s \in starts
    BY <2>1, <2>5
  <2>7. (s + d) % d = 0
    BY <1>1, <2>6, Multiples
  <2>8. ~(s + d <= s)
    BY <1>1, <2>6
  <2>9. s + d \notin S
    BY <2>5, <2>8
  <2>10. i <= s + chunks.chars
    <3>1. CASE s + d <= i - 1
      <4>1. ~(s + d + chunks.overlap < n)
        BY <1>1, <2>1, <2>6, <2>7, <2>9, <3>1
      <4> QED
        BY <1>1, <2>6, <4>1
    <3>2. CASE ~(s + d <= i - 1)
      BY <1>1, <2>6, <3>2
    <3> QED
      BY <3>1, <3>2
  <2> QED
    BY <1>1, <2>6, <2>10
<1> QED
  BY <1>2, <1>3

(* And are not too many for it.                                             *)
LEMMA ChunksNotTooMany ==
  ASSUME NEW chunks, ChunksFit(chunks), NEW n \in Nat,
         n <= chunks.overlap + chunks.most * (chunks.chars - chunks.overlap)
  PROVE  /\ ChunkStarts(n, chunks) \subseteq Nat /\ IsFiniteSet(ChunkStarts(n, chunks))
         /\ Cardinality(ChunkStarts(n, chunks)) <= chunks.most
<1> DEFINE d == chunks.chars - chunks.overlap
           starts == ChunkStarts(n, chunks)
<1>1. d \in Nat \ {0} /\ chunks.chars \in Nat /\ chunks.overlap \in Nat /\ chunks.most \in Nat \ {0} /\ n <= chunks.overlap + chunks.most * d
  BY DEF ChunksFit
<1>2. CASE n <= chunks.chars
  <2>1. starts = {0}
    BY <1>2 DEF ChunkStarts
  <2>2. IsFiniteSet({0}) /\ Cardinality({0}) = 1
    BY FS_Singleton
  <2> QED
    <3>1. {0} \subseteq Nat /\ 1 <= chunks.most
      BY <1>1
    <3> QED
      BY <2>1, <2>2, <3>1
<1>3. CASE ~(n <= chunks.chars)
  <2>1. starts = {s \in 0 .. n - 1 : s % d = 0 /\ (s = 0 \/ s + chunks.overlap < n)}
    BY <1>3 DEF ChunkStarts
  <2> DEFINE most == chunks.most
  <2> HIDE DEF d, most
  <2>2. starts \subseteq {k * d : k \in 0 .. most - 1}
    <3> SUFFICES ASSUME NEW s \in starts PROVE \E k \in 0 .. most - 1 : s = k * d
      OBVIOUS
    <3>1. s \in Nat /\ s % d = 0 /\ (s = 0 \/ s + chunks.overlap < n)
      BY <2>1
    <3>2. PICK k \in Nat : s = k * d
      BY <1>1, <3>1, Multiples
    <3>3. most \in Nat \ {0}
      BY <1>1 DEF most
    <3>4. CASE s = 0
      <4>1. 0 = 0 * d /\ 0 \in 0 .. most - 1
        BY <1>1, <3>3
      <4> QED
        BY <3>4, <4>1
    <3>5. CASE s + chunks.overlap < n
      <4>1. most * d \in Nat
        BY <1>1, <3>3, Multiples
      <4>2. k * d < most * d
        <5> DEFINE a == k * d
                   b == most * d
        <5>1. a = s /\ n <= chunks.overlap + b /\ b \in Nat
          BY <1>1, <3>2, <4>1 DEF most
        <5> HIDE DEF a, b
        <5>2. a < b
          BY <1>1, <3>1, <3>5, <5>1
        <5> QED
          BY <5>2 DEF a, b
      <4>3. k < most
        BY <1>1, <3>3, <4>2, Multiples
      <4> QED
        BY <3>2, <3>3, <4>3
    <3> QED
      BY <3>1, <3>4, <3>5
  <2>3. most \in Nat \ {0}
    BY <1>1 DEF most
  <2>4. IsFiniteSet(0 .. most - 1) /\ Cardinality(0 .. most - 1) = most
    BY <2>3, FS_Interval
  <2> DEFINE f == [k \in 0 .. most - 1 |-> k * d]
             B == {k * d : k \in 0 .. most - 1}
  <2>5. f \in Surjection(0 .. most - 1, B)
    BY DEF Surjection
  <2> HIDE DEF f, B
  <2>6. IsFiniteSet(B) /\ Cardinality(B) <= most
    BY <2>4, <2>5, FS_Surjection
  <2>7. starts \subseteq B
    BY <2>2 DEF B
  <2>8. IsFiniteSet(starts) /\ Cardinality(starts) <= Cardinality(B) /\ Cardinality(starts) \in Nat /\ Cardinality(B) \in Nat
    BY <2>6, <2>7, FS_Subset, FS_CardinalityType
  <2>9. starts \subseteq Nat
    BY <2>1
  <2>10. Cardinality(starts) <= most
    BY <2>3, <2>6, <2>8
  <2> QED
    BY <2>8, <2>9, <2>10 DEF most
<1> QED
  BY <1>2, <1>3

(* A value with ink does not collapse to nothing.                           *)
LEMMA CollapsedInk ==
  ASSUME NEW A, NEW value \in Seq(A), NEW i \in 1 .. Len(value), value[i] \notin Blanks
  PROVE  Collapsed(value) # << >>
<1> DEFINE ink == {j \in DOMAIN value : value[j] \notin Blanks}
           kept == {j \in DOMAIN value : /\ \E a \in ink : a <= j
                                         /\ j \in ink \/ j + 1 \in ink}
           m == Cardinality(kept)
           collapsed == [k \in 1 .. m |-> LET j == Sorted(kept, <)[k] IN IF j \in ink THEN value[j] ELSE "blank"]
<1>1. collapsed = Collapsed(value)
  BY DEF Collapsed
<1>2. i \in kept /\ kept \subseteq 1 .. Len(value) /\ Len(value) \in Nat
  OBVIOUS
<1> HIDE DEF kept
<1>3. IsFiniteSet(kept) /\ m \in Nat /\ m # 0
  BY <1>2, CountTo, FS_Subset, FS_EmptySet, FS_CardinalityType
<1>4. DOMAIN collapsed = 1 .. m
  OBVIOUS
<1> HIDE DEF collapsed, m
<1>5. 1 \in DOMAIN collapsed
  BY <1>3, <1>4
<1> QED
  BY <1>1, <1>5

(* Chunks that reach as far as a text read each of its characters that is no blank.*)
(* ml/verifier/runtime.py:136                                               *)
LEMMA ChunksRead ==
  ASSUME NEW A, NEW content \in Seq(A), NEW chunks, ChunksFit(chunks),
         Len(content) <= chunks.overlap + chunks.most * (chunks.chars - chunks.overlap),
         NEW i \in 1 .. Len(content), content[i] \notin Blanks
  PROVE  \E start \in ChunkStarts(Len(content), chunks) :
           /\ i \in start + 1 .. start + chunks.chars
           /\ Collapsed(Chunk(content, start, chunks)) \in ChunksOf(content, chunks)
<1> DEFINE n == Len(content)
           S == ChunkStarts(n, chunks)
           starts == Sorted(S, <)
           Normal(k) == Collapsed(Chunk(content, starts[k], chunks))
           fresh == {k \in DOMAIN starts : Normal(k) # << >> /\ \A j \in 1 .. k - 1 : Normal(j) # Normal(k)}
           m == Cardinality(S)
<1>1. n \in Nat /\ chunks.chars \in Nat /\ chunks.overlap \in Nat /\ chunks.most \in Nat \ {0}
  BY DEF ChunksFit
<1>2. PICK start \in S : i \in start + 1 .. start + chunks.chars
  BY <1>1, ChunksReach
<1>3. S \subseteq Nat /\ IsFiniteSet(S) /\ m <= chunks.most
  BY <1>1, ChunksNotTooMany
<1>4. /\ m \in Nat /\ DOMAIN starts = 1 .. m
      /\ \A x \in S : \E k \in 1 .. m : starts[k] = x
  <2> HIDE DEF S
  <2> QED
    BY <1>3, SortedNumbers
<1>5. PICK k \in 1 .. m : starts[k] = start
  BY <1>2, <1>4
<1>6. Normal(k) # << >>
  <2> DEFINE end == Least({n, start + chunks.chars})
             chunk == SubSeq(content, start + 1, end)
  <2>1. start \in Nat /\ i \in start + 1 .. start + chunks.chars /\ i \in 1 .. n
    BY <1>2, <1>3
  <2>2. end \in {n, start + chunks.chars} /\ end <= n /\ end <= start + chunks.chars
    <3>1. {n, start + chunks.chars} \subseteq Nat /\ {n, start + chunks.chars} # {}
      BY <1>1, <2>1
    <3> QED
      BY <3>1, LeastOf
  <2>3. end \in Nat /\ i \in start + 1 .. end /\ end <= n
    BY <1>1, <2>1, <2>2
  <2> HIDE DEF end
  <2>4. chunk \in Seq(A) /\ Len(chunk) = end - start /\ i - start \in 1 .. Len(chunk) /\ chunk[i - start] = content[i]
    <3>1. n = Len(content) /\ end <= Len(content) /\ start + 1 <= end /\ start + 1 \in 1 .. Len(content) + 1
      BY <1>1, <2>1, <2>3
    <3>2. \A a \in Nat \ {0}, b \in Nat : a <= b /\ b <= Len(content) =>
            /\ SubSeq(content, a, b) \in Seq(A) /\ Len(SubSeq(content, a, b)) = b - a + 1
            /\ \A j \in 1 .. b - a + 1 : SubSeq(content, a, b)[j] = content[a + j - 1]
      OBVIOUS
    <3>3. /\ chunk \in Seq(A) /\ Len(chunk) = end - (start + 1) + 1
          /\ \A j \in 1 .. end - (start + 1) + 1 : chunk[j] = content[start + 1 + j - 1]
      BY <2>1, <2>3, <3>1, <3>2
    <3>4. /\ end - (start + 1) + 1 = end - start /\ i - start \in 1 .. end - (start + 1) + 1
          /\ start + 1 + (i - start) - 1 = i
      BY <2>1, <2>3
    <3> HIDE DEF chunk
    <3> QED
      BY <3>3, <3>4
  <2>5. Chunk(content, start, chunks) = chunk
    BY DEF Chunk, Slice, Span, end
  <2> HIDE DEF chunk
  <2>6. Collapsed(chunk) # << >>
    BY <2>4, CollapsedInk
  <2> QED
    BY <1>5, <2>5, <2>6
<1> HIDE DEF Normal, m, starts, S
<1> DEFINE T == {j \in 1 .. m : Normal(j) = Normal(k)}
<1>7. PICK j \in T : \A h \in T : j <= h
  <2>1. T \subseteq Nat /\ k \in T
    BY <1>4
  <2> HIDE DEF T
  <2> QED
    BY <2>1, LeastNumber
<1>8. j \in fresh
  <2>1. j \in 1 .. m /\ Normal(j) = Normal(k)
    BY <1>7
  <2>2. ASSUME NEW h \in 1 .. j - 1 PROVE Normal(h) # Normal(j)
    <3>1. h \in 1 .. m /\ ~(j <= h)
      BY <1>4, <2>1
    <3>2. h \notin T
      BY <1>7, <3>1
    <3> QED
      BY <2>1, <3>1, <3>2
  <2> QED
    BY <1>4, <1>6, <2>1, <2>2
<1>9. Cardinality({h \in fresh : h <= j}) <= chunks.most
  <2> DEFINE few == {h \in fresh : h <= j}
  <2>1. few \in SUBSET (1 .. m)
    BY <1>4
  <2>2. IsFiniteSet(1 .. m) /\ Cardinality(1 .. m) = m
    BY <1>4, CountTo
  <2> HIDE DEF few
  <2>3. Cardinality(few) <= m /\ Cardinality(few) \in Nat
    BY <2>1, <2>2, FS_Subset, FS_CardinalityType
  <2>4. Cardinality(few) <= chunks.most
    BY <1>1, <1>3, <1>4, <2>3
  <2> QED
    BY <2>4 DEF few
<1>10. ChunksOf(content, chunks) = {Normal(h) : h \in {g \in fresh : Cardinality({e \in fresh : e <= g}) <= chunks.most}}
  BY DEF ChunksOf, Normal, starts, S
<1>11. Normal(j) \in ChunksOf(content, chunks)
  <2> HIDE DEF fresh
  <2> QED
    BY <1>8, <1>9, <1>10
<1>12. Normal(j) = Collapsed(Chunk(content, start, chunks))
  <2>1. Normal(k) = Collapsed(Chunk(content, start, chunks))
    BY <1>5 DEF Normal
  <2> QED
    BY <1>7, <2>1
<1> QED
  BY <1>2, <1>11, <1>12 DEF S

(* What is left of a text without the blanks around it is no longer.        *)
LEMMA ContentFits ==
  ASSUME NEW A, NEW text \in Seq(A)
  PROVE  Content(text) \in Seq(A) /\ Len(Content(text)) <= Len(text)
<1> DEFINE ink == Ink(text, Whole(text))
<1>1. ink \subseteq 0 .. Len(text) /\ ink \subseteq Nat /\ ink \subseteq 1 .. Len(text) /\ Len(text) \in Nat
  BY DEF Ink, Whole, Span, Positions
<1>2. CASE Trim(text, Whole(text)) = NoRange
  BY <1>1, <1>2 DEF Content
<1>3. CASE Trim(text, Whole(text)) # NoRange
  <2>1. ink # {} /\ Content(text) = SubSeq(text, Least(ink), Greatest(ink))
    <3>1. ink # {} /\ Trim(text, Whole(text)) = Span(Least(ink) - 1, Greatest(ink))
      BY <1>3 DEF Trim
    <3>2. Least(ink) \in Nat
      BY <1>1, <3>1, LeastOf
    <3> DEFINE range == Trim(text, Whole(text))
    <3>3. Content(text) = SubSeq(text, range.start + 1, range.end)
      BY <1>3 DEF Content, Slice
    <3>4. range.start = Least(ink) - 1 /\ range.end = Greatest(ink)
      BY <3>1 DEF Span
    <3> HIDE DEF range, ink
    <3>5. Least(ink) - 1 + 1 = Least(ink)
      BY <3>2
    <3> QED
      BY <3>1, <3>3, <3>4, <3>5
  <2>2. Least(ink) \in ink /\ Greatest(ink) \in ink
    BY <1>1, <2>1, LeastOf, GreatestOf
  <2> DEFINE a == Least(ink)
             b == Greatest(ink)
  <2>3. a \in 1 .. Len(text) /\ b \in 1 .. Len(text)
    BY <1>1, <2>2
  <2> HIDE DEF a, b, ink
  <2>4. SubSeq(text, a, b) \in Seq(A) /\ Len(SubSeq(text, a, b)) <= Len(text)
    BY <2>3
  <2> QED
    BY <2>1, <2>4 DEF a, b
<1> QED
  BY <1>2, <1>3

(* The text of a segment is not longer than a segment may be.               *)
LEMMA SegmentTextFits ==
  ASSUME RequestFits, NEW segment \in GoodSegments(Atoms(Document))
  PROVE  \E A : SegmentText(Document, Atoms(Document), segment) \in Seq(A)
                /\ Len(SegmentText(Document, Atoms(Document), segment)) <= MaxChars
<1> DEFINE document == Document
           atms == Atoms(document)
           A == UNION {Range(document[b].text) : b \in DOMAIN document}
           Part(k) == Slice(document[atms[segment[k]].block].text, atms[segment[k]].range)
           parts == [k \in DOMAIN segment |-> Part(k)]
           n == Len(segment)
<1>1. /\ atms \in Seq(AtomsOf(document)) /\ \A j \in DOMAIN atms : Length(atms[j]) \in 0 .. MaxAtomChars
      /\ MaxAtomChars \in Nat /\ MaxChars \in Nat
  BY AtomLengths, SegmentationAssumption DEF SegmentationAssumption
<1>2. segment \in Seq(DOMAIN atms) /\ CharsOf(atms, segment) <= MaxChars /\ n \in Nat /\ DOMAIN segment = 1 .. n
  BY DEF GoodSegments
<1>3. DocumentFits(document)
  BY DocumentLookedAt
<1>4. ASSUME NEW k \in 1 .. n PROVE Part(k) \in Seq(A) /\ Len(Part(k)) = Length(atms[segment[k]])
  <2> DEFINE a == atms[segment[k]]
             text == document[a.block].text
  <2>1. a \in AtomsOf(document)
    BY <1>1, <1>2
  <2> HIDE DEF a
  <2>2. a.block \in DOMAIN document /\ a.range \in TextRanges(text)
    BY <2>1 DEF AtomsOf
  <2>3. text \in Seq(Range(text))
    BY <1>3, <2>2 DEF DocumentFits, IsSequence, Range
  <2>4. Range(text) \subseteq A
    BY <2>2
  <2>5. text \in Seq(A)
    <3> DEFINE R == Range(text)
    <3>1. text \in Seq(R) /\ R \subseteq A
      BY <2>3, <2>4
    <3> HIDE DEF R, A, text
    <3> QED
      BY <3>1
  <2> HIDE DEF text, A
  <2>6. /\ a.range.start \in Nat /\ a.range.end \in Nat /\ a.range.start < a.range.end /\ a.range.end <= Len(text)
        /\ Len(text) \in Nat
    BY <2>2, <2>5 DEF TextRanges
  <2>7. /\ SubSeq(text, a.range.start + 1, a.range.end) \in Seq(A)
        /\ Len(SubSeq(text, a.range.start + 1, a.range.end)) = a.range.end - a.range.start
    BY <2>5, <2>6
  <2> QED
    BY <2>7 DEF Slice, Length, a, text
<1> HIDE DEF Part, A
<1>5. parts \in Seq(Seq(A)) /\ Len(parts) = n
  <2> DEFINE Q == Seq(A)
  <2>1. \A k \in 1 .. n : Part(k) \in Q
    BY <1>4
  <2> HIDE DEF Q
  <2>2. parts \in Seq(Q) /\ Len(parts) = n
    BY <1>2, <2>1
  <2> QED
    BY <2>2 DEF Q
<1>6. SegmentText(document, atms, segment) = FlattenSeq(parts)
  BY DEF SegmentText, Part
<1>7. \A k \in 1 .. n : parts[k] = Part(k)
  BY <1>2
<1> HIDE DEF parts
<1>8. PICK f \in [0 .. n -> Seq(A)] : Joins(f, parts)
  BY <1>5, JoinsExist
<1>9. PICK h \in [0 .. n -> Nat] :
        /\ h[0] = 0 /\ h[n] = CharsOf(atms, segment)
        /\ \A k \in 1 .. n : h[k] = h[k - 1] + Length(atms[segment[k]])
  <2>1. \A j \in DOMAIN atms : Length(atms[j]) \in Nat
    BY <1>1
  <2> QED
    BY <1>2, <2>1, CharsSteps
<1> DEFINE g == [k \in 0 .. n |-> Len(f[k])]
<1>10. g[n] = h[n]
  <2>1. g \in [0 .. n -> Nat] /\ \A k \in 0 .. n : g[k] = Len(f[k])
    OBVIOUS
  <2>2. g[0] = h[0]
    <3>1. f[0] = << >> /\ 0 \in 0 .. n
      BY <1>2, <1>8 DEF Joins
    <3> QED
      BY <1>9, <2>1, <3>1
  <2>3. ASSUME NEW k \in 1 .. n PROVE \E d \in Nat : g[k] = g[k - 1] + d /\ h[k] = h[k - 1] + d
    <3>1. k \in 0 .. n /\ k - 1 \in 0 .. n
      BY <1>2
    <3>2. f[k] = f[k - 1] \o parts[k] /\ f[k - 1] \in Seq(A) /\ parts[k] \in Seq(A) /\ Len(parts[k]) = Length(atms[segment[k]])
      <4>1. f[k] = f[k - 1] \o parts[k] /\ f[k - 1] \in Seq(A)
        BY <1>5, <1>8, <3>1 DEF Joins
      <4>2. parts[k] = Part(k) /\ Part(k) \in Seq(A) /\ Len(Part(k)) = Length(atms[segment[k]])
        BY <1>4, <1>7
      <4> QED
        BY <4>1, <4>2
    <3>3. Len(f[k]) = Len(f[k - 1]) + Length(atms[segment[k]]) /\ Length(atms[segment[k]]) \in Nat
      <4>1. Length(atms[segment[k]]) \in Nat
        BY <1>1, <1>2
      <4> DEFINE u == f[k - 1]
                 v == parts[k]
                 size == Length(atms[segment[k]])
      <4>2. u \in Seq(A) /\ v \in Seq(A) /\ f[k] = u \o v /\ Len(v) = size /\ size \in Nat
        BY <3>2, <4>1
      <4>3. Len(f[k]) = Len(u) + size
        <5> HIDE DEF u, v, size
        <5> QED
          BY <4>2, JoinFacts
      <4> QED
        BY <4>2, <4>3
    <3> HIDE DEF g
    <3> QED
      BY <1>9, <2>1, <3>1, <3>3
  <2> HIDE DEF g
  <2> QED
    BY <1>2, <1>9, <2>1, <2>2, <2>3, SumsAgree
<1>11. FlattenSeq(parts) = f[n] /\ f[n] \in Seq(A) /\ Len(f[n]) = h[n]
  BY <1>2, <1>5, <1>8, <1>10 DEF Joins
<1> QED
  BY <1>2, <1>6, <1>9, <1>11

NotYetRead == {"received", "embed", "segment", "map", "pool", "classify"}

ReadHold ==
  /\ stage \in NotYetRead => read = << >>
  /\ stage # "scan" /\ read # << >> =>
       /\ segments # << >> /\ Verifier # Bad
       /\ \A c \in DOMAIN read :
            /\ c[1] \in DOMAIN segments
            /\ read[c] = ChunksOf(Content(SegmentText(Document, atoms, segments[c[1]])), Verifier.chunks)

(* A row of scores is one of a segment.                                     *)
LEMMA FoundInSegments ==
  ASSUME NEW bundle, NEW size \in Nat, NEW columns, NEW rows \in Rows(size, columns),
         Models!Classify(bundle, rows, size) # Bad, NEW c \in Models!Classify(bundle, rows, size)
  PROVE  /\ c[1] \in 1 .. size /\ c[2] \in Range(bundle.columns) /\ size # 0
         /\ bundle.columns = bundle.artifact.labels
<1> DEFINE labels == bundle.artifact.labels
<1>1. /\ bundle.columns = labels
      /\ \E p \in (DOMAIN rows) \X (DOMAIN labels) : c = <<p[1], labels[p[2]]>>
  BY DEF Models!Classify
<1>2. DOMAIN rows \subseteq 1 .. size
  BY DEF Rows
<1>3. PICK p \in (DOMAIN rows) \X (DOMAIN labels) : c = <<p[1], labels[p[2]]>>
  BY <1>1
<1>4. c[1] = p[1] /\ c[2] = labels[p[2]] /\ p[1] \in 1 .. size /\ p[2] \in DOMAIN labels
  BY <1>2, <1>3
<1> QED
  BY <1>1, <1>4 DEF Range

(* What the verifier was given are the chunks of segments of the text looked at.*)
LEMMA ReadStays ==
  /\ PipelineInit => ReadHold
  /\ RequestFits /\ SegmentsHold /\ ReadHold /\ [PipelineNext]_pipelineVars => ReadHold'
<1>1. ASSUME PipelineInit PROVE ReadHold
  BY <1>1 DEF PipelineInit, ReadHold
<1>2. ASSUME RequestFits, SegmentsHold, ReadHold, [PipelineNext]_pipelineVars PROVE ReadHold'
  <2>1. CASE stage' = "scan"
    BY <2>1 DEF ReadHold, NotYetRead
  <2>2. CASE Scan /\ stage' # "scan"
    <3>1. read' = << >>
      BY <2>2 DEF Scan
    <3> QED
      BY <3>1 DEF ReadHold
  <2>3. CASE BuildSegments
    <3>1. read = << >> /\ read' = read
      BY <1>2, <2>3 DEF BuildSegments, ReadHold, NotYetRead
    <3> QED
      BY <3>1 DEF ReadHold
  <2>4. CASE Classify /\ stage' # "scan"
    <3>1. stage = "classify" /\ read = << >> /\ ~Scan
      BY <1>2, <2>4 DEF Classify, ReadHold, NotYetRead, Scan
    <3>2. atoms' = atoms /\ Document' = Document /\ setting' = setting /\ segments' = segments
      BY <1>2, <2>4, <3>1, TextStays DEF Classify
    <3>3. Verifier' = Verifier
      BY <3>2 DEF Verifier
    <3>4. stage' \notin NotYetRead
      BY <2>4 DEF Classify, Fails, NextText, NotYetRead
    <3>5. CASE read' = << >>
      BY <3>4, <3>5 DEF ReadHold
    <3>6. CASE read' # << >>
      <4>1. PICK rows \in Rows(Len(segments), Len(Provider.bundle.columns)) :
              LET found == Models!Classify(Provider.bundle, rows, Len(segments))
              IN /\ found # Bad /\ Verifier # Bad
                 /\ read' = [c \in Models!Scorable(Verifier, found) |->
                               ChunksOf(Content(SegmentText(Document, atoms, segments[c[1]])), Verifier.chunks)]
        BY <2>4, <3>1, <3>6 DEF Classify
      <4> DEFINE found == Models!Classify(Provider.bundle, rows, Len(segments))
                 scorable == Models!Scorable(Verifier, found)
      <4>2. scorable \subseteq found /\ DOMAIN read' = scorable
        BY <4>1 DEF Models!Scorable
      <4>3. segments \in Seq(GoodSegments(atoms)) \/ segments = << >>
        BY <1>2, <3>1 DEF SegmentsHold, SegmentsFit
      <4>4. Len(segments) \in Nat /\ DOMAIN segments = 1 .. Len(segments) /\ (segments = << >> => Len(segments) = 0)
        BY <4>3
      <4>5. ASSUME NEW c \in found PROVE c[1] \in DOMAIN segments /\ segments # << >>
        BY <4>1, <4>4, <4>5, FoundInSegments
      <4>6. segments # << >>
        <5>1. scorable # {}
          <6>1. scorable = {} => read' = << >>
            BY <4>1
          <6> QED
            BY <3>6, <6>1
        <5> QED
          BY <4>2, <4>5, <5>1
      <4>7. \A c \in DOMAIN read' :
              /\ c[1] \in DOMAIN segments
              /\ read'[c] = ChunksOf(Content(SegmentText(Document, atoms, segments[c[1]])), Verifier.chunks)
        BY <4>1, <4>2, <4>5
      <4>8. \A c \in DOMAIN read' :
              /\ c[1] \in DOMAIN segments'
              /\ read'[c] = ChunksOf(Content(SegmentText(Document', atoms', segments'[c[1]])), (Verifier').chunks)
        BY <3>2, <3>3, <4>7
      <4> QED
        BY <3>2, <3>3, <3>4, <4>1, <4>6, <4>8 DEF ReadHold
    <3> QED
      BY <3>5, <3>6
  <2>5. CASE ~Scan /\ ~BuildSegments /\ ~Classify /\ stage' # "scan"
    <3>1. atoms' = atoms /\ segments' = segments /\ read' = read /\ stage # "scan" /\ Document' = Document /\ setting' = setting
      BY <1>2, <2>5, TextStays
    <3>2. stage' \in NotYetRead => stage \in NotYetRead
      BY <1>2, <2>5 DEF PipelineNext, pipelineVars, perText, Match, EmbedFails, EmbedBatch, Map, PoolVectors, ClassifierFails,
                        VerifierFails, Verify, Fails, NextText, NotYetRead
    <3>3. Verifier' = Verifier
      BY <3>1 DEF Verifier
    <3> QED
      BY <1>2, <3>1, <3>2, <3>3 DEF ReadHold
  <2> QED
    BY <2>1, <2>2, <2>3, <2>4, <2>5
<1> QED
  BY <1>1, <1>2

(* So all of a candidate's segment is read when the policy reaches that far.*)
LEMMA SegmentsRead ==
  RequestFits /\ SegmentsHold /\ ReadHold => VerifierReadsAll
<1> DEFINE chunks == Verifier.chunks
<1> SUFFICES ASSUME RequestFits, SegmentsHold, ReadHold, stage # "scan", read # << >>,
                    chunks.overlap + chunks.most * (chunks.chars - chunks.overlap) >= MaxChars,
                    NEW c \in DOMAIN read,
                    NEW i \in Ink(Content(SegmentText(Document, atoms, segments[c[1]])), Whole(Content(SegmentText(Document, atoms, segments[c[1]]))))
             PROVE  \E start \in ChunkStarts(Len(Content(SegmentText(Document, atoms, segments[c[1]]))), chunks) :
                      /\ i \in start + 1 .. start + chunks.chars
                      /\ Collapsed(Chunk(Content(SegmentText(Document, atoms, segments[c[1]])), start, chunks)) \in read[c]
  BY DEF VerifierReadsAll
<1> DEFINE text == SegmentText(Document, atoms, segments[c[1]])
           content == Content(text)
<1>1. /\ segments # << >> /\ Verifier # Bad /\ c[1] \in DOMAIN segments /\ read[c] = ChunksOf(content, chunks)
      /\ atoms = Atoms(Document) /\ SegmentsFit(atoms, segments)
  BY DEF ReadHold, SegmentsHold
<1>2. segments[c[1]] \in GoodSegments(atoms)
  BY <1>1 DEF SegmentsFit
<1>3. PICK A : text \in Seq(A) /\ Len(text) <= MaxChars
  BY <1>1, <1>2, SegmentTextFits
<1>4. content \in Seq(A) /\ Len(content) <= Len(text)
  <2> HIDE DEF text
  <2> QED
    BY <1>3, ContentFits
<1>5. ChunksFit(chunks)
  BY <1>1, VerifierFits DEF Verifier, ChunksFit, RequestFits
<1> DEFINE reach == chunks.overlap + chunks.most * (chunks.chars - chunks.overlap)
<1>6. Len(content) <= reach
  <2>1. reach \in Int
    <3> DEFINE d == chunks.chars - chunks.overlap
    <3>1. d \in Nat \ {0} /\ chunks.most \in Nat /\ chunks.overlap \in Nat
      BY <1>5 DEF ChunksFit
    <3> HIDE DEF d
    <3>2. chunks.most * d \in Nat
      BY <3>1, Multiples
    <3>3. chunks.overlap + chunks.most * d \in Int
      BY <3>1, <3>2
    <3> QED
      BY <3>3 DEF d
  <2>2. MaxChars \in Nat /\ MaxChars <= reach
    BY <2>1, SegmentationAssumption DEF SegmentationAssumption
  <2>3. Len(content) \in Nat /\ Len(text) \in Nat
    BY <1>3, <1>4
  <2> HIDE DEF reach, content, text
  <2> QED
    BY <1>3, <1>4, <2>1, <2>2, <2>3
<1>7. i \in 1 .. Len(content) /\ content[i] \notin Blanks
  <2>1. i \in Ink(content, Whole(content))
    OBVIOUS
  <2> HIDE DEF content
  <2> QED
    BY <1>4, <2>1 DEF Ink, Whole, Span, Positions
<1>8. \E start \in ChunkStarts(Len(content), chunks) :
        /\ i \in start + 1 .. start + chunks.chars
        /\ Collapsed(Chunk(content, start, chunks)) \in ChunksOf(content, chunks)
  <2> HIDE DEF content, chunks
  <2> QED
    BY <1>4, <1>5, <1>6, <1>7, ChunksRead DEF reach
<1> QED
  BY <1>1, <1>8

-------------------------------------------------------------------------------
(***************************************************************************)
(* What a text loses on its way to the models: nothing.                    *)
(***************************************************************************)
TextHold == RequestFits /\ SignalsFound /\ SegmentsHold /\ MappedHold /\ ReadHold

(* These parts hold in every state.                                         *)
LEMMA TextHolds == PipelineSpec => []TextHold
<1>1. PipelineInit => TextHold
  BY RequestStays, SignalsStay, SegmentsStay, MappedStay, ReadStays DEF TextHold
<1>2. TextHold /\ [PipelineNext]_pipelineVars => TextHold'
  BY RequestStays, SignalsStay, SegmentsStay, MappedStay, ReadStays DEF TextHold
<1> QED
  BY <1>1, <1>2, PTL DEF PipelineSpec

(* In every state, whatever the texts, the settings and the numbers of the  *)
(* policies: the characters of a text that is looked at are in one segment, *)
(* its signals are told of one, and a candidate's segment is verified whole *)
(* when the policy of the chunks reaches that far.                          *)
THEOREM NothingIsEverLost == PipelineSpec => []NothingIsLost
<1>1. TextHold => NothingIsLost
  BY CharactersInSegments, SignalsInSegments, SegmentsRead DEF TextHold, NothingIsLost
<1> QED
  BY <1>1, TextHolds, PTL

-------------------------------------------------------------------------------
(***************************************************************************)
(* What the evidence says of the texts.                                    *)
(***************************************************************************)
(* The sum of the sizes of finite sets is a number, and 0 when all are      *)
(* empty.                                                                   *)
LEMMA SumFacts ==
  ASSUME NEW U, NEW found \in Seq(U), \A S \in U : IsFiniteSet(S)
  PROVE  /\ Sum(found) \in Nat
         /\ Sum(found) = 0 <=> \A i \in DOMAIN found : found[i] = {}
<1> DEFINE n == Len(found)
           St == Nat
           Step(m, S) == m + Cardinality(S)
           ids == found
           F == [p \in (1 .. n) \X St |-> Step(p[2], ids[p[1]])]
           Iterates(g) == g = [s \in SUBSET DOMAIN ids |->
                                 IF s = {} THEN 0 ELSE Step(g[s \ {Max(s)}], ids[Max(s)])]
           iter == CHOOSE g : Iterates(g)
<1>1. n \in Nat /\ DOMAIN ids = 1 .. n /\ \A k \in 1 .. n : IsFiniteSet(ids[k])
  OBVIOUS
<1>2. Sum(found) = iter[1 .. n]
  BY DEF Sum, FoldLeft, MapThenFoldSet
<1>3. ASSUME NEW m \in St, NEW S, IsFiniteSet(S) PROVE Step(m, S) \in St
  BY <1>3, FS_CardinalityType
<1>4. 0 \in St
  OBVIOUS
<1>5. \A m, S : Step(m, S) = m + Cardinality(S)
  OBVIOUS
<1> HIDE DEF Step, St, ids
<1>6. F \in [(1 .. n) \X St -> St] /\ \A i \in 1 .. n, m \in St : F[<<i, m>>] = Step(m, ids[i])
  BY <1>1, <1>3
<1> HIDE DEF F
<1>7. \E g : Iterates(g)
  <2>1. n \in Nat /\ 0 \in St /\ F \in [(1 .. n) \X St -> St]
    BY <1>1, <1>4, <1>6
  <2>2. \E g \in [SUBSET (1 .. n) -> St] : Folded(g, n, 0, F)
    <3> HIDE DEF n
    <3> QED
      BY <2>1, FoldExists
  <2>3. PICK g \in [SUBSET (1 .. n) -> St] : Folded(g, n, 0, F)
    BY <2>2
  <2>4. \A s \in SUBSET (1 .. n) : g[s] = IF s = {} THEN 0 ELSE Step(g[s \ {Max(s)}], ids[Max(s)])
    <3> SUFFICES ASSUME NEW s \in SUBSET (1 .. n), s # {} PROVE g[s] = Step(g[s \ {Max(s)}], ids[Max(s)])
      BY <2>3 DEF Folded
    <3>1. Max(s) \in 1 .. n /\ s \ {Max(s)} \in SUBSET (1 .. n)
      BY <2>1, MaxOfSubset
    <3>2. g[s \ {Max(s)}] \in St /\ g[s] = F[<<Max(s), g[s \ {Max(s)}]>>]
      BY <2>3, <3>1 DEF Folded
    <3> QED
      BY <1>6, <3>1, <3>2
  <2> HIDE DEF ids
  <2>5. Iterates(g)
    BY <1>1, <2>3, <2>4
  <2> QED
    BY <2>5
<1>8. Iterates(iter)
  <2> HIDE DEF Iterates
  <2> QED
    BY <1>7
<1>9. FoldedWithin(iter, n, 0, St, F)
  <2>1. iter[{}] = 0 /\ \A s \in SUBSET (1 .. n) : s # {} => iter[s] = Step(iter[s \ {Max(s)}], ids[Max(s)])
    <3> HIDE DEF iter, ids
    <3> QED
      BY <1>1, <1>8
  <2> HIDE DEF iter
  <2>2. ASSUME NEW s \in SUBSET (1 .. n), s # {}, iter[s \ {Max(s)}] \in St
        PROVE  iter[s] = F[<<Max(s), iter[s \ {Max(s)}]>>]
    <3>1. Max(s) \in 1 .. n
      BY <1>1, <2>2, MaxOfSubset
    <3> QED
      BY <1>6, <2>1, <2>2, <3>1
  <2> QED
    BY <2>1, <2>2 DEF FoldedWithin
<1>10. \E h \in [0 .. n -> St] : Stepwise(h, iter, n, 0, F)
  <2>1. n \in Nat /\ 0 \in St /\ F \in [(1 .. n) \X St -> St]
    BY <1>1, <1>4, <1>6
  <2> HIDE DEF n, iter
  <2> QED
    BY <1>9, <2>1, FoldSteps
<1>11. PICK h \in [0 .. n -> St] :
        h[0] = 0 /\ h[n] = iter[1 .. n] /\ \A i \in 1 .. n : h[i] = F[<<i, h[i - 1]>>]
  BY <1>10 DEF Stepwise
<1>12. \A k \in 1 .. n : h[k] = h[k - 1] + Cardinality(ids[k])
  <2> SUFFICES ASSUME NEW k \in 1 .. n PROVE h[k] = Step(h[k - 1], ids[k])
    BY <1>5
  <2>1. k - 1 \in 0 .. n /\ h[k - 1] \in St
    BY <1>1
  <2> QED
    BY <1>6, <1>11, <2>1
<1>13. h \in [0 .. n -> Nat]
  BY DEF St
<1> HIDE DEF n, iter
<1>14. h[0] = 0 /\ h[n] = Sum(found)
  BY <1>2, <1>11
<1>15. \A k \in 1 .. n : h[k] = h[k - 1] + Cardinality(ids[k]) /\ h[k] \in Nat /\ h[k - 1] \in Nat
  <2> SUFFICES ASSUME NEW k \in 1 .. n PROVE h[k] \in Nat /\ h[k - 1] \in Nat
    BY <1>12
  <2>1. k \in 0 .. n /\ k - 1 \in 0 .. n
    BY <1>1
  <2> QED
    BY <1>13, <2>1
<1>16. \A k \in 1 .. n : Cardinality(ids[k]) \in Nat /\ (Cardinality(ids[k]) = 0 <=> ids[k] = {})
  BY <1>1, FS_CardinalityType, FS_EmptySet
<1>17. h[n] = 0 <=> \A i \in 1 .. n : ids[i] = {}
  <2> DEFINE Agree(k) == h[k] = 0 <=> \A i \in 1 .. k : ids[i] = {}
             T == {k \in 0 .. n : ~Agree(k)}
  <2>1. T = {}
    <3> SUFFICES ASSUME T # {} PROVE FALSE
      OBVIOUS
    <3>1. T \subseteq Nat
      BY <1>1
    <3>2. PICK k \in T : \A j \in T : k <= j
      <4> HIDE DEF T
      <4> QED
        BY <3>1, LeastNumber
    <3>3. k # 0
      BY <1>1, <1>14, <3>2
    <3>4. k \in 1 .. n /\ k - 1 \in 0 .. n /\ ~(k <= k - 1)
      BY <1>1, <3>2, <3>3
    <3>5. Agree(k - 1)
      <4>1. k - 1 \notin T
        BY <3>2, <3>4
      <4> QED
        BY <3>4, <4>1
    <3>6. h[k] = 0 <=> h[k - 1] = 0 /\ ids[k] = {}
      <4> DEFINE a == h[k - 1]
                 b == h[k]
                 c == Cardinality(ids[k])
      <4>1. b = a + c /\ a \in Nat /\ c \in Nat /\ (c = 0 <=> ids[k] = {})
        BY <1>15, <1>16, <3>4
      <4> HIDE DEF a, b, c
      <4>2. b = 0 <=> a = 0 /\ c = 0
        BY <4>1
      <4> QED
        BY <4>1, <4>2 DEF a, b, c
    <3>7. 1 .. k = (1 .. k - 1) \cup {k}
      BY <1>1, <3>4
    <3>8. Agree(k)
      BY <3>5, <3>6, <3>7
    <3> QED
      BY <3>2, <3>8
  <2>2. n \in 0 .. n
    BY <1>1
  <2>3. Agree(n)
    BY <2>1, <2>2
  <2> QED
    BY <2>3
<1>18. h[n] \in Nat
  BY <1>1, <1>13
<1>19. Sum(found) \in Nat /\ (Sum(found) = 0 <=> \A i \in DOMAIN ids : ids[i] = {})
  BY <1>1, <1>14, <1>17, <1>18
<1> QED
  BY <1>19 DEF ids

(* Sets of pairs of a segment and a label of the model.                     *)
Found == {S \in SUBSET (Nat \X Range(Provider.bundle.columns)) : IsFiniteSet(S)}

NotClassified == {"scan", "embed", "segment", "map", "pool", "classify"}

Answered(status) == status \notin {"timeout", "failed", "disabled"}

CountsHold ==
  /\ candidates \in Seq(Found) /\ accepted \in Seq(Found) /\ Len(accepted) <= Len(candidates)
  /\ \A i \in DOMAIN accepted : accepted[i] \subseteq candidates[i]
  /\ stage \in {"received", "verify", "done"} \cup NotClassified
  /\ stage = "received" => at = 1 /\ Len(candidates) = 0
  /\ stage \in NotClassified => Provider.status = "available" /\ Len(candidates) = at - 1 /\ Len(accepted) = at - 1
  /\ stage = "verify" => /\ Provider.status = "available" /\ Len(candidates) = at /\ Len(accepted) = at - 1
                         /\ DOMAIN read \subseteq candidates[at]
  /\ stage # "done" => outcome = None
  /\ outcome # None /\ Answered(outcome.status) =>
       /\ Len(candidates) = Len(documents) /\ Len(accepted) = Len(documents)
       /\ outcome.status = Policy!ContextStatus(Sum(candidates), Sum(accepted))

(* The counts hold what "no_candidate" says.                                *)
LEMMA CountsClear ==
  CountsHold => ClearMeansClassified
<1> SUFFICES ASSUME CountsHold PROVE ClearMeansClassified
  OBVIOUS
<1>1. ASSUME NEW i \in DOMAIN candidates, NEW c \in candidates[i] PROVE c[2] \in Range(Provider.bundle.columns)
  <2>1. candidates[i] \in Found
    BY DEF CountsHold
  <2>2. c \in Nat \X Range(Provider.bundle.columns)
    BY <2>1 DEF Found
  <2> QED
    BY <2>2
<1>2. ASSUME outcome # None, Answered(outcome.status)
      PROVE  outcome.status = "no_candidate" <=> \A i \in DOMAIN candidates : candidates[i] = {}
  <2> DEFINE a == Sum(candidates)
             b == Sum(accepted)
  <2>1. \A S \in Found : IsFiniteSet(S)
    BY DEF Found
  <2>2. a \in Nat /\ (a = 0 <=> \A i \in DOMAIN candidates : candidates[i] = {})
    BY <2>1, SumFacts DEF CountsHold
  <2>3. b \in Nat /\ (b = 0 <=> \A i \in DOMAIN accepted : accepted[i] = {})
    BY <2>1, SumFacts DEF CountsHold
  <2>4. DOMAIN accepted \subseteq DOMAIN candidates
    BY DEF CountsHold
  <2>5. a = 0 => b = 0
    BY <2>2, <2>3, <2>4 DEF CountsHold
  <2>6. outcome.status = Policy!ContextStatus(a, b)
    BY <1>2 DEF CountsHold
  <2> HIDE DEF a, b
  <2>7. outcome.status = "no_candidate" <=> a = 0
    <3>1. CASE b > 0
      BY <2>2, <2>3, <2>5, <2>6, <3>1 DEF Policy!ContextStatus
    <3>2. CASE b = 0 /\ a > 0
      BY <2>2, <2>3, <2>6, <3>2 DEF Policy!ContextStatus
    <3>3. CASE b = 0 /\ a = 0
      BY <2>2, <2>3, <2>6, <3>3 DEF Policy!ContextStatus
    <3> QED
      BY <2>2, <2>3, <3>1, <3>2, <3>3
  <2> QED
    BY <2>2, <2>7
<1> QED
  BY <1>1, <1>2 DEF CountsHold, ClearMeansClassified, Answered

(* What is known of a sequence with one more member.                        *)
LEMMA AppendFacts ==
  ASSUME NEW U, NEW s \in Seq(U), NEW x \in U
  PROVE  /\ Append(s, x) \in Seq(U) /\ Len(Append(s, x)) = Len(s) + 1 /\ Append(s, x)[Len(s) + 1] = x
         /\ \A i \in 1 .. Len(s) : Append(s, x)[i] = s[i]
         /\ Len(s) \in Nat /\ DOMAIN s = 1 .. Len(s) /\ DOMAIN Append(s, x) = 1 .. Len(s) + 1
  OBVIOUS

(* What the model chose for a text is a finite set of pairs.                *)
LEMMA ClassifiedFinite ==
  ASSUME RequestFits, NEW size \in Nat, NEW rows \in Rows(size, Len(Provider.bundle.columns)),
         Provider.status = "available", Models!Classify(Provider.bundle, rows, size) # Bad
  PROVE  Models!Classify(Provider.bundle, rows, size) \in Found
<1> DEFINE bundle == Provider.bundle
           labels == bundle.artifact.labels
           found == Models!Classify(bundle, rows, size)
           R == Range(bundle.columns)
<1>1. labels \in Seq(Range(labels))
  BY ClassifierFits DEF RequestFits, Provider
<1>2. IsFiniteSet(Range(labels))
  <2> DEFINE n == Len(labels)
             T == Range(labels)
  <2>1. n \in Nat /\ labels \in [1 .. n -> T] /\ \A x \in T : \E i \in 1 .. n : labels[i] = x
    BY <1>1 DEF Range
  <2> HIDE DEF n, T, labels
  <2>2. labels \in Surjection(1 .. n, T)
    BY <2>1 DEF Surjection
  <2>3. IsFiniteSet(1 .. n)
    BY <2>1, CountTo
  <2>4. IsFiniteSet(T)
    BY <2>2, <2>3, FS_Surjection
  <2> QED
    BY <2>4 DEF T
<1>3. \A c \in found : c[1] \in 1 .. size /\ c[2] \in R /\ bundle.columns = labels
  BY FoundInSegments
<1>4. \A c \in found : c = <<c[1], c[2]>>
  BY DEF Models!Classify
<1>5. found \subseteq (1 .. size) \X R /\ (found # {} => R = Range(labels))
  BY <1>3, <1>4
<1> HIDE DEF found, labels
<1>6. IsFiniteSet(found)
  <2>1. CASE found = {}
    BY <2>1, FS_EmptySet
  <2>2. CASE found # {}
    <3>1. IsFiniteSet((1 .. size) \X R)
      BY <1>2, <1>5, <2>2, CountTo, FS_Product
    <3> QED
      BY <1>5, <3>1, FS_Subset
  <2> QED
    BY <2>1, <2>2
<1>7. (1 .. size) \X R \subseteq Nat \X R
  OBVIOUS
<1>8. found \in Found
  BY <1>5, <1>6, <1>7 DEF Found
<1> QED
  BY <1>8 DEF found

(* What may be found does not change while the request stays.               *)
LEMMA FoundStays ==
  ASSUME setting' = setting
  PROVE  Provider' = Provider /\ Found' = Found
<1>1. Provider' = Provider
  BY DEF Provider
<1> QED
  BY <1>1 DEF Found

(* A failure says nothing of the candidates.                                *)
LEMMA FailureHolds ==
  ASSUME CountsHold, NEW failures, failures \subseteq {"timeout", "failed"}, NEW f, NEW c, Fails(failures, f, c), UNCHANGED request
  PROVE  CountsHold'
<1>1. Provider' = Provider /\ Found' = Found
  BY FoundStays DEF request
<1>2. candidates' = candidates /\ accepted' = accepted /\ stage' = "done"
  BY DEF Fails
<1>3. PICK failure \in failures : outcome' = Outcome(failure, f, c)
  BY DEF Fails
<1>4. failure # None /\ failure \in {"timeout", "failed"}
  BY PipelineAssumption DEF PipelineAssumption
<1>5. outcome'.status = failure
  BY <1>3, <1>4 DEF Outcome
<1>6. ~Answered(outcome'.status)
  BY <1>4, <1>5 DEF Answered
<1> QED
  BY <1>1, <1>2, <1>6 DEF CountsHold, NotClassified

(* A stage without an answer changes no count.                              *)
LEMMA GoingOnHolds ==
  ASSUME CountsHold, stage \in NotClassified, stage' \in NotClassified, UNCHANGED <<request, at, results>>
  PROVE  CountsHold'
<1>1. Provider' = Provider /\ Found' = Found
  BY FoundStays DEF request
<1>2. candidates' = candidates /\ accepted' = accepted /\ outcome' = outcome /\ at' = at /\ documents' = documents
  BY DEF results, request
<1>3. stage # "done" /\ stage' # "received" /\ stage' # "verify" /\ stage' # "done"
  BY DEF NotClassified
<1> QED
  BY <1>1, <1>2, <1>3 DEF CountsHold

(* One more text with an answer is one more text that was classified.       *)
LEMMA AnswerHolds ==
  ASSUME RequestFits, CountsHold, stage # "done", Provider.status = "available",
         NEW f \in Seq(Found), NEW c \in Seq(Found), Len(f) = at, Len(c) = at,
         \A i \in 1 .. at : c[i] \subseteq f[i],
         candidates' = f, accepted' = c, NextText(f, c), UNCHANGED request
  PROVE  CountsHold'
<1>1. Provider' = Provider /\ Found' = Found /\ documents' = documents
  BY FoundStays DEF request
<1>2. outcome = None
  BY DEF CountsHold
<1>3. DOMAIN c = 1 .. at /\ at \in Nat /\ at \in 1 .. Len(documents)
  BY DEF RequestFits
<1>4. CASE at = Len(documents)
  <2>1. stage' = "done" /\ outcome' = Outcome(None, f, c) /\ at' = at
    BY <1>4 DEF NextText
  <2>2. outcome'.status = Policy!ContextStatus(Sum(f), Sum(c))
    BY <2>1 DEF Outcome
  <2>3. outcome'.status = Policy!ContextStatus(Sum(candidates'), Sum(accepted'))
    BY <2>2
  <2>4. (Policy!ContextStatus(Sum(candidates), Sum(accepted)))' = Policy!ContextStatus(Sum(candidates'), Sum(accepted'))
    BY DEF Policy!ContextStatus
  <2> QED
    BY <1>1, <1>3, <1>4, <2>1, <2>3, <2>4 DEF CountsHold, NotClassified
<1>5. CASE at # Len(documents)
  <2>1. stage' = "scan" /\ at' = at + 1 /\ outcome' = None
    BY <1>2, <1>5 DEF NextText
  <2>2. Len(f) = at' - 1 /\ Len(c) = at' - 1
    BY <1>3, <2>1
  <2> QED
    BY <1>1, <1>3, <2>1, <2>2 DEF CountsHold, NotClassified
<1> QED
  BY <1>4, <1>5

(* Every step keeps the counts of the texts and what was said of them together.*)
LEMMA CountsStay ==
  /\ PipelineInit => CountsHold
  /\ TextHold /\ CountsHold /\ [PipelineNext]_pipelineVars => CountsHold'
<1>1. ASSUME PipelineInit PROVE CountsHold
  BY <1>1 DEF PipelineInit, CountsHold, NotClassified
<1>2. ASSUME TextHold, CountsHold, [PipelineNext]_pipelineVars PROVE CountsHold'
  <2>0. RequestFits
    BY <1>2 DEF TextHold
  <2>1. {} \in Found
    BY FS_EmptySet DEF Found
  <2>2. CASE UNCHANGED pipelineVars
    <3>1. Provider' = Provider /\ Found' = Found
      BY <2>2, FoundStays DEF pipelineVars
    <3> QED
      BY <1>2, <2>2, <3>1 DEF CountsHold, pipelineVars
  <2>3. CASE Match
    <3>1. stage = "received" /\ at' = at /\ candidates' = candidates /\ accepted' = accepted /\ UNCHANGED request
      BY <2>3 DEF Match
    <3>2. Provider' = Provider /\ Found' = Found /\ documents' = documents
      BY <3>1, FoundStays DEF request
    <3>3. at = 1 /\ Len(candidates) = 0 /\ Len(accepted) = 0 /\ outcome = None
      <4>1. Len(accepted) \in Nat /\ Len(accepted) <= Len(candidates)
        BY <1>2 DEF CountsHold
      <4> QED
        BY <1>2, <3>1, <4>1 DEF CountsHold
    <3>4. \/ Provider.status = "available" /\ stage' = "scan" /\ outcome' = None
          \/ stage' = "done" /\ outcome'.status \in {"disabled", "failed"}
      BY <2>3, <3>3 DEF Match, NoCounts
    <3>5. CASE Provider.status = "available" /\ stage' = "scan" /\ outcome' = None
      BY <1>2, <3>1, <3>2, <3>3, <3>5 DEF CountsHold, NotClassified
    <3>6. CASE stage' = "done" /\ outcome'.status \in {"disabled", "failed"}
      BY <1>2, <3>1, <3>2, <3>6 DEF CountsHold, NotClassified, Answered
    <3> QED
      BY <3>4, <3>5, <3>6
  <2>4. CASE Scan
    <3>1. stage = "scan" /\ UNCHANGED request
      BY <2>4 DEF Scan
    <3>2. Len(candidates) = at - 1 /\ Len(accepted) = at - 1 /\ Provider.status = "available"
          /\ candidates \in Seq(Found) /\ accepted \in Seq(Found) /\ \A i \in DOMAIN accepted : accepted[i] \subseteq candidates[i]
      BY <1>2, <3>1 DEF CountsHold, NotClassified
    <3>3. CASE Fails({"failed"}, <<>>, <<>>)
      BY <1>2, <3>1, <3>3, FailureHolds
    <3>4. CASE stage' = "embed" /\ UNCHANGED <<at, results>>
      BY <1>2, <3>1, <3>4, GoingOnHolds DEF NotClassified
    <3>5. CASE /\ NextText(Append(candidates, {}), Append(accepted, {}))
               /\ candidates' = Append(candidates, {}) /\ accepted' = Append(accepted, {})
      <4> DEFINE f == Append(candidates, {})
                 c == Append(accepted, {})
      <4>1. f \in Seq(Found) /\ c \in Seq(Found) /\ Len(f) = at /\ Len(c) = at /\ \A i \in 1 .. at : c[i] \subseteq f[i]
        <5>1. at \in Nat \ {0} /\ DOMAIN accepted = 1 .. at - 1
          BY <2>0, <3>2 DEF RequestFits
        <5>2. /\ f \in Seq(Found) /\ Len(f) = Len(candidates) + 1 /\ f[Len(candidates) + 1] = {}
              /\ \A i \in 1 .. Len(candidates) : f[i] = candidates[i]
          BY <2>1, <3>2, AppendFacts
        <5>3. /\ c \in Seq(Found) /\ Len(c) = Len(accepted) + 1 /\ c[Len(accepted) + 1] = {}
              /\ \A i \in 1 .. Len(accepted) : c[i] = accepted[i]
          BY <2>1, <3>2, AppendFacts
        <5> HIDE DEF f, c
        <5> QED
          BY <3>2, <5>1, <5>2, <5>3
      <4> HIDE DEF f, c
      <4>2. NextText(f, c) /\ candidates' = f /\ accepted' = c
        BY <3>5 DEF f, c
      <4> QED
        BY <1>2, <2>0, <3>1, <3>2, <4>1, <4>2, AnswerHolds
    <3> QED
      BY <2>4, <3>3, <3>4, <3>5 DEF Scan
  <2>5. CASE EmbedFails
    BY <1>2, <2>5, FailureHolds DEF EmbedFails
  <2>6. CASE EmbedBatch
    BY <1>2, <2>6, GoingOnHolds DEF EmbedBatch, NotClassified
  <2>7. CASE BuildSegments
    <3>1. UNCHANGED request /\ at' = at /\ stage = "segment"
      BY <2>7 DEF BuildSegments
    <3>2. CASE Fails({"failed"}, <<>>, <<>>)
      BY <1>2, <3>1, <3>2, FailureHolds
    <3>3. CASE stage' = "map" /\ UNCHANGED results
      BY <1>2, <3>1, <3>3, GoingOnHolds DEF NotClassified
    <3> QED
      BY <2>7, <3>2, <3>3 DEF BuildSegments
  <2>8. CASE Map
    BY <1>2, <2>8, GoingOnHolds DEF Map, NotClassified
  <2>9. CASE PoolVectors
    <3>1. UNCHANGED request /\ at' = at /\ stage = "pool"
      BY <2>9 DEF PoolVectors
    <3>2. CASE Fails({"failed"}, <<>>, <<>>)
      BY <1>2, <3>1, <3>2, FailureHolds
    <3>3. CASE stage' = "classify" /\ UNCHANGED results
      BY <1>2, <3>1, <3>3, GoingOnHolds DEF NotClassified
    <3> QED
      BY <2>9, <3>2, <3>3 DEF PoolVectors
  <2>10. CASE ClassifierFails
    BY <1>2, <2>10, FailureHolds DEF ClassifierFails
  <2>11. CASE Classify
    <3>1. stage = "classify" /\ UNCHANGED request
      BY <2>11 DEF Classify
    <3>2. Len(candidates) = at - 1 /\ Len(accepted) = at - 1 /\ Provider.status = "available" /\ outcome = None
          /\ candidates \in Seq(Found) /\ accepted \in Seq(Found) /\ \A i \in DOMAIN accepted : accepted[i] \subseteq candidates[i]
      BY <1>2, <3>1 DEF CountsHold, NotClassified
    <3>3. PICK rows \in Rows(Len(segments), Len(Provider.bundle.columns)) :
            LET found == Models!Classify(Provider.bundle, rows, Len(segments))
            IN IF found = Bad THEN Fails({"failed"}, candidates, <<>>) /\ UNCHANGED <<at, read>>
               ELSE /\ candidates' = Append(candidates, found)
                    /\ IF found # {} /\ Verifier # Bad
                         THEN /\ stage' = "verify"
                              /\ read' = [c \in Models!Scorable(Verifier, found) |->
                                            ChunksOf(Content(SegmentText(Document, atoms, segments[c[1]])), Verifier.chunks)]
                              /\ UNCHANGED <<at, accepted, outcome>>
                         ELSE /\ accepted' = Append(accepted, {})
                              /\ NextText(Append(candidates, found), Append(accepted, {}))
                              /\ UNCHANGED read
      BY <2>11 DEF Classify
    <3> DEFINE found == Models!Classify(Provider.bundle, rows, Len(segments))
               f == Append(candidates, found)
               c == Append(accepted, {})
    <3>4. CASE found = Bad
      <4>1. Fails({"failed"}, candidates, <<>>)
        BY <3>3, <3>4
      <4> QED
        BY <1>2, <3>1, <4>1, FailureHolds
    <3>5. CASE found # Bad
      <4>1. found \in Found
        <5>1. Len(segments) \in Nat
          BY <1>2, <3>1 DEF TextHold, SegmentsHold, SegmentsFit
        <5> QED
          BY <2>0, <3>2, <3>5, <5>1, ClassifiedFinite
      <4>2. at \in Nat \ {0} /\ DOMAIN accepted = 1 .. at - 1
        BY <2>0, <3>2 DEF RequestFits
      <4>3. /\ f \in Seq(Found) /\ Len(f) = at /\ f[at] = found
            /\ \A i \in 1 .. at - 1 : f[i] = candidates[i]
        <5> HIDE DEF found
        <5>1. /\ f \in Seq(Found) /\ Len(f) = Len(candidates) + 1 /\ f[Len(candidates) + 1] = found
              /\ \A i \in 1 .. Len(candidates) : f[i] = candidates[i]
          BY <3>2, <4>1, AppendFacts
        <5> HIDE DEF f
        <5> QED
          BY <3>2, <4>2, <5>1
      <4>4. /\ c \in Seq(Found) /\ Len(c) = at /\ c[at] = {}
            /\ \A i \in 1 .. at - 1 : c[i] = accepted[i]
        <5>1. /\ c \in Seq(Found) /\ Len(c) = Len(accepted) + 1 /\ c[Len(accepted) + 1] = {}
              /\ \A i \in 1 .. Len(accepted) : c[i] = accepted[i]
          BY <2>1, <3>2, AppendFacts
        <5> HIDE DEF c
        <5> QED
          BY <3>2, <4>2, <5>1
      <4>5. candidates' = f
        BY <3>3, <3>5
      <4>6. CASE found # {} /\ Verifier # Bad
        <5>1. /\ stage' = "verify" /\ at' = at /\ accepted' = accepted /\ outcome' = outcome
              /\ read' = [p \in Models!Scorable(Verifier, found) |->
                            ChunksOf(Content(SegmentText(Document, atoms, segments[p[1]])), Verifier.chunks)]
          BY <3>3, <3>5, <4>6
        <5>2. DOMAIN read' \subseteq found
          BY <5>1 DEF Models!Scorable
        <5>3. Provider' = Provider /\ Found' = Found
          BY <3>1, FoundStays DEF request
        <5> HIDE DEF f, found, c
        <5>4. \A i \in DOMAIN accepted' : accepted'[i] \subseteq candidates'[i]
          BY <3>2, <4>2, <4>3, <4>5, <5>1
        <5>5. Len(accepted') <= Len(candidates') /\ Len(candidates') = at' /\ Len(accepted') = at' - 1
          BY <3>2, <4>2, <4>3, <4>5, <5>1
        <5>6. candidates' \in Seq(Found) /\ accepted' \in Seq(Found) /\ DOMAIN read' \subseteq candidates'[at']
          BY <3>2, <4>3, <4>5, <5>1, <5>2
        <5> QED
          BY <3>2, <5>1, <5>3, <5>4, <5>5, <5>6 DEF CountsHold, NotClassified
      <4>7. CASE ~(found # {} /\ Verifier # Bad)
        <5>1. accepted' = c /\ NextText(f, c)
          BY <3>3, <3>5, <4>7
        <5> HIDE DEF f, found, c
        <5>2. \A i \in 1 .. at : c[i] \subseteq f[i]
          BY <3>2, <4>2, <4>3, <4>4
        <5> QED
          BY <1>2, <2>0, <3>1, <3>2, <4>3, <4>4, <4>5, <5>1, <5>2, AnswerHolds
      <4> QED
        BY <4>6, <4>7
    <3> QED
      BY <3>4, <3>5
  <2>12. CASE VerifierFails
    BY <1>2, <2>12, FailureHolds DEF VerifierFails
  <2>13. CASE Verify
    <3>1. stage = "verify" /\ UNCHANGED request
      BY <2>13 DEF Verify
    <3>2. Provider.status = "available" /\ Len(candidates) = at /\ Len(accepted) = at - 1 /\ outcome = None /\ DOMAIN read \subseteq candidates[at]
          /\ candidates \in Seq(Found) /\ accepted \in Seq(Found) /\ \A i \in DOMAIN accepted : accepted[i] \subseteq candidates[i]
      BY <1>2, <3>1 DEF CountsHold
    <3> DEFINE sizes == [p \in DOMAIN read |-> Cardinality(read[p])]
    <3>3. PICK scores \in [DOMAIN read -> UNION {Scores(sizes[p]) : p \in DOMAIN read}] :
            LET confirmed == Models!Verify(Verifier, scores, sizes)
            IN IF confirmed = Bad THEN Fails({"failed"}, candidates, accepted) /\ UNCHANGED at
               ELSE /\ accepted' = Append(accepted, confirmed)
                    /\ NextText(candidates, Append(accepted, confirmed))
                    /\ UNCHANGED candidates
      BY <2>13 DEF Verify
    <3> DEFINE confirmed == Models!Verify(Verifier, scores, sizes)
               c == Append(accepted, confirmed)
    <3>4. CASE confirmed = Bad
      <4>1. Fails({"failed"}, candidates, accepted)
        BY <3>3, <3>4
      <4> QED
        BY <1>2, <3>1, <4>1, FailureHolds
    <3>5. CASE confirmed # Bad
      <4>1. at \in Nat \ {0} /\ DOMAIN accepted = 1 .. at - 1 /\ at \in 1 .. Len(candidates)
        BY <2>0, <3>2 DEF RequestFits
      <4>2. confirmed \subseteq candidates[at]
        BY <3>2, <3>5 DEF Models!Verify
      <4>3. confirmed \in Found
        <5>1. candidates[at] \in Found
          BY <3>2, <4>1
        <5> HIDE DEF confirmed
        <5> QED
          BY <4>2, <5>1, FS_Subset DEF Found
      <4>4. /\ c \in Seq(Found) /\ Len(c) = at /\ c[at] = confirmed
            /\ \A i \in 1 .. at - 1 : c[i] = accepted[i]
        <5> HIDE DEF confirmed
        <5>1. /\ c \in Seq(Found) /\ Len(c) = Len(accepted) + 1 /\ c[Len(accepted) + 1] = confirmed
              /\ \A i \in 1 .. Len(accepted) : c[i] = accepted[i]
          BY <3>2, <4>3, AppendFacts
        <5> HIDE DEF c
        <5> QED
          BY <3>2, <4>1, <5>1
      <4>5. accepted' = c /\ NextText(candidates, c) /\ candidates' = candidates
        BY <3>3, <3>5
      <4> HIDE DEF c, confirmed
      <4>7. \A i \in 1 .. at : c[i] \subseteq candidates[i]
        BY <3>2, <4>1, <4>2, <4>4
      <4> QED
        BY <1>2, <2>0, <3>1, <3>2, <4>4, <4>5, <4>7, AnswerHolds
    <3> QED
      BY <3>4, <3>5
  <2> QED
    BY <1>2, <2>2, <2>3, <2>4, <2>5, <2>6, <2>7, <2>8, <2>9, <2>10, <2>11, <2>12, <2>13 DEF PipelineNext
<1> QED
  BY <1>1, <1>2

(* In every state, whatever the models answer: what a verifier confirmed    *)
(* was a candidate, and "no_candidate" is said only when every text was     *)
(* classified and none had one.                                             *)
THEOREM ClearIsAlwaysClassified == PipelineSpec => []ClearMeansClassified
<1>2. PipelineInit => CountsHold
  BY CountsStay
<1>3. TextHold /\ CountsHold /\ [PipelineNext]_pipelineVars => CountsHold'
  BY CountsStay
<1>4. CountsHold => ClearMeansClassified
  BY CountsClear
<1> QED
  BY <1>2, <1>3, <1>4, TextHolds, PTL DEF PipelineSpec

-------------------------------------------------------------------------------
(***************************************************************************)
(* Masks.                                                                  *)
(***************************************************************************)
Detections(text) == [key : Int, range : TextRanges(text)]

(* A text has finitely many ranges.                                         *)
LEMMA TextRangesFinite ==
  ASSUME NEW A, NEW text \in Seq(A)
  PROVE  IsFiniteSet(TextRanges(text))
<1> DEFINE n == Len(text)
           T == TextRanges(text)
           box == (0 .. n) \X (0 .. n)
           f == [r \in T |-> <<r.start, r.end>>]
<1>1. n \in Nat
  OBVIOUS
<1>2. ASSUME NEW p \in T PROVE p.start \in 0 .. n /\ p.end \in 0 .. n /\ p = [start |-> p.start, end |-> p.end]
  BY DEF TextRanges
<1> HIDE DEF T, n
<1>3. \A p, q \in T : f[p] = f[q] => p = q
  BY <1>2
<1>4. f \in [T -> box]
  BY <1>2
<1>5. f \in Injection(T, box)
  BY <1>3, <1>4 DEF Injection, IsInjective
<1>6. IsFiniteSet(0 .. n)
  BY <1>1, FS_Interval
<1>7. IsFiniteSet(box)
  BY <1>6, FS_Product
<1> HIDE DEF f, box
<1> QED
  BY <1>5, <1>7, FS_Injection DEF T

(* What the masking rules find are finitely many ranges of the text.        *)
LEMMA DetectionsFit ==
  ASSUME NEW A, NEW text \in Seq(A), NEW masking, masking \subseteq Rules
  PROVE  /\ DetectionsForMasking(text, masking) \subseteq Detections(text)
         /\ IsFiniteSet(DetectionsForMasking(text, masking))
<1> DEFINE D == DetectionsForMasking(text, masking)
           K == {Key[r] : r \in Rules}
           T == TextRanges(text)
           box == K \X T
           f == [d \in D |-> <<d.key, d.range>>]
           g == [r \in Rules |-> Key[r]]
<1>1. ASSUME NEW rule \in Rules PROVE Spans(rule, text) \subseteq T
  <2>1. Kind[rule] \in {"detector", "keyword", "regex", "context_rule"}
    BY ScanningAssumption DEF ScanningAssumption
  <2>2. CASE Kind[rule] = "detector"
    BY <2>2, MatchesAreRanges DEF Spans, Detect
  <2>3. CASE Kind[rule] \in {"keyword", "regex"}
    <3>1. Spans(rule, text) = {s.original : s \in Signals(rule, text) \ ScanFailures(rule, text)}
      BY <2>3 DEF Spans
    <3>2. \A s \in Signals(rule, text) : s.original \in T
      BY MatchesCovered
    <3> QED
      BY <3>1, <3>2
  <2>4. CASE Kind[rule] = "context_rule"
    BY <2>4 DEF Spans
  <2> QED
    BY <2>1, <2>2, <2>3, <2>4
<1>2. ASSUME NEW d \in D
      PROVE  d.key \in K /\ d.range \in T /\ d = [key |-> d.key, range |-> d.range]
  <2>1. PICK rule \in masking : d \in {[key |-> Key[rule], range |-> e] : e \in Spans(rule, text)}
    BY DEF DetectionsForMasking
  <2>2. PICK e \in Spans(rule, text) : d = [key |-> Key[rule], range |-> e]
    BY <2>1
  <2> QED
    BY <1>1, <2>1, <2>2
<1>3. K \subseteq Int
  BY ScanningAssumption DEF ScanningAssumption
<1>4. D \subseteq Detections(text)
  BY <1>2, <1>3 DEF Detections
<1> HIDE DEF D, T
<1>5. f \in Injection(D, box)
  <2>1. \A d, e \in D : f[d] = f[e] => d = e
    BY <1>2
  <2>2. f \in [D -> box]
    BY <1>2
  <2> QED
    BY <2>1, <2>2 DEF Injection, IsInjective
<1>6. IsFiniteSet(K)
  <2>1. g \in Surjection(Rules, K)
    BY DEF Surjection
  <2> HIDE DEF g, K
  <2> QED
    BY <2>1, ScanningAssumption, FS_Surjection DEF ScanningAssumption
<1>7. IsFiniteSet(T)
  BY TextRangesFinite DEF T
<1>8. IsFiniteSet(box)
  BY <1>6, <1>7, FS_Product
<1> HIDE DEF f, box
<1>9. IsFiniteSet(D)
  BY <1>5, <1>8, FS_Injection
<1> QED
  BY <1>4, <1>9 DEF D

(* What a detection holds.                                                  *)
LEMMA DetectionFacts ==
  ASSUME NEW A, NEW text \in Seq(A), NEW d \in Detections(text)
  PROVE  /\ d.range.start \in Nat /\ d.range.end \in Nat /\ d.range.start < d.range.end /\ d.range.end <= Len(text)
         /\ d.key \in Int /\ Size(d) \in Nat /\ Size(d) = d.range.end - d.range.start
         /\ d = [key |-> d.key, range |-> [start |-> d.range.start, end |-> d.range.end]]
<1>1. d.key \in Int /\ d.range \in TextRanges(text) /\ d = [key |-> d.key, range |-> d.range]
  BY DEF Detections
<1>2. /\ d.range.start \in 0 .. Len(text) /\ d.range.end \in 0 .. Len(text) /\ d.range.start < d.range.end /\ Len(text) \in Nat
      /\ d.range = [start |-> d.range.start, end |-> d.range.end]
  BY <1>1 DEF TextRanges
<1> QED
  BY <1>1, <1>2 DEF Size

(* Longest first, then leftmost, then by key, is an order of detections.    *)
LEMMA PrecedesOrders ==
  ASSUME NEW A, NEW text \in Seq(A), NEW D, D \subseteq Detections(text), NEW R, \A a, b \in D : <<a, b>> \in R <=> Precedes(a, b)
  PROVE  StrictOrder(R, D)
<1>1. ASSUME NEW a \in D PROVE a.range.start \in Nat /\ a.key \in Int /\ Size(a) \in Nat /\ Size(a) = a.range.end - a.range.start
        /\ a.range.end \in Nat /\ a = [key |-> a.key, range |-> [start |-> a.range.start, end |-> a.range.end]]
  <2>1. a \in Detections(text)
    OBVIOUS
  <2> QED
    BY <2>1, DetectionFacts
<1>2. \A a \in D : <<a, a>> \notin R
  BY <1>1 DEF Precedes
<1>3. ASSUME NEW a \in D, NEW b \in D, a # b PROVE <<a, b>> \in R \/ <<b, a>> \in R
  <2>1. Size(a) # Size(b) \/ a.range.start # b.range.start \/ a.key # b.key
    <3> SUFFICES ASSUME Size(a) = Size(b), a.range.start = b.range.start, a.key = b.key PROVE a = b
      BY <1>3
    <3>1. a.range.end = b.range.end
      BY <1>1
    <3> QED
      BY <1>1, <3>1
  <2> QED
    BY <1>1, <2>1 DEF Precedes
<1>4. ASSUME NEW a \in D, NEW b \in D, NEW c \in D, <<a, b>> \in R, <<b, c>> \in R PROVE <<a, c>> \in R
  <2>1. Precedes(a, b) /\ Precedes(b, c)
    BY <1>4
  <2>2. Precedes(a, c)
    <3> DEFINE sa == Size(a)
               sb == Size(b)
               sc == Size(c)
               ta == a.range.start
               tb == b.range.start
               tc == c.range.start
               ka == a.key
               kb == b.key
               kc == c.key
    <3>1. {sa, sb, sc, ta, tb, tc} \subseteq Nat /\ {ka, kb, kc} \subseteq Int
      BY <1>1
    <3>2. sa > sb \/ (sa = sb /\ ta < tb) \/ (sa = sb /\ ta = tb /\ ka < kb)
      BY <2>1 DEF Precedes
    <3>3. sb > sc \/ (sb = sc /\ tb < tc) \/ (sb = sc /\ tb = tc /\ kb < kc)
      BY <2>1 DEF Precedes
    <3> HIDE DEF sa, sb, sc, ta, tb, tc, ka, kb, kc
    <3>4. sa > sc \/ (sa = sc /\ ta < tc) \/ (sa = sc /\ ta = tc /\ ka < kc)
      BY <3>1, <3>2, <3>3
    <3> QED
      BY <3>4 DEF Precedes, sa, sb, sc, ta, tb, tc, ka, kb, kc
  <2> QED
    BY <2>2
<1> QED
  BY <1>2, <1>3, <1>4 DEF StrictOrder

(* Sorting the detections by how they precede each other loses none.        *)
LEMMA DetectionsSorted ==
  ASSUME NEW A, NEW text \in Seq(A), NEW D, D \subseteq Detections(text), IsFiniteSet(D)
  PROVE  LET s == Sorted(D, Precedes) IN
         /\ Cardinality(D) \in Nat /\ DOMAIN s = 1 .. Cardinality(D) /\ s \in [1 .. Cardinality(D) -> D]
         /\ \A d \in D : \E k \in 1 .. Cardinality(D) : s[k] = d
<1> DEFINE R == {p \in D \X D : Precedes(p[1], p[2])}
           s == Sorted(D, Precedes)
           Below(x) == {y \in D : Precedes(y, x)}
<1>1. \A x, y \in D : <<x, y>> \in R <=> Precedes(x, y)
  OBVIOUS
<1> HIDE DEF R
<1>2. \A x \in D : Below(x) = Under(R, D, x)
  BY <1>1 DEF Under
<1>3. StrictOrder(R, D)
  BY <1>1, PrecedesOrders
<1>4. s = [k \in 1 .. Cardinality(D) |-> CHOOSE x \in D : Cardinality(Below(x)) = k - 1]
  BY DEF Sorted
<1> HIDE DEF s, Below
<1>5. ASSUME NEW k \in 1 .. Cardinality(D), NEW x \in D, Cardinality(Under(R, D, x)) = k - 1
      PROVE  s[k] \in D /\ Cardinality(Under(R, D, s[k])) = k - 1
  <2>1. s[k] = CHOOSE y \in D : Cardinality(Below(y)) = k - 1
    BY <1>4
  <2>2. \E y \in D : Cardinality(Below(y)) = k - 1
    BY <1>2, <1>5
  <2>3. s[k] \in D /\ Cardinality(Below(s[k])) = k - 1
    BY <2>1, <2>2
  <2> QED
    BY <1>2, <2>3
<1>6. s = [k \in 1 .. Cardinality(D) |-> s[k]]
  BY <1>4
<1>7. Enumerates(s, D, R)
  BY <1>3, <1>5, <1>6, SortedLists
<1> QED
  BY <1>7 DEF Enumerates, s

(* Detections that are taken are apart, and each one overlaps one of them.  *)
Accepted(detections) ==
  FoldLeft(LAMBDA taken, d : IF \E e \in taken : Overlap(d.range, e.range) THEN taken ELSE taken \cup {d},
           {}, Sorted(detections, Precedes))

(* Each detection overlaps one that is taken, if not itself.                *)
LEMMA AcceptedFacts ==
  ASSUME NEW A, NEW text \in Seq(A), NEW D, D \subseteq Detections(text), IsFiniteSet(D)
  PROVE  /\ Accepted(D) \subseteq D
         /\ \A d, e \in Accepted(D) : d # e => Apart(d.range, e.range)
         /\ \A d \in D : \E e \in Accepted(D) : Overlap(d.range, e.range)
<1> DEFINE n == Cardinality(D)
           St == SUBSET D
           Step(taken, d) == IF \E e \in taken : Overlap(d.range, e.range) THEN taken ELSE taken \cup {d}
           ids == Sorted(D, Precedes)
           F == [p \in (1 .. n) \X St |-> Step(p[2], ids[p[1]])]
           Iterates(g) == g = [s \in SUBSET DOMAIN ids |->
                                 IF s = {} THEN {} ELSE Step(g[s \ {Max(s)}], ids[Max(s)])]
           iter == CHOOSE g : Iterates(g)
<1>1. n \in Nat /\ DOMAIN ids = 1 .. n /\ \A k \in 1 .. n : ids[k] \in D
  <2> HIDE DEF n, ids
  <2> QED
    BY DetectionsSorted DEF n, ids
<1>15. \A d \in D : \E k \in 1 .. n : ids[k] = d
  <2> HIDE DEF n, ids
  <2> QED
    BY DetectionsSorted DEF n, ids
<1>2. Accepted(D) = iter[1 .. n]
  <2>1. DOMAIN ids = 1 .. n
    BY <1>1
  <2> QED
    BY <2>1 DEF Accepted, FoldLeft, MapThenFoldSet
<1>3. ASSUME NEW taken \in St, NEW d \in D PROVE Step(taken, d) \in St
  OBVIOUS
<1>4. {} \in St
  OBVIOUS
<1>5. \A taken, d : Step(taken, d) = IF \E e \in taken : Overlap(d.range, e.range) THEN taken ELSE taken \cup {d}
  OBVIOUS
<1> HIDE DEF Step, St, ids, n
<1>6. F \in [(1 .. n) \X St -> St] /\ \A i \in 1 .. n, taken \in St : F[<<i, taken>>] = Step(taken, ids[i])
  BY <1>1, <1>3
<1> HIDE DEF F
<1>7. \E g : Iterates(g)
  <2>1. n \in Nat /\ {} \in St /\ F \in [(1 .. n) \X St -> St]
    BY <1>1, <1>4, <1>6
  <2>2. \E g \in [SUBSET (1 .. n) -> St] : Folded(g, n, {}, F)
    <3> HIDE DEF n
    <3> QED
      BY <2>1, FoldExists
  <2>3. PICK g \in [SUBSET (1 .. n) -> St] : Folded(g, n, {}, F)
    BY <2>2
  <2>4. \A s \in SUBSET (1 .. n) : g[s] = IF s = {} THEN {} ELSE Step(g[s \ {Max(s)}], ids[Max(s)])
    <3> SUFFICES ASSUME NEW s \in SUBSET (1 .. n), s # {} PROVE g[s] = Step(g[s \ {Max(s)}], ids[Max(s)])
      BY <2>3 DEF Folded
    <3>1. Max(s) \in 1 .. n /\ s \ {Max(s)} \in SUBSET (1 .. n)
      BY <2>1, MaxOfSubset
    <3>2. g[s \ {Max(s)}] \in St /\ g[s] = F[<<Max(s), g[s \ {Max(s)}]>>]
      BY <2>3, <3>1 DEF Folded
    <3> QED
      BY <1>6, <3>1, <3>2
  <2> HIDE DEF ids
  <2>5. Iterates(g)
    BY <1>1, <2>3, <2>4
  <2> QED
    BY <2>5
<1>8. Iterates(iter)
  <2> HIDE DEF Iterates
  <2> QED
    BY <1>7
<1>9. FoldedWithin(iter, n, {}, St, F)
  <2>1. iter[{}] = {} /\ \A s \in SUBSET (1 .. n) : s # {} => iter[s] = Step(iter[s \ {Max(s)}], ids[Max(s)])
    <3> HIDE DEF iter, ids
    <3> QED
      BY <1>1, <1>8
  <2> HIDE DEF iter
  <2>2. ASSUME NEW s \in SUBSET (1 .. n), s # {}, iter[s \ {Max(s)}] \in St
        PROVE  iter[s] = F[<<Max(s), iter[s \ {Max(s)}]>>]
    <3>1. Max(s) \in 1 .. n
      BY <1>1, <2>2, MaxOfSubset
    <3> QED
      BY <1>6, <2>1, <2>2, <3>1
  <2> QED
    BY <2>1, <2>2 DEF FoldedWithin
<1>10. \E h \in [0 .. n -> St] : Stepwise(h, iter, n, {}, F)
  <2>1. n \in Nat /\ {} \in St /\ F \in [(1 .. n) \X St -> St]
    BY <1>1, <1>4, <1>6
  <2> HIDE DEF n, iter
  <2> QED
    BY <1>9, <2>1, FoldSteps
<1>11. PICK h \in [0 .. n -> St] :
        h[0] = {} /\ h[n] = iter[1 .. n] /\ \A i \in 1 .. n : h[i] = F[<<i, h[i - 1]>>]
  BY <1>10 DEF Stepwise
<1>12. \A k \in 1 .. n : h[k] = Step(h[k - 1], ids[k]) /\ h[k - 1] \subseteq D
  <2> SUFFICES ASSUME NEW k \in 1 .. n PROVE h[k] = Step(h[k - 1], ids[k]) /\ h[k - 1] \subseteq D
    OBVIOUS
  <2>1. k - 1 \in 0 .. n /\ h[k - 1] \in St
    BY <1>1
  <2> QED
    BY <1>6, <1>11, <2>1 DEF St
<1>13. ASSUME NEW d \in D, NEW e \in D
       PROVE  Overlap(d.range, d.range) /\ (Overlap(d.range, e.range) \/ (Apart(d.range, e.range) /\ Apart(e.range, d.range)))
  <2>1. d \in Detections(text) /\ e \in Detections(text)
    OBVIOUS
  <2>2. /\ d.range.start \in Nat /\ d.range.end \in Nat /\ d.range.start < d.range.end
        /\ e.range.start \in Nat /\ e.range.end \in Nat /\ e.range.start < e.range.end
    BY <2>1, DetectionFacts
  <2> QED
    BY <2>2 DEF Overlap, Apart
<1> DEFINE Good(k) == /\ \A d, e \in h[k] : d # e => Apart(d.range, e.range)
                      /\ \A j \in 1 .. k : \E e \in h[k] : Overlap(ids[j].range, e.range)
           T == {k \in 0 .. n : ~Good(k)}
<1>14. T = {}
  <2> SUFFICES ASSUME T # {} PROVE FALSE
    OBVIOUS
  <2>1. T \subseteq Nat
    BY <1>1
  <2>2. PICK k \in T : \A j \in T : k <= j
    <3> HIDE DEF T
    <3> QED
      BY <2>1, LeastNumber
  <2>3. k # 0
    <3>1. Good(0)
      <4>1. h[0] = {}
        BY <1>11
      <4> QED
        BY <4>1
    <3> HIDE DEF Good
    <3> QED
      BY <2>2, <3>1
  <2>4. k \in 1 .. n /\ k - 1 \in 0 .. n /\ ~(k <= k - 1)
    BY <1>1, <2>2, <2>3
  <2>5. Good(k - 1)
    <3>1. k - 1 \notin T
      BY <2>2, <2>4
    <3> HIDE DEF Good
    <3> QED
      BY <2>4, <3>1
  <2> DEFINE taken == h[k - 1]
             d == ids[k]
  <2>6. taken \subseteq D /\ d \in D /\ h[k] = IF \E e \in taken : Overlap(d.range, e.range) THEN taken ELSE taken \cup {d}
    BY <1>1, <1>5, <1>12, <2>4
  <2>7. \A j \in 1 .. k : j \in 1 .. k - 1 \/ j = k
    BY <2>4
  <2>8. \A p, q \in h[k] : p # q => Apart(p.range, q.range)
    <3>1. CASE \E e \in taken : Overlap(d.range, e.range)
      BY <2>5, <2>6, <3>1
    <3>2. CASE ~ \E e \in taken : Overlap(d.range, e.range)
      <4>1. h[k] = taken \cup {d}
        BY <2>6, <3>2
      <4>2. \A e \in taken : Apart(d.range, e.range) /\ Apart(e.range, d.range)
        BY <1>13, <2>6, <3>2
      <4>3. \A p, q \in taken : p # q => Apart(p.range, q.range)
        BY <2>5
      <4> HIDE DEF taken, d
      <4> QED
        BY <4>1, <4>2, <4>3
    <3> QED
      BY <3>1, <3>2
  <2>9. \A j \in 1 .. k : \E e \in h[k] : Overlap(ids[j].range, e.range)
    <3> SUFFICES ASSUME NEW j \in 1 .. k PROVE \E e \in h[k] : Overlap(ids[j].range, e.range)
      OBVIOUS
    <3>1. CASE j \in 1 .. k - 1
      <4>1. PICK e \in taken : Overlap(ids[j].range, e.range)
        BY <2>5, <3>1
      <4>2. taken \subseteq h[k]
        BY <2>6
      <4> QED
        BY <4>1, <4>2
    <3>2. CASE j = k
      <4>1. CASE \E e \in taken : Overlap(d.range, e.range)
        BY <2>6, <3>2, <4>1
      <4>2. CASE ~ \E e \in taken : Overlap(d.range, e.range)
        <5>1. d \in h[k] /\ Overlap(d.range, d.range)
          BY <1>13, <2>6, <4>2
        <5> QED
          BY <3>2, <5>1
      <4> QED
        BY <4>1, <4>2
    <3> QED
      BY <2>7, <3>1, <3>2
  <2>10. Good(k)
    BY <2>8, <2>9
  <2> HIDE DEF Good
  <2> QED
    BY <2>2, <2>10
<1>16. n \in 0 .. n /\ h[n] \in St
  BY <1>1
<1>17. Good(n)
  <2> HIDE DEF Good
  <2> QED
    BY <1>14, <1>16
<1>18. Accepted(D) = h[n]
  BY <1>2, <1>11
<1> HIDE DEF iter
<1> QED
  BY <1>15, <1>16, <1>17, <1>18 DEF St

(* The detections that are taken, from left to right.                       *)
LEMMA TakenFacts ==
  ASSUME NEW A, NEW text \in Seq(A), NEW D, D \subseteq Detections(text), IsFiniteSet(D)
  PROVE  LET taken == NonOverlapping(D)
             n == Cardinality(Accepted(D))
         IN /\ n \in Nat /\ DOMAIN taken = 1 .. n /\ taken \in [1 .. n -> D]
            /\ \A j, k \in 1 .. n : j < k => taken[j].range.end <= taken[k].range.start
            /\ \A d \in D : \E k \in 1 .. n : Overlap(d.range, taken[k].range)
<1> DEFINE S == Accepted(D)
           R == {p \in S \X S : p[1].range.start < p[2].range.start}
           s == Sorted(S, LAMBDA a, b : a.range.start < b.range.start)
           Below(x) == {y \in S : y.range.start < x.range.start}
<1>1. NonOverlapping(D) = s
  BY DEF NonOverlapping, Accepted
<1>2. /\ S \subseteq D /\ \A d, e \in S : d # e => Apart(d.range, e.range)
      /\ \A d \in D : \E e \in S : Overlap(d.range, e.range)
  BY AcceptedFacts
<1>3. IsFiniteSet(S)
  BY <1>2, FS_Subset
<1>4. ASSUME NEW x \in S PROVE x.range.start \in Nat /\ x.range.end \in Nat /\ x.range.start < x.range.end
  <2>1. x \in Detections(text)
    BY <1>2
  <2> QED
    BY <2>1, DetectionFacts
<1>5. \A x, y \in S : <<x, y>> \in R <=> x.range.start < y.range.start
  OBVIOUS
<1> HIDE DEF R
<1>6. \A x \in S : Below(x) = Under(R, S, x)
  BY <1>5 DEF Under
<1>7. StrictOrder(R, S)
  <2>1. \A x \in S : <<x, x>> \notin R
    BY <1>4, <1>5
  <2>2. ASSUME NEW x \in S, NEW y \in S, x # y PROVE <<x, y>> \in R \/ <<y, x>> \in R
    <3>1. x.range.end <= y.range.start \/ y.range.end <= x.range.start
      BY <1>2, <2>2 DEF Apart
    <3>2. x.range.start < y.range.start \/ y.range.start < x.range.start
      BY <1>4, <3>1
    <3> QED
      BY <1>5, <3>2
  <2>3. ASSUME NEW x \in S, NEW y \in S, NEW z \in S, <<x, y>> \in R, <<y, z>> \in R PROVE <<x, z>> \in R
    <3>1. x.range.start < z.range.start
      <4>1. x.range.start < y.range.start /\ y.range.start < z.range.start
        BY <1>5, <2>3
      <4> QED
        BY <1>4, <4>1
    <3> QED
      BY <1>5, <3>1
  <2> QED
    BY <2>1, <2>2, <2>3 DEF StrictOrder
<1>8. s = [k \in 1 .. Cardinality(S) |-> CHOOSE x \in S : Cardinality(Below(x)) = k - 1]
  BY DEF Sorted
<1> HIDE DEF s, Below, S
<1>9. ASSUME NEW k \in 1 .. Cardinality(S), NEW x \in S, Cardinality(Under(R, S, x)) = k - 1
      PROVE  s[k] \in S /\ Cardinality(Under(R, S, s[k])) = k - 1
  <2>1. s[k] = CHOOSE y \in S : Cardinality(Below(y)) = k - 1
    BY <1>8
  <2>2. \E y \in S : Cardinality(Below(y)) = k - 1
    BY <1>6, <1>9
  <2>3. s[k] \in S /\ Cardinality(Below(s[k])) = k - 1
    BY <2>1, <2>2
  <2> QED
    BY <1>6, <2>3
<1>10. s = [k \in 1 .. Cardinality(S) |-> s[k]]
  BY <1>8
<1>11. Enumerates(s, S, R)
  BY <1>3, <1>7, <1>9, <1>10, SortedLists
<1> DEFINE n == Cardinality(S)
<1>12. n \in Nat /\ DOMAIN s = 1 .. n /\ s \in [1 .. n -> S] /\ \A x \in S : \E k \in 1 .. n : s[k] = x
  BY <1>11 DEF Enumerates
<1>13. ASSUME NEW j \in 1 .. n, NEW k \in 1 .. n, j < k PROVE s[j].range.end <= s[k].range.start
  <2>1. s[j] \in S /\ s[k] \in S /\ <<s[j], s[k]>> \in R
    BY <1>11, <1>13 DEF Enumerates
  <2>2. s[j].range.start < s[k].range.start
    BY <1>5, <2>1
  <2>3. s[j] # s[k]
    BY <1>4, <2>1, <2>2
  <2>4. s[j].range.end <= s[k].range.start \/ s[k].range.end <= s[j].range.start
    BY <1>2, <2>1, <2>3 DEF Apart
  <2> QED
    BY <1>4, <2>1, <2>2, <2>4
<1>14. s \in [1 .. n -> D]
  BY <1>2, <1>12
<1>15. \A d \in D : \E k \in 1 .. n : Overlap(d.range, s[k].range)
  <2> SUFFICES ASSUME NEW d \in D PROVE \E k \in 1 .. n : Overlap(d.range, s[k].range)
    OBVIOUS
  <2>1. PICK e \in S : Overlap(d.range, e.range)
    BY <1>2
  <2>2. PICK k \in 1 .. n : s[k] = e
    BY <1>12
  <2> QED
    BY <2>1, <2>2
<1> QED
  BY <1>1, <1>12, <1>13, <1>14, <1>15 DEF S

(* A value has one placeholder, and a placeholder one value: the number of  *)
(* the first detection of a value counts the values up to it.               *)
LEMMA PlaceholdersApart ==
  ASSUME NEW text, NEW taken, NEW n \in Nat, NEW j \in 1 .. n, NEW k \in 1 .. n
  PROVE  Placeholder(text, taken, j) = Placeholder(text, taken, k)
           <=> Identity(text, taken[j]) = Identity(text, taken[k])
<1> DEFINE id(i) == Identity(text, taken[i])
           Same(i) == {h \in 1 .. i : id(h) = id(i)}
           first(i) == Least(Same(i))
           Upto(i, key) == {h \in 1 .. first(i) : taken[h].key = key}
           values(i) == {id(h) : h \in Upto(i, taken[i].key)}
<1>1. \A i : id(i).key = taken[i].key
  BY DEF Identity
<1>2. \A i : Placeholder(text, taken, i) = [key |-> taken[i].key, number |-> Cardinality(values(i))]
  BY DEF Placeholder
<1> HIDE DEF id
<1>3. ASSUME NEW i \in 1 .. n
      PROVE  /\ first(i) \in 1 .. i /\ id(first(i)) = id(i)
             /\ \A h \in 1 .. i : id(h) = id(i) => first(i) <= h
  <2>1. Same(i) \subseteq Nat /\ i \in Same(i)
    OBVIOUS
  <2> HIDE DEF Same
  <2>2. first(i) \in Same(i) /\ \A h \in Same(i) : first(i) <= h
    BY <2>1, LeastOf
  <2> QED
    BY <2>2 DEF Same
<1> HIDE DEF first
<1>4. ASSUME NEW a \in 1 .. n, NEW b \in 1 .. n, id(a) = id(b) PROVE first(a) <= first(b)
  <2>1. first(b) \in 1 .. b /\ id(first(b)) = id(a) /\ first(a) \in 1 .. a
    BY <1>3, <1>4
  <2>2. CASE first(b) <= a
    <3>1. first(b) \in 1 .. a
      BY <2>1, <2>2
    <3> QED
      BY <1>3, <2>1, <3>1
  <2>3. CASE ~(first(b) <= a)
    BY <2>1, <2>3
  <2> QED
    BY <2>2, <2>3
<1>5. ASSUME NEW a \in 1 .. n, NEW b \in 1 .. n, id(a) = id(b)
      PROVE  Placeholder(text, taken, a) = Placeholder(text, taken, b)
  <2>1. first(a) = first(b)
    <3>1. first(a) <= first(b) /\ first(b) <= first(a) /\ first(a) \in Nat /\ first(b) \in Nat
      BY <1>3, <1>4, <1>5
    <3> QED
      BY <3>1
  <2>2. taken[a].key = taken[b].key
    BY <1>1, <1>5
  <2>3. values(a) = values(b)
    BY <2>1, <2>2
  <2> HIDE DEF values
  <2> QED
    BY <1>2, <2>2, <2>3
<1>6. \A i \in 1 .. n : IsFiniteSet(values(i))
  <2> SUFFICES ASSUME NEW i \in 1 .. n PROVE IsFiniteSet(values(i))
    OBVIOUS
  <2> DEFINE U == Upto(i, taken[i].key)
             V == values(i)
             f == [h \in U |-> id(h)]
  <2>1. first(i) \in Nat /\ U \subseteq 1 .. first(i)
    BY <1>3
  <2>2. IsFiniteSet(U)
    BY <2>1, CountTo, FS_Subset
  <2>3. f \in Surjection(U, V)
    BY DEF Surjection
  <2> HIDE DEF U, V, f
  <2>4. IsFiniteSet(V)
    BY <2>2, <2>3, FS_Surjection
  <2> QED
    BY <2>4 DEF V
<1>7. ASSUME NEW a \in 1 .. n, NEW b \in 1 .. n, first(a) < first(b), taken[a].key = taken[b].key, id(a) # id(b)
      PROVE  Cardinality(values(a)) # Cardinality(values(b))
  <2>1. first(a) \in 1 .. a /\ first(b) \in 1 .. b /\ id(first(b)) = id(b)
    BY <1>3
  <2>2. values(a) \subseteq values(b)
    <3>1. Upto(a, taken[a].key) \subseteq Upto(b, taken[b].key)
      BY <1>7, <2>1
    <3> QED
      BY <3>1
  <2>3. id(b) \in values(b)
    <3>1. taken[first(b)].key = taken[b].key
      BY <1>1, <2>1
    <3>2. first(b) \in Upto(b, taken[b].key)
      BY <2>1, <3>1
    <3> QED
      BY <2>1, <3>2
  <2>4. id(b) \notin values(a)
    <3> SUFFICES ASSUME NEW h \in Upto(a, taken[a].key), id(h) = id(b) PROVE FALSE
      OBVIOUS
    <3>1. h \in 1 .. b /\ h < first(b)
      BY <1>7, <2>1
    <3>2. first(b) <= h
      BY <1>3, <3>1
    <3> QED
      BY <2>1, <3>1, <3>2
  <2> HIDE DEF values
  <2>5. values(a) # values(b)
    BY <2>3, <2>4
  <2> QED
    BY <1>6, <2>2, <2>5, FS_Subset
<1>8. ASSUME Placeholder(text, taken, j) = Placeholder(text, taken, k), id(j) # id(k) PROVE FALSE
  <2>1. taken[j].key = taken[k].key /\ Cardinality(values(j)) = Cardinality(values(k))
    <3> HIDE DEF values
    <3>1. /\ Placeholder(text, taken, j) = [key |-> taken[j].key, number |-> Cardinality(values(j))]
          /\ Placeholder(text, taken, k) = [key |-> taken[k].key, number |-> Cardinality(values(k))]
      BY <1>2
    <3>2. [key |-> taken[j].key, number |-> Cardinality(values(j))] = [key |-> taken[k].key, number |-> Cardinality(values(k))]
      BY <1>8, <3>1
    <3>3. \A a, b, c, d : [key |-> a, number |-> b] = [key |-> c, number |-> d] => a = c /\ b = d
      <4> SUFFICES ASSUME NEW a, NEW b, NEW c, NEW d, [key |-> a, number |-> b] = [key |-> c, number |-> d] PROVE a = c /\ b = d
        OBVIOUS
      <4>1. [key |-> a, number |-> b].key = [key |-> c, number |-> d].key /\ [key |-> a, number |-> b].number = [key |-> c, number |-> d].number
        OBVIOUS
      <4> QED
        BY <4>1
    <3> QED
      BY <3>2, <3>3
  <2>2. first(j) # first(k)
    BY <1>3, <1>8
  <2>3. first(j) < first(k) \/ first(k) < first(j)
    <3>1. first(j) \in Nat /\ first(k) \in Nat
      BY <1>3
    <3> QED
      BY <2>2, <3>1
  <2> HIDE DEF values
  <2> QED
    BY <1>7, <1>8, <2>1, <2>3
<1>9. Placeholder(text, taken, j) = Placeholder(text, taken, k) <=> id(j) = id(k)
  BY <1>5, <1>8
<1> QED
  BY <1>9 DEF id

\* One detection is replaced by its placeholder.
MaskStep(taken, placed, shown, k) ==
  SubSeq(shown, 1, taken[k].range.start) \o <<placed[k]>> \o SubSeq(shown, taken[k].range.end + 1, Len(shown))

MaskIterates(g, n, ids, text, taken, placed) ==
  /\ g = [s \in SUBSET (1 .. n) |-> g[s]]
  /\ \A s \in SUBSET (1 .. n) : g[s] = IF s = {} THEN text ELSE MaskStep(taken, placed, g[s \ {Max(s)}], ids[Max(s)])

(* Replacing one detection after the other leads to a text.                 *)
LEMMA MaskExists ==
  ASSUME NEW n \in Nat, NEW ids, NEW text, NEW taken, NEW placed
  PROVE  \E g : MaskIterates(g, n, ids, text, taken, placed)
<1> DEFINE Step(shown, k) == MaskStep(taken, placed, shown, k)
<1> HIDE DEF Step
<1> DEFINE Folds(g, k) == /\ g = [s \in SUBSET (1 .. k) |-> g[s]]
                          /\ \A s \in SUBSET (1 .. k) : g[s] = IF s = {} THEN text ELSE Step(g[s \ {Max(s)}], ids[Max(s)])
           T == {k \in 0 .. n : ~ \E g : Folds(g, k)}
<1>1. T = {}
  <2> SUFFICES ASSUME T # {} PROVE FALSE
    OBVIOUS
  <2>1. PICK k \in T : \A j \in T : k <= j
    <3>1. T \subseteq Nat
      OBVIOUS
    <3> HIDE DEF T
    <3> QED
      BY <3>1, LeastNumber
  <2>2. k \in 0 .. n /\ ~ \E f : Folds(f, k)
    OBVIOUS
  <2>3. k # 0
    <3>1. Folds([s \in SUBSET (1 .. 0) |-> text], 0)
      OBVIOUS
    <3> HIDE DEF Folds
    <3> QED
      BY <2>2, <3>1
  <2>4. k \in 1 .. n
    BY <2>2, <2>3
  <2>5. PICK f : Folds(f, k - 1)
    <3>1. k - 1 \in 0 .. n /\ ~(k <= k - 1)
      BY <2>4
    <3> HIDE DEF Folds
    <3>2. k - 1 \notin T
      BY <2>1, <3>1
    <3> QED
      BY <3>1, <3>2
  <2> DEFINE g == [s \in SUBSET (1 .. k) |-> IF k \in s THEN Step(f[s \ {k}], ids[k]) ELSE f[s]]
  <2>6. ASSUME NEW s \in SUBSET (1 .. k)
        PROVE  g[s] = IF s = {} THEN text ELSE Step(g[s \ {Max(s)}], ids[Max(s)])
    <3>1. CASE k \in s
      <4>1. Max(s) = k
        <5>1. s \subseteq 0 .. k /\ s # {} /\ k \in Nat
          BY <2>4, <3>1
        <5>2. Max(s) \in s /\ \A x \in s : x <= Max(s)
          BY <5>1, GreatestOf
        <5>3. Max(s) \in 1 .. k /\ k <= Max(s)
          BY <3>1, <5>2
        <5> QED
          BY <5>1, <5>3
      <4>2. s \ {k} \in SUBSET (1 .. k - 1) /\ s \ {k} \in SUBSET (1 .. k) /\ k \notin s \ {k}
        BY <2>4
      <4>3. g[s \ {k}] = f[s \ {k}]
        BY <2>5, <4>2
      <4>4. g[s] = Step(f[s \ {k}], ids[k])
        BY <3>1
      <4> HIDE DEF g
      <4> QED
        BY <2>4, <3>1, <4>1, <4>3, <4>4
    <3>2. CASE k \notin s
      <4>1. s \in SUBSET (1 .. k - 1)
        BY <2>4, <3>2
      <4>2. g[s] = f[s]
        BY <2>5, <3>2, <4>1
      <4>3. CASE s = {}
        BY <2>5, <4>1, <4>2, <4>3
      <4>4. CASE s # {}
        <5>1. s \ {Max(s)} \in SUBSET (1 .. k) /\ s \ {Max(s)} \in SUBSET (1 .. k - 1) /\ k \notin s \ {Max(s)}
          BY <3>2, <4>1
        <5>2. g[s \ {Max(s)}] = f[s \ {Max(s)}]
          BY <5>1
        <5> HIDE DEF g
        <5> QED
          BY <2>5, <4>1, <4>2, <4>4, <5>2
      <4> QED
        BY <4>3, <4>4
    <3> QED
      BY <3>1, <3>2
  <2>7. Folds(g, k)
    <3>1. g = [s \in SUBSET (1 .. k) |-> g[s]]
      OBVIOUS
    <3> HIDE DEF g
    <3> QED
      BY <2>6, <3>1
  <2> HIDE DEF g, Folds
  <2> QED
    BY <2>2, <2>7
<1>2. PICK g : Folds(g, n)
  <2>1. n \in 0 .. n
    OBVIOUS
  <2> HIDE DEF Folds
  <2> QED
    BY <1>1, <2>1
<1>3. MaskIterates(g, n, ids, text, taken, placed)
  <2>1. g = [s \in SUBSET (1 .. n) |-> g[s]]
    BY <1>2
  <2>2. \A s \in SUBSET (1 .. n) : g[s] = IF s = {} THEN text ELSE Step(g[s \ {Max(s)}], ids[Max(s)])
    BY <1>2
  <2> QED
    BY <2>1, <2>2 DEF MaskIterates, Step
<1> QED
  BY <1>3

Placed(text, taken) == [k \in DOMAIN taken |-> Placeholder(text, taken, k)]

\* Texts while the detections are replaced, from the last to the first.
MaskSteps(r, text, taken, n, shown) ==
  /\ r[n] = text /\ r[0] = shown
  /\ \A k \in 1 .. n : r[k - 1] = MaskStep(taken, Placed(text, taken), r[k], k)

(* A masked text is reached from the last detection taken to the first.     *)
LEMMA MaskStepwise ==
  ASSUME NEW text, NEW D, NEW n \in Nat, DOMAIN NonOverlapping(D) = 1 .. n
  PROVE  \E r : MaskSteps(r, text, NonOverlapping(D), n, ApplyPlaceholders(text, D))
<1> DEFINE taken == NonOverlapping(D)
           placed == Placed(text, taken)
           numbers == [k \in 1 .. n |-> k]
           ids == Reverse(numbers)
           Step(shown, k) == SubSeq(shown, 1, taken[k].range.start) \o <<Placeholder(text, taken, k)>>
                                \o SubSeq(shown, taken[k].range.end + 1, Len(shown))
           Iterates(g) == g = [s \in SUBSET DOMAIN ids |->
                                 IF s = {} THEN text ELSE Step(g[s \ {Max(s)}], ids[Max(s)])]
           iter == CHOOSE g : Iterates(g)
<1>1. Len(numbers) = n
  <2>1. numbers \in Seq(1 .. n) /\ DOMAIN numbers = 1 .. n
    OBVIOUS
  <2> HIDE DEF numbers
  <2> QED
    BY <2>1
<1>2. DOMAIN ids = 1 .. n /\ \A i \in 1 .. n : ids[i] = n - i + 1
  <2>1. ids = [i \in 1 .. n |-> numbers[n - i + 1]]
    BY <1>1 DEF Reverse
  <2>2. \A i \in 1 .. n : n - i + 1 \in 1 .. n
    OBVIOUS
  <2> QED
    BY <2>1, <2>2
<1>3. ApplyPlaceholders(text, D) = iter[1 .. n]
  <2> DEFINE shown == ApplyPlaceholders(text, D)
  <2>1. ids = Reverse([k \in DOMAIN taken |-> k])
    OBVIOUS
  <2>2. shown = iter[DOMAIN ids]
    BY <2>1, SMTT(30) DEF ApplyPlaceholders, FoldLeft, MapThenFoldSet
  <2> QED
    BY <1>2, <2>2, Zenon
<1> HIDE DEF ids, taken, numbers
<1>4. \A k \in 1 .. n : \A shown : Step(shown, k) = MaskStep(taken, placed, shown, k)
  BY DEF MaskStep, Placed, taken
<1> HIDE DEF Step, placed
<1>5. \A s \in SUBSET (1 .. n) : s # {} => Max(s) \in 1 .. n /\ ids[Max(s)] \in 1 .. n
  <2> SUFFICES ASSUME NEW s \in SUBSET (1 .. n), s # {} PROVE Max(s) \in 1 .. n /\ ids[Max(s)] \in 1 .. n
    OBVIOUS
  <2>1. Max(s) \in 1 .. n
    BY MaxOfSubset
  <2> QED
    BY <1>2, <2>1
<1>6. \E g : Iterates(g)
  <2>1. PICK g : MaskIterates(g, n, ids, text, taken, placed)
    BY MaskExists
  <2>2. g = [s \in SUBSET (1 .. n) |-> g[s]]
    BY <2>1 DEF MaskIterates
  <2>3. \A s \in SUBSET (1 .. n) : g[s] = IF s = {} THEN text ELSE Step(g[s \ {Max(s)}], ids[Max(s)])
    BY <1>4, <1>5, <2>1 DEF MaskIterates
  <2>4. Iterates(g)
    BY <1>2, <2>2, <2>3
  <2> QED
    BY <2>4
<1>7. Iterates(iter)
  <2> HIDE DEF Iterates
  <2> QED
    BY <1>6
<1>8. \A s \in SUBSET (1 .. n) : iter[s] = IF s = {} THEN text ELSE Step(iter[s \ {Max(s)}], ids[Max(s)])
  <2> HIDE DEF iter
  <2> QED
    BY <1>2, <1>7
<1> HIDE DEF iter
<1> DEFINE r == [k \in 0 .. n |-> iter[1 .. n - k]]
<1>9. r[n] = text
  <2>1. n \in 0 .. n /\ 1 .. n - n = {}
    OBVIOUS
  <2> QED
    BY <1>8, <2>1
<1>10. r[0] = iter[1 .. n]
  <2>1. 0 \in 0 .. n /\ n - 0 = n
    OBVIOUS
  <2> QED
    BY <2>1
<1>11. ASSUME NEW k \in 1 .. n PROVE r[k - 1] = MaskStep(taken, placed, r[k], k)
  <2> DEFINE i == n - k + 1
             s == 1 .. i
  <2>1. i \in 1 .. n /\ k - 1 \in 0 .. n /\ k \in 0 .. n /\ n - (k - 1) = i /\ n - k = i - 1
    OBVIOUS
  <2>2. ids[i] = k
    <3>1. ids[i] = n - i + 1 /\ n - i + 1 = k
      BY <1>2, <2>1
    <3> QED
      BY <3>1
  <2> HIDE DEF i
  <2>3. s \in SUBSET (1 .. n) /\ s # {} /\ s \subseteq 0 .. i /\ i \in s /\ i \in Nat
    <3>1. i \in Nat /\ 1 <= i /\ i <= n
      BY <2>1
    <3> HIDE DEF taken, placed, numbers, ids
    <3>2. i \in 1 .. i /\ 1 .. i \subseteq 0 .. i
      BY <3>1
    <3>3. \A x \in 1 .. i : x \in 1 .. n
      BY <3>1
    <3> QED
      BY <3>1, <3>2, <3>3
  <2>4. Max(s) = i
    <3> HIDE DEF s
    <3>1. Max(s) \in s /\ i <= Max(s)
      BY <2>3, GreatestOf
    <3> QED
      BY <2>3, <3>1 DEF s
  <2>5. s \ {i} = 1 .. i - 1
    BY <2>1
  <2>6. iter[s] = Step(iter[1 .. i - 1], k)
    <3> HIDE DEF s
    <3> QED
      BY <1>8, <2>2, <2>3, <2>4, <2>5
  <2>7. r[k - 1] = iter[s] /\ r[k] = iter[1 .. i - 1]
    BY <2>1
  <2> HIDE DEF r
  <2> QED
    BY <1>4, <2>6, <2>7
<1> HIDE DEF r
<1>12. MaskSteps(r, text, taken, n, ApplyPlaceholders(text, D))
  BY <1>3, <1>9, <1>10, <1>11 DEF MaskSteps, placed
<1> QED
  BY <1>12 DEF taken

\* A text and one that follows it; what is before and after u in a text that starts with u.
Joined(u, v) == u \o v
UpTo(w, u) == SubSeq(w, 1, Len(u))
After(w, u) == SubSeq(w, Len(u) + 1, Len(w))

(* A part of a text is cut from the parts it is put together from.          *)
LEMMA CutStart ==
  ASSUME NEW B, NEW u \in Seq(B), NEW v \in Seq(B), NEW s \in 0 .. Len(u)
  PROVE  SubSeq(u \o v, 1, s) = SubSeq(u, 1, s) /\ SubSeq(u, 1, s) \in Seq(B)
<1> DEFINE w == u \o v
           x == SubSeq(w, 1, s)
           y == SubSeq(u, 1, s)
<1>1. w \in Seq(B) /\ Len(u) \in Nat /\ s \in Int /\ \A i \in 1 .. s : w[i] = u[i] /\ u[i] \in B
  BY ConcatProperties
<1> HIDE DEF w
<1>2. x \in Seq(B) /\ Len(x) = (IF 1 <= s THEN s - 1 + 1 ELSE 0) /\ \A i \in 1 .. s - 1 + 1 : x[i] = w[1 + i - 1]
  <2>1. 1 \in Int /\ s \in Int /\ \A i \in 1 .. s : w[i] \in B
    BY <1>1
  <2> QED
    BY <2>1, SubSeqProperties
<1>3. y \in Seq(B) /\ Len(y) = (IF 1 <= s THEN s - 1 + 1 ELSE 0) /\ \A i \in 1 .. s - 1 + 1 : y[i] = u[1 + i - 1]
  <2>1. 1 \in Int /\ s \in Int /\ \A i \in 1 .. s : u[i] \in B
    BY <1>1
  <2> QED
    BY <2>1, SubSeqProperties
<1> HIDE DEF x, y
<1>4. Len(x) = Len(y) /\ Len(x) = s
  BY <1>1, <1>2, <1>3
<1>5. \A i \in 1 .. Len(x) : x[i] = y[i]
  <2> SUFFICES ASSUME NEW i \in 1 .. Len(x) PROVE x[i] = y[i]
    OBVIOUS
  <2>1. i \in 1 .. s /\ i \in 1 .. s - 1 + 1 /\ 1 + i - 1 = i
    BY <1>1, <1>4
  <2> QED
    BY <1>1, <1>2, <1>3, <2>1
<1>6. x = y
  BY <1>2, <1>3, <1>4, <1>5, SeqEqual
<1> QED
  BY <1>3, <1>6 DEF x, y, w

(* What follows the first part is the second.                               *)
LEMMA CutEnd ==
  ASSUME NEW B, NEW u \in Seq(B), NEW v \in Seq(B)
  PROVE  After(Joined(u, v), u) = v
<1> DEFINE w == u \o v
           x == SubSeq(w, Len(u) + 1, Len(w))
           m == Len(u)
           n == Len(v)
<1>1. /\ w \in Seq(B) /\ m \in Nat /\ n \in Nat /\ Len(w) = m + n
      /\ \A i \in 1 .. m + n : w[i] \in B /\ w[i] = IF i <= m THEN u[i] ELSE v[i - m]
  BY ConcatProperties
<1>7. x = SubSeq(w, m + 1, m + n)
  BY <1>1
<1> HIDE DEF w, m, n, x
<1>2. x \in Seq(B) /\ Len(x) = (IF m + 1 <= m + n THEN (m + n) - (m + 1) + 1 ELSE 0) /\ \A i \in 1 .. (m + n) - (m + 1) + 1 : x[i] = w[m + 1 + i - 1]
  <2> DEFINE c == m + 1
             d == m + n
  <2>1. c \in Int /\ d \in Int /\ \A i \in c .. d : w[i] \in B
    BY <1>1
  <2>2. x = SubSeq(w, c, d)
    BY <1>7
  <2> HIDE DEF c, d
  <2> DEFINE y == SubSeq(w, c, d)
  <2>3. y \in Seq(B) /\ Len(y) = (IF c <= d THEN d - c + 1 ELSE 0) /\ \A i \in 1 .. d - c + 1 : y[i] = w[c + i - 1]
    BY <2>1, SubSeqProperties
  <2>5. x = y
    BY <2>2
  <2> HIDE DEF y
  <2>4. x \in Seq(B) /\ Len(x) = (IF c <= d THEN d - c + 1 ELSE 0) /\ \A i \in 1 .. d - c + 1 : x[i] = w[c + i - 1]
    BY <2>3, <2>5
  <2> QED
    BY <2>4 DEF c, d
<1>3. Len(x) = n
  BY <1>1, <1>2
<1>4. \A i \in 1 .. Len(x) : x[i] = v[i]
  <2> SUFFICES ASSUME NEW i \in 1 .. Len(x) PROVE x[i] = v[i]
    OBVIOUS
  <2>1. i \in 1 .. n /\ i \in 1 .. (m + n) - (m + 1) + 1 /\ m + 1 + i - 1 = m + i /\ m + i \in 1 .. m + n /\ ~(m + i <= m) /\ m + i - m = i
    BY <1>1, <1>3
  <2>2. x[i] = w[m + i]
    BY <1>2, <2>1
  <2> QED
    BY <1>1, <2>1, <2>2
<1>5. x = v
  BY <1>2, <1>3, <1>4, SeqEqual DEF n
<1> QED
  BY <1>5 DEF x, w, m, After, Joined

(* A text up to b is the text up to a and what is between them.             *)
LEMMA CutBetween ==
  ASSUME NEW B, NEW text \in Seq(B), NEW a \in 0 .. Len(text), NEW b \in a .. Len(text)
  PROVE  /\ SubSeq(text, 1, b) = SubSeq(text, 1, a) \o SubSeq(text, a + 1, b)
         /\ SubSeq(text, 1, b) \in Seq(B) /\ Len(SubSeq(text, 1, b)) = b
         /\ SubSeq(text, 1, a) \in Seq(B) /\ Len(SubSeq(text, 1, a)) = a /\ SubSeq(text, a + 1, b) \in Seq(B)
<1> DEFINE x == SubSeq(text, 1, b)
           y == SubSeq(text, 1, a)
           z == SubSeq(text, a + 1, b)
<1>1. a \in Nat /\ b \in Nat /\ a <= b /\ Len(text) \in Nat /\ \A i \in 1 .. b : text[i] \in B
  OBVIOUS
<1>2. x \in Seq(B) /\ Len(x) = (IF 1 <= b THEN b - 1 + 1 ELSE 0) /\ \A i \in 1 .. b - 1 + 1 : x[i] = text[1 + i - 1]
  <2>1. 1 \in Int /\ b \in Int /\ \A i \in 1 .. b : text[i] \in B
    BY <1>1
  <2> QED
    BY <2>1, SubSeqProperties
<1>3. y \in Seq(B) /\ Len(y) = (IF 1 <= a THEN a - 1 + 1 ELSE 0) /\ \A i \in 1 .. a - 1 + 1 : y[i] = text[1 + i - 1]
  <2>1. 1 \in Int /\ a \in Int /\ \A i \in 1 .. a : text[i] \in B
    BY <1>1
  <2> QED
    BY <2>1, SubSeqProperties
<1>4. z \in Seq(B) /\ Len(z) = (IF a + 1 <= b THEN b - (a + 1) + 1 ELSE 0) /\ \A i \in 1 .. b - (a + 1) + 1 : z[i] = text[a + 1 + i - 1]
  <2>1. a + 1 \in Int /\ b \in Int /\ \A i \in a + 1 .. b : text[i] \in B
    BY <1>1
  <2> QED
    BY <2>1, SubSeqProperties
<1> HIDE DEF x, y, z
<1>5. Len(x) = b /\ Len(y) = a /\ Len(z) = b - a
  BY <1>1, <1>2, <1>3, <1>4
<1> DEFINE w == y \o z
<1>6. w \in Seq(B) /\ Len(w) = b /\ \A i \in 1 .. b : w[i] = IF i <= a THEN y[i] ELSE z[i - a]
  <2>1. y \o z \in Seq(B) /\ Len(y \o z) = Len(y) + Len(z) /\ \A i \in 1 .. Len(y) + Len(z) : (y \o z)[i] = IF i <= Len(y) THEN y[i] ELSE z[i - Len(y)]
    BY <1>3, <1>4, ConcatProperties
  <2>2. Len(y) + Len(z) = b
    BY <1>1, <1>5
  <2> QED
    BY <1>5, <2>1, <2>2
<1> HIDE DEF w
<1>7. \A i \in 1 .. Len(x) : x[i] = w[i]
  <2> SUFFICES ASSUME NEW i \in 1 .. Len(x) PROVE x[i] = w[i]
    OBVIOUS
  <2>1. i \in 1 .. b /\ x[i] = text[i]
    <3>1. i \in 1 .. b /\ i \in 1 .. b - 1 + 1 /\ 1 + i - 1 = i
      BY <1>1, <1>5
    <3> QED
      BY <1>2, <3>1
  <2>2. CASE i <= a
    <3>1. i \in 1 .. a - 1 + 1 /\ 1 + i - 1 = i
      BY <1>1, <2>1, <2>2
    <3>2. w[i] = y[i]
      BY <1>6, <2>1, <2>2
    <3> QED
      BY <1>3, <2>1, <3>1, <3>2
  <2>3. CASE ~(i <= a)
    <3>1. i - a \in 1 .. b - (a + 1) + 1 /\ a + 1 + (i - a) - 1 = i
      BY <1>1, <2>1, <2>3
    <3>2. w[i] = z[i - a]
      BY <1>6, <2>1, <2>3
    <3> QED
      BY <1>4, <2>1, <3>1, <3>2
  <2> QED
    BY <2>2, <2>3
<1>8. x = w
  BY <1>2, <1>5, <1>6, <1>7, SeqEqual
<1> QED
  BY <1>2, <1>3, <1>4, <1>5, <1>8 DEF x, y, z, w

(* A part of a text ends with its last character.                           *)
LEMMA CutLast ==
  ASSUME NEW B, NEW text \in Seq(B), NEW a \in 0 .. Len(text), NEW b \in a + 1 .. Len(text)
  PROVE  SubSeq(text, a + 1, b) = SubSeq(text, a + 1, b - 1) \o <<text[b]>>
<1>1. a + 1 \in 1 .. Len(text) /\ b \in a + 1 .. Len(text)
  OBVIOUS
<1> QED
  BY <1>1, SubSeqRecursiveSecond

(* Parts may be put together in any order.                                  *)
LEMMA JoinedIn ==
  ASSUME NEW B, NEW u \in Seq(B), NEW v \in Seq(B)
  PROVE  Joined(u, v) \in Seq(B)
BY ConcatProperties DEF Joined

(* Which two are joined first does not matter.                              *)
LEMMA JoinedTwice ==
  ASSUME NEW B, NEW u \in Seq(B), NEW v \in Seq(B), NEW w \in Seq(B)
  PROVE  Joined(Joined(u, v), w) = Joined(u, Joined(v, w))
BY ConcatAssociative DEF Joined

(* What comes first is the first part.                                      *)
LEMMA JoinedCut ==
  ASSUME NEW B, NEW u \in Seq(B), NEW v \in Seq(B)
  PROVE  UpTo(Joined(u, v), u) = u
<1>1. Len(u) \in 0 .. Len(u)
  OBVIOUS
<1>2. SubSeq(u \o v, 1, Len(u)) = SubSeq(u, 1, Len(u))
  BY <1>1, CutStart
<1>3. SubSeq(u, 1, Len(u)) = u
  BY SubSeqFull
<1> QED
  BY <1>2, <1>3 DEF Joined, UpTo

\* A text is put together from its own characters after the first a.
Copies(f, text, a, c) == \A i \in a + 1 .. c : f[i] = Joined(f[i - 1], <<text[i]>>)

(* Where each part is one character of the text, the parts join to the text. *)
LEMMA GapJoins ==
  ASSUME NEW B, NEW text \in Seq(B), NEW f \in [0 .. Len(text) -> Seq(B)],
         NEW a \in 0 .. Len(text), NEW c \in a .. Len(text), Copies(f, text, a, c)
  PROVE  f[c] = Joined(f[a], SubSeq(text, a + 1, c))
<1> DEFINE n == Len(text)
           T == {b \in a .. c : f[b] # Joined(f[a], SubSeq(text, a + 1, b))}
<1>1. n \in Nat /\ a \in Nat /\ c \in Nat /\ a <= c /\ c <= n
  OBVIOUS
<1>2. T = {}
  <2> SUFFICES ASSUME T # {} PROVE FALSE
    OBVIOUS
  <2>1. PICK b \in T : \A j \in T : b <= j
    <3>1. T \subseteq Nat
      BY <1>1
    <3> HIDE DEF T
    <3> QED
      BY <3>1, LeastNumber
  <2>2. b \in a .. c /\ f[b] # Joined(f[a], SubSeq(text, a + 1, b))
    OBVIOUS
  <2>3. f[a] \in Seq(B)
    BY <1>1
  <2>4. b # a
    <3>1. SubSeq(text, a + 1, a) = << >>
      BY <1>1, SubSeqEmpty
    <3>2. f[a] \o << >> = f[a]
      BY <2>3, ConcatEmptySeq
    <3>3. Joined(f[a], SubSeq(text, a + 1, a)) = f[a]
      BY <3>1, <3>2 DEF Joined
    <3> QED
      BY <2>2, <3>3
  <2>5. b \in a + 1 .. c /\ b - 1 \in a .. c /\ ~(b <= b - 1) /\ b \in a + 1 .. n /\ b - 1 \in a .. n /\ b \in 1 .. n /\ a \in 0 .. n
    BY <1>1, <2>2, <2>4
  <2>6. f[b - 1] = Joined(f[a], SubSeq(text, a + 1, b - 1))
    <3>1. b - 1 \notin T
      BY <2>1, <2>5
    <3> QED
      BY <2>5, <3>1
  <2> DEFINE x == SubSeq(text, a + 1, b - 1)
             y == <<text[b]>>
  <2>7. x \in Seq(B) /\ y \in Seq(B)
    <3>1. x \in Seq(B)
      BY <2>5, CutBetween
    <3>2. text[b] \in B
      BY <2>5
    <3> QED
      BY <3>1, <3>2
  <2>8. SubSeq(text, a + 1, b) = Joined(x, y)
    BY <2>5, CutLast DEF Joined
  <2>9. f[b] = Joined(Joined(f[a], x), y)
    BY <2>5, <2>6 DEF Copies
  <2>10. Joined(Joined(f[a], x), y) = Joined(f[a], Joined(x, y))
    <3> DEFINE z == f[a]
    <3>1. z \in Seq(B)
      BY <2>3
    <3>2. x \in Seq(B) /\ y \in Seq(B)
      BY <2>7
    <3> HIDE DEF x, y, z, T
    <3>3. Joined(Joined(z, x), y) = Joined(z, Joined(x, y))
      BY <3>1, <3>2, JoinedTwice
    <3> QED
      BY <3>3 DEF z
  <2> HIDE DEF x, y
  <2> QED
    BY <2>2, <2>8, <2>9, <2>10
<1>3. c \in a .. c
  BY <1>1
<1> QED
  BY <1>2, <1>3

Idles(f, parts, a, c) == \A i \in a + 1 .. c : f[i] = f[i - 1] \o parts[i] /\ parts[i] = << >>

(* Where the parts are empty nothing is joined.                             *)
LEMMA NothingJoins ==
  ASSUME NEW B, NEW m \in Nat, NEW f \in [0 .. m -> Seq(B)], NEW parts,
         NEW a \in 0 .. m, NEW c \in a .. m, Idles(f, parts, a, c)
  PROVE  f[c] = f[a]
<1> DEFINE T == {b \in a .. c : f[b] # f[a]}
<1>1. a \in Nat /\ c \in Nat /\ a <= c /\ c <= m
  OBVIOUS
<1>2. T = {}
  <2> SUFFICES ASSUME T # {} PROVE FALSE
    OBVIOUS
  <2>1. PICK b \in T : \A j \in T : b <= j
    <3>1. T \subseteq Nat
      BY <1>1
    <3> HIDE DEF T
    <3> QED
      BY <3>1, LeastNumber
  <2>2. b \in a .. c /\ f[b] # f[a] /\ b # a
    OBVIOUS
  <2>3. b \in a + 1 .. c /\ b - 1 \in a .. c /\ ~(b <= b - 1) /\ b - 1 \in 0 .. m
    BY <1>1, <2>2
  <2>4. f[b - 1] = f[a]
    <3>1. b - 1 \notin T
      BY <2>1, <2>3
    <3> QED
      BY <2>3, <3>1
  <2>5. f[b] = f[b - 1] \o << >> /\ f[b - 1] \in Seq(B)
    BY <2>3 DEF Idles
  <2>6. f[b] = f[b - 1]
    BY <2>5, ConcatEmptySeq
  <2> QED
    BY <2>2, <2>4, <2>6
<1>3. c \in a .. c
  BY <1>1
<1> QED
  BY <1>2, <1>3

(* What stands between two parts is replaced.                               *)
LEMMA PartReplaced ==
  ASSUME NEW B, NEW u \in Seq(B), NEW v \in Seq(B), NEW P \in Seq(B), NEW X \in Seq(B)
  PROVE  LET w == Joined(Joined(u, v), X)
         IN Joined(Joined(UpTo(w, u), P), After(w, Joined(u, v))) = Joined(Joined(u, P), X)
<1> DEFINE w == Joined(Joined(u, v), X)
           front == Joined(u, v)
           rest == Joined(v, X)
<1>1. w = Joined(u, rest) /\ w = Joined(front, X)
  BY JoinedTwice
<1>2. front \in Seq(B) /\ rest \in Seq(B)
  BY JoinedIn
<1> HIDE DEF front, rest, w
<1>3. UpTo(w, u) = u
  BY <1>1, <1>2, JoinedCut
<1>4. After(w, front) = X
  BY <1>1, <1>2, CutEnd
<1> QED
  BY <1>3, <1>4 DEF front, w

(* So what comes first can be set apart from three others.                  *)
LEMMA Regrouped ==
  ASSUME NEW B, NEW u \in Seq(B), NEW gap \in Seq(B), NEW P \in Seq(B), NEW X \in Seq(B)
  PROVE  /\ Joined(Joined(Joined(u, gap), P), X) = Joined(u, Joined(Joined(gap, P), X))
         /\ Joined(Joined(gap, P), X) \in Seq(B)
<1> DEFINE q == Joined(gap, P)
<1>1. q \in Seq(B)
  BY JoinedIn
<1>2. Joined(Joined(u, gap), P) = Joined(u, q)
  BY JoinedTwice
<1> HIDE DEF q
<1>3. Joined(Joined(u, q), X) = Joined(u, Joined(q, X))
  BY <1>1, JoinedTwice
<1>4. Joined(q, X) \in Seq(B)
  BY <1>1, JoinedIn
<1> QED
  BY <1>2, <1>3, <1>4 DEF q

(* One place is replaced in a text whose parts after the place are X: what   *)
(* comes after the place before it is then Y.                               *)
Replaced(B, text, e, s, t, P, X, fe) ==
  LET w == Joined(SubSeq(text, 1, t), X)
      gap == SubSeq(text, e + 1, s)
  IN \E Y \in Seq(B) :
       /\ Joined(Joined(SubSeq(w, 1, s), P), SubSeq(w, t + 1, Len(w))) = Joined(SubSeq(text, 1, e), Y)
       /\ Joined(Joined(Joined(fe, gap), P), X) = Joined(fe, Y)

(* There is such a Y for every place.                                       *)
LEMMA PlaceReplaced ==
  ASSUME NEW B, NEW text \in Seq(B), NEW e \in 0 .. Len(text), NEW s \in e .. Len(text), NEW t \in s .. Len(text),
         NEW P \in Seq(B), NEW X \in Seq(B), NEW fe \in Seq(B)
  PROVE  Replaced(B, text, e, s, t, P, X, fe)
<1> DEFINE front == SubSeq(text, 1, t)
           gap == SubSeq(text, e + 1, s)
           start == SubSeq(text, 1, e)
           u == SubSeq(text, 1, s)
           v == SubSeq(text, s + 1, t)
           w == Joined(front, X)
           Y == Joined(Joined(gap, P), X)
<1>1. s \in 0 .. Len(text) /\ t \in s .. Len(text)
  OBVIOUS
<1>2. Len(front) = t /\ u \in Seq(B) /\ Len(u) = s /\ v \in Seq(B) /\ front = Joined(u, v)
  BY <1>1, CutBetween DEF Joined
<1>3. start \in Seq(B) /\ gap \in Seq(B) /\ u = Joined(start, gap)
  BY CutBetween, SMTT(60) DEF Joined
<1> HIDE DEF front, gap, start, u, v
<1>4. Joined(Joined(SubSeq(w, 1, s), P), SubSeq(w, t + 1, Len(w))) = Joined(Joined(u, P), X)
  <2> DEFINE w1 == Joined(Joined(u, v), X)
  <2>1. Joined(Joined(UpTo(w1, u), P), After(w1, Joined(u, v))) = Joined(Joined(u, P), X)
    BY <1>2, PartReplaced
  <2>2. w = w1 /\ UpTo(w1, u) = SubSeq(w, 1, s) /\ After(w1, Joined(u, v)) = SubSeq(w, t + 1, Len(w))
    BY <1>2 DEF UpTo, After
  <2> QED
    BY <2>1, <2>2
<1>5. Joined(Joined(u, P), X) = Joined(start, Y)
  <2>1. Joined(Joined(Joined(start, gap), P), X) = Joined(start, Joined(Joined(gap, P), X))
    BY <1>3, Regrouped
  <2> QED
    BY <1>3, <2>1
<1>6. Joined(Joined(Joined(fe, gap), P), X) = Joined(fe, Y) /\ Y \in Seq(B)
  BY <1>3, Regrouped
<1> HIDE DEF Y, w
<1>7. \E Z \in Seq(B) : /\ Joined(Joined(SubSeq(w, 1, s), P), SubSeq(w, t + 1, Len(w))) = Joined(start, Z)
                        /\ Joined(Joined(Joined(fe, gap), P), X) = Joined(fe, Z)
  BY <1>4, <1>5, <1>6
<1> QED
  BY <1>7 DEF Replaced, front, gap, start, w

\* n apart places of a text, from left to right.
PlacesOf(st, en, n, length) ==
  /\ st \in [1 .. n -> Nat] /\ en \in [1 .. n -> Nat]
  /\ \A k \in 1 .. n : st[k] < en[k] /\ en[k] <= length
  /\ \A j, k \in 1 .. n : j < k => en[j] <= st[k]

\* What each character of a text becomes when p[k] stands for the k-th place.
Parts(parts, text, st, en, p, n) ==
  /\ \A k \in 1 .. n : parts[st[k] + 1] = <<p[k]>> /\ \A i \in st[k] + 2 .. en[k] : parts[i] = << >>
  /\ \A i \in 1 .. Len(text) : (\A k \in 1 .. n : i \notin st[k] + 1 .. en[k]) => parts[i] = <<text[i]>>

Grows(f, parts, length) == \A i \in 1 .. length : f[i] = f[i - 1] \o parts[i]

Replaces(r, st, en, p, n) ==
  \A k \in 1 .. n : r[k - 1] = SubSeq(r[k], 1, st[k]) \o <<p[k]>> \o SubSeq(r[k], en[k] + 1, Len(r[k]))

\* Where the k-th place ends, and where the next one starts.
EndOf(en, k) == IF k = 0 THEN 0 ELSE en[k]
NextOf(st, n, length, k) == IF k = n THEN length ELSE st[k + 1]

BoundsAt(st, en, n, m, k) ==
  /\ EndOf(en, k) \in 0 .. m /\ NextOf(st, n, m, k) \in EndOf(en, k) .. m
  /\ k # 0 => st[k] \in 0 .. m /\ en[k] \in st[k] + 1 .. m /\ EndOf(en, k) = en[k] /\ NextOf(st, n, m, k - 1) = st[k]

(* Places are inside the text.                                              *)
LEMMA PlaceBounds ==
  ASSUME NEW n \in Nat, NEW st, NEW en, NEW m \in Nat, PlacesOf(st, en, n, m), NEW k \in 0 .. n
  PROVE  BoundsAt(st, en, n, m, k)
<1>1. \A j \in 1 .. n : st[j] \in Nat /\ en[j] \in Nat /\ st[j] < en[j] /\ en[j] <= m
  BY DEF PlacesOf
<1> DEFINE E == EndOf(en, k)
           N == NextOf(st, n, m, k)
<1>2. E \in Nat /\ E <= m
  BY <1>1 DEF EndOf
<1>5. k # 0 => st[k] \in 0 .. m /\ en[k] \in st[k] + 1 .. m /\ EndOf(en, k) = en[k] /\ NextOf(st, n, m, k - 1) = st[k]
  <2> SUFFICES ASSUME k # 0 PROVE st[k] \in 0 .. m /\ en[k] \in st[k] + 1 .. m /\ EndOf(en, k) = en[k] /\ NextOf(st, n, m, k - 1) = st[k]
    OBVIOUS
  <2>1. k \in 1 .. n /\ k - 1 # n /\ k - 1 + 1 = k
    OBVIOUS
  <2>2. st[k] \in Nat /\ en[k] \in Nat /\ st[k] < en[k] /\ en[k] <= m
    BY <1>1, <2>1
  <2>3. st[k] \in 0 .. m /\ en[k] \in st[k] + 1 .. m
    BY <2>2
  <2>4. NextOf(st, n, m, k - 1) = st[k]
    BY <2>1 DEF NextOf
  <2> QED
    BY <2>3, <2>4 DEF EndOf
<1>3. ASSUME k = n PROVE E \in 0 .. m /\ N \in E .. m
  <2>1. N = m
    BY <1>3 DEF NextOf
  <2> HIDE DEF E, N
  <2> QED
    BY <1>2, <2>1
<1>4. ASSUME k # n PROVE E \in 0 .. m /\ N \in E .. m
  <2>1. k + 1 \in 1 .. n /\ N = st[k + 1]
    BY <1>4 DEF NextOf
  <2>2. E <= st[k + 1]
    <3>1. CASE k = 0
      BY <1>1, <2>1, <3>1 DEF EndOf
    <3>2. CASE k # 0
      <4>1. k \in 1 .. n /\ k < k + 1
        BY <3>2
      <4>2. en[k] <= st[k + 1]
        BY <2>1, <4>1 DEF PlacesOf
      <4> QED
        BY <3>2, <4>2 DEF EndOf
    <3> QED
      BY <3>1, <3>2
  <2>3. st[k + 1] \in Nat /\ st[k + 1] <= m
    BY <1>1, <2>1
  <2> HIDE DEF E, N
  <2> QED
    BY <1>2, <2>1, <2>2, <2>3
<1>6. E \in 0 .. m /\ N \in E .. m
  BY <1>3, <1>4
<1> QED
  BY <1>5, <1>6 DEF BoundsAt

(* A character between two places is in none.                               *)
LEMMA BetweenPlaces ==
  ASSUME NEW n \in Nat, NEW st, NEW en, NEW m \in Nat, PlacesOf(st, en, n, m), NEW k \in 0 .. n,
         NEW i \in EndOf(en, k) + 1 .. NextOf(st, n, m, k)
  PROVE  i \in 1 .. m /\ \A j \in 1 .. n : i \notin st[j] + 1 .. en[j]
<1>1. \A j \in 1 .. n : st[j] \in Nat /\ en[j] \in Nat /\ st[j] < en[j] /\ en[j] <= m
  BY DEF PlacesOf
<1> DEFINE E == EndOf(en, k)
           N == NextOf(st, n, m, k)
<1>2. E \in Nat /\ N \in Nat /\ N <= m /\ i \in Nat /\ E < i /\ i <= N
  <2>1. E \in 0 .. m /\ N \in E .. m /\ i \in E + 1 .. N
    BY PlaceBounds DEF BoundsAt
  <2> HIDE DEF E, N
  <2> QED
    BY <2>1
<1>3. ASSUME NEW j \in 1 .. n PROVE i \notin st[j] + 1 .. en[j]
  <2>1. CASE j <= k
    <3>1. k \in 1 .. n /\ E = en[k] /\ (j = k \/ j < k)
      BY <2>1 DEF EndOf
    <3>2. en[j] <= en[k]
      <4>1. CASE j = k
        BY <1>1, <4>1
      <4>2. CASE j < k
        <5>1. en[j] <= st[k]
          BY <3>1, <4>2 DEF PlacesOf
        <5> QED
          BY <1>1, <3>1, <5>1
      <4> QED
        BY <3>1, <4>1, <4>2
    <3>3. st[j] \in Nat /\ en[j] \in Nat
      BY <1>1
    <3> HIDE DEF E, N
    <3> QED
      BY <1>2, <3>1, <3>2, <3>3
  <2>2. CASE ~(j <= k)
    <3>1. k + 1 \in 1 .. n /\ N = st[k + 1] /\ (j = k + 1 \/ k + 1 < j)
      BY <2>2 DEF NextOf
    <3>2. st[k + 1] <= st[j]
      <4>1. CASE j = k + 1
        BY <1>1, <4>1
      <4>2. CASE k + 1 < j
        <5>1. en[k + 1] <= st[j]
          BY <3>1, <4>2 DEF PlacesOf
        <5> QED
          BY <1>1, <3>1, <5>1
      <4> QED
        BY <3>1, <4>1, <4>2
    <3>3. st[j] \in Nat /\ en[j] \in Nat
      BY <1>1
    <3> HIDE DEF E, N
    <3> QED
      BY <1>2, <3>1, <3>2, <3>3
  <2> QED
    BY <2>1, <2>2
<1>4. i \in 1 .. m
  BY <1>2
<1> QED
  BY <1>3, <1>4

JoinsAt(f, text, st, en, p, n, k) ==
  LET next == NextOf(st, n, Len(text), k)
  IN /\ f[next] = Joined(f[EndOf(en, k)], SubSeq(text, EndOf(en, k) + 1, next))
     /\ k # 0 => f[en[k]] = Joined(f[st[k]], <<p[k]>>)

(* What the parts before a place join to, and the place's own.              *)
LEMMA PlaceJoins ==
  ASSUME NEW B, NEW text \in Seq(B), NEW n \in Nat, NEW st, NEW en, PlacesOf(st, en, n, Len(text)),
         NEW p, NEW parts, Parts(parts, text, st, en, p, n),
         NEW f \in [0 .. Len(text) -> Seq(B)], Grows(f, parts, Len(text)), NEW k \in 0 .. n
  PROVE  JoinsAt(f, text, st, en, p, n, k)
<1> DEFINE m == Len(text)
           a == EndOf(en, k)
           c == NextOf(st, n, m, k)
<1>0. m \in Nat
  OBVIOUS
<1>1. f[c] = Joined(f[a], SubSeq(text, a + 1, c))
  <2>1. a \in 0 .. m /\ c \in a .. m
    <3>1. BoundsAt(st, en, n, m, k)
      BY <1>0, PlaceBounds
    <3> QED
      BY <3>1 DEF BoundsAt
  <2>2. \A i \in a + 1 .. c : i \in 1 .. m /\ \A j \in 1 .. n : i \notin st[j] + 1 .. en[j]
    BY <1>0, BetweenPlaces
  <2> HIDE DEF a, c
  <2>3. Copies(f, text, a, c)
    <3> SUFFICES ASSUME NEW i \in a + 1 .. c PROVE f[i] = Joined(f[i - 1], <<text[i]>>)
      BY DEF Copies
    <3>1. i \in 1 .. m /\ parts[i] = <<text[i]>>
      BY <2>2 DEF Parts
    <3>2. f[i] = f[i - 1] \o parts[i]
      BY <3>1 DEF Grows
    <3> QED
      BY <3>1, <3>2 DEF Joined
  <2> QED
    BY <2>1, <2>3, GapJoins
<1>2. ASSUME k # 0 PROVE f[en[k]] = Joined(f[st[k]], <<p[k]>>)
  <2> DEFINE s == st[k]
             b == s + 1
             d == en[k]
  <2>1. k \in 1 .. n /\ s \in 0 .. m /\ d \in s + 1 .. m
    <3>1. BoundsAt(st, en, n, m, k)
      BY <1>0, PlaceBounds
    <3> QED
      BY <1>2, <3>1 DEF BoundsAt
  <2>2. b \in 1 .. m /\ b \in 0 .. m /\ d \in b .. m /\ b - 1 = s
    <3> HIDE DEF s, d, m
    <3> QED
      BY <1>0, <2>1
  <2>3. parts[b] = <<p[k]>> /\ \A i \in b + 1 .. d : parts[i] = << >>
    <3>1. parts[s + 1] = <<p[k]>> /\ \A i \in s + 2 .. d : parts[i] = << >>
      BY <2>1 DEF Parts
    <3>2. s + 2 = b + 1
      BY <2>2
    <3> QED
      BY <3>1, <3>2
  <2> HIDE DEF s, b, d, m
  <2>4. f[b] = f[s] \o <<p[k]>>
    <3>1. f[b] = f[b - 1] \o parts[b]
      BY <2>2 DEF Grows, m
    <3> QED
      BY <2>2, <2>3, <3>1
  <2>5. Idles(f, parts, b, d)
    <3> SUFFICES ASSUME NEW i \in b + 1 .. d PROVE f[i] = f[i - 1] \o parts[i] /\ parts[i] = << >>
      BY DEF Idles
    <3>1. i \in 1 .. m
      BY <1>0, <2>2
    <3> QED
      BY <2>3, <3>1 DEF Grows, m
  <2>6. f[d] = f[b]
    <3>1. f \in [0 .. m -> Seq(B)]
      BY DEF m
    <3> QED
      BY <1>0, <2>2, <2>5, <3>1, NothingJoins
  <2> QED
    BY <2>4, <2>6 DEF Joined, s, d
<1> QED
  BY <1>1, <1>2 DEF JoinsAt

(* Replacing the places from the last to the first gives the parts, joined.  *)
LEMMA PlacesReplaced ==
  ASSUME NEW B, NEW text \in Seq(B), NEW n \in Nat, NEW st, NEW en, PlacesOf(st, en, n, Len(text)),
         NEW p, \A k \in 1 .. n : p[k] \in B,
         NEW parts, Parts(parts, text, st, en, p, n),
         NEW f \in [0 .. Len(text) -> Seq(B)], f[0] = << >>, Grows(f, parts, Len(text)),
         NEW r, r[n] = text,
         Replaces(r, st, en, p, n)
  PROVE  r[0] = f[Len(text)]
<1> DEFINE m == Len(text)
           E(k) == EndOf(en, k)
           N(k) == NextOf(st, n, m, k)
           Good(k) == \E X \in Seq(B) : r[k] = Joined(SubSeq(text, 1, E(k)), X) /\ f[m] = Joined(f[E(k)], X)
           T == {j \in 0 .. n : ~Good(n - j)}
<1>1. m \in Nat
  OBVIOUS
<1>2. Good(n)
  <2> DEFINE e == E(n)
             X == SubSeq(text, e + 1, m)
  <2>1. n \in 0 .. n /\ N(n) = m
    BY DEF NextOf
  <2>2. e \in 0 .. m
    <3>1. BoundsAt(st, en, n, m, n)
      BY <1>1, <2>1, PlaceBounds
    <3> QED
      BY <3>1 DEF BoundsAt
  <2>3. f[m] = Joined(f[e], X)
    <3>0. JoinsAt(f, text, st, en, p, n, n)
      BY <2>1, PlaceJoins
    <3>1. f[N(n)] = Joined(f[e], SubSeq(text, e + 1, N(n)))
      BY <3>0 DEF JoinsAt
    <3> HIDE DEF N
    <3> QED
      BY <2>1, <3>1
  <2> HIDE DEF e
  <2>4. m \in e .. Len(text) /\ e \in 0 .. Len(text)
    BY <1>1, <2>2
  <2>5. X \in Seq(B) /\ SubSeq(text, 1, m) = Joined(SubSeq(text, 1, e), X)
    <3> DEFINE c == m
    <3>1. c \in e .. Len(text)
      BY <2>4
    <3> HIDE DEF c
    <3>2. SubSeq(text, e + 1, c) \in Seq(B) /\ SubSeq(text, 1, c) = SubSeq(text, 1, e) \o SubSeq(text, e + 1, c)
      BY <2>4, <3>1, CutBetween
    <3> QED
      BY <3>2 DEF Joined, c
  <2>6. SubSeq(text, 1, m) = text
    BY SubSeqFull
  <2> HIDE DEF X, m
  <2> QED
    BY <2>3, <2>5, <2>6 DEF e
<1>3. ASSUME NEW k \in 1 .. n, Good(k) PROVE Good(k - 1)
  <2> DEFINE e == E(k - 1)
             s == st[k]
             t == en[k]
             P == <<p[k]>>
             gap == SubSeq(text, e + 1, s)
  <2>1. k \in 0 .. n /\ k - 1 \in 0 .. n /\ k # 0
    OBVIOUS
  <2>2. E(k) = t /\ N(k - 1) = s /\ e \in 0 .. m /\ s \in e .. m /\ t \in s + 1 .. m
    <3> DEFINE h == k - 1
    <3>0. BoundsAt(st, en, n, m, k)
      BY <1>1, <2>1, PlaceBounds
    <3>1. E(k) = t /\ N(k - 1) = s /\ t \in s + 1 .. m
      BY <2>1, <3>0 DEF BoundsAt
    <3>2. h \in 0 .. n
      BY <2>1
    <3> HIDE DEF h
    <3>4. BoundsAt(st, en, n, m, h)
      BY <1>1, <3>2, PlaceBounds
    <3>3. E(h) \in 0 .. m /\ N(h) \in E(h) .. m
      BY <3>4 DEF BoundsAt
    <3> HIDE DEF E, N
    <3> QED
      BY <3>1, <3>3 DEF h
  <2>3. f[s] = Joined(f[e], gap) /\ f[t] = Joined(f[s], P)
    <3> DEFINE h == k - 1
    <3>1. h \in 0 .. n
      BY <2>1
    <3> HIDE DEF h
    <3>4. JoinsAt(f, text, st, en, p, n, h) /\ JoinsAt(f, text, st, en, p, n, k)
      BY <2>1, <3>1, PlaceJoins
    <3>2. f[N(h)] = Joined(f[E(h)], SubSeq(text, E(h) + 1, N(h)))
      BY <3>4 DEF JoinsAt
    <3>3. f[t] = Joined(f[s], P)
      BY <2>1, <3>4 DEF JoinsAt
    <3> HIDE DEF N, E, P, s, t
    <3> QED
      BY <2>2, <3>2, <3>3 DEF h
  <2>4. PICK X \in Seq(B) : r[k] = Joined(SubSeq(text, 1, t), X) /\ f[m] = Joined(f[t], X)
    <3>1. \E X \in Seq(B) : r[k] = Joined(SubSeq(text, 1, E(k)), X) /\ f[m] = Joined(f[E(k)], X)
      BY <1>3
    <3> HIDE DEF E, t
    <3> QED
      BY <2>2, <3>1
  <2>5. P \in Seq(B) /\ r[k - 1] = Joined(Joined(SubSeq(r[k], 1, s), P), SubSeq(r[k], t + 1, Len(r[k])))
    <3>1. P \in Seq(B)
      OBVIOUS
    <3>2. r[k - 1] = SubSeq(r[k], 1, s) \o P \o SubSeq(r[k], t + 1, Len(r[k]))
      BY DEF Replaces
    <3> QED
      BY <3>1, <3>2 DEF Joined
  <2> HIDE DEF e, s, t, P
  <2>6. f[e] \in Seq(B) /\ t \in s .. m /\ e \in 0 .. Len(text) /\ s \in e .. Len(text) /\ t \in s .. Len(text)
    <3>1. f[e] \in Seq(B)
      BY <2>2
    <3>2. t \in s .. m
      <4> HIDE DEF m
      <4> QED
        BY <1>1, <2>2
    <3> QED
      BY <2>2, <3>1, <3>2
  <2>7. Replaced(B, text, e, s, t, P, X, f[e])
    <3> DEFINE fe == f[e]
    <3>1. fe \in Seq(B) /\ X \in Seq(B)
      BY <2>4, <2>6
    <3> HIDE DEF fe
    <3>2. Replaced(B, text, e, s, t, P, X, fe)
      BY <2>5, <2>6, <3>1, PlaceReplaced
    <3> QED
      BY <3>2 DEF fe
  <2>8. PICK Y \in Seq(B) :
          /\ Joined(Joined(SubSeq(r[k], 1, s), P), SubSeq(r[k], t + 1, Len(r[k]))) = Joined(SubSeq(text, 1, e), Y)
          /\ Joined(Joined(Joined(f[e], gap), P), X) = Joined(f[e], Y)
    BY <2>4, <2>7 DEF Replaced
  <2> HIDE DEF gap, m
  <2>9. r[k - 1] = Joined(SubSeq(text, 1, e), Y) /\ f[m] = Joined(f[e], Y) /\ Y \in Seq(B)
    BY <2>3, <2>4, <2>5, <2>8
  <2> QED
    BY <2>9 DEF e
<1> HIDE DEF Good
<1>4. T = {}
  <2> SUFFICES ASSUME T # {} PROVE FALSE
    OBVIOUS
  <2>1. PICK j \in T : \A i \in T : j <= i
    <3>1. T \subseteq Nat
      OBVIOUS
    <3> HIDE DEF T
    <3> QED
      BY <3>1, LeastNumber
  <2>2. j \in 0 .. n /\ ~Good(n - j) /\ j # 0
    BY <1>2
  <2> DEFINE k == n - j + 1
  <2>3. k \in 1 .. n /\ n - j = k - 1 /\ j - 1 \in 0 .. n /\ n - (j - 1) = k /\ ~(j <= j - 1)
    BY <2>2
  <2> HIDE DEF k
  <2>4. Good(k)
    <3>1. j - 1 \notin T
      BY <2>1, <2>3
    <3> QED
      BY <2>3, <3>1
  <2>5. Good(k - 1)
    BY <1>3, <2>3, <2>4
  <2> QED
    BY <2>2, <2>3, <2>5
<1>5. Good(0)
  <2>1. n \in 0 .. n /\ n - n = 0
    OBVIOUS
  <2> QED
    BY <1>4, <2>1
<1>6. PICK X \in Seq(B) : r[0] = Joined(SubSeq(text, 1, 0), X) /\ f[m] = Joined(f[0], X)
  BY <1>5 DEF Good, EndOf
<1>7. SubSeq(text, 1, 0) = << >>
  BY SubSeqEmpty
<1> QED
  BY <1>6, <1>7

\* What each character of a text becomes, as FindingsMasked puts it.
MaskParts(text, taken) ==
  [i \in DOMAIN text |->
     LET at_i == {k \in DOMAIN taken : i \in Positions(taken[k].range)}
     IN IF at_i = {} THEN <<text[i]>>
        ELSE IF taken[Least(at_i)].range.start = i - 1 THEN <<Placeholder(text, taken, Least(at_i))>> ELSE << >>]

Starts(taken) == [k \in DOMAIN taken |-> taken[k].range.start]
Ends(taken) == [k \in DOMAIN taken |-> taken[k].range.end]

(* The parts of a text are the placeholders of its places, and the rest.    *)
LEMMA MaskPartsFit ==
  ASSUME NEW A, NEW text \in Seq(A), NEW n \in Nat, NEW taken, DOMAIN taken = 1 .. n,
         PlacesOf(Starts(taken), Ends(taken), n, Len(text))
  PROVE  Parts(MaskParts(text, taken), text, Starts(taken), Ends(taken), Placed(text, taken), n)
<1> DEFINE m == Len(text)
           parts == MaskParts(text, taken)
           st == Starts(taken)
           en == Ends(taken)
           p == Placed(text, taken)
           At(i) == {k \in 1 .. n : i \in st[k] + 1 .. en[k]}
<1>1. m \in Nat /\ DOMAIN text = 1 .. m
  OBVIOUS
<1>2. \A k \in 1 .. n : st[k] = taken[k].range.start /\ en[k] = taken[k].range.end /\ p[k] = Placeholder(text, taken, k)
  BY DEF Starts, Ends, Placed
<1>3. \A k \in 1 .. n : st[k] \in Nat /\ en[k] \in Nat /\ st[k] < en[k] /\ en[k] <= m
  BY DEF PlacesOf
<1>4. \A j, k \in 1 .. n : j < k => en[j] <= st[k]
  BY DEF PlacesOf
<1>5. \A i \in 1 .. m : At(i) = {k \in DOMAIN taken : i \in Positions(taken[k].range)}
  BY <1>2 DEF Positions
<1>6. \A i \in 1 .. m : parts[i] = IF At(i) = {} THEN <<text[i]>>
                                   ELSE IF taken[Least(At(i))].range.start = i - 1 THEN <<Placeholder(text, taken, Least(At(i)))>> ELSE << >>
  BY <1>1, <1>5 DEF MaskParts
<1> HIDE DEF parts, st, en, p
<1>7. ASSUME NEW k \in 1 .. n, NEW i \in st[k] + 1 .. en[k]
      PROVE  i \in 1 .. m /\ At(i) = {k} /\ Least(At(i)) = k
  <2>1. i \in 1 .. m
    <3>1. st[k] \in Nat /\ en[k] \in Nat /\ en[k] <= m
      BY <1>3
    <3> QED
      BY <1>1, <3>1
  <2>2. ASSUME NEW j \in 1 .. n, i \in st[j] + 1 .. en[j], j # k PROVE FALSE
    <3>1. st[k] \in Nat /\ en[k] \in Nat /\ st[j] \in Nat /\ en[j] \in Nat
      BY <1>3
    <3>2. en[j] <= st[k] \/ en[k] <= st[j]
      <4>1. j < k \/ k < j
        BY <2>2
      <4> QED
        BY <1>4, <4>1
    <3> QED
      BY <2>2, <3>1, <3>2
  <2>3. At(i) = {k}
    BY <2>2
  <2>4. Least({k}) = k
    <3>1. {k} \subseteq Nat /\ {k} # {}
      OBVIOUS
    <3>2. Least({k}) \in {k}
      BY <3>1, LeastOf
    <3> QED
      BY <3>2
  <2> QED
    BY <2>1, <2>3, <2>4
<1>8. ASSUME NEW k \in 1 .. n, NEW i \in st[k] + 1 .. en[k]
      PROVE  parts[i] = IF st[k] = i - 1 THEN <<p[k]>> ELSE << >>
  <2>1. i \in 1 .. m /\ At(i) # {} /\ Least(At(i)) = k
    BY <1>7
  <2> HIDE DEF At
  <2> QED
    BY <1>2, <1>6, <2>1
<1>9. ASSUME NEW k \in 1 .. n PROVE parts[st[k] + 1] = <<p[k]>> /\ \A i \in st[k] + 2 .. en[k] : parts[i] = << >>
  <2> DEFINE a == st[k]
             b == en[k]
  <2>1. a \in Nat /\ b \in Nat /\ a < b
    BY <1>3
  <2>2. a + 1 \in a + 1 .. b /\ a = a + 1 - 1
    <3> HIDE DEF a, b
    <3> QED
      BY <2>1
  <2>3. parts[a + 1] = <<p[k]>>
    <3> DEFINE c == a + 1
    <3>3. c \in a + 1 .. b /\ a = c - 1
      <4> HIDE DEF a, b
      <4> QED
        BY <2>1, <2>2
    <3>1. c \in st[k] + 1 .. en[k] /\ st[k] = c - 1
      BY <3>3
    <3> HIDE DEF c
    <3>2. parts[c] = <<p[k]>>
      BY <1>8, <3>1
    <3> QED
      BY <3>2 DEF c
  <2>4. ASSUME NEW i \in a + 2 .. b PROVE parts[i] = << >>
    <3>1. i \in a + 1 .. b /\ a # i - 1
      <4> HIDE DEF a, b
      <4> QED
        BY <2>1
    <3> QED
      BY <1>8, <3>1
  <2> QED
    BY <2>3, <2>4
<1>10. ASSUME NEW i \in 1 .. m, \A k \in 1 .. n : i \notin st[k] + 1 .. en[k] PROVE parts[i] = <<text[i]>>
  <2>1. At(i) = {}
    BY <1>10
  <2> HIDE DEF At
  <2> QED
    BY <1>6, <2>1
<1> QED
  BY <1>9, <1>10 DEF Parts, parts, st, en, p

(* Each part is a text of its own.                                          *)
LEMMA PartsAreTexts ==
  ASSUME NEW B, NEW text \in Seq(B), NEW n \in Nat, NEW st, NEW en, PlacesOf(st, en, n, Len(text)),
         NEW p, \A k \in 1 .. n : p[k] \in B, NEW parts, Parts(parts, text, st, en, p, n)
  PROVE  \A i \in 1 .. Len(text) : parts[i] \in Seq(B)
<1> SUFFICES ASSUME NEW i \in 1 .. Len(text) PROVE parts[i] \in Seq(B)
  OBVIOUS
<1>1. text[i] \in B
  OBVIOUS
<1>2. << >> \in Seq(B) /\ \A x \in B : <<x>> \in Seq(B)
  OBVIOUS
<1>3. CASE \A k \in 1 .. n : i \notin st[k] + 1 .. en[k]
  BY <1>1, <1>2, <1>3 DEF Parts
<1>4. ASSUME NEW k \in 1 .. n, i \in st[k] + 1 .. en[k] PROVE parts[i] \in Seq(B)
  <2> DEFINE a == st[k]
             b == en[k]
  <2>1. a \in Nat /\ b \in Nat /\ i \in a + 1 .. b
    BY <1>4 DEF PlacesOf
  <2>2. i = a + 1 \/ i \in a + 2 .. b
    <3> HIDE DEF a, b
    <3> QED
      BY <2>1
  <2>3. CASE i = a + 1
    BY <1>2, <2>3 DEF Parts
  <2>4. CASE i \in a + 2 .. b
    BY <1>2, <2>4 DEF Parts
  <2> QED
    BY <2>2, <2>3, <2>4
<1> QED
  BY <1>3, <1>4

(* A masked text is its parts, joined.                                      *)
LEMMA MaskedText ==
  ASSUME NEW A, NEW text \in Seq(A), NEW D, D \subseteq Detections(text), IsFiniteSet(D)
  PROVE  ApplyPlaceholders(text, D) = FlattenSeq(MaskParts(text, NonOverlapping(D)))
<1> DEFINE taken == NonOverlapping(D)
           n == Cardinality(Accepted(D))
           m == Len(text)
           parts == MaskParts(text, taken)
           st == Starts(taken)
           en == Ends(taken)
           p == Placed(text, taken)
           B == A \cup {p[k] : k \in 1 .. n}
           result == ApplyPlaceholders(text, D)
<1>1. /\ n \in Nat /\ DOMAIN taken = 1 .. n /\ taken \in [1 .. n -> D]
      /\ \A j, k \in 1 .. n : j < k => taken[j].range.end <= taken[k].range.start
  BY TakenFacts
<1> HIDE DEF n
<1>2. PICK r : MaskSteps(r, text, taken, n, result)
  BY <1>1, MaskStepwise
<1> HIDE DEF taken, result
<1>3. PlacesOf(st, en, n, m)
  <2>1. ASSUME NEW k \in 1 .. n
        PROVE  st[k] \in Nat /\ en[k] \in Nat /\ st[k] < en[k] /\ en[k] <= m
    <3>1. taken[k] \in Detections(text)
      BY <1>1
    <3> DEFINE d == taken[k]
    <3> HIDE DEF d
    <3>2. d.range.start \in Nat /\ d.range.end \in Nat /\ d.range.start < d.range.end /\ d.range.end <= Len(text)
      BY <3>1, DetectionFacts DEF d
    <3> QED
      BY <1>1, <3>2 DEF Starts, Ends, d
  <2>2. st = [k \in 1 .. n |-> st[k]] /\ en = [k \in 1 .. n |-> en[k]]
    BY <1>1 DEF Starts, Ends
  <2>3. \A j, k \in 1 .. n : j < k => en[j] <= st[k]
    BY <1>1 DEF Starts, Ends
  <2> HIDE DEF st, en
  <2>4. st \in [1 .. n -> Nat] /\ en \in [1 .. n -> Nat]
    BY <2>1, <2>2
  <2> QED
    BY <2>1, <2>3, <2>4 DEF PlacesOf
<1>4. Parts(parts, text, st, en, p, n)
  BY <1>1, <1>3, MaskPartsFit
<1>5. Replaces(r, st, en, p, n)
  BY <1>1, <1>2 DEF MaskSteps, MaskStep, Replaces, Starts, Ends
<1>6. r[n] = text /\ r[0] = result
  BY <1>2 DEF MaskSteps
<1>7. m \in Nat /\ DOMAIN text = 1 .. m /\ DOMAIN parts = 1 .. m /\ parts = [i \in 1 .. m |-> parts[i]]
  BY DEF MaskParts
<1>8. text \in Seq(B) /\ \A k \in 1 .. n : p[k] \in B
  <2>1. \A i \in 1 .. m : text[i] \in B
    OBVIOUS
  <2>2. text \in [1 .. m -> B]
    BY <1>7, <2>1
  <2> HIDE DEF B
  <2>3. text \in Seq(B)
    BY <1>7, <2>2
  <2> QED
    BY <2>3 DEF B
<1> HIDE DEF parts, st, en, p, B
<1>9. parts \in Seq(Seq(B)) /\ Len(parts) = m
  <2>1. \A i \in 1 .. m : parts[i] \in Seq(B)
    BY <1>1, <1>3, <1>4, <1>8, PartsAreTexts
  <2> DEFINE Q == Seq(B)
  <2> HIDE DEF Q, m
  <2>2. parts \in [1 .. m -> Q]
    BY <1>7, <2>1 DEF Q
  <2>3. parts \in Seq(Q)
    BY <1>7, <2>2
  <2> QED
    BY <1>7, <2>3 DEF Q
<1>10. PICK f \in [0 .. Len(parts) -> Seq(B)] : Joins(f, parts)
  BY <1>9, JoinsExist
<1>11. f \in [0 .. Len(text) -> Seq(B)] /\ f[0] = << >> /\ Grows(f, parts, Len(text)) /\ f[Len(text)] = FlattenSeq(parts)
  BY <1>9, <1>10 DEF Joins, Grows
<1>12. r[0] = f[Len(text)]
  <2>1. text \in Seq(B) /\ n \in Nat /\ PlacesOf(st, en, n, Len(text)) /\ Parts(parts, text, st, en, p, n)
    BY <1>1, <1>3, <1>4, <1>8
  <2>2. f \in [0 .. Len(text) -> Seq(B)] /\ f[0] = << >> /\ Grows(f, parts, Len(text))
    BY <1>11
  <2>3. r[n] = text /\ Replaces(r, st, en, p, n) /\ \A k \in 1 .. n : p[k] \in B
    BY <1>5, <1>6, <1>8
  <2> QED
    BY <2>1, <2>2, <2>3, PlacesReplaced
<1>13. result = FlattenSeq(parts)
  BY <1>6, <1>11, <1>12
<1> QED
  BY <1>13 DEF result, parts, taken

\* What the composer shows is the first text with what was found in it replaced.
MaskHold ==
  masked # None =>
    LET text == documents[1][1].text
        found == DetectionsForMasking(text, EvaluateFilterRules(text, Enabled) \cap Masking)
    IN masked = ApplyPlaceholders(text, found)

(* Only Match masks, and no step changes the text that was masked.          *)
LEMMA MaskStays ==
  /\ PipelineInit => MaskHold
  /\ MaskHold /\ [PipelineNext]_pipelineVars => MaskHold'
<1>1. PipelineInit => MaskHold
  BY DEF PipelineInit, MaskHold
<1>2. ASSUME MaskHold, [PipelineNext]_pipelineVars PROVE MaskHold'
  <2>1. CASE Match
    <3>1. documents' = documents
      BY <2>1 DEF Match, request
    <3> DEFINE text == documents[1][1].text
               found == DetectionsForMasking(text, EvaluateFilterRules(text, Enabled) \cap Masking)
    <3>2. masked' = IF found = {} THEN None ELSE ApplyPlaceholders(text, found)
      BY <2>1 DEF Match
    <3>3. masked' # None => masked' = ApplyPlaceholders(text, found)
      <4> HIDE DEF text, found
      <4> QED
        BY <3>2
    <3> QED
      BY <3>1, <3>3 DEF MaskHold
  <2>2. CASE ~Match
    <3>1. masked' = masked /\ documents' = documents
      BY <1>2, <2>2 DEF PipelineNext, pipelineVars, request, perText, results, Scan, EmbedFails, EmbedBatch, BuildSegments, Map,
                        PoolVectors, ClassifierFails, Classify, VerifierFails, Verify
    <3> QED
      BY <1>2, <3>1 DEF MaskHold
  <2> QED
    BY <2>1, <2>2
<1> QED
  BY <1>1, <1>2

(* So it is masked like this in every state.                                *)
LEMMA MaskHolds == PipelineSpec => []MaskHold
BY MaskStays, PTL DEF PipelineSpec

(* And a text masked like this has its findings masked.                     *)
LEMMA MaskedFindings == RequestFits /\ MaskHold => FindingsMasked
<1> SUFFICES ASSUME RequestFits, MaskHold, masked # None PROVE FindingsMasked
  BY Zenon DEF FindingsMasked
<1> DEFINE text == documents[1][1].text
           rules == EvaluateFilterRules(text, Enabled) \cap Masking
           found == DetectionsForMasking(text, rules)
           taken == NonOverlapping(found)
           n == Cardinality(Accepted(found))
           At(i) == {k \in DOMAIN taken : i \in Positions(taken[k].range)}
<1>1. IsSequence(text)
  <2>1. IsSequence(documents) /\ documents # << >>
    BY DEF RequestFits
  <2>2. 1 \in DOMAIN documents
    BY <2>1 DEF IsSequence
  <2> DEFINE document == documents[1]
  <2>3. IsSequence(document) /\ document # << >> /\ \A block \in Range(document) : IsSequence(block.text)
    BY <2>2 DEF RequestFits, Range
  <2> HIDE DEF document
  <2>4. 1 \in DOMAIN document
    BY <2>3 DEF IsSequence
  <2>5. document[1] \in Range(document)
    BY <2>4 DEF Range
  <2>6. IsSequence(document[1].text)
    BY <2>3, <2>5
  <2> QED
    BY <2>6 DEF document
<1>2. masked = ApplyPlaceholders(text, found)
  BY DEF MaskHold
<1>3. rules \subseteq Rules
  BY PipelineAssumption DEF PipelineAssumption
<1> HIDE DEF text, rules
<1> DEFINE A == Range(text)
<1>4. text \in Seq(A)
  BY <1>1 DEF IsSequence
<1> HIDE DEF A
<1>5. found \subseteq Detections(text) /\ IsFiniteSet(found)
  BY <1>3, <1>4, DetectionsFit
<1> HIDE DEF found
<1>6. /\ n \in Nat /\ DOMAIN taken = 1 .. n
      /\ \A d \in found : \E k \in 1 .. n : Overlap(d.range, taken[k].range)
  BY <1>4, <1>5, TakenFacts
<1> HIDE DEF n
<1>7. masked = FlattenSeq(MaskParts(text, taken))
  BY <1>2, <1>4, <1>5, MaskedText
<1> HIDE DEF taken
<1>8. \A j, k \in DOMAIN taken : Placeholder(text, taken, j) = Placeholder(text, taken, k)
                                     <=> Identity(text, taken[j]) = Identity(text, taken[k])
  BY <1>6, PlaceholdersApart
<1>9. masked = FlattenSeq([i \in DOMAIN text |->
                  IF At(i) = {} THEN <<text[i]>>
                  ELSE IF taken[Least(At(i))].range.start = i - 1
                         THEN <<Placeholder(text, taken, Least(At(i)))>> ELSE <<>>])
  BY <1>7 DEF MaskParts
<1>10. \A d \in found : \E k \in DOMAIN taken : Overlap(d.range, taken[k].range)
  BY <1>6
<1> QED
  BY <1>8, <1>9, <1>10, Zenon DEF FindingsMasked, taken, found, rules, text

(* In every state, for every text, rule and placeholder: the masked text is *)
(* the text with each accepted detection replaced, no detection of a        *)
(* masking rule is left without one that overlaps it, and one placeholder   *)
(* stands for one value.                                                    *)
THEOREM FindingsAreMasked == PipelineSpec => []FindingsMasked
<1>1. PipelineInit => RequestFits
  BY RequestStays
<1>2. RequestFits /\ [PipelineNext]_pipelineVars => RequestFits'
  BY RequestStays
<1>3. RequestFits /\ MaskHold => FindingsMasked
  BY MaskedFindings
<1> QED
  BY <1>1, <1>2, <1>3, MaskHolds, PTL DEF PipelineSpec
=============================================================================
