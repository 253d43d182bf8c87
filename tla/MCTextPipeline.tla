--------------------------- MODULE MCTextPipeline ---------------------------
EXTENDS TextPipeline

CONSTANTS w, x, y, a, d, dash, blank, line, dot, fence, bar, comma, card, account, header, name, topic

MCSpecials == {dash, fence, bar, comma, dot}
MCBlanks == {blank, line}

MCWords ==
  [r \in {card, account, header, name, topic} |->
     CASE r = card -> <<<<d, d, d>>>>
       [] r = account -> <<<<a, d>>>>
       [] r = header -> <<<<dash, dash, a>>, <<dash, a, dash>>, <<d, dash>>>>
       [] r = name -> <<<<a, blank, a>>, <<a, a>>>>
       [] r = topic -> <<<<a>>, <<d>>, <<dash>>>>]

MCKind ==
  [r \in {card, account, header, name, topic} |->
     CASE r \in {card, account} -> "detector" [] r = header -> "regex" [] r = name -> "keyword" [] r = topic -> "context_rule"]

MCKey == [r \in {card, account, header, name, topic} |-> CASE r = card -> 2 [] r = account -> 1 [] OTHER -> 3]
MCYieldsTo == [r \in {card, account, header, name, topic} |-> IF r = card THEN {account} ELSE {}]
MCMinConditions == [r \in {card, account, header, name, topic} |-> 2]

Texts(n, alphabet) == UNION {[1 .. k -> alphabet] : k \in 1 .. n}
Block(text, source) == [text |-> text, source |-> source]
One(text) == <<<<Block(text, "text")>>>>

Long ==
  {<<a, a, a, dot, a, a, line, a, a, a, a, a>>, <<a, blank, a, a, line, line, d, d, dash, dash, a>>,
   <<a, a, a, a, a, a, a, a, a, a, a>>, <<blank, a, d, d, d, blank, a, d, a, d, line>>,
   <<a, fence, a, line, line, d, fence, blank, a, a>>, <<a, a, line, line, a, fence, d, d>>,
   <<a, bar, d, line, d, bar, a, line>>, <<a, bar, line, d, line, line, a>>,
   <<d, d, d, a, blank, a, a, dash, a, dash, dash>>}

Sheets == {<<a, comma, d, line, d, comma, a>>, <<a, comma, d, comma, line, a>>, <<a, line, line, a>>}

Some == {<<a>>, <<blank>>, <<a, line, line, d>>}

Documents ==
  {One(text) : text \in Texts(4, {a, d, dash, blank}) \cup Texts(3, {a, line, dot, fence, bar}) \cup Long}
    \cup {<<<<Block(text, source)>>>> : text \in Sheets, source \in {"text", "table", "ocr"}}
    \cup {<<<<Block(text, "text"), Block(other, "text")>>>> : text \in Some, other \in Some \cup {<<a, a, a, a>>}}
    \cup {One(text) \o One(other) : text \in Some, other \in Some}

(***************************************************************************)
(* Settings of the operator: a good one, and ones with something else.     *)
(***************************************************************************)
Chunks(chars, overlap, most) == [chunk_chars |-> chars, chunk_overlap |-> overlap, max_chunks |-> most, pooling |-> "max"]

Classifier ==
  [lr_model |-> <<"lr">>, target_labels_json |-> <<"labels">>, candidate_threshold |-> 1]

ByPolicy(policy) == [lr_model |-> <<"lr">>, target_labels_json |-> <<"labels">>, lr_candidate_policy |-> policy]

VerifierFile ==
  [verifier_dir |-> <<"roberta">>, label_definitions_json |-> <<"definitions">>, target_labels_json |-> <<"labels">>,
   chunk_policy |-> Chunks(3, 1, 3), verifier_threshold_mode |-> "global", verifier_threshold |-> 1,
   verifier_thresholds |-> Bad]

Manifest(file) == <<"srv", "models", file>>

Disk(classifier, verifier, labels, columns, definitions) ==
  [path \in {Manifest("classifier"), Manifest("verifier"), <<"srv", "labels">>, <<"srv", "lr">>,
             <<"srv", "definitions">>, <<"srv", "roberta">>} |->
     CASE path = Manifest("classifier") -> classifier
       [] path = Manifest("verifier") -> verifier
       [] path = <<"srv", "labels">> -> labels
       [] path = <<"srv", "lr">> -> [classifier |-> "lr", target_labels |-> columns]
       [] path = <<"srv", "definitions">> -> definitions
       [] OTHER -> "roberta"]

Both(disk) ==
  [classifier_enabled |-> TRUE, classifier_manifest |-> Manifest("classifier"),
   verifier_enabled |-> TRUE, verifier_manifest |-> Manifest("verifier"), disk |-> disk]

Of(classifier, verifier) == Both(Disk(classifier, verifier, <<x>>, <<x>>, [l \in {x, y} |-> w]))
Good == Of(Classifier, VerifierFile)
Labelled(labels, columns, definitions) == Both(Disk(Classifier, VerifierFile, labels, columns, definitions))
Verifying(verifier) == Of(Classifier, verifier)
Without(path) == Both([p \in DOMAIN Good.disk \ {path} |-> Good.disk[p]])
Labelwise(thresholds) ==
  Verifying([VerifierFile EXCEPT !.verifier_threshold_mode = "labelwise", !.verifier_thresholds = thresholds])

\* The first is the one most documents are analysed under.
MCSettings ==
  <<Good, [Good EXCEPT !.verifier_enabled = FALSE], Labelled(<<x, y>>, <<x, y>>, [l \in {x, y} |-> w]),
    [Good EXCEPT !.classifier_enabled = FALSE], [Good EXCEPT !.classifier_manifest = Bad],
    Labelled(<<x, y>>, <<y, x>>, [l \in {x, y} |-> w]), Labelled(<<x, x>>, <<x, x>>, [l \in {x, y} |-> w]),
    Labelled(<<x>>, <<x>>, [l \in {y} |-> w]), Labelled(<<>>, <<x>>, [l \in {x} |-> w]),
    Labelled(<<x, Bad>>, <<x>>, [l \in {x} |-> w]), Labelled(<<x>>, <<Bad>>, [l \in {x} |-> w]),
    Of([Classifier EXCEPT !.lr_model = <<"..", "lr">>], VerifierFile), Of([Classifier EXCEPT !.lr_model = Bad], VerifierFile),
    Of([Classifier EXCEPT !.candidate_threshold = Full + 1], VerifierFile), Of(Bad, Bad),
    Of(ByPolicy([mode |-> "global_high_recall_threshold", candidate_threshold |-> 0]), VerifierFile),
    Of(ByPolicy([mode |-> "other", candidate_threshold |-> 0]), VerifierFile), Of(ByPolicy(Bad), VerifierFile),
    Without(<<"srv", "lr">>), Without(<<"srv", "labels">>), Without(<<"srv", "roberta">>), Without(<<"srv", "definitions">>),
    Labelwise([l \in {x} |-> 1]), Labelwise([l \in {} |-> 1]), Labelwise([l \in {x, y} |-> 1]), Labelwise(Bad),
    Labelwise([l \in {x} |-> Full + 1]),
    Verifying([VerifierFile EXCEPT !.verifier_dir = <<"/", "roberta">>]),
    Verifying([VerifierFile EXCEPT !.verifier_threshold = Bad]), Verifying([VerifierFile EXCEPT !.verifier_threshold_mode = "none"]),
    Verifying([VerifierFile EXCEPT !.chunk_policy = Chunks(2, 2, 3)]), Verifying([VerifierFile EXCEPT !.chunk_policy = Chunks(2, 1, 2)]),
    Verifying([VerifierFile EXCEPT !.chunk_policy.pooling = "mean"]),
    [Good EXCEPT !.disk = [p \in ({Manifest("labels")} \cup DOMAIN Good.disk) \ {<<"srv", "labels">>} |->
       IF p = Manifest("labels") THEN <<x>> ELSE Good.disk[p]]]>>

MCCases ==
  [documents : Documents, setting : {1}]
    \cup [documents : {One(<<a>>), One(<<a, a, a, a, a, d, d>>)}, setting : DOMAIN MCSettings]
    \cup [documents : {One(<<a>>) \o One(<<d>>), One(<<blank>>) \o One(<<d>>)}, setting : {2, 3, 4, 16, 23}]
=============================================================================
