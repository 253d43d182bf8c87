---------------------------- MODULE TextScanning ----------------------------
(***************************************************************************)
(* From a text to what the filter rules find in it, and to the masked      *)
(* text: normalizer, lexical scanner, PII detectors, rule matching and     *)
(* placeholders.  There is no state here.                                  *)
(*                                                                         *)
(* A text is a sequence of characters, a range is half-open and counts     *)
(* from 0 as in the code.  A regular expression is the sequence of its     *)
(* words: the scanner takes the first alternative that matches at the      *)
(* leftmost place.  Case folding, empty matches, checksums and what a rule *)
(* carries for the audit are left out.  A key is the rank of its name in   *)
(* the alphabet, which only breaks ties.                                   *)
(***************************************************************************)
EXTENDS Integers, Sequences, FiniteSets, SequencesExt

CONSTANTS
  Specials,       \* characters of the Unicode categories P and S
  Blanks,         \* white space
  MinimumRepeat,  \* NormalizationPolicy.minimum_repeat
  Words,          \* [rules -> words of the rule, the terms of a context rule]
  Kind,           \* [rules -> "detector", "keyword", "regex" or "context_rule"]
  Key,            \* [rules -> placeholder, or the default one of the kind]
  YieldsTo,       \* [rules -> detectors that take a value away from this one]
  MinConditions,  \* [rules -> min_condition_count of a context rule]
  NoRange

Rules == DOMAIN Words

ASSUME ScanningAssumption ==
  /\ MinimumRepeat \in Nat \ {0, 1} /\ Blanks \cap Specials = {} /\ NoRange \notin [start : Nat, end : Nat]
  /\ \A r \in Rules : /\ Words[r] \in Seq(Seq(UNION {Range(w) : w \in Range(Words[r])}) \ {<<>>})
                      /\ Kind[r] \in {"detector", "keyword", "regex", "context_rule"} /\ Key[r] \in Int
  /\ IsFiniteSet(Rules)

Span(start, end) == [start |-> start, end |-> end]
Positions(range) == range.start + 1 .. range.end
Slice(text, range) == SubSeq(text, range.start + 1, range.end)
Overlap(a, b) == a.start < b.end /\ b.start < a.end
Least(S) == CHOOSE x \in S : \A y \in S : x <= y
Greatest(S) == CHOOSE x \in S : \A y \in S : y <= x

\* Before is a strict total order on S.
Sorted(S, Before(_, _)) ==
  [k \in 1 .. Cardinality(S) |-> CHOOSE x \in S : Cardinality({y \in S : Before(y, x)}) = k - 1]

(***************************************************************************)
(* Normalizer: a run of one special character becomes one character.       *)
(***************************************************************************)
RunEnd(text, i) ==
  IF text[i] \notin Specials THEN i
  ELSE Greatest({j \in i .. Len(text) : \A k \in i .. j : text[k] = text[i]})

\* Where the step that starts at i ends.
StepEnd(text, i) == IF RunEnd(text, i) - i + 1 < MinimumRepeat THEN i ELSE RunEnd(text, i)

Kept(text) == {i \in DOMAIN text : \A j \in 1 .. i - 1 : StepEnd(text, j) < i}

\* Mutant: an entry covers its first character only.
NormalizeFirst(text) ==
  LET kept == Sorted(Kept(text), <)
  IN [text |-> [k \in DOMAIN kept |-> text[kept[k]]],
      offsets |-> [k \in DOMAIN kept |-> Span(kept[k] - 1, kept[k])]]

Normalize(text) ==
  LET kept == Sorted(Kept(text), <)
  IN [text |-> [k \in DOMAIN kept |-> text[kept[k]]],
      offsets |-> [k \in DOMAIN kept |-> Span(kept[k] - 1, StepEnd(text, kept[k]))]]

RestoreOriginalRange(range, offsets) ==
  LET selected == Positions(range) \cap DOMAIN offsets
  IN IF \/ selected = {} \/ selected # Positions(range)
        \/ \E k \in selected : k + 1 \in selected /\ offsets[k].end # offsets[k + 1].start
       THEN NoRange
       ELSE Span(offsets[range.start + 1].start, offsets[range.end].end)

(***************************************************************************)
(* Scanner                                                                 *)
(***************************************************************************)
WordsAt(words, text, i) ==
  {k \in DOMAIN words : i + Len(words[k]) - 1 <= Len(text) /\ SubSeq(text, i, i + Len(words[k]) - 1) = words[k]}

\* Non-overlapping matches from left to right.
Find(words, text) ==
  FoldLeft(LAMBDA found, i :
             IF WordsAt(words, text, i) = {} \/ \E m \in found : i <= m.end THEN found
             ELSE found \cup {Span(i - 1, i - 1 + Len(words[Least(WordsAt(words, text, i))]))},
           {}, [i \in DOMAIN text |-> i])

\* Rules are matched against the normalized text.
Signals(rule, text) ==
  LET normal == Normalize(text)
  IN {[rule |-> rule, normalized |-> m, original |-> RestoreOriginalRange(m, normal.offsets)] :
        m \in Find(Words[rule], normal.text)}

ScanFailures(rule, text) == {s \in Signals(rule, text) : s.original = NoRange}

(***************************************************************************)
(* Matches of the filter rules: built-in detectors look at the text as it  *)
(* is, whether or not the rules of the others are enabled.                 *)
(***************************************************************************)
Detect(rule, text) ==
  {d \in Find(Words[rule], text) : \A other \in YieldsTo[rule] : \A taken \in Find(Words[other], text) : ~Overlap(d, taken)}

Spans(rule, text) ==
  CASE Kind[rule] = "detector" -> Detect(rule, text)
    [] Kind[rule] \in {"keyword", "regex"} -> {s.original : s \in Signals(rule, text) \ ScanFailures(rule, text)}
    [] Kind[rule] = "context_rule" -> {}

MatchedTerms(rule, text) ==
  {k \in DOMAIN Words[rule] : Find(<<Words[rule][k]>>, Normalize(text).text) # {}}

Matched(rule, text) ==
  IF Kind[rule] = "context_rule"
    THEN Cardinality(MatchedTerms(rule, text)) >= MinConditions[rule]
    ELSE Spans(rule, text) # {}

EvaluateFilterRules(text, enabled) == {rule \in enabled : Matched(rule, text)}

DetectionsForMasking(text, masking) ==
  UNION {{[key |-> Key[rule], range |-> d] : d \in Spans(rule, text)} : rule \in masking}

(***************************************************************************)
(* Placeholders                                                            *)
(***************************************************************************)
Size(d) == d.range.end - d.range.start

\* Longest first, then leftmost, then by key.
Precedes(a, b) ==
  \/ Size(a) > Size(b)
  \/ Size(a) = Size(b) /\ a.range.start < b.range.start
  \/ Size(a) = Size(b) /\ a.range.start = b.range.start /\ a.key < b.key

NonOverlapping(detections) ==
  LET accepted == FoldLeft(LAMBDA taken, d : IF \E e \in taken : Overlap(d.range, e.range) THEN taken ELSE taken \cup {d},
                           {}, Sorted(detections, Precedes))
  IN Sorted(accepted, LAMBDA a, b : a.range.start < b.range.start)

\* " ".join(value.split()), with any blank as the separator.
Collapsed(value) ==
  LET ink == {i \in DOMAIN value : value[i] \notin Blanks}
      kept == {i \in DOMAIN value : /\ \E a \in ink : a <= i
                                    /\ i \in ink \/ i + 1 \in ink}
  IN [k \in 1 .. Cardinality(kept) |->
        LET i == Sorted(kept, <)[k] IN IF i \in ink THEN value[i] ELSE "blank"]

Identity(text, d) == [key |-> d.key, value |-> Collapsed(Slice(text, d.range))]

\* Mutant: one placeholder for all values of a kind.
PlaceholderOfKey(text, accepted, k) == [key |-> accepted[k].key, number |-> 1]

\* The first detection of a value takes the next number of its key.
Placeholder(text, accepted, k) ==
  LET id(j) == Identity(text, accepted[j])
      first == Least({j \in 1 .. k : id(j) = id(k)})
  IN [key |-> accepted[k].key,
      number |-> Cardinality({id(j) : j \in {i \in 1 .. first : accepted[i].key = accepted[k].key}})]

ApplyPlaceholders(text, detections) ==
  LET accepted == NonOverlapping(detections)
  IN FoldLeft(LAMBDA masked, k :
                SubSeq(masked, 1, accepted[k].range.start) \o <<Placeholder(text, accepted, k)>>
                  \o SubSeq(masked, accepted[k].range.end + 1, Len(masked)),
              text, Reverse([k \in DOMAIN accepted |-> k]))
=============================================================================
