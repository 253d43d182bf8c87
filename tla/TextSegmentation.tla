-------------------------- MODULE TextSegmentation --------------------------
(***************************************************************************)
(* From the blocks of a document to atoms, from atoms to segments, from    *)
(* scanned signals to the segments they belong to, and from a segment to   *)
(* the chunks the verifier reads.  There is no state here.                 *)
(*                                                                         *)
(* A code fence is one character, so is a delimiter of columns; the        *)
(* location, the type and the hashed id of a segment are left out, and the *)
(* similarity of two neighbouring atoms is a number.                       *)
(***************************************************************************)
EXTENDS TextScanning

CONSTANTS
  Newline,
  Sentences,       \* SENTENCE_BOUNDARIES
  Fences,          \* "```" and "~~~"
  Bar, Comma,      \* "|" or tab, and ","
  MaxAtomChars,
  MinAtoms, TargetChars, MaxChars, BreakThreshold    \* SegmentPolicy

ASSUME SegmentationAssumption ==
  /\ Newline \in Blanks /\ Fences \cup {Bar, Comma} \subseteq Specials /\ Sentences \cap Blanks = {}
  /\ {MaxAtomChars, MinAtoms, TargetChars, MaxChars} \subseteq Nat \ {0}
  /\ MaxAtomChars <= MaxChars

Ink(text, range) == {i \in Positions(range) : text[i] \notin Blanks}

Trim(text, range) ==
  LET ink == Ink(text, range)
  IN IF ink = {} THEN NoRange ELSE Span(Least(ink) - 1, Greatest(ink))

Whole(text) == Span(0, Len(text))

(***************************************************************************)
(* Atoms                                                                   *)
(***************************************************************************)
\* Trimmed stretches of the text that are n or more line ends apart.
Stretches(text, range, n) ==
  LET ink == Ink(text, range)
      Before(i) == Greatest({j \in ink : j < i})
      starts == {i \in ink : i = Least(ink) \/ Cardinality({k \in Before(i) .. i : text[k] = Newline}) >= n}
      LastInk(i) == Greatest({j \in ink : i <= j /\ \A k \in i + 1 .. j : k \notin starts})
  IN {Span(i - 1, LastInk(i)) : i \in starts}

Paragraphs(text, range) == Stretches(text, range, 2)

TableRows(text, range) == Stretches(text, range, 1)

\* From a fence to the next one of its sort, or to the end.
FenceEnd(text, range, i) ==
  LET closing == {j \in i + 1 .. range.end : text[j] = text[i]}
  IN IF closing = {} THEN range.end ELSE Least(closing)

FencedBlocks(text, range) ==
  FoldLeft(LAMBDA blocks, i :
             IF text[i] \notin Fences \/ \E b \in blocks : i <= b.end THEN blocks
             ELSE blocks \cup {Span(i - 1, FenceEnd(text, range, i))},
           {}, [k \in 1 .. range.end - range.start |-> range.start + k])

\* What is around the fenced blocks, unless it is blank.
Prose(text, range) ==
  LET blocks == FencedBlocks(text, range)
      edges == {range.start} \cup {b.end : b \in blocks}
      NextStart(e) == Least({range.end} \cup {b.start : b \in {c \in blocks : c.start >= e}})
  IN {p \in {Span(e, NextStart(e)) : e \in edges} : Ink(text, p) # {}}

Columns(text, row, delimiter) == 1 + Cardinality({i \in Positions(row) : text[i] = delimiter})

\* A row with an empty column: two delimiters with nothing but blanks between
\* them, or one at an end.
Malformed(text, row) ==
  LET delimiters == {i \in Positions(row) : text[i] \in {Bar, Comma}}
  IN \/ \E i \in delimiters : \/ Ink(text, Span(row.start, i - 1)) = {}
                              \/ Ink(text, Span(i, row.end)) = {}
     \/ \E i, j \in delimiters : i < j /\ Ink(text, Span(i, j - 1)) = {}

Consistent(text, rows, delimiter) ==
  \E n \in 2 .. Len(text) + 1 : \A row \in rows : Columns(text, row, delimiter) = n

IsTable(text, range, source) ==
  LET rows == TableRows(text, range)
      Has(delimiter) == \E i \in Positions(range) : text[i] = delimiter
  IN /\ \A row \in rows : ~Malformed(text, row)
     /\ \/ Has(Bar) /\ Consistent(text, rows, Bar)
        \/ ~Has(Bar) /\ Has(Comma) /\ source = "table" /\ Consistent(text, rows, Comma)

StructuralRanges(text, source) ==
  LET content == Trim(text, Whole(text))
  IN IF content = NoRange THEN {}
     ELSE IF source = "ocr" THEN {content}
     ELSE IF \E i \in Positions(content) : text[i] \in Fences
       THEN FencedBlocks(text, content) \cup Prose(text, content)
     ELSE IF IsTable(text, content, source) THEN TableRows(text, content)
     ELSE Paragraphs(text, content)

\* The best place to cut before the limit: after a line end, a sentence, a blank.
SplitBoundary(text, start, limit) ==
  LET After(chars) == {i \in start + 2 .. limit : text[i] \in chars}
  IN IF After({Newline}) # {} THEN Greatest(After({Newline}))
     ELSE IF After(Sentences) # {} THEN Greatest(After(Sentences))
     ELSE IF After(Blanks) # {} THEN Greatest(After(Blanks))
     ELSE limit

Pieces(text, range) ==
  LET From[s \in 0 .. Len(text)] ==
        IF range.end - s <= MaxAtomChars THEN (IF s < range.end THEN {Span(s, range.end)} ELSE {})
        ELSE {Span(s, SplitBoundary(text, s, s + MaxAtomChars))}
               \cup From[SplitBoundary(text, s, s + MaxAtomChars)]
  IN From[range.start]

\* The atoms of a document, a sequence of blocks, in source order.
Atoms(document) ==
  FlattenSeq([b \in DOMAIN document |->
    LET text == document[b].text
        pieces == UNION {Pieces(text, range) : range \in StructuralRanges(text, document[b].source)}
        ordered == Sorted(pieces, LAMBDA p, q : p.start < q.start)
    IN [k \in DOMAIN ordered |-> [block |-> b, range |-> ordered[k]]]])

(***************************************************************************)
(* Segments: a segment is the sequence of the atoms from one boundary to   *)
(* the next.  A boundary is the atom it comes after.                       *)
(***************************************************************************)
Length(atom) == atom.range.end - atom.range.start

CharsOf(atoms, group) == FoldLeft(LAMBDA n, i : n + Length(atoms[i]), 0, group)

Interval(a, b) == [k \in 1 .. b - a + 1 |-> a + k - 1]

OtherBlock(atoms, i) == atoms[i].block # atoms[i + 1].block

RespectsMinAtoms(i, boundaries, n) ==
  /\ i - (IF boundaries = {} THEN 0 ELSE Greatest(boundaries)) >= MinAtoms
  /\ n - i >= MinAtoms

SelectedBoundaries(atoms, similarity) ==
  FoldLeft(LAMBDA boundaries, i :
             IF /\ similarity[i] < BreakThreshold \/ OtherBlock(atoms, i)
                /\ RespectsMinAtoms(i, boundaries, Len(atoms))
               THEN boundaries \cup {i} ELSE boundaries,
           {}, Interval(1, Len(atoms) - 1))

\* Groups of atoms between boundaries, as sequences of indices.
Groups(n, boundaries) ==
  LET ends == Sorted(boundaries \cup {n}, <)
  IN [k \in DOMAIN ends |-> Interval(IF k = 1 THEN 1 ELSE ends[k - 1] + 1, ends[k])]

\* One more boundary in each group above the target, at its weakest link.
TargetSizeBoundaries(atoms, similarity, boundaries) ==
  {LET links == {i \in Range(group) : i # group[Len(group)]}
       Weaker(i, j) == similarity[i] < similarity[j] \/ (similarity[i] = similarity[j] /\ i <= j)
   IN CHOOSE i \in links : \A j \in links : Weaker(i, j) :
     group \in {g \in Range(Groups(Len(atoms), boundaries)) :
                  CharsOf(atoms, g) > TargetChars /\ Len(g) > MinAtoms /\ Len(g) > 1}}

\* A group above the maximum is filled again, atom by atom.
Packed(atoms, group) ==
  FoldLeft(LAMBDA packed, i :
             IF packed = <<>> \/ CharsOf(atoms, packed[Len(packed)]) + Length(atoms[i]) > MaxChars
               THEN Append(packed, <<i>>)
               ELSE [packed EXCEPT ![Len(packed)] = Append(@, i)],
           <<>>, group)

EnforceMaxChars(atoms, groups) ==
  FlattenSeq([k \in DOMAIN groups |->
    IF CharsOf(atoms, groups[k]) <= MaxChars THEN <<groups[k]>> ELSE Packed(atoms, groups[k])])

SemanticSegments(atoms, similarity) ==
  LET selected == SelectedBoundaries(atoms, similarity)
  IN EnforceMaxChars(atoms, Groups(Len(atoms), selected \cup TargetSizeBoundaries(atoms, similarity, selected)))

\* Without usable embeddings the blocks decide.
FallbackSegments(atoms) ==
  EnforceMaxChars(atoms, Groups(Len(atoms), {i \in 1 .. Len(atoms) - 1 : OtherBlock(atoms, i)}))

(***************************************************************************)
(* Signals of segments                                                     *)
(***************************************************************************)
Touches(signal, atom) == atom.block = signal.block /\ Overlap(atom.range, signal.range)

AtomsHit(atoms, segment, signal) == {i \in Range(segment) : Touches(signal, atoms[i])}

\* Mutant: a signal belongs to a segment that holds all of it.
MapSignalsInside(atoms, segments, signals) ==
  [k \in DOMAIN segments |->
    {s \in signals : \E i \in Range(segments[k]) :
       /\ Touches(s, atoms[i])
       /\ atoms[i].range.start <= s.range.start /\ s.range.end <= atoms[i].range.end}]

\* A signal goes to the first segment it touches, and to no other.
MapSignals(atoms, segments, signals) ==
  [k \in DOMAIN segments |->
    {s \in signals : /\ AtomsHit(atoms, segments[k], s) # {}
                     /\ \A j \in 1 .. k - 1 : AtomsHit(atoms, segments[j], s) = {}}]

(***************************************************************************)
(* What the verifier reads of a segment: overlapping chunks of its joined  *)
(* text, equal ones once.  Lines that are added as chunks of their own are *)
(* parts of these.                                                         *)
(***************************************************************************)
SegmentText(document, atoms, segment) ==
  FlattenSeq([k \in DOMAIN segment |->
    Slice(document[atoms[segment[k]].block].text, atoms[segment[k]].range)])

ChunkStarts(size, chunks) ==
  IF size <= chunks.chars THEN {0}
  ELSE {s \in 0 .. size - 1 : /\ s % (chunks.chars - chunks.overlap) = 0
                              /\ s = 0 \/ s + chunks.overlap < size}

Content(text) == IF Trim(text, Whole(text)) = NoRange THEN <<>> ELSE Slice(text, Trim(text, Whole(text)))

Chunk(content, start, chunks) == Slice(content, Span(start, Least({Len(content), start + chunks.chars})))

ChunksOf(content, chunks) ==
  LET starts == Sorted(ChunkStarts(Len(content), chunks), <)
      Normal(k) == Collapsed(Chunk(content, starts[k], chunks))
      fresh == {k \in DOMAIN starts : Normal(k) # <<>> /\ \A j \in 1 .. k - 1 : Normal(j) # Normal(k)}
  IN {Normal(k) : k \in {j \in fresh : Cardinality({i \in fresh : i <= j}) <= chunks.most}}
=============================================================================
