------------------------------- MODULE Chunking -------------------------------
(***************************************************************************)
(* services/chunking.py: how one authored document becomes chunks.  The    *)
(* body is split into sections at its headings, a section that does not    *)
(* fit into paragraphs, these into sentences, these at the limit; the      *)
(* parts are packed again, and each piece but the first repeats the end of *)
(* the one before it.                                                      *)
(*                                                                         *)
(* A body is a sequence of lines.  A line is "prose", an ATX "heading", or *)
(* a "fence" delimiter, and every line has a text of characters, since     *)
(* inside of a fence every line is prose.  A character is known by where   *)
(* the author put it, <<line, column>>, and column 0 is the newline after  *)
(* the line; <<0, 0>> is a newline that the splitter added.  What the      *)
(* splitter asks of a character is its kind: "stop" (the end of a          *)
(* sentence), "close" (a closing quote or bracket), "space", "newline", or *)
(* anything else.                                                          *)
(***************************************************************************)
EXTENDS Integers, Sequences, SequencesExt, FiniteSetsExt

Added == <<0, 0>>
ParagraphJoin == <<Added, Added>>
EmbeddingJoinWidth == 2
HeadingSeparatorWidth == 3

Blanks == {"space", "newline"}
Kind(body, c) == IF c[2] = 0 THEN "newline" ELSE body[c[1]].text[c[2]]

\* Where the text is not blank.
InkAt(body, text) == {i \in DOMAIN text : Kind(body, text[i]) \notin Blanks}

\* str.strip
Strip(body, text) ==
    LET ink == InkAt(body, text) IN IF ink = {} THEN <<>> ELSE SubSeq(text, Min(ink), Max(ink))

-----------------------------------------------------------------------------
(* Sections.                                                               *)

NoFence == [mark |-> "none", run |-> 0]

\* A backtick fence whose info string has a backtick opens nothing.
OpensFence(line) == line.kind = "fence" /\ ~(line.mark = "backtick" /\ line.info = "backtick")

ClosesFence(line, fence) ==
    line.kind = "fence" /\ line.mark = fence.mark /\ line.run >= fence.run /\ line.info = "none"

Characters(body, l) == [column \in 1 .. Len(body[l].text) |-> <<l, column>>] \o << <<l, 0>> >>
Prose(body, lines) == Strip(body, FlattenSeq([n \in DOMAIN lines |-> Characters(body, lines[n])]))

Flushed(body, scan) ==
    LET prose == Prose(body, scan.buffer)
    IN IF prose = <<>> THEN scan.sections ELSE Append(scan.sections, [path |-> scan.stack, prose |-> prose])

\* Headings of the same or a deeper level leave the stack; they are known by
\* their lines.
PushWithoutPopping(body, stack, l) == Append(stack, l)
Push(body, stack, l) ==
    LET outer == Max({n \in 0 .. Len(stack) : n = 0 \/ body[stack[n]].level < body[l].level})
    IN Append(SubSeq(stack, 1, outer), l)

ScanLine(body, scan, l) ==
    LET line == body[l]
        kept == [scan EXCEPT !.buffer = Append(@, l)]
    IN IF scan.fence # NoFence
       THEN IF ClosesFence(line, scan.fence) THEN [kept EXCEPT !.fence = NoFence] ELSE kept
       ELSE IF OpensFence(line)
       THEN [kept EXCEPT !.fence = [mark |-> line.mark, run |-> line.run]]
       ELSE IF line.kind # "heading"
       THEN kept
       ELSE [scan EXCEPT !.sections = Flushed(body, scan), !.buffer = <<>>,
                         !.stack = IF line.isTitle THEN <<>> ELSE Push(body, @, l)]

Sections(body) ==
    LET scan[l \in 0 .. Len(body)] ==
            IF l = 0 THEN [stack |-> <<>>, buffer |-> <<>>, fence |-> NoFence, sections |-> <<>>]
            ELSE ScanLine(body, scan[l - 1], l)
    IN Flushed(body, scan[Len(body)])

-----------------------------------------------------------------------------
(* Sentences and paragraphs.                                               *)

SkipKinds(body, text, i, kinds) ==
    Min({j \in i .. Len(text) + 1 : j > Len(text) \/ Kind(body, text[j]) \notin kinds})

\* _SENTENCE_END from position first on: where the text goes on after each match.
\* No match can hold the stop of another.
SentenceEnds(body, text, first) ==
    {SkipKinds(body, text, SkipKinds(body, text, i + 1, {"close"}), Blanks) :
        i \in {i \in first .. Len(text) : Kind(body, text[i]) = "stop"}}

\* A character starts a part or goes on with the last one.
CutNext(cuts, c, starts) ==
    IF starts THEN Append(cuts, <<c>>) ELSE [cuts EXCEPT ![Len(cuts)] = @ \o <<c>>]

\* The text cut before each of the positions, and wherever a part is full.
CutBefore(text, positions) ==
    LET cuts[i \in 0 .. Len(text)] ==
            IF i = 0 THEN <<>> ELSE CutNext(cuts[i - 1], text[i], i = 1 \/ i \in positions)
    IN cuts[Len(text)]

Every(limit, text) ==
    LET cuts[i \in 0 .. Len(text)] ==
            IF i = 0 THEN <<>> ELSE CutNext(cuts[i - 1], text[i], i = 1 \/ Len(Last(cuts[i - 1])) = limit)
    IN cuts[Len(text)]

Sentences(body, text) == CutBefore(text, SentenceEnds(body, text, 1))

\* str.split at two newlines, from the left.
SplitNext(body, prose, acc, i) ==
    LET Newline(j) == j \in DOMAIN prose /\ Kind(body, prose[j]) = "newline"
    IN IF i < acc.next THEN acc
       ELSE IF Newline(i) /\ Newline(i + 1)
       THEN [done |-> Append(acc.done, acc.rest), rest |-> <<>>, next |-> i + 2]
       ELSE [acc EXCEPT !.rest = @ \o << prose[i] >>]

Paragraphs(body, prose) ==
    LET split[i \in 0 .. Len(prose)] ==
            IF i = 0 THEN [done |-> <<>>, rest |-> <<>>, next |-> 1] ELSE SplitNext(body, prose, split[i - 1], i)
    IN Append(split[Len(prose)].done, split[Len(prose)].rest)

NotEmpty(texts) == FlattenSeq([n \in DOMAIN texts |-> IF texts[n] = <<>> THEN <<>> ELSE << texts[n] >>])

\* Sentences are joined as long as they fit; one that never does is cut at the limit.
Close(body, acc) == Append(acc.parts, Strip(body, acc.current))
TakeSentence(body, limit, acc, sentence) ==
    IF Len(acc.current \o sentence) <= limit
    THEN [acc EXCEPT !.current = @ \o sentence]
    ELSE IF Len(sentence) <= limit
    THEN [parts |-> Close(body, acc), current |-> sentence]
    ELSE [parts |-> Close(body, acc) \o [n \in DOMAIN Every(limit, sentence) |->
                                             Strip(body, Every(limit, sentence)[n])],
          current |-> <<>>]

SplitUnit(body, unit, limit) ==
    LET sentences == Sentences(body, unit)
        joined[n \in 0 .. Len(sentences)] ==
            IF n = 0 THEN [parts |-> <<>>, current |-> <<>>]
            ELSE TakeSentence(body, limit, joined[n - 1], sentences[n])
    IN IF Len(unit) <= limit THEN <<unit>> ELSE NotEmpty(Close(body, joined[Len(sentences)]))

-----------------------------------------------------------------------------
(* Pieces.                                                                 *)

Units(body, prose, limit) ==
    LET paragraphs == Paragraphs(body, prose)
        units == NotEmpty([n \in DOMAIN paragraphs |-> Strip(body, paragraphs[n])])
    IN FlattenSeq([n \in DOMAIN units |-> SplitUnit(body, units[n], limit)])

Joined(first, second) == IF first = <<>> THEN second ELSE first \o ParagraphJoin \o second

PackUnit(limit, acc, unit) ==
    IF Len(Joined(acc.current, unit)) <= limit
    THEN [acc EXCEPT !.current = Joined(@, unit)]
    ELSE [pieces |-> Append(acc.pieces, acc.current), current |-> unit]

Pack(units, limit) ==
    LET packed[n \in 0 .. Len(units)] ==
            IF n = 0 THEN [pieces |-> <<>>, current |-> <<>>] ELSE PackUnit(limit, packed[n - 1], units[n])
    IN NotEmpty(Append(packed[Len(units)].pieces, packed[Len(units)].current))

\* The end of the first sentence that ends in the window decides, if anything
\* follows it; else the tail starts where the window does.
SentenceAlignedTail(body, text, limit) ==
    LET window == Len(text) - limit + 1
        ends == SentenceEnds(body, text, window)
        start == IF ends # {} /\ Min(ends) <= Len(text) THEN Min(ends) ELSE window
    IN IF Len(text) <= limit THEN text ELSE SubSeq(text, start, Len(text))

ApplyOverlap(body, pieces, overlap) ==
    [n \in DOMAIN pieces |->
        IF overlap = 0 \/ n = 1 THEN pieces[n]
        ELSE Joined(SentenceAlignedTail(body, pieces[n - 1], overlap), pieces[n])]

PackedBudget(budget, overlap) ==
    IF overlap = 0 THEN budget ELSE budget - overlap - Len(ParagraphJoin)

SplitSection(body, prose, budget, overlap) ==
    IF Len(prose) <= budget THEN <<prose>>
    ELSE LET limit == PackedBudget(budget, overlap)
         IN ApplyOverlap(body, Pack(Units(body, prose, limit), limit), overlap)

-----------------------------------------------------------------------------
(* Documents.                                                              *)

PathWidth(document, path) ==
    LET width[n \in 0 .. Len(path)] ==
            IF n = 0 THEN document.titleWidth
            ELSE width[n - 1] + HeadingSeparatorWidth + document.body[path[n]].width
    IN width[Len(path)]

Room(document, path, limits) == limits.max - PathWidth(document, path) - EmbeddingJoinWidth

\* The parameters the function insists on.
LegalLimits(limits) == limits.max > 0 /\ limits.overlap >= 0 /\ limits.overlap * 2 < limits.max

\* A section that cannot be split so that each piece advances past the last.
Unsplittable(document, section, limits) ==
    LET budget == Room(document, section.path, limits)
    IN \/ budget <= 0
       \/ Len(section.prose) > budget /\ (budget <= limits.overlap \/ PackedBudget(budget, limits.overlap) <= 0)

\* ValueError and ChunkingError
ChunkingFails(document, limits) ==
    LET sections == Sections(document.body)
    IN \/ ~LegalLimits(limits)
       \/ sections = <<>>
       \/ \E n \in DOMAIN sections : Unsplittable(document, sections[n], limits)

\* chunk_markdown: a chunk is known by its document and its ordinal, which
\* counts from 0.
PiecesOf(document, section, limits) ==
    LET pieces == SplitSection(document.body, section.prose, Room(document, section.path, limits), limits.overlap)
    IN [n \in DOMAIN pieces |-> [path |-> section.path, content |-> pieces[n]]]

ChunkMarkdown(document, limits) ==
    LET sections == Sections(document.body)
        all == FlattenSeq([n \in DOMAIN sections |-> PiecesOf(document, sections[n], limits)])
    IN [n \in DOMAIN all |->
           [parent |-> [tenant |-> document.tenant, doc |-> document.doc_id], ordinal |-> n - 1,
            path |-> all[n].path, content |-> all[n].content, groups |-> document.groups]]

-----------------------------------------------------------------------------
(* What chunking keeps, against a definition that does not scan.           *)

\* Whether line l lies in a fence: somewhere above it one opened that has not
\* closed since.
FenceAt(body) ==
    LET fence[l \in 0 .. Len(body)] ==
            IF l = 0 THEN NoFence
            ELSE IF fence[l - 1] # NoFence
                 THEN IF ClosesFence(body[l], fence[l - 1]) THEN NoFence ELSE fence[l - 1]
                 ELSE IF OpensFence(body[l]) THEN [mark |-> body[l].mark, run |-> body[l].run] ELSE NoFence
    IN fence

Headings(body) == {l \in DOMAIN body : body[l].kind = "heading" /\ FenceAt(body)[l - 1] = NoFence}

\* The headings a line stands under: no heading between is of their level or
\* above, and the title repeated starts over.
Enclosing(body, l) ==
    {h \in Headings(body) : /\ h < l /\ ~body[h].isTitle
                            /\ \A g \in Headings(body) : h < g /\ g < l =>
                                   body[g].level > body[h].level /\ ~body[g].isTitle}

\* The ink of a text are its characters that are not blank.
InkOf(body, text) == {text[i] : i \in InkAt(body, text)}
Inked(line) == {c \in DOMAIN line.text : line.text[c] \notin Blanks}
InkedProse(body) == UNION {{<<l, c>> : c \in Inked(body[l])} : l \in DOMAIN body \ Headings(body)}

Before(c, d) == c[1] < d[1] \/ (c[1] = d[1] /\ c[2] < d[2])
AsWritten(body, text) == \A i, j \in InkAt(body, text) : i < j => Before(text[i], text[j])

(* Chunking loses nothing and misplaces nothing: every chunk with its      *)
(* heading path fits the limit and has text; every character that is not   *)
(* blank stands in a chunk, under the path of the headings that enclose    *)
(* it, the outermost first; within a chunk the text is in its order; and a *)
(* chunk shares nothing with others but the overlap with its neighbours    *)
(* (services/chunking.py: _split_section's "every non-whitespace           *)
(* character of the source appears in at least one chunk").                *)
ProseIsKept(document, limits, pieces) ==
    LET body == document.body
        ink == [n \in DOMAIN pieces |-> InkOf(body, pieces[n].content)]
    IN /\ UNION {ink[n] : n \in DOMAIN pieces} = InkedProse(body)
       /\ \A n \in DOMAIN pieces :
            /\ PathWidth(document, pieces[n].path) + EmbeddingJoinWidth + Len(pieces[n].content) <= limits.max
            /\ ink[n] # {} /\ AsWritten(body, pieces[n].content)
            /\ \A c \in ink[n] : ToSet(pieces[n].path) = Enclosing(body, c[1])
            /\ \A i, j \in DOMAIN pieces[n].path : i < j => pieces[n].path[i] < pieces[n].path[j]
            /\ \A m \in DOMAIN pieces :
                   n < m => Cardinality(ink[n] \cap ink[m]) <= IF m = n + 1 THEN limits.overlap ELSE 0
=============================================================================
