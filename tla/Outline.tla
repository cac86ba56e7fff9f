------------------------------ MODULE Outline ------------------------------
(* From the lines of a file to the blocks that are split afterwards: the    *)
(* heading stacks of Markdown and docx, the sections of a PDF page, and the *)
(* scanned pages of a PDF.  A line is the kind of thing it is; its text is  *)
(* its number.                                                              *)
EXTENDS Integers, Sequences, FiniteSets, SequencesExt

NoLine == 0
Levels == 1 .. 2
Level == [h1 |-> 1, h2 |-> 2]    \* kinds of headings
IsHeading(kind) == kind \in DOMAIN Level
IsBlank(kind) == kind = "blank"

\* What a reader of lines carries: the blocks made, the lines since the last
\* heading, the heading stack, the headings in force, and whether in a fence.
Reader == [blocks |-> <<>>, text |-> <<>>, stack |-> [k \in Levels |-> NoLine],
           heading |-> <<>>, code |-> FALSE]

Block(page, text, heading) == [page |-> page, text |-> text, heading |-> heading]

\* strip: blank lines at both ends go, those between stay.
Stripped(lines, text) ==
  LET solid == {i \in DOMAIN text : ~IsBlank(lines[text[i]])} IN
  IF solid = {} THEN <<>> ELSE SubSeq(text, Min(solid), Max(solid))

\* flush, and a new start.
Flush(lines, r) ==
  LET text == Stripped(lines, r.text) IN
  [r EXCEPT !.text = <<>>,
            !.blocks = IF text = <<>> THEN @ ELSE Append(@, Block(1, text, r.heading))]

\* Mutant of Cut: a heading leaves the deeper ones in force.
CutNothing(stack, level, i) == [stack EXCEPT ![level] = i]

\* A heading ends every heading of its level and below.
Cut(stack, level, i) ==
  [k \in Levels |-> CASE k < level -> stack[k] [] k = level -> i [] k > level -> NoLine]

Open(lines, r, i) ==
  LET stack == Cut(r.stack, Level[lines[i]], i) IN
  [Flush(lines, r) EXCEPT !.stack = stack,
                          !.heading = SelectSeq(stack, LAMBDA h : h # NoLine)]

Keep(r, i) == [r EXCEPT !.text = Append(@, i)]

-----------------------------------------------------------------------------
\* _parse_markdown: a fence is kept, and hides headings until the next one.
MarkdownBlocks(lines) ==
  LET Step(r, i) ==
        IF lines[i] = "fence" THEN [Keep(r, i) EXCEPT !.code = ~@]
        ELSE IF ~r.code /\ IsHeading(lines[i]) THEN Open(lines, r, i)
        ELSE Keep(r, i)
  IN Flush(lines, FoldLeft(Step, Reader, [i \in DOMAIN lines |-> i])).blocks

\* _parse_docx: paragraphs and tables in the order of the body.
DocxBlocks(lines) ==
  LET Step(r, i) ==
        IF IsHeading(lines[i]) THEN Open(lines, r, i)
        ELSE IF IsBlank(lines[i]) THEN r ELSE Keep(r, i)
  IN Flush(lines, FoldLeft(Step, Reader, [i \in DOMAIN lines |-> i])).blocks

\* One page of a PDF with its lines first .. last: a section for each heading,
\* one without a heading before the first, empty sections dropped.  The text of
\* a ruled table is text of the page like any other, and each ruled table comes
\* once more, as Markdown and without a heading, after the sections.
PageBlocks(lines, page, first, last) ==
  LET Step(sections, i) ==
        IF IsHeading(lines[i]) THEN Append(sections, Block(page, <<>>, <<i>>))
        ELSE [sections EXCEPT ![Len(sections)].text = Append(@, i)]
      numbers == [k \in 1 .. last - first + 1 |-> first + k - 1]
      sections == FoldLeft(Step, <<Block(page, <<>>, <<>>)>>, numbers)
      tables == SelectSeq(numbers, LAMBDA i : lines[i] = "table")
  IN SelectSeq(sections, LAMBDA b : b.text # <<>>)
       \o [k \in DOMAIN tables |-> Block(page, <<tables[k]>>, <<>>)]

\* Pages end at the lines "break".  A page without a line of text (it is empty,
\* or its only line is "scan") is left to OCR.
PageEnds(lines) ==
  SelectSeq([i \in DOMAIN lines |-> i], LAMBDA i : lines[i] = "break") \o <<Len(lines) + 1>>
PageStart(lines, p) == IF p = 1 THEN 1 ELSE PageEnds(lines)[p - 1] + 1
EmptyPages(lines) ==
  {p \in DOMAIN PageEnds(lines) : LET i == PageStart(lines, p) IN
     i = PageEnds(lines)[p] \/ lines[i] = "scan"}

\* _ocr_pdf_pages gives the whole document up when it has too many such pages.
TooManyScans(format, lines, ocr) ==
  format = "pdf" /\ ocr.on /\ Cardinality(EmptyPages(lines)) > ocr.max

\* _parse_pdf: the pages that OCR has read come when all others are done; those
\* it cannot read are left out, and all of them when it is switched off.
PdfBlocks(lines, unread, ocr) ==
  LET First(p) == PageStart(lines, p)
      Page(p) == IF p \in EmptyPages(lines) THEN <<>>
                 ELSE PageBlocks(lines, p, First(p), PageEnds(lines)[p] - 1)
      Scan(p) == IF /\ ocr.on /\ p \in EmptyPages(lines)
                    /\ First(p) < PageEnds(lines)[p] /\ First(p) \notin unread
                 THEN <<Block(p, <<First(p)>>, <<>>)>> ELSE <<>>
      pages == DOMAIN PageEnds(lines)
  IN FlattenSeq([p \in pages |-> Page(p)]) \o FlattenSeq([p \in pages |-> Scan(p)])

Blocks(format, lines, unread, ocr) ==
  CASE format = "md" -> MarkdownBlocks(lines)
    [] format = "docx" -> DocxBlocks(lines)
    [] format = "pdf" -> PdfBlocks(lines, unread, ocr)
=============================================================================
