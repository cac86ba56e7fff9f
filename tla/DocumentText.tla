---------------------------- MODULE DocumentText ----------------------------
(* What parse_document does with the content of a file, before anything is  *)
(* stored: parse_file makes blocks of it, chunk_blocks makes chunks.        *)
EXTENDS Outline, Splitter

CONSTANTS
  MaxLines, \* bound: lines of a file
  Sizes,    \* chunk sizes (64 .. 4096 in the code)
  Overlaps, \* characters repeated by the next chunk (0 .. 256)
  OcrMax    \* OCR_MAX_PAGES: pages of a PDF that are left to OCR

\* The settings do not exclude an overlap as large as the chunk; the splitter
\* would not end.
ASSUME DocumentTextAssumption ==
  /\ MaxLines \in Nat /\ OcrMax \in Nat
  /\ \A size \in Sizes : size \in Nat /\ \A overlap \in Overlaps : overlap \in 0 .. size - 1

VARIABLES
  file,   \* format and lines; scanned lines that OCR cannot read
  plan,   \* chunk size and overlap of the knowledge base, whether OCR is on
  stage,  \* "parse", "chunk", "done" or "failed"
  blocks,
  chunks

textVars == <<file, plan, stage, blocks, chunks>>

Kinds == [md |-> {"h1", "h2", "fence", "text", "long", "blank"},
          docx |-> {"h1", "h2", "text", "table", "blank"},
          pdf |-> {"h1", "text", "long", "table", "scan", "break"}]

\* A scan is alone on its page.
Possible(format, lines) ==
  \A i \in DOMAIN lines : lines[i] = "scan" =>
    \A j \in {i - 1, i + 1} \intersect DOMAIN lines : lines[j] = "break"

Files ==
  {[format |-> format, lines |-> lines, unread |-> unread] :
     format \in DOMAIN Kinds, lines \in BoundedSeq(UNION {Kinds[f] : f \in DOMAIN Kinds}, MaxLines),
     unread \in {{}, 1 .. MaxLines}}

\* OCR is switched off only where it could read something.
TextInit ==
  /\ file \in {f \in Files : /\ ToSet(f.lines) \subseteq Kinds[f.format]
                             /\ Possible(f.format, f.lines)
                             /\ f.unread # {} => "scan" \in ToSet(f.lines)}
  /\ plan \in [size : Sizes, overlap : Overlaps, ocr : BOOLEAN]
  /\ ~plan.ocr => "scan" \in ToSet(file.lines) /\ file.unread = {}
  /\ stage = "parse" /\ blocks = <<>> /\ chunks = <<>>

\* A file without text fails, and one with too many pages for OCR.
Ocr == [on |-> plan.ocr, max |-> OcrMax]
Parse ==
  /\ stage = "parse"
  /\ blocks' = IF TooManyScans(file.format, file.lines, Ocr) THEN <<>>
               ELSE Blocks(file.format, file.lines, file.unread, Ocr)
  /\ stage' = IF blocks' = <<>> THEN "failed" ELSE "chunk"
  /\ UNCHANGED <<file, plan, chunks>>

\* The letters of a line; some lines have a full stop in the middle.
Letters(i) ==
  CASE file.lines[i] = "long" -> <<10 * i + 1, 10 * i + 2, Stop, 10 * i + 3, 10 * i + 4>>
    [] file.lines[i] = "blank" -> <<>>
    [] OTHER -> <<10 * i + 1, 10 * i + 2, 10 * i + 3>>

Written(text) ==
  FoldLeft(LAMBDA s, i : IF i = 1 THEN Letters(text[i]) ELSE s \o <<Newline>> \o Letters(text[i]),
           <<>>, [i \in DOMAIN text |-> i])

\* ' > '.join: a heading with those above it.
Arrow == -2
Title(heading) ==
  FoldLeft(LAMBDA s, h : IF s = <<>> THEN Letters(h) ELSE s \o <<Arrow>> \o Letters(h), <<>>, heading)

Chunk ==
  /\ stage = "chunk"
  /\ LET Of(b) == [b EXCEPT !.text = Written(@), !.heading = Title(@)] IN
     chunks' = ChunkBlocks([i \in DOMAIN blocks |-> Of(blocks[i])], plan.size, plan.overlap)
  /\ stage' = "done"
  /\ UNCHANGED <<file, plan, blocks>>

TextNext == Parse \/ Chunk

-----------------------------------------------------------------------------
(* Properties                                                               *)

Lines == DOMAIN file.lines
InFence(i) == file.format = "md" /\ Cardinality({j \in 1 .. i - 1 : file.lines[j] = "fence"}) % 2 = 1
Headings == {i \in Lines : IsHeading(file.lines[i]) /\ ~InFence(i)}
Body == {i \in Lines \ Headings : ~IsBlank(file.lines[i]) /\ file.lines[i] # "break"}
PageOf(i) ==
  IF file.format # "pdf" THEN 1
  ELSE 1 + Cardinality({j \in 1 .. i : file.lines[j] = "break"})

\* The headings a line stands under, as a reader of the file sees them: no
\* heading of their own level or above comes between.  On a PDF page it is the
\* last heading of the page.
Above(i) ==
  {h \in Headings :
     /\ h < i /\ PageOf(h) = PageOf(i)
     /\ \A k \in Headings \intersect (h + 1 .. i - 1) :
          file.format # "pdf" /\ Level[file.lines[k]] > Level[file.lines[h]]}

Unreadable(i) == file.lines[i] = "scan" /\ (i \in file.unread \/ ~plan.ocr)
Ruled(i) == file.format = "pdf" /\ file.lines[i] = "table"
In(i) == {b \in DOMAIN blocks : Contains(blocks[b].text, i)}
At(i) == {b \in In(i) : ToSet(blocks[b].heading) = Above(i) /\ blocks[b].page = PageOf(i)}

\* Every line of text that can be read is in one block, under the headings it
\* stands under, whatever levels are skipped and whatever looks like a heading
\* in a fence ("按 # 层级维护标题栈（代码块内不误判）"); a ruled table of a PDF is
\* there once more, alone and without a heading.  The blocks of a page have its
\* lines in their order.  A file fails only when it has no text that can be
\* read or too many pages for OCR.
OutlineFits ==
  /\ stage \in {"chunk", "done"} =>
       /\ \A i \in Body :
            IF Unreadable(i) THEN In(i) = {}
            ELSE \E b \in At(i) : IF ~Ruled(i) THEN In(i) = {b}
                   ELSE \E c \in In(i) : c > b /\ In(i) = {b, c}
                                       /\ blocks[c] = Block(PageOf(i), <<i>>, <<>>)
       /\ \A i, j \in Body : i < j /\ PageOf(i) = PageOf(j) /\ ~Ruled(i) /\ ~Ruled(j) =>
            \A b \in In(i), c \in In(j) : b <= c
       /\ \A b \in DOMAIN blocks : \A k \in 1 .. Len(blocks[b].text) - 1 :
            blocks[b].text[k] < blocks[b].text[k + 1]
  /\ stage = "failed" => TooManyScans(file.format, file.lines, Ocr) \/ \A i \in Body : Unreadable(i)

\* The letters of a text, and of neighbouring blocks under one heading.
Told(text) == SelectSeq(text, IsLetter)
Under(heading, first, last) ==
  IF \A b \in first .. last : blocks[b].heading = heading
  THEN FlattenSeq([k \in 1 .. last - first + 1 |-> Told(Written(blocks[first + k - 1].text))])
  ELSE <<>>

\* A chunk begins with the heading of its text ("heading 非空时作为切片首行注入"), and
\* the text after it is at most the size and an unbroken run of the text of
\* neighbouring blocks under that heading, with the page of the first; together
\* the chunks hold every letter of the blocks.  (The heading comes on top of the
\* size.)
ChunksFaithful ==
  stage = "done" =>
    /\ \A c \in DOMAIN chunks : \E first \in DOMAIN blocks : \E last \in first .. Len(blocks) :
         LET heading == blocks[first].heading
             lead == Lead(Title(heading))
             text == SubSeq(chunks[c].content, Len(lead) + 1, Len(chunks[c].content))
         IN /\ IsPrefix(lead, chunks[c].content)
            /\ Len(text) <= plan.size
            /\ Contained(Told(text), Under(heading, first, last))
            /\ Told(text) # <<>> => Contains(Told(Written(blocks[first].text)), Told(text)[1])
            /\ chunks[c].page = blocks[first].page
    /\ \A b \in DOMAIN blocks : \A x \in ToSet(Told(Written(blocks[b].text))) :
         \E c \in DOMAIN chunks : Contains(chunks[c].content, x)

\* What is indexed of a document is its text, all that can be read of it, under
\* its headings.
TextFaithful == OutlineFits /\ ChunksFaithful
=============================================================================
