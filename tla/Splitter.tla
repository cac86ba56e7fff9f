------------------------------ MODULE Splitter ------------------------------
(* chunker.py: a text is split at the coarsest separator it contains, small *)
(* neighbours are joined, and every chunk keeps the page it comes from and  *)
(* begins with the heading.  A text is a sequence of letters, which are told apart, and  *)
(* of separators.                                                           *)
EXTENDS Integers, Sequences, SequencesExt

Newline == 0
Stop == -1       \* stands for the four separators that are kept in a sentence
IsLetter(c) == c > 0

\* From the coarsest to the finest; <<>> is the last resort, which splits nothing.
Separators == <<<<Newline, Newline>>, <<Newline>>, <<Stop>>, <<>>>>

\* Python's split: a separator is found from the left, without overlaps.
Pieces(text, sep) ==
  LET Step(pieces, c) ==
        LET grown == Append(Last(pieces), c) IN
        IF sep # <<>> /\ IsSuffix(sep, grown)
        THEN Front(pieces) \o <<SubSeq(grown, 1, Len(grown) - Len(sep)), <<>>>>
        ELSE Append(Front(pieces), grown)
  IN FoldLeft(Step, <<<<>>>>, text)

Contained(sep, text) ==
  \E i \in 0 .. Len(text) - Len(sep) : SubSeq(text, i + 1, i + Len(sep)) = sep

Separator(text) == SelectSeq(Separators, LAMBDA sep : Contained(sep, text))[1]

\* strip: newlines at both ends go.
Strip(text) ==
  LET solid == {i \in DOMAIN text : text[i] # Newline} IN
  IF solid = {} THEN <<>> ELSE SubSeq(text, Min(solid), Max(solid))

\* The last characters of a chunk are repeated at the start of the next.
Overlap(text, overlap) ==
  IF overlap > 0 /\ Len(text) > overlap THEN SubSeq(text, Len(text) - overlap + 1, Len(text)) ELSE <<>>

\* The while loop: as many slices of the full size as it takes, each of them
\* beginning overlap characters before the end of the last.  Without
\* overlap < size it would not come to an end.
Slices(text, size, overlap) ==
  LET step == size - overlap
      n == IF Len(text) <= size THEN 0 ELSE (Len(text) - size + step - 1) \div step
  IN [cut |-> [i \in 1 .. n |-> SubSeq(text, (i - 1) * step + 1, (i - 1) * step + size)],
      rest |-> SubSeq(text, n * step + 1, Len(text))]

\* One part more: appended while it fits, otherwise the chunk is closed.
SplitStep(acc, part, sep, size, overlap) ==
  LET joined == IF acc.cur = <<>> THEN part ELSE acc.cur \o sep \o part
      tail == Overlap(acc.cur, overlap)
      sliced == Slices(IF tail = <<>> THEN part ELSE tail \o sep \o part, size, overlap)
  IN IF Len(joined) <= size THEN [acc EXCEPT !.cur = joined]
     ELSE [out |-> acc.out \o <<acc.cur>> \o sliced.cut, cur |-> sliced.rest]

SplitText(text, size, overlap) ==
  LET sep == Separator(text)
      Step(acc, part) == SplitStep(acc, part, sep, size, overlap)
      split == FoldLeft(Step, [out |-> <<>>, cur |-> <<>>], Pieces(text, sep))
      chunks == Append(split.out, split.cur)
  IN IF Len(text) <= size THEN <<text>>
     ELSE SelectSeq([i \in DOMAIN chunks |-> Strip(chunks[i])], LAMBDA c : c # <<>>)

-----------------------------------------------------------------------------
\* Neighbours under one heading are joined while they fit; across pages only a
\* small tail is.
Joins(prev, seg, size) ==
  /\ prev.heading = seg.heading
  /\ Len(prev.text) + Len(seg.text) + 2 <= size
  /\ prev.page = seg.page \/ Len(prev.text) < size \div 3

Merged(segments, size) ==
  LET Step(out, seg) ==
        IF out # <<>> /\ Joins(Last(out), seg, size)
        THEN [out EXCEPT ![Len(out)].text = @ \o <<Newline, Newline>> \o seg.text]
        ELSE Append(out, seg)
  IN FoldLeft(Step, <<>>, segments)

\* chunk_blocks: blocks are records of page, heading and text.  The size bounds
\* the text of a chunk; its heading and a newline are put before it afterwards.
Lead(heading) == IF heading = <<>> THEN <<>> ELSE Append(heading, Newline)

ChunkBlocks(blocks, size, overlap) ==
  LET Segments(b) ==
        LET parts == SplitText(Strip(b.text), size, overlap) IN
        IF Strip(b.text) = <<>> THEN <<>>
        ELSE [i \in DOMAIN parts |-> [b EXCEPT !.text = parts[i]]]
      merged == Merged(FlattenSeq([i \in DOMAIN blocks |-> Segments(blocks[i])]), size)
  IN [i \in DOMAIN merged |-> [page |-> merged[i].page,
                               content |-> Lead(merged[i].heading) \o merged[i].text]]
=============================================================================
