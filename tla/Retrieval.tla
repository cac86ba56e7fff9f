----------------------------- MODULE Retrieval -----------------------------
(* One search of the ai-service, from the two recalls to the references of  *)
(* an answer: the fusion of ranks, the routing to the reranking model and  *)
(* its answer, the picture that is added, and the joining of neighbours.    *)
(* Scores are levels.                                                       *)
EXTENDS Integers, Sequences, FiniteSets, SequencesExt

CONSTANTS
  Piece,     \* the chunks of the libraries asked, as numbers
  DocOf, IndexOf,  \* of each chunk the document and the place in it
  Picture,   \* the chunks that describe a picture
  Pool,      \* chunks of one recall (at least 30)
  TopK       \* results wanted

ASSUME RetrievalAssumption ==
  /\ Piece \subseteq Nat /\ Picture \subseteq Piece
  /\ \A n \in {Pool, TopK} : n \in Nat \ {0}
  /\ \A c, d \in Piece : DocOf[c] = DocOf[d] /\ IndexOf[c] = IndexOf[d] => c = d

RrfK == 60
Score == 0 .. 2
Threshold == 1   \* of the vector score
LexMin == 2      \* of the lexical score; below 1 nothing is recalled
SkipGap == 1     \* the lead of a clear winner

VARIABLES
  ask,     \* what is asked for: fusion, reranking, a picture
  at,      \* the next step
  vec,     \* the rows of the vector recall: chunks in order, and their scores
  lex,     \* the rows of the lexical recall
  list,    \* candidates and then results, best first
  score,   \* the score shown of each candidate
  refs     \* the references: runs of chunks

searchVars == <<ask, at, vec, lex, list, score, refs>>

NoRows == [order |-> <<>>, score |-> <<>>]
Orders == {s \in SeqOf(Piece, Pool) : IsInjective(s)}

\* Rows as the database returns them: at most Pool, best first, ties anyhow.
Rows(levels) ==
  {r \in UNION {[order : {s}, score : [ToSet(s) -> levels]] : s \in Orders} :
     \A i \in 1 .. Len(r.order) - 1 : r.score[r.order[i]] >= r.score[r.order[i + 1]]}
Found(rows) == ToSet(rows.order)
NoScore == [c \in {} |-> 0]

SearchInit ==
  /\ ask \in [hybrid : BOOLEAN, rerank : BOOLEAN, picture : BOOLEAN]
  /\ at = "vector"
  /\ vec = NoRows /\ lex = NoRows /\ list = <<>> /\ score = NoScore /\ refs = <<>>

-----------------------------------------------------------------------------
(* _search_core                                                             *)

\* Without fusion the threshold applies at once; without rows nothing is found.
VectorRecall ==
  /\ at = "vector"
  /\ \E rows \in Rows(Score) :
       IF rows.order = <<>> THEN at' = "merge" /\ UNCHANGED <<vec, list, score>>
       ELSE IF ask.hybrid THEN at' = "lexical" /\ vec' = rows /\ UNCHANGED <<list, score>>
       ELSE /\ at' = IF ask.rerank THEN "route" ELSE "cut"
            /\ list' = SelectSeq(rows.order, LAMBDA c : rows.score[c] >= Threshold)
            /\ score' = rows.score
            /\ UNCHANGED vec
  /\ UNCHANGED <<ask, lex, refs>>

\* A lexical recall that fails or finds nothing is replaced by a comparison
\* within the rows of the other.
LexicalRecall ==
  /\ at = "lexical" /\ at' = "fuse"
  /\ \/ \E rows \in Rows(Score \ {0}) : rows.order # <<>> /\ lex' = rows
     \/ \E level \in [Found(vec) -> Score] : lex' = [order |-> <<>>, score |-> level]
  /\ UNCHANGED <<ask, vec, list, score, refs>>

\* The candidates as a dict holds them: the rows of the vector recall, then
\* what only the other found.
Candidates == vec.order \o SelectSeq(lex.order, LAMBDA c : c \notin Found(vec))

\* Python's sort keeps the order of equals.
Ranked(scores) ==
  LET has == SelectSeq(Candidates, LAMBDA c : c \in DOMAIN scores)
      Place(c) == CHOOSE i \in DOMAIN has : has[i] = c
      Before(c, d) == scores[c] > scores[d] \/ (scores[c] = scores[d] /\ Place(c) < Place(d))
  IN [c \in DOMAIN scores |-> Cardinality({d \in DOMAIN scores : Before(d, c)})]

\* A common multiple of the denominators 60 .. 60 + n.
Unit == FoldLeft(LAMBDA product, c : product * (RrfK + c - 1), 1, [i \in 1 .. Len(Candidates) |-> i])

\* Mutant of Rrf: the lists are added up, the better rank counting less.
RrfRanks(c) ==
  (IF c \in DOMAIN vec.score THEN RrfK + Ranked(vec.score)[c] ELSE 0)
    + (IF c \in DOMAIN lex.score THEN RrfK + Ranked(lex.score)[c] ELSE 0)

\* Reciprocal rank fusion, in units of 1/Unit.
Rrf(c) ==
  (IF c \in DOMAIN vec.score THEN Unit \div (RrfK + Ranked(vec.score)[c]) ELSE 0)
    + (IF c \in DOMAIN lex.score THEN Unit \div (RrfK + Ranked(lex.score)[c]) ELSE 0)

Kept(c) == \/ c \in DOMAIN vec.score /\ vec.score[c] >= Threshold
           \/ c \in DOMAIN lex.score /\ lex.score[c] >= LexMin

\* The vector score is shown, or else the lexical one.
Fuse ==
  LET rrf == [c \in ToSet(Candidates) |-> Rrf(c)]
      kept == SelectSeq(Candidates, Kept)
      Place(c) == CHOOSE i \in DOMAIN kept : kept[i] = c
  IN /\ at = "fuse" /\ at' = IF ask.rerank THEN "route" ELSE "cut"
     /\ list' = SortSeq(kept, LAMBDA c, d : rrf[c] > rrf[d] \/ (rrf[c] = rrf[d] /\ Place(c) < Place(d)))
     /\ score' = [c \in ToSet(kept) |-> IF c \in Found(vec) THEN vec.score[c] ELSE lex.score[c]]
     /\ UNCHANGED <<ask, vec, lex, refs>>

\* A clear winner is not reranked.
Route ==
  /\ at = "route"
  /\ at' = IF \/ Len(list) <= 1
              \/ score[list[1]] - score[list[2]] >= SkipGap
           THEN "cut" ELSE "rerank"
  /\ vec' = NoRows /\ lex' = NoRows
  /\ UNCHANGED <<ask, list, score, refs>>

\* Answers of the reranking model: indices, some of them out of range.
Answers(n) == {s \in SeqOf(0 .. n, n + 1) : IsInjective(s)}

\* What it says is taken, as far as it can be; a failure or an empty answer
\* leaves the order as it was.
Rerank ==
  /\ at = "rerank" /\ at' = "cut"
  /\ \/ UNCHANGED list
     \/ \E answer \in Answers(Len(list)) :
          LET valid == SelectSeq(answer, LAMBDA i : i < Len(list)) IN
          list' = IF valid = <<>> THEN list ELSE [i \in DOMAIN valid |-> list[valid[i] + 1]]
  /\ UNCHANGED <<ask, vec, lex, score, refs>>

CutOff ==
  /\ at = "cut" /\ at' = IF ask.picture THEN "picture" ELSE "merge"
  /\ list' = SubSeq(list, 1, IF Len(list) < TopK THEN Len(list) ELSE TopK)
  /\ vec' = NoRows /\ lex' = NoRows
  /\ UNCHANGED <<ask, score, refs>>

\* search: a question about a picture whose results have none gets the nearest
\* one, unless this fails.
AddPicture ==
  /\ at = "picture" /\ at' = "merge"
  /\ \/ UNCHANGED list
     \/ /\ list # <<>> /\ ToSet(list) \intersect Picture = {}
        /\ \E c \in Picture : list' = Append(list, c)
  /\ UNCHANGED <<ask, vec, lex, score, refs>>

-----------------------------------------------------------------------------
(* The generator: references                                                *)

\* The next chunk of the same document; pictures stand alone.
Continues(run, c) ==
  /\ c \notin Picture /\ Last(run) \notin Picture
  /\ DocOf[c] = DocOf[Last(run)] /\ IndexOf[c] = IndexOf[Last(run)] + 1

\* merge_adjacent
MergeAdjacent ==
  LET Step(runs, c) ==
        IF runs # <<>> /\ Continues(Last(runs), c)
        THEN [runs EXCEPT ![Len(runs)] = Append(@, c)]
        ELSE Append(runs, <<c>>)
  IN /\ at = "merge" /\ at' = "answer"
     /\ refs' = FoldLeft(Step, <<>>, list)
     /\ UNCHANGED <<ask, vec, lex, list, score>>

SearchNext ==
  VectorRecall \/ LexicalRecall \/ Fuse \/ Route \/ Rerank \/ CutOff \/ AddPicture \/ MergeAdjacent

-----------------------------------------------------------------------------
(* Properties                                                               *)

\* A chunk that both recalls place before another comes before it after the
\* fusion, wherever it was in the dict, and whatever passed by one list only.
ParetoOrder ==
  at \in {"route", "cut"} /\ lex # NoRows =>
    \A i, j \in DOMAIN list :
      /\ {list[i], list[j]} \subseteq DOMAIN vec.score \intersect DOMAIN lex.score
      /\ vec.score[list[i]] > vec.score[list[j]] /\ lex.score[list[i]] > lex.score[list[j]]
      => i < j

\* Each result is in one reference, once, whichever indices the reranking model
\* leaves out or makes up; a reference is a passage of one document in the order
\* of its text, and a picture is never hidden in it.
PassagesSound ==
  at = "answer" =>
    /\ FlattenSeq(refs) = list /\ IsInjective(list)
    /\ \A r \in DOMAIN refs : \A i \in 1 .. Len(refs[r]) - 1 :
         /\ DocOf[refs[r][i + 1]] = DocOf[refs[r][1]]
         /\ IndexOf[refs[r][i + 1]] = IndexOf[refs[r][1]] + i
         /\ {refs[r][i], refs[r][i + 1]} \intersect Picture = {}

\* The order follows both recalls, and no result is lost or hidden on the way
\* to the references.
SearchSound == ParetoOrder /\ PassagesSound
=============================================================================
