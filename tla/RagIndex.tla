------------------------------ MODULE RagIndex ------------------------------
(***************************************************************************)
(* Retrieval: ingests and searches of one index by concurrent requests.    *)
(* An ingest cuts its document into chunks, embeds them and upserts them   *)
(* under ids made of the document and an ordinal; the documents here are   *)
(* versions of the same source, so an id is an ordinal.  A search fuses a  *)
(* ranking of the vector store with a lexical one over the whole index,    *)
(* which is read separately.                                               *)
(*                                                                         *)
(* A text is its sections, a section the sizes of its paragraphs.          *)
(***************************************************************************)
EXTENDS Naturals, Sequences, FiniteSets, SequencesExt

CONSTANTS
  Writers,        \* the ingest requests
  TextVersions,   \* the texts of the source
  Target, Overlap, \* the sizes of chunk_document
  TopK,           \* of the search
  MaxChunks       \* bound on the chunks of a text

ASSUME RagAssumption ==
  /\ Target \in Nat /\ Overlap \in Nat /\ TopK \in Nat \ {0} /\ MaxChunks \in Nat
  /\ TextVersions \subseteq Seq(Seq(Nat \ {0}))   \* no paragraph is blank

VARIABLES
  collection,     \* does it exist, and its points: a chunk per ordinal
  ingests,        \* the ingest requests: stage and chunks
  newest,         \* history: the text upserted last, as the sequence of one, or none
  query           \* the search request: stage, rankings, hits

ragVars == <<collection, ingests, newest, query>>

-----------------------------------------------------------------------------
(* chunk_document                                                           *)
Separator == 2                                   \* the blank line after a paragraph
EmptyPiece == [paragraphs |-> <<>>, size |-> 0]

\* Mutant: the size is looked at after the paragraph has been added.
FullLater(piece, paragraph) == piece.size > Target

Overfull(piece, paragraph) == piece.size > 0 /\ piece.size + paragraph > Target
\* The end of a full piece opens the next one.
Carried(piece) ==
  IF Overlap = 0 THEN 0 ELSE Separator + (IF piece.size < Overlap THEN piece.size ELSE Overlap)
Extended(piece, paragraph, size) ==
  [paragraphs |-> Append(piece.paragraphs, paragraph), size |-> size + paragraph + Separator]
\* The pieces of a section so far, the last one still open, and one more paragraph.
Pack(pieces, paragraph) ==
  LET open == Last(pieces) IN
  IF Overfull(open, paragraph)
  THEN Append(pieces, Extended(EmptyPiece, paragraph, Carried(open)))
  ELSE Append(Front(pieces), Extended(open, paragraph, open.size))
PiecesOf(section) ==
  LET pieces[n \in 0..Len(section)] ==
        IF n = 0 THEN <<EmptyPiece>> ELSE Pack(pieces[n - 1], section[n])
  IN  IF section = <<>> THEN <<>> ELSE pieces[Len(section)]
ChunkDocument(text) == FlattenSeq([s \in DOMAIN text |-> PiecesOf(text[s])])

ASSUME ChunksAssumption == \A text \in TextVersions : Len(ChunkDocument(text)) <= MaxChunks

-----------------------------------------------------------------------------
Ordinals == 1..MaxChunks
NoChunk  == EmptyPiece
Rankings == UNION {[1..n -> Ordinals] : n \in 0..MaxChunks}
Points   == {o \in Ordinals : collection.points[o] # NoChunk}

IngestOver == {"stored", "empty", "unavailable", "conflict"}
SearchOver == {"unknown", "answered", "unavailable"}
RagTypeOK ==
  /\ collection.exists \in BOOLEAN /\ DOMAIN collection.points = Ordinals
  /\ \A w \in Writers : ingests[w].stage \in {"new", "embedding", "ensuring", "creating",
                                              "upserting"} \union IngestOver
  /\ newest \in Seq(TextVersions) /\ Len(newest) <= 1
  /\ query.stage \in {"new", "embedding", "dense", "lexical"} \union SearchOver
  /\ {query.dense, query.lexical, query.hits} \subseteq Seq(Ordinals)

RagInit ==
  /\ collection = [exists |-> FALSE, points |-> [o \in Ordinals |-> NoChunk]]
  /\ ingests \in [Writers -> {[stage |-> "new", text |-> text] : text \in TextVersions}]
  /\ newest = <<>>
  /\ query = [stage |-> "new", dense |-> <<>>, lexical |-> <<>>, hits |-> <<>>]

Advance(w, from, to) ==
  ingests[w].stage = from /\ ingests' = [ingests EXCEPT ![w].stage = to]

\* A text without a paragraph is nothing to embed or store.
Ingest(w) ==
  /\ Advance(w, "new", IF ChunkDocument(ingests[w].text) = <<>> THEN "empty" ELSE "embedding")
  /\ UNCHANGED <<collection, newest, query>>
EmbedChunks(w) ==
  /\ Advance(w, "embedding", "ensuring") \/ Advance(w, "embedding", "unavailable")
  /\ UNCHANGED <<collection, newest, query>>
EnsureCollection(w) ==
  /\ Advance(w, "ensuring", IF collection.exists THEN "upserting" ELSE "creating")
  /\ UNCHANGED <<collection, newest, query>>
\* To create what another request has created meanwhile is an error.
CreateCollection(w) ==
  /\ Advance(w, "creating", IF collection.exists THEN "conflict" ELSE "upserting")
  /\ collection' = [collection EXCEPT !.exists = TRUE]
  /\ UNCHANGED <<newest, query>>
\* One batch.  The points of a longer text before it are left where they are.
Upsert(w) ==
  LET chunks == ChunkDocument(ingests[w].text) IN
  /\ Advance(w, "upserting", "stored")
  /\ collection' = [collection EXCEPT !.points =
                      [o \in Ordinals |-> IF o \in DOMAIN chunks THEN chunks[o] ELSE @[o]]]
  /\ newest' = <<ingests[w].text>>
  /\ UNCHANGED query

-----------------------------------------------------------------------------
(* Reciprocal rank fusion.  A score is a fraction <<numerator, denominator>>. *)
RrfK == 60
RankIn(ranking, o) == RrfK + (CHOOSE i \in DOMAIN ranking : ranking[i] = o)
Score(o, dense, lexical) ==
  LET a == RankIn(dense, o)
      b == RankIn(lexical, o)
  IN  CASE o \notin ToSet(lexical) -> <<1, a>>
        [] o \notin ToSet(dense)   -> <<1, b>>
        [] OTHER                   -> <<a + b, a * b>>
Top(ranking) == SubSeq(ranking, 1, IF Len(ranking) < TopK THEN Len(ranking) ELSE TopK)
Above(s, t) == s[1] * t[2] > t[1] * s[2]
\* The best of what either ranking found, in order; the order of equal scores is left open.
RrfFuse(dense, lexical, hits) ==
  LET found == ToSet(dense) \union ToSet(lexical)
      above(o, p) == Above(Score(o, dense, lexical), Score(p, dense, lexical))
  IN  /\ IsInjective(hits) /\ ToSet(hits) \subseteq found
      /\ Len(hits) = IF Cardinality(found) < TopK THEN Cardinality(found) ELSE TopK
      /\ \A i, j \in DOMAIN hits : i < j => ~above(hits[j], hits[i])
      /\ \A i \in DOMAIN hits, o \in found \ ToSet(hits) : ~above(o, hits[i])

Searching(from) == query.stage = from
SearchIndex ==
  /\ Searching("new")
  /\ query' = [query EXCEPT !.stage = IF collection.exists THEN "embedding" ELSE "unknown"]
  /\ UNCHANGED <<collection, ingests, newest>>
EmbedQuery ==
  /\ Searching("embedding")
  /\ query' \in {[query EXCEPT !.stage = "dense"], [query EXCEPT !.stage = "unavailable"]}
  /\ UNCHANGED <<collection, ingests, newest>>
\* The nearest 4 * top_k points, in an order the vectors decide; without hybrid, that is it.
Nearest(ranking) ==
  /\ IsInjective(ranking) /\ ToSet(ranking) \subseteq Points
  /\ Len(ranking) = IF Cardinality(Points) < 4 * TopK THEN Cardinality(Points) ELSE 4 * TopK
SearchDense(ranking, hybrid) ==
  /\ Searching("dense") /\ Nearest(ranking)
  /\ query' = IF hybrid THEN [query EXCEPT !.stage = "lexical", !.dense = ranking]
              ELSE [query EXCEPT !.stage = "answered", !.dense = ranking,
                                 !.hits = Top(ranking)]
  /\ UNCHANGED <<collection, ingests, newest>>
\* The whole index by now, ranked by BM25 where that scores above zero.
SearchLexical(ranking) ==
  /\ Searching("lexical")
  /\ IsInjective(ranking) /\ ToSet(ranking) \subseteq Points /\ Len(ranking) <= 4 * TopK
  /\ \E hits \in Rankings :
       /\ RrfFuse(query.dense, ranking, hits)
       /\ query' = [query EXCEPT !.stage = "answered", !.lexical = ranking, !.hits = hits]
  /\ UNCHANGED <<collection, ingests, newest>>

RagNext ==
  \/ \E w \in Writers : \/ Ingest(w) \/ EmbedChunks(w) \/ EnsureCollection(w)
                        \/ CreateCollection(w) \/ Upsert(w)
  \/ SearchIndex \/ EmbedQuery
  \/ \E ranking \in Rankings : \/ SearchLexical(ranking)
                               \/ \E hybrid \in BOOLEAN : SearchDense(ranking, hybrid)
RagSpec == RagInit /\ [][RagNext]_ragVars

-----------------------------------------------------------------------------
(* chunking.py:42-48, store.py:33-43: whatever ingests overlap, the first  *)
(* points hold the text that was upserted last, every paragraph of it once *)
(* and in order, and no chunk is larger than the target unless one         *)
(* paragraph alone, after the overlap, makes it so.                        *)
NewestStored ==
  newest # <<>> =>
    LET chunks == ChunkDocument(newest[1])
        stored == [i \in DOMAIN chunks |-> collection.points[i]]
    IN  /\ FlattenSeq([i \in DOMAIN stored |-> stored[i].paragraphs]) = FlattenSeq(newest[1])
        /\ \A i \in DOMAIN stored :
             stored[i].size > Target + Separator => Len(stored[i].paragraphs) = 1

(* pipeline.py:28-38: what both rankings found comes before what only one  *)
(* found, however high that one put it, while the rankings are so short    *)
(* that 2 / (60 + rank) stays above 1 / 61; and all that is returned is    *)
(* still in the index.                                                     *)
BothFirst ==
  /\ ToSet(query.hits) \subseteq Points
  /\ \A i, j \in DOMAIN query.hits :
       LET inBoth(k) == query.hits[k] \in ToSet(query.dense) \intersect ToSet(query.lexical)
       IN  4 * TopK <= RrfK + 1 /\ query.lexical # <<>> /\ i < j /\ inBoth(j) => inBoth(i)

HitsSound == NewestStored /\ BothFirst
=============================================================================
