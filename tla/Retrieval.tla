----------------------------- MODULE Retrieval -----------------------------
(***************************************************************************)
(* One search of the civil code, search_knowledge: two legs of recall,     *)
(* rewriting and a second recall, their fusion, the expansion of the pool, *)
(* the choice of what the cross encoder reads and of what is answered      *)
(* (agents/tools, kb_expand, kb_rerank, kb_ce_band).  The base changes     *)
(* while the search goes on, and the index of articles outlives it.        *)
(*                                                                         *)
(* A chunk is the number of its article.                                   *)
(***************************************************************************)
EXTENDS Naturals, FiniteSets, Sequences, SequencesExt

CONSTANTS
    Articles,     \* numbers of articles
    Chapter,      \* Articles -> heading
    Group,        \* Articles -> who may read it, "public" for everybody
    Embedded,     \* articles with a vector
    RecallLimit,  \* RECALL_LIMIT: 15
    TopK,         \* RAG_ANSWER_TOP_K: 5
    NeighborTop,  \* NEIGHBOR_TOP: 3
    NeighborGuard,\* NEIGHBOR_GUARD: 9
    ChapterK,     \* CHAPTER_EXPAND_K: 3
    LegTop,       \* CE_BAND_LEG_TOP: 5
    CeLevels,     \* bound: scores of the cross encoder, in tenths
    SearchScenes, \* bound: readers, named articles, switches and window of a search
    Unloaded

ASSUME RecallAssumption == RecallLimit \in 1..3

VARIABLES
    valid,     \* articles of the base that are valid
    index,     \* _NEIGHBOR_INDEX, kept by the process
    search,    \* where the search is, its scene, whether there is a query vector
    legs,      \* recall_lists
    merged,    \* the pool, best first
    guard,     \* its head before the expansion
    chosen,    \* what the cross encoder reads
    results,   \* what is answered
    seen       \* history: articles that were valid during the search

searchVars == <<valid, index, search, legs, merged, guard, chosen, results, seen>>

SearchInit ==
    /\ \E s \in SearchScenes : search = [pc |-> "recall", scene |-> s, embedding |-> TRUE, retried |-> FALSE]
    /\ valid \in {Articles} \cup {Articles \ {a} : a \in Articles}
    /\ index \in {Unloaded, Articles}
    /\ legs = <<>> /\ merged = <<>> /\ guard = <<>> /\ chosen = <<>> /\ results = <<>>
    /\ seen = valid

Stage(pc) == search.pc = pc
Scene == search.scene
ToStage(pc) == search' = [search EXCEPT !.pc = pc]
Members(s) == {s[i] : i \in DOMAIN s}
Shorter(a, b) == IF a < b THEN a ELSE b
First(s, n) == SubSeq(s, 1, Shorter(n, Len(s)))

\* _perm_clause: everything for an administrator, what is public for who has no group,
\* and that with what one of the groups may read.
Permitted ==
    {a \in Articles : \/ Scene.admin
                      \/ Group[a] = "public"
                      \/ Group[a] \in Scene.groups}

\* The n best of a set, in any order.
Rankings(set, n) ==
    LET size == Shorter(n, Cardinality(set)) IN
    {s \in [1..size -> set] : Cardinality(Members(s)) = size}

-----------------------------------------------------------------------------
(* Recall. *)

\* _law_mapping_check: the question belongs to another law.
MapToLaw ==
    /\ Stage("recall") /\ legs = <<>> /\ ToStage("mapped")
    /\ UNCHANGED <<valid, index, legs, merged, guard, chosen, results, seen>>

\* _generate_embedding: without it the second leg finds nothing.
Vector(embedding) == IF embedding THEN Rankings(valid \cap Permitted \cap Embedded, RecallLimit) ELSE {<<>>}

\* _recall_two_ways. Any text has a similarity, so the first leg is full or has all of
\* the base, and the keywords add nothing to it; the second needs the vector of the query.
RecallTwoWays ==
    /\ Stage("recall") \/ Stage("again")
    /\ \E trgm \in Rankings(valid \cap Permitted, RecallLimit), embedding \in BOOLEAN : \E vector \in Vector(embedding) :
         /\ legs' = legs \o <<trgm, vector>>
         /\ \/ ~search.retried /\ Scene.rewrite /\ search' = [search EXCEPT !.pc = "rewrite", !.embedding = embedding]
            \/ search' = [search EXCEPT !.pc = "fuse", !.embedding = embedding]
    /\ UNCHANGED <<valid, index, merged, guard, chosen, results, seen>>

\* _rewrite_query_for_recall, where both legs found little: a text to recall again, or
\* nothing.
Rewrite ==
    /\ Stage("rewrite")
    /\ \/ search' = [search EXCEPT !.pc = "again", !.retried = TRUE]
       \/ ToStage("fuse")
    /\ UNCHANGED <<valid, index, legs, merged, guard, chosen, results, seen>>

\* The shares 1 / (60 + rank) of an item on the legs, to a common denominator; of the
\* first leg two fifths.
Share(leg, a) ==
    LET of(rank) == (61 * 62 * 63) \div (60 + rank) IN
    IF a \notin Members(legs[leg]) THEN 0
    ELSE (IF leg % 2 = 1 THEN 2 ELSE 5) * of(CHOOSE r \in DOMAIN legs[leg] : legs[leg][r] = a)

Score(a) == Share(1, a) + Share(2, a) + (IF Len(legs) = 4 THEN Share(3, a) + Share(4, a) ELSE 0)

\* Best first, and what came first among equals.
Sorted(items, score(_)) ==
    LET before(a, b) == \/ score(a) > score(b)
                        \/ /\ score(a) = score(b)
                           /\ SelectInSeq(items, LAMBDA x : x = a) < SelectInSeq(items, LAMBDA x : x = b)
    IN [i \in DOMAIN items |->
          CHOOSE a \in Members(items) : Cardinality({b \in Members(items) : before(b, a)}) = i - 1]

Distinct(s) == SelectSeq([i \in DOMAIN s |-> <<i, s[i]>>], LAMBDA e : \A j \in 1..e[1] - 1 : s[j] # e[2])
Appearance == LET d == Distinct(FlattenSeq(legs)) IN [i \in DOMAIN d |-> d[i][2]]

\* _rrf_merge; an empty pool is an answer.
RrfMerge ==
    /\ Stage("fuse")
    /\ merged' = Sorted(Appearance, Score)
    /\ guard' = IF Scene.neighbors \/ Scene.chapter THEN First(merged', NeighborGuard) ELSE <<>>
    /\ ToStage(IF merged' = <<>> THEN "answered" ELSE IF Scene.neighbors THEN "index" ELSE "chapter")
    /\ UNCHANGED <<valid, index, legs, chosen, results, seen>>

-----------------------------------------------------------------------------
(* Expansion. *)

\* _article_index: read once in the life of the process.
ArticleIndex ==
    /\ Stage("index") /\ ToStage("neighbors")
    /\ index' = IF index = Unloaded THEN valid ELSE index
    /\ UNCHANGED <<valid, legs, merged, guard, chosen, results, seen>>

\* What the index knows is looked up again before it is used.
Usable(a) == a \in index \cap valid \cap Permitted

\* Fault: what the index knows is taken as it is.
ExpandUnchecked ==
    /\ Stage("neighbors") /\ ToStage("chapter")
    /\ LET next == {merged[1] - 1, merged[1] + 1} \cap (index \ Members(merged)) IN
       merged' = <<merged[1]>> \o SetToSeq(next) \o Tail(merged)
    /\ UNCHANGED <<valid, index, legs, guard, chosen, results, seen>>

\* _expand_neighbors: behind each of the best the articles next to it that are not there.
ExpandNeighbors ==
    /\ Stage("neighbors") /\ ToStage("chapter")
    /\ LET adds(i, t) == /\ i <= NeighborTop /\ Usable(t) /\ t \notin Members(merged)
                         /\ \A j \in 1..i - 1 : t \notin {merged[j] - 1, merged[j] + 1}
           with(i) == LET a == merged[i] IN
                      <<a>> \o (IF a > 0 /\ adds(i, a - 1) THEN <<a - 1>> ELSE <<>>)
                            \o (IF adds(i, a + 1) THEN <<a + 1>> ELSE <<>>)
       IN merged' = FlattenSeq([i \in DOMAIN merged |-> with(i)])
    /\ UNCHANGED <<valid, index, legs, guard, chosen, results, seen>>

\* _expand_chapter: behind the best those of its chapter that are nearest to the query.
ExpandChapter ==
    /\ Stage("chapter") /\ ToStage("select")
    /\ LET others == {a \in valid \cap Permitted \cap Embedded :
                        Chapter[a] = Chapter[merged[1]] /\ a \notin Members(merged)} IN
       \E picked \in IF Scene.chapter /\ search.embedding THEN Rankings(others, ChapterK) ELSE {<<>>} :
         merged' = <<merged[1]>> \o picked \o Tail(merged)
    /\ UNCHANGED <<valid, index, legs, guard, chosen, results, seen>>

-----------------------------------------------------------------------------
(* Choice. *)

\* Fault: the named articles keep their rank.
PromoteNone(pool) == pool

\* _promote_pinned: the articles that the question names come first.
PromotePinned(pool) ==
    SelectSeq(pool, LAMBDA a : a \in Scene.named) \o SelectSeq(pool, LAMBDA a : a \notin Scene.named)

\* _apply_neighbor_guard: the window, and of the guarded who is not in it.
ApplyGuard(pool) ==
    IF guard = <<>> THEN pool
    ELSE LET window == First(pool, Scene.window.limit) IN
         window \o SelectSeq(guard, LAMBDA a : a \notin Members(window))

\* Fault: the head of the pool takes every seat.
SelectHead(pool) == First(pool, Scene.window.limit)

\* Fault: the head of a leg is taken although it is there.
SelectTwice(pool) ==
    LET w == Scene.window IN
    IF w.whole THEN First(pool, w.limit)
    ELSE First(First(pool, w.rrf) \o FlattenSeq([l \in DOMAIN legs |-> First(legs[l], w.leg)]), w.limit)

\* _select_rerank_candidates: the head of the pool, or a part of it and the head of each
\* leg, as the width of the window has it.
SelectCandidates(pool) ==
    LET w == Scene.window
        add(taken, list, cap) == taken \o First(SelectSeq(list, LAMBDA a : a \notin Members(taken)), cap)
    IN IF w.whole THEN First(pool, w.limit)
       ELSE First(FoldLeft(LAMBDA taken, leg : add(taken, leg, w.leg), add(<<>>, pool, w.rrf), legs), w.limit)

Select ==
    /\ Stage("select") /\ ToStage("rerank")
    /\ merged' = ApplyGuard(PromotePinned(merged))
    /\ chosen' = SelectCandidates(merged')
    /\ UNCHANGED <<valid, index, legs, guard, results, seen>>

\* Six tenths of the score of the cross encoder and four of the place, times 100 n.
Blend(ce, a) ==
    LET n == Len(chosen)
        i == CHOOSE j \in DOMAIN chosen : chosen[j] = a
    IN 40 * (n - i + 1) + 6 * n * ce[a]

\* _promote_high_ce: who is behind the answer, but ahead on a leg and better in the eyes
\* of the cross encoder than the worst of the answer, takes its place by its blend.
Band(ranked, ce) ==
    LET window == First(ranked, TopK)
        ahead == UNION {Members(First(legs[l], LegTop)) : l \in DOMAIN legs}
        worst == CHOOSE m \in {ce[a] : a \in Members(window)} : \A a \in Members(window) : m <= ce[a]
        enter(w, a) == LET at == {i \in DOMAIN w : Blend(ce, w[i]) < Blend(ce, a)}
                           place == IF at = {} THEN Len(w) ELSE CHOOSE i \in at : \A j \in at : i <= j
                       IN First(InsertAt(w, place, a), TopK)
        able == SelectSeq(SubSeq(ranked, TopK + 1, Len(ranked)), LAMBDA a : a \in ahead /\ ce[a] > worst)
    IN IF Len(ranked) <= TopK THEN ranked ELSE FoldLeft(enter, window, able)

\* _rerank_local: no scores, if it is switched off, fails or has nothing to read.
Reranked == {<<>>} \cup (IF chosen = <<>> THEN {} ELSE [Members(chosen) -> CeLevels])

\* Without scores the order of the pool stays.
Rerank ==
    /\ Stage("rerank") /\ ToStage("answered")
    /\ \E ce \in Reranked :
         IF ce = <<>> THEN results' = First(chosen, TopK)
         ELSE LET ranked == Sorted(chosen, LAMBDA a : Blend(ce, a)) IN
              results' = First(IF Scene.band THEN Band(ranked, ce) ELSE ranked, TopK)
    /\ UNCHANGED <<valid, index, legs, merged, guard, chosen, seen>>

-----------------------------------------------------------------------------
\* An action on the base makes a text invalid, or valid again.
ChangeKnowledge ==
    /\ search.pc \notin {"answered", "mapped"} /\ Scene.changes
    /\ Cardinality(seen) = Cardinality(valid)
    /\ \E a \in Articles : valid' = IF a \in valid THEN valid \ {a} ELSE valid \cup {a}
    /\ seen' = seen \cup valid'
    /\ UNCHANGED <<index, search, legs, merged, guard, chosen, results>>

SearchNext ==
    \/ MapToLaw \/ RecallTwoWays \/ Rewrite \/ RrfMerge \/ ArticleIndex \/ ExpandNeighbors
    \/ ExpandChapter \/ Select \/ Rerank \/ ChangeKnowledge

-----------------------------------------------------------------------------
(* Properties. *)

\* Whatever way an article came into the answer, its reader may read it and it was valid
\* during the search, also when an older index still knows it.
OnlyAdmitted == Members(results) \subseteq Permitted \cap seen

\* No article takes two seats, of the answer or of those the cross encoder reads.
NoRepeats == IsInjective(results) /\ IsInjective(chosen)

\* An article that the question names is read by the cross encoder, wherever the fusion
\* and the expansions had put it.
NamedIsRead ==
    search.pc \in {"rerank", "answered"} /\ Scene.named \cap Members(merged) # {}
        => Scene.named \cap Members(chosen) # {}

\* Where seats are given by leg, the best of each leg of the question itself has one.
BestOfLegsIsRead ==
    search.pc \in {"rerank", "answered"} /\ ~Scene.window.whole =>
        \A l \in DOMAIN First(legs, 2) : legs[l] # <<>> => legs[l][1] \in Members(chosen)

\* What is read and answered are texts the reader may see, each once, and among them
\* those the question calls for.
SearchIsSound == OnlyAdmitted /\ NoRepeats /\ NamedIsRead /\ BestOfLegsIsRead

\* kb_expand.py: the guarded do not lose their place to the expansion.
GuardedAreRead ==
    search.pc \in {"rerank", "answered"} /\ Scene.window.whole =>
        Members(First(guard, Scene.window.limit)) \subseteq Members(chosen)

\* kb_rerank.py: the head of the pool and of each leg; the legs of a rewritten question.
RewrittenIsRead ==
    search.pc \in {"rerank", "answered"} /\ ~Scene.window.whole =>
        \A l \in DOMAIN legs : legs[l] # <<>> => legs[l][1] \in Members(chosen)
=============================================================================
