----------------------------- MODULE ReportExtras -----------------------------
(***************************************************************************)
(* What the LLM adds around the Word report: similar cases in it, and the  *)
(* drafts of a complaint, of an answer to it and of an opinion on the      *)
(* evidence beside it.                                                     *)
(***************************************************************************)
EXTENDS Ordering, Functions, LlmAnswer

CONSTANTS
    CourtCases,     \* court_cases_index.json in its order, empty if it is missing
    KeywordAnswers, \* the texts that the LLM may return with keywords, ...
    RankAnswers,    \* ... those with a ranking, ...
    DraftAnswers,   \* ... and those for a draft
    Match,          \* Match[k][c]: the score of case c for keywords k
    Unlisted,       \* case numbers that the LLM invents
    Cited           \* what a draft may cite, known or not

----------------------------------------------------------------------------
(* Similar cases: the LLM gives keywords, the local index is searched     *)
(* with them, and the LLM ranks what was found.  Whatever fails, the       *)
(* search finds nothing then.                                             *)

Keywords == [whole : BOOLEAN, about : DOMAIN Match]

\* The items of a ranking, which is whole if every one has its fields; the overall
\* score in tenths.
RankItem == [number : Range(CourtCases) \cup Unlisted, overall : Int]

Ranking == [whole : BOOLEAN, items : Seq(RankItem)]

\* LocalCaseSearcher.search: the cases with a word or the cause in common.
Candidates(keywords) ==
    LET hits == At(CourtCases, {n \in DOMAIN CourtCases : Match[keywords][CourtCases[n]] > 0})
    IN  FirstOf(StableSort(hits, [n \in DOMAIN hits |-> -Match[keywords][hits[n]]]), 20)

\* What RelevanceRanker keeps.  One item without its fields, or one of a known case
\* whose score is out of range, and the models refuse them all.
Kept(ranking, candidates) ==
    At(ranking.items, {n \in DOMAIN ranking.items : ranking.items[n].number \in Range(candidates)})

RankingAccepted(ranking, candidates) ==
    ranking.whole /\ \A n \in DOMAIN Kept(ranking, candidates) :
                        Kept(ranking, candidates)[n].overall \in 0..10

\* The cases by relevance, as many as the report shows; one that the answer has
\* twice is shown twice.
RankedCases(ranking, candidates) ==
    LET kept == Kept(ranking, candidates)
        sorted == StableSort(kept, [n \in DOMAIN kept |-> -kept[n].overall])
    IN  IF RankingAccepted(ranking, candidates)
        THEN FirstOf([n \in DOMAIN sorted |-> sorted[n].number], 10) ELSE <<>>

\* similar_cases_data for a pair of answers.
SearchResult(keywordText, rankText) ==
    LET keywords == ObjectIn(keywordText)
        ranking == ObjectIn(rankText)
    IN  IF keywords = <<>> \/ ranking = <<>> THEN <<>>
        ELSE IF ~Head(keywords).whole \/ Candidates(Head(keywords).about) = <<>> THEN <<>>
        ELSE RankedCases(Head(ranking), Candidates(Head(keywords).about))

SearchResults ==
    {<<>>} \cup {SearchResult(k, r) : k \in KeywordAnswers, r \in RankAnswers}

----------------------------------------------------------------------------
(* DocumentAssistanceEngine *)

DocTypes == <<"pleading", "defense", "cross_exam">>

\* The data of a draft.  whole: it has the fields that its model requires; cites:
\* evidence_ids_cited; opinions: the evidence of the items of an opinion.  The ids are
\* compared with no index.
DraftData == [whole : BOOLEAN, cites : Seq(Cited), opinions : Seq(Cited)]
NoDraft == <<>>

\* An item for every evidence that is cited and has none.
Completed(data) ==
    [data EXCEPT !.opinions =
        @ \o At(data.cites, {n \in DOMAIN data.cites : data.cites[n] \notin Range(data.opinions)})]

\* generate for an answer: no object, a field that is missing, or nothing cited, and
\* there is no draft.
Draft(type, text) ==
    LET data == ObjectIn(text)
    IN  IF data = <<>> THEN NoDraft
        ELSE IF ~Head(data).whole \/ Head(data).cites = <<>> THEN NoDraft
        ELSE IF type = "cross_exam" THEN <<Completed(Head(data))>> ELSE data

\* Without evidence there is an empty opinion and no call.
EmptyOpinion == <<[whole |-> TRUE, cites |-> <<>>, opinions |-> <<>>]>>

\* What generate may return for a type; a call that fails is an error, too.
DraftResults(type, anyEvidence) ==
    IF type = "cross_exam" /\ ~anyEvidence THEN {EmptyOpinion}
    ELSE {NoDraft} \cup {Draft(type, text) : text \in DraftAnswers}

----------------------------------------------------------------------------
\* An object that is read has its lists, empty ones by default.
ASSUME ExtrasAssumption ==
    /\ CourtCases \in Seq(Range(CourtCases)) /\ Range(CourtCases) \cap Unlisted = {}
    /\ \A k \in DOMAIN Match : Match[k] \in [Range(CourtCases) -> Nat]
    /\ \A text \in KeywordAnswers : ObjectIn(text) \in Seq(Keywords)
    /\ \A text \in RankAnswers : ObjectIn(text) \in Seq(Ranking)
    /\ \A text \in DraftAnswers : ObjectIn(text) \in Seq(DraftData)
=============================================================================
