--------------------------- MODULE ContextSelector ---------------------------
(***************************************************************************)
(* Context selection (src/context_selector.py): the candidates are ranked  *)
(* by score and time and packed greedily into the token budget.  A score   *)
(* is what _score_relevance computes from the terms of query and content;  *)
(* here it is given with the item, [id, score, time, tokens].              *)
(***************************************************************************)
EXTENDS Integers, FiniteSets, SequencesExt

Ids(candidates) == [i \in DOMAIN candidates |-> candidates[i].item.id]

\* sort(key = (score, timestamp), reverse = True) keeps the order of equals.
Before(a, i, b, j) ==
  \/ a.score > b.score
  \/ a.score = b.score /\ a.time > b.time
  \/ a.score = b.score /\ a.time = b.time /\ i < j

\* A query without terms leaves the corpus as it is, with score 0.
Unranked(corpus) == [i \in DOMAIN corpus |-> [corpus[i] EXCEPT !.score = 0]]
Ranked(query, corpus) ==
  IF ~query THEN Unranked(corpus)
  ELSE LET Position(i) == 1 + Cardinality({j \in DOMAIN corpus : Before(corpus[j], j, corpus[i], i)})
       IN  [r \in DOMAIN corpus |-> corpus[CHOOSE i \in DOMAIN corpus : Position(i) = r]]

Candidate(item, rank) == [item |-> item, rank |-> rank]
Nothing == [selected |-> <<>>, rejected |-> <<>>, reason |-> <<>>, used |-> 0]

Take(packed, candidate) ==
  [packed EXCEPT !.selected = Append(@, candidate), !.used = @ + candidate.item.tokens]
Reject(packed, candidate, reason) ==
  [packed EXCEPT !.rejected = Append(@, candidate), !.reason = Append(@, reason)]

\* _pack_budget.  An item that does not fit is passed over and smaller ones after it are
\* still taken; one without tokens is refused.
SlipPack(packed, candidate, budget) ==
  IF packed.used + candidate.item.tokens <= budget
  THEN Take(packed, candidate)
  ELSE Reject(packed, candidate, "token_budget")
Pack(packed, candidate, budget) ==
  IF candidate.item.tokens <= 0 THEN Reject(packed, candidate, "zero_token_count")
  ELSE IF packed.used + candidate.item.tokens <= budget THEN Take(packed, candidate)
  ELSE Reject(packed, candidate, "token_budget")

Candidates(items) == [r \in DOMAIN items |-> Candidate(items[r], r)]

Select(query, corpus, budget) ==
  IF budget <= 0 \/ corpus = <<>>
  THEN [Nothing EXCEPT !.rejected = Candidates(Unranked(corpus)),
                       !.reason = [i \in DOMAIN corpus |-> "token_budget"]]
  ELSE FoldLeft(LAMBDA packed, candidate : Pack(packed, candidate, budget),
                Nothing, Candidates(Ranked(query, corpus)))
=============================================================================
