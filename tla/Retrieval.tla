----------------------------- MODULE Retrieval ------------------------------
(***************************************************************************)
(* Search and evidence: application/services/authorized_retrieval_service   *)
(* .py, context_assembly_service.py, evidence_service.py, reranker.py and    *)
(* infrastructure/persistence/retrieval_unit_repository.py.  A search        *)
(* resolves the spaces of its principal, then the active generation, then    *)
(* asks the two branches, the vector branch after the embedding provider has *)
(* answered; each is a transaction of its own and sees what is committed     *)
(* then.  How well a text matches is data: a branch returns some of the      *)
(* units its query may see, in some order.                                   *)
(***************************************************************************)
EXTENDS SpaceAccess, SequencesExt

CONSTANTS Units,          \* retrieval units: numbers, in the order of their ids
          About,          \* About[u]: space, source, version, text, chars, superseded
          Weights,        \* the lexical and the vector weight of a search
          MaxHits, RankK, Boost,      \* limit, rrf_k, active_space_boost in %
          Diversity,                  \* the settings of max_hits_per_source
          MaxSources, MaxChars, MaxTokens,          \* the budgets of a context
          Scale           \* a common multiple of the denominators RankK + rank

ASSUME RetrievalAssumption ==
  /\ IsFiniteSet(Units) /\ Units \subseteq Nat
  /\ {MaxHits, RankK, MaxSources, MaxChars, MaxTokens} \cup Diversity \subseteq Nat \ {0}
  /\ {Weights.lexical, Weights.vector, Boost, Scale} \subseteq Nat
  /\ \A u \in Units : {About[u].version, About[u].chars} \subseteq Nat /\ About[u].superseded \in BOOLEAN
  /\ \A i \in 1 .. Cardinality(Units) : Scale % (RankK + i) = 0

VARIABLES indexed,   \* indexed[u]: the generation of the active unit, 0 when it is not
          live,      \* live[u]: its item or document is neither deleted nor archived
          current,   \* the active generation
          search     \* search[q]: what the request q has read and what it answers

searchVars == <<indexed, live, current, search>>
retrievalVars == <<enabled, space, role, key, call, indexed, live, current, search>>

NoSearch == [pc |-> "none", policy |-> "prefer", perSource |-> 1, spaces |-> {}, active |-> NoOne,
             gen |-> 0, lexical |-> <<>>, vector |-> <<>>, read |-> {}, hits |-> <<>>, package |-> <<>>,
             shown |-> {}, dark |-> {}]

RetrievalInit == /\ AccessInit
                 /\ indexed = [u \in Units |-> 1] /\ live = [u \in Units |-> TRUE]
                 /\ current = 1
                 /\ search = [q \in Callers |-> NoSearch]

\* dark: the spaces the principal could read at no moment since its queries began.
Dark(q) == {s \in search[q].dark : call[q] # Idle => s \notin EffectiveSpaces(call[q])'}

\* Everything else: memberships, keys, sources and generations change.
Elsewhere(A) ==
  /\ A
  /\ search' = [q \in Callers |-> [search[q] EXCEPT !.dark = Dark(q)]]
  /\ UNCHANGED <<indexed, live, current>>

SourceGone(u) == /\ live[u] /\ live' = [live EXCEPT ![u] = FALSE]
                 /\ UNCHANGED <<accessVars, indexed, current, search>>
UnitReplaced(u) == /\ indexed[u] = 1 /\ indexed' = [indexed EXCEPT ![u] = 0]
                   /\ UNCHANGED <<accessVars, live, current, search>>
GenerationPromoted == /\ current = 1 /\ current' = 2
                      /\ UNCHANGED <<accessVars, indexed, live, search>>

-----------------------------------------------------------------------------
(* Ranking: _fuse.                                                          *)

RankIn(branch, u) == IF u \in ToSet(branch) THEN CHOOSE i \in 1 .. Len(branch) : branch[i] = u
                     ELSE 0
Part(weight, branch, u) ==
  IF RankIn(branch, u) = 0 THEN 0 ELSE weight * (Scale \div (RankK + RankIn(branch, u)))
Score(lexical, vector, active, u) ==
  (Part(Weights.lexical, lexical, u) + Part(Weights.vector, vector, u))
     * (IF About[u].space = active THEN 100 + Boost ELSE 100)

Ahead(lexical, vector, active, u, v) ==
  LET x == Score(lexical, vector, active, u)
      y == Score(lexical, vector, active, v)
  IN x > y \/ (x = y /\ u < v)

Candidates(lexical, vector) ==
  {u \in ToSet(lexical) \cup ToSet(vector) :
     Part(Weights.lexical, lexical, u) + Part(Weights.vector, vector, u) > 0}

OfSource(hits, u) == Cardinality({i \in 1 .. Len(hits) : About[hits[i]].source = About[u].source})

\* The results of a query, and the order of the ranking, which is total.
Orders(S) == {s \in SeqOf(S, Cardinality(S)) : IsInjective(s)}

Ranked(lexical, vector, active) ==
  {s \in Orders(Candidates(lexical, vector)) :
     /\ ToSet(s) = Candidates(lexical, vector)
     /\ \A i, j \in DOMAIN s : i < j => Ahead(lexical, vector, active, s[i], s[j])}

\* The candidate u is a hit, if limit and perSource allow.
Taken(hits, u, perSource, limit) ==
  IF OfSource(hits, u) < perSource /\ Len(hits) < limit THEN Append(hits, u) ELSE hits

\* Mutant: the limit is counted over candidates, before the sources are thinned.
Selected_LimitFirst(ordered, perSource) ==
  LET hits[n \in 0 .. Len(ordered)] ==
        IF n = 0 THEN <<>>
        ELSE IF n > MaxHits THEN hits[n - 1] ELSE Taken(hits[n - 1], ordered[n], perSource, MaxHits)
  IN hits[Len(ordered)]

\* In order, at most perSource of a source and MaxHits in all.
Selected(ordered, perSource) ==
  LET hits[n \in 0 .. Len(ordered)] ==
        IF n = 0 THEN <<>> ELSE Taken(hits[n - 1], ordered[n], perSource, MaxHits)
  IN hits[Len(ordered)]

Fuse(lexical, vector, active, perSource) ==
  {Selected(ordered, perSource) : ordered \in Ranked(lexical, vector, active)}

-----------------------------------------------------------------------------
(* Searching.                                                               *)

\* What the joins of the branch queries leave: the memberships are looked at
\* again.
Visible_Resolved(q) ==
  {u \in Units : /\ indexed[u] = search[q].gen /\ live[u]
                 /\ About[u].space \in search[q].spaces}

Visible(q) ==
  {u \in Units : /\ indexed[u] = search[q].gen /\ live[u]
                 /\ About[u].space \in search[q].spaces
                 /\ enabled[call[q].user] /\ space[About[u].space] = "open"
                 /\ role[About[u].space][call[q].user] # "none"}

Searching(q, pc) == call[q] # Idle /\ search[q].pc = pc

Set(q, value) == /\ search' = [search EXCEPT ![q] = value]
                 /\ UNCHANGED <<accessVars, indexed, live, current>>

\* resolve_request_space_scope, narrow_requested_spaces, _validate and
\* _resolve_scope: the spaces asked for, those of the request and those that are
\* the principal's; with none of them the answer is empty.
BeginSearch(q, asked, active, policy, perSource) ==
  LET p == call[q]
      scope == EffectiveSpaces(p) \cap asked \cap (IF active = NoOne THEN Spaces ELSE {active})
  IN /\ Searching(q, "none")
     /\ HasScope(p, "content:read") /\ RequireProfile(p, "content:read")
     /\ policy = "required" => Weights.vector > 0
     /\ Set(q, [NoSearch EXCEPT !.pc = IF scope = {} THEN "answered" ELSE "scoped",
                                !.policy = policy, !.perSource = perSource,
                                !.spaces = scope, !.active = active])

\* active_generation; the branches start.
ReadGeneration(q) ==
  /\ Searching(q, "scoped")
  /\ Set(q, [search[q] EXCEPT
       !.pc = IF current # 0 THEN "reading"
              ELSE IF search[q].policy = "required" THEN "failed" ELSE "answered",
       !.gen = current, !.dark = Spaces \ EffectiveSpaces(call[q]),
       !.read = (IF Weights.lexical = 0 THEN {"lexical"} ELSE {})
                \cup (IF Weights.vector = 0 \/ search[q].policy = "disabled" THEN {"vector"} ELSE {})])

LexicalSearch(q, found) ==
  /\ Searching(q, "reading") /\ "lexical" \notin search[q].read
  /\ found \in Orders(Visible(q))
  /\ Set(q, [search[q] EXCEPT !.lexical = found, !.read = @ \cup {"lexical"}])

\* embed_query fails: without vectors, or not at all.
EmbeddingUnavailable(q) ==
  /\ Searching(q, "reading") /\ "vector" \notin search[q].read
  /\ Set(q, IF search[q].policy = "required" THEN [NoSearch EXCEPT !.pc = "failed"]
            ELSE [search[q] EXCEPT !.read = @ \cup {"vector"}])

VectorSearch(q, found) ==
  /\ Searching(q, "reading") /\ "vector" \notin search[q].read
  /\ found \in Orders(Visible(q))
  /\ Set(q, [search[q] EXCEPT !.vector = found, !.read = @ \cup {"vector"}])

\* The reranker weighs the texts: it may reorder the hits, and keeps them.
Answer(q) ==
  /\ Searching(q, "reading") /\ search[q].read = {"lexical", "vector"}
  /\ \E hits \in Fuse(search[q].lexical, search[q].vector,
                      IF search[q].active \in search[q].spaces THEN search[q].active ELSE NoOne,
                      search[q].perSource) :
     \E reranked \in {h \in [1 .. Len(hits) -> ToSet(hits)] : ToSet(h) = ToSet(hits)} :
       Set(q, [search[q] EXCEPT !.pc = "answered", !.hits = reranked, !.shown = ToSet(hits)])

\* The sources and budgets of a context package; the hits of one source differ
\* in version when an older revision is still indexed.
Freshest(hits, i) ==
  \A j \in 1 .. Len(hits) : About[hits[j]].source = About[hits[i]].source =>
     \/ About[hits[j]].version < About[hits[i]].version
     \/ About[hits[j]].version = About[hits[i]].version /\ i <= j

Tokens(n) == IF n < 4 THEN 1 ELSE n \div 4
LesserOf(m, n) == IF m < n THEN m ELSE n
Total(numbers) ==
  LET sum[n \in 0 .. Len(numbers)] == IF n = 0 THEN 0 ELSE sum[n - 1] + numbers[n]
  IN sum[Len(numbers)]
Chars(snippets) == Total([i \in DOMAIN snippets |-> snippets[i].chars])
TokensOf(snippets) == Total([i \in DOMAIN snippets |-> Tokens(snippets[i].chars)])

\* What the loop of assemble adds for the hit at i: the first snippet is cut to
\* the budgets, a later one that does not fit is left out.
Snippet(hits, i, snippets) ==
  LET u == hits[i]
      cut == LesserOf(LesserOf(About[u].chars, MaxChars), MaxTokens * 4)
      fits == /\ Chars(snippets) + About[u].chars <= MaxChars
              /\ TokensOf(snippets) + Tokens(About[u].chars) <= MaxTokens
      \* The text that was added; a snippet that was cut is another text.
      again == \E s \in ToSet(snippets) : /\ s.chars = About[s.unit].chars
                                          /\ About[s.unit].text = About[u].text
  IN IF Len(snippets) >= MaxSources \/ again THEN <<>>
     ELSE IF fits THEN <<[unit |-> u, chars |-> About[u].chars]>>
     ELSE IF snippets = <<>> THEN <<[unit |-> u, chars |-> cut]>> ELSE <<>>

\* Mutant: a source counts as seen before its newest revision is asked for.
Chosen_First(hits, i) ==
  /\ \A j \in 1 .. (i - 1) : About[hits[j]].source # About[hits[i]].source
  /\ Freshest(hits, i)

Chosen(hits, i) == Freshest(hits, i)

\* The hit at i is looked at, in the first pass or among the superseded sources,
\* which come last.
Added(hits, i, last, snippets) ==
  IF About[hits[i]].superseded = last /\ Chosen(hits, i)
  THEN snippets \o Snippet(hits, i, snippets) ELSE snippets

Assembled(hits) ==
  LET N == Len(hits)
      snippets[n \in 0 .. 2 * N] ==
        IF n = 0 THEN <<>>
        ELSE IF n <= N THEN Added(hits, n, FALSE, snippets[n - 1])
        ELSE Added(hits, n - N, TRUE, snippets[n - 1])
  IN snippets[2 * N]

AssembleContext(q) ==
  /\ Searching(q, "answered") /\ search[q].package = <<>>
  /\ Set(q, [search[q] EXCEPT !.pc = "assembled", !.package = Assembled(search[q].hits)])

\* EvidenceService: the cited revision, checked and read in one transaction.
ResolveEvidence(q, u) ==
  /\ Searching(q, "none") /\ RequireProfile(call[q], "content:read")
  /\ AuthorizeSpace(call[q], About[u].space, "content:read") /\ live[u]
  /\ Set(q, [NoSearch EXCEPT !.pc = "answered", !.shown = {u},
                             !.dark = Spaces \ EffectiveSpaces(call[q])])

EndRequest(q) ==
  /\ call[q] # Idle /\ search[q].pc \in {"answered", "assembled", "failed"}
  /\ call' = [call EXCEPT ![q] = Idle] /\ search' = [search EXCEPT ![q] = NoSearch]
  /\ UNCHANGED <<enabled, space, role, key, indexed, live, current>>

SearchOn(q) ==
  \/ ReadGeneration(q) \/ EmbeddingUnavailable(q) \/ Answer(q) \/ AssembleContext(q)
  \/ \E found \in Orders(Units) : LexicalSearch(q, found) \/ VectorSearch(q, found)
  \/ \E u \in Units : ResolveEvidence(q, u)
  \/ EndRequest(q)

RetrievalNext ==
  \E q \in Callers :
    \/ search[q] = NoSearch /\ Elsewhere(\/ SpaceStep(q) \/ KeyStep(q)
                                        \/ \E u \in Users : ResolveSession(q, u))
    \/ \E asked \in SUBSET Spaces, active \in Spaces \cup {NoOne},
          policy \in {"prefer", "required", "disabled"}, n \in Diversity :
            BeginSearch(q, asked, active, policy, n)
    \/ SearchOn(q)
    \/ Elsewhere(\/ \E u \in Users : Provision(u) \/ SetStatus(u)
                 \/ \E k \in Keys : ExpireKey(k))
    \/ \E u \in Units : SourceGone(u) \/ UnitReplaced(u)
    \/ GenerationPromoted

RetrievalSpec == RetrievalInit /\ [][RetrievalNext]_retrievalVars

-----------------------------------------------------------------------------
\* Nothing is shown of a space that was closed to the member all the time the
\* queries ran, or that is outside the grants of the key, although the spaces
\* are resolved before the embedding provider is waited for.
ShownWasReadable ==
  \A q \in Callers : \A u \in search[q].shown :
    /\ About[u].space \notin search[q].dark
    /\ call[q] # Idle /\ call[q].grants # Anywhere => About[u].space \in call[q].grants

\* What a search has found, and what of it is ranked before u.
Found(s) == IF s.hits = <<>> /\ s.read # {"lexical", "vector"} THEN {} ELSE Candidates(s.lexical, s.vector)
Before(s, u) ==
  {v \in Found(s) : Ahead(s.lexical, s.vector, IF s.active \in s.spaces THEN s.active ELSE NoOne, v, u)}
Kept(s) ==
  {u \in Found(s) : Cardinality({v \in Before(s, u) : About[v].source = About[u].source}) < s.perSource}

BestHits(s) == ToSet(s.hits) = {u \in Kept(s) : Cardinality(Before(s, u) \cap Kept(s)) < MaxHits}

BestPackage(s) ==
  /\ s.hits # <<>> => s.package # <<>>
  /\ Chars(s.package) <= MaxChars /\ TokensOf(s.package) <= MaxTokens
  /\ \A i, j \in 1 .. Len(s.package) : i # j =>
       About[s.package[i].unit].source # About[s.package[j].unit].source
  /\ \A x \in ToSet(s.package), u \in ToSet(s.hits) :
       About[u].source = About[x.unit].source => About[u].version <= About[x.unit].version

\* The hits are exactly the candidates that, by score, are among the first
\* perSource of their source and of those among the first MaxHits; a package made
\* of hits is never empty, keeps both budgets and shows each source once, by its
\* newest revision.
AnswerIsBest ==
  \A q \in Callers :
    /\ search[q].pc \in {"answered", "assembled"} => BestHits(search[q])
    /\ search[q].pc = "assembled" => BestPackage(search[q])
=============================================================================
