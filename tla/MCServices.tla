----------------------------- MODULE MCServices -----------------------------
(* The application services behind the management API and the command line, *)
(* for TLC: spaces and their members, API keys, search, runtime settings,    *)
(* quotas, idempotent commands, the actions an assistant proposes, the git   *)
(* connector, the backfill of the legacy tables and embedding generations.   *)
(* Search is on top of spaces and keys; the others meet in rows that are     *)
(* data to each of them, so a behaviour is one of a part.                    *)
EXTENDS Retrieval, RuntimeSettings, Quotas, IdempotentCommands, AIActions,
        GitConnector, LegacyBackfill, EmbeddingGenerations, TLC

CONSTANTS s1, s2    \* two of the Spaces

VARIABLE part

requestVars == <<settingsVars, quotaVars, commandVars, actionVars>>
corpusVars == <<gitVars, backfillVars, generationVars>>

\* Two revisions of a source in one space and a superseded one in the other,
\* with the text of the first; no two of them fit the budgets whole.
ThreeUnits ==
  << [space |-> s1, source |-> "x", version |-> 1, text |-> "t", chars |-> 12, superseded |-> FALSE],
     [space |-> s1, source |-> "x", version |-> 2, text |-> "v", chars |-> 4, superseded |-> FALSE],
     [space |-> s2, source |-> "y", version |-> 1, text |-> "t", chars |-> 8, superseded |-> TRUE] >>
VectorFirst == [lexical |-> 1, vector |-> 2]

\* Two units of one source, another in between.
TwoSources == [u \in UnitIds |-> IF u = 2 THEN "b" ELSE "a"]

\* A member with a session and an API key.
OneMember == {[member |-> "m", kind |-> "session", cred |-> "s"],
              [member |-> "m", kind |-> "api_key", cred |-> "k"]}

Parts == {"spaces", "keys", "search", "settings", "quotas", "commands", "actions",
          "git", "backfill", "generations", "reembed"}

ServicesInit ==
  /\ RetrievalInit /\ SettingsInit /\ QuotaInit /\ CommandInit /\ ActionsInit
  /\ GitInit /\ BackfillInit /\ GenerationsInit
  /\ part \in Parts
  /\ space[s1] = "open"                    \* s1 is the shared space
  /\ part # "commands" => outside
  /\ \A p \in Paths : history[1][p] \in IF part = "git" THEN {Nothing, 1} ELSE {Nothing}
  /\ part # "backfill" => name = "legacy_documents" /\ Stored = {}

AllIdle == \A q \in Callers : call[q] = Idle
OnlyCaller(q) == \A c \in Callers \ {q} : call[c] = Idle

\* Two requests on spaces overlap, by any of the users.
OnSpaces == \/ \E q \in Callers : SpaceStep(q) \/ \E u \in Users : ResolveSession(q, u)
            \/ \E u \in Users : SetStatus(u) \/ Provision(u)

\* The member that is no administrator delegates, one request at a time.
OnKeys == \/ \E q \in Callers : \/ Finish(q)
                                \/ OnlyCaller(q) /\ KeyStep(q)
                                \/ \E s \in Spaces : create_space(q, s)
          \/ \E q \in Callers, u \in Users \ Admins : AllIdle /\ ResolveSession(q, u)
          \/ \E k \in Keys : ExpireKey(k)
          \/ \E u \in Users \ Admins : SetStatus(u) \/ Provision(u)

\* One request of the member, with its session or a key for one space; the world
\* moves until both branches have been read.
Arrive(q) == \/ \E u \in Users \ Admins : ResolveSession(q, u)
             \/ \E k \in Keys : ResolveKey(q, k)
             \/ \E s \in Spaces : create_space(q, s)
             \/ \E k \in Keys, scopes \in ScopeChoices :
                  (\A l \in Keys : key[l] = NoKey) /\ create_api_key(q, k, scopes, {s2}, NoOne)

Unread(q) == search[q].pc \in {"none", "scoped", "reading"} /\ search[q].read # {"lexical", "vector"}
Moved == indexed # [u \in Units |-> 1] \/ live # [u \in Units |-> TRUE] \/ current # 1

OnSearch ==
  \E q \in Callers : OnlyCaller(q) /\
    \/ search[q] = NoSearch /\ Elsewhere(Arrive(q))
    \/ SearchOn(q)
    \/ \E asked \in {Spaces, {s1}}, active \in {NoOne, s2},
          vectors \in {"prefer", "required", "disabled"}, n \in Diversity :
            BeginSearch(q, asked, active, vectors, n)
    \/ Unread(q) /\ \E u \in Users \ Admins : Elsewhere(Provision(u))
    \/ Unread(q) /\ ~Moved /\ (SourceGone(1) \/ UnitReplaced(1) \/ GenerationPromoted)

\* The proposals are alike, so one of them is made first.
InOrder == LET a == CHOOSE x \in Proposals : TRUE
           IN action'[a] = Unproposed => \A b \in Proposals : action'[b] = Unproposed

\* One file of the repository is edited, the other comes and goes.
TwoFiles == \A i \in DOMAIN history' : history'[i]["q"] # 2

\* While the units are embedded again, operators act one at a time.
Solo(o) == \A p \in Operators \ {o} : change[p] = Quiet

OnAccess == (part = "spaces" /\ OnSpaces) \/ (part = "keys" /\ OnKeys)

OnGenerations ==
  \/ part = "generations" /\ (ShadowStep \/ \E o \in Operators : ChangeStep(o))
  \/ part = "reembed" /\ (ReembedStep \/ \E o \in Operators : Solo(o) /\ ChangeStep(o))

Requests ==
  \/ part = "settings" /\ SettingsNext /\ UNCHANGED <<quotaVars, commandVars, actionVars>>
  \/ part = "quotas" /\ QuotaNext /\ UNCHANGED <<settingsVars, commandVars, actionVars>>
  \/ part = "commands" /\ CommandNext /\ UNCHANGED <<settingsVars, quotaVars, actionVars>>
  \/ part = "actions" /\ ActionsNext /\ InOrder /\ UNCHANGED <<settingsVars, quotaVars, commandVars>>

Corpus ==
  \/ part = "git" /\ GitNext /\ TwoFiles /\ UNCHANGED <<backfillVars, generationVars>>
  \/ part = "backfill" /\ BackfillNext /\ UNCHANGED <<gitVars, generationVars>>
  \/ OnGenerations /\ UNCHANGED <<gitVars, backfillVars>>

ServicesNext ==
  /\ UNCHANGED part
  /\ \/ OnAccess /\ UNCHANGED <<searchVars, requestVars, corpusVars>>
     \/ part = "search" /\ OnSearch /\ UNCHANGED <<requestVars, corpusVars>>
     \/ Requests /\ UNCHANGED <<accessVars, searchVars, corpusVars>>
     \/ Corpus /\ UNCHANGED <<accessVars, searchVars, requestVars>>

ServicesSymmetry == Permutations(Keys) \cup Permutations(Callers)
=============================================================================
