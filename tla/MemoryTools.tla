----------------------------- MODULE MemoryTools -----------------------------
(***************************************************************************)
(* Findings and memories (harness/src/tools/persist.ts) as pure functions   *)
(* of the tables and of a scenario.                                         *)
(*                                                                          *)
(*   text     a sequence of words, in lower case                            *)
(*   kv       agent_memory: <<agent, key>> -> [content, at]                  *)
(*   entries  memory_entries: <<[scope, of, status, title, summary,          *)
(*            confidence, at]>>, confidence in percent                       *)
(*   scenario [agents, pii] as in SqlGovernance; a finding is                *)
(*            [session, agent, at]                                           *)
(***************************************************************************)
EXTENDS Integers, Sequences, FiniteSets, SequencesExt, TLC

CONSTANTS
    Null,
    RecallLimit     \* LIMIT 20

\* filterPiiFromFinding
Redact(scenario, text) ==
    LET pii == UNION {scenario.pii[t] : t \in DOMAIN scenario.pii}
    IN [i \in DOMAIN text |-> IF text[i] \in pii THEN "[REDACTED]" ELSE text[i]]

\* read_findings: those of a session, of one agent or of all, the earliest first.
ReadFindings(findings, session, agent) ==
    SortSeq(SelectSeq(findings, LAMBDA f : f.session = session /\ agent \in {Null, f.agent}),
            LAMBDA a, b : a.at < b.at)

\* save_memory: the candidate is not written when its INSERT fails, and that is not
\* reported.  The key is kept as given.
SaveMemory(scenario, store, agent, key, content, at, inserted) ==
    LET safe == Redact(scenario, content)
        entry == [scope |-> "agent", of |-> agent, status |-> "candidate", title |-> <<key>>,
                  summary |-> safe, confidence |-> 50, at |-> at]
    IN [kv |-> <<agent, key>> :> [content |-> safe, at |-> at] @@ store.kv,
        entries |-> IF inserted THEN Append(store.entries, entry) ELSE store.entries]

\* The scope conditions of recall_memory.
ScopeConditions(scenario, agent, scope) ==
    LET bundle == scenario.agents[agent].bundle
    IN {c \in {<<"agent", agent>>, <<"bundle", bundle>>, <<"global", Null>>} :
           /\ scope \in {c[1], "all"}
           /\ c[1] = "bundle" => bundle # Null}

\* No condition at all lets every scope through.
InScope(entry, conditions) ==
    conditions = {} \/ <<entry.scope, IF entry.scope = "global" THEN Null ELSE entry.of>> \in conditions

Matches(entry, key) ==
    key = Null \/ key \in ToSet(entry.title) \cup ToSet(entry.summary)

RecallMemory(scenario, store, agent, key, scope) ==
    LET conditions == ScopeConditions(scenario, agent, scope)
        found == SelectSeq(store.entries,
                           LAMBDA e : /\ e.status \in {"candidate", "active"}
                                      /\ InScope(e, conditions) /\ Matches(e, key))
        sorted == SortSeq(found, LAMBDA a, b : \/ a.confidence > b.confidence
                                               \/ a.confidence = b.confidence /\ a.at > b.at)
    IN [legacy |-> {m \in DOMAIN store.kv : m[1] = agent /\ key \in {Null, m[2]}},
        structured |-> SubSeq(sorted, 1, IF Len(sorted) < RecallLimit THEN Len(sorted)
                                         ELSE RecallLimit)]

-----------------------------------------------------------------------------
(***************************************************************************)
(* Facts                                                                    *)
(***************************************************************************)

\* The findings of a session come in the order of their time, none left out.
FindingsAreInOrder(findings, session, agent) ==
    LET read == ReadFindings(findings, session, agent)
    IN /\ \A i, j \in DOMAIN read : i < j => read[i].at <= read[j].at
       /\ ToSet(read) = {f \in ToSet(findings) : f.session = session /\ agent \in {Null, f.agent}}
       /\ Len(read) = Cardinality({i \in DOMAIN findings : findings[i] \in ToSet(read)})

\* What is saved is recalled by its key, newest content only, without a PII word in it
\* and without touching what others saved; as an entry it stays beside its earlier
\* ones, and is among those recalled unless more confident or later ones fill the page.
SavedIsRecalled(scenario, store, agent, key, content, at, inserted) ==
    LET after == SaveMemory(scenario, store, agent, key, content, at, inserted)
        recalled == RecallMemory(scenario, after, agent, key, "agent")
    IN /\ recalled.legacy = {<<agent, key>>}
       /\ after.kv[agent, key].at = at
       /\ \A t \in DOMAIN scenario.pii :
             scenario.pii[t] \cap ToSet(after.kv[agent, key].content) = {}
       /\ \A m \in DOMAIN store.kv \ {<<agent, key>>} : after.kv[m] = store.kv[m]
       /\ IsPrefix(store.entries, after.entries)
       /\ inserted =>
             \/ Last(after.entries) \in ToSet(recalled.structured)
             \/ /\ Len(recalled.structured) = RecallLimit
                /\ \A e \in ToSet(recalled.structured) :
                      e.confidence > 50 \/ (e.confidence = 50 /\ e.at >= at)

\* An agent recalls its own entries, its bundle's and the global ones, as it asked, and
\* none that is retired; one that has no bundle and asks for its bundle's gets entries
\* of every scope.
RecallKeepsScope(scenario, store, agent, key, scope) ==
    LET recalled == RecallMemory(scenario, store, agent, key, scope).structured
        bundle == scenario.agents[agent].bundle
        Of(e) == \/ e.scope = "agent" /\ e.of = agent
                 \/ e.scope = "bundle" /\ bundle # Null /\ e.of = bundle
                 \/ e.scope = "global"
    IN /\ \A e \in ToSet(recalled) :
             /\ e.status \in {"candidate", "active"}
             /\ (Of(e) /\ scope \in {e.scope, "all"}) \/ (scope = "bundle" /\ bundle = Null)
       /\ \A i, j \in DOMAIN recalled : i < j => recalled[i].confidence >= recalled[j].confidence
=============================================================================
