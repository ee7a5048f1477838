----------------------------- MODULE HearingPlan -----------------------------
(***************************************************************************)
(* IssueDependencyGraphGenerator and HearingOrderGenerator: the order in   *)
(* which the hearing takes the issues.  No LLM.                            *)
(***************************************************************************)
EXTENDS AnalysisInput

\* Kahn's algorithm, step by step: an issue joins the queue when the last of those
\* it depends on has left it.
KahnStart == [queue |-> Ascending({i \in Issues : DependsOn[i] = {}}), done |-> <<>>]

KahnStep(nodes, s) ==
    LET x == Head(s.queue)
        done == Append(s.done, x)
        ready == {n \in DOMAIN nodes : /\ x \in DependsOn[nodes[n]]
                                       /\ DependsOn[nodes[n]] \subseteq Range(done)}
    IN  IF s.queue = <<>> THEN s
        ELSE [queue |-> Tail(s.queue) \o At(nodes, ready), done |-> done]

Kahn(nodes) ==
    LET state[n \in 0..Len(nodes)] ==
            IF n = 0 THEN KahnStart ELSE KahnStep(nodes, state[n - 1])
    IN  state[Len(nodes)].done

\* Mutant: no order of the queue.
TopologicalOrder_AsGiven(nodes) ==
    At(nodes, {n \in DOMAIN nodes : nodes[n] \in Range(Kahn(nodes))})

TopologicalOrder(nodes) == Kahn(nodes)

\* The issues on the cycles that _extract_cycles reports.  Each issue that is left
\* over depends on another one, so the search goes on to the first of those until
\* it meets an issue again, and never turns back.
InCycle(left) ==
    LET next[i \in left] == Min(DependsOn[i] \cap left)
        after[n \in Nat] == IF n = 0 THEN [i \in left |-> i]
                            ELSE [i \in left |-> next[after[n - 1][i]]]
    IN  {i \in left : \E n \in 1..NIssues : after[n][i] = i}

\* Mutant: only the sorted issues and those on a cycle are heard.
FullOrder_NoOrphans(nodes) ==
    LET sorted == TopologicalOrder(nodes)
    IN  sorted \o Ascending(InCycle(Issues \ Range(sorted)))

\* The sorted issues, those on a cycle, and the others that wait for a cycle, as
\* they were given.
FullOrder(nodes) ==
    LET sorted == TopologicalOrder(nodes)
        cycle == Ascending(InCycle(Issues \ Range(sorted)))
    IN  sorted \o cycle
        \o At(nodes, {n \in DOMAIN nodes : nodes[n] \notin Range(sorted) \cup Range(cycle)})

\* Phase by phase; the command line gives no party_positions.
PhaseNumber(i) == CHOOSE p \in DOMAIN Phases : Phases[p] = PhaseOf[i]

HearingOrder(nodes) ==
    LET full == FullOrder(nodes)
    IN  StableSort(full, [n \in DOMAIN full |-> PhaseNumber(full[n])])

\* _estimate_duration
Minutes(impact) == CASE impact = "high" -> 30 [] impact = "medium" -> 20
                     [] impact = "low" -> 10 [] OTHER -> 15
=============================================================================
