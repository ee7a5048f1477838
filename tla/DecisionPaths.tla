---------------------------- MODULE DecisionPaths ----------------------------
(***************************************************************************)
(* DecisionPathTreeGenerator and AttackChainOptimizer: what the rules keep *)
(* of the paths and of the attacks that the LLM returns.  Each engine has  *)
(* one LLM call and returns an empty result marked "failed" when the call  *)
(* or the parsing fails.                                                   *)
(***************************************************************************)
EXTENDS AnalysisInput

CONSTANTS
    MaxPaths,       \* _MAX_PATHS
    MaxAttacks,     \* _MAX_ATTACKS
    PathItems,      \* the paths that the LLM may return, ...
    AttackItems,    \* ... the attacks, ...
    ConditionItems  \* ... and the blocking conditions that come with the paths

\* mentions: the issues that a path's texts mention by title; fallback: the id of
\* the path to fall back to, or 0.
PathItem ==
    [id : Nat \ {0}, issues : SUBSET (Issues \cup MadeUp), mentions : SUBSET Issues,
     key : SUBSET (Evidence \cup MadeUp), counter : SUBSET (Evidence \cup MadeUp),
     gate : SUBSET (Evidence \cup MadeUp), fallback : Nat,
     favours : {"plaintiff", "defendant", "neutral"}, whole : BOOLEAN]

AttackItem ==
    [id : Nat \ {0}, issue : Issues \cup MadeUp, evidence : SUBSET (Evidence \cup MadeUp),
     whole : BOOLEAN]

\* automatic: the number of the amount conflict whose condition would have the
\* same id, or 0; proper: it has an id, a description and a type of the enum.
ConditionItem ==
    [automatic : Nat, issues : SUBSET (Issues \cup MadeUp),
     evidence : SUBSET (Evidence \cup MadeUp), proper : BOOLEAN]

ASSUME PathsAssumption ==
    /\ ConditionItems \in Seq(ConditionItem)
    /\ MaxPaths \in Nat \ {0} /\ MaxAttacks \in Nat \ {0}
    /\ PathItems \subseteq PathItem /\ AttackItems \subseteq AttackItem

\* The trigger_issue_ids: the known ones that the LLM names, or else those that
\* the texts mention.
Trigger(p) == IF p.issues \cap Issues # {} THEN p.issues \cap Issues ELSE p.mentions

\* _derive_evidence_ids_from_issues
Derived(issues) ==
    LET listed == UNION {EvidenceFor[i] : i \in issues}
    IN  IF listed # {} THEN listed ELSE {e \in Evidence : Targets[e] \cap issues # {}}

\* Mutant: what is derived from the issues is not filtered again.
Key_Unfiltered(p) ==
    IF p.key \cap Admitted # {} THEN p.key \cap Admitted ELSE Derived(Trigger(p))

\* The key_evidence_ids: admitted evidence only, derived from the issues when the
\* LLM names none.
Key(p) ==
    IF p.key \cap Admitted # {} THEN p.key \cap Admitted
    ELSE Derived(Trigger(p)) \cap Admitted

\* The counter_evidence_ids, filtered before key evidence is derived.
Counter(p) == (p.counter \cap Admitted) \ p.key

\* The fallback_path_id is copied, whether or not there is such a path.
Path(p) == [id |-> p.id, issues |-> Trigger(p), key |-> Key(p), counter |-> Counter(p),
            gate |-> p.gate \cap Admitted, fallback |-> p.fallback, favours |-> p.favours]

DecisionPath ==
    [id : Nat \ {0}, issues : SUBSET Issues, key : SUBSET Admitted, counter : SUBSET Admitted,
     gate : SUBSET Admitted, fallback : Nat, favours : {"plaintiff", "defendant", "neutral"}]

\* _process_paths
Paths(items) ==
    LET first == FirstOf(items, MaxPaths)
        kept == At(first, {n \in DOMAIN first : first[n].whole})
    IN  [n \in DOMAIN kept |-> Path(kept[n])]

\* _compute_path_ranking: by party, then by the number of key evidence, then by id.
PartyOrder(p) == CASE p.favours = "plaintiff" -> 0 [] p.favours = "defendant" -> 1 [] OTHER -> 2

PathRanking(paths) ==
    StableSort(paths,
        [n \in DOMAIN paths |->
            10000 * PartyOrder(paths[n]) - 100 * Cardinality(paths[n].key) + paths[n].id])

NoPath == 0

MostLikely(paths) == IF paths = <<>> THEN NoPath ELSE PathRanking(paths)[1].id

\* plaintiff_best_path, defendant_best_path
BestPath(paths, party) ==
    LET ranking == PathRanking(paths)
        own == {n \in DOMAIN ranking : ranking[n].favours = party}
    IN  IF own = {} THEN NoPath ELSE ranking[Min(own)].id

BlockingCondition ==
    [automatic : Nat, issues : SUBSET Issues, evidence : SUBSET Admitted]

\* _process_blocking_conditions: those of the LLM, then one for each conflict of
\* the amount report whose automatic id is not among theirs.
ProcessedConditions(items, conflicts) ==
    LET kept == At(items, {n \in DOMAIN items : items[n].proper})
        taken == {kept[n].automatic : n \in DOMAIN kept}
        open == Ascending(DOMAIN conflicts \ taken)
    IN  [n \in DOMAIN kept |->
            [automatic |-> kept[n].automatic, issues |-> kept[n].issues \cap Issues,
             evidence |-> kept[n].evidence \cap Admitted]]
        \o [n \in DOMAIN open |-> [automatic |-> open[n], issues |-> {}, evidence |-> {}]]

\* When the call or the parsing fails, there are no blocking conditions either.
EmptyTree == [failed |-> TRUE, paths |-> <<>>, likely |-> NoPath, blocking |-> <<>>,
              best |-> [plaintiff |-> NoPath, defendant |-> NoPath]]

Tree(items, conflicts) ==
    LET paths == Paths(items)
    IN  [failed |-> FALSE, paths |-> paths, likely |-> MostLikely(paths),
         blocking |-> ProcessedConditions(ConditionItems, conflicts),
         best |-> [plaintiff |-> BestPath(paths, "plaintiff"),
                   defendant |-> BestPath(paths, "defendant")]]

IsDecisionPathTree(t) ==
    LET ids == {t.paths[n].id : n \in DOMAIN t.paths}
    IN  /\ t.paths \in Seq(DecisionPath)
        /\ t.blocking \in Seq(BlockingCondition)
        /\ {t.likely, t.best.plaintiff, t.best.defendant} \subseteq ids \cup {NoPath}

\* The party of the most likely path, as the later engines look it up: that of the
\* first path with its id.
Winner(tree) ==
    LET same == {n \in DOMAIN tree.paths : tree.paths[n].id = tree.likely}
    IN  IF same = {} THEN "uncertain" ELSE tree.paths[Min(same)].favours

----------------------------------------------------------------------------
(* The attack chain *)

EmptyChain == [failed |-> TRUE, attacks |-> <<>>]

AttackNode == [id : Nat \ {0}, issue : Issues, evidence : (SUBSET Evidence) \ {{}}]

IsAttackChain(c) ==
    /\ Len(c.attacks) <= MaxAttacks
    /\ \A n \in DOMAIN c.attacks :
          [id |-> c.attacks[n].id, issue |-> c.attacks[n].issue,
           evidence |-> c.attacks[n].evidence] \in AttackNode
    /\ \A m, n \in DOMAIN c.attacks : c.attacks[m].id = c.attacks[n].id => m = n

Attack(item) == [item EXCEPT !.evidence = @ \cap Evidence]

\* _process_attack_nodes: the first three whole attacks on known issues that keep
\* some evidence, one for each id.
Attacks(items) ==
    LET sound == {n \in DOMAIN items : /\ items[n].whole /\ items[n].issue \in Issues
                                       /\ Attack(items[n]).evidence # {}}
        kept == FirstOf(At(items, {n \in sound : \A m \in sound :
                                      m < n => items[m].id # items[n].id}), MaxAttacks)
    IN  [n \in DOMAIN kept |-> Attack(kept[n])]

Chain(items) == [failed |-> FALSE, attacks |-> Attacks(items)]
=============================================================================
