----------------------------- MODULE ScenarioTree -----------------------------
(***************************************************************************)
(* scenario_tree.py: the decision paths as a tree of questions.  A node is *)
(* a question; each of its two answers leads to another question, by its   *)
(* number, or to an outcome.                                               *)
(***************************************************************************)
EXTENDS ReportInput

Outcome(what) == <<"outcome", what>>
Question(n) == <<"question", n>>

\* A call of _build_binary_subtree: for paths[from..upto], of which the first node has
\* the number first.  The middle path asks, what is before it follows a yes and what is
\* after it a no; the numbers are given in preorder, before the nodes are made.
Stretch(from, upto, first) == [from |-> from, upto |-> upto, first |-> first]
Some(stretch) == stretch.from <= stretch.upto
Middle(stretch) == stretch.from + (stretch.upto - stretch.from + 1) \div 2
Before(stretch) == Stretch(stretch.from, Middle(stretch) - 1, stretch.first + 1)
After(stretch) == Stretch(Middle(stretch) + 1, stretch.upto, stretch.first + 1 + Middle(stretch) - stretch.from)

\* The calls that are through and those that they have led to.
Split(s) ==
    [done |-> s.done \cup s.open,
     open |-> {half \in UNION {{Before(p), After(p)} : p \in s.open} : Some(half)}]

Stretches(paths, first) ==
    LET whole == Stretch(1, Len(paths), first)
        state[n \in 0..Len(paths)] ==
            IF n = 0 THEN [done |-> {}, open |-> {p \in {whole} : Some(p)}]
            ELSE Split(state[n - 1])
    IN  state[Len(paths)].done

PathNode(stretch, paths) ==
    LET pivot == paths[Middle(stretch)]
    IN  [about |-> <<"path", pivot.id>>,
         yes |-> IF Some(Before(stretch)) THEN Question(Before(stretch).first)
                 ELSE Outcome(pivot.favours),
         no |-> IF Some(After(stretch)) THEN Question(After(stretch).first) ELSE Outcome("uncertain")]

\* Mutant: the last blocking condition does not lead to the paths.
Blocking_Ends(tree, n) ==
    [about |-> <<"blocking", n>>, yes |-> Outcome("blocked"),
     no |-> IF n < Len(tree.blocking) THEN Question(n + 1) ELSE Outcome("nothing more")]

\* The blocking conditions come first, each after a no to the one before.
Blocking(tree, n) ==
    [about |-> <<"blocking", n>>, yes |-> Outcome("blocked"),
     no |-> IF n < Len(tree.blocking) \/ tree.paths # <<>> THEN Question(n + 1)
            ELSE Outcome("nothing more")]

\* build_scenario_tree_from_decision_paths; the root is 1, and no nodes is no tree.
Scenario(tree) ==
    LET blocked == Len(tree.blocking)
        all == Stretches(tree.paths, blocked + 1)
    IN  [n \in (1..blocked) \cup {s.first : s \in all} |->
            IF n <= blocked THEN Blocking(tree, n)
            ELSE PathNode(CHOOSE s \in all : s.first = n, tree.paths)]

\* The questions that the answers to n lead to.
Following(scenario, n) ==
    {m \in DOMAIN scenario : Question(m) \in {scenario[n].yes, scenario[n].no}}

\* _collect_contingencies: the questions with an outcome, in preorder, to a depth.
Contingencies(scenario) ==
    LET at[depth \in 0..4] ==
            IF depth = 0 THEN {1} ELSE UNION {Following(scenario, n) : n \in at[depth - 1]}
    IN  Ascending({n \in UNION {at[depth] : depth \in 0..4} :
                      "outcome" \in {scenario[n].yes[1], scenario[n].no[1]}})
=============================================================================
