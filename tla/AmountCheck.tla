----------------------------- MODULE AmountCheck -----------------------------
(***************************************************************************)
(* AmountCalculator: the claims against the loans and repayments, without  *)
(* an LLM.  The command line gives neither a contract_validity nor a       *)
(* resolved dispute: the contract is valid and every dispute unresolved.   *)
(***************************************************************************)
EXTENDS Integers, Sequences, FiniteSets

CONSTANT Financials     \* what the YAML file may hold

LoanTransaction == [amount : Nat \ {0}, principal : BOOLEAN]

\* to: attributed_to; "none" if the entry has not been attributed.
RepaymentTransaction ==
    [amount : Nat \ {0}, to : {"principal", "interest", "penalty", "none"}]

ClaimType == {"principal", "interest", "penalty", "attorney_fee", "other"}

\* AmountCalculatorInput; disputed counts the disputed attributions.
FinancialInput ==
    [loans : Seq(LoanTransaction), repayments : Seq(RepaymentTransaction),
     disputed : Nat, claims : Seq([type : ClaimType, amount : Nat])]

\* _build_financials returns None without loans or without claims.
ASSUME AmountAssumption ==
    \A f \in Financials : f \in FinancialInput /\ f.loans # <<>> /\ f.claims # <<>>

NoReport == [table |-> <<>>, conflicts |-> <<>>, check |-> <<>>]

SumOf(s) ==
    LET total[n \in 0..Len(s)] == IF n = 0 THEN 0 ELSE total[n - 1] + s[n]
    IN  total[Len(s)]

Claimed(f) == SumOf([n \in DOMAIN f.claims |-> f.claims[n].amount])

\* _sum_principal_loans and _sum_principal_repayments
Loaned(f) ==
    SumOf([n \in DOMAIN f.loans |-> IF f.loans[n].principal THEN f.loans[n].amount ELSE 0])

Repaid(f) ==
    SumOf([n \in DOMAIN f.repayments |->
              IF f.repayments[n].to = "principal" THEN f.repayments[n].amount ELSE 0])

\* _compute_principal_amount: nothing keeps it from being negative.
Principal(f) == Loaned(f) - Repaid(f)

\* The entry of a claim; only those of the principal can be calculated.
Entry(f, claim) ==
    [type |-> claim.type, claimed |-> claim.amount,
     known |-> claim.type = "principal",
     calculated |-> IF claim.type = "principal" THEN Principal(f) ELSE 0]

Delta(entry) == entry.claimed - entry.calculated

\* _check_claim_delivery_ratio, with false_litigation_ratio = 2.
DeliveryRatioNormal(f) == IF Loaned(f) = 0 THEN Claimed(f) = 0 ELSE Claimed(f) <= 2 * Loaned(f)

\* _check_text_table_consistent, which is also claim_total_reconstructable.
TextTableConsistent(table) == \A n \in DOMAIN table : table[n].known => Delta(table[n]) = 0

\* _check_duplicate_interest_penalty
DuplicateClaim(f) ==
    \E m, n \in DOMAIN f.claims :
        m < n /\ f.claims[m].type = f.claims[n].type /\ f.claims[m].type \in {"interest", "penalty"}

AllAttributed(f) == \A n \in DOMAIN f.repayments : f.repayments[n].to # "none"

\* The conflicts in the order of their numbers: conflict-001, conflict-002, ...
Conflicts(f, table) ==
    LET wrong == {n \in DOMAIN table : table[n].known /\ Delta(table[n]) # 0}
    IN  [n \in 1..Cardinality(wrong) |-> "delta"]
        \o [n \in 1..f.disputed |-> "disputed"]
        \o IF DeliveryRatioNormal(f) THEN <<>> ELSE <<"ratio">>

\* AmountConsistencyCheck
Check(f, table) ==
    [baseUnique |-> f.disputed = 0, attributed |-> AllAttributed(f),
     consistent |-> TextTableConsistent(table), duplicate |-> DuplicateClaim(f),
     ratioNormal |-> DeliveryRatioNormal(f), blocked |-> Conflicts(f, table) # <<>>]

\* calculate; with a valid contract the interest is not calculated anew.
Report(f) ==
    LET table == [n \in DOMAIN f.claims |-> Entry(f, f.claims[n])]
    IN  [table |-> table, conflicts |-> Conflicts(f, table), check |-> Check(f, table)]
=============================================================================
