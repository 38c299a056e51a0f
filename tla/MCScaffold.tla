----------------------------- MODULE MCScaffold -----------------------------
(***************************************************************************)
(* Instances of ScaffoldRollout for TLC: two runs that overlap in one      *)
(* repository, and runs one after the other over two repositories.         *)
(***************************************************************************)
EXTENDS ScaffoldRollout

OneRepo == {"orders"}
JustOrders == <<"orders">>
AnyStart == [OneRepo -> {"empty", "bare", "scaffolded"}]

TwoRepos == {"payments", "orders"}
OneOfEach == {[orders |-> "scaffolded", payments |-> "bare"]}
InOrder == <<"orders", "payments">>

TwoFiles == {"manifest", "slo"}

\* The second push changes the SLO; the third, in its last commit, changes
\* the manifest and removes the SLO.
ThreePushes ==
    << [content |-> [manifest |-> 1, slo |-> 1], changed |-> TwoFiles],
       [content |-> [manifest |-> 1, slo |-> 2], changed |-> {"slo"}],
       [content |-> [manifest |-> 3, slo |-> 0], changed |-> TwoFiles] >>

TwoPushes == SubSeq(ThreePushes, 1, 2)

\* BuildId 12 and BuildId 120.
SecondContinued == {<<2, 3>>}
NoneContinued == {}

Either == BOOLEAN

Places == Permutations(Runs)

=============================================================================
