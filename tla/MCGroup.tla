------------------------------ MODULE MCGroup ------------------------------
EXTENDS GroupMembership

MCKinds == {<<"Eager", FALSE>>, <<"Eager", TRUE>>, <<"Cooperative", FALSE>>,
            <<"Consumer", FALSE>>}

\* A cooperative move takes two rebalances after the first join.
MCMaxGenerations == [Eager |-> 3, Cooperative |-> 3, Consumer |-> 2]
=============================================================================
