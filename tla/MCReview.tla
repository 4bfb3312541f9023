------------------------------- MODULE MCReview -------------------------------
EXTENDS Review

\* Mutation stages that raise two signals at most: the rules look at one signal
\* against another, and three say no more than the stronger two.
MCMutationReports == {m \in MutationReport : Cardinality(SignalsOf(m)) <= 2}

\* Stages that just go on, or that leave open items.
MCQuietReports == {m \in MutationReport : SignalsOf(m) \subseteq {"unresolved_items"}}
=============================================================================
