------------------------------- MODULE MCKernel -------------------------------
(***************************************************************************)
(* Small plans for TLC.                                                     *)
(***************************************************************************)
EXTENDS KernelProperties

\* Item 2 builds on item 1.
MCChain == [i \in 1..NumItems |-> 1..(i - 1)]

\* Nothing depends on anything, so that items can be run out of order.
MCNoPrerequisites == [i \in 1..NumItems |-> {}]

First == [items |-> <<1>>, list |-> FALSE]

\* The first item, one out of order, and both by name.
MCRequests == {First, [items |-> <<2>>, list |-> FALSE],
               [items |-> <<1, 2>>, list |-> TRUE]}

MCFirstOnly == {First}
=============================================================================
