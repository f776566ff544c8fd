------------------------------- MODULE Links --------------------------------
(* Singly linked lists in memory. *)
EXTENDS Naturals, Sequences, FiniteSetsExt

\* The nodes from c on along next, a function on the nodes, if there are at
\* most max of them.  The list ends with an address that is no node; a cycle
\* shows as a chain of max + 1 nodes.
Chain(next, c, max) ==
    LET node[i \in 0 .. max] ==
            IF i = 0 THEN c
            ELSE IF node[i - 1] \in DOMAIN next THEN next[node[i - 1]]
            ELSE node[i - 1]
        ends == {i \in 0 .. max : node[i] \notin DOMAIN next}
    IN  [i \in 1 .. (IF ends = {} THEN max + 1 ELSE Min(ends)) |-> node[i - 1]]
=============================================================================
