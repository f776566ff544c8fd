---------------------------- MODULE LinkedLists -----------------------------
(***************************************************************************)
(* The doubly linked lists of rtservice.h: a list is the sequence of its   *)
(* nodes, from the one after the list head on, and a node is identified    *)
(* with the thread or the timer it is embedded in.                         *)
(***************************************************************************)
EXTENDS Naturals, Sequences, SequencesExt, FiniteSetsExt

\* The elements of a list.
Members(s) == {s[i] : i \in 1 .. Len(s)}

\* rt_list_remove of t's node: nothing happens to a list t is not on.
Without(s, t) ==
    IF t \in Members(s) THEN RemoveAt(s, CHOOSE i \in 1 .. Len(s) : s[i] = t)
                        ELSE s

\* The first of the positions P of s, or the one after the last: where a
\* walk that stops at the elements of P inserts.
FirstOf(s, P) == IF P = {} THEN Len(s) + 1 ELSE Min(P)

\* No node is on the list twice.
NoDup(s) == \A i, j \in 1 .. Len(s) : s[i] = s[j] => i = j

\* The list is in the order of the numbers key gives to its nodes.
Ordered(s, key) ==
    \A i, j \in 1 .. Len(s) : i < j => key[s[i]] <= key[s[j]]
=============================================================================
