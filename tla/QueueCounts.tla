----------------------------- MODULE QueueCounts -----------------------------
(* Counting the jobs of a queue.                                           *)
EXTENDS Integers, Sequences, FiniteSets

(* How many elements of q are in S.                                        *)
CountIn(q, S) == Cardinality({i \in DOMAIN q : q[i] \in S})
=============================================================================
