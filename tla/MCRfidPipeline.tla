--------------------------- MODULE MCRfidPipeline ---------------------------
(***************************************************************************)
(* Small instances of RfidPipeline. Reads a1 to a4 are of one item, d1 is  *)
(* of another; the item is read in zone z1 and, last of all, in z2.        *)
(***************************************************************************)
EXTENDS RfidPipeline, TLC

CONSTANTS a1, a2, a3, a4, d1, itemA, itemD, z1, z2

\* Every request of at most two different events.
AllRequests == {es \in [1..1 -> Event] \cup [1..2 -> Event] :
                    \A i, j \in DOMAIN es : es[i] = es[j] => i = j}

\* A batch of both reads, and one that delivers the newer of them again.
RetriedRequests == {<<a1, a3>>, <<a3>>}

\* Two older reads in one zone and a newer one in the other, with the read of the
\* second item, which evicts the window of the first from a memory of one EPC.
WholeRequests == {<<a2, d1, a4, a3>>, <<a3, d1, a2, a4>>}

\* Filter is SelectSeq.
ASSUME FilterSelects ==
    \A n \in 0..3 : \A s \in [1..n -> Event], S \in SUBSET Event :
        Filter(s, S) = SelectSeq(s, LAMBDA x : x \in S)

Symmetry == Permutations(Batch)

MCEpcOf == [e \in Event |-> IF e = d1 THEN itemD ELSE itemA]

MCZoneOf == [e \in Event |-> IF e \in {a1, a2, a4} THEN z1 ELSE z2]

MCObservedAt == [e \in Event |-> CASE e = a1 -> 1
                                   [] e \in {a2, a4} -> 2
                                   [] OTHER -> 3]

=============================================================================
