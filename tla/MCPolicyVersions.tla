--------------------------- MODULE MCPolicyVersions ---------------------------
(* Rules that match one item in every way the precedence tells apart.       *)
EXTENDS PolicyVersions

CONSTANTS s1, k1, y1, g1, m1, m2

Blank == [store |-> Null, sku |-> Null, style |-> Null, category |-> Null,
          size |-> Null, priority |-> 0]
AnySize == [Blank EXCEPT !.sku = k1]
OneSize == [Blank EXCEPT !.sku = k1, !.size = m1]
StyleInStore == [Blank EXCEPT !.style = y1, !.store = s1]
CategoryInStore == [Blank EXCEPT !.category = g1, !.store = s1]
Preferred == [Blank EXCEPT !.priority = 1]

\* Two policies that carry the first two overlap in the size, two that carry the
\* first or the second twice overlap in everything; validation refuses the last.
Lists == {{AnySize, StyleInStore, Blank}, {OneSize, CategoryInStore, Preferred},
          {AnySize, OneSize}}

Ranks == {0, 1}

=============================================================================
