------------------------------- MODULE Ranking -------------------------------
(***************************************************************************)
(* The graph that pageSearch builds of the pages found and the pages that  *)
(* link to them, and what salsaRank makes of it: pages with more links in  *)
(* than out are authorities, all others hubs, and links within either side *)
(* are taken out of the lists of neighbours by swapping them to the end.   *)
(* The scores themselves are floating point and not modelled.              *)
(* (tlgs/server/controllers/search.cpp)                                    *)
(***************************************************************************)
EXTENDS Naturals, FiniteSets, Sequences

CONSTANTS Pages,     \* indices of the pages
          MaxEdges   \* bound: links added

ASSUME MaxEdgesAssumption == MaxEdges \in Nat

VARIABLES outs,   \* out_neighbous
          ins,    \* in_neighbous
          edges   \* links added so far

graph == <<outs, ins, edges>>

GraphInit ==
    /\ outs = [u \in Pages |-> <<>>]
    /\ ins = [u \in Pages |-> <<>>]
    /\ edges = 0

\* A link of a page to another in the table, from the links of a page or from
\* the rows of links; between two pages that were found it comes from both.
Link ==
    /\ edges < MaxEdges
    /\ \E u, v \in Pages :
          /\ u # v
          /\ outs' = [outs EXCEPT ![u] = Append(@, v)]
          /\ ins' = [ins EXCEPT ![v] = Append(@, u)]
    /\ edges' = edges + 1

GraphSpec == GraphInit /\ [][Link]_graph

-----------------------------------------------------------------------------
(* salsaRank *)

IsAuth(u) == Len(ins[u]) > Len(outs[u])

Swap(list, i, j) == [list EXCEPT ![i] = list[j], ![j] = list[i]]

\* Seeded fault: what is swapped in is not looked at.
TurnSkipping(loop, side) ==
    IF loop.at > loop.size THEN loop
    ELSE IF IsAuth(loop.list[loop.at]) <=> side
           THEN [list |-> Swap(loop.list, loop.at, loop.size), at |-> loop.at + 1, size |-> loop.size - 1]
           ELSE [loop EXCEPT !.at = @ + 1]

\* A turn of the loop over a list of neighbours, size of them being left: a page
\* of the same side goes to the end, and the one swapped in is looked at next.
Turn(loop, side) ==
    IF loop.at > loop.size THEN loop
    ELSE IF IsAuth(loop.list[loop.at]) <=> side
           THEN [list |-> Swap(loop.list, loop.at, loop.size), at |-> loop.at, size |-> loop.size - 1]
           ELSE [loop EXCEPT !.at = @ + 1]

\* The loop, which has a turn for each place of the list, and the resize after it.
Sweep(list, side) ==
    LET loop[n \in 0..Len(list)] ==
            IF n = 0 THEN [list |-> list, at |-> 1, size |-> Len(list)] ELSE Turn(loop[n - 1], side)
        end == loop[Len(list)]
    IN  SubSeq(end.list, 1, end.size)

Swept(lists) == [u \in Pages |-> Sweep(lists[u], IsAuth(u))]

-----------------------------------------------------------------------------
(* Properties *)

Times(list, v) == Cardinality({i \in DOMAIN list : list[i] = v})

\* The "biparte graph" of the comment: of the lists of neighbours just the links
\* between an authority and a hub are left, each as often as it was there, and
\* the links out of one page are still the links into the others.
SidesAreApart ==
    LET outsLeft == Swept(outs)
        insLeft == Swept(ins)
    IN  \A u, v \in Pages :
           LET before == IF IsAuth(u) <=> IsAuth(v) THEN 0 ELSE Times(outs[u], v)
           IN  Times(outsLeft[u], v) = before /\ Times(insLeft[v], u) = before

=============================================================================
