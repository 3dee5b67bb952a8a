----------------------------- MODULE SearchProofs -----------------------------
(***************************************************************************)
(* What a search answers, for any number of searches, questions and pages: *)
(* the count of searches in flight, the merging of pages of one content,   *)
(* the lists in the cache and the pages that are shown.  And what is made  *)
(* of a question of any length, and of a graph of any size.  A search has  *)
(* few steps before it; that these are taken is only model-checked.        *)
(***************************************************************************)
EXTENDS Search, QueryText, Ranking, FiniteSetTheorems, TLAPS

-----------------------------------------------------------------------------
(* The searches in flight *)

\* The searches the database may be asked for.
Admitted == {s \in Open : pc[s] # "refused"}

\* The type of what the count depends on, and what is to be shown.
IInv ==
    /\ inFlight \in Nat
    /\ pc \in [Searches -> PCs]
    /\ FlightIsExact

LEMMA OpenIsFinite ==
    /\ IsFiniteSet(Open) /\ Cardinality(Open) \in Nat
    /\ IsFiniteSet(Admitted) /\ Cardinality(Admitted) =< Cardinality(Open)
<1>1. Open \subseteq Searches /\ Admitted \subseteq Open
  BY DEF Open, Admitted
<1>. QED
  BY <1>1, FS_Subset, FS_CardinalityType, ConstantsAssumption

LEMMA InitIInv == Init => IInv
<1> SUFFICES ASSUME Init
             PROVE  IInv
  OBVIOUS
<1>1. Open = {} /\ Admitted = {}
  BY DEF Init, Open, Admitted
<1>2. Cardinality({}) = 0
  BY FS_EmptySet
<1>. QED
  BY <1>1, <1>2, ConstantsAssumption DEF Init, IInv, FlightIsExact, Admitted, PCs

\* A search that comes in is counted, and let in only when at most MaxFlight
\* others are counted.
LEMMA EnterKeeps ==
    ASSUME IInv, NEW s \in Searches, Enter(s)
    PROVE  IInv'
<1>1. PICK label \in {"refused", "leave", "lookup"} :
          pc' = [pc EXCEPT ![s] = label] /\ (inFlight > MaxFlight => label = "refused")
  BY DEF Enter, Goto
<1>2. s \notin Open /\ s \notin Admitted /\ Open' = Open \cup {s}
  BY <1>1 DEF Enter, Open, Admitted, IInv
<1>3. Cardinality(Open') = Cardinality(Open) + 1
  BY <1>2, OpenIsFinite, FS_AddElement
<1>4. inFlight' = Cardinality(Open') /\ inFlight' \in Nat
  BY <1>3 DEF Enter, IInv, FlightIsExact
<1>5. Cardinality(Admitted') =< MaxFlight + 1
  <2>1. CASE label = "refused"
    <3>1. Admitted' = Admitted
      BY <1>1, <1>2, <2>1 DEF Admitted, Open, IInv
    <3>. QED
      BY <3>1 DEF IInv, FlightIsExact, Admitted
  <2>2. CASE label # "refused"
    <3>1. Admitted' = Admitted \cup {s}
      BY <1>1, <1>2, <2>2 DEF Admitted, Open, IInv
    <3>2. Cardinality(Admitted') = Cardinality(Admitted) + 1
      BY <1>2, <3>1, OpenIsFinite, FS_AddElement
    <3>3. Cardinality(Admitted) =< inFlight /\ inFlight =< MaxFlight /\ Cardinality(Admitted) \in Nat
      BY <1>1, <2>2, OpenIsFinite, FS_CardinalityType, ConstantsAssumption DEF IInv, FlightIsExact
    <3>. QED
      BY <3>2, <3>3, ConstantsAssumption DEF IInv
  <2>. QED
    BY <2>1, <2>2
<1>. QED
  BY <1>1, <1>4, <1>5 DEF IInv, FlightIsExact, Admitted, PCs

\* A search that leaves was counted, and is not any more.
LEMMA LeaveKeeps ==
    ASSUME IInv, NEW s \in Searches, Leave(s)
    PROVE  IInv'
<1>1. pc' = [pc EXCEPT ![s] = "done"] /\ inFlight' = inFlight - 1
  BY DEF Leave, Goto
<1>2. s \in Open /\ Open' = Open \ {s} /\ Admitted' \subseteq Admitted
  BY <1>1 DEF Leave, Open, Admitted, IInv
<1>3. Cardinality(Open') = Cardinality(Open) - 1 /\ Cardinality(Open) \in Nat \ {0}
  BY <1>2, OpenIsFinite, FS_RemoveElement, FS_EmptySet
<1>4. Cardinality(Admitted') =< Cardinality(Admitted)
      /\ Cardinality(Admitted') \in Nat /\ Cardinality(Admitted) \in Nat
  BY <1>2, OpenIsFinite, FS_Subset, FS_CardinalityType
<1>. QED
  BY <1>1, <1>2, <1>3, <1>4, ConstantsAssumption DEF IInv, FlightIsExact, Admitted, PCs

\* All else keeps who is in and the count.
LEMMA OthersKeep ==
    ASSUME IInv, inFlight' = inFlight, pc' \in [Searches -> PCs],
           \A s \in Searches : \/ pc'[s] = pc[s]
                               \/ {pc[s], pc'[s]} \cap {"idle", "done", "refused"} = {}
    PROVE  IInv'
<1>1. Open' = Open /\ Admitted' = Admitted
  BY DEF Open, Admitted
<1>. QED
  BY <1>1 DEF IInv, FlightIsExact, Admitted

LEMMA Inductive == IInv /\ [Next]_vars => IInv'
<1> SUFFICES ASSUME IInv, [Next]_vars
             PROVE  IInv'
  OBVIOUS
<1>1. ASSUME NEW s \in Searches, Enter(s)
      PROVE  IInv'
  BY <1>1, EnterKeeps
<1>2. ASSUME NEW s \in Searches, Leave(s)
      PROVE  IInv'
  BY <1>2, LeaveKeeps
<1>3. ASSUME NEW s \in Searches,
             LookUp(s) \/ LookUpRaw(s) \/ Select(s) \/ Keep(s) \/ Filter(s) \/ Show(s)
      PROVE  IInv'
  <2>1. PICK label \in {"show", "rank", "filter", "select", "keep", "leave"} :
            pc' = [pc EXCEPT ![s] = label]
    BY <1>3 DEF LookUp, LookUpRaw, Select, Keep, Filter, Show, Goto
  <2>2. inFlight' = inFlight /\ pc[s] \in {"lookup", "rank", "select", "keep", "filter", "show"}
    BY <1>3 DEF LookUp, LookUpRaw, Select, Keep, Filter, Show
  <2>3. \A t \in Searches : \/ pc'[t] = pc[t]
                            \/ {pc[t], pc'[t]} \cap {"idle", "done", "refused"} = {}
    BY <2>1, <2>2 DEF IInv
  <2>4. pc' \in [Searches -> PCs]
    BY <2>1 DEF IInv, PCs
  <2>. QED
    BY <2>2, <2>3, <2>4, OthersKeep
<1>4. CASE Change \/ Expire \/ UNCHANGED vars
  <2>1. inFlight' = inFlight /\ pc' = pc
    BY <1>4 DEF Change, Expire, vars, request
  <2>. QED
    BY <2>1, OthersKeep DEF IInv
<1>. QED
  BY <1>1, <1>2, <1>3, <1>4 DEF Next, Step

\* FlightIsExact: search_in_flight equals the number of requests whose frame
\* lives, and no more than MaxFlight + 1 of them are served at a time.
THEOREM FlightExact == SafeSpec => []FlightIsExact
<1>1. IInv => FlightIsExact
  BY DEF IInv
<1>. QED
  BY <1>1, InitIInv, Inductive, PTL DEF SafeSpec

-----------------------------------------------------------------------------
(* Induction, and the two definitions by recursion *)

\* Induction as a fact about sets, which the provers can use.
LEMMA NatInSet ==
    ASSUME NEW S, 0 \in S, \A n \in Nat : n \in S => n + 1 \in S
    PROVE  Nat \subseteq S
<1> SUFFICES ASSUME Nat \ S # {}
             PROVE  FALSE
  OBVIOUS
<1> DEFINE R == {ss \in Nat \X Nat : ss[1] < ss[2]}
<1>1. IsWellFoundedOn(R, Nat)
  BY NatLessThanWellFounded DEF OpToRel
<1>2. PICK x \in Nat \ S : \A y \in Nat \ S : <<y, x>> \notin R
  <2> HIDE DEF R
  <2>. QED
    BY <1>1, WFMin
<1>3. x # 0 /\ x - 1 \in Nat /\ x = (x - 1) + 1
  OBVIOUS
<1>4. x - 1 \in S
  <2>1. <<x - 1, x>> \in Nat \X Nat /\ x - 1 < x
    BY <1>3
  <2>. QED
    BY <1>2, <1>3, <2>1
<1>. QED
  BY <1>2, <1>3, <1>4

\* What Merged says of a set of pages, the results left of smaller ones being
\* those of m.
PutsOf(node, kepts) == UNION {Put(node, kept) : kept \in kepts}
MergedOf(m, pages) ==
    IF pages = {} THEN {{}} ELSE UNION {PutsOf(node, m[pages \ {node}]) : node \in pages}

\* The definition of Merged goes through: sets of pages are finite, and each
\* looks at smaller ones only.
LEMMA MergedIsDefined == Merged = [pages \in SUBSET Versions |-> MergedOf(Merged, pages)]
<1> DEFINE Small(n) == {pages \in SUBSET Versions : Cardinality(pages) =< n}
           Reach == {n \in Nat : \E m : m = [pages \in Small(n) |-> MergedOf(m, pages)]}
<1>1. \A pages \in SUBSET Versions : IsFiniteSet(pages) /\ Cardinality(pages) \in Nat
  BY ConstantsAssumption, FS_Subset, FS_CardinalityType
<1>2. 0 \in Reach
  <2>1. \A pages \in Small(0) : pages = {}
    BY <1>1, FS_EmptySet
  <2> DEFINE m == [pages \in Small(0) |-> {{}}]
  <2>2. m = [pages \in Small(0) |-> MergedOf(m, pages)]
    <3>1. \A pages \in Small(0) : MergedOf(m, pages) = {{}}
      BY <2>1 DEF MergedOf
    <3>. QED
      BY <3>1
  <2>. QED
    BY <2>2
<1>3. ASSUME NEW n \in Nat, n \in Reach
      PROVE  n + 1 \in Reach
  <2>1. PICK m : m = [pages \in Small(n) |-> MergedOf(m, pages)]
    BY <1>3
  <2> DEFINE w == [pages \in Small(n + 1) |-> MergedOf(m, pages)]
  <2>2. \A pages \in Small(n + 1) : \A node \in pages :
            pages \ {node} \in Small(n) /\ pages \ {node} \in Small(n + 1)
    <3> SUFFICES ASSUME NEW pages \in Small(n + 1), NEW node \in pages
                 PROVE  pages \ {node} \in Small(n) /\ pages \ {node} \in Small(n + 1)
      OBVIOUS
    <3>1. Cardinality(pages \ {node}) = Cardinality(pages) - 1
      BY <1>1, FS_RemoveElement
    <3>. QED
      BY <1>1, <3>1
  <2>3. \A pages \in Small(n) : pages \in Small(n + 1)
    BY <1>1
  <2>4. \A pages \in Small(n) : w[pages] = m[pages]
    <3> HIDE DEF Small
    <3>. QED
      BY <2>1, <2>3
  <2>5. \A pages \in Small(n + 1) : MergedOf(w, pages) = MergedOf(m, pages)
    <3> SUFFICES ASSUME NEW pages \in Small(n + 1)
                 PROVE  MergedOf(w, pages) = MergedOf(m, pages)
      OBVIOUS
    <3>1. \A node \in pages : w[pages \ {node}] = m[pages \ {node}]
      <4> HIDE DEF Small, w
      <4>. QED
        BY <2>2, <2>4
    <3>2. \A node \in pages : PutsOf(node, w[pages \ {node}]) = PutsOf(node, m[pages \ {node}])
      <4> HIDE DEF w, Small
      <4>. QED
        BY <3>1
    <3> HIDE DEF w, Small
    <3>. QED
      BY <3>2 DEF MergedOf
  <2>6. w = [pages \in Small(n + 1) |-> MergedOf(w, pages)]
    <3> HIDE DEF Small
    <3>. QED
      BY <2>5
  <2> HIDE DEF Small, w
  <2>. QED
    BY <2>6
<1>4. Cardinality(Versions) \in Reach
  <2> HIDE DEF Reach
  <2>. QED
    BY <1>1, <1>2, <1>3, NatInSet
<1>5. Small(Cardinality(Versions)) = SUBSET Versions
  BY <1>1, ConstantsAssumption, FS_Subset
<1>6. \E m : m = [pages \in SUBSET Versions |-> MergedOf(m, pages)]
  BY <1>4, <1>5
<1>7. Merged = CHOOSE m : m = [pages \in SUBSET Versions |-> MergedOf(m, pages)]
  BY DEF Merged, MergedOf, PutsOf
<1>. QED
  BY <1>6, <1>7

\* No content is lost when a page is put to the others.
Holding(content, pages) == \E v \in pages : v.hash = content

LEMMA PutKeepsContents ==
    ASSUME NEW node, NEW kept, NEW results \in Put(node, kept)
    PROVE  /\ results \subseteq kept \cup {node}
           /\ Holding(node.hash, results)
           /\ \A v \in kept : Holding(v.hash, results)
<1> DEFINE same == {k \in kept : k.hash = node.hash /\ IsSame(node, k)}
           originals == {k \in kept : k.hash = node.hash /\ IsCopyOf(node, k)}
<1>1. \/ results = kept \cup {node}
      \/ results = kept /\ same \cup originals # {}
      \/ \E k \in same : results = (kept \ {k}) \cup {node}
  BY DEF Put
<1>. QED
  BY <1>1 DEF Holding

LEMMA MergedKeepsContents ==
    ASSUME NEW pages \in SUBSET Versions, NEW results \in Merged[pages]
    PROVE  results \subseteq pages /\ \A v \in pages : Holding(v.hash, results)
<1> DEFINE Sound(p) == \A r \in Merged[p] : r \subseteq p /\ \A v \in p : Holding(v.hash, r)
           Proved == {n \in Nat : \A p \in SUBSET Versions : Cardinality(p) = n => Sound(p)}
<1>1. \A p \in SUBSET Versions : IsFiniteSet(p) /\ Cardinality(p) \in Nat
  BY ConstantsAssumption, FS_Subset, FS_CardinalityType
<1>2. 0 \in Proved
  <2> SUFFICES ASSUME NEW p \in SUBSET Versions, Cardinality(p) = 0
               PROVE  Sound(p)
    OBVIOUS
  <2>1. p = {}
    BY <1>1, FS_EmptySet
  <2>2. Merged[p] = {{}}
    BY <2>1, MergedIsDefined DEF MergedOf
  <2>. QED
    BY <2>1, <2>2
<1>3. ASSUME NEW n \in Nat, n \in Proved
      PROVE  n + 1 \in Proved
  <2> SUFFICES ASSUME NEW p \in SUBSET Versions, Cardinality(p) = n + 1, NEW r \in Merged[p]
               PROVE  r \subseteq p /\ \A v \in p : Holding(v.hash, r)
    OBVIOUS
  <2>1. IsFiniteSet(p) /\ p # {}
    <3> HIDE DEF Proved
    <3>. QED
      BY <1>1, FS_EmptySet
  <2>2. Merged[p] = UNION {PutsOf(node, Merged[p \ {node}]) : node \in p}
    BY <2>1, MergedIsDefined DEF MergedOf
  <2>3. PICK node \in p : \E kept \in Merged[p \ {node}] : r \in Put(node, kept)
    BY <2>2 DEF PutsOf
  <2>4. Cardinality(p \ {node}) = n
    <3>1. Cardinality(p \ {node}) = Cardinality(p) - 1
      BY <2>1, <2>3, FS_RemoveElement
    <3> HIDE DEF Proved
    <3>. QED
      BY <3>1
  <2>5. Sound(p \ {node})
    BY <1>3, <2>4
  <2>6. PICK kept \in Merged[p \ {node}] : r \in Put(node, kept)
    BY <2>3
  <2>7. kept \subseteq p \ {node} /\ \A v \in p \ {node} : Holding(v.hash, kept)
    BY <2>5, <2>6
  <2>8. /\ r \subseteq kept \cup {node}
        /\ Holding(node.hash, r) /\ \A v \in kept : Holding(v.hash, r)
    BY <2>6, PutKeepsContents
  <2>. QED
    BY <2>7, <2>8 DEF Holding
<1>4. Cardinality(pages) \in Proved
  <2> HIDE DEF Proved
  <2>. QED
    BY <1>1, <1>2, <1>3, NatInSet
<1>. QED
  BY <1>4

LEMMA MaxIsGreatest ==
    ASSUME NEW S \in SUBSET Nat, NEW g \in S, \A y \in S : g >= y
    PROVE  Max(S) = g
<1> DEFINE Great(x) == x \in S /\ \A y \in S : x >= y
<1>1. Great(g)
  OBVIOUS
<1>2. ASSUME NEW x, Great(x)
      PROVE  x = g
  <2>1. x \in Nat /\ g \in Nat /\ x >= g /\ g >= x
    BY <1>2
  <2>. QED
    BY <2>1
<1>3. Max(S) = CHOOSE x : Great(x)
  BY DEF Max
<1> HIDE DEF Great
<1>. QED
  BY <1>1, <1>2, <1>3

LEMMA MaxIsAmong ==
    ASSUME NEW n \in Nat, NEW S \in SUBSET (1..n), S # {}
    PROVE  Max(S) \in S
<1> DEFINE None(m) == \A y \in S : y =< n - m
           Nones == {m \in Nat : None(m)}
<1>1. PICK g \in S : \A y \in S : g >= y
  <2> SUFFICES ASSUME \A g \in S : \E y \in S : ~(g >= y)
               PROVE  FALSE
    OBVIOUS
  <2>1. None(0)
    OBVIOUS
  <2>2. ASSUME NEW m \in Nat, None(m)
        PROVE  None(m + 1)
    <3> SUFFICES ASSUME NEW y \in S, y > n - (m + 1)
                 PROVE  FALSE
      OBVIOUS
    <3>1. PICK z \in S : ~(y >= z)
      OBVIOUS
    <3>2. y \in Int /\ z \in Int /\ z =< n - m /\ y =< n - m
      BY <2>2
    <3>. QED
      BY <3>1, <3>2
  <2>3. n \in Nones
    <3> HIDE DEF None
    <3>1. 0 \in Nones /\ \A m \in Nat : m \in Nones => m + 1 \in Nones
      BY <2>1, <2>2
    <3> HIDE DEF Nones
    <3>. QED
      BY <3>1, NatInSet
  <2>4. None(n)
    BY <2>3
  <2>5. PICK y \in S : TRUE
    OBVIOUS
  <2>6. y =< n - n /\ y \in 1..n
    BY <2>4, <2>5
  <2>. QED
    BY <2>6
<1>. QED
  BY <1>1, MaxIsGreatest

\* The function by which the community modules fold over the places of a
\* sequence, step[i] being what is done at place i.
IsFold(h, base, step, n) ==
    \A places \in SUBSET (1..n) :
        h[places] = IF places = {} THEN base ELSE step[Max(places)][h[places \ {Max(places)}]]

LEMMA FoldExists ==
    ASSUME NEW X, NEW base \in X, NEW n \in Nat, NEW step \in [1..n -> [X -> X]]
    PROVE  \E h \in [SUBSET (1..n) -> X] : IsFold(h, base, step, n)
<1> DEFINE Has(m) == \E h \in [SUBSET (1..m) -> X] : IsFold(h, base, step, m)
           Reach == {m \in Nat : m =< n => Has(m)}
<1>1. 0 \in Reach
  <2>1. SUBSET (1..0) = {{}}
    OBVIOUS
  <2> DEFINE h == [places \in {{}} |-> base]
  <2>2. h \in [SUBSET (1..0) -> X] /\ IsFold(h, base, step, 0)
    BY <2>1 DEF IsFold
  <2> HIDE DEF h
  <2>. QED
    BY <2>2
<1>2. ASSUME NEW m \in Nat, Has(m), m + 1 =< n
      PROVE  Has(m + 1)
  <2>1. PICK h \in [SUBSET (1..m) -> X] : IsFold(h, base, step, m)
    BY <1>2
  <2> DEFINE w == [places \in SUBSET (1..(m + 1)) |->
                      IF m + 1 \in places THEN step[m + 1][h[places \ {m + 1}]] ELSE h[places]]
  <2>2. \A places \in SUBSET (1..(m + 1)) :
            /\ m + 1 \notin places => places \in SUBSET (1..m)
            /\ places \ {m + 1} \in SUBSET (1..m)
    OBVIOUS
  <2>3. m + 1 \in 1..n /\ step[m + 1] \in [X -> X]
    BY <1>2
  <2>4. w \in [SUBSET (1..(m + 1)) -> X]
    BY <2>2, <2>3
  <2>5. \A places \in SUBSET (1..m) : w[places] = h[places]
    <3>1. \A places \in SUBSET (1..m) : places \in SUBSET (1..(m + 1)) /\ m + 1 \notin places
      OBVIOUS
    <3>. QED
      BY <3>1
  <2>6. ASSUME NEW places \in SUBSET (1..(m + 1))
        PROVE  w[places] = IF places = {} THEN base ELSE step[Max(places)][w[places \ {Max(places)}]]
    <3>1. CASE m + 1 \in places
      <4>1. places \in SUBSET Nat /\ \A y \in places : m + 1 >= y
        OBVIOUS
      <4>2. Max(places) = m + 1
        BY <3>1, <4>1, MaxIsGreatest
      <4>3. w[places] = step[m + 1][h[places \ {m + 1}]]
        BY <3>1
      <4> HIDE DEF w
      <4>. QED
        BY <2>2, <2>5, <3>1, <4>2, <4>3
    <3>2. CASE m + 1 \notin places
      <4>1. places \in SUBSET (1..m) /\ w[places] = h[places]
        BY <2>2, <2>5, <3>2
      <4>2. places \ {Max(places)} \in SUBSET (1..m)
        BY <4>1
      <4>3. w[places \ {Max(places)}] = h[places \ {Max(places)}]
        BY <2>5, <4>2
      <4> HIDE DEF w
      <4>. QED
        BY <2>1, <4>1, <4>3 DEF IsFold
    <3>. QED
      BY <3>1, <3>2
  <2> HIDE DEF w
  <2>. QED
    BY <2>4, <2>6 DEF IsFold
<1>3. n \in Reach
  <2> HIDE DEF Has
  <2>1. \A m \in Nat : m \in Reach => m + 1 \in Reach
    <3> SUFFICES ASSUME NEW m \in Nat, m =< n => Has(m), m + 1 =< n
                 PROVE  Has(m + 1)
      OBVIOUS
    <3>1. m =< n
      OBVIOUS
    <3>. QED
      BY <3>1, <1>2
  <2> HIDE DEF Reach
  <2>. QED
    BY <1>1, <2>1, NatInSet
<1>. QED
  BY <1>3

\* Where a fold has come by the place m, it looks at the places before m only.
LEMMA PlacesUpTo ==
    ASSUME NEW n \in Nat
    PROVE  /\ 1..0 = {} /\ 1..0 \in SUBSET (1..n)
           /\ \A m \in 1..n : /\ 1..m \in SUBSET (1..n) /\ 1..m # {} /\ Max(1..m) = m
                             /\ (1..m) \ {m} = 1..(m - 1)
<1>1. \A m \in 1..n : Max(1..m) = m
  BY MaxIsGreatest
<1>. QED
  BY <1>1

LEMMA AppendedSet ==
    ASSUME NEW S, NEW s \in Seq(S), NEW x \in S
    PROVE  ToSet(Append(s, x)) = ToSet(s) \cup {x}
<1>1. Len(s) \in Nat /\ DOMAIN s = 1..Len(s)
  OBVIOUS
<1>2. DOMAIN Append(s, x) = 1..(Len(s) + 1)
  OBVIOUS
<1>3. 1..(Len(s) + 1) = (1..Len(s)) \cup {Len(s) + 1}
  BY <1>1
<1>4. \A i \in 1..Len(s) : Append(s, x)[i] = s[i]
  OBVIOUS
<1>5. Append(s, x)[Len(s) + 1] = x
  OBVIOUS
<1>. QED
  BY <1>1, <1>2, <1>3, <1>4, <1>5 DEF ToSet

\* Sift takes the places in their order.
IsSifting(k, results, pages, n) ==
    /\ k[0] = <<>>
    /\ \A m \in 1..n : k[m] = IF results[m] \in pages THEN Append(k[m - 1], results[m]) ELSE k[m - 1]

LEMMA SiftRuns ==
    ASSUME NEW S, NEW n \in Nat, NEW results \in [1..n -> S], NEW pages
    PROVE  \E k : IsSifting(k, results, pages, n) /\ k[n] = Sift(results, pages)
<1> DEFINE step == [i \in 1..n |->
                       [kept \in Seq(S) |-> IF results[i] \in pages THEN Append(kept, results[i]) ELSE kept]]
           At(h, places) == IF places = {} THEN <<>>
                            ELSE LET i == Max(places)
                                 IN  IF results[i] \in pages THEN Append(h[places \ {i}], results[i])
                                     ELSE h[places \ {i}]
<1>1. step \in [1..n -> [Seq(S) -> Seq(S)]] /\ <<>> \in Seq(S)
  OBVIOUS
<1>2. PICK h \in [SUBSET (1..n) -> Seq(S)] : IsFold(h, <<>>, step, n)
  <2> HIDE DEF step
  <2>. QED
    BY <1>1, FoldExists
<1>3. \A places \in SUBSET (1..n) : h[places] = At(h, places)
  <2> SUFFICES ASSUME NEW places \in SUBSET (1..n), places # {}
               PROVE  h[places] = At(h, places)
    BY <1>2 DEF IsFold
  <2>1. h[places] = step[Max(places)][h[places \ {Max(places)}]]
    BY <1>2 DEF IsFold
  <2>2. Max(places) \in 1..n
    BY MaxIsAmong
  <2>3. h[places \ {Max(places)}] \in Seq(S)
    BY <1>2
  <2>. QED
    BY <2>1, <2>2, <2>3
<1>4. h = [places \in SUBSET (1..n) |-> At(h, places)]
  <2> HIDE DEF At
  <2>. QED
    BY <1>3
<1>5. Sift(results, pages) = (CHOOSE g : g = [places \in SUBSET (1..n) |-> At(g, places)])[1..n]
  BY DEF Sift, FoldLeft, MapThenFoldSet
<1> HIDE DEF At, step
<1>6. PICK g : g = [places \in SUBSET (1..n) |-> At(g, places)] /\ Sift(results, pages) = g[1..n]
  BY <1>4, <1>5
<1> DEFINE k == [m \in 0..n |-> g[1..m]]
<1>7. k[0] = <<>>
  BY <1>6, PlacesUpTo DEF At
<1>8. ASSUME NEW m \in 1..n
      PROVE  k[m] = IF results[m] \in pages THEN Append(k[m - 1], results[m]) ELSE k[m - 1]
  <2>1. g[1..m] = At(g, 1..m)
    BY <1>6, PlacesUpTo
  <2>2. k[m] = g[1..m] /\ k[m - 1] = g[1..(m - 1)]
    OBVIOUS
  <2> HIDE DEF k
  <2>. QED
    BY <2>1, <2>2, PlacesUpTo DEF At
<1>9. k[n] = Sift(results, pages)
  BY <1>6
<1> HIDE DEF k
<1>. QED
  BY <1>7, <1>8, <1>9 DEF IsSifting

\* Sifting keeps what is to be kept, and nothing else.
LEMMA SiftKeepsOf ==
    ASSUME NEW S, NEW n \in Nat, NEW results \in [1..n -> S], NEW pages
    PROVE  /\ Sift(results, pages) \in Seq(S)
           /\ Len(Sift(results, pages)) =< n
           /\ \A x : x \in ToSet(Sift(results, pages)) <=> x \in ToSet(results) /\ x \in pages
<1>1. PICK k : IsSifting(k, results, pages, n) /\ k[n] = Sift(results, pages)
  BY SiftRuns
<1> DEFINE Sifted(m) == m =< n => /\ k[m] \in Seq(S)
                                  /\ Len(k[m]) =< m
                                  /\ ToSet(k[m]) = {results[i] : i \in 1..m} \cap pages
           Proved == {m \in Nat : Sifted(m)}
<1>2. 0 \in Proved
  <2>1. ToSet(<<>>) = {} /\ {results[i] : i \in 1..0} = {}
    BY DEF ToSet
  <2>2. <<>> \in Seq(S) /\ Len(<<>>) = 0
    OBVIOUS
  <2>3. Sifted(0)
    BY ONLY <1>1, <2>1, <2>2 DEF IsSifting
  <2>. QED
    BY <2>3
<1>3. ASSUME NEW m \in Nat, m \in Proved
      PROVE  m + 1 \in Proved
  <2> SUFFICES ASSUME m + 1 =< n
               PROVE  Sifted(m + 1)
    OBVIOUS
  <2>1. k[m + 1] = IF results[m + 1] \in pages THEN Append(k[m], results[m + 1]) ELSE k[m]
    <3>1. m + 1 \in 1..n /\ (m + 1) - 1 = m
      OBVIOUS
    <3>. QED
      BY <1>1, <3>1 DEF IsSifting
  <2>4. results[m + 1] \in S
    OBVIOUS
  <2>5. {results[i] : i \in 1..(m + 1)} = {results[i] : i \in 1..m} \cup {results[m + 1]}
    OBVIOUS
  <2>6. PICK s \in Seq(S) : s = k[m] /\ Len(s) =< m /\ ToSet(s) = {results[i] : i \in 1..m} \cap pages
    BY <1>3
  <2>7. ToSet(Append(s, results[m + 1])) = ToSet(s) \cup {results[m + 1]}
    BY <2>4, AppendedSet
  <2>8. Append(s, results[m + 1]) \in Seq(S) /\ Len(Append(s, results[m + 1])) =< m + 1
    BY <2>4, <2>6
  <2>. QED
    BY <2>1, <2>5, <2>6, <2>7, <2>8
<1>4. Sifted(n)
  <2>1. n \in Proved
    <3> HIDE DEF Proved
    <3>. QED
      BY <1>2, <1>3, NatInSet
  <2>. QED
    BY <2>1
<1>5. ToSet(results) = {results[i] : i \in 1..n}
  BY DEF ToSet
<1>. QED
  BY <1>1, <1>4, <1>5

-----------------------------------------------------------------------------
(* Rankings *)

\* What SetToSeqs makes of a finite set are its elements, each once.
LEMMA SetToSeqsFacts ==
    ASSUME NEW S, IsFiniteSet(S), NEW s \in SetToSeqs(S)
    PROVE  s \in [1..Cardinality(S) -> S] /\ ToSet(s) = S
<1>1. s \in [1..Cardinality(S) -> S] /\ \A i, j \in 1..Cardinality(S) : i # j => s[i] # s[j]
  BY DEF SetToSeqs
<1>2. s \in Injection(1..Cardinality(S), S)
  BY <1>1 DEF Injection, IsInjective
<1>3. Cardinality(S) \in Nat
  BY FS_CardinalityType
<1>4. Cardinality(1..Cardinality(S)) = Cardinality(S)
  BY <1>3, FS_Interval
<1>5. s \in Surjection(1..Cardinality(S), S)
  BY <1>2, <1>4, FS_Injection
<1>. QED
  BY <1>1, <1>5 DEF Surjection, ToSet

\* A ranking of pages holds no others, none twice, and a page of each content.
LEMMA RankingFacts ==
    ASSUME NEW pages \in SUBSET Versions, NEW ranking \in Rankings[pages]
    PROVE  /\ \E n \in 0..Cardinality(Versions) : ranking \in [1..n -> Versions]
           /\ ToSet(ranking) \subseteq pages
           /\ \A v \in pages : Holding(v.hash, ToSet(ranking))
<1>1. PICK results \in Merged[pages] : ranking \in SetToSeqs(results)
  BY DEF Rankings
<1>2. results \subseteq pages /\ \A v \in pages : Holding(v.hash, results)
  BY <1>1, MergedKeepsContents
<1>3. IsFiniteSet(results) /\ Cardinality(results) =< Cardinality(Versions)
      /\ Cardinality(results) \in Nat /\ Cardinality(Versions) \in Nat
  BY <1>2, ConstantsAssumption, FS_Subset, FS_CardinalityType
<1>4. ranking \in [1..Cardinality(results) -> results] /\ ToSet(ranking) = results
  BY <1>1, <1>3, SetToSeqsFacts
<1>5. ranking \in [1..Cardinality(results) -> Versions]
  BY <1>2, <1>4
<1>. QED
  BY <1>2, <1>3, <1>4, <1>5

\* ... and so does what is left when it is sifted, but for the last.
LEMMA SiftedRanking ==
    ASSUME NEW pages \in SUBSET Versions, NEW ranking \in Rankings[pages], NEW through
    PROVE  /\ Sift(ranking, through) \in Lists
           /\ ToSet(Sift(ranking, through)) \subseteq pages \cap through
<1>1. PICK n \in 0..Cardinality(Versions) : ranking \in [1..n -> Versions]
  BY RankingFacts
<1>2. Cardinality(Versions) \in Nat /\ n \in Nat
  BY ConstantsAssumption, FS_CardinalityType
<1>3. /\ Sift(ranking, through) \in Seq(Versions) /\ Len(Sift(ranking, through)) =< n
      /\ \A x \in ToSet(Sift(ranking, through)) : x \in ToSet(ranking) /\ x \in through
  BY <1>1, <1>2, SiftKeepsOf
<1>4. Sift(ranking, through) \in [1..Len(Sift(ranking, through)) -> Versions]
      /\ Len(Sift(ranking, through)) \in 0..Cardinality(Versions)
  BY <1>1, <1>2, <1>3
<1>. QED
  BY <1>3, <1>4, RankingFacts DEF Lists

LEMMA RankingIsList ==
    ASSUME NEW pages \in SUBSET Versions, NEW ranking \in Rankings[pages]
    PROVE  ranking \in Lists
BY RankingFacts DEF Lists

-----------------------------------------------------------------------------
(* What the searches answer *)

\* What the filter of a question lets through.
Through(q) == Passing(ParseOf[q].filter)

\* A list that is a ranking of what an index of indexes had for the words of q,
\* and one that is left of such a ranking by a filter with the key of q.
RootsOf(q, indexes) == UNION {RootSets(ParseOf[q].query, I) : I \in indexes}
Found(q, indexes) == UNION {Rankings[found] : found \in RootsOf(q, indexes)}
IsRanked(q, results, indexes) == results \in Found(q, indexes)
IsSifted(q, results, indexes) ==
    \E r \in Alike(q) : \E ranking \in Found(r, indexes) : results = Sift(ranking, Through(r))

\* An entry of the cache: a ranking under its words, or what is left of one
\* under its words and the key of the filter.
IsExact(key, results, indexes) ==
    \E q \in Questions :
        \/ key = <<ParseOf[q].query>> /\ IsRanked(q, results, indexes)
        \/ key = <<ParseOf[q].query, KeyOf[q]>> /\ IsSifted(q, results, indexes)

\* Rows of pages that one of indexes had for who asks q, all for one filter.
AreAnswers(q, rows, indexes) ==
    \E I \in indexes, r \in Alike(q) : \A w \in rows : \E v \in I :
        v.url = w.url /\ ToSet(ParseOf[q].query) \subseteq v.words /\ v \in Through(r)

\* ... and what is shown of them.
AreShown(q, rows, indexes) ==
    AreAnswers(q, rows, indexes) /\ \E J \in indexes : rows \subseteq J

IndexInv ==
    /\ past \subseteq SUBSET Versions
    /\ index \in past
    /\ \A v, w \in index : v.url = w.url => v = w

\* What a search holds at each of its steps.
SearchInv(s) ==
    /\ pc[s] \in PCs /\ asked[s] \in Questions \cup {Nothing}
    /\ pc[s] \notin {"idle", "done"} => asked[s] \in Questions
    /\ pc[s] = "keep" => /\ root[s] \in RootsOf(asked[s], past)
                         /\ list[s] \in Rankings[root[s]]
    /\ pc[s] # "keep" => root[s] = {}
    /\ pc[s] = "filter" => IsRanked(asked[s], list[s], past)
    /\ pc[s] = "show" => IsSifted(asked[s], list[s], past)
    /\ list[s] \in Lists
    /\ pc[s] # "leave" => shown[s] = {}
    /\ shown[s] # {} => AreShown(asked[s], shown[s], past)

AnswersInv ==
    /\ IndexInv
    /\ \A key \in DOMAIN cache : IsExact(key, cache[key], past)
    /\ pc \in [Searches -> PCs]
    /\ asked \in [Searches -> Questions \cup {Nothing}] /\ DOMAIN list = Searches
    /\ DOMAIN shown = Searches /\ DOMAIN root = Searches
    /\ \A s \in Searches : SearchInv(s)

\* What the database gives matches the words.
LEMMA RootsMatch ==
    ASSUME NEW q, NEW indexes \in SUBSET SUBSET Versions, NEW found \in RootsOf(q, indexes)
    PROVE  /\ found \in SUBSET Versions
           /\ \E I \in indexes : /\ found \subseteq I
                               /\ \A v \in found : ToSet(ParseOf[q].query) \subseteq v.words
<1>1. PICK I \in indexes : found \in RootSets(ParseOf[q].query, I)
  BY DEF RootsOf
<1>2. found \subseteq Matching(ParseOf[q].query, I)
  BY <1>1 DEF RootSets, kSubset
<1>. QED
  BY <1>2 DEF Matching

LEMMA LaterIndexes ==
    ASSUME NEW indexes, NEW more, indexes \subseteq more
    PROVE  /\ \A q : RootsOf(q, indexes) \subseteq RootsOf(q, more)
           /\ \A q, rows : AreShown(q, rows, indexes) => AreShown(q, rows, more)
           /\ \A q, results : IsRanked(q, results, indexes) => IsRanked(q, results, more)
           /\ \A q, results : IsSifted(q, results, indexes) => IsSifted(q, results, more)
           /\ \A key, results : IsExact(key, results, indexes) => IsExact(key, results, more)
<1>4. \A q : RootsOf(q, indexes) \subseteq RootsOf(q, more)
  BY DEF RootsOf
<1>5. \A q, rows : AreShown(q, rows, indexes) => AreShown(q, rows, more)
  BY DEF AreShown, AreAnswers
<1>1. \A q : Found(q, indexes) \subseteq Found(q, more)
  BY <1>4 DEF Found
<1>2. \A q, results : IsRanked(q, results, indexes) => IsRanked(q, results, more)
  BY <1>1 DEF IsRanked
<1>3. \A q, results : IsSifted(q, results, indexes) => IsSifted(q, results, more)
  BY <1>1 DEF IsSifted
<1>. QED
  BY <1>2, <1>3, <1>4, <1>5 DEF IsExact

\* Questions that share their keys may be answered with the same lists.
LEMMA AlikeAnswers ==
    ASSUME NEW q \in Questions, NEW r \in Questions,
           ParseOf[q].query = ParseOf[r].query, NEW results, NEW indexes
    PROVE  /\ IsRanked(q, results, indexes) => IsRanked(r, results, indexes)
           /\ KeyOf[q] = KeyOf[r] /\ IsSifted(q, results, indexes) => IsSifted(r, results, indexes)
<1>1. Found(q, indexes) = Found(r, indexes)
  BY DEF Found, RootsOf
<1>2. KeyOf[q] = KeyOf[r] => Alike(q) = Alike(r)
  BY DEF Alike
<1>. QED
  BY <1>1, <1>2 DEF IsRanked, IsSifted

LEMMA ListsOfIndexes ==
    ASSUME NEW q, NEW results, NEW indexes \in SUBSET SUBSET Versions
    PROVE  /\ IsRanked(q, results, indexes) => results \in Lists
           /\ IsSifted(q, results, indexes) => results \in Lists /\ AreAnswers(q, ToSet(results), indexes)
<1>2. IsRanked(q, results, indexes) => results \in Lists
  BY RootsMatch, RankingIsList DEF IsRanked, Found
<1>3. ASSUME IsSifted(q, results, indexes)
      PROVE  results \in Lists /\ AreAnswers(q, ToSet(results), indexes)
  <2>1. PICK r \in Alike(q) : \E ranking \in Found(r, indexes) : results = Sift(ranking, Through(r))
    BY <1>3 DEF IsSifted
  <2>6. PICK found \in RootsOf(r, indexes) :
            \E ranking \in Rankings[found] : results = Sift(ranking, Through(r))
    BY <2>1 DEF Found
  <2>2. PICK ranking \in Rankings[found] : results = Sift(ranking, Through(r))
    BY <2>6
  <2>3. PICK I \in indexes : /\ found \in SUBSET Versions /\ found \subseteq I
                             /\ \A v \in found : ToSet(ParseOf[r].query) \subseteq v.words
    BY RootsMatch
  <2>4. results \in Lists /\ ToSet(results) \subseteq found \cap Through(r)
    BY <2>2, <2>3, SiftedRanking
  <2>5. ParseOf[r].query = ParseOf[q].query
    BY DEF Alike
  <2>. QED
    BY <2>3, <2>4, <2>5 DEF AreAnswers
<1>. QED
  BY <1>2, <1>3

\* What is under the keys of a question, if it is exact, is of that question.
LEMMA KeysAreRead ==
    ASSUME NEW q \in Questions, NEW results, NEW indexes
    PROVE  /\ IsExact(<<ParseOf[q].query>>, results, indexes) => IsRanked(q, results, indexes)
           /\ IsExact(<<ParseOf[q].query, KeyOf[q]>>, results, indexes) => IsSifted(q, results, indexes)
<1>1. \A a, b, c, d : /\ <<a>> = <<b>> => a = b
                      /\ <<a>> # <<b, c>>
                      /\ <<a, b>> = <<c, d>> => a = c /\ b = d
  OBVIOUS
<1>2. ASSUME IsExact(<<ParseOf[q].query>>, results, indexes)
      PROVE  IsRanked(q, results, indexes)
  <2>1. PICK r \in Questions : <<ParseOf[q].query>> = <<ParseOf[r].query>> /\ IsRanked(r, results, indexes)
    BY <1>1, <1>2 DEF IsExact
  <2>. QED
    BY <2>1, AlikeAnswers
<1>3. ASSUME IsExact(<<ParseOf[q].query, KeyOf[q]>>, results, indexes)
      PROVE  IsSifted(q, results, indexes)
  <2>1. PICK r \in Questions : <<ParseOf[q].query, KeyOf[q]>> = <<ParseOf[r].query, KeyOf[r]>>
                                 /\ IsSifted(r, results, indexes)
    BY <1>1, <1>3 DEF IsExact
  <2>2. ParseOf[q].query = ParseOf[r].query /\ KeyOf[q] = KeyOf[r]
    BY <2>1
  <2>. QED
    BY <2>1, <2>2, AlikeAnswers
<1>. QED
  BY <1>2, <1>3

\* What a step of one search leaves to be shown: the others stay as they are.
LEMMA OneSearchMoves ==
    ASSUME AnswersInv, NEW s \in Searches, UNCHANGED <<index, past>>,
           \A key \in DOMAIN cache' : IsExact(key, cache'[key], past),
           \/ pc' = [pc EXCEPT ![s] = pc'[s]],
           \A t \in Searches \ {s} : /\ asked'[t] = asked[t] /\ list'[t] = list[t]
                                     /\ shown'[t] = shown[t] /\ root'[t] = root[t],
           asked' \in [Searches -> Questions \cup {Nothing}], DOMAIN list' = Searches,
           DOMAIN shown' = Searches, DOMAIN root' = Searches,
           SearchInv(s)'
    PROVE  AnswersInv'
<1>1. \A t \in Searches \ {s} : SearchInv(t)'
  BY DEF AnswersInv, SearchInv, QueryOf
<1>2. pc'[s] \in PCs
  BY DEF SearchInv
<1>. QED
  BY <1>1, <1>2 DEF AnswersInv, IndexInv

LEMMA EmptyListIsList == <<>> \in Lists
<1>1. Cardinality(Versions) \in Nat
  BY ConstantsAssumption, FS_CardinalityType
<1>2. 0 \in 0..Cardinality(Versions) /\ <<>> \in [1..0 -> Versions]
  BY <1>1
<1>. QED
  BY <1>2 DEF Lists

LEMMA AnswersInit == Init => AnswersInv
<1> SUFFICES ASSUME Init
             PROVE  AnswersInv
  OBVIOUS
<1>1. IndexInv
  BY ConstantsAssumption DEF Init, IndexInv
<1>2. \A s \in Searches : SearchInv(s)
  BY EmptyListIsList DEF Init, SearchInv, PCs
<1>3. DOMAIN cache = {}
  BY DEF Init
<1>. QED
  BY <1>1, <1>2, <1>3 DEF Init, AnswersInv, PCs

LEMMA EnterAnswers ==
    ASSUME AnswersInv, NEW s \in Searches, Enter(s)
    PROVE  AnswersInv'
<1>1. PICK question \in Asks[s], label \in {"refused", "leave", "lookup"} :
          asked' = [asked EXCEPT ![s] = question] /\ pc' = [pc EXCEPT ![s] = label]
  BY DEF Enter, Goto
<1>2. question \in Questions
  BY <1>1 DEF Questions
<1>3. SearchInv(s) /\ SearchInv(s)'
  BY <1>1, <1>2 DEF AnswersInv, SearchInv, Enter, PCs
<1>4. asked' \in [Searches -> Questions \cup {Nothing}]
  BY <1>1, <1>2 DEF AnswersInv
<1>. QED
  BY <1>1, <1>3, <1>4, OneSearchMoves DEF AnswersInv, Enter

LEMMA LookUpAnswers ==
    ASSUME AnswersInv, NEW s \in Searches, LookUp(s)
    PROVE  AnswersInv'
<1>1. pc[s] = "lookup" /\ UNCHANGED <<index, cache, inFlight, asked, shown, root, past>>
  BY DEF LookUp
<1>2. SearchInv(s) /\ past \in SUBSET SUBSET Versions
  BY DEF AnswersInv, IndexInv
<1>3. asked[s] \in Questions
  BY <1>1, <1>2 DEF SearchInv
<1>4. SearchInv(s)' /\ DOMAIN list' = Searches /\ pc' = [pc EXCEPT ![s] = pc'[s]]
      /\ \A t \in Searches \ {s} : list'[t] = list[t]
  <2>1. CASE Hit(FilteredKey(s))
    <3>1. IsSifted(asked[s], cache[FilteredKey(s)], past)
      BY <2>1, <1>3, KeysAreRead DEF AnswersInv, Hit, FilteredKey, QueryOf
    <3>2. cache[FilteredKey(s)] \in Lists
      BY <1>2, <3>1, ListsOfIndexes
    <3>3. list' = [list EXCEPT ![s] = cache[FilteredKey(s)]] /\ pc' = [pc EXCEPT ![s] = "show"]
      BY <2>1 DEF LookUp, Goto
    <3>. QED
      BY <1>1, <1>2, <1>3, <3>1, <3>2, <3>3 DEF AnswersInv, SearchInv, PCs
  <2>2. CASE ~Hit(FilteredKey(s))
    <3>1. list' = list /\ pc' = [pc EXCEPT ![s] = "rank"]
      BY <2>2 DEF LookUp, Goto
    <3>. QED
      BY <1>1, <1>2, <1>3, <3>1 DEF AnswersInv, SearchInv, PCs
  <2>. QED
    BY <2>1, <2>2
<1>. QED
  BY <1>1, <1>4, OneSearchMoves DEF AnswersInv

LEMMA LookUpRawAnswers ==
    ASSUME AnswersInv, NEW s \in Searches, LookUpRaw(s)
    PROVE  AnswersInv'
<1>1. pc[s] = "rank" /\ UNCHANGED <<index, cache, inFlight, asked, shown, root, past>>
  BY DEF LookUpRaw
<1>2. SearchInv(s) /\ past \in SUBSET SUBSET Versions
  BY DEF AnswersInv, IndexInv
<1>3. asked[s] \in Questions
  BY <1>1, <1>2 DEF SearchInv
<1>4. SearchInv(s)' /\ DOMAIN list' = Searches /\ pc' = [pc EXCEPT ![s] = pc'[s]]
      /\ \A t \in Searches \ {s} : list'[t] = list[t]
  <2>1. CASE Hit(RawKey(s))
    <3>1. IsRanked(asked[s], cache[RawKey(s)], past)
      BY <2>1, <1>3, KeysAreRead DEF AnswersInv, Hit, RawKey, QueryOf
    <3>2. cache[RawKey(s)] \in Lists
      BY <1>2, <3>1, ListsOfIndexes
    <3>3. list' = [list EXCEPT ![s] = cache[RawKey(s)]] /\ pc' = [pc EXCEPT ![s] = "filter"]
      BY <2>1 DEF LookUpRaw, Goto
    <3>. QED
      BY <1>1, <1>2, <1>3, <3>1, <3>2, <3>3 DEF AnswersInv, SearchInv, PCs
  <2>2. CASE ~Hit(RawKey(s))
    <3>1. list' = list /\ pc' = [pc EXCEPT ![s] = "select"]
      BY <2>2 DEF LookUpRaw, Goto
    <3>. QED
      BY <1>1, <1>2, <1>3, <3>1 DEF AnswersInv, SearchInv, PCs
  <2>. QED
    BY <2>1, <2>2
<1>. QED
  BY <1>1, <1>4, OneSearchMoves DEF AnswersInv

LEMMA SelectAnswers ==
    ASSUME AnswersInv, NEW s \in Searches, Select(s)
    PROVE  AnswersInv'
<1>1. SearchInv(s) /\ index \in past /\ past \in SUBSET SUBSET Versions
  BY DEF AnswersInv, IndexInv
<1>2. /\ pc[s] = "select" /\ pc' = [pc EXCEPT ![s] = "keep"]
      /\ UNCHANGED <<index, cache, inFlight, asked, shown, past>>
  BY DEF Select, Goto
<1>8. PICK found \in RootSets(QueryOf(s), index) :
          /\ root' = [root EXCEPT ![s] = found]
          /\ \E ranking \in Rankings[found] : list' = [list EXCEPT ![s] = ranking]
  BY DEF Select
<1>3. found \in RootsOf(asked[s], past) /\ root'[s] = found
  BY <1>1, <1>8 DEF AnswersInv, RootsOf, QueryOf
<1>4. PICK ranking \in Rankings[found] : list' = [list EXCEPT ![s] = ranking]
  BY <1>8
<1>5. ranking \in Lists
  BY <1>1, <1>3, RootsMatch, RankingIsList
<1>6. asked[s] \in Questions
  BY <1>1, <1>2 DEF SearchInv
<1>7. SearchInv(s)'
  BY <1>1, <1>2, <1>3, <1>4, <1>5, <1>6 DEF SearchInv, PCs, AnswersInv
<1>. QED
  BY <1>2, <1>4, <1>7, <1>8, OneSearchMoves DEF AnswersInv

LEMMA KeepAnswers ==
    ASSUME AnswersInv, NEW s \in Searches, Keep(s)
    PROVE  AnswersInv'
<1>1. SearchInv(s) /\ past \in SUBSET SUBSET Versions
  BY DEF AnswersInv, IndexInv
<1>2. /\ pc[s] = "keep" /\ pc' = [pc EXCEPT ![s] = "filter"]
      /\ UNCHANGED <<index, inFlight, asked, list, shown, past>>
      /\ root' = [root EXCEPT ![s] = {}]
      /\ Insert(RawKey(s), list[s])
  BY DEF Keep, Goto
<1>3. asked[s] \in Questions
  BY <1>1, <1>2 DEF SearchInv
<1>4. IsRanked(asked[s], list[s], past)
  BY <1>1, <1>2 DEF SearchInv, IsRanked, Found
<1>5. IsExact(RawKey(s), list[s], past)
  BY <1>3, <1>4 DEF IsExact, RawKey, QueryOf
<1>6. \A key \in DOMAIN cache' : IsExact(key, cache'[key], past)
  BY <1>2, <1>5 DEF Insert, AnswersInv
<1>7. SearchInv(s)'
  BY <1>1, <1>2, <1>3, <1>4 DEF SearchInv, PCs, AnswersInv
<1>. QED
  BY <1>2, <1>6, <1>7, OneSearchMoves DEF AnswersInv

LEMMA FilterAnswers ==
    ASSUME AnswersInv, NEW s \in Searches, Filter(s)
    PROVE  AnswersInv'
<1> DEFINE kept == Sift(list[s], Passing(FilterOf(s)))
<1>1. SearchInv(s) /\ past \in SUBSET SUBSET Versions
  BY DEF AnswersInv, IndexInv
<1>2. /\ pc[s] = "filter" /\ pc' = [pc EXCEPT ![s] = "show"]
      /\ UNCHANGED <<index, inFlight, asked, shown, root, past>>
      /\ list' = [list EXCEPT ![s] = kept]
      /\ Insert(FilteredKey(s), kept)
  BY DEF Filter, Goto
<1>3. asked[s] \in Questions
  BY <1>1, <1>2 DEF SearchInv
<1>4. list[s] \in Found(asked[s], past) /\ asked[s] \in Alike(asked[s])
  BY <1>1, <1>2, <1>3 DEF SearchInv, IsRanked, Alike
<1>5. IsSifted(asked[s], kept, past)
  BY <1>4 DEF IsSifted, Through, FilterOf
<1> HIDE DEF kept
<1>6. kept \in Lists
  BY <1>1, <1>5, ListsOfIndexes
<1>7. IsExact(FilteredKey(s), kept, past)
  BY <1>3, <1>5 DEF IsExact, FilteredKey, QueryOf
<1>8. \A key \in DOMAIN cache' : IsExact(key, cache'[key], past)
  BY <1>2, <1>7 DEF Insert, AnswersInv
<1>9. SearchInv(s)'
  BY <1>1, <1>2, <1>3, <1>5, <1>6 DEF SearchInv, PCs, AnswersInv
<1>. QED
  BY <1>2, <1>8, <1>9, OneSearchMoves DEF AnswersInv

\* A page of results is a part of them.
LEMMA SliceIsPart ==
    ASSUME NEW results \in Lists, NEW page \in Nat \ {0}
    PROVE  ToSet(Slice(results, page)) \subseteq ToSet(results)
<1> DEFINE m == ItemsPerPage * (page - 1) + 1
           n == Less(ItemsPerPage * page, Len(results))
<1>1. Cardinality(Versions) \in Nat
  BY ConstantsAssumption, FS_CardinalityType
<1>2. PICK k \in Nat : results \in [1..k -> Versions]
  BY <1>1 DEF Lists
<1>3. results \in Seq(Versions) /\ Len(results) = k
  BY <1>2
<1>4. ItemsPerPage * (page - 1) \in Nat /\ ItemsPerPage * page \in Nat
  BY ConstantsAssumption
<1>5. m \in Nat \ {0} /\ n \in Nat /\ n =< Len(results)
  BY <1>3, <1>4 DEF Less
<1> HIDE DEF m, n
<1>6. \A i \in DOMAIN SubSeq(results, m, n) :
          SubSeq(results, m, n)[i] = results[i + m - 1] /\ i + m - 1 \in DOMAIN results
  BY <1>3, <1>5
<1>. QED
  BY <1>6 DEF Slice, ToSet, m, n

LEMMA ShowAnswers ==
    ASSUME AnswersInv, NEW s \in Searches, Show(s)
    PROVE  AnswersInv'
<1>1. SearchInv(s) /\ past \in SUBSET SUBSET Versions
  BY DEF AnswersInv, IndexInv
<1>2. /\ pc[s] = "show" /\ pc' = [pc EXCEPT ![s] = "leave"]
      /\ UNCHANGED <<index, cache, inFlight, asked, list, root, past>>
      /\ shown' = [shown EXCEPT ![s] = shown'[s]] /\ shown'[s] \subseteq index
      /\ \A w \in shown'[s] : \E v \in ToSet(Slice(list[s], asked[s].page)) : v.url = w.url
  BY DEF Show, Goto, AnswersInv
<1>3. asked[s] \in Questions /\ asked[s].page \in Nat \ {0}
  BY <1>1, <1>2, ConstantsAssumption DEF SearchInv, Questions
<1>4. AreAnswers(asked[s], ToSet(list[s]), past)
  BY <1>1, <1>2, ListsOfIndexes DEF SearchInv
<1>7. \A w \in shown'[s] : \E v \in ToSet(list[s]) : v.url = w.url
  BY <1>1, <1>2, <1>3, SliceIsPart DEF SearchInv
<1>5. AreShown(asked[s], shown'[s], past)
  <2>1. AreAnswers(asked[s], shown'[s], past)
    BY <1>4, <1>7 DEF AreAnswers
  <2>2. index \in past
    BY DEF AnswersInv, IndexInv
  <2>. QED
    BY <1>2, <2>1, <2>2 DEF AreShown
<1>6. SearchInv(s)'
  BY <1>1, <1>2, <1>3, <1>5 DEF SearchInv, PCs, AnswersInv
<1>. QED
  BY <1>2, <1>6, OneSearchMoves DEF AnswersInv

LEMMA LeaveAnswers ==
    ASSUME AnswersInv, NEW s \in Searches, Leave(s)
    PROVE  AnswersInv'
<1>1. SearchInv(s)
  BY DEF AnswersInv
<1>2. SearchInv(s)'
  BY <1>1, EmptyListIsList DEF SearchInv, PCs, Leave, Goto, AnswersInv
<1>. QED
  BY <1>2, OneSearchMoves DEF AnswersInv, Leave, Goto

\* The crawler adds an index to those there have been, with one row for a URL.
LEMMA ChangeAnswers ==
    ASSUME AnswersInv, Change
    PROVE  AnswersInv'
<1>1. /\ UNCHANGED <<cache, pc, asked, list, shown, root>>
      /\ past' = past \cup {index'} /\ past \subseteq past'
  BY DEF Change, request
<1>2. IndexInv'
  <2>1. index \subseteq Versions
    BY DEF AnswersInv, IndexInv
  <2>2. \/ \E v \in index : index' = index \ {v}
        \/ \E v \in Versions : index' = {w \in index : w.url # v.url} \cup {v}
    BY DEF Change
  <2>3. index' \subseteq Versions /\ \A v, w \in index' : v.url = w.url => v = w
    BY <2>1, <2>2 DEF AnswersInv, IndexInv
  <2>. QED
    BY <1>1, <2>3 DEF AnswersInv, IndexInv
<1>3. \A key \in DOMAIN cache' : IsExact(key, cache'[key], past')
  BY <1>1, LaterIndexes DEF AnswersInv
<1>4. ASSUME NEW s \in Searches
      PROVE  SearchInv(s)'
  <2>1. SearchInv(s)
    BY DEF AnswersInv
  <2>. QED
    BY <1>1, <2>1, LaterIndexes DEF SearchInv, QueryOf
<1>. QED
  BY <1>1, <1>2, <1>3, <1>4 DEF AnswersInv

LEMMA AnswersInductive == AnswersInv /\ [Next]_vars => AnswersInv'
<1> SUFFICES ASSUME AnswersInv, [Next]_vars
             PROVE  AnswersInv'
  OBVIOUS
<1>1. CASE Change
  BY <1>1, ChangeAnswers
<1>2. CASE Expire
  <2>1. \A key \in DOMAIN cache' : IsExact(key, cache'[key], past)
    BY <1>2 DEF Expire, AnswersInv
  <2>. QED
    BY <1>2, <2>1 DEF Expire, request, AnswersInv, IndexInv, SearchInv, QueryOf
<1>3. CASE UNCHANGED vars
  BY <1>3 DEF vars, request, AnswersInv, IndexInv, SearchInv, QueryOf
<1>4. ASSUME NEW s \in Searches, Enter(s) \/ Step(s)
      PROVE  AnswersInv'
  BY <1>4, EnterAnswers, LookUpAnswers, LookUpRawAnswers, SelectAnswers, KeepAnswers,
     FilterAnswers, ShowAnswers, LeaveAnswers DEF Step
<1>. QED
  BY <1>1, <1>2, <1>3, <1>4 DEF Next

LEMMA AnswersInvariant == SafeSpec => []AnswersInv
BY AnswersInit, AnswersInductive, PTL DEF SafeSpec

\* TypeOK: a page has one row in the index, and the cache and the searches
\* hold lists of pages no longer than there are pages.
THEOREM SearchTypeCorrect == SafeSpec => []TypeOK
<1>1. IInv /\ AnswersInv => TypeOK
  <2> SUFFICES ASSUME IInv, AnswersInv
               PROVE  TypeOK
    OBVIOUS
  <2>1. past \in SUBSET SUBSET Versions /\ index \subseteq Versions /\ IsFiniteSet(index)
    BY ConstantsAssumption, FS_Subset DEF AnswersInv, IndexInv
  <2>2. Cardinality({v.url : v \in index}) = Cardinality(index)
    <3> DEFINE urlOf == [v \in index |-> v.url]
    <3>1. urlOf \in Surjection(index, {v.url : v \in index})
      BY DEF Surjection
    <3>2. urlOf \in Injection(index, {v.url : v \in index})
      BY DEF AnswersInv, IndexInv, Injection, IsInjective
    <3>. QED
      BY <2>1, <3>1, <3>2, FS_Surjection
  <2>3. \A key \in DOMAIN cache : cache[key] \in Lists
    <3> SUFFICES ASSUME NEW key \in DOMAIN cache
                 PROVE  cache[key] \in Lists
      OBVIOUS
    <3>1. IsExact(key, cache[key], past)
      BY DEF AnswersInv
    <3>. QED
      BY <2>1, <3>1, ListsOfIndexes DEF IsExact
  <2>4. asked \in [Searches -> Questions \cup {Nothing}]
    BY DEF AnswersInv
  <2>5. ASSUME NEW s \in Searches
        PROVE  list[s] \in Lists /\ shown[s] \subseteq Versions /\ root[s] \subseteq Versions
    <3>1. SearchInv(s)
      BY DEF AnswersInv
    <3>. QED
      BY <2>1, <3>1, RootsMatch DEF SearchInv, AreShown
  <2>. QED
    BY <2>1, <2>2, <2>3, <2>4, <2>5 DEF TypeOK, IInv
<1>. QED
  BY <1>1, InitIInv, Inductive, AnswersInvariant, PTL DEF SafeSpec

\* NoContentIsLost: the loop of pageSearch that merges pages of one content
\* leaves one of each, whatever the order and the scores.
THEOREM ContentIsKept == SafeSpec => []NoContentIsLost
<1>1. AnswersInv => NoContentIsLost
  <2> SUFFICES ASSUME AnswersInv, NEW s \in Searches, NEW v \in root[s]
               PROVE  \E w \in ToSet(list[s]) : w.hash = v.hash
    BY DEF NoContentIsLost
  <2>1. SearchInv(s) /\ past \in SUBSET SUBSET Versions
    BY DEF AnswersInv, IndexInv
  <2>2. root[s] \in SUBSET Versions /\ list[s] \in Rankings[root[s]]
    BY <2>1, RootsMatch DEF SearchInv
  <2>. QED
    BY <2>2, RankingFacts DEF Holding
<1>. QED
  BY <1>1, AnswersInvariant, PTL

\* What the cache of result lists means, whatever the questions: under the words
\* of a question is a ranking of what one index had for them, under its filter
\* too what evalFilter lets through of such a ranking.
THEOREM CacheIsOneRanking ==
    SafeSpec => [](\A key \in DOMAIN cache : IsExact(key, cache[key], past))
<1>1. AnswersInv => \A key \in DOMAIN cache : IsExact(key, cache[key], past)
  BY DEF AnswersInv
<1>. QED
  BY <1>1, AnswersInvariant, PTL

-----------------------------------------------------------------------------
(* A question, word by word *)

IsQuestion(ws) ==
    /\ ws \in Seq(ToSet(ws))
    /\ \A i \in DOMAIN ws : ws[i].is \in Kinds \cup {"text", "not", "badsize", "nonumber"}

IsNegated(ws, i) == i > 1 /\ ws[i - 1].is = "not"

\* What parseSearchQuery makes of the words when it has read them all.
Finished(parse) ==
    [query |-> WithTitles(parse.query, [i \in DOMAIN parse.filter.intitle |-> parse.filter.intitle[i].value]),
     filter |-> parse.filter, thrown |-> parse.thrown]

\* The constraints of a filter, as sequences of what the words may say.
Parses(ws) ==
    LET Values == {ws[i].value : i \in DOMAIN ws}
        Sizes  == {ws[i].size : i \in DOMAIN ws}
        Texts  == {ws[i].text : i \in DOMAIN ws} \cup {<<"not">>}
        Plain  == Seq([value : Values, negate : BOOLEAN])
    IN  [query : Seq(Texts), negate : BOOLEAN, thrown : BOOLEAN,
         filter : [content_type : Plain, domain : Plain, intitle : Plain,
                   size : Seq([size : Sizes, greater : BOOLEAN])]]

LEMMA ReadWordIsParse ==
    ASSUME NEW ws, IsQuestion(ws), NEW i \in DOMAIN ws, NEW parse \in Parses(ws)
    PROVE  ReadWord(ws, parse, i) \in Parses(ws)
<1> DEFINE Values == {ws[j].value : j \in DOMAIN ws}
           Sizes == {ws[j].size : j \in DOMAIN ws}
           Texts == {ws[j].text : j \in DOMAIN ws} \cup {<<"not">>}
           Plain == Seq([value : Values, negate : BOOLEAN])
<1>1. /\ parse \in [query : Seq(Texts), negate : BOOLEAN, thrown : BOOLEAN,
                    filter : [content_type : Plain, domain : Plain, intitle : Plain,
                              size : Seq([size : Sizes, greater : BOOLEAN])]]
  BY DEF Parses
<1>2. /\ ws[i].value \in Values /\ ws[i].size \in Sizes
      /\ ws[i].text \in Texts /\ <<"not">> \in Texts
  OBVIOUS
<1>3. \A text \in Texts : Append(parse.query, text) \in Seq(Texts)
  BY <1>1
<1>4. Append(parse.filter.size, [size |-> ws[i].size, greater |-> parse.negate # ws[i].greater])
      \in Seq([size : Sizes, greater : BOOLEAN])
  BY <1>1, <1>2
<1>5. [value |-> ws[i].value, negate |-> parse.negate] \in [value : Values, negate : BOOLEAN]
  BY <1>1, <1>2
<1>6. /\ Append(parse.filter.domain, [value |-> ws[i].value, negate |-> parse.negate]) \in Plain
      /\ Append(parse.filter.content_type, [value |-> ws[i].value, negate |-> parse.negate]) \in Plain
      /\ Append(parse.filter.intitle, [value |-> ws[i].value, negate |-> parse.negate]) \in Plain
  BY <1>1, <1>5
<1> HIDE DEF Values, Sizes, Texts, Plain
<1>7. CASE ws[i].is = "text"
  BY <1>1, <1>2, <1>3, <1>7 DEF ReadWord, Parses, Values, Sizes, Texts, Plain
<1>8. CASE ws[i].is = "not"
  BY <1>1, <1>2, <1>3, <1>8 DEF ReadWord, Parses, Values, Sizes, Texts, Plain
<1>9. CASE ws[i].is \in {"badsize", "nonumber"}
  BY <1>1, <1>9 DEF ReadWord, Parses, Values, Sizes, Texts, Plain
<1>10. CASE ws[i].is = "size"
  BY <1>1, <1>4, <1>10 DEF ReadWord, Constrain, Parses, Values, Sizes, Texts, Plain
<1>11. CASE ws[i].is = "domain"
  BY <1>1, <1>6, <1>11 DEF ReadWord, Constrain, Parses, Values, Sizes, Texts, Plain
<1>12. CASE ws[i].is = "content_type"
  BY <1>1, <1>6, <1>12 DEF ReadWord, Constrain, Parses, Values, Sizes, Texts, Plain
<1>13. CASE ws[i].is = "intitle"
  BY <1>1, <1>6, <1>13 DEF ReadWord, Constrain, Parses, Values, Sizes, Texts, Plain
<1>. QED
  BY <1>7, <1>8, <1>9, <1>10, <1>11, <1>12, <1>13 DEF IsQuestion, Kinds

\* parseSearchQuery reads the words in their order.
IsReading(k, ws, n) == k[0] = Unread /\ \A m \in 1..n : k[m] = ReadWord(ws, k[m - 1], m)

LEMMA ParseRuns ==
    ASSUME NEW ws, IsQuestion(ws)
    PROVE  \E k : IsReading(k, ws, Len(ws)) /\ ParseQuery(ws) = Finished(k[Len(ws)])
<1> DEFINE n == Len(ws)
           step == [i \in 1..n |-> [parse \in Parses(ws) |-> ReadWord(ws, parse, i)]]
           At(h, places) == IF places = {} THEN Unread
                            ELSE ReadWord(ws, h[places \ {Max(places)}],
                                          [i \in DOMAIN ws |-> i][Max(places)])
<1>1. n \in Nat /\ DOMAIN ws = 1..n
  BY DEF IsQuestion
<1>2. Unread \in Parses(ws)
  BY DEF Unread, Parses
<1>3. step \in [1..n -> [Parses(ws) -> Parses(ws)]]
  BY <1>1, ReadWordIsParse
<1>4. PICK h \in [SUBSET (1..n) -> Parses(ws)] : IsFold(h, Unread, step, n)
  <2> HIDE DEF step, n
  <2>. QED
    BY <1>1, <1>2, <1>3, FoldExists
<1>5. \A places \in SUBSET (1..n) : h[places] = At(h, places)
  <2> SUFFICES ASSUME NEW places \in SUBSET (1..n), places # {}
               PROVE  h[places] = At(h, places)
    BY <1>4 DEF IsFold
  <2>1. h[places] = step[Max(places)][h[places \ {Max(places)}]]
    BY <1>4 DEF IsFold
  <2>2. Max(places) \in 1..n
    BY <1>1, MaxIsAmong
  <2>3. h[places \ {Max(places)}] \in Parses(ws)
    BY <1>4
  <2> HIDE DEF n
  <2>. QED
    BY <1>1, <2>1, <2>2, <2>3
<1>6. h = [places \in SUBSET (1..n) |-> At(h, places)]
  <2> HIDE DEF At, n
  <2>. QED
    BY <1>4, <1>5
<1>7. ParseQuery(ws) = Finished((CHOOSE g : g = [places \in SUBSET (1..n) |-> At(g, places)])[1..n])
  <2>1. DOMAIN [i \in DOMAIN ws |-> i] = 1..n
    BY <1>1
  <2>. QED
    BY <2>1 DEF ParseQuery, Finished, FoldLeftDomain, FoldLeft, MapThenFoldSet
<1> HIDE DEF At, step, n
<1>8. PICK g : g = [places \in SUBSET (1..n) |-> At(g, places)] /\ ParseQuery(ws) = Finished(g[1..n])
  BY <1>6, <1>7
<1> DEFINE k == [m \in 0..n |-> g[1..m]]
<1>9. k[0] = Unread
  BY <1>1, <1>8, PlacesUpTo DEF At
<1>10. ASSUME NEW m \in 1..n
       PROVE  k[m] = ReadWord(ws, k[m - 1], m)
  <2>1. g[1..m] = At(g, 1..m)
    BY <1>1, <1>8, PlacesUpTo
  <2>2. k[m] = g[1..m] /\ k[m - 1] = g[1..(m - 1)]
    BY <1>1
  <2>3. [i \in DOMAIN ws |-> i][m] = m
    BY <1>1
  <2> HIDE DEF k
  <2>. QED
    BY <1>1, <2>1, <2>2, <2>3, PlacesUpTo DEF At
<1>11. ParseQuery(ws) = Finished(k[n])
  BY <1>1, <1>8
<1> HIDE DEF k
<1>. QED
  BY <1>9, <1>10, <1>11 DEF IsReading, n

\* A NOT is pending when the last word is one, and a filter follows.
Pending(ws, m) == m > 0 /\ ws[m].is = "not" /\ m < Len(ws) /\ IsFilter(ws[m + 1])

LEMMA PlaceIs ==
    ASSUME NEW places \in SUBSET (Nat \ {0}), NEW m \in Nat
    PROVE  /\ IsFiniteSet(places \cap (1..m)) /\ Cardinality(places \cap (1..m)) \in Nat
           /\ Place(places, m) = Cardinality(places \cap (1..m))
           /\ \A i \in places \cap (1..m) : Place(places, i) \in 1..Place(places, m)
<1>1. ASSUME NEW i \in Nat
      PROVE  /\ IsFiniteSet(places \cap (1..i)) /\ Cardinality(places \cap (1..i)) \in Nat
             /\ Place(places, i) = Cardinality(places \cap (1..i))
  <2>1. {j \in places : j =< i} = places \cap (1..i)
    <3>1. \A j \in places : j \in Nat /\ j # 0
      OBVIOUS
    <3>2. \A j \in places : j =< i <=> j \in 1..i
      BY <3>1
    <3>. QED
      BY <3>2
  <2>2. IsFiniteSet(1..i)
    BY FS_Interval
  <2>3. places \cap (1..i) \subseteq 1..i
    OBVIOUS
  <2>4. IsFiniteSet(places \cap (1..i))
    BY <2>2, <2>3, FS_Subset
  <2>. QED
    BY <2>1, <2>4, FS_CardinalityType DEF Place
<1>2. ASSUME NEW i \in places \cap (1..m)
      PROVE  Place(places, i) \in 1..Place(places, m)
  <2>1. i \in Nat /\ i \in places \cap (1..i) /\ places \cap (1..i) \subseteq places \cap (1..m)
    OBVIOUS
  <2>2. Cardinality(places \cap (1..i)) # 0
    BY <1>1, <2>1, FS_EmptySet
  <2>3. Cardinality(places \cap (1..i)) =< Cardinality(places \cap (1..m))
    BY <1>1, <2>1, FS_Subset
  <2>4. /\ Place(places, i) = Cardinality(places \cap (1..i)) /\ Place(places, i) \in Nat
        /\ Place(places, m) = Cardinality(places \cap (1..m)) /\ Place(places, m) \in Nat
    BY <1>1, <2>1
  <2>. QED
    BY <2>2, <2>3, <2>4
<1>. QED
  BY <1>1, <1>2

\* The places up to m have all got into row, in their order.
Collected(row, places, m, said) ==
    /\ Len(row) = Place(places, m)
    /\ \A i \in places \cap (1..m) : row[Place(places, i)] = said[i]

LEMMA NextIsCollected ==
    ASSUME NEW places \in SUBSET (Nat \ {0}), NEW m \in Nat, NEW said, NEW S, NEW row \in Seq(S),
           m + 1 \in places => said[m + 1] \in S, Collected(row, places, m, said)
    PROVE  Collected(IF m + 1 \in places THEN Append(row, said[m + 1]) ELSE row, places, m + 1, said)
<1>1. CASE m + 1 \in places
  <2>1. places \cap (1..(m + 1)) = (places \cap (1..m)) \cup {m + 1}
    BY <1>1
  <2>2. m + 1 \notin places \cap (1..m)
    OBVIOUS
  <2>3. Place(places, m + 1) = Place(places, m) + 1 /\ Place(places, m) \in Nat
    <3>1. m + 1 \in Nat
      OBVIOUS
    <3>2. Place(places, m + 1) = Cardinality(places \cap (1..(m + 1)))
      BY <3>1, PlaceIs
    <3>3. Cardinality((places \cap (1..m)) \cup {m + 1}) = Cardinality(places \cap (1..m)) + 1
      BY <2>2, PlaceIs, FS_AddElement
    <3>. QED
      BY <2>1, <3>2, <3>3, PlaceIs
  <2>4. /\ Len(Append(row, said[m + 1])) = Len(row) + 1
        /\ Append(row, said[m + 1])[Len(row) + 1] = said[m + 1]
        /\ \A p \in 1..Len(row) : Append(row, said[m + 1])[p] = row[p]
    BY <1>1
  <2>5. \A i \in places \cap (1..m) : Place(places, i) \in 1..Len(row)
    BY PlaceIs DEF Collected
  <2>. QED
    BY <1>1, <2>1, <2>3, <2>4, <2>5 DEF Collected
<1>2. CASE m + 1 \notin places
  <2>1. places \cap (1..(m + 1)) = places \cap (1..m)
    BY <1>2
  <2>2. Place(places, m + 1) = Place(places, m)
    <3>1. m + 1 \in Nat
      OBVIOUS
    <3>2. Place(places, m + 1) = Cardinality(places \cap (1..(m + 1)))
      BY <3>1, PlaceIs
    <3>. QED
      BY <2>1, <3>2, PlaceIs
  <2>. QED
    BY <1>2, <2>1, <2>2 DEF Collected
<1>. QED
  BY <1>1, <1>2

\* What the words say, place by place.
SaidOf(kind) ==
    [i \in DOMAIN words |->
        IF kind = "size" THEN [size |-> words[i].size, greater |-> words[i].greater # Negated(i)]
        ELSE [value |-> words[i].value, negate |-> Negated(i)]]
SaidTexts == [i \in DOMAIN words |-> TextOf(i)]

\* The invariant of the loop.
IsTaken(parse, m) ==
    /\ parse \in Parses(words)
    /\ parse.negate <=> Pending(words, m)
    /\ parse.thrown <=> \E i \in 1..m : words[i].is = "nonumber"
    /\ \A kind \in Kinds : Collected(parse.filter[kind], Of(kind), m, SaidOf(kind))
    /\ Collected(parse.query, Spoken, m, SaidTexts)

\* One word: where it goes, and whether it leaves a NOT to the next one.
LEMMA WordGoes ==
    ASSUME IsQuestion(words), NEW m \in Nat, m + 1 =< Len(words),
           NEW parse \in Parses(words), parse.negate <=> Pending(words, m)
    PROVE  LET read == ReadWord(words, parse, m + 1)
           IN  /\ read.negate <=> Pending(words, m + 1)
               /\ read.thrown <=> parse.thrown \/ words[m + 1].is = "nonumber"
               /\ \A kind \in Kinds :
                     read.filter[kind] = IF m + 1 \in Of(kind)
                                           THEN Append(parse.filter[kind], SaidOf(kind)[m + 1])
                                           ELSE parse.filter[kind]
               /\ read.query = IF m + 1 \in Spoken THEN Append(parse.query, SaidTexts[m + 1])
                               ELSE parse.query
<1> DEFINE Values == Seq([value : {words[j].value : j \in DOMAIN words}, negate : BOOLEAN])
           Bounds == Seq([size : {words[j].size : j \in DOMAIN words}, greater : BOOLEAN])
           Texts == Seq({words[i].text : i \in DOMAIN words} \cup {<<"not">>})
           word == words[m + 1]
           read == ReadWord(words, parse, m + 1)
<1>1. m + 1 \in DOMAIN words /\ Len(words) \in Nat /\ DOMAIN words = 1..Len(words)
  BY DEF IsQuestion
<1>2. parse \in [query : Texts, negate : BOOLEAN, thrown : BOOLEAN,
                 filter : [content_type : Values, domain : Values, intitle : Values, size : Bounds]]
  BY DEF Parses
<1> HIDE DEF Values, Bounds, Texts
<1>3. Negated(m + 1) <=> m > 0 /\ words[m].is = "not"
  BY DEF Negated
<1>4. /\ IsFilter(word) => (parse.negate <=> Negated(m + 1))
      /\ ~IsFilter(word) => ~parse.negate
  BY <1>3 DEF Pending
<1>5. parse.negate \in BOOLEAN /\ Negated(m + 1) \in BOOLEAN
  BY <1>2 DEF Negated
<1>6. IsFilter(word) => parse.negate = Negated(m + 1)
  BY <1>4, <1>5
<1>7. /\ SaidTexts[m + 1] = IF word.is = "text" THEN word.text ELSE <<"not">>
      /\ SaidOf("size")[m + 1] = [size |-> word.size, greater |-> word.greater # Negated(m + 1)]
      /\ \A kind \in Kinds \ {"size"} :
            SaidOf(kind)[m + 1] = [value |-> word.value, negate |-> Negated(m + 1)]
  BY <1>1 DEF SaidTexts, TextOf, SaidOf
<1>8. /\ m + 1 \in Spoken <=> word.is = "text" \/ Idle(m + 1)
      /\ \A kind : m + 1 \in Of(kind) <=> word.is = kind
  BY <1>1 DEF Spoken, Of
<1>9. Idle(m + 1) <=> word.is = "not" /\ ~Pending(words, m + 1)
  BY <1>1 DEF Idle, Pending
<1>10. CASE word.is = "text"
  <2>1. ~Pending(words, m + 1) /\ ~IsFilter(word)
    BY <1>10 DEF Pending, IsFilter, Kinds
  <2>2. /\ read.query = Append(parse.query, word.text)
        /\ read.negate = parse.negate /\ read.filter = parse.filter /\ read.thrown = parse.thrown
    BY <1>2, <1>10 DEF ReadWord
  <2>. QED
    BY <1>4, <1>7, <1>8, <1>10, <2>1, <2>2 DEF Kinds
<1>11. CASE word.is = "not"
  <2>1. ~IsFilter(word)
    BY <1>11 DEF IsFilter, Kinds
  <2>2. CASE Pending(words, m + 1)
    <3>1. /\ read.query = parse.query /\ read.negate = TRUE /\ read.filter = parse.filter
          /\ read.thrown = parse.thrown
      BY <1>2, <1>11, <2>2 DEF ReadWord, Pending
    <3>. QED
      BY <1>8, <1>9, <1>11, <2>2, <3>1 DEF Kinds
  <2>3. CASE ~Pending(words, m + 1)
    <3>2. ~(m + 1 < Len(words) /\ IsFilter(words[(m + 1) + 1]))
      BY <1>11, <2>3 DEF Pending
    <3>3. read = [parse EXCEPT !.query = Append(@, <<"not">>)]
      BY <1>11, <3>2 DEF ReadWord
    <3>1. /\ read.query = Append(parse.query, <<"not">>)
          /\ read.negate = parse.negate /\ read.filter = parse.filter /\ read.thrown = parse.thrown
      BY <1>2, <3>3
    <3>. QED
      BY <1>4, <1>7, <1>8, <1>9, <1>11, <2>1, <2>3, <3>1 DEF Kinds
  <2>. QED
    BY <2>2, <2>3
<1>12. CASE word.is \in {"badsize", "nonumber"}
  <2>1. /\ read.query = parse.query /\ read.negate = FALSE /\ read.filter = parse.filter
        /\ read.thrown <=> parse.thrown \/ word.is = "nonumber"
    BY <1>2, <1>12 DEF ReadWord
  <2>2. ~Pending(words, m + 1)
    BY <1>12 DEF Pending
  <2>. QED
    BY <1>8, <1>9, <1>12, <2>1, <2>2 DEF Kinds
<1>13. CASE word.is \in Kinds
  <2>1. IsFilter(word) /\ ~Pending(words, m + 1) /\ m + 1 \notin Spoken
    BY <1>8, <1>13 DEF IsFilter, Pending, Kinds, Idle
  <2>2. SaidOf(word.is)[m + 1] =
            IF word.is = "size" THEN [size |-> word.size, greater |-> parse.negate # word.greater]
            ELSE [value |-> word.value, negate |-> parse.negate]
    BY <1>6, <1>7, <1>13, <2>1
  <2>3. read = Constrain(parse, word.is, SaidOf(word.is)[m + 1])
    BY <1>13, <2>2 DEF ReadWord, Kinds
  <2>4. /\ read.query = parse.query /\ read.negate = FALSE /\ read.thrown = parse.thrown
        /\ \A kind \in Kinds :
              read.filter[kind] = IF kind = word.is THEN Append(parse.filter[kind], SaidOf(kind)[m + 1])
                                  ELSE parse.filter[kind]
    <3> PICK said : said = SaidOf(word.is)[m + 1]
      OBVIOUS
    <3>1. read = Constrain(parse, word.is, said)
      BY <2>3
    <3> HIDE DEF read
    <3>2. CASE word.is = "content_type"
      BY <1>2, <3>1, <3>2 DEF Constrain, Kinds
    <3>3. CASE word.is = "domain"
      BY <1>2, <3>1, <3>3 DEF Constrain, Kinds
    <3>4. CASE word.is = "size"
      BY <1>2, <3>1, <3>4 DEF Constrain, Kinds
    <3>5. CASE word.is = "intitle"
      BY <1>2, <3>1, <3>5 DEF Constrain, Kinds
    <3>. QED
      BY <1>13, <3>2, <3>3, <3>4, <3>5 DEF Kinds
  <2>. QED
    BY <1>8, <1>13, <2>1, <2>4 DEF Kinds
<1>. QED
  BY <1>1, <1>10, <1>11, <1>12, <1>13 DEF IsQuestion

LEMMA WordIsTaken ==
    ASSUME IsQuestion(words), NEW m \in Nat, m + 1 =< Len(words), NEW parse, IsTaken(parse, m)
    PROVE  IsTaken(ReadWord(words, parse, m + 1), m + 1)
<1> DEFINE read == ReadWord(words, parse, m + 1)
<1>1. /\ m + 1 \in DOMAIN words /\ DOMAIN words = 1..Len(words) /\ Len(words) \in Nat
      /\ parse \in Parses(words)
  BY DEF IsQuestion, IsTaken
<1>2. read \in Parses(words)
  BY <1>1, ReadWordIsParse
<1>3. Spoken \in SUBSET (Nat \ {0}) /\ \A kind : Of(kind) \in SUBSET (Nat \ {0})
  BY <1>1 DEF Spoken, Of
<1>4. /\ read.negate <=> Pending(words, m + 1)
      /\ read.thrown <=> parse.thrown \/ words[m + 1].is = "nonumber"
      /\ \A kind \in Kinds :
            read.filter[kind] = IF m + 1 \in Of(kind)
                                  THEN Append(parse.filter[kind], SaidOf(kind)[m + 1])
                                  ELSE parse.filter[kind]
      /\ read.query = IF m + 1 \in Spoken THEN Append(parse.query, SaidTexts[m + 1])
                      ELSE parse.query
  BY WordGoes DEF IsTaken
<1> HIDE DEF read
<1>5. Collected(read.query, Spoken, m + 1, SaidTexts)
  <2> DEFINE S == {words[i].text : i \in DOMAIN words} \cup {<<"not">>}
  <2>1. parse.query \in Seq(S)
    BY <1>1 DEF Parses
  <2>2. SaidTexts[m + 1] \in S
    BY <1>1 DEF SaidTexts, TextOf
  <2> HIDE DEF S
  <2>3. Collected(parse.query, Spoken, m, SaidTexts)
    BY DEF IsTaken
  <2>4. Collected(IF m + 1 \in Spoken THEN Append(parse.query, SaidTexts[m + 1]) ELSE parse.query,
                  Spoken, m + 1, SaidTexts)
    BY <1>3, <2>1, <2>2, <2>3, NextIsCollected
  <2>. QED
    BY <1>4, <2>4
<1>6. ASSUME NEW kind \in Kinds
      PROVE  Collected(read.filter[kind], Of(kind), m + 1, SaidOf(kind))
  <2>1. PICK S : parse.filter[kind] \in Seq(S) /\ SaidOf(kind)[m + 1] \in S
    <3>1. CASE kind = "size"
      <4>1. parse.filter.size \in Seq([size : {words[i].size : i \in DOMAIN words}, greater : BOOLEAN])
        BY <1>1 DEF Parses
      <4>2. SaidOf(kind)[m + 1] \in [size : {words[i].size : i \in DOMAIN words}, greater : BOOLEAN]
        BY <1>1, <3>1 DEF SaidOf
      <4>. QED
        BY <3>1, <4>1, <4>2
    <3>2. CASE kind # "size"
      <4>1. parse.filter[kind] \in Seq([value : {words[i].value : i \in DOMAIN words}, negate : BOOLEAN])
        BY <1>1, <3>2 DEF Parses, Kinds
      <4>2. SaidOf(kind)[m + 1] \in [value : {words[i].value : i \in DOMAIN words}, negate : BOOLEAN]
        BY <1>1, <3>2 DEF SaidOf, Negated
      <4>. QED
        BY <4>1, <4>2
    <3>. QED
      BY <3>1, <3>2
  <2>2. Collected(parse.filter[kind], Of(kind), m, SaidOf(kind))
    BY DEF IsTaken
  <2>3. Collected(IF m + 1 \in Of(kind) THEN Append(parse.filter[kind], SaidOf(kind)[m + 1])
                  ELSE parse.filter[kind],
                  Of(kind), m + 1, SaidOf(kind))
    BY <1>3, <2>1, <2>2, NextIsCollected
  <2>. QED
    BY <1>4, <2>3
<1>7. read.thrown <=> \E i \in 1..(m + 1) : words[i].is = "nonumber"
  <2>1. parse.thrown <=> \E i \in 1..m : words[i].is = "nonumber"
    BY DEF IsTaken
  <2>2. \A i : i \in 1..(m + 1) <=> i \in 1..m \/ i = m + 1
    OBVIOUS
  <2>. QED
    BY <1>4, <2>1, <2>2
<1>. QED
  BY <1>2, <1>4, <1>5, <1>6, <1>7 DEF IsTaken, read

LEMMA QuestionIsTaken ==
    ASSUME IsQuestion(words)
    PROVE  \E parse : IsTaken(parse, Len(words)) /\ ParseQuery(words) = Finished(parse)
<1>1. PICK k : IsReading(k, words, Len(words)) /\ ParseQuery(words) = Finished(k[Len(words)])
  BY ParseRuns
<1>2. Len(words) \in Nat /\ DOMAIN words = 1..Len(words)
  BY DEF IsQuestion
<1> DEFINE Taken(m) == IsTaken(k[m], m)
           Takens == {m \in Nat : m =< Len(words) => Taken(m)}
<1>3. Taken(0)
  <2>1. Spoken \in SUBSET (Nat \ {0}) /\ \A kind : Of(kind) \in SUBSET (Nat \ {0})
    BY <1>2 DEF Spoken, Of
  <2>2. \A places, said : places \in SUBSET (Nat \ {0}) => Collected(<<>>, places, 0, said)
    <3> SUFFICES ASSUME NEW places \in SUBSET (Nat \ {0}), NEW said
                 PROVE  Collected(<<>>, places, 0, said)
      OBVIOUS
    <3>1. places \cap (1..0) = {}
      OBVIOUS
    <3>2. Place(places, 0) = 0
      BY <3>1, PlaceIs, FS_EmptySet
    <3>. QED
      BY <3>1, <3>2 DEF Collected
  <2>3. Unread \in Parses(words) /\ ~Pending(words, 0) /\ Unread.negate = FALSE
    BY DEF Unread, Parses, Pending
  <2>4. Unread.query = <<>> /\ Unread.thrown = FALSE /\ \A kind \in Kinds : Unread.filter[kind] = <<>>
    BY DEF Unread, Kinds
  <2>5. k[0] = Unread
    BY <1>1 DEF IsReading
  <2>6. Unread.thrown <=> \E i \in 1..0 : words[i].is = "nonumber"
    BY <2>4
  <2>. QED
    BY <2>1, <2>2, <2>3, <2>4, <2>5, <2>6 DEF IsTaken
<1>4. ASSUME NEW m \in Nat, Taken(m), m + 1 =< Len(words)
      PROVE  Taken(m + 1)
  <2>1. k[m + 1] = ReadWord(words, k[m], m + 1)
    <3>1. m + 1 \in 1..Len(words) /\ (m + 1) - 1 = m
      BY <1>2, <1>4
    <3>. QED
      BY <1>1, <3>1 DEF IsReading
  <2>. QED
    BY <1>4, <2>1, WordIsTaken
<1>5. Len(words) \in Takens
  <2> HIDE DEF Taken
  <2>1. \A m \in Nat : m \in Takens => m + 1 \in Takens
    <3> SUFFICES ASSUME NEW m \in Nat, m =< Len(words) => Taken(m), m + 1 =< Len(words)
                 PROVE  Taken(m + 1)
      OBVIOUS
    <3>1. m =< Len(words)
      BY <1>2
    <3>. QED
      BY <1>4, <3>1
  <2>2. 0 \in Takens
    BY <1>3
  <2> HIDE DEF Takens
  <2>. QED
    BY <1>2, <2>1, <2>2, NatInSet
<1>. QED
  BY <1>1, <1>2, <1>5

LEMMA Joined ==
    ASSUME NEW S, NEW front \in Seq(S), NEW rear \in Seq(S)
    PROVE  /\ front \o rear \in Seq(S)
           /\ Len(front \o rear) = Len(front) + Len(rear)
           /\ Len(front) \in Nat /\ Len(rear) \in Nat
           /\ \A p \in 1..Len(front) : (front \o rear)[p] = front[p]
           /\ \A p \in 1..Len(rear) : (front \o rear)[Len(front) + p] = rear[p]
  OBVIOUS

LEMMA JustOne ==
    ASSUME NEW S, NEW e \in S
    PROVE  <<e>> \in Seq(S) /\ Len(<<e>>) = 1 /\ <<e>>[1] = e
  OBVIOUS

\* Where the titles go.
TitlesAreLast(all, query, titles, shared) ==
    /\ Len(all) = Len(query) + Len(titles) - shared
    /\ \A p \in 1..Len(query) : p =< Len(query) - shared => all[p] = query[p]
    /\ \A p \in 1..Len(titles) : p > shared => all[Len(query) + p - shared] = titles[p]
    /\ shared = 1 => all[Len(query)] = query[Len(query)] \o titles[1]

LEMMA TitlesGoLast ==
    ASSUME NEW S, NEW query \in Seq(S), NEW titles \in Seq(S), NEW shared \in {0, 1},
           shared = 1 <=> query # <<>> /\ titles # <<>>
    PROVE  TitlesAreLast(WithTitles(query, titles), query, titles, shared)
<1> DEFINE n == Len(query)
<1>1. n \in Nat /\ Len(titles) \in Nat
  OBVIOUS
<1>2. CASE shared = 0
  <2>2. query = <<>> \/ titles = <<>>
    BY <1>2
  <2>1. WithTitles(query, titles) = query \o titles
    BY <2>2 DEF WithTitles
  <2>. QED
    BY <1>1, <1>2, <2>1 DEF TitlesAreLast
<1>3. CASE shared = 1
  <2> DEFINE joint == Last(query) \o Head(titles)
             T == S \cup {joint}
  <2>1. n > 0 /\ Len(titles) > 0 /\ query \in Seq(T) /\ titles \in Seq(T)
    BY <1>3
  <2>2. Last(query) = query[n] /\ Head(titles) = titles[1]
    BY <2>1 DEF Last
  <2>3. joint \in T /\ joint = query[n] \o titles[1]
    BY <2>2
  <2> HIDE DEF joint, T
  <2>4. /\ Front(query) \in Seq(T) /\ Len(Front(query)) = n - 1
        /\ \A p \in 1..(n - 1) : Front(query)[p] = query[p]
    <3>1. Front(query) = [p \in 1..(n - 1) |-> query[p]]
      BY <1>1, <2>1 DEF Front
    <3>2. n - 1 \in Nat /\ \A p \in 1..(n - 1) : query[p] \in T
      BY <1>1, <2>1
    <3> HIDE DEF n
    <3>. QED
      BY <3>1, <3>2
  <2>5. /\ Tail(titles) \in Seq(T) /\ Len(Tail(titles)) = Len(titles) - 1
        /\ \A p \in 1..(Len(titles) - 1) : Tail(titles)[p] = titles[p + 1]
    BY <1>1, <2>1
  <2>6. WithTitles(query, titles) = Front(query) \o <<joint>> \o Tail(titles)
    BY <1>3 DEF WithTitles, joint
  <2> PICK front \in Seq(T) : front = Front(query)
    BY <2>4
  <2> PICK tail \in Seq(T) : tail = Tail(titles)
    BY <2>5
  <2> PICK one \in Seq(T) : one = <<joint>> /\ Len(one) = 1 /\ one[1] = joint
    BY <2>3, JustOne
  <2> PICK begun \in Seq(T) : begun = front \o one
    BY Joined
  <2> PICK all \in Seq(T) : all = begun \o tail
    BY Joined
  <2>10. /\ Len(begun) = n /\ begun[n] = joint
         /\ \A p \in 1..(n - 1) : begun[p] = front[p]
    <3>1. Len(front) = n - 1 /\ Len(one) = 1 /\ one[1] = joint
      BY <2>4
    <3>2. (n - 1) + 1 = n /\ 1 \in 1..1
      BY <1>1
    <3>3. /\ Len(begun) = Len(front) + Len(one)
          /\ \A p \in 1..Len(front) : begun[p] = front[p]
          /\ \A p \in 1..Len(one) : begun[Len(front) + p] = one[p]
      BY Joined
    <3>4. begun[(n - 1) + 1] = one[1]
      BY <3>1, <3>2, <3>3
    <3> HIDE DEF n
    <3>. QED
      BY <3>1, <3>2, <3>3, <3>4
  <2>7. /\ Len(all) = n + Len(titles) - 1
        /\ \A p \in 1..n : all[p] = begun[p]
        /\ \A p \in 1..(Len(titles) - 1) : all[n + p] = tail[p]
    <3>1. /\ Len(all) = Len(begun) + Len(tail)
          /\ \A p \in 1..Len(begun) : all[p] = begun[p]
          /\ \A p \in 1..Len(tail) : all[Len(begun) + p] = tail[p]
      BY Joined
    <3>2. Len(tail) = Len(titles) - 1 /\ n + (Len(titles) - 1) = n + Len(titles) - 1
      BY <1>1, <2>5
    <3> HIDE DEF n
    <3>. QED
      BY <2>10, <3>1, <3>2
  <2>8. \A p \in 1..Len(titles) : p > 1 =>
            /\ p - 1 \in 1..(Len(titles) - 1) /\ (p - 1) + 1 = p /\ n + (p - 1) = n + p - 1
    BY <1>1
  <2>9. \A p \in 1..Len(titles) : p > 1 => all[n + p - 1] = titles[p]
    BY <2>5, <2>7, <2>8
  <2>11. WithTitles(query, titles) = all
    BY <2>6
  <2>12. n \in 1..n /\ \A p \in 1..n : p =< n - 1 => p \in 1..(n - 1)
    BY <1>1, <2>1
  <2>13. \A p \in 1..n : p =< n - 1 => all[p] = query[p]
    BY <2>4, <2>7, <2>10, <2>12
  <2>. QED
    <3>1. all[n] = query[n] \o titles[1]
      BY <2>3, <2>7, <2>10, <2>12
    <3> HIDE DEF n
    <3>2. TitlesAreLast(all, query, titles, 1)
      BY <2>7, <2>9, <2>13, <3>1 DEF TitlesAreLast, n
    <3>. QED
      BY <1>3, <2>11, <3>2
<1>. QED
  BY <1>2, <1>3

QueryInv == words \in Seq(Words) /\ parsed = ParseQuery(words)

LEMMA QueryInvariant == QuerySpec => []QueryInv
<1>1. QueryInit => QueryInv
  BY DEF QueryInit, QueryInv
<1>2. QueryInv /\ [Write]_search => QueryInv'
  <2> SUFFICES ASSUME QueryInv, [Write]_search
               PROVE  QueryInv'
    OBVIOUS
  <2>1. CASE Write
    <3>1. PICK word \in Words : words' = Append(words, word)
      BY <2>1 DEF Write
    <3>2. words' \in Seq(Words)
      BY <3>1 DEF QueryInv
    <3>. QED
      BY <2>1, <3>2 DEF QueryInv, Write
  <2>2. CASE UNCHANGED search
    BY <2>2 DEF QueryInv, search
  <2>. QED
    BY <2>1, <2>2
<1>. QED
  BY <1>1, <1>2, PTL DEF QuerySpec

LEMMA WordsAreQuestion == QueryInv => IsQuestion(words)
<1> SUFFICES ASSUME words \in Seq(Words)
             PROVE  IsQuestion(words)
  BY DEF QueryInv
<1>1. Len(words) \in Nat /\ DOMAIN words = 1..Len(words) /\ \A i \in DOMAIN words : words[i] \in Words
  OBVIOUS
<1>2. words \in Seq(ToSet(words))
  BY <1>1 DEF ToSet
<1>. QED
  BY <1>1, <1>2, WordsAssumption DEF IsQuestion

\* QuestionIsExact: parseSearchQuery takes a question of any length word by word,
\* although it carries a NOT from one turn of its loop to the next.
THEOREM QuestionIsReadRight == QuerySpec => []QuestionIsExact
<1>1. QueryInv => QuestionIsExact
  <2> SUFFICES ASSUME QueryInv
               PROVE  QuestionIsExact
    OBVIOUS
  <2>1. IsQuestion(words)
    BY WordsAreQuestion
  <2>2. PICK parse : IsTaken(parse, Len(words)) /\ ParseQuery(words) = Finished(parse)
    BY <2>1, QuestionIsTaken
  <2>3. Len(words) \in Nat /\ DOMAIN words = 1..Len(words)
    BY <2>1 DEF IsQuestion
  <2>4. Spoken \subseteq 1..Len(words) /\ \A kind : Of(kind) \subseteq 1..Len(words)
    BY <2>3 DEF Spoken, Of
  <2>5. \A places \in SUBSET (1..Len(words)) :
            /\ places \in SUBSET (Nat \ {0}) /\ places \cap (1..Len(words)) = places
            /\ IsFiniteSet(places) /\ Cardinality(places) \in Nat
            /\ Place(places, Len(words)) = Cardinality(places)
            /\ \A i \in places : Place(places, i) \in 1..Cardinality(places)
    <3> SUFFICES ASSUME NEW places \in SUBSET (1..Len(words))
                 PROVE  /\ places \in SUBSET (Nat \ {0}) /\ places \cap (1..Len(words)) = places
                        /\ IsFiniteSet(places) /\ Cardinality(places) \in Nat
                        /\ Place(places, Len(words)) = Cardinality(places)
                        /\ \A i \in places : Place(places, i) \in 1..Cardinality(places)
      OBVIOUS
    <3>1. places \in SUBSET (Nat \ {0}) /\ places \cap (1..Len(words)) = places
      <4>1. \A i \in 1..Len(words) : i \in Nat \ {0}
        BY <2>3
      <4>. QED
        BY <4>1
    <3>2. /\ IsFiniteSet(places \cap (1..Len(words))) /\ Cardinality(places \cap (1..Len(words))) \in Nat
          /\ Place(places, Len(words)) = Cardinality(places \cap (1..Len(words)))
          /\ \A i \in places \cap (1..Len(words)) : Place(places, i) \in 1..Place(places, Len(words))
      BY <2>3, <3>1, PlaceIs
    <3>. QED
      BY <3>1, <3>2
  <2>6. /\ parsed.filter = parse.filter /\ parsed.thrown = parse.thrown
        /\ parsed.query = WithTitles(parse.query, [i \in DOMAIN parse.filter.intitle |-> parse.filter.intitle[i].value])
    BY <2>2 DEF QueryInv, Finished
  <2>7. \A kind \in Kinds :
            /\ Len(parse.filter[kind]) = Cardinality(Of(kind))
            /\ \A i \in Of(kind) : parse.filter[kind][Place(Of(kind), i)] = SaidOf(kind)[i]
    BY <2>2, <2>4, <2>5 DEF IsTaken, Collected
  <2>8. /\ Len(parse.query) = Cardinality(Spoken)
        /\ \A i \in Spoken : parse.query[Place(Spoken, i)] = TextOf(i)
    <3>1. \A i \in Spoken : SaidTexts[i] = TextOf(i)
      BY <2>3, <2>4 DEF SaidTexts
    <3>. QED
      BY <2>2, <2>4, <2>5, <3>1 DEF IsTaken, Collected
  <2>9. FiltersAreSaid
    <3> SUFFICES ASSUME NEW kind \in Kinds
                 PROVE  /\ Len(parsed.filter[kind]) = Cardinality(Of(kind))
                        /\ \A i \in Of(kind) : parsed.filter[kind][Place(Of(kind), i)] =
                              IF kind = "size"
                                THEN [size |-> words[i].size, greater |-> words[i].greater # Negated(i)]
                                ELSE [value |-> words[i].value, negate |-> Negated(i)]
      BY DEF FiltersAreSaid
    <3>1. \A i \in Of(kind) : SaidOf(kind)[i] =
              IF kind = "size" THEN [size |-> words[i].size, greater |-> words[i].greater # Negated(i)]
              ELSE [value |-> words[i].value, negate |-> Negated(i)]
      BY <2>3, <2>4 DEF SaidOf
    <3>. QED
      BY <2>6, <2>7, <3>1
  <2>10. TextIsSaid
    <3> DEFINE titles == Of("intitle")
               row == [i \in DOMAIN parse.filter.intitle |-> parse.filter.intitle[i].value]
               n == Cardinality(Spoken)
               m == Cardinality(titles)
               shared == IF n > 0 /\ titles # {} THEN 1 ELSE 0
               S == ({words[i].text : i \in DOMAIN words} \cup {<<"not">>})
                      \cup {words[i].value : i \in DOMAIN words}
    <3>1. /\ n \in Nat /\ m \in Nat /\ (titles # {} <=> m > 0)
          /\ \A i \in Spoken : Place(Spoken, i) \in 1..n
          /\ \A i \in titles : Place(titles, i) \in 1..m
      <4>1. Spoken \in SUBSET (1..Len(words)) /\ titles \in SUBSET (1..Len(words))
        BY <2>4
      <4> HIDE DEF titles
      <4>2. /\ n \in Nat /\ m \in Nat /\ IsFiniteSet(titles)
            /\ \A i \in Spoken : Place(Spoken, i) \in 1..n
            /\ \A i \in titles : Place(titles, i) \in 1..m
        BY <2>5, <4>1
      <4>3. titles = {} <=> m = 0
        BY <4>2, FS_EmptySet
      <4>. QED
        BY <4>2, <4>3
    <3>2. /\ parse.filter.intitle \in Seq([value : {words[i].value : i \in DOMAIN words}, negate : BOOLEAN])
          /\ parse.query \in Seq({words[i].text : i \in DOMAIN words} \cup {<<"not">>})
      BY <2>2 DEF IsTaken, Parses
    <3>3. parse.query \in Seq(S)
      BY <3>2
    <3>4. /\ Len(parse.filter.intitle) = m
          /\ \A i \in titles : parse.filter.intitle[Place(titles, i)].value = words[i].value
      <4>1. "intitle" \in Kinds
        BY DEF Kinds
      <4>2. \A i \in titles : SaidOf("intitle")[i].value = words[i].value
        BY <2>3, <2>4 DEF SaidOf
      <4>. QED
        BY <2>7, <4>1, <4>2
    <3>5. /\ row \in Seq(S) /\ Len(row) = m
          /\ \A i \in titles : row[Place(titles, i)] = words[i].value
      <4>1. DOMAIN parse.filter.intitle = 1..m
        BY <3>2, <3>4
      <4>2. \A p \in 1..m : parse.filter.intitle[p].value \in S
        <5> DEFINE R == [value : {words[i].value : i \in DOMAIN words}, negate : BOOLEAN]
        <5>3. parse.filter.intitle \in Seq(R)
          BY <3>2
        <5> HIDE DEF R, m
        <5>5. PICK filters \in Seq(R) : filters = parse.filter.intitle
          BY <5>3
        <5>6. \A p \in DOMAIN filters : filters[p] \in R
          OBVIOUS
        <5>4. \A p \in 1..m : parse.filter.intitle[p] \in R
          BY <4>1, <5>5, <5>6
        <5>1. \A p \in 1..m : parse.filter.intitle[p]
                                \in [value : {words[i].value : i \in DOMAIN words}, negate : BOOLEAN]
          BY <5>4 DEF R
        <5>2. \A p \in 1..m : parse.filter.intitle[p].value \in {words[i].value : i \in DOMAIN words}
          BY <5>1
        <5>. QED
          BY <5>2
      <4>. QED
        BY <3>1, <3>4, <4>1, <4>2
    <3>6. shared \in {0, 1} /\ (shared = 1 <=> n > 0 /\ m > 0)
      BY <3>1
    <3>7. shared = 1 <=> parse.query # <<>> /\ row # <<>>
      <4> HIDE DEF n, m, row, shared, S
      <4>1. (parse.query # <<>> <=> n > 0) /\ (row # <<>> <=> m > 0)
        BY <2>8, <3>1, <3>3, <3>5 DEF n
      <4>. QED
        BY <3>6, <4>1
    <3> HIDE DEF S, row, shared
    <3>8. /\ Len(parsed.query) = Len(parse.query) + Len(row) - shared
          /\ \A p \in 1..Len(parse.query) : p =< Len(parse.query) - shared => parsed.query[p] = parse.query[p]
          /\ \A p \in 1..Len(row) : p > shared => parsed.query[Len(parse.query) + p - shared] = row[p]
          /\ shared = 1 => parsed.query[Len(parse.query)] = parse.query[Len(parse.query)] \o row[1]
      <4>1. parsed.query = WithTitles(parse.query, row)
        BY <2>6 DEF row
      <4>2. row \in Seq(S)
        BY <3>5
      <4>. QED
        <5>1. PICK query \in Seq(S) : query = parse.query
          BY <3>3
        <5>2. PICK last \in Seq(S) : last = row
          BY <4>2
        <5>3. shared = 1 <=> query # <<>> /\ last # <<>>
          BY <3>7, <5>1, <5>2
        <5>4. TitlesAreLast(WithTitles(query, last), query, last, shared)
          BY <3>6, <5>3, TitlesGoLast
        <5>. QED
          BY <4>1, <5>1, <5>2, <5>4 DEF TitlesAreLast
    <3> HIDE DEF n, m, titles
    <3>9. Len(parse.query) = n /\ Len(row) = m
      BY <2>8, <3>5 DEF n
    <3>10. Len(parsed.query) = n + m - shared
      BY <3>8, <3>9
    <3>11. \A i \in Spoken : Place(Spoken, i) =< n - shared => parsed.query[Place(Spoken, i)] = TextOf(i)
      BY <2>8, <3>1, <3>8, <3>9
    <3>12. \A i \in titles : Place(titles, i) > shared =>
               parsed.query[n + Place(titles, i) - shared] = words[i].value
      BY <3>1, <3>5, <3>8, <3>9
    <3>13. ASSUME NEW i \in Spoken, NEW j \in titles, Place(Spoken, i) = n, Place(titles, j) = 1
           PROVE  parsed.query[n] = TextOf(i) \o words[j].value
      <4>1. shared = 1
        BY <3>1, <3>6, <3>13
      <4>2. parse.query[n] = TextOf(i) /\ row[1] = words[j].value
        BY <2>8, <3>5, <3>13
      <4>. QED
        BY <3>8, <3>9, <4>1, <4>2
    <3>. QED
      BY <3>10, <3>11, <3>12, <3>13 DEF TextIsSaid, n, m, titles, shared
  <2>11. parsed.thrown <=> \E i \in DOMAIN words : words[i].is = "nonumber"
    BY <2>2, <2>3, <2>6 DEF IsTaken
  <2>. QED
    BY <2>9, <2>10, <2>11 DEF QuestionIsExact
<1>. QED
  BY <1>1, QueryInvariant, PTL

-----------------------------------------------------------------------------
(* What evalFilter lets through is what the documentation says, but for what *)
(* section 5 of the README lists                                             *)

Criteria == {"domain", "content_type", "size"}

\* Questions with criteria the documentation tells of, without a NOT before a
\* size that a page has exactly: there NOT greater is less, and not at most.
AsDocumented(ws) ==
    /\ ws \in Seq(ToSet(ws))
    /\ \A i \in DOMAIN ws :
          /\ ws[i].is \in {"text", "not", "badsize", "nonumber"} \cup Criteria
          /\ ws[i].is = "size" =>
                /\ ws[i].size \in Nat /\ ws[i].greater \in BOOLEAN
                /\ IsNegated(ws, i) => \A v \in Versions : v.size # ws[i].size
QuestionsAsDocumented ==
    /\ \A v \in Versions : v.size \in Nat
    /\ \A q \in Questions : AsDocumented(q.words)

LEMMA DocumentedIsQuestion == \A ws : AsDocumented(ws) => IsQuestion(ws)
  BY DEF AsDocumented, IsQuestion, Criteria, Kinds

\* What the words up to the place m say of a page, kind by kind.
Plains(ws, kind, m) ==
    {[value |-> ws[i].value, negate |-> IsNegated(ws, i)] : i \in {j \in 1..m : ws[j].is = kind}}
Sizes(ws, m) ==
    {[size |-> ws[i].size, greater |-> IsNegated(ws, i) # ws[i].greater] :
        i \in {j \in 1..m : ws[j].is = "size"}}

IsRead(parse, ws, m) ==
    /\ parse \in Parses(ws)
    /\ parse.negate <=> Pending(ws, m)
    /\ ToSet(parse.filter.domain) = Plains(ws, "domain", m)
    /\ ToSet(parse.filter.content_type) = Plains(ws, "content_type", m)
    /\ ToSet(parse.filter.size) = Sizes(ws, m)
    /\ parse.filter.intitle = <<>>

LEMMA ConstraintIsAdded ==
    ASSUME NEW ws, NEW m \in Nat
    PROVE  /\ \A kind : Plains(ws, kind, m + 1) =
                 IF ws[m + 1].is = kind
                   THEN Plains(ws, kind, m)
                          \cup {[value |-> ws[m + 1].value, negate |-> IsNegated(ws, m + 1)]}
                   ELSE Plains(ws, kind, m)
           /\ Sizes(ws, m + 1) =
                 IF ws[m + 1].is = "size"
                   THEN Sizes(ws, m) \cup {[size |-> ws[m + 1].size,
                                               greater |-> IsNegated(ws, m + 1) # ws[m + 1].greater]}
                   ELSE Sizes(ws, m)
<1>1. \A kind : {j \in 1..(m + 1) : ws[j].is = kind} =
          IF ws[m + 1].is = kind THEN {j \in 1..m : ws[j].is = kind} \cup {m + 1}
          ELSE {j \in 1..m : ws[j].is = kind}
  OBVIOUS
<1> HIDE DEF IsNegated
<1>2. \A kind : Plains(ws, kind, m + 1) =
          IF ws[m + 1].is = kind
            THEN Plains(ws, kind, m)
                   \cup {[value |-> ws[m + 1].value, negate |-> IsNegated(ws, m + 1)]}
            ELSE Plains(ws, kind, m)
  BY <1>1 DEF Plains
<1>3. Sizes(ws, m + 1) =
          IF ws[m + 1].is = "size"
            THEN Sizes(ws, m) \cup {[size |-> ws[m + 1].size,
                                        greater |-> IsNegated(ws, m + 1) # ws[m + 1].greater]}
            ELSE Sizes(ws, m)
  BY <1>1 DEF Sizes
<1>. QED
  BY <1>2, <1>3

LEMMA WordIsRead ==
    ASSUME NEW ws, AsDocumented(ws), NEW m \in Nat, m + 1 =< Len(ws),
           NEW parse, IsRead(parse, ws, m)
    PROVE  IsRead(ReadWord(ws, parse, m + 1), ws, m + 1)
<1> DEFINE Constraints == [value : {ws[j].value : j \in DOMAIN ws}, negate : BOOLEAN]
           SizeConstraints == [size : {ws[j].size : j \in DOMAIN ws}, greater : BOOLEAN]
           word == ws[m + 1]
           plain == [value |-> word.value, negate |-> parse.negate]
           size == [size |-> word.size, greater |-> parse.negate # word.greater]
           read == ReadWord(ws, parse, m + 1)
<1>1. m + 1 \in DOMAIN ws /\ Len(ws) \in Nat /\ DOMAIN ws = 1..Len(ws)
  BY DEF AsDocumented
<1>2. read \in Parses(ws)
  BY <1>1, ReadWordIsParse, DocumentedIsQuestion DEF IsRead
<1>3. IsNegated(ws, m + 1) <=> m > 0 /\ ws[m].is = "not"
  BY DEF IsNegated
<1>4. IsFilter(word) => (Pending(ws, m) <=> IsNegated(ws, m + 1))
  BY <1>3 DEF Pending, IsNegated
<1>5. ~IsFilter(word) => ~Pending(ws, m)
  BY DEF Pending
<1>6. (parse.negate <=> Pending(ws, m)) /\ parse.negate \in BOOLEAN
  BY DEF IsRead, Parses
<1>7. /\ parse.filter.domain \in Seq(Constraints) /\ parse.filter.content_type \in Seq(Constraints)
      /\ parse.filter.size \in Seq(SizeConstraints)
      /\ plain \in Constraints /\ size \in SizeConstraints
  BY <1>1, <1>6 DEF IsRead, Parses
<1>8. /\ ToSet(Append(parse.filter.domain, plain)) = ToSet(parse.filter.domain) \cup {plain}
      /\ ToSet(Append(parse.filter.content_type, plain)) = ToSet(parse.filter.content_type) \cup {plain}
      /\ ToSet(Append(parse.filter.size, size)) = ToSet(parse.filter.size) \cup {size}
  <2> HIDE DEF Constraints, SizeConstraints, plain, size
  <2>. QED
    BY <1>7, AppendedSet
<1>9. parse \in [query : Seq({ws[i].text : i \in DOMAIN ws} \cup {<<"not">>}), negate : BOOLEAN,
                 thrown : BOOLEAN,
                 filter : [content_type : Seq(Constraints), domain : Seq(Constraints),
                           intitle : Seq(Constraints), size : Seq(SizeConstraints)]]
  BY DEF IsRead, Parses
<1> HIDE DEF Constraints, SizeConstraints
<1>10. CASE word.is \in {"text", "not", "badsize", "nonumber"}
  <2>1. read.filter = parse.filter
    BY <1>9, <1>10 DEF ReadWord
  <2>2. read.negate <=> Pending(ws, m + 1)
    <3>1. CASE word.is = "text"
      <4>1. (read.negate <=> parse.negate) /\ ~Pending(ws, m + 1) /\ ~Pending(ws, m)
        BY <1>5, <1>9, <3>1 DEF ReadWord, Pending, IsFilter, Kinds
      <4>. QED
        BY <1>6, <4>1
    <3>2. CASE word.is = "not"
      <4>1. ~Pending(ws, m)
        BY <1>5, <3>2 DEF IsFilter, Kinds
      <4>2. read.negate <=> (m + 1 < Len(ws) /\ IsFilter(ws[(m + 1) + 1])) \/ parse.negate
        BY <1>9, <3>2 DEF ReadWord
      <4>. QED
        BY <1>6, <3>2, <4>1, <4>2 DEF Pending
    <3>3. CASE word.is \in {"badsize", "nonumber"}
      BY <1>9, <3>3 DEF ReadWord, Pending
    <3>. QED
      BY <1>10, <3>1, <3>2, <3>3
  <2>3. /\ Plains(ws, "domain", m + 1) = Plains(ws, "domain", m)
        /\ Plains(ws, "content_type", m + 1) = Plains(ws, "content_type", m)
        /\ Sizes(ws, m + 1) = Sizes(ws, m)
    BY <1>10, ConstraintIsAdded
  <2>. QED
    BY <1>2, <2>1, <2>2, <2>3 DEF IsRead
<1>11. CASE word.is \in Criteria
  <2>1. IsFilter(word) /\ ~Pending(ws, m + 1)
    BY <1>11 DEF IsFilter, Kinds, Criteria, Pending
  <2>2. /\ plain = [value |-> word.value, negate |-> IsNegated(ws, m + 1)]
        /\ size = [size |-> word.size, greater |-> IsNegated(ws, m + 1) # word.greater]
    <3>1. CASE IsNegated(ws, m + 1)
      <4>1. parse.negate = TRUE /\ IsNegated(ws, m + 1) = TRUE
        BY <1>4, <1>6, <2>1, <3>1 DEF IsNegated
      <4>. QED
        BY <4>1
    <3>2. CASE ~IsNegated(ws, m + 1)
      <4>1. parse.negate = FALSE /\ IsNegated(ws, m + 1) = FALSE
        BY <1>4, <1>6, <2>1, <3>2 DEF IsNegated
      <4>. QED
        BY <4>1
    <3>. QED
      BY <3>1, <3>2
  <2> HIDE DEF plain, size
  <2>3. ~read.negate /\ read.filter.intitle = parse.filter.intitle
    BY <1>9, <1>11 DEF ReadWord, Constrain, Criteria
  <2>4. CASE word.is = "domain"
    <3>1. /\ read.filter.domain = Append(parse.filter.domain, plain)
          /\ read.filter.content_type = parse.filter.content_type
          /\ read.filter.size = parse.filter.size
      BY <1>9, <2>4 DEF ReadWord, Constrain, plain, size
    <3>2. /\ Plains(ws, "domain", m + 1)
               = Plains(ws, "domain", m) \cup {plain}
          /\ Plains(ws, "content_type", m + 1) = Plains(ws, "content_type", m)
          /\ Sizes(ws, m + 1) = Sizes(ws, m)
      BY <2>4, <2>2, ConstraintIsAdded
    <3>. QED
      BY <1>2, <1>8, <2>1, <2>2, <2>3, <3>1, <3>2 DEF IsRead
  <2>5. CASE word.is = "content_type"
    <3>1. /\ read.filter.content_type = Append(parse.filter.content_type, plain)
          /\ read.filter.domain = parse.filter.domain
          /\ read.filter.size = parse.filter.size
      BY <1>9, <2>5 DEF ReadWord, Constrain, plain, size
    <3>2. /\ Plains(ws, "content_type", m + 1)
               = Plains(ws, "content_type", m) \cup {plain}
          /\ Plains(ws, "domain", m + 1) = Plains(ws, "domain", m)
          /\ Sizes(ws, m + 1) = Sizes(ws, m)
      BY <2>5, <2>2, ConstraintIsAdded
    <3>. QED
      BY <1>2, <1>8, <2>1, <2>2, <2>3, <3>1, <3>2 DEF IsRead
  <2>6. CASE word.is = "size"
    <3>1. /\ read.filter.size = Append(parse.filter.size, size)
          /\ read.filter.domain = parse.filter.domain
          /\ read.filter.content_type = parse.filter.content_type
      BY <1>9, <2>6 DEF ReadWord, Constrain, plain, size
    <3>2. /\ Sizes(ws, m + 1)
               = Sizes(ws, m) \cup {size}
          /\ Plains(ws, "domain", m + 1) = Plains(ws, "domain", m)
          /\ Plains(ws, "content_type", m + 1) = Plains(ws, "content_type", m)
      BY <2>6, <2>2, ConstraintIsAdded
    <3>. QED
      BY <1>2, <1>8, <2>1, <2>2, <2>3, <3>1, <3>2 DEF IsRead
  <2>. QED
    BY <1>11, <2>4, <2>5, <2>6 DEF Criteria
<1>. QED
  BY <1>1, <1>10, <1>11 DEF AsDocumented

\* The filter of a question has the constraints its words say, and no others.
LEMMA FilterIsRead ==
    ASSUME NEW ws, AsDocumented(ws)
    PROVE  \E parse : IsRead(parse, ws, Len(ws)) /\ ParseQuery(ws).filter = parse.filter
<1>6. PICK k : IsReading(k, ws, Len(ws)) /\ ParseQuery(ws) = Finished(k[Len(ws)])
  BY ParseRuns, DocumentedIsQuestion
<1>1. IsReading(k, ws, Len(ws)) /\ ParseQuery(ws).filter = k[Len(ws)].filter
  BY <1>6 DEF Finished
<1>2. Len(ws) \in Nat
  BY DEF AsDocumented
<1> DEFINE Read(m) == IsRead(k[m], ws, m)
           Reads == {m \in Nat : m =< Len(ws) => Read(m)}
<1>3. Read(0)
  <2>1. /\ \A kind : Plains(ws, kind, 0) = {}
        /\ Sizes(ws, 0) = {}
    BY DEF Plains, Sizes
  <2>2. ToSet(<<>>) = {} /\ ~Pending(ws, 0)
    BY DEF ToSet, Pending
  <2>3. Unread \in Parses(ws)
    BY DEF Unread, Parses
  <2>4. /\ Unread.negate = FALSE /\ Unread.filter.intitle = <<>> /\ Unread.filter.domain = <<>>
        /\ Unread.filter.content_type = <<>> /\ Unread.filter.size = <<>>
    BY DEF Unread
  <2>5. k[0] = Unread
    BY <1>1 DEF IsReading
  <2>. QED
    BY <2>1, <2>2, <2>3, <2>4, <2>5 DEF IsRead
<1>4. ASSUME NEW m \in Nat, Read(m), m + 1 =< Len(ws)
      PROVE  Read(m + 1)
  <2>1. k[m + 1] = ReadWord(ws, k[m], m + 1)
    <3>1. m + 1 \in 1..Len(ws) /\ (m + 1) - 1 = m
      BY <1>2, <1>4
    <3>. QED
      BY <1>1, <3>1 DEF IsReading
  <2>. QED
    BY <1>4, <2>1, WordIsRead
<1>5. Len(ws) \in Reads
  <2> HIDE DEF Read
  <2>1. \A m \in Nat : m \in Reads => m + 1 \in Reads
    <3> SUFFICES ASSUME NEW m \in Nat, m =< Len(ws) => Read(m), m + 1 =< Len(ws)
                 PROVE  Read(m + 1)
      OBVIOUS
    <3>1. m =< Len(ws)
      BY <1>2
    <3>. QED
      BY <1>4, <3>1
  <2>2. 0 \in Reads
    BY <1>3
  <2> HIDE DEF Reads
  <2>. QED
    BY <1>2, <2>1, <2>2, NatInSet
<1>. QED
  BY <1>1, <1>2, <1>5

LEMMA EmptyWhenNothingIn ==
    ASSUME NEW S, NEW s \in Seq(S)
    PROVE  s = <<>> <=> ToSet(s) = {}
<1>1. Len(s) \in Nat /\ DOMAIN s = 1..Len(s)
  OBVIOUS
<1>2. s # <<>> => 1 \in DOMAIN s
  BY <1>1
<1>3. ToSet(<<>>) = {}
  BY DEF ToSet
<1>. QED
  BY <1>2, <1>3 DEF ToSet

LEMMA ThroughIsFits ==
    ASSUME QuestionsAsDocumented, NEW q \in Questions
    PROVE  Through(q) = {v \in Versions : Fits(v, q.words)}
<1> DEFINE ws == q.words
           filter == ParseOf[q].filter
           of(kind) == {i \in DOMAIN ws : ws[i].is = kind}
           plain(i) == [value |-> ws[i].value, negate |-> IsNegated(ws, i)]
           size(i) == [size |-> ws[i].size, greater |-> IsNegated(ws, i) # ws[i].greater]
<1>1. AsDocumented(ws) /\ \A v \in Versions : v.size \in Nat
  BY DEF QuestionsAsDocumented
<1>2. PICK parse : IsRead(parse, ws, Len(ws)) /\ filter = parse.filter
  <2>1. filter = ParseQuery(ws).filter
    BY DEF ParseOf
  <2> HIDE DEF filter, ws
  <2>. QED
    BY <1>1, <2>1, FilterIsRead
<1>3. DOMAIN ws = 1..Len(ws)
  BY <1>1 DEF AsDocumented
<1>4. /\ ToSet(filter.domain) = {plain(i) : i \in of("domain")}
      /\ ToSet(filter.content_type) = {plain(i) : i \in of("content_type")}
      /\ ToSet(filter.size) = {size(i) : i \in of("size")}
      /\ filter.intitle = <<>>
  BY <1>2, <1>3 DEF IsRead, Plains, Sizes
<1>5. /\ filter.domain = <<>> <=> of("domain") = {}
      /\ filter.content_type = <<>> <=> of("content_type") = {}
      /\ filter.size = <<>> <=> of("size") = {}
  <2>1. /\ filter.domain = <<>> <=> ToSet(filter.domain) = {}
        /\ filter.content_type = <<>> <=> ToSet(filter.content_type) = {}
        /\ filter.size = <<>> <=> ToSet(filter.size) = {}
    BY <1>2, EmptyWhenNothingIn DEF IsRead, Parses
  <2> HIDE DEF of, plain, size
  <2>. QED
    BY <1>4, <2>1
<1> HIDE DEF ws, filter
<1>6. ASSUME NEW v \in Versions
      PROVE  IsEmpty(filter) \/ EvalFilter(v, filter) <=> Fits(v, ws)
  <2>1. (\E c \in ToSet(filter.domain) : c.negate # (v.host = c.value))
          <=> \E i \in of("domain") : Holds(v, ws, i)
    <3>1. \A i \in of("domain") :
              Holds(v, ws, i) <=> (IsNegated(ws, i) # (v.host = ws[i].value))
      BY DEF Holds, IsNegated
    <3>2. \A i : plain(i).negate = IsNegated(ws, i) /\ plain(i).value = ws[i].value
      OBVIOUS
    <3> HIDE DEF plain, of
    <3>. QED
      BY <1>4, <3>1, <3>2
  <2>2. (\E c \in ToSet(filter.content_type) : c.negate # HasType(v, c.value))
          <=> \E i \in of("content_type") : Holds(v, ws, i)
    <3>1. \A i \in of("content_type") :
              Holds(v, ws, i) <=> (IsNegated(ws, i) # HasType(v, ws[i].value))
      BY DEF Holds, IsNegated, HasType
    <3>2. \A i : plain(i).negate = IsNegated(ws, i) /\ plain(i).value = ws[i].value
      OBVIOUS
    <3> HIDE DEF plain, of
    <3>. QED
      BY <1>4, <3>1, <3>2
  <2>3. (\E c \in ToSet(filter.size) : IF c.greater THEN v.size > c.size ELSE v.size < c.size)
          <=> \E i \in of("size") : Holds(v, ws, i)
    <3>1. \A i \in of("size") :
              Holds(v, ws, i) <=> IF IsNegated(ws, i) # ws[i].greater
                                     THEN v.size > ws[i].size ELSE v.size < ws[i].size
      <4> SUFFICES ASSUME NEW i \in of("size")
                   PROVE  Holds(v, ws, i) <=> IF IsNegated(ws, i) # ws[i].greater
                                     THEN v.size > ws[i].size ELSE v.size < ws[i].size
        OBVIOUS
      <4>1. /\ ws[i].size \in Nat /\ ws[i].greater \in BOOLEAN /\ v.size \in Nat
            /\ IsNegated(ws, i) => v.size # ws[i].size
        BY <1>1 DEF AsDocumented
      <4>2. ws[i].is = "size"
        OBVIOUS
      <4>3. Holds(v, ws, i)
              <=> ((IF ws[i].greater THEN v.size > ws[i].size ELSE v.size < ws[i].size)
                     # IsNegated(ws, i))
        BY <4>2 DEF Holds, IsNegated
      <4>. QED
        BY <4>1, <4>3 DEF IsNegated
    <3>2. \A i : /\ size(i).greater <=> (IsNegated(ws, i) # ws[i].greater)
                 /\ size(i).size = ws[i].size
      OBVIOUS
    <3>3. \A i \in of("size") :
              Holds(v, ws, i) <=> IF size(i).greater THEN v.size > size(i).size ELSE v.size < size(i).size
      BY <3>1, <3>2
    <3> HIDE DEF size, of
    <3>. QED
      BY <1>4, <3>3
  <2>. QED
    BY <1>4, <1>5, <2>1, <2>2, <2>3 DEF IsEmpty, EvalFilter, Fits
<1>. QED
  BY <1>6 DEF Through, Passing, ws, filter

\* AnswersFit: the pages that are shown together were all found in one index for
\* the words of the question, and all fitted there its filter, or all that of one
\* question with the same key; the rows that are shown of them are of one index.
THEOREM AnswersAreRight ==
    ASSUME QuestionsAsDocumented
    PROVE  SafeSpec => []AnswersFit
<1>1. AnswersInv => AnswersFit
  <2> SUFFICES ASSUME AnswersInv, NEW s \in Searches, shown[s] # {}
               PROVE  /\ \E I \in past, q \in Alike(asked[s]) : \A w \in shown[s] : \E v \in I :
                            v.url = w.url /\ ToSet(QueryOf(s)) \subseteq v.words /\ Fits(v, q.words)
                      /\ \E J \in past : shown[s] \subseteq J
    BY DEF AnswersFit
  <2>1. AreShown(asked[s], shown[s], past)
    BY DEF AnswersInv, SearchInv
  <2>2. PICK I \in past, q \in Alike(asked[s]) : \A w \in shown[s] : \E v \in I :
            v.url = w.url /\ ToSet(ParseOf[asked[s]].query) \subseteq v.words /\ v \in Through(q)
    BY <2>1 DEF AreShown, AreAnswers
  <2>3. \A v \in Through(q) : Fits(v, q.words)
    BY ThroughIsFits DEF Alike
  <2>4. \A w \in shown[s] : \E v \in I :
            v.url = w.url /\ ToSet(QueryOf(s)) \subseteq v.words /\ Fits(v, q.words)
    BY <2>2, <2>3 DEF QueryOf
  <2>. QED
    BY <2>1, <2>4 DEF AreShown
<1>. QED
  BY <1>1, AnswersInvariant, PTL

\* CacheIsExact: every entry of the cache is a whole ranking of one index, or
\* what a filter of its key lets through of one.
THEOREM CacheIsRight ==
    ASSUME QuestionsAsDocumented
    PROVE  SafeSpec => []CacheIsExact
<1>1. AnswersInv => CacheIsExact
  <2> SUFFICES ASSUME AnswersInv, NEW key \in DOMAIN cache
               PROVE  \E q \in Questions, I \in past :
                         /\ ParseOf[q].query = key[1]
                         /\ \E found \in RootSets(key[1], I) : \E ranking \in Rankings[found] :
                               \/ key = <<key[1]>> /\ cache[key] = ranking
                               \/ /\ key = <<key[1], KeyOf[q]>>
                                  /\ cache[key] = Sift(ranking, {v \in Versions : Fits(v, q.words)})
    BY DEF CacheIsExact
  <2>1. PICK q \in Questions :
            \/ key = <<ParseOf[q].query>> /\ IsRanked(q, cache[key], past)
            \/ key = <<ParseOf[q].query, KeyOf[q]>> /\ IsSifted(q, cache[key], past)
    BY DEF AnswersInv, IsExact
  <2>2. key[1] = ParseOf[q].query
    BY <2>1
  <2>3. CASE key = <<ParseOf[q].query>> /\ IsRanked(q, cache[key], past)
    BY <2>2, <2>3 DEF IsRanked, Found, RootsOf
  <2>4. CASE key = <<ParseOf[q].query, KeyOf[q]>> /\ IsSifted(q, cache[key], past)
    <3>1. PICK r \in Alike(q) : \E ranking \in Found(r, past) : cache[key] = Sift(ranking, Through(r))
      BY <2>4 DEF IsSifted
    <3>2. r \in Questions /\ ParseOf[r].query = key[1] /\ KeyOf[r] = KeyOf[q]
      BY <2>2, <3>1 DEF Alike
    <3>3. PICK I \in past : \E found \in RootSets(key[1], I) : \E ranking \in Rankings[found] :
                                cache[key] = Sift(ranking, Through(r))
      BY <3>1, <3>2 DEF Found, RootsOf
    <3>4. Through(r) = {v \in Versions : Fits(v, r.words)}
      BY <3>2, ThroughIsFits
    <3>5. key = <<key[1], KeyOf[r]>>
      BY <2>2, <2>4, <3>2
    <3>. QED
      BY <3>2, <3>3, <3>4, <3>5
  <2>. QED
    BY <2>1, <2>3, <2>4
<1>. QED
  BY <1>1, AnswersInvariant, PTL

-----------------------------------------------------------------------------
(* The graph of the ranking: links taken out by swapping                     *)

Hits(row, v, n) == {i \in 1..n : row[i] = v}

LEMMA TimesIs ==
    ASSUME NEW S, NEW row \in Seq(S), NEW v
    PROVE  /\ Len(row) \in Nat
           /\ Times(row, v) = Cardinality(Hits(row, v, Len(row)))
           /\ \A n \in 0..Len(row) : IsFiniteSet(Hits(row, v, n))
<1>1. Len(row) \in Nat /\ DOMAIN row = 1..Len(row)
  OBVIOUS
<1>2. \A n \in 0..Len(row) : IsFiniteSet(Hits(row, v, n))
  <2> SUFFICES ASSUME NEW n \in 0..Len(row)
               PROVE  IsFiniteSet(Hits(row, v, n))
    OBVIOUS
  <2>1. IsFiniteSet(1..n)
    BY <1>1, FS_Interval
  <2>2. Hits(row, v, n) \subseteq 1..n
    BY DEF Hits
  <2>. QED
    BY <2>1, <2>2, FS_Subset
<1>. QED
  BY <1>1, <1>2 DEF Times, Hits

LEMMA AppendedTimes ==
    ASSUME NEW S, NEW row \in Seq(S), NEW e \in S, NEW v
    PROVE  /\ Append(row, e) \in Seq(S)
           /\ Times(row, v) \in Nat
           /\ Times(Append(row, e), v) = IF e = v THEN Times(row, v) + 1 ELSE Times(row, v)
<1> DEFINE more == Append(row, e)
           m == Len(row)
<1>1. /\ more \in Seq(S) /\ Len(more) = m + 1 /\ more[m + 1] = e /\ \A i \in 1..m : more[i] = row[i]
      /\ m \in Nat
  OBVIOUS
<1> HIDE DEF more, m
<1>2. 1..(m + 1) = (1..m) \cup {m + 1} /\ m + 1 \notin 1..m /\ m \in 0..m
  BY <1>1
<1>3. Hits(more, v, m + 1) = IF e = v THEN Hits(row, v, m) \cup {m + 1} ELSE Hits(row, v, m)
  BY <1>1, <1>2 DEF Hits
<1>4. m + 1 \notin Hits(row, v, m)
  BY <1>2 DEF Hits
<1>5. IsFiniteSet(Hits(row, v, m)) /\ Times(row, v) = Cardinality(Hits(row, v, m))
  BY <1>2, TimesIs DEF m
<1>6. Cardinality(Hits(row, v, m) \cup {m + 1}) = Cardinality(Hits(row, v, m)) + 1
  BY <1>4, <1>5, FS_AddElement
<1>7. Times(more, v) = Cardinality(Hits(more, v, m + 1))
  BY <1>1, TimesIs
<1>8. Cardinality(Hits(row, v, m)) \in Nat
  BY <1>5, FS_CardinalityType
<1>. QED
  BY <1>1, <1>3, <1>5, <1>6, <1>7, <1>8 DEF more

\* A swap changes the order of a list only.
LEMMA SwapIsOrder ==
    ASSUME NEW S, NEW row \in Seq(S), NEW i \in 1..Len(row), NEW j \in 1..Len(row), NEW v
    PROVE  /\ Swap(row, i, j) \in Seq(S) /\ Len(Swap(row, i, j)) = Len(row)
           /\ Swap(row, i, j)[i] = row[j] /\ Swap(row, i, j)[j] = row[i]
           /\ \A k \in 1..Len(row) \ {i, j} : Swap(row, i, j)[k] = row[k]
           /\ Times(Swap(row, i, j), v) = Times(row, v)
<1> DEFINE new == Swap(row, i, j)
           m == Len(row)
<1>1. /\ new \in Seq(S) /\ Len(new) = m /\ new[i] = row[j] /\ new[j] = row[i]
      /\ \A k \in 1..m \ {i, j} : new[k] = row[k]
  BY DEF Swap
<1>2. m \in Nat /\ m \in 0..m
  OBVIOUS
<1>3. IsFiniteSet(Hits(row, v, m)) /\ Times(row, v) = Cardinality(Hits(row, v, m))
  BY <1>2, TimesIs
<1>4. Times(new, v) = Cardinality(Hits(new, v, m))
  BY <1>1, TimesIs
<1>5. i \in 1..m /\ j \in 1..m
  OBVIOUS
<1> HIDE DEF new, m
<1>6. CASE (row[i] = v) <=> (row[j] = v)
  <2>1. Hits(new, v, m) = Hits(row, v, m)
    BY <1>1, <1>5, <1>6 DEF Hits
  <2>. QED
    BY <1>1, <1>3, <1>4, <2>1 DEF new, m
<1>7. CASE row[i] = v /\ row[j] # v
  <2>1. Hits(new, v, m) = (Hits(row, v, m) \ {i}) \cup {j}
    BY <1>1, <1>5, <1>7 DEF Hits
  <2>2. i \in Hits(row, v, m) /\ j \notin Hits(row, v, m) \ {i}
    BY <1>5, <1>7 DEF Hits
  <2>3. /\ IsFiniteSet(Hits(row, v, m) \ {i})
        /\ Cardinality(Hits(row, v, m) \ {i}) = Cardinality(Hits(row, v, m)) - 1
    BY <1>3, <2>2, FS_RemoveElement
  <2>4. Cardinality((Hits(row, v, m) \ {i}) \cup {j}) = Cardinality(Hits(row, v, m) \ {i}) + 1
    BY <2>2, <2>3, FS_AddElement
  <2>5. Cardinality(Hits(row, v, m)) \in Nat
    BY <1>3, FS_CardinalityType
  <2>. QED
    BY <1>1, <1>3, <1>4, <2>1, <2>3, <2>4, <2>5 DEF new, m
<1>8. CASE row[i] # v /\ row[j] = v
  <2>1. Hits(new, v, m) = (Hits(row, v, m) \ {j}) \cup {i}
    BY <1>1, <1>5, <1>8 DEF Hits
  <2>2. j \in Hits(row, v, m) /\ i \notin Hits(row, v, m) \ {j}
    BY <1>5, <1>8 DEF Hits
  <2>3. /\ IsFiniteSet(Hits(row, v, m) \ {j})
        /\ Cardinality(Hits(row, v, m) \ {j}) = Cardinality(Hits(row, v, m)) - 1
    BY <1>3, <2>2, FS_RemoveElement
  <2>4. Cardinality((Hits(row, v, m) \ {j}) \cup {i}) = Cardinality(Hits(row, v, m) \ {j}) + 1
    BY <2>2, <2>3, FS_AddElement
  <2>5. Cardinality(Hits(row, v, m)) \in Nat
    BY <1>3, FS_CardinalityType
  <2>. QED
    BY <1>1, <1>3, <1>4, <2>1, <2>3, <2>4, <2>5 DEF new, m
<1>. QED
  BY <1>6, <1>7, <1>8

\* The loop after n turns: what is before at is of the other side, what is behind
\* size of this one, and the list has what it had.
Sweeps(loop, row, side, n) ==
    /\ loop = [list |-> loop.list, at |-> loop.at, size |-> loop.size]
    /\ loop.list \in Seq(Pages) /\ Len(loop.list) = Len(row)
    /\ loop.at \in Nat \ {0} /\ loop.size \in Nat /\ loop.size =< Len(row)
    /\ loop.size + 1 = loop.at + (Len(row) - n)
    /\ \A i \in 1..(loop.at - 1) : IsAuth(loop.list[i]) <=> ~side
    /\ \A i \in (loop.size + 1)..Len(row) : IsAuth(loop.list[i]) <=> side
    /\ \A v : Times(loop.list, v) = Times(row, v)

LEMMA TurnSweeps ==
    ASSUME NEW row \in Seq(Pages), NEW side \in BOOLEAN, NEW n \in 0..(Len(row) - 1),
           NEW loop, Sweeps(loop, row, side, n)
    PROVE  Sweeps(Turn(loop, side), row, side, n + 1)
<1>1. Len(row) \in Nat
  OBVIOUS
<1>2. PICK l, a, z : loop = [list |-> l, at |-> a, size |-> z] /\ l = loop.list /\ a = loop.at /\ z = loop.size
  BY DEF Sweeps
<1>3. /\ l \in Seq(Pages) /\ Len(l) = Len(row) /\ a \in Nat \ {0} /\ z \in Nat /\ z =< Len(row)
      /\ z + 1 = a + (Len(row) - n)
  BY <1>2 DEF Sweeps
<1>4. /\ \A i \in 1..(a - 1) : IsAuth(l[i]) <=> ~side
      /\ \A i \in (z + 1)..Len(row) : IsAuth(l[i]) <=> side
      /\ \A v : Times(l, v) = Times(row, v)
  BY <1>2 DEF Sweeps
<1>5. a =< z /\ a \in 1..Len(l) /\ z \in 1..Len(l)
  BY <1>1, <1>3
<1>6. CASE IsAuth(l[a]) <=> side
  <2> DEFINE s == Swap(l, a, z)
  <2>1. Turn(loop, side) = [list |-> s, at |-> a, size |-> z - 1]
    BY <1>2, <1>3, <1>5, <1>6 DEF Turn
  <2>2. /\ s \in Seq(Pages) /\ Len(s) = Len(l) /\ s[a] = l[z] /\ s[z] = l[a]
        /\ \A k \in 1..Len(l) \ {a, z} : s[k] = l[k]
    BY <1>3, <1>5, SwapIsOrder
  <2>3. \A v : Times(s, v) = Times(row, v)
    BY <1>3, <1>4, <1>5, SwapIsOrder
  <2> HIDE DEF s
  <2>4. \A i \in 1..(a - 1) : IsAuth(s[i]) <=> ~side
    <3>1. \A i \in 1..(a - 1) : i \in 1..Len(l) \ {a, z}
      BY <1>3, <1>5
    <3>. QED
      BY <1>4, <2>2, <3>1
  <2>5. \A i \in ((z - 1) + 1)..Len(row) : IsAuth(s[i]) <=> side
    <3>1. \A i \in ((z - 1) + 1)..Len(row) : i = z \/ (i \in (z + 1)..Len(row) /\ i \in 1..Len(l) \ {a, z})
      BY <1>1, <1>3, <1>5
    <3>. QED
      BY <1>4, <1>6, <2>2, <3>1
  <2>6. z - 1 \in Nat /\ z - 1 =< Len(row) /\ (z - 1) + 1 = a + (Len(row) - (n + 1))
    BY <1>1, <1>3, <1>5
  <2> DEFINE next == [list |-> s, at |-> a, size |-> z - 1]
  <2>7. next.list = s /\ next.at = a /\ next.size = z - 1
        /\ next = [list |-> next.list, at |-> next.at, size |-> next.size]
    OBVIOUS
  <2> HIDE DEF next
  <2>8. Sweeps(next, row, side, n + 1)
    BY <1>3, <2>2, <2>3, <2>4, <2>5, <2>6, <2>7 DEF Sweeps
  <2>. QED
    BY <2>1, <2>8 DEF next
<1>7. CASE IsAuth(l[a]) <=> ~side
  <2>1. Turn(loop, side) = [list |-> l, at |-> a + 1, size |-> z]
    <3>1. Turn(loop, side) = [loop EXCEPT !.at = a + 1]
      BY <1>2, <1>3, <1>5, <1>7 DEF Turn
    <3>. QED
      BY <1>2, <3>1
  <2>2. \A i \in 1..((a + 1) - 1) : IsAuth(l[i]) <=> ~side
    <3>1. \A i \in 1..((a + 1) - 1) : i = a \/ i \in 1..(a - 1)
      BY <1>3
    <3>. QED
      BY <1>4, <1>7, <3>1
  <2>3. a + 1 \in Nat \ {0} /\ z + 1 = (a + 1) + (Len(row) - (n + 1))
    BY <1>1, <1>3
  <2> DEFINE next == [list |-> l, at |-> a + 1, size |-> z]
  <2>4. next.list = l /\ next.at = a + 1 /\ next.size = z
        /\ next = [list |-> next.list, at |-> next.at, size |-> next.size]
    OBVIOUS
  <2> HIDE DEF next
  <2>5. Sweeps(next, row, side, n + 1)
    BY <1>3, <1>4, <2>2, <2>3, <2>4 DEF Sweeps
  <2>. QED
    BY <2>1, <2>5 DEF next
<1>. QED
  BY <1>6, <1>7

\* The turns of the loop, as a function that is there.
IsLoop(loop, row, side, n) ==
    loop = [k \in 0..n |-> IF k = 0 THEN [list |-> row, at |-> 1, size |-> Len(row)]
                           ELSE Turn(loop[k - 1], side)]

LEMMA LoopRuns ==
    ASSUME NEW row \in Seq(Pages), NEW side
    PROVE  \E loop : /\ IsLoop(loop, row, side, Len(row))
                     /\ Sweep(row, side) = SubSeq(loop[Len(row)].list, 1, loop[Len(row)].size)
<1> DEFINE Has(n) == \E loop : IsLoop(loop, row, side, n)
           Reach == {n \in Nat : Has(n)}
           start == [list |-> row, at |-> 1, size |-> Len(row)]
<1>1. Has(0)
  <2> HIDE DEF start
  <2> DEFINE loop == [k \in 0..0 |-> start]
  <2>1. loop = [k \in 0..0 |-> IF k = 0 THEN start ELSE Turn(loop[k - 1], side)]
    OBVIOUS
  <2> HIDE DEF loop
  <2>. QED
    BY <2>1 DEF IsLoop, start
<1>2. ASSUME NEW n \in Nat, Has(n)
      PROVE  Has(n + 1)
  <2>1. PICK loop : IsLoop(loop, row, side, n)
    BY <1>2
  <2> DEFINE At(k, before) == IF k = 0 THEN start ELSE Turn(before, side)
             more == [k \in 0..(n + 1) |-> At(k, loop[k - 1])]
  <2>2. \A k \in 0..n : loop[k] = At(k, loop[k - 1])
    <3> HIDE DEF more
    <3>. QED
      BY <2>1 DEF IsLoop
  <2> HIDE DEF start
  <2>3. \A k \in 0..n : more[k] = loop[k]
    <3>1. \A k \in 0..n : k \in 0..(n + 1)
      OBVIOUS
    <3>2. \A k \in 0..n : more[k] = At(k, loop[k - 1])
      <4> HIDE DEF At
      <4>. QED
        BY <3>1
    <3>. QED
      BY <2>2, <3>2
  <2>4. \A k \in 1..(n + 1) : k - 1 \in 0..n
    OBVIOUS
  <2>5. \A k \in 0..(n + 1) : more[k] = At(k, loop[k - 1])
    <3> HIDE DEF At
    <3>. QED
      OBVIOUS
  <2>6. more = [k \in 0..(n + 1) |-> more[k]]
    OBVIOUS
  <2> HIDE DEF more
  <2>7. \A k \in 0..(n + 1) : more[k] = At(k, more[k - 1])
    <3>1. \A k \in 0..(n + 1) : k = 0 \/ k \in 1..(n + 1)
      OBVIOUS
    <3>. QED
      BY <2>3, <2>4, <2>5, <3>1
  <2>8. more = [k \in 0..(n + 1) |-> At(k, more[k - 1])]
    <3> HIDE DEF At
    <3>. QED
      BY <2>6, <2>7
  <2>. QED
    BY <2>8 DEF IsLoop, start
<1>3. Len(row) \in Reach
  <2> HIDE DEF Has
  <2>1. 0 \in Reach /\ \A n \in Nat : n \in Reach => n + 1 \in Reach
    BY <1>1, <1>2
  <2>2. Len(row) \in Nat
    OBVIOUS
  <2> HIDE DEF Reach
  <2>. QED
    BY <2>1, <2>2, NatInSet
<1> DEFINE chosen == CHOOSE loop : IsLoop(loop, row, side, Len(row))
<1>4. Sweep(row, side) = SubSeq(chosen[Len(row)].list, 1, chosen[Len(row)].size)
  BY DEF Sweep, IsLoop
<1>5. IsLoop(chosen, row, side, Len(row))
  BY <1>3
<1> HIDE DEF chosen
<1>. QED
  BY <1>4, <1>5

\* What the loop leaves of a list: the pages of the other side, as often as they
\* were in it.
LEMMA SweepIs ==
    ASSUME NEW row \in Seq(Pages), NEW side \in BOOLEAN, NEW v \in Pages
    PROVE  Times(Sweep(row, side), v) = IF IsAuth(v) <=> side THEN 0 ELSE Times(row, v)
<1>1. PICK loop : /\ IsLoop(loop, row, side, Len(row))
                  /\ Sweep(row, side) = SubSeq(loop[Len(row)].list, 1, loop[Len(row)].size)
  BY LoopRuns
<1>2. PICK n \in Nat : n = Len(row)
  OBVIOUS
<1>3. /\ loop[0] = [list |-> row, at |-> 1, size |-> n]
      /\ \A k \in 1..n : loop[k] = Turn(loop[k - 1], side)
  <2>1. \A k \in 0..n : loop[k] = IF k = 0 THEN [list |-> row, at |-> 1, size |-> Len(row)]
                                ELSE Turn(loop[k - 1], side)
    BY <1>1, <1>2 DEF IsLoop
  <2>2. loop[0] = [list |-> row, at |-> 1, size |-> n]
    BY <1>2, <2>1
  <2>3. \A k \in 1..n : k \in 0..n /\ k # 0
    OBVIOUS
  <2>4. \A k \in 1..n : loop[k] = Turn(loop[k - 1], side)
    BY <2>1, <2>3
  <2>. QED
    BY <2>2, <2>4
<1> DEFINE Going(k) == Sweeps(loop[k], row, side, k)
           Gone == {k \in Nat : k =< n => Going(k)}
<1>4. Going(0)
  BY <1>2, <1>3 DEF Sweeps
<1>5. ASSUME NEW k \in Nat, Going(k), k + 1 =< n
      PROVE  Going(k + 1)
  <2>1. k \in 0..(Len(row) - 1) /\ k + 1 \in 1..n /\ (k + 1) - 1 = k
    BY <1>2, <1>5
  <2>2. loop[k + 1] = Turn(loop[k], side)
    BY <1>3, <2>1
  <2>. QED
    BY <1>5, <2>1, <2>2, TurnSweeps
<1>6. n \in Gone
  <2> HIDE DEF Going
  <2>1. 0 \in Gone
    BY <1>4
  <2>2. \A k \in Nat : k \in Gone => k + 1 \in Gone
    <3> SUFFICES ASSUME NEW k \in Nat, k =< n => Going(k), k + 1 =< n
                 PROVE  Going(k + 1)
      OBVIOUS
    <3>1. k =< n
      OBVIOUS
    <3>. QED
      BY <1>5, <3>1
  <2> HIDE DEF Gone
  <2>. QED
    BY <2>1, <2>2, NatInSet
<1>7. Sweeps(loop[n], row, side, n)
  BY <1>6
<1>8. PICK l, z : l = loop[n].list /\ z = loop[n].size
  OBVIOUS
<1>9. /\ l \in Seq(Pages) /\ Len(l) = n /\ z \in 0..n
      /\ \A i \in 1..z : IsAuth(l[i]) <=> ~side
      /\ \A i \in (z + 1)..n : IsAuth(l[i]) <=> side
      /\ Times(l, v) = Times(row, v)
  BY <1>2, <1>7, <1>8 DEF Sweeps
<1> DEFINE left == SubSeq(l, 1, z)
<1>10. left \in Seq(Pages) /\ Len(left) = z /\ \A i \in 1..z : left[i] = l[i]
  BY <1>9
<1> HIDE DEF left
<1>11. Hits(left, v, z) = Hits(l, v, z)
  BY <1>10 DEF Hits
<1>12. Times(left, v) = Cardinality(Hits(l, v, z))
  BY <1>10, <1>11, TimesIs
<1>13. CASE IsAuth(v) <=> side
  <2>1. Hits(l, v, z) = {}
    BY <1>9, <1>13 DEF Hits
  <2>. QED
    BY <1>1, <1>2, <1>8, <1>12, <1>13, <2>1, FS_EmptySet DEF left
<1>14. CASE ~(IsAuth(v) <=> side)
  <2>1. Hits(l, v, z) = Hits(l, v, n)
    <3>1. \A i \in 1..n : i \in 1..z \/ i \in (z + 1)..n
      BY <1>9
    <3>2. \A i \in 1..z : i \in 1..n
      BY <1>9
    <3>. QED
      BY <1>9, <1>14, <3>1, <3>2 DEF Hits
  <2>2. Times(l, v) = Cardinality(Hits(l, v, n))
    BY <1>9, TimesIs
  <2>. QED
    BY <1>1, <1>2, <1>8, <1>9, <1>12, <1>14, <2>1, <2>2 DEF left
<1>. QED
  BY <1>13, <1>14

\* A link out of a page is a link into another.
GraphInv ==
    /\ outs \in [Pages -> Seq(Pages)] /\ ins \in [Pages -> Seq(Pages)]
    /\ \A u, v \in Pages : Times(outs[u], v) = Times(ins[v], u)

LEMMA GraphInitHolds == GraphInit => GraphInv
<1> SUFFICES ASSUME GraphInit
             PROVE  GraphInv
  OBVIOUS
<1>1. PICK none : none = <<>>
  OBVIOUS
<1>2. none \in Seq(Pages)
  BY <1>1
<1>3. outs = [u \in Pages |-> none] /\ ins = [u \in Pages |-> none]
  BY <1>1 DEF GraphInit
<1>4. \A v : Hits(none, v, Len(none)) = {} /\ Times(none, v) = Cardinality(Hits(none, v, Len(none)))
  <2>1. Len(none) = 0
    BY <1>1
  <2>2. \A v : Times(none, v) = Cardinality(Hits(none, v, Len(none)))
    BY <1>2, TimesIs
  <2>. QED
    BY <2>1, <2>2 DEF Hits
<1>. QED
  BY <1>2, <1>3, <1>4 DEF GraphInv

LEMMA GraphStep == GraphInv /\ [Link]_graph => GraphInv'
<1> SUFFICES ASSUME GraphInv, [Link]_graph
             PROVE  GraphInv'
  OBVIOUS
<1>1. CASE Link
  <2>1. PICK a \in Pages, b \in Pages :
           /\ outs' = [outs EXCEPT ![a] = Append(@, b)]
           /\ ins' = [ins EXCEPT ![b] = Append(@, a)]
    BY <1>1 DEF Link
  <2>2. outs \in [Pages -> Seq(Pages)] /\ ins \in [Pages -> Seq(Pages)]
    BY DEF GraphInv
  <2>3. /\ outs' \in [Pages -> Seq(Pages)] /\ ins' \in [Pages -> Seq(Pages)]
        /\ outs'[a] = Append(outs[a], b) /\ ins'[b] = Append(ins[b], a)
        /\ \A u \in Pages : u # a => outs'[u] = outs[u]
        /\ \A v \in Pages : v # b => ins'[v] = ins[v]
    BY <2>1, <2>2
  <2>4. ASSUME NEW u \in Pages, NEW v \in Pages
        PROVE  Times(outs'[u], v) = Times(ins'[v], u)
    <3>1. Times(outs[u], v) = Times(ins[v], u) /\ outs[u] \in Seq(Pages) /\ ins[v] \in Seq(Pages)
      BY <2>2 DEF GraphInv
    <3>2. Times(outs'[u], v) = IF u = a /\ v = b THEN Times(outs[u], v) + 1 ELSE Times(outs[u], v)
      <4>1. \A e : Times(Append(outs[u], b), e) = IF b = e THEN Times(outs[u], e) + 1 ELSE Times(outs[u], e)
        BY <3>1, AppendedTimes
      <4>2. CASE u = a
        BY <2>3, <4>1, <4>2
      <4>3. CASE u # a
        BY <2>3, <4>3
      <4>. QED
        BY <4>2, <4>3
    <3>3. Times(ins'[v], u) = IF u = a /\ v = b THEN Times(ins[v], u) + 1 ELSE Times(ins[v], u)
      <4>1. \A e : Times(Append(ins[v], a), e) = IF a = e THEN Times(ins[v], e) + 1 ELSE Times(ins[v], e)
        BY <3>1, AppendedTimes
      <4>2. CASE v = b
        BY <2>3, <4>1, <4>2
      <4>3. CASE v # b
        BY <2>3, <4>3
      <4>. QED
        BY <4>2, <4>3
    <3>. QED
      BY <3>1, <3>2, <3>3
  <2>. QED
    BY <2>3, <2>4 DEF GraphInv
<1>2. CASE UNCHANGED graph
  BY <1>2 DEF graph, GraphInv
<1>. QED
  BY <1>1, <1>2

\* SidesAreApart: whatever the graph, the loop of salsaRank that swaps links to
\* the end and looks again leaves the links between authorities and hubs, each as
\* often as it was there, in both tables.
THEOREM GraphIsBipartite == GraphSpec => []SidesAreApart
<1>1. ASSUME GraphInv
      PROVE  SidesAreApart
  <2> SUFFICES ASSUME NEW u \in Pages, NEW v \in Pages
               PROVE  LET before == IF IsAuth(u) <=> IsAuth(v) THEN 0 ELSE Times(outs[u], v)
                      IN  Times(Swept(outs)[u], v) = before /\ Times(Swept(ins)[v], u) = before
    BY Zenon DEF SidesAreApart
  <2>1. outs[u] \in Seq(Pages) /\ ins[v] \in Seq(Pages) /\ Times(outs[u], v) = Times(ins[v], u)
    BY <1>1 DEF GraphInv
  <2>2. IsAuth(u) \in BOOLEAN /\ IsAuth(v) \in BOOLEAN
    BY DEF IsAuth
  <2>3. Times(Sweep(outs[u], IsAuth(u)), v) = IF IsAuth(v) <=> IsAuth(u) THEN 0 ELSE Times(outs[u], v)
    BY <2>1, <2>2, SweepIs
  <2>4. Times(Sweep(ins[v], IsAuth(v)), u) = IF IsAuth(u) <=> IsAuth(v) THEN 0 ELSE Times(ins[v], u)
    BY <2>1, <2>2, SweepIs
  <2>5. Swept(outs)[u] = Sweep(outs[u], IsAuth(u)) /\ Swept(ins)[v] = Sweep(ins[v], IsAuth(v))
    BY DEF Swept
  <2>. QED
    BY <2>1, <2>3, <2>4, <2>5
<1>2. GraphInit => GraphInv
  BY GraphInitHolds
<1>. QED
  BY <1>1, <1>2, GraphStep, PTL DEF GraphSpec

-----------------------------------------------------------------------------
(* The steps that are left *)

\* How far a label is from "done" at most.
Cost == [label \in PCs |->
            CASE label = "idle"   -> 8
              [] label = "lookup" -> 7
              [] label = "rank"   -> 6
              [] label = "select" -> 5
              [] label = "keep"   -> 4
              [] label = "filter" -> 3
              [] label = "show"   -> 2
              [] label \in {"leave", "refused"} -> 1
              [] label = "done"   -> 0]

\* Every step of a search, its start included, brings it nearer to its end, and
\* nothing that others do brings it farther away.
SearchRunsDown ==
    \A s \in Searches :
        /\ Enter(s) \/ Step(s) => Cost[pc'[s]] < Cost[pc[s]]
        /\ Cost[pc'[s]] =< Cost[pc[s]]

LEMMA Costs ==
    /\ \A label \in PCs : Cost[label] \in 0..8
    /\ Cost["idle"] = 8 /\ Cost["lookup"] = 7 /\ Cost["rank"] = 6 /\ Cost["select"] = 5
    /\ Cost["keep"] = 4 /\ Cost["filter"] = 3 /\ Cost["show"] = 2
    /\ Cost["leave"] = 1 /\ Cost["refused"] = 1 /\ Cost["done"] = 0
  BY DEF Cost, PCs

\* A step of one search moves no other.
LEMMA StepIsOwn ==
    ASSUME pc \in [Searches -> PCs], NEW s \in Searches, Enter(s) \/ Step(s)
    PROVE  /\ \A t \in Searches \ {s} : pc'[t] = pc[t]
           /\ Cost[pc'[s]] < Cost[pc[s]]
<1>1. CASE Enter(s)
  <2>1. PICK label \in {"refused", "leave", "lookup"} : pc' = [pc EXCEPT ![s] = label]
    BY <1>1 DEF Enter, Goto
  <2>2. pc[s] = "idle" /\ pc'[s] = label
    BY <1>1, <2>1 DEF Enter
  <2>. QED
    BY <2>1, <2>2, Costs
<1>2. CASE LookUp(s)
  <2>1. PICK label \in {"show", "rank"} : pc' = [pc EXCEPT ![s] = label]
    BY <1>2 DEF LookUp, Goto
  <2>2. pc[s] = "lookup" /\ pc'[s] = label
    BY <1>2, <2>1 DEF LookUp
  <2>. QED
    BY <2>1, <2>2, Costs
<1>3. CASE LookUpRaw(s)
  <2>1. PICK label \in {"filter", "select"} : pc' = [pc EXCEPT ![s] = label]
    BY <1>3 DEF LookUpRaw, Goto
  <2>2. pc[s] = "rank" /\ pc'[s] = label
    BY <1>3, <2>1 DEF LookUpRaw
  <2>. QED
    BY <2>1, <2>2, Costs
<1>4. CASE Select(s)
  <2>1. pc[s] = "select" /\ pc' = [pc EXCEPT ![s] = "keep"]
    BY <1>4 DEF Select, Goto
  <2>. QED
    BY <2>1, Costs
<1>5. CASE Keep(s)
  <2>1. pc[s] = "keep" /\ pc' = [pc EXCEPT ![s] = "filter"]
    BY <1>5 DEF Keep, Goto
  <2>. QED
    BY <2>1, Costs
<1>6. CASE Filter(s)
  <2>1. pc[s] = "filter" /\ pc' = [pc EXCEPT ![s] = "show"]
    BY <1>6 DEF Filter, Goto
  <2>. QED
    BY <2>1, Costs
<1>7. CASE Show(s)
  <2>1. pc[s] = "show" /\ pc' = [pc EXCEPT ![s] = "leave"]
    BY <1>7 DEF Show, Goto
  <2>. QED
    BY <2>1, Costs
<1>8. CASE Leave(s)
  <2>1. pc[s] \in {"refused", "leave", "select", "show"} /\ pc' = [pc EXCEPT ![s] = "done"]
    BY <1>8 DEF Leave, Goto
  <2>. QED
    BY <2>1, Costs
<1>. QED
  BY <1>1, <1>2, <1>3, <1>4, <1>5, <1>6, <1>7, <1>8 DEF Step

LEMMA StepsRunDown == IInv /\ IInv' /\ [Next]_vars => SearchRunsDown
<1> SUFFICES ASSUME IInv, IInv', [Next]_vars, NEW s \in Searches
             PROVE  /\ Enter(s) \/ Step(s) => Cost[pc'[s]] < Cost[pc[s]]
                    /\ Cost[pc'[s]] =< Cost[pc[s]]
  BY DEF SearchRunsDown
<1>1. Cost[pc[s]] \in Int /\ Cost[pc'[s]] \in Int
  BY Costs DEF IInv
<1>2. pc \in [Searches -> PCs]
  BY DEF IInv
<1>3. Enter(s) \/ Step(s) => Cost[pc'[s]] < Cost[pc[s]]
  BY <1>2, StepIsOwn
<1>4. ASSUME NEW t \in Searches, Enter(t) \/ Step(t)
      PROVE  Cost[pc'[s]] =< Cost[pc[s]]
  <2>1. CASE s = t
    BY <2>1, <1>1, <1>3, <1>4
  <2>2. CASE s # t
    <3>1. pc'[s] = pc[s]
      BY <2>2, <1>2, <1>4, StepIsOwn
    <3>. QED
      BY <3>1, <1>1
  <2>. QED
    BY <2>1, <2>2
<1>5. CASE Change \/ Expire \/ UNCHANGED vars
  <2>1. pc' = pc
    BY <1>5 DEF Change, Expire, vars, request
  <2>. QED
    BY <2>1, <1>1, <1>3
<1>. QED
  BY <1>3, <1>4, <1>5 DEF Next

\* SearchRunsDown, in every step: a search ends after at most eight steps of its
\* own, whatever the crawler and the other searches do meanwhile.  So the work
\* of all of them is finite, and a search that comes to no end is one that is
\* not run.
THEOREM SearchIsBounded == SafeSpec => [][SearchRunsDown]_vars
<1>1. IInv /\ IInv' /\ [Next]_vars => [SearchRunsDown]_vars
  BY StepsRunDown
<1>. QED
  BY <1>1, InitIInv, Inductive, PTL DEF SafeSpec

=============================================================================
