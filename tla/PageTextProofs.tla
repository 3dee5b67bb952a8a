---------------------------- MODULE PageTextProofs ----------------------------
(***************************************************************************)
(* Proofs about what the crawler takes from a page of text/gemini          *)
(* (GeminiText), for pages of any length, and about where its links lead   *)
(* (UrlText, PageLinks), for all links with paths of any length.           *)
(***************************************************************************)
EXTENDS Texts, RobotsTextProofs

(* Reading node by node *)

\* A line of text has been read, a separator counting as one.
TextSeen == \E j \in DOMAIN nodes : nodes[j].type = "text" /\ nodes[j].line # "empty"

\* No link follows node i.
NoLinkAfter(i) == \A n \in (i + 1)..Len(nodes) : nodes[n].type # "link"

\* The run of entries at the end has one at least, or two.
EndsInEntry == \E k \in DOMAIN nodes : IsEntry(k) /\ NoLinkAfter(k)
EndsInTwo ==
    \E j, k \in DOMAIN nodes :
       /\ j < k /\ IsEntry(j) /\ IsEntry(k)
       /\ \A n \in (j..Len(nodes)) \ {j, k} : nodes[n].type # "link"

Triple(i, j, k) ==
    /\ i < j /\ j < k /\ IsEntry(i) /\ IsEntry(j) /\ IsEntry(k)
    /\ \A n \in (i..k) \ {i, j, k} : nodes[n].type # "link"

\* What first_content and the counter of isGemsub stand for.
GeminiInv ==
    /\ GeminiTypeOK
    /\ firstContent <=> ~TextSeen
    /\ TextIsExact
    /\ run >= 1 <=> EndsInEntry
    /\ run >= 2 <=> EndsInTwo
    /\ GemsubIsExact

LEMMA GeminiInitHolds == GeminiInit => GeminiInv
<1> SUFFICES ASSUME GeminiInit
             PROVE  GeminiInv
  OBVIOUS
<1>1. DOMAIN nodes = {} /\ Len(nodes) = 0 /\ nodes \in Seq(Nodes)
  BY DEF GeminiInit
<1>. QED
  BY <1>1 DEF GeminiInit, GeminiInv, GeminiTypeOK, TextSeen, TextIsExact, EndsInEntry,
     EndsInTwo, GemsubIsExact, IsGemsub

\* A page with one node more.
LEMMA NodeAppended ==
    ASSUME nodes \in Seq(Nodes), NEW node \in Nodes, nodes' = Append(nodes, node)
    PROVE  /\ nodes' \in Seq(Nodes) /\ Len(nodes) \in Nat
           /\ Len(nodes') = Len(nodes) + 1
           /\ DOMAIN nodes = 1..Len(nodes)
           /\ DOMAIN nodes' = 1..(Len(nodes) + 1)
           /\ nodes'[Len(nodes) + 1] = node
           /\ \A k \in 1..Len(nodes) : nodes'[k] = nodes[k]
  OBVIOUS

LEMMA GeminiTypeStep ==
    ASSUME GeminiTypeOK, NEW node \in Nodes, ReadNode(node)
    PROVE  GeminiTypeOK'
<1>1. nodes' = Append(nodes, node) /\ nodes \in Seq(Nodes)
  BY DEF ReadNode, GeminiTypeOK
<1>2. text' \subseteq DOMAIN nodes' /\ title' \in {0} \cup DOMAIN nodes' /\ firstContent' \in BOOLEAN
  BY <1>1, NodeAppended DEF ReadNode, Extract, GeminiTypeOK
<1>3. run' \in 0..longest' /\ longest' \in 0..Len(nodes')
  BY <1>1, NodeAppended DEF ReadNode, Count, GeminiTypeOK
<1>. QED
  BY <1>1, <1>2, <1>3, NodeAppended DEF GeminiTypeOK

LEMMA TextStep ==
    ASSUME GeminiInv, NEW node \in Nodes, ReadNode(node)
    PROVE  TextIsExact' /\ (firstContent' <=> ~TextSeen')
<1>1. nodes' = Append(nodes, node) /\ nodes \in Seq(Nodes) /\ Extract(node)
  BY DEF ReadNode, GeminiInv, GeminiTypeOK
<1>2. PICK m \in Nat : m = Len(nodes)
  BY <1>1, NodeAppended
<1>3. /\ DOMAIN nodes = 1..m /\ DOMAIN nodes' = 1..(m + 1) /\ nodes'[m + 1] = node
      /\ \A k \in 1..m : nodes'[k] = nodes[k]
  BY <1>1, <1>2, NodeAppended
<1>4. TextSeen' <=> TextSeen \/ (node.type = "text" /\ node.line # "empty")
  BY <1>3 DEF TextSeen
<1>5. firstContent' <=> ~TextSeen'
  BY <1>1, <1>4 DEF Extract, GeminiInv, GeminiTypeOK
<1> DEFINE Extracted(i) ==
             /\ ~(nodes[i].type = "text" /\ nodes[i].line = "separator")
             /\ nodes[i].type = "preformatted" =>
                   /\ ~nodes[i].art
                   /\ \E j \in 1..(i - 1) : nodes[j].type = "text" /\ nodes[j].line # "empty"
<1>6. \A i \in 1..m : Extracted(i)' <=> Extracted(i)
  <2> SUFFICES ASSUME NEW i \in 1..m
               PROVE  Extracted(i)' <=> Extracted(i)
    OBVIOUS
  <2>1. \A j \in 1..(i - 1) : j \in 1..m
    OBVIOUS
  <2>. QED
    BY <2>1, <1>3
<1>7. Extracted(m + 1)' <=> ~Dropped(node)
  <2>1. (\E j \in 1..((m + 1) - 1) : nodes[j].type = "text" /\ nodes[j].line # "empty")'
        <=> ~firstContent
    BY <1>3 DEF GeminiInv, TextSeen
  <2>2. ((m + 1)' = m + 1) /\ nodes'[m + 1] = node
    BY <1>3
  <2>3. node.type = "preformatted" => node.art \in BOOLEAN
    BY DEF Nodes
  <2>. QED
    BY <2>1, <2>2, <2>3 DEF Dropped
<1>8. text = {i \in 1..m : Extracted(i)}
  BY <1>3 DEF GeminiInv, TextIsExact
<1> HIDE DEF Extracted
<1>9. text' = {i \in 1..(m + 1) : Extracted(i)'}
  <2>1. 1..(m + 1) = (1..m) \cup {m + 1}
    OBVIOUS
  <2>2. text' = IF Dropped(node) THEN text ELSE text \cup {m + 1}
    BY <1>1, <1>2 DEF Extract
  <2>. QED
    BY <2>1, <2>2, <1>6, <1>7, <1>8
<1>10. TextIsExact'
  BY <1>3, <1>9 DEF TextIsExact, Extracted
<1>. QED
  BY <1>5, <1>10

\* What a new node does to the end of the page.
LEMMA EndStep ==
    ASSUME GeminiTypeOK, NEW node \in Nodes, nodes' = Append(nodes, node)
    PROVE  /\ node.type # "link" =>
                 (EndsInEntry' <=> EndsInEntry) /\ (EndsInTwo' <=> EndsInTwo)
           /\ node.type = "link" /\ node.entry = "here" =>
                 EndsInEntry' /\ (EndsInTwo' <=> EndsInEntry)
           /\ node.type = "link" /\ node.entry # "here" => ~EndsInEntry' /\ ~EndsInTwo'
<1>1. PICK m \in Nat : m = Len(nodes)
  BY NodeAppended DEF GeminiTypeOK
<1>2. /\ DOMAIN nodes = 1..m /\ DOMAIN nodes' = 1..(m + 1) /\ nodes'[m + 1] = node
      /\ \A k \in 1..m : nodes'[k] = nodes[k]
      /\ Len(nodes') = m + 1
  BY <1>1, NodeAppended DEF GeminiTypeOK
<1>3. \A k \in 1..m : IsEntry(k)' <=> IsEntry(k)
  BY <1>2 DEF IsEntry
<1>4. IsEntry(m + 1)' <=> node.type = "link" /\ node.entry = "here"
  BY <1>2 DEF IsEntry
<1>5. \A k \in 1..m : NoLinkAfter(k)' <=> NoLinkAfter(k) /\ node.type # "link"
  <2> SUFFICES ASSUME NEW k \in 1..m
               PROVE  NoLinkAfter(k)' <=> NoLinkAfter(k) /\ node.type # "link"
    OBVIOUS
  <2>1. (k + 1)..(m + 1) = ((k + 1)..m) \cup {m + 1} /\ (k + 1)..m \subseteq 1..m
    OBVIOUS
  <2>. QED
    BY <1>1, <1>2, <2>1 DEF NoLinkAfter
<1>6. NoLinkAfter(m + 1)'
  <2>1. ((m + 1) + 1)..(m + 1) = {}
    OBVIOUS
  <2>. QED
    BY <1>2, <2>1 DEF NoLinkAfter
<1>7. EndsInEntry' <=> \/ EndsInEntry /\ node.type # "link"
                       \/ node.type = "link" /\ node.entry = "here"
  BY <1>2, <1>3, <1>4, <1>5, <1>6 DEF EndsInEntry
<1> DEFINE Two(j, k) == /\ j < k /\ IsEntry(j) /\ IsEntry(k)
                        /\ \A n \in (j..Len(nodes)) \ {j, k} : nodes[n].type # "link"
<1>8. \A j, k \in 1..m : Two(j, k)' <=> Two(j, k) /\ node.type # "link"
  <2> SUFFICES ASSUME NEW j \in 1..m, NEW k \in 1..m
               PROVE  Two(j, k)' <=> Two(j, k) /\ node.type # "link"
    OBVIOUS
  <2>1. /\ (j..(m + 1)) \ {j, k} = ((j..m) \ {j, k}) \cup {m + 1}
        /\ j..m \subseteq 1..m
    OBVIOUS
  <2>2. (\A n \in (j..Len(nodes)) \ {j, k} : nodes[n].type # "link")'
        <=> /\ \A n \in (j..Len(nodes)) \ {j, k} : nodes[n].type # "link"
            /\ node.type # "link"
    BY <1>1, <1>2, <2>1
  <2>. QED
    BY <1>3, <2>2
<1>9. \A j \in 1..m : Two(j, m + 1)' <=> IsEntry(j) /\ NoLinkAfter(j) /\ IsEntry(m + 1)'
  <2> SUFFICES ASSUME NEW j \in 1..m
               PROVE  Two(j, m + 1)' <=> IsEntry(j) /\ NoLinkAfter(j) /\ IsEntry(m + 1)'
    OBVIOUS
  <2>1. (j..(m + 1)) \ {j, m + 1} = (j + 1)..m /\ (j + 1)..m \subseteq 1..m /\ j < m + 1
    OBVIOUS
  <2>2. (\A n \in (j..Len(nodes)) \ {j, m + 1} : nodes[n].type # "link")'
        <=> \A n \in (j + 1)..m : nodes[n].type # "link"
    BY <1>2, <2>1
  <2>. QED
    BY <1>1, <1>3, <2>1, <2>2 DEF NoLinkAfter
<1>10. \A k \in 1..(m + 1) : ~Two(m + 1, k)'
  OBVIOUS
<1>11. EndsInTwo <=> \E j, k \in 1..m : Two(j, k)
  BY <1>2 DEF EndsInTwo
<1>12. EndsInTwo' <=> \E j, k \in 1..(m + 1) : Two(j, k)'
  BY <1>2 DEF EndsInTwo
<1> HIDE DEF Two
<1>13. 1..(m + 1) = (1..m) \cup {m + 1}
  OBVIOUS
<1>14. EndsInTwo' <=> \/ EndsInTwo /\ node.type # "link"
                      \/ EndsInEntry /\ node.type = "link" /\ node.entry = "here"
  BY <1>2, <1>4, <1>8, <1>9, <1>10, <1>11, <1>12, <1>13 DEF EndsInEntry
<1>. QED
  BY <1>7, <1>14

\* A third entry in a row is one after a page that ends in two.
LEMMA TripleStep ==
    ASSUME GeminiTypeOK, NEW node \in Nodes, nodes' = Append(nodes, node)
    PROVE  (\E i, j, k \in DOMAIN nodes : Triple(i, j, k))'
           <=> \/ \E i, j, k \in DOMAIN nodes : Triple(i, j, k)
               \/ EndsInTwo /\ node.type = "link" /\ node.entry = "here"
<1>1. PICK m \in Nat : m = Len(nodes)
  BY NodeAppended DEF GeminiTypeOK
<1>2. /\ DOMAIN nodes = 1..m /\ DOMAIN nodes' = 1..(m + 1) /\ nodes'[m + 1] = node
      /\ \A k \in 1..m : nodes'[k] = nodes[k]
  BY <1>1, NodeAppended DEF GeminiTypeOK
<1>3. \A k \in 1..m : IsEntry(k)' <=> IsEntry(k)
  BY <1>2 DEF IsEntry
<1>4. IsEntry(m + 1)' <=> node.type = "link" /\ node.entry = "here"
  BY <1>2 DEF IsEntry
<1>5. \A i, j, k \in 1..m : Triple(i, j, k)' <=> Triple(i, j, k)
  <2> SUFFICES ASSUME NEW i \in 1..m, NEW j \in 1..m, NEW k \in 1..m
               PROVE  Triple(i, j, k)' <=> Triple(i, j, k)
    OBVIOUS
  <2>1. i..k \subseteq 1..m
    OBVIOUS
  <2>. QED
    BY <1>2, <1>3, <2>1 DEF Triple
<1>6. \A i, j \in 1..m :
        Triple(i, j, m + 1)' <=>
          /\ i < j /\ IsEntry(i) /\ IsEntry(j) /\ IsEntry(m + 1)'
          /\ \A n \in (i..m) \ {i, j} : nodes[n].type # "link"
  <2> SUFFICES ASSUME NEW i \in 1..m, NEW j \in 1..m
               PROVE  Triple(i, j, m + 1)' <=>
                        /\ i < j /\ IsEntry(i) /\ IsEntry(j) /\ IsEntry(m + 1)'
                        /\ \A n \in (i..m) \ {i, j} : nodes[n].type # "link"
    OBVIOUS
  <2>1. (i..(m + 1)) \ {i, j, m + 1} = (i..m) \ {i, j} /\ i..m \subseteq 1..m /\ j < m + 1
    OBVIOUS
  <2>. QED
    BY <1>2, <1>3, <2>1 DEF Triple
<1>7. \A i, j, k \in 1..(m + 1) : Triple(i, j, k)' => i \in 1..m /\ j \in 1..m
  BY DEF Triple
<1>8. EndsInTwo <=> \E i, j \in 1..m :
        /\ i < j /\ IsEntry(i) /\ IsEntry(j)
        /\ \A n \in (i..m) \ {i, j} : nodes[n].type # "link"
  BY <1>1, <1>2 DEF EndsInTwo
<1>9. 1..(m + 1) = (1..m) \cup {m + 1}
  OBVIOUS
<1>10. (\E i, j \in 1..m : Triple(i, j, m + 1)')
       <=> EndsInTwo /\ node.type = "link" /\ node.entry = "here"
  BY <1>4, <1>6, <1>8
<1>11. (\E i, j, k \in DOMAIN nodes : Triple(i, j, k))'
       <=> \/ \E i, j, k \in 1..m : Triple(i, j, k)'
           \/ \E i, j \in 1..m : Triple(i, j, m + 1)'
  <2> DEFINE T(i, j, k) == Triple(i, j, k)'
  <2>1. (\E i, j, k \in DOMAIN nodes : Triple(i, j, k))'
        <=> \E i, j, k \in 1..(m + 1) : T(i, j, k)
    BY <1>2
  <2>2. \A i, j, k \in 1..(m + 1) : T(i, j, k) => i \in 1..m /\ j \in 1..m
    BY <1>7
  <2> HIDE DEF T
  <2>3. (\E i, j, k \in 1..(m + 1) : T(i, j, k))
        <=> \/ \E i, j, k \in 1..m : T(i, j, k)
            \/ \E i, j \in 1..m : T(i, j, m + 1)
    BY <1>9, <2>2
  <2>. QED
    BY <2>1, <2>3 DEF T
<1>. QED
  BY <1>2, <1>5, <1>10, <1>11

LEMMA GemsubStep ==
    ASSUME GeminiInv, NEW node \in Nodes, ReadNode(node)
    PROVE  (run' >= 1 <=> EndsInEntry') /\ (run' >= 2 <=> EndsInTwo') /\ GemsubIsExact'
<1>1. nodes' = Append(nodes, node) /\ Count(node) /\ GeminiTypeOK
  BY DEF ReadNode, GeminiInv
<1>2. run \in Nat /\ longest \in Nat /\ run =< longest
  BY NodeAppended DEF GeminiInv, GeminiTypeOK
<1>3. node.type = "link" => node.entry \in {"here", "elsewhere", "nowhere", "undated"}
  BY DEF Nodes
<1>4. (run' >= 1 <=> EndsInEntry') /\ (run' >= 2 <=> EndsInTwo')
  BY <1>1, <1>2, <1>3, EndStep DEF Count, GeminiInv
<1>5. longest' >= 3 <=> longest >= 3 \/ (run >= 2 /\ node.type = "link" /\ node.entry = "here")
  BY <1>1, <1>2 DEF Count
<1>6. GemsubIsExact <=> (longest >= 3 <=> \E i, j, k \in DOMAIN nodes : Triple(i, j, k))
  BY DEF GemsubIsExact, IsGemsub, Triple
<1>7. GemsubIsExact' <=> (longest' >= 3 <=> (\E i, j, k \in DOMAIN nodes : Triple(i, j, k))')
  BY DEF GemsubIsExact, IsGemsub, Triple
<1>. QED
  BY <1>1, <1>4, <1>5, <1>6, <1>7, TripleStep DEF GeminiInv

LEMMA GeminiInvariance == GeminiSpec => []GeminiInv
<1>1. GeminiInv /\ [GeminiNext]_gemini => GeminiInv'
  <2> SUFFICES ASSUME GeminiInv, [GeminiNext]_gemini
               PROVE  GeminiInv'
    OBVIOUS
  <2>1. ASSUME NEW node \in Nodes, ReadNode(node)
        PROVE  GeminiInv'
    BY <2>1, GeminiTypeStep, TextStep, GemsubStep DEF GeminiInv
  <2>2. CASE UNCHANGED gemini
    <3>1. UNCHANGED <<nodes, firstContent, text, title, run, longest>>
      BY <2>2 DEF gemini
    <3>. QED
      BY <3>1 DEF GeminiInv, GeminiTypeOK, TextSeen, TextIsExact, EndsInEntry, EndsInTwo,
         NoLinkAfter, IsEntry, GemsubIsExact, IsGemsub
  <2>. QED
    BY <2>1, <2>2 DEF GeminiNext
<1>. QED
  BY <1>1, GeminiInitHolds, PTL DEF GeminiSpec

\* What the two functions of gemini_parser.cpp keep are places in the page.
THEOREM GeminiTypeCorrect == GeminiSpec => []GeminiTypeOK
  BY GeminiInvariance, PTL DEF GeminiInv

\* The text of the index has each node of a page of any length but its
\* separators and pictures (extractGeminiConcise).
THEOREM TextExact == GeminiSpec => []TextIsExact
  BY GeminiInvariance, PTL DEF GeminiInv

\* A page of any length is a feed exactly when three links in a row are dated
\* and stay on its host (isGemsub).
THEOREM GemsubExact == GeminiSpec => []GemsubIsExact
  BY GeminiInvariance, PTL DEF GeminiInv



(* Normal paths *)

\* The paths of seeds and links, and every segment there is.
PathsWritten ==
    {url.path : url \in Seeds} \cup {link.url.path : link \in {l \in Links : l.kind = "url"}}
       \cup {link.path : link \in {l \in Links : l.kind = "local"}}

Segment == {"", ".", ".."} \cup UNION {ToSet(path) : path \in PathsWritten}

LEMMA DotsAreSegments == {"", ".", ".."} \subseteq Segment
  BY DEF Segment

LEMMA WiderSeq ==
    ASSUME NEW S, NEW T, S \subseteq T, NEW s \in Seq(S)
    PROVE  s \in Seq(T)
  OBVIOUS

LEMMA SegmentsOfPath ==
    ASSUME NEW path \in PathsWritten, path \in Seq(ToSet(path))
    PROVE  path \in Seq(Segment)
<1> DEFINE sets == {ToSet(p) : p \in PathsWritten}
<1>1. ToSet(path) \in sets
  OBVIOUS
<1>2. Segment = {"", ".", ".."} \cup UNION sets
  BY DEF Segment
<1> HIDE DEF sets
<1>3. ToSet(path) \subseteq Segment
  BY <1>1, <1>2
<1>. QED
  BY <1>3, WiderSeq

LEMMA SeqIs ==
    ASSUME NEW S, NEW s \in Seq(S)
    PROVE  Len(s) \in Nat /\ \A i \in 1..Len(s) : s[i] \in S
  OBVIOUS

LEMMA AppendIs ==
    ASSUME NEW S, NEW s \in Seq(S), NEW e \in S
    PROVE  /\ Append(s, e) \in Seq(S) \ {<<>>} /\ Len(Append(s, e)) = Len(s) + 1
           /\ Append(s, e)[Len(s) + 1] = e
           /\ \A i \in 1..Len(s) : Append(s, e)[i] = s[i]
<1> DEFINE t == Append(s, e)
<1>1. /\ t \in Seq(S) /\ Len(t) = Len(s) + 1 /\ t[Len(s) + 1] = e
      /\ \A i \in 1..Len(s) : t[i] = s[i]
  OBVIOUS
<1>2. Len(s) \in Nat /\ Len(<<>>) = 0
  OBVIOUS
<1> HIDE DEF t
<1>3. t # <<>>
  BY <1>1, <1>2
<1>. QED
  BY <1>1, <1>3 DEF t

\* What a segment of a path makes of the names before it.
Descend(before, s) ==
    CASE s \in {"", "."} -> before
      [] s = ".." -> IF before = <<>> THEN <<>> ELSE Front(before)
      [] OTHER -> Append(before, s)

IsDescent(names, path, n) ==
    names = [i \in 0..n |-> IF i = 0 THEN <<>> ELSE Descend(names[i - 1], path[i])]

LEMMA DescentIsDefined ==
    ASSUME NEW path \in Seq(Segment)
    PROVE  \E names :
              /\ IsDescent(names, path, Len(path))
              /\ Normal(path) = IF Last(path) \in {"", ".", ".."}
                                THEN Append(names[Len(path)], "") ELSE names[Len(path)]
<1> DEFINE Has(n) == \E names : IsDescent(names, path, n)
           Reach == {n \in Nat : Has(n)}
<1>1. Has(0)
  <2> DEFINE names == [i \in 0..0 |-> <<>>]
  <2>1. names = [i \in 0..0 |-> IF i = 0 THEN <<>> ELSE Descend(names[i - 1], path[i])]
    OBVIOUS
  <2> HIDE DEF names
  <2>. QED
    BY <2>1 DEF IsDescent
<1>2. ASSUME NEW n \in Nat, Has(n)
      PROVE  Has(n + 1)
  <2>1. PICK names : IsDescent(names, path, n)
    BY <1>2
  <2> DEFINE more == [i \in 0..(n + 1) |-> IF i = 0 THEN <<>> ELSE Descend(names[i - 1], path[i])]
  <2>2. \A i \in 0..n : more[i] = names[i]
    <3>1. \A i \in 0..n : names[i] = IF i = 0 THEN <<>> ELSE Descend(names[i - 1], path[i])
      <4> HIDE DEF more
      <4>. QED
        BY <2>1 DEF IsDescent
    <3>2. \A i \in 0..n : i \in 0..(n + 1)
      OBVIOUS
    <3>. QED
      BY <3>1, <3>2
  <2>3. \A i \in 1..(n + 1) : i - 1 \in 0..n
    OBVIOUS
  <2>4. \A i \in 0..(n + 1) : more[i] = IF i = 0 THEN <<>> ELSE Descend(names[i - 1], path[i])
    OBVIOUS
  <2>5. more = [i \in 0..(n + 1) |-> more[i]]
    OBVIOUS
  <2> HIDE DEF more
  <2>6. \A i \in 0..(n + 1) : more[i] = IF i = 0 THEN <<>> ELSE Descend(more[i - 1], path[i])
    BY <2>2, <2>3, <2>4
  <2>7. more = [i \in 0..(n + 1) |-> IF i = 0 THEN <<>> ELSE Descend(more[i - 1], path[i])]
    BY <2>5, <2>6
  <2>. QED
    BY <2>7 DEF IsDescent
<1>3. Len(path) \in Reach
  <2> HIDE DEF Has
  <2>1. 0 \in Reach /\ \A n \in Nat : n \in Reach => n + 1 \in Reach
    BY <1>1, <1>2
  <2>2. Len(path) \in Nat
    OBVIOUS
  <2> HIDE DEF Reach
  <2>. QED
    BY <2>1, <2>2, NatInSet
<1> DEFINE picked == CHOOSE names : IsDescent(names, path, Len(path))
<1>4. Normal(path) = IF Last(path) \in {"", ".", ".."}
                     THEN Append(picked[Len(path)], "") ELSE picked[Len(path)]
  BY DEF Normal, IsDescent, Descend
<1>5. IsDescent(picked, path, Len(path))
  BY <1>3
<1> HIDE DEF picked
<1>. QED
  BY <1>4, <1>5

LEMMA DescentSteps ==
    ASSUME NEW names, NEW path, NEW n \in Nat, IsDescent(names, path, n)
    PROVE  /\ names[0] = <<>>
           /\ \A i \in 1..n : names[i] = Descend(names[i - 1], path[i])
  BY DEF IsDescent

Name == Segment \ {"", ".", ".."}

LEMMA FrontIs ==
    ASSUME NEW S, NEW s \in Seq(S) \ {<<>>}
    PROVE  /\ Front(s) \in Seq(S) /\ Len(Front(s)) = Len(s) - 1
           /\ \A i \in 1..(Len(s) - 1) : Front(s)[i] = s[i]
<1>1. Len(s) - 1 \in 0..Len(s)
  OBVIOUS
<1>2. Front(s) = Beginning(s, Len(s) - 1)
  BY DEF Front, Beginning
<1>. QED
  BY <1>1, <1>2, BeginningIs

LEMMA LastIs ==
    ASSUME NEW S, NEW s \in Seq(S) \ {<<>>}
    PROVE  /\ Len(s) \in Nat \ {0} /\ Len(s) \in Nat /\ Last(s) = s[Len(s)]
           /\ s[Len(s)] \in S /\ s \in Seq(S)
<1>1. Len(s) \in Nat \ {0}
  OBVIOUS
<1>. QED
  BY <1>1 DEF Last

LEMMA DescentInNames ==
    ASSUME NEW path \in Seq(Segment), NEW names, IsDescent(names, path, Len(path))
    PROVE  \A i \in 0..Len(path) : names[i] \in Seq(Name)
<1> DEFINE Typed == {i \in Nat : i =< Len(path) => names[i] \in Seq(Name)}
<1>1. Len(path) \in Nat
  OBVIOUS
<1>2. names[0] = <<>> /\ \A i \in 1..Len(path) : names[i] = Descend(names[i - 1], path[i])
  BY <1>1, DescentSteps
<1>3. 0 \in Typed
  <2>1. names[0] \in Seq(Name)
    BY <1>2
  <2>. QED
    BY <2>1
<1>4. ASSUME NEW i \in Nat, i \in Typed
      PROVE  i + 1 \in Typed
  <2> SUFFICES ASSUME i + 1 =< Len(path)
               PROVE  names[i + 1] \in Seq(Name)
    OBVIOUS
  <2>1. i + 1 \in 1..Len(path) /\ (i + 1) - 1 = i /\ names[i] \in Seq(Name)
    BY <1>1, <1>4
  <2>2. names[i + 1] = Descend(names[i], path[i + 1])
    BY <1>2, <2>1
  <2>3. path[i + 1] \in Segment
    BY <2>1
  <2> HIDE DEF Typed
  <2>4. CASE path[i + 1] \in {"", "."}
    BY <2>1, <2>2, <2>4 DEF Descend
  <2>5. CASE path[i + 1] = ".." /\ names[i] # <<>>
    <3>1. names[i + 1] = Front(names[i])
      BY <2>2, <2>5 DEF Descend
    <3>. QED
      BY <2>1, <2>5, <3>1, FrontIs
  <2>6. CASE path[i + 1] = ".." /\ names[i] = <<>>
    BY <2>1, <2>2, <2>6 DEF Descend
  <2>7. CASE path[i + 1] \notin {"", ".", ".."}
    <3>1. names[i + 1] = Append(names[i], path[i + 1]) /\ path[i + 1] \in Name
      BY <2>2, <2>3, <2>7 DEF Descend, Name
    <3>. QED
      BY <2>1, <3>1
  <2>. QED
    BY <2>4, <2>5, <2>6, <2>7
<1>5. Nat \subseteq Typed
  <2> HIDE DEF Typed
  <2>. QED
    BY <1>3, <1>4, NatInSet
<1>. QED
  BY <1>1, <1>5

\* Names are kept as they are.
LEMMA DescentOfNames ==
    ASSUME NEW path \in Seq(Segment), NEW names, IsDescent(names, path, Len(path)),
           NEW n \in 0..Len(path), \A i \in 1..n : path[i] \in Name
    PROVE  Len(names[n]) = n /\ \A i \in 1..n : names[n][i] = path[i]
<1> DEFINE Same(k) == Len(names[k]) = k /\ \A i \in 1..k : names[k][i] = path[i]
           SameSo == {k \in Nat : k =< n => Same(k)}
<1>1. Len(path) \in Nat
  OBVIOUS
<1>2. names[0] = <<>> /\ \A i \in 1..Len(path) : names[i] = Descend(names[i - 1], path[i])
  BY <1>1, DescentSteps
<1>3. \A i \in 0..Len(path) : names[i] \in Seq(Name)
  BY DescentInNames
<1>4. Same(0)
  BY <1>2
<1>5. ASSUME NEW k \in Nat, Same(k), k + 1 =< n
      PROVE  Same(k + 1)
  <2>1. k + 1 \in 1..Len(path) /\ (k + 1) - 1 = k /\ k \in 0..Len(path) /\ k + 1 \in 1..n
    BY <1>1, <1>5
  <2>2. names[k + 1] = Append(names[k], path[k + 1])
    <3>1. names[k + 1] = Descend(names[k], path[k + 1])
      BY <1>2, <2>1
    <3>2. path[k + 1] \notin {"", ".", ".."}
      BY <2>1 DEF Name
    <3>. QED
      BY <3>1, <3>2 DEF Descend
  <2>3. PICK s \in Seq(Name) : s = names[k] /\ Len(s) = k /\ \A i \in 1..k : s[i] = path[i]
    BY <1>3, <1>5, <2>1
  <2>4. Append(s, path[k + 1])[k + 1] = path[k + 1] /\ Len(Append(s, path[k + 1])) = k + 1
        /\ \A i \in 1..k : Append(s, path[k + 1])[i] = path[i]
    BY <2>3
  <2>5. 1..(k + 1) = (1..k) \cup {k + 1}
    OBVIOUS
  <2>. QED
    BY <2>2, <2>3, <2>4, <2>5
<1>6. Nat \subseteq SameSo
  <2> HIDE DEF Same
  <2>1. 0 \in SameSo
    BY <1>4
  <2>2. \A k \in Nat : k \in SameSo => k + 1 \in SameSo
    <3> SUFFICES ASSUME NEW k \in Nat, k =< n => Same(k), k + 1 =< n
                 PROVE  Same(k + 1)
      OBVIOUS
    <3>1. k =< n
      BY <1>1
    <3>. QED
      BY <1>5, <3>1
  <2> HIDE DEF SameSo
  <2>. QED
    BY <2>1, <2>2, NatInSet
<1>. QED
  BY <1>6

\* What std::filesystem leaves of a path: names, and a slash at the end.
IsNormal(path) ==
    /\ path \in Seq(Segment) \ {<<>>}
    /\ \A i \in 1..(Len(path) - 1) : path[i] \in Name
    /\ path[Len(path)] \in Name \cup {""}

Ending == Name \cup {""}

LEMMA NormalAppended ==
    ASSUME NEW s \in Seq(Name), NEW e \in Ending
    PROVE  IsNormal(Append(s, e))
<1>1. Name \subseteq Segment /\ e \in Segment
  BY DotsAreSegments DEF Name, Ending
<1>2. s \in Seq(Segment)
  BY <1>1, WiderSeq
<1>3. Len(s) \in Nat /\ \A i \in 1..Len(s) : s[i] \in Name
  BY SeqIs
<1> DEFINE t == Append(s, e)
<1>4. /\ t \in Seq(Segment) \ {<<>>} /\ Len(t) = Len(s) + 1
      /\ t[Len(s) + 1] = e /\ \A i \in 1..Len(s) : t[i] = s[i]
  BY <1>1, <1>2, AppendIs
<1> HIDE DEF t
<1>5. \A i \in 1..Len(s) : t[i] \in Name
  BY <1>3, <1>4
<1>6. Len(t) - 1 = Len(s) /\ t[Len(t)] = e
  BY <1>3, <1>4
<1>7. IsNormal(t)
  BY <1>4, <1>5, <1>6 DEF IsNormal, Ending
<1>. QED
  BY <1>7 DEF t

LEMMA NormalIsNormal ==
    ASSUME NEW path \in Seq(Segment) \ {<<>>}
    PROVE  IsNormal(Normal(path))
<1>1. PICK names : /\ IsDescent(names, path, Len(path))
                   /\ Normal(path) = IF Last(path) \in {"", ".", ".."}
                                     THEN Append(names[Len(path)], "") ELSE names[Len(path)]
  BY DescentIsDefined
<1>2. Len(path) \in Nat \ {0} /\ Last(path) = path[Len(path)] /\ path[Len(path)] \in Segment
  BY LastIs
<1>3. \A i \in 0..Len(path) : names[i] \in Seq(Name)
  BY <1>1, DescentInNames
<1>4. \A s \in Seq(Name), e \in Name \cup {""} : IsNormal(Append(s, e))
  BY NormalAppended DEF Ending
<1>5. CASE Last(path) \in {"", ".", ".."}
  <2>1. names[Len(path)] \in Seq(Name)
    BY <1>2, <1>3
  <2>. QED
    BY <1>1, <1>4, <1>5, <2>1
<1>6. CASE Last(path) \notin {"", ".", ".."}
  <2>1. Len(path) \in 1..Len(path) /\ Len(path) - 1 \in 0..Len(path) /\ Len(path) \in Nat
    BY <1>2
  <2>2. names[Len(path)] = Descend(names[Len(path) - 1], path[Len(path)])
    BY <1>1, <2>1, DescentSteps
  <2>3. names[Len(path)] = Append(names[Len(path) - 1], path[Len(path)]) /\ path[Len(path)] \in Name
    BY <1>2, <1>6, <2>2 DEF Descend, Name
  <2>. QED
    BY <1>1, <1>3, <1>4, <1>6, <2>1, <2>3
<1>. QED
  BY <1>5, <1>6

LEMMA NormalSettles ==
    ASSUME NEW path, IsNormal(path)
    PROVE  Normal(path) = path
<1>1. /\ path \in Seq(Segment) \ {<<>>} /\ path \in Seq(Segment)
      /\ \A i \in 1..(Len(path) - 1) : path[i] \in Name
      /\ path[Len(path)] \in Name \cup {""}
  BY DEF IsNormal
<1>2. Len(path) \in Nat \ {0} /\ Len(path) \in Nat /\ Last(path) = path[Len(path)]
  <2>1. path \in Seq(Segment) \ {<<>>}
    BY DEF IsNormal
  <2>. QED
    BY <2>1, LastIs
<1>2a. \A i \in 1..(Len(path) - 1) : path[i] \in Name
  BY DEF IsNormal
<1>3. PICK names : /\ IsDescent(names, path, Len(path))
                   /\ Normal(path) = IF Last(path) \in {"", ".", ".."}
                                     THEN Append(names[Len(path)], "") ELSE names[Len(path)]
  BY <1>1, DescentIsDefined
<1>3a. IsDescent(names, path, Len(path)) /\ path \in Seq(Segment)
  BY <1>1, <1>3
<1>4. Name \subseteq Segment
  BY DEF Name
<1>5. \A i \in 0..Len(path) : names[i] \in Seq(Segment)
  <2>1. \A i \in 0..Len(path) : names[i] \in Seq(Name)
    BY <1>1, <1>3, DescentInNames
  <2>. QED
    BY <1>4, <2>1, WiderSeq
<1>6. CASE path[Len(path)] = ""
  <2>1. Len(path) - 1 \in 0..Len(path) /\ Len(path) \in 1..Len(path) /\ Len(path) \in Nat
    BY <1>2
  <2>2. Len(names[Len(path) - 1]) = Len(path) - 1
        /\ \A i \in 1..(Len(path) - 1) : names[Len(path) - 1][i] = path[i]
    BY <1>3a, <1>2a, <2>1, DescentOfNames
  <2>3. names[Len(path)] = names[Len(path) - 1]
    <3>1. names[Len(path)] = Descend(names[Len(path) - 1], path[Len(path)])
      BY <1>3, <2>1, DescentSteps
    <3>. QED
      BY <1>6, <3>1 DEF Descend
  <2>4. Normal(path) = Append(names[Len(path) - 1], "")
    BY <1>2, <1>3, <1>6, <2>3
  <2>5. PICK s \in Seq(Segment) : /\ s = names[Len(path) - 1] /\ Len(s) = Len(path) - 1
                                 /\ \A i \in 1..(Len(path) - 1) : s[i] = path[i]
    BY <1>5, <2>1, <2>2
  <2>6. /\ Append(s, "") \in Seq(Segment) /\ Len(Append(s, "")) = Len(path)
        /\ Append(s, "")[Len(path)] = "" /\ \A i \in 1..(Len(path) - 1) : Append(s, "")[i] = path[i]
    <3>1. /\ Append(s, "") \in Seq(Segment) /\ Len(Append(s, "")) = Len(s) + 1
          /\ Append(s, "")[Len(s) + 1] = "" /\ \A i \in 1..Len(s) : Append(s, "")[i] = s[i]
      <4>1. PICK e \in Segment : e = ""
        BY DotsAreSegments
      <4>2. s \in Seq(Segment)
        BY <2>5
      <4>3. /\ Append(s, e) \in Seq(Segment) /\ Len(Append(s, e)) = Len(s) + 1
            /\ Append(s, e)[Len(s) + 1] = e /\ \A i \in 1..Len(s) : Append(s, e)[i] = s[i]
        BY <4>2, AppendIs
      <4>. QED
        BY <4>1, <4>3
    <3>2. Len(s) + 1 = Len(path)
      BY <1>2, <2>5
    <3>. QED
      BY <2>5, <3>1, <3>2
  <2>7. 1..Len(path) = (1..(Len(path) - 1)) \cup {Len(path)}
    BY <1>2
  <2>8. \A i \in 1..Len(path) : Append(s, "")[i] = path[i]
    BY <1>6, <2>6, <2>7
  <2>9. Append(s, "") = path
    BY <1>1, <2>6, <2>8, SameText
  <2>. QED
    BY <2>4, <2>5, <2>9
<1>7. CASE path[Len(path)] \in Name
  <2>1. Len(path) \in 0..Len(path) /\ 1..Len(path) = (1..(Len(path) - 1)) \cup {Len(path)}
    BY <1>2
  <2>2. \A i \in 1..Len(path) : path[i] \in Name
    BY <1>1, <1>7, <2>1
  <2>3. Len(names[Len(path)]) = Len(path) /\ \A i \in 1..Len(path) : names[Len(path)][i] = path[i]
    BY <1>3a, <2>1, <2>2, DescentOfNames
  <2>4. Normal(path) = names[Len(path)]
    BY <1>2, <1>3, <1>7 DEF Name
  <2>5. PICK s \in Seq(Segment) : s = names[Len(path)] /\ Len(s) = Len(path) /\ \A i \in 1..Len(path) : s[i] = path[i]
    BY <1>5, <2>1, <2>3
  <2>6. s = path
    BY <1>1, <2>5, SameText
  <2>. QED
    BY <2>4, <2>5, <2>6
<1>. QED
  BY <1>1, <1>6, <1>7

(* URLs *)

\* A Url object.
IsUrl(url) ==
    url = [scheme |-> url.scheme, host |-> url.host, port |-> url.port, dport |-> url.dport,
           path |-> url.path, param |-> url.param, fragment |-> url.fragment]

LEMMA LowerTwice == ASSUME NEW name PROVE Lower(Lower(name)) = Lower(name)
  BY DEF Lower

PathOf(t) == Normal(IF t.path = <<>> THEN <<"">> ELSE t.path)
PortGuess(t, junk) == IF t.scheme = "" THEN junk ELSE DefaultPort(t.scheme)

LEMMA ParseIs ==
    ASSUME NEW t, NEW junk
    PROVE  /\ IsUrl(Parse(t, junk))
           /\ Parse(t, junk).scheme = Lower(t.scheme)
           /\ Parse(t, junk).host = Lower(t.host)
           /\ Parse(t, junk).port = t.port
           /\ Parse(t, junk).dport = PortGuess(t, junk)
           /\ Parse(t, junk).path = PathOf(t)
           /\ Parse(t, junk).param = t.param
           /\ Parse(t, junk).fragment = t.fragment
<1>1. Parse(t, junk) =
        [scheme |-> Lower(t.scheme), host |-> Lower(t.host), port |-> t.port,
         dport |-> PortGuess(t, junk), path |-> PathOf(t),
         param |-> t.param, fragment |-> t.fragment]
  BY DEF Parse, PathOf, PortGuess
<1>. QED
  BY <1>1 DEF IsUrl

LEMMA GeminiPort == ASSUME NEW t, t.scheme = "gemini", NEW junk PROVE PortGuess(t, junk) = 1965
  BY DEF PortGuess, DefaultPort

LEMMA StrIs ==
    ASSUME NEW url
    PROVE  /\ Str(url).scheme = url.scheme /\ Str(url).host = url.host
           /\ Str(url).port = IF url.port # url.dport THEN url.port ELSE 0
           /\ Str(url).path = url.path /\ Str(url).param = url.param
           /\ Str(url).fragment = url.fragment
  BY DEF Str

LEMMA SlashIsPath == <<"">> \in Seq(Segment) \ {<<>>}
<1>1. PICK e \in Segment : e = ""
  BY DotsAreSegments
<1>2. <<e>> \in Seq(Segment) \ {<<>>}
  OBVIOUS
<1>. QED
  BY <1>1, <1>2

LEMMA PathOfIsNormal ==
    ASSUME NEW t, t.path \in Seq(Segment)
    PROVE  IsNormal(PathOf(t))
<1>1. CASE t.path = <<>>
  <2>1. PathOf(t) = Normal(<<"">>)
    BY <1>1 DEF PathOf
  <2>. QED
    BY <2>1, SlashIsPath, NormalIsNormal
<1>2. CASE t.path # <<>>
  <2>1. PathOf(t) = Normal(t.path)
    BY <1>2 DEF PathOf
  <2>. QED
    BY <1>2, <2>1, NormalIsNormal
<1>. QED
  BY <1>1, <1>2

LEMMA PathOfNormal ==
    ASSUME NEW t, IsNormal(t.path)
    PROVE  PathOf(t) = t.path
<1>1. t.path # <<>>
  BY DEF IsNormal
<1>2. PathOf(t) = Normal(t.path)
  BY <1>1 DEF PathOf
<1>. QED
  BY <1>2, NormalSettles

\* Respelling a text of a gemini URL whose path is normal.
LEMMA RespeltIs ==
    ASSUME NEW t, t.scheme = "gemini", IsNormal(t.path)
    PROVE  Respelt(t) = [scheme |-> "gemini", host |-> Lower(t.host),
                         port |-> IF t.port # 1965 THEN t.port ELSE 0,
                         path |-> t.path, param |-> t.param, fragment |-> t.fragment]
<1>1. Lower("gemini") = "gemini"
  BY DEF Lower
<1>2. PathOf(t) = t.path
  BY PathOfNormal
<1>3. PortGuess(t, 0) = 1965
  BY GeminiPort
<1>4. Parse(t, 0).dport = 1965 /\ Parse(t, 0).port = t.port /\ Parse(t, 0).host = Lower(t.host)
      /\ Parse(t, 0).scheme = "gemini" /\ Parse(t, 0).path = t.path
      /\ Parse(t, 0).param = t.param /\ Parse(t, 0).fragment = t.fragment
  BY <1>1, <1>2, <1>3, ParseIs
<1>. QED
  BY <1>4 DEF Respelt, Str

LEMMA RespeltTwice ==
    ASSUME NEW t, t.scheme = "gemini", IsNormal(t.path)
    PROVE  /\ Respelt(t).scheme = "gemini" /\ IsNormal(Respelt(t).path)
           /\ Respelt(Respelt(t)) = Respelt(t)
<1> DEFINE r == Respelt(t)
<1>1. r = [scheme |-> "gemini", host |-> Lower(t.host), port |-> IF t.port # 1965 THEN t.port ELSE 0,
           path |-> t.path, param |-> t.param, fragment |-> t.fragment]
  BY RespeltIs
<1> HIDE DEF r
<1>2. r.scheme = "gemini" /\ r.path = t.path /\ r.host = Lower(t.host) /\ r.param = t.param
      /\ r.fragment = t.fragment /\ r.port = IF t.port # 1965 THEN t.port ELSE 0
  BY <1>1
<1>3. Respelt(r) = [scheme |-> "gemini", host |-> Lower(r.host), port |-> IF r.port # 1965 THEN r.port ELSE 0,
                    path |-> r.path, param |-> r.param, fragment |-> r.fragment]
  BY <1>2, RespeltIs
<1>4. Lower(r.host) = r.host /\ (IF r.port # 1965 THEN r.port ELSE 0) = r.port
  BY <1>2, LowerTwice
<1>5. Respelt(r) = r
  BY <1>1, <1>2, <1>3, <1>4
<1>. QED
  BY <1>2, <1>5 DEF r

\* The blacklist sees no more of a URL than its host, its path and its text.
LEMMA VerdictOnRespelt ==
    ASSUME NEW t, t.scheme = "gemini", IsNormal(t.path)
    PROVE  InBlacklist(Parse(t, 0)) <=> InBlacklist(Parse(Respelt(t), 0))
<1> DEFINE p == Parse(t, 0)
           q == Parse(Respelt(t), 0)
<1>1. Str(p) = Respelt(t) /\ Str(q) = Respelt(Respelt(t))
  BY DEF Respelt
<1>2. Str(p) = Str(q)
  BY <1>1, RespeltTwice
<1>3. p.host = Lower(t.host) /\ q.host = Lower(Respelt(t).host)
  BY ParseIs
<1>4. Respelt(t).host = p.host /\ Respelt(t).path = p.path
  BY <1>1, StrIs
<1>5. p.host = q.host
  BY <1>3, <1>4, LowerTwice
<1>6. p.path = t.path /\ q.path = Respelt(t).path
  <2>1. IsNormal(Respelt(t).path)
    BY RespeltTwice
  <2>. QED
    BY <2>1, ParseIs, PathOfNormal
<1> HIDE DEF p, q
<1>7. InBlacklist(p) <=> InBlacklist(q)
  BY <1>2, <1>4, <1>5, <1>6 DEF InBlacklist
<1>. QED
  BY <1>7 DEF p, q

\* A row that is crawled is a page, in its one spelling.
LEMMA CrawledIsPage ==
    ASSUME NEW t, t.path \in Seq(Segment), IsCrawled(t), NEW next, next = Parse(Respelt(t), 0)
    PROVE  /\ next.scheme = "gemini" /\ next.dport = 1965 /\ next = Parse(Str(next), 0)
           /\ IsNormal(next.path) /\ ~IsNested(next.path)
<1>1. next.scheme = "gemini" /\ Str(next) = Respelt(t) /\ ~InBlacklist(next)
  BY DEF IsCrawled
<1>2. Respelt(t).scheme = Lower(t.scheme) /\ Respelt(t).path = Parse(t, 0).path
  BY ParseIs, StrIs DEF Respelt
<1>3. next.scheme = Lower(Respelt(t).scheme)
  BY ParseIs
<1>4. Respelt(t).scheme = "gemini"
  BY <1>1, <1>2, <1>3, LowerTwice
<1>5. next.dport = 1965
  BY <1>4, ParseIs, GeminiPort
<1>6. IsNormal(next.path)
  <2>1. Parse(t, 0).path = PathOf(t)
    BY ParseIs
  <2>2. IsNormal(Respelt(t).path)
    BY <1>2, <2>1, PathOfIsNormal
  <2>3. Respelt(t).path \in Seq(Segment)
    BY <2>2 DEF IsNormal
  <2>4. next.path = PathOf(Respelt(t))
    BY ParseIs
  <2>. QED
    BY <2>3, <2>4, PathOfIsNormal
<1>7. ~IsNested(next.path)
  BY <1>1 DEF InBlacklist
<1>. QED
  BY <1>1, <1>5, <1>6, <1>7

(* From page to page *)

LEMMA SegmentsOf ==
    /\ \A seed \in Seeds : seed.path \in Seq(Segment)
    /\ \A link \in Links : link.kind = "url" => link.url.path \in Seq(Segment) /\ IsText(link.url)
    /\ \A link \in Links : link.kind = "local" => link.path \in Seq(Segment) \ {<<>>}
<1>1. ASSUME NEW seed \in Seeds
      PROVE  seed.path \in Seq(Segment)
  <2>1. seed.path \in Seq(ToSet(seed.path))
    BY LinksAssumption DEF IsText
  <2>2. seed.path \in PathsWritten
    BY DEF PathsWritten
  <2>. QED
    BY <2>1, <2>2, SegmentsOfPath
<1>2. ASSUME NEW link \in Links, link.kind = "url"
      PROVE  link.url.path \in Seq(Segment) /\ IsText(link.url)
  <2>1. IsText(link.url)
    BY <1>2, LinksAssumption
  <2>2. link.url.path \in Seq(ToSet(link.url.path))
    BY <2>1 DEF IsText
  <2>3. link.url.path \in PathsWritten
    BY <1>2 DEF PathsWritten
  <2>. QED
    BY <2>1, <2>2, <2>3, SegmentsOfPath
<1>3. ASSUME NEW link \in Links, link.kind = "local"
      PROVE  link.path \in Seq(Segment) \ {<<>>}
  <2>1. link.path \in Seq(ToSet(link.path)) /\ link.path # <<>>
    BY <1>3, LinksAssumption
  <2>2. link.path \in PathsWritten
    BY <1>3 DEF PathsWritten
  <2>. QED
    BY <2>1, <2>2, SegmentsOfPath
<1>. QED
  BY <1>1, <1>2, <1>3

\* The empty string, the literal of which the SMT backend cannot read.
Blank == ""
Bare(url) == [url EXCEPT !.fragment = Blank]
Mute(url) == [url EXCEPT !.param = Blank]

\* The page is one that crawlPage takes up, and each link is made of one of its
\* own.
PageOK ==
    /\ page.scheme = "gemini" /\ page.dport = 1965 /\ page = Parse(Str(page), 0)
    /\ IsNormal(page.path) /\ ~IsNested(page.path)

MadeFrom(l) ==
    /\ l.link \in Links
    /\ \E made \in Composed(l.link) : l.url = WithoutEcho(Bare(made))

WalkInv == PageOK /\ \A l \in links : MadeFrom(l)

LEMMA WalkInitHolds == WalkInit => WalkInv
<1> SUFFICES ASSUME WalkInit
             PROVE  WalkInv
  OBVIOUS
<1>1. PICK seed \in Seeds : IsCrawled(seed) /\ page = Parse(Respelt(seed), 0)
  BY DEF WalkInit, StartPages
<1>2. PageOK
  BY <1>1, SegmentsOf, CrawledIsPage DEF PageOK
<1>. QED
  BY <1>2 DEF WalkInit, WalkInv

\* Record updates of a Url object, part by part.
Object(a, b, c, d, f, g, h) ==
    [scheme |-> a, host |-> b, port |-> c, dport |-> d, path |-> f, param |-> g, fragment |-> h]

LEMMA ObjectIs ==
    ASSUME NEW a, NEW b, NEW c, NEW d, NEW f, NEW g, NEW h
    PROVE  /\ IsUrl(Object(a, b, c, d, f, g, h))
           /\ Object(a, b, c, d, f, g, h).scheme = a /\ Object(a, b, c, d, f, g, h).host = b
           /\ Object(a, b, c, d, f, g, h).port = c /\ Object(a, b, c, d, f, g, h).dport = d
           /\ Object(a, b, c, d, f, g, h).path = f /\ Object(a, b, c, d, f, g, h).param = g
           /\ Object(a, b, c, d, f, g, h).fragment = h
  BY DEF Object, IsUrl

LEMMA ObjectUpdated ==
    ASSUME NEW a, NEW b, NEW c, NEW d, NEW f, NEW g, NEW h, NEW e
    PROVE  /\ [Object(a, b, c, d, f, g, h) EXCEPT !.scheme = e] = Object(e, b, c, d, f, g, h)
           /\ [Object(a, b, c, d, f, g, h) EXCEPT !.path = e] = Object(a, b, c, d, e, g, h)
           /\ [Object(a, b, c, d, f, g, h) EXCEPT !.param = e] = Object(a, b, c, d, f, e, h)
           /\ [Object(a, b, c, d, f, g, h) EXCEPT !.fragment = e] = Object(a, b, c, d, f, g, e)
<1>1. [Object(a, b, c, d, f, g, h) EXCEPT !.scheme = e] = Object(e, b, c, d, f, g, h)
  BY DEF Object
<1>2. [Object(a, b, c, d, f, g, h) EXCEPT !.path = e] = Object(a, b, c, d, e, g, h)
  BY DEF Object
<1>3. [Object(a, b, c, d, f, g, h) EXCEPT !.param = e] = Object(a, b, c, d, f, e, h)
  BY DEF Object
<1>4. [Object(a, b, c, d, f, g, h) EXCEPT !.fragment = e] = Object(a, b, c, d, f, g, e)
  BY DEF Object
<1>. QED
  BY <1>1, <1>2, <1>3, <1>4

LEMMA ObjectBared ==
    ASSUME NEW a, NEW b, NEW c, NEW d, NEW f, NEW g, NEW h
    PROVE  /\ Bare(Object(a, b, c, d, f, g, h)) = Object(a, b, c, d, f, g, Blank)
           /\ Mute(Object(a, b, c, d, f, g, h)) = Object(a, b, c, d, f, Blank, h)
<1>1. Bare(Object(a, b, c, d, f, g, h)) = Object(a, b, c, d, f, g, Blank)
  BY DEF Bare, Object
<1>2. Mute(Object(a, b, c, d, f, g, h)) = Object(a, b, c, d, f, Blank, h)
  BY DEF Mute, Object
<1>. QED
  BY <1>1, <1>2

LEMMA UrlIsObject ==
    ASSUME NEW u, IsUrl(u)
    PROVE  u = Object(u.scheme, u.host, u.port, u.dport, u.path, u.param, u.fragment)
  BY DEF IsUrl, Object

LEMMA EchoIs ==
    ASSUME NEW made, IsUrl(made), NEW url, url = WithoutEcho(Bare(made))
    PROVE  /\ IsUrl(url) /\ url.scheme = made.scheme /\ url.host = made.host
           /\ url.port = made.port /\ url.dport = made.dport /\ url.path = made.path
           /\ url.fragment = Blank
<1>1. PICK a, b, c, d, f, g, h : made = Object(a, b, c, d, f, g, h)
  BY UrlIsObject
<1>2. made.scheme = a /\ made.host = b /\ made.port = c /\ made.dport = d /\ made.path = f
  BY <1>1, ObjectIs
<1>3. Bare(made) = Object(a, b, c, d, f, g, Blank)
  BY <1>1, ObjectBared
<1>4. \A u : WithoutEcho(u) = u \/ WithoutEcho(u) = Mute(u)
  BY Zenon DEF WithoutEcho, Mute, Blank
<1>5. PICK x : url = Object(a, b, c, d, f, x, Blank)
  BY <1>3, <1>4, ObjectBared
<1>. QED
  BY <1>2, <1>5, ObjectIs

\* What crawlPage makes of a whole URL.
LEMMA UrlLinkIs ==
    ASSUME NEW link \in Links, link.kind = "url", NEW made \in Composed(link), page.scheme = "gemini"
    PROVE  /\ IsUrl(made) /\ made.scheme = "gemini" /\ made.host = Lower(link.url.host)
           /\ made.port = link.url.port /\ IsNormal(made.path)
           /\ link.url.scheme = "gemini" => made.dport = 1965
<1>1. PICK junk \in Junk : made = [Parse(link.url, junk) EXCEPT !.scheme = IF @ = "" THEN page.scheme ELSE @]
  BY DEF Composed
<1>2. made.scheme = "gemini"
  BY DEF Composed
<1> DEFINE p == Parse(link.url, junk)
<1>3. /\ IsUrl(p) /\ p.host = Lower(link.url.host) /\ p.port = link.url.port
      /\ p.dport = PortGuess(link.url, junk) /\ p.path = PathOf(link.url)
  BY ParseIs
<1>4. IsNormal(p.path)
  BY <1>3, SegmentsOf, PathOfIsNormal
<1>5. link.url.scheme = "gemini" => p.dport = 1965
  BY <1>3, GeminiPort
<1>6. made = [p EXCEPT !.scheme = IF p.scheme = "" THEN page.scheme ELSE p.scheme]
  BY <1>1
<1> HIDE DEF p
<1>7. \A s : [p EXCEPT !.scheme = s] =
                [scheme |-> s, host |-> p.host, port |-> p.port, dport |-> p.dport,
                 path |-> p.path, param |-> p.param, fragment |-> p.fragment]
  BY <1>3 DEF IsUrl
<1>8. PICK s : made = [scheme |-> s, host |-> p.host, port |-> p.port, dport |-> p.dport,
                       path |-> p.path, param |-> p.param, fragment |-> p.fragment]
  BY <1>6, <1>7
<1>9. /\ IsUrl(made) /\ made.host = p.host /\ made.port = p.port /\ made.dport = p.dport
      /\ made.path = p.path
  BY <1>8 DEF IsUrl
<1>. QED
  BY <1>2, <1>3, <1>4, <1>5, <1>9

\* ... and of a link within the capsule.
LEMMA LocalLinkIs ==
    ASSUME NEW link \in Links, link.kind = "local", NEW made \in Composed(link), PageOK
    PROVE  /\ IsUrl(made) /\ made.scheme = page.scheme /\ made.host = page.host
           /\ made.port = page.port /\ made.dport = page.dport /\ IsNormal(made.path)
<1>1. made = LinkCompose(page, link)
  BY DEF Composed
<1>2. IsUrl(page)
  BY ParseIs DEF PageOK
<1> DEFINE rest == IF link.rooted THEN link.path ELSE Front(page.path) \o link.path
<1>3. rest \in Seq(Segment) \ {<<>>}
  <2>1. link.path \in Seq(Segment) \ {<<>>}
    BY SegmentsOf
  <2>2. page.path \in Seq(Segment) \ {<<>>}
    <3>1. IsNormal(page.path)
      BY DEF PageOK
    <3>. QED
      BY <3>1 DEF IsNormal
  <2>3. Front(page.path) \in Seq(Segment)
    BY <2>2, FrontIs
  <2>4. \A s \in Seq(Segment), t \in Seq(Segment) \ {<<>>} : s \o t \in Seq(Segment) \ {<<>>}
    <3> SUFFICES ASSUME NEW s \in Seq(Segment), NEW t \in Seq(Segment) \ {<<>>}
                 PROVE  s \o t \in Seq(Segment) \ {<<>>}
      OBVIOUS
    <3>1. s \o t \in Seq(Segment) /\ Len(s \o t) = Len(s) + Len(t)
      OBVIOUS
    <3>2. Len(s) \in Nat /\ Len(t) \in Nat \ {0} /\ Len(<<>>) = 0
      BY LastIs
    <3> DEFINE u == s \o t
    <3> HIDE DEF u
    <3>3. u \in Seq(Segment) /\ Len(u) # 0
      BY <3>1, <3>2 DEF u
    <3>4. u # <<>>
      BY <3>2, <3>3
    <3>. QED
      BY <3>3, <3>4 DEF u
  <2>. QED
    BY <2>1, <2>3, <2>4
<1>4. IsNormal(Normal(rest))
  BY <1>3, NormalIsNormal
<1>5. made = [[page EXCEPT !.path = Normal(rest)] EXCEPT !.param = link.param, !.fragment = link.fragment]
  BY <1>1 DEF LinkCompose, WithPath
<1> HIDE DEF rest
<1>6. PICK p : p = Normal(rest)
  OBVIOUS
<1>7. [page EXCEPT !.path = p] = [scheme |-> page.scheme, host |-> page.host, port |-> page.port,
                                  dport |-> page.dport, path |-> p, param |-> page.param,
                                  fragment |-> page.fragment]
  BY <1>2 DEF IsUrl
<1>8. made = [scheme |-> page.scheme, host |-> page.host, port |-> page.port, dport |-> page.dport,
              path |-> p, param |-> link.param, fragment |-> link.fragment]
  BY <1>5, <1>6, <1>7
<1>9. /\ IsUrl(made) /\ made.scheme = page.scheme /\ made.host = page.host /\ made.port = page.port
      /\ made.dport = page.dport /\ made.path = p
  BY <1>8 DEF IsUrl
<1>. QED
  BY <1>4, <1>6, <1>9

LEMMA KindsOf ==
    ASSUME NEW link \in Links, NEW made \in Composed(link)
    PROVE  link.kind = "url" \/ link.kind = "local"
  BY DEF Composed

\* Either way it is a gemini URL without a fragment, with a normal path.
LEMMA LinkUrlIs ==
    ASSUME PageOK, NEW l, MadeFrom(l)
    PROVE  l.url.scheme = "gemini" /\ l.url.fragment = Blank /\ IsNormal(l.url.path)
<1>1. PICK made \in Composed(l.link) : l.url = WithoutEcho(Bare(made))
  BY DEF MadeFrom
<1>2. l.link \in Links
  BY DEF MadeFrom
<1>3. IsUrl(made) /\ made.scheme = "gemini" /\ IsNormal(made.path)
  BY <1>2, KindsOf, UrlLinkIs, LocalLinkIs DEF PageOK
<1>. QED
  BY <1>1, <1>3, EchoIs

\* Two spellings of the links of a page: as stored, and as crawled.
LEMMA StoredIs ==
    ASSUME PageOK, NEW l, MadeFrom(l)
    PROVE  Str(l.url).scheme = "gemini" /\ IsNormal(Str(l.url).path)
<1>1. l.url.scheme = "gemini" /\ IsNormal(l.url.path)
  BY LinkUrlIs
<1>2. Str(l.url).scheme = l.url.scheme /\ Str(l.url).path = l.url.path
  BY StrIs
<1>. QED
  BY <1>1, <1>2

LEMMA WalkStep == WalkInv /\ [WalkNext]_Walk => WalkInv'
<1> SUFFICES ASSUME WalkInv, [WalkNext]_Walk
             PROVE  WalkInv'
  OBVIOUS
<1>1. ASSUME NEW link \in Links, TakeLink(link)
      PROVE  WalkInv'
  <2>1. page' = page
    BY <1>1 DEF TakeLink
  <2>2. PageOK'
    BY <2>1 DEF WalkInv, PageOK
  <2>3. \A l : MadeFrom(l)' <=> MadeFrom(l)
    <3>1. \A x : Composed(x)' = Composed(x)
      BY <2>1 DEF Composed
    <3>. QED
      BY <3>1 DEF MadeFrom
  <2>4. ASSUME NEW l \in links'
        PROVE  MadeFrom(l)
    <3>1. PICK made \in Composed(link) :
             links' = IF \E k \in links : SameUrl(k.url, WithoutEcho(Bare(made))) THEN links
                      ELSE links \cup {[url |-> WithoutEcho(Bare(made)), link |-> link]}
      BY <1>1, Zenon DEF TakeLink, Bare, Blank
    <3>2. CASE l \in links
      BY <3>2 DEF WalkInv
    <3>3. CASE l = [url |-> WithoutEcho(Bare(made)), link |-> link]
      BY <3>3 DEF MadeFrom
    <3>. QED
      BY <2>4, <3>1, <3>2, <3>3
  <2>. QED
    BY <2>2, <2>3, <2>4 DEF WalkInv
<1>2. ASSUME NEW l \in links, Follow(l)
      PROVE  WalkInv'
  <2>1. Str(l.url).path \in Seq(Segment)
    BY StoredIs DEF WalkInv, IsNormal
  <2>2. IsCrawled(Str(l.url)) /\ page' = Parse(Respelt(Str(l.url)), 0) /\ links' = {}
    BY <1>2 DEF Follow
  <2>3. PICK next : next = Parse(Respelt(Str(l.url)), 0)
    OBVIOUS
  <2>4. /\ next.scheme = "gemini" /\ next.dport = 1965 /\ next = Parse(Str(next), 0)
        /\ IsNormal(next.path) /\ ~IsNested(next.path)
    BY <2>1, <2>2, <2>3, CrawledIsPage
  <2>5. PageOK'
    BY <2>2, <2>3, <2>4 DEF PageOK
  <2>. QED
    BY <2>2, <2>5 DEF WalkInv
<1>3. CASE UNCHANGED Walk
  <2>1. page' = page /\ links' = links
    BY <1>3 DEF Walk
  <2>2. PageOK'
    BY <2>1 DEF WalkInv, PageOK
  <2>3. \A x : Composed(x)' = Composed(x)
    BY <2>1 DEF Composed
  <2>4. \A l : MadeFrom(l)' <=> MadeFrom(l)
    BY <2>3 DEF MadeFrom
  <2>. QED
    BY <2>1, <2>2, <2>4 DEF WalkInv
<1>. QED
  BY <1>1, <1>2, <1>3 DEF WalkNext

LEMMA WalkInvariance == WalkSpec => []WalkInv
  BY WalkInitHolds, WalkStep, PTL DEF WalkSpec

\* The page crawled is always a gemini URL in its one normal spelling, and its
\* links are gemini URLs (crawlPage, getNextCrawlPage).
THEOREM WalkTypeCorrect == WalkSpec => []WalkTypeOK
<1>1. WalkInv => WalkTypeOK
  <2> SUFFICES ASSUME WalkInv
               PROVE  WalkTypeOK
    OBVIOUS
  <2>1. PageOK /\ \A l \in links : MadeFrom(l)
    BY DEF WalkInv
  <2>2. \A l \in links : l.url.scheme = "gemini" /\ l.url.fragment = Blank /\ l.link \in Links
    BY <2>1, LinkUrlIs DEF MadeFrom
  <2>3. LinkTypeOK
    BY <2>2, Zenon DEF LinkTypeOK, Blank
  <2>4. PageTypeOK
    BY <2>1 DEF PageTypeOK, PageOK
  <2>. QED
    BY <2>3, <2>4 DEF WalkTypeOK
<1>. QED
  BY <1>1, WalkInvariance, PTL

\* RespellingSettles: getNextCrawlPage respells a stored link once and for all,
\* so that crawlPage never removes the row for its spelling.
THEOREM RespellingIsOnce == WalkSpec => []RespellingSettles
<1>1. WalkInv => RespellingSettles
  <2> SUFFICES ASSUME WalkInv, NEW l \in links
               PROVE  Respelt(Respelt(Str(l.url))) = Respelt(Str(l.url))
    BY DEF RespellingSettles
  <2>. QED
    BY StoredIs, RespeltTwice DEF WalkInv
<1>. QED
  BY <1>1, WalkInvariance, PTL

\* VerdictKnowsSpellings: what the blacklist says of a link as it is stored it
\* says of the page that is crawled for it.
THEOREM VerdictHolds == WalkSpec => []VerdictKnowsSpellings
<1>1. WalkInv => VerdictKnowsSpellings
  <2> SUFFICES ASSUME WalkInv, NEW l \in links
               PROVE  Refused(l) <=> InBlacklist(Parse(Respelt(Str(l.url)), 0))
    BY DEF VerdictKnowsSpellings
  <2>. QED
    BY StoredIs, VerdictOnRespelt DEF WalkInv, Refused
<1>. QED
  BY <1>1, WalkInvariance, PTL

(* Where links lead *)

LEMMA PagePort ==
    ASSUME PageOK
    PROVE  page.port # 1965 /\ Lower(page.host) = page.host /\ page.dport = 1965
<1>1. page.dport = 1965 /\ page = Parse(Str(page), 0)
  BY DEF PageOK
<1>2. page.port = Str(page).port /\ page.host = Lower(Str(page).host)
  BY <1>1, ParseIs
<1>3. Str(page).port = (IF page.port # page.dport THEN page.port ELSE 0) /\ Str(page).host = page.host
  BY StrIs
<1>4. page.port # 1965
  <2>1. page.port = IF page.port # 1965 THEN page.port ELSE 0
    BY <1>1, <1>2, <1>3
  <2>2. 0 # 1965
    OBVIOUS
  <2>. QED
    BY <2>1, <2>2
<1>. QED
  BY <1>1, <1>2, <1>3, <1>4

\* The address of a link, read off the spelling it is crawled under, and whether
\* it is across sites.
LEMMA AddressIs ==
    ASSUME PageOK, NEW l, MadeFrom(l), l.url.dport = 1965
    PROVE  /\ Address(Respelt(Str(l.url))) =
                 <<Lower(l.url.host), IF l.url.port \in {0, 1965} THEN 1965 ELSE l.url.port>>
           /\ Address(Str(page)) = <<page.host, IF page.port = 0 THEN 1965 ELSE page.port>>
           /\ IsCrossSite(l.url) <=>
                 <<l.url.host, IF l.url.port = 0 THEN 1965 ELSE l.url.port>> # Address(Str(page))
<1> DEFINE t == Str(l.url)
<1>1. t.scheme = "gemini" /\ IsNormal(t.path)
  BY StoredIs
<1>2. t.host = l.url.host /\ t.port = IF l.url.port # 1965 THEN l.url.port ELSE 0
  BY StrIs
<1> HIDE DEF t
<1>3. /\ Respelt(t).host = Lower(t.host)
      /\ Respelt(t).port = IF t.port # 1965 THEN t.port ELSE 0
  BY <1>1, RespeltIs
<1>4. Address(Respelt(t)) =
         <<Lower(l.url.host), IF l.url.port \in {0, 1965} THEN 1965 ELSE l.url.port>>
  BY <1>2, <1>3 DEF Address
<1>5. page.port # 1965 /\ page.dport = 1965
  BY PagePort
<1>6. Str(page).host = page.host /\ Str(page).port = page.port
  BY <1>5, StrIs
<1>7. Address(Str(page)) = <<page.host, IF page.port = 0 THEN 1965 ELSE page.port>>
  BY <1>6 DEF Address
<1>8. IsCrossSite(l.url) <=>
         <<l.url.host, IF l.url.port = 0 THEN 1965 ELSE l.url.port>> # Address(Str(page))
  BY <1>5, <1>7 DEF IsCrossSite, PortOf
<1>. QED
  BY <1>4, <1>7, <1>8 DEF t

\* LinksKeepTheirAddress: a link leads to the host and port it names, through
\* storing, respelling and parsing, and is across sites when they are not the
\* page's (linkCompose, crawlPage, getNextCrawlPage).
THEOREM LinksLeadWhereTheySay == WalkSpec => []LinksKeepTheirAddress
<1>1. ASSUME WalkInv, NEW l \in links, Plain(l.link)
      PROVE  LET named == IF l.link.kind = "local" THEN Address(Str(page))
                          ELSE Address([l.link.url EXCEPT !.host = Lower(@)])
             IN  /\ Address(Respelt(Str(l.url))) = named
                 /\ IsCrossSite(l.url) <=> named # Address(Str(page))
  <2>1. PageOK /\ MadeFrom(l) /\ l.link \in Links
    BY <1>1 DEF WalkInv, MadeFrom
  <2>2. PICK made \in Composed(l.link) : l.url = WithoutEcho(Bare(made))
    BY <2>1 DEF MadeFrom
  <2>3. CASE l.link.kind = "local"
    <3>1. IsUrl(made) /\ made.host = page.host /\ made.port = page.port /\ made.dport = page.dport
      BY <2>1, <2>3, LocalLinkIs
    <3>2. l.url.host = page.host /\ l.url.port = page.port /\ l.url.dport = page.dport
      BY <2>2, <3>1, EchoIs
    <3>3. page.port # 1965 /\ Lower(page.host) = page.host /\ page.dport = 1965
      BY <2>1, PagePort
    <3>4. /\ Address(Respelt(Str(l.url))) = Address(Str(page))
          /\ ~IsCrossSite(l.url)
      BY <2>1, <3>2, <3>3, AddressIs
    <3>. QED
      BY <2>3, <3>4
  <2>4. CASE l.link.kind # "local"
    <3>1. l.link.kind = "url"
      BY <2>1, <2>2, <2>4, KindsOf
    <3>2. l.link.url.scheme = "gemini"
      BY <1>1, <2>4 DEF Plain
    <3>3. /\ IsUrl(made) /\ made.host = Lower(l.link.url.host) /\ made.port = l.link.url.port
          /\ made.dport = 1965
      <4>1. page.scheme = "gemini"
        BY <2>1 DEF PageOK
      <4>. QED
        BY <2>1, <3>1, <3>2, <4>1, UrlLinkIs
    <3>4. /\ l.url.host = Lower(l.link.url.host) /\ l.url.port = l.link.url.port
          /\ l.url.dport = 1965
      BY <2>2, <3>3, EchoIs
    <3>5. Lower(l.url.host) = l.url.host
      BY <3>4, LowerTwice
    <3>6. Address([l.link.url EXCEPT !.host = Lower(@)]) =
             <<l.url.host, IF l.url.port = 0 THEN 1965 ELSE l.url.port>>
      <4>1. IsText(l.link.url)
        BY <2>1, <3>1, SegmentsOf
      <4>2. \A u, h : IsText(u) => /\ [u EXCEPT !.host = h].host = h
                                   /\ [u EXCEPT !.host = h].port = u.port
        BY DEF IsText
      <4> DEFINE named == [l.link.url EXCEPT !.host = Lower(l.link.url.host)]
      <4>3. named.host = l.url.host /\ named.port = l.url.port
        BY <3>4, <4>1, <4>2
      <4> HIDE DEF named
      <4>4. Address(named) = <<l.url.host, IF l.url.port = 0 THEN 1965 ELSE l.url.port>>
        BY <4>3 DEF Address
      <4>. QED
        BY <4>4 DEF named
    <3>7. Address(Respelt(Str(l.url))) = <<l.url.host, IF l.url.port = 0 THEN 1965 ELSE l.url.port>>
      BY <2>1, <3>4, <3>5, AddressIs
    <3>8. IsCrossSite(l.url) <=>
             <<l.url.host, IF l.url.port = 0 THEN 1965 ELSE l.url.port>> # Address(Str(page))
      BY <2>1, <3>4, AddressIs
    <3>. QED
      BY <2>4, <3>6, <3>7, <3>8
  <2>. QED
    BY <2>3, <2>4
<1>2. WalkInv => LinksKeepTheirAddress
  BY <1>1 DEF LinksKeepTheirAddress
<1>. QED
  BY <1>2, WalkInvariance, PTL

(* How deep paths get *)

\* The names among the first n segments of a path, and those that are there twice.
NamesIn(path, n) == {path[i] : i \in 1..n}
TwiceIn(path, n) == {path[j] : j \in {k \in 1..n : \E i \in 1..(k - 1) : path[i] = path[k]}}

LEMMA ThreeIndices ==
    ASSUME NEW N \in Nat, NEW S, S \subseteq 1..N,
           NEW i \in S, NEW j \in S, NEW k \in S, i < j, j < k
    PROVE  Cardinality(S) >= 3
<1>1. IsFiniteSet({}) /\ Cardinality({}) = 0
  BY FS_EmptySet
<1>2. IsFiniteSet({i}) /\ Cardinality({i}) = 1
  BY FS_Singleton
<1>3. IsFiniteSet({i} \cup {j}) /\ Cardinality({i} \cup {j}) = 2
  <2>1. j \notin {i}
    OBVIOUS
  <2>. QED
    BY <1>2, <2>1, FS_AddElement
<1>4. IsFiniteSet(({i} \cup {j}) \cup {k}) /\ Cardinality(({i} \cup {j}) \cup {k}) = 3
  <2>1. k \notin {i} \cup {j}
    OBVIOUS
  <2>. QED
    BY <1>3, <2>1, FS_AddElement
<1>5. IsFiniteSet(S)
  <2>1. IsFiniteSet(1..N)
    BY FS_Interval
  <2>. QED
    BY <2>1, FS_Subset
<1>6. ({i} \cup {j}) \cup {k} \subseteq S
  OBVIOUS
<1>7. Cardinality(({i} \cup {j}) \cup {k}) =< Cardinality(S)
  BY <1>5, <1>6, FS_Subset
<1>8. Cardinality(S) \in Nat
  BY <1>5, FS_CardinalityType
<1>. QED
  BY <1>4, <1>7, <1>8

LEMMA NotThrice ==
    ASSUME NEW S, NEW path \in Seq(S), ~IsNested(path),
           NEW i \in 1..Len(path), NEW j \in 1..Len(path), NEW k \in 1..Len(path), i < j, j < k
    PROVE  ~(path[i] = path[j] /\ path[j] = path[k])
<1> SUFFICES ASSUME path[i] = path[j], path[j] = path[k]
             PROVE  FALSE
  OBVIOUS
<1> DEFINE same == {m \in DOMAIN path : path[m] = path[k]}
<1>1. Len(path) \in Nat /\ DOMAIN path = 1..Len(path)
  OBVIOUS
<1>2. same \subseteq 1..Len(path) /\ i \in same /\ j \in same /\ k \in same
  BY <1>1
<1>3. path[k] \in {path[m] : m \in DOMAIN path}
  BY <1>1
<1>4. ~(Cardinality(same) >= 3)
  BY <1>3 DEF IsNested
<1> HIDE DEF same
<1>. QED
  BY <1>1, <1>2, <1>4, ThreeIndices

\* In a path that is not nested a name is in the first n segments twice at most.
LEMMA TwoOfEach ==
    ASSUME NEW S, NEW path \in Seq(S), ~IsNested(path), NEW n \in 0..Len(path)
    PROVE  IsFiniteSet(NamesIn(path, n)) /\ n =< 2 * Cardinality(NamesIn(path, n))
<1> DEFINE Fits(k) == /\ IsFiniteSet(NamesIn(path, k)) /\ IsFiniteSet(TwiceIn(path, k))
                      /\ k =< Cardinality(NamesIn(path, k)) + Cardinality(TwiceIn(path, k))
           Fitting == {k \in Nat : k =< Len(path) => Fits(k)}
<1>1. Len(path) \in Nat
  OBVIOUS
<1>2. Fits(0)
  <2>1. PICK none : none = {}
    OBVIOUS
  <2>2. NamesIn(path, 0) = none /\ TwiceIn(path, 0) = none
    BY <2>1 DEF NamesIn, TwiceIn
  <2>3. IsFiniteSet(none) /\ Cardinality(none) = 0
    BY <2>1, FS_EmptySet, Zenon
  <2>. QED
    BY <2>2, <2>3
<1>3. ASSUME NEW k \in Nat, Fits(k), k + 1 =< Len(path)
      PROVE  Fits(k + 1)
  <2> DEFINE name == path[k + 1]
             ones == NamesIn(path, k)
             twos == TwiceIn(path, k)
  <2>1. 1..(k + 1) = (1..k) \cup {k + 1}
    OBVIOUS
  <2>2. NamesIn(path, k + 1) = ones \cup {name}
    BY <2>1 DEF NamesIn
  <2>3. TwiceIn(path, k + 1) = IF name \in ones THEN twos \cup {name} ELSE twos
    <3>1. (k + 1) - 1 = k
      OBVIOUS
    <3>2. name \in ones <=> \E i \in 1..((k + 1) - 1) : path[i] = path[k + 1]
      BY <3>1 DEF NamesIn
    <3> DEFINE Again(j) == \E i \in 1..(j - 1) : path[i] = path[j]
    <3>3. {j \in 1..(k + 1) : Again(j)} =
             IF Again(k + 1) THEN {j \in 1..k : Again(j)} \cup {k + 1} ELSE {j \in 1..k : Again(j)}
      <4> HIDE DEF Again
      <4>. QED
        BY <2>1
    <3>4. /\ TwiceIn(path, k + 1) = {path[j] : j \in {i \in 1..(k + 1) : Again(i)}}
          /\ twos = {path[j] : j \in {i \in 1..k : Again(i)}}
      BY DEF TwiceIn
    <3>5. name \in ones <=> Again(k + 1)
      BY <3>2
    <3> HIDE DEF Again, twos, ones
    <3>. QED
      BY <3>3, <3>4, <3>5
  <2>4. IsFiniteSet(ones) /\ IsFiniteSet(twos) /\ k =< Cardinality(ones) + Cardinality(twos)
    BY <1>3
  <2>5. Cardinality(ones) \in Nat /\ Cardinality(twos) \in Nat
    BY <2>4, FS_CardinalityType
  <2>6. name \in ones => name \notin twos
    <3> SUFFICES ASSUME name \in ones, name \in twos
                 PROVE  FALSE
      OBVIOUS
    <3>1. PICK j \in 1..k : name = path[j] /\ \E i \in 1..(j - 1) : path[i] = path[j]
      BY DEF TwiceIn
    <3>2. PICK i \in 1..(j - 1) : path[i] = path[j]
      BY <3>1
    <3>3. /\ i \in 1..Len(path) /\ j \in 1..Len(path) /\ k + 1 \in 1..Len(path)
          /\ i < j /\ j < k + 1
      BY <1>1, <1>3
    <3>. QED
      BY <3>1, <3>2, <3>3, NotThrice
  <2> HIDE DEF ones, twos, name
  <2>7. CASE name \in ones
    <3>1. IsFiniteSet(twos \cup {name}) /\ Cardinality(twos \cup {name}) = Cardinality(twos) + 1
      BY <2>4, <2>6, <2>7, FS_AddElement
    <3>2. ones \cup {name} = ones
      BY <2>7
    <3>3. NamesIn(path, k + 1) = ones /\ TwiceIn(path, k + 1) = twos \cup {name}
      BY <2>2, <2>3, <2>7, <3>2
    <3>4. k + 1 =< Cardinality(ones) + (Cardinality(twos) + 1)
      BY <2>4, <2>5
    <3>. QED
      BY <2>4, <3>1, <3>3, <3>4
  <2>8. CASE name \notin ones
    <3>1. IsFiniteSet(ones \cup {name}) /\ Cardinality(ones \cup {name}) = Cardinality(ones) + 1
      BY <2>4, <2>8, FS_AddElement
    <3>2. NamesIn(path, k + 1) = ones \cup {name} /\ TwiceIn(path, k + 1) = twos
      BY <2>2, <2>3, <2>8
    <3>3. k + 1 =< (Cardinality(ones) + 1) + Cardinality(twos)
      BY <2>4, <2>5
    <3>. QED
      BY <2>4, <3>1, <3>2, <3>3
  <2>. QED
    BY <2>7, <2>8
<1>4. Nat \subseteq Fitting
  <2> HIDE DEF Fits
  <2>1. 0 \in Fitting
    BY <1>2
  <2>2. \A k \in Nat : k \in Fitting => k + 1 \in Fitting
    <3> SUFFICES ASSUME NEW k \in Nat, k =< Len(path) => Fits(k), k + 1 =< Len(path)
                 PROVE  Fits(k + 1)
      OBVIOUS
    <3>1. k =< Len(path)
      BY <1>1
    <3>. QED
      BY <1>3, <3>1
  <2> HIDE DEF Fitting
  <2>. QED
    BY <2>1, <2>2, NatInSet
<1>5. /\ IsFiniteSet(NamesIn(path, n)) /\ IsFiniteSet(TwiceIn(path, n))
      /\ n =< Cardinality(NamesIn(path, n)) + Cardinality(TwiceIn(path, n))
  BY <1>1, <1>4
<1>6. TwiceIn(path, n) \subseteq NamesIn(path, n)
  BY DEF TwiceIn, NamesIn
<1>7. Cardinality(TwiceIn(path, n)) =< Cardinality(NamesIn(path, n))
  BY <1>5, <1>6, FS_Subset
<1>8. Cardinality(NamesIn(path, n)) \in Nat /\ Cardinality(TwiceIn(path, n)) \in Nat
  BY <1>5, FS_CardinalityType
<1>. QED
  BY <1>5, <1>7, <1>8

\* PathsAreBounded: however the pages of a capsule link to each other, no path
\* that is crawled has a name three times (inBlacklist).
THEOREM PathsStayShort == WalkSpec => []PathsAreBounded
<1>1. ASSUME WalkInv
      PROVE  PathsAreBounded
  <2> DEFINE path == page.path
             names == {path[i] : i \in DOMAIN path} \ {Blank}
  <2>1. ~IsNested(path) /\ IsNormal(path)
    BY <1>1 DEF WalkInv, PageOK
  <2>2. path \in Seq(Segment) \ {<<>>} /\ \A i \in 1..(Len(path) - 1) : path[i] \in Name
    BY <2>1 DEF IsNormal
  <2>3. Len(path) \in Nat \ {0}
    BY <2>2, LastIs
  <2>4. \A x \in Name : x # Blank
    BY Zenon DEF Name, Blank
  <2>5. PathsAreBounded <=> Len(path) <= 1 + 2 * Cardinality(names)
    BY Zenon DEF PathsAreBounded, Blank
  <2> HIDE DEF path
  <2>6. path \in Seq(Segment) /\ DOMAIN path = 1..Len(path) /\ Len(path) - 1 \in 0..Len(path)
    BY <2>2, <2>3
  <2>7. NamesIn(path, Len(path) - 1) \subseteq names
    BY <2>2, <2>3, <2>4, <2>6 DEF NamesIn
  <2>8. IsFiniteSet(names)
    <3>1. Len(path) \in 0..Len(path)
      BY <2>3
    <3>2. IsFiniteSet(NamesIn(path, Len(path)))
      BY <2>1, <2>6, <3>1, TwoOfEach
    <3>3. names \subseteq NamesIn(path, Len(path))
      BY <2>6 DEF NamesIn
    <3>. QED
      BY <3>2, <3>3, FS_Subset
  <2>9. /\ Cardinality(NamesIn(path, Len(path) - 1)) =< Cardinality(names)
        /\ Cardinality(NamesIn(path, Len(path) - 1)) \in Nat /\ Cardinality(names) \in Nat
    BY <2>7, <2>8, FS_Subset, FS_CardinalityType
  <2>10. Len(path) - 1 =< 2 * Cardinality(NamesIn(path, Len(path) - 1))
    BY <2>1, <2>6, TwoOfEach
  <2> HIDE DEF names
  <2>. QED
    BY <2>3, <2>5, <2>9, <2>10
<1>. QED
  BY <1>1, WalkInvariance, PTL

-----------------------------------------------------------------------------
(* The algorithms side by side                                               *)

\* Side by side each algorithm goes on as it does alone.
LEMMA SideBySide ==
    Spec => AskSpec /\ ParserSpec /\ GeminiSpec /\ WalkSpec /\ QuerySpec /\ GraphSpec
<1>1. Init => AskInit /\ ParserInit /\ GeminiInit /\ WalkInit /\ QueryInit /\ GraphInit
  BY DEF Init
<1>2. [Next]_vars => /\ [AskNext]_asked /\ [ParserNext]_parser /\ [GeminiNext]_gemini
                     /\ [WalkNext]_Walk /\ [Write]_search /\ [Link]_graph
  BY DEF Next, vars
<1>. QED
  BY <1>1, <1>2, PTL DEF Spec, AskSpec, ParserSpec, GeminiSpec, WalkSpec, QuerySpec, GraphSpec

\* TypeOK of the algorithms side by side.
THEOREM TextsTypeCorrect == Spec => []TypeOK
  BY SideBySide, ParserTypeCorrect, GeminiTypeCorrect, WalkTypeCorrect, PTL DEF TypeOK

\* What holds of each algorithm alone holds of them side by side, as TLC checks
\* them.
THEOREM TextsCorrect ==
    Spec => [](/\ RulesStayInside /\ FastCasesAgree /\ ParseIsExact
               /\ GemsubIsExact /\ TextIsExact
               /\ RespellingSettles /\ LinksKeepTheirAddress
               /\ VerdictKnowsSpellings /\ PathsAreBounded)
  BY SideBySide, RulesAreContained, ShortCutsAgree, ParseIsCorrect, GemsubExact, TextExact,
     RespellingIsOnce, LinksLeadWhereTheySay, VerdictHolds, PathsStayShort, PTL

=============================================================================
