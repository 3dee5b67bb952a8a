-------------------------- MODULE RobotsTextProofs --------------------------
(***************************************************************************)
(* Proofs about RobotsText, for every set of agents, names and prefixes    *)
(* and files of any length, and about PathRules, for rules and paths of    *)
(* any length.                                                             *)
(***************************************************************************)
EXTENDS RobotsText, PathRules, FiniteSetTheorems, TLAPS

(* parseRobotsTxt, line by line *)

\* A run of user-agent lines, with unreadable lines in between, from line i to
\* line n.
RunFrom(i, n) ==
    IsAgentLine(i) /\ \A k \in i..n : Key(file[k]) \in {"user-agent", "none"}

\* What care and last_line_user_agent stand for: whether the next line is meant
\* for us, and whether a run of user-agent lines is going on.
FlagsAreExact ==
    /\ care <=> MeantForUs(Len(file) + 1)
    /\ lastAgent <=> \E i \in DOMAIN file : RunFrom(i, Len(file))

ParserInv == ParserTypeOK /\ FlagsAreExact /\ ParseIsExact

LEMMA InitHolds == ParserInit => ParserInv
  <1> SUFFICES ASSUME ParserInit PROVE ParserInv
    OBVIOUS
  <1>1. file = <<>> /\ Len(file) = 0 /\ DOMAIN file = {} /\ care = TRUE
        /\ lastAgent = FALSE /\ disallowed = {}
    BY DEF ParserInit
  <1>2. ParserTypeOK
    <2>1. <<>> \in Seq(Lines)
      OBVIOUS
    <2> QED BY <1>1, <2>1 DEF ParserTypeOK
  <1>3. MeantForUs(Len(file) + 1)
    BY <1>1 DEF MeantForUs
  <1>4. FlagsAreExact
    BY <1>1, <1>3 DEF FlagsAreExact
  <1>5. ParseIsExact
    BY <1>1 DEF ParseIsExact
  <1> QED BY <1>2, <1>4, <1>5 DEF ParserInv

\* What a file says of its lines up to n does not change when lines are added.
LEMMA Appended ==
  ASSUME file \in Seq(Lines), NEW line \in Lines, file' = Append(file, line)
  PROVE  /\ Len(file') = Len(file) + 1
         /\ file' \in Seq(Lines)
         /\ file'[Len(file) + 1] = line
         /\ \A k \in 1..Len(file) : file'[k] = file[k]
         /\ DOMAIN file = 1..Len(file)
         /\ DOMAIN file' = 1..(Len(file) + 1)
         /\ Len(file) \in Nat
  OBVIOUS

LEMMA MeantIsStable ==
  ASSUME file \in Seq(Lines), NEW line \in Lines, file' = Append(file, line),
         NEW n \in 1..(Len(file) + 1)
  PROVE  MeantForUs(n)' <=> MeantForUs(n)
  <1>1. \A k \in 1..(n - 1) : file'[k] = file[k]
    BY Appended
  <1>2. \A k \in 1..(n - 1) : IsAgentLine(k)' <=> IsAgentLine(k)
    BY <1>1 DEF IsAgentLine
  <1>3. \A i \in 1..(n - 1) : Heads(i, n)' <=> Heads(i, n)
    <2> TAKE i \in 1..(n - 1)
    <2>0. n \in Nat /\ i \in Nat
      BY Appended
    <2>1. \A j \in i..(n - 1) : j \in 1..(n - 1)
      BY <2>0
    <2>2. \A j \in i..(n - 1) :
            /\ \A k \in i..j : file'[k] = file[k]
            /\ \A k \in (j + 1)..(n - 1) : IsAgentLine(k)' <=> IsAgentLine(k)
      BY <1>1, <1>2, <2>0
    <2> QED BY <1>2, <2>2 DEF Heads
  <1> QED BY <1>1, <1>2, <1>3 DEF MeantForUs

\* A new line begins a run of user-agent lines, lets one go on or ends it.
LEMMA RunGoesOn ==
  ASSUME ParserTypeOK, NEW line \in Lines, file' = Append(file, line),
         NEW n \in Nat, n = Len(file) + 1
  PROVE  (\E i \in DOMAIN file : RunFrom(i, Len(file)))'
         <=> \/ Key(line) = "user-agent"
             \/ /\ Key(line) = "none"
                /\ \E i \in DOMAIN file : RunFrom(i, Len(file))
  <1>0. file \in Seq(Lines)
    BY DEF ParserTypeOK
  <1>1. /\ \A k \in 1..Len(file) : file'[k] = file[k]
        /\ file'[n] = line /\ Len(file') = n /\ Len(file) \in Nat
        /\ DOMAIN file = 1..Len(file) /\ DOMAIN file' = 1..n
    BY <1>0, Appended
  <1>2. ASSUME NEW i \in 1..Len(file)
        PROVE  RunFrom(i, n)' <=> RunFrom(i, Len(file)) /\ Key(line) \in {"user-agent", "none"}
    <2>1. i \in Nat /\ i..n = (i..Len(file)) \cup {n} /\ i..Len(file) \subseteq 1..Len(file)
      BY <1>1
    <2>2. \A k \in i..Len(file) : Key(file'[k]) = Key(file[k])
      BY <1>1, <2>1
    <2>3. IsAgentLine(i)' <=> IsAgentLine(i)
      BY <1>1 DEF IsAgentLine
    <2>4. (\A k \in i..n : Key(file[k]) \in {"user-agent", "none"})'
          <=> /\ \A k \in i..Len(file) : Key(file[k]) \in {"user-agent", "none"}
              /\ Key(line) \in {"user-agent", "none"}
      BY <1>1, <2>1, <2>2
    <2> QED BY <2>3, <2>4 DEF RunFrom
  <1>3. RunFrom(n, n)' <=> Key(line) = "user-agent"
    <2>1. n..n = {n}
      BY <1>1
    <2> QED BY <1>1, <2>1 DEF RunFrom, IsAgentLine
  <1>4. 1..n = (1..Len(file)) \cup {n}
    BY <1>1
  <1>5. (\E i \in DOMAIN file : RunFrom(i, Len(file)))'
        <=> \/ \E i \in 1..Len(file) : RunFrom(i, n)'
            \/ RunFrom(n, n)'
    BY <1>1, <1>4
  <1> QED BY <1>1, <1>2, <1>3, <1>5


\* The next line is meant for us when the run that is going on names us.
LEMMA RunNamesUs ==
  ASSUME ParserTypeOK, NEW n \in Nat, n = Len(file) + 1
  PROVE  (\E i \in DOMAIN file : RunFrom(i, Len(file)) /\ file[i].value \in Agents)
         <=> (\E i \in DOMAIN file : RunFrom(i, Len(file))) /\ MeantForUs(n)
  <1>0. DOMAIN file = 1..(n - 1) /\ Len(file) = n - 1 /\ Len(file) \in Nat
    BY DEF ParserTypeOK
  <1>1. ASSUME NEW i \in 1..(n - 1), RunFrom(i, n - 1)
        PROVE  Heads(i, n)
    <2>1. n - 1 \in i..(n - 1) /\ ((n - 1) + 1)..(n - 1) = {}
      BY <1>0
    <2> QED BY <1>1, <2>1 DEF Heads, RunFrom
  <1>2. ASSUME NEW r \in 1..(n - 1), RunFrom(r, n - 1), NEW i \in 1..(n - 1), Heads(i, n)
        PROVE  RunFrom(i, n - 1)
    <2>1. PICK j \in i..(n - 1) :
            /\ \A k \in i..j : Key(file[k]) \in {"user-agent", "none"}
            /\ \A k \in (j + 1)..(n - 1) : ~IsAgentLine(k)
      BY <1>2 DEF Heads
    <2>2. r <= j
      BY <1>2, <2>1, <1>0 DEF RunFrom
    <2>3. \A k \in i..(n - 1) : k \in i..j \/ k \in r..(n - 1)
      BY <2>1, <2>2, <1>0
    <2> QED BY <1>2, <2>1, <2>3 DEF RunFrom, Heads
  <1>3. ASSUME NEW r \in 1..(n - 1), RunFrom(r, n - 1), MeantForUs(n)
        PROVE  \E i \in 1..(n - 1) : Heads(i, n) /\ file[i].value \in Agents
    BY <1>3 DEF MeantForUs, RunFrom
  <1> QED BY <1>0, <1>1, <1>2, <1>3 DEF MeantForUs

\* Which lines head the line after a new one.
LEMMA HeadsOfNext ==
  ASSUME ParserTypeOK, NEW line \in Lines, file' = Append(file, line),
         NEW n \in Nat, n = Len(file) + 1, NEW i \in 1..(n - 1)
  PROVE  Heads(i, n + 1)' <=> IF Key(line) = "user-agent" THEN RunFrom(i, n - 1)
                              ELSE Heads(i, n)
  <1>0. /\ \A k \in 1..(n - 1) : file'[k] = file[k]
        /\ file'[n] = line /\ n \in Nat /\ i \in Nat /\ n - 1 \in Nat
    BY Appended DEF ParserTypeOK
  <1>1. \A k \in 1..(n - 1) : IsAgentLine(k)' <=> IsAgentLine(k)
    BY <1>0 DEF IsAgentLine
  <1>2. IsAgentLine(n)' <=> Key(line) = "user-agent"
    BY <1>0 DEF IsAgentLine
  <1>3. Heads(i, n + 1)' <=>
          /\ IsAgentLine(i)
          /\ \E j \in i..n :
                /\ \A k \in i..j : Key(file'[k]) \in {"user-agent", "none"}
                /\ \A k \in (j + 1)..n : ~IsAgentLine(k)'
    <2>1. (n + 1) - 1 = n /\ (IsAgentLine(i)' <=> IsAgentLine(i))
      BY <1>0, <1>1
    <2> QED BY <2>1 DEF Heads
  <1>4. CASE Key(line) = "user-agent"
    <2>1. ASSUME NEW j \in i..n, \A k \in (j + 1)..n : ~IsAgentLine(k)'
          PROVE  j = n
      BY <2>1, <1>0, <1>2, <1>4
    <2>2. (\A k \in i..n : Key(file'[k]) \in {"user-agent", "none"})
          <=> \A k \in i..(n - 1) : Key(file[k]) \in {"user-agent", "none"}
      <3>1. i..n = (i..(n - 1)) \cup {n} /\ i..(n - 1) \subseteq 1..(n - 1)
        BY <1>0
      <3> QED BY <3>1, <1>0, <1>4
    <2>3. n \in i..n /\ (n + 1)..n = {}
      BY <1>0
    <2> QED BY <1>3, <1>4, <2>1, <2>2, <2>3 DEF RunFrom
  <1>5. CASE Key(line) # "user-agent"
    <2>1. ASSUME NEW j \in i..n,
                 \A k \in i..j : Key(file'[k]) \in {"user-agent", "none"},
                 \A k \in (j + 1)..n : ~IsAgentLine(k)', IsAgentLine(i)
          PROVE  Heads(i, n)
      <3>1. CASE j = n
        <4>1. n - 1 \in i..(n - 1) /\ ((n - 1) + 1)..(n - 1) = {}
              /\ i..(n - 1) \subseteq 1..(n - 1) /\ i..(n - 1) \subseteq i..j
          BY <1>0, <3>1
        <4> QED BY <4>1, <2>1, <1>0 DEF Heads
      <3>2. CASE j # n
        <4>1. j \in i..(n - 1) /\ i..j \subseteq 1..(n - 1)
              /\ (j + 1)..(n - 1) \subseteq 1..(n - 1) /\ (j + 1)..(n - 1) \subseteq (j + 1)..n
          BY <1>0, <3>2
        <4> QED BY <4>1, <2>1, <1>0, <1>1 DEF Heads
      <3> QED BY <3>1, <3>2
    <2>2. ASSUME Heads(i, n)
          PROVE  Heads(i, n + 1)'
      <3>1. PICK j \in i..(n - 1) :
              /\ \A k \in i..j : Key(file[k]) \in {"user-agent", "none"}
              /\ \A k \in (j + 1)..(n - 1) : ~IsAgentLine(k)
        BY <2>2 DEF Heads
      <3>2. j \in i..n /\ i..j \subseteq 1..(n - 1)
            /\ (j + 1)..n = ((j + 1)..(n - 1)) \cup {n} /\ (j + 1)..(n - 1) \subseteq 1..(n - 1)
        BY <1>0
      <3>3. \A k \in i..j : Key(file'[k]) \in {"user-agent", "none"}
        BY <3>1, <3>2, <1>0
      <3>4. \A k \in (j + 1)..n : ~IsAgentLine(k)'
        BY <3>1, <3>2, <1>1, <1>2, <1>5
      <3> QED BY <2>2, <3>2, <3>3, <3>4, <1>3 DEF Heads
    <2> QED BY <1>3, <1>5, <2>1, <2>2
  <1> QED BY <1>4, <1>5

\* The new line heads the line after it only as a user-agent line.
LEMMA LastHeads ==
  ASSUME ParserTypeOK, NEW line \in Lines, file' = Append(file, line),
         NEW n \in Nat, n = Len(file) + 1
  PROVE  Heads(n, n + 1)' <=> Key(line) = "user-agent"
  <1>1. file'[n] = line /\ n..n = {n} /\ (n + 1)..n = {} /\ (n + 1) - 1 = n
    BY Appended DEF ParserTypeOK
  <1> QED BY <1>1 DEF Heads, IsAgentLine

LEMMA NextIsMeant ==
  ASSUME ParserTypeOK, NEW line \in Lines, file' = Append(file, line),
         NEW n \in Nat, n = Len(file) + 1
  PROVE  MeantForUs(n + 1)' <=>
           IF Key(line) = "user-agent"
           THEN \/ (\E i \in DOMAIN file : RunFrom(i, n - 1)) /\ MeantForUs(n)
                \/ line.value \in Agents
           ELSE MeantForUs(n)
  <1>0. /\ \A k \in 1..(n - 1) : file'[k] = file[k]
        /\ file'[n] = line /\ 1..n = (1..(n - 1)) \cup {n} /\ (n + 1) - 1 = n
        /\ DOMAIN file = 1..(n - 1) /\ Len(file) = n - 1
    BY Appended DEF ParserTypeOK
  <1>1. \A k \in 1..(n - 1) : IsAgentLine(k)' <=> IsAgentLine(k)
    BY <1>0 DEF IsAgentLine
  <1>2. IsAgentLine(n)' <=> Key(line) = "user-agent"
    BY <1>0 DEF IsAgentLine
  <1>3. MeantForUs(n + 1)' <=>
          \/ (\A i \in 1..(n - 1) : ~IsAgentLine(i)) /\ Key(line) # "user-agent"
          \/ \E i \in 1..(n - 1) : Heads(i, n + 1)' /\ file[i].value \in Agents
          \/ Heads(n, n + 1)' /\ line.value \in Agents
    BY <1>0, <1>1, <1>2 DEF MeantForUs
  <1>4. \A i \in 1..(n - 1) :
          Heads(i, n + 1)' <=> IF Key(line) = "user-agent" THEN RunFrom(i, n - 1)
                               ELSE Heads(i, n)
    BY HeadsOfNext
  <1>5. Heads(n, n + 1)' <=> Key(line) = "user-agent"
    BY LastHeads
  <1>6. CASE Key(line) = "user-agent"
    <2>1. MeantForUs(n + 1)' <=>
            \/ \E i \in 1..(n - 1) : RunFrom(i, n - 1) /\ file[i].value \in Agents
            \/ line.value \in Agents
      BY <1>3, <1>4, <1>5, <1>6
    <2> QED BY <2>1, <1>0, <1>6, RunNamesUs
  <1>7. CASE Key(line) # "user-agent"
    BY <1>3, <1>4, <1>5, <1>7 DEF MeantForUs
  <1> QED BY <1>6, <1>7

LEMMA FlagsStep ==
  ASSUME ParserInv, NEW line \in Lines, ReadLine(line)
  PROVE  FlagsAreExact'
  <1> DEFINE n == Len(file) + 1
  <1>0. ParserTypeOK /\ FlagsAreExact /\ file' = Append(file, line)
        /\ n \in Nat /\ Len(file') = n /\ n - 1 = Len(file)
    BY Appended DEF ParserInv, ParserTypeOK, ReadLine
  <1>1. MeantForUs(Len(file) + 1)' <=>
           IF Key(line) = "user-agent"
           THEN \/ (\E i \in DOMAIN file : RunFrom(i, Len(file))) /\ MeantForUs(Len(file) + 1)
                \/ line.value \in Agents
           ELSE MeantForUs(Len(file) + 1)
    <2>1. ASSUME NEW k \in Nat, k = Len(file) + 1
          PROVE  MeantForUs(k + 1)' <=>
                   IF Key(line) = "user-agent"
                   THEN \/ (\E i \in DOMAIN file : RunFrom(i, k - 1)) /\ MeantForUs(k)
                        \/ line.value \in Agents
                   ELSE MeantForUs(k)
      BY <1>0, <2>1, NextIsMeant
    <2> QED BY <1>0, <2>1
  <1>2. (\E i \in DOMAIN file : RunFrom(i, Len(file)))'
        <=> \/ Key(line) = "user-agent"
            \/ /\ Key(line) = "none"
               /\ \E i \in DOMAIN file : RunFrom(i, Len(file))
    BY <1>0, RunGoesOn
  <1>3. CASE AgentLine(line)
    BY <1>0, <1>1, <1>2, <1>3 DEF AgentLine, FlagsAreExact
  <1>4. CASE DisallowLine(line)
    BY <1>0, <1>1, <1>2, <1>4 DEF DisallowLine, FlagsAreExact
  <1>5. CASE OtherLine(line)
    BY <1>0, <1>1, <1>2, <1>5 DEF OtherLine, FlagsAreExact
  <1>6. CASE SkipLine(line)
    BY <1>0, <1>1, <1>2, <1>6 DEF SkipLine, FlagsAreExact
  <1> QED BY <1>3, <1>4, <1>5, <1>6 DEF ReadLine

LEMMA TypeStep ==
  ASSUME ParserInv, NEW line \in Lines, ReadLine(line)
  PROVE  ParserTypeOK'
  <1>0. ParserTypeOK /\ file' \in Seq(Lines)
    BY Appended DEF ParserInv, ParserTypeOK, ReadLine
  <1>1. CASE AgentLine(line)
    BY <1>0, <1>1 DEF AgentLine, ParserTypeOK
  <1>2. CASE DisallowLine(line)
    <2>1. line.value \in RuleTexts
      BY <1>2 DEF DisallowLine, Key, Lines
    <2> QED BY <1>0, <1>2, <2>1 DEF DisallowLine, ParserTypeOK
  <1>3. CASE OtherLine(line)
    BY <1>0, <1>3 DEF OtherLine, ParserTypeOK
  <1>4. CASE SkipLine(line)
    BY <1>0, <1>4 DEF SkipLine, ParserTypeOK
  <1> QED BY <1>1, <1>2, <1>3, <1>4 DEF ReadLine

\* What the file says of a prefix so far, and with one line more.
Kept(prefix) ==
    \E n \in DOMAIN file :
       Disallows(n, prefix) /\ \A m \in (n + 1)..Len(file) : ~Disallows(m, <<>>)

LEMMA KeptStep ==
  ASSUME ParserInv, NEW line \in Lines, ReadLine(line), NEW prefix
  PROVE  Kept(prefix)' <=>
           \/ Key(line) = "disallow" /\ care /\ line.value = prefix
           \/ Kept(prefix) /\ ~(Key(line) = "disallow" /\ care /\ line.value = <<>>)
  <1> DEFINE ours == Key(line) = "disallow" /\ care
  <1>0. /\ file' = Append(file, line) /\ file \in Seq(Lines)
        /\ \A k \in 1..Len(file) : file'[k] = file[k]
        /\ file'[Len(file) + 1] = line /\ Len(file) \in Nat
        /\ Len(file') = Len(file) + 1
        /\ DOMAIN file = 1..Len(file) /\ DOMAIN file' = 1..(Len(file) + 1)
    BY Appended DEF ParserInv, ParserTypeOK, ReadLine
  <1>1. PICK n \in Nat : n = Len(file) + 1
    BY <1>0
  <1>2. \A k \in 1..n : MeantForUs(k)' <=> MeantForUs(k)
    BY <1>0, <1>1, MeantIsStable
  <1>3. \A p, k : k \in 1..(n - 1) => (Disallows(k, p)' <=> Disallows(k, p))
    BY <1>0, <1>1, <1>2 DEF Disallows
  <1>4. \A p : Disallows(n, p)' <=> ours /\ line.value = p
    <2>1. care <=> MeantForUs(n)
      BY <1>1 DEF ParserInv, FlagsAreExact
    <2> QED BY <1>0, <1>1, <1>2, <2>1 DEF Disallows
  <1>5. ASSUME NEW k \in 1..(n - 1)
        PROVE  (\A m \in (k + 1)..n : ~Disallows(m, <<>>)')
               <=> /\ \A m \in (k + 1)..(n - 1) : ~Disallows(m, <<>>)
                   /\ ~(ours /\ line.value = <<>>)
    <2>1. (k + 1)..n = ((k + 1)..(n - 1)) \cup {n} /\ (k + 1)..(n - 1) \subseteq 1..(n - 1)
      BY <1>1
    <2> QED BY <2>1, <1>3, <1>4
  <1>6. Kept(prefix)' <=> \E k \in 1..n : Disallows(k, prefix)'
                            /\ \A m \in (k + 1)..n : ~Disallows(m, <<>>)'
    BY <1>0, <1>1 DEF Kept
  <1>7. 1..n = (1..(n - 1)) \cup {n} /\ (n + 1)..n = {}
    BY <1>1
  <1>8. Kept(prefix) <=> \E k \in 1..(n - 1) : Disallows(k, prefix)
                            /\ \A m \in (k + 1)..(n - 1) : ~Disallows(m, <<>>)
    BY <1>0, <1>1 DEF Kept
  <1> HIDE DEF ours
  <1>9. Kept(prefix)' <=> \/ ours /\ line.value = prefix
                          \/ Kept(prefix) /\ ~(ours /\ line.value = <<>>)
    BY <1>3, <1>4, <1>5, <1>6, <1>7, <1>8
  <1> QED BY <1>9 DEF ours

LEMMA ParseStep ==
  ASSUME ParserInv, NEW line \in Lines, ReadLine(line)
  PROVE  ParseIsExact'
  <1> DEFINE ours == Key(line) = "disallow" /\ care
  <1>0. disallowed = {p \in RuleTexts \ {<<>>} : Kept(p)}
    BY DEF ParserInv, ParseIsExact, Kept
  <1>1. disallowed' = IF ~ours THEN disallowed
                      ELSE IF line.value = <<>> THEN {}
                      ELSE disallowed \cup {line.value}
    BY DEF ReadLine, AgentLine, DisallowLine, OtherLine, SkipLine
  <1>2. ours => line.value \in RuleTexts
    BY DEF Key, Lines
  <1>3. ASSUME NEW p
        PROVE  Kept(p)' <=> \/ ours /\ line.value = p
                            \/ Kept(p) /\ ~(ours /\ line.value = <<>>)
    BY KeptStep
  <1> HIDE DEF ours
  <1>4. disallowed' = {p \in RuleTexts \ {<<>>} : Kept(p)'}
    BY <1>0, <1>1, <1>2, <1>3
  <1> QED BY <1>4 DEF ParseIsExact, Kept

LEMMA ParserInvariance == ParserSpec => []ParserInv
  <1>1. ParserInv /\ [ParserNext]_parser => ParserInv'
    <2> SUFFICES ASSUME ParserInv, [ParserNext]_parser
                 PROVE  ParserInv'
      OBVIOUS
    <2>1. ASSUME NEW line \in Lines, ReadLine(line)
          PROVE  ParserInv'
      BY <2>1, FlagsStep, TypeStep, ParseStep DEF ParserInv
    <2>2. CASE UNCHANGED parser
      <3>1. file' = file /\ care' = care /\ lastAgent' = lastAgent /\ disallowed' = disallowed
        BY <2>2 DEF parser
      <3>2. ParserTypeOK'
        BY <3>1 DEF ParserInv, ParserTypeOK
      <3>3. FlagsAreExact'
        BY <3>1 DEF ParserInv, FlagsAreExact, RunFrom, MeantForUs, Heads, IsAgentLine
      <3>4. ParseIsExact'
        <4>1. \A n, p : Disallows(n, p)' <=> Disallows(n, p)
          BY <3>1 DEF Disallows, MeantForUs, Heads, IsAgentLine
        <4> QED BY <3>1, <4>1 DEF ParserInv, ParseIsExact
      <3> QED BY <3>2, <3>3, <3>4 DEF ParserInv
    <2> QED BY <2>1, <2>2 DEF ParserNext
  <1> QED BY <1>1, InitHolds, PTL DEF ParserSpec

\* The parser keeps non-empty prefixes that the file has, whatever it reads
\* (parseRobotsTxt).
THEOREM ParserTypeCorrect == ParserSpec => []ParserTypeOK
  BY ParserInvariance, PTL DEF ParserInv

\* After any number of lines of any kind, parseRobotsTxt holds exactly the
\* prefixes that the groups meant for the crawler disallow and no later empty
\* Disallow takes back.
THEOREM ParseIsCorrect == ParserSpec => []ParseIsExact
  BY ParserInvariance, PTL DEF ParserInv

(* wildcardPathMatch: texts and the regular expression *)

\* Induction as a fact about sets, which the provers can use.
LEMMA NatInSet ==
    ASSUME NEW S, 0 \in S, \A n \in Nat : n \in S => n + 1 \in S
    PROVE  Nat \subseteq S
<1> SUFFICES ASSUME Nat \ S # {}
             PROVE  FALSE
  OBVIOUS
<1> DEFINE R == {ss \in Nat \X Nat : ss[1] < ss[2]}
<1>1. IsWellFoundedOn(R, Nat)
  BY NatLessThanWellFounded DEF OpToRel
<1>2. PICK x \in Nat \ S : \A y \in Nat \ S : <<y, x>> \notin R
  <2> HIDE DEF R
  <2>. QED
    BY <1>1, WFMin
<1>3. x # 0 /\ x - 1 \in Nat /\ x = (x - 1) + 1
  OBVIOUS
<1>4. x - 1 \in S
  <2>1. <<x - 1, x>> \in Nat \X Nat /\ x - 1 < x
    BY <1>3
  <2>. QED
    BY <1>2, <1>3, <2>1
<1>. QED
  BY <1>2, <1>3, <1>4

\* A text begins with another when it is as long and agrees with it there.
LEMMA PrefixIs ==
    ASSUME NEW S, NEW T, NEW s \in Seq(S), NEW t \in Seq(T)
    PROVE  IsPrefix(s, t) <=> Len(s) =< Len(t) /\ \A i \in 1..Len(s) : s[i] = t[i]
<1>1. Len(s) \in Nat /\ Len(t) \in Nat
  OBVIOUS
<1>2. SubSeq(s, 1, Len(s)) = [i \in 1..Len(s) |-> s[i]]
  OBVIOUS
<1>3. Len(s) =< Len(t) => SubSeq(t, 1, Len(s)) = [i \in 1..Len(s) |-> t[i]]
  OBVIOUS
<1>4. [i \in 1..Len(s) |-> s[i]] = [i \in 1..Len(s) |-> t[i]] <=> \A i \in 1..Len(s) : s[i] = t[i]
  OBVIOUS
<1>. QED
  BY <1>2, <1>3, <1>4 DEF IsPrefix

LEMMA PieceIs ==
    ASSUME NEW S, NEW s \in Seq(S), NEW a \in 1..(Len(s) + 1), NEW b \in 0..Len(s), a =< b + 1
    PROVE  /\ SubSeq(s, a, b) \in Seq(S) /\ Len(SubSeq(s, a, b)) = b - a + 1
           /\ \A i \in 1..(b - a + 1) : SubSeq(s, a, b)[i] = s[a + i - 1]
  OBVIOUS

LEMMA SuffixIs ==
    ASSUME NEW S, NEW T, NEW s \in Seq(S), NEW t \in Seq(T)
    PROVE  IsSuffix(s, t) <=> /\ Len(s) =< Len(t)
                              /\ \A i \in 1..Len(s) : s[i] = t[Len(t) - Len(s) + i]
<1>1. Len(s) \in Nat /\ Len(t) \in Nat
  OBVIOUS
<1>2. /\ Reverse(s) \in Seq(S) /\ Len(Reverse(s)) = Len(s)
      /\ \A i \in 1..Len(s) : Reverse(s)[i] = s[Len(s) - i + 1]
  BY DEF Reverse
<1>3. /\ Reverse(t) \in Seq(T) /\ Len(Reverse(t)) = Len(t)
      /\ \A i \in 1..Len(t) : Reverse(t)[i] = t[Len(t) - i + 1]
  BY DEF Reverse
<1>4. IsSuffix(s, t) <=> Len(s) =< Len(t) /\ \A i \in 1..Len(s) : Reverse(s)[i] = Reverse(t)[i]
  BY <1>2, <1>3, PrefixIs DEF IsSuffix
<1>5. ASSUME Len(s) =< Len(t)
      PROVE  (\A i \in 1..Len(s) : Reverse(s)[i] = Reverse(t)[i])
               <=> \A i \in 1..Len(s) : s[i] = t[Len(t) - Len(s) + i]
  <2>1. ASSUME \A i \in 1..Len(s) : Reverse(s)[i] = Reverse(t)[i], NEW i \in 1..Len(s)
        PROVE  s[i] = t[Len(t) - Len(s) + i]
    <3>1. Len(s) - i + 1 \in 1..Len(s) /\ Len(s) - i + 1 \in 1..Len(t)
      BY <1>1, <1>5
    <3>2. Reverse(s)[Len(s) - i + 1] = Reverse(t)[Len(s) - i + 1]
      BY <2>1, <3>1
    <3>3. Len(s) - (Len(s) - i + 1) + 1 = i /\ Len(t) - (Len(s) - i + 1) + 1 = Len(t) - Len(s) + i
      BY <1>1
    <3>. QED
      BY <1>2, <1>3, <3>1, <3>2, <3>3
  <2>2. ASSUME \A i \in 1..Len(s) : s[i] = t[Len(t) - Len(s) + i], NEW i \in 1..Len(s)
        PROVE  Reverse(s)[i] = Reverse(t)[i]
    <3>1. Len(s) - i + 1 \in 1..Len(s) /\ i \in 1..Len(t)
      BY <1>1, <1>5
    <3>2. s[Len(s) - i + 1] = t[Len(t) - Len(s) + (Len(s) - i + 1)]
      BY <2>2, <3>1
    <3>3. Len(t) - Len(s) + (Len(s) - i + 1) = Len(t) - i + 1
      BY <1>1
    <3>. QED
      BY <1>2, <1>3, <3>1, <3>2, <3>3
  <2>. QED
    BY <2>1, <2>2
<1>. QED
  BY <1>4, <1>5

\* What the regular expression makes of the character i of the rule, before
\* being what the characters above it match.
EndsAt(before, rule, path, i) ==
    CASE rule[i] = "*" -> {j \in 0..Len(path) : \E k \in before : k =< j}
      [] rule[i] = "$" -> before \cap {Len(path)}
      [] rule[i] = "^" -> before \cap {0}
      [] rule[i] = "?" -> before
      [] OTHER ->
           {j \in 1..Len(path) : rule[i] = path[j] /\ j - 1 \in before}
           \cup {j \in before : IsOptional(rule, i)}

IsMatch(ends, rule, path, n) ==
    ends = [i \in 0..n |-> IF i = 0 THEN {0} ELSE EndsAt(ends[i - 1], rule, path, i)]

LEMMA RegexIsDefined ==
    ASSUME NEW S, NEW T, NEW rule \in Seq(S), NEW path \in Seq(T)
    PROVE  \E ends : /\ IsMatch(ends, rule, path, Len(rule))
                     /\ RegexMatch(rule, path) <=> IsRegex(rule) /\ Len(path) \in ends[Len(rule)]
<1> DEFINE Has(n) == \E ends : IsMatch(ends, rule, path, n)
           Reach == {n \in Nat : Has(n)}
<1>1. Has(0)
  <2> DEFINE ends == [i \in 0..0 |-> {0}]
  <2>1. ends = [i \in 0..0 |-> IF i = 0 THEN {0} ELSE EndsAt(ends[i - 1], rule, path, i)]
    OBVIOUS
  <2> HIDE DEF ends
  <2>. QED
    BY <2>1 DEF IsMatch
<1>2. ASSUME NEW n \in Nat, Has(n)
      PROVE  Has(n + 1)
  <2>1. PICK ends : IsMatch(ends, rule, path, n)
    BY <1>2
  <2> DEFINE more == [i \in 0..(n + 1) |-> IF i = 0 THEN {0} ELSE EndsAt(ends[i - 1], rule, path, i)]
  <2>2. \A i \in 0..n : more[i] = ends[i]
    <3>1. \A i \in 0..n : ends[i] = IF i = 0 THEN {0} ELSE EndsAt(ends[i - 1], rule, path, i)
      <4> HIDE DEF more
      <4>. QED
        BY <2>1 DEF IsMatch
    <3>2. \A i \in 0..n : i \in 0..(n + 1)
      OBVIOUS
    <3>. QED
      BY <3>1, <3>2
  <2>3. \A i \in 1..(n + 1) : i - 1 \in 0..n
    OBVIOUS
  <2>4. \A i \in 0..(n + 1) : more[i] = IF i = 0 THEN {0} ELSE EndsAt(ends[i - 1], rule, path, i)
    OBVIOUS
  <2>5. more = [i \in 0..(n + 1) |-> more[i]]
    OBVIOUS
  <2> HIDE DEF more
  <2>6. \A i \in 0..(n + 1) : more[i] = IF i = 0 THEN {0} ELSE EndsAt(more[i - 1], rule, path, i)
    BY <2>2, <2>3, <2>4
  <2>7. more = [i \in 0..(n + 1) |-> IF i = 0 THEN {0} ELSE EndsAt(more[i - 1], rule, path, i)]
    BY <2>5, <2>6
  <2>. QED
    BY <2>7 DEF IsMatch
<1>3. Len(rule) \in Reach
  <2> HIDE DEF Has
  <2>1. 0 \in Reach /\ \A n \in Nat : n \in Reach => n + 1 \in Reach
    BY <1>1, <1>2
  <2> HIDE DEF Reach
  <2>. QED
    BY <2>1, NatInSet
<1>4. RegexMatch(rule, path)
        <=> /\ IsRegex(rule)
            /\ Len(path) \in (CHOOSE ends : IsMatch(ends, rule, path, Len(rule)))[Len(rule)]
  BY DEF RegexMatch, IsMatch, EndsAt
<1>. QED
  BY <1>3, <1>4

LEMMA MatchSteps ==
    ASSUME NEW ends, NEW rule, NEW path, NEW n \in Nat, IsMatch(ends, rule, path, n)
    PROVE  /\ ends[0] = {0}
           /\ \A i \in 1..n : ends[i] = EndsAt(ends[i - 1], rule, path, i)
BY DEF IsMatch

\* Literal characters are matched by themselves, one after the other: those of
\* the rule after the place a, up to the place b.
Agrees(rule, a, b, path, j) == \A i \in 1..(b - a) : rule[a + i] = path[j - (b - a) + i]

LEMMA LiteralsMatch ==
    ASSUME NEW rule, NEW S, NEW path \in Seq(S), NEW n \in Nat, NEW ends, IsMatch(ends, rule, path, n),
           NEW a \in 0..n, NEW b \in a..n, \A i \in (a + 1)..b : IsPlain(rule, i),
           ends[a] \subseteq 0..Len(path)
    PROVE  \A j : j \in ends[b] <=> /\ j \in (b - a)..Len(path)
                                    /\ j - (b - a) \in ends[a]
                                    /\ Agrees(rule, a, b, path, j)
<1> DEFINE Known(c) == \A j : j \in ends[a + c] <=> /\ j \in c..Len(path)
                                                    /\ j - c \in ends[a]
                                                    /\ Agrees(rule, a, a + c, path, j)
           Proved == {c \in Nat : a + c =< b => Known(c)}
<1>1. Known(0)
  <2>1. Len(path) \in Nat
    OBVIOUS
  <2>2. \A j \in ends[a] : j \in 0..Len(path) /\ j - 0 = j
    BY <2>1
  <2>3. \A j : Agrees(rule, a, a + 0, path, j)
    BY DEF Agrees
  <2>4. a + 0 = a /\ \A j \in 0..Len(path) : j - 0 = j
    BY <2>1
  <2>. QED
    BY <2>2, <2>3, <2>4
<1>2. ASSUME NEW c \in Nat, Known(c), a + (c + 1) =< b
      PROVE  Known(c + 1)
  <2>1. Len(path) \in Nat
    OBVIOUS
  <2>2. a + (c + 1) \in 1..n /\ a + (c + 1) \in (a + 1)..b /\ (a + (c + 1)) - 1 = a + c
    BY <1>2
  <2>3. rule[a + (c + 1)] \notin Meta /\ ~IsOptional(rule, a + (c + 1))
    BY <2>2 DEF IsPlain
  <2>4. ends[a + (c + 1)] = {j \in 1..Len(path) : rule[a + (c + 1)] = path[j] /\ j - 1 \in ends[a + c]}
    <3>1. \A i \in 1..n : ends[i] = EndsAt(ends[i - 1], rule, path, i)
      BY MatchSteps
    <3>2. ends[a + (c + 1)] = EndsAt(ends[a + c], rule, path, a + (c + 1))
      BY <2>2, <3>1
    <3>. QED
      BY <2>3, <3>2 DEF EndsAt, Meta
  <2>5. ASSUME NEW j \in 1..Len(path)
        PROVE  rule[a + (c + 1)] = path[j] /\ Agrees(rule, a, a + c, path, j - 1)
                 <=> Agrees(rule, a, a + (c + 1), path, j)
    <3>1. 1..((a + (c + 1)) - a) = (1..((a + c) - a)) \cup {c + 1}
      BY <2>1
    <3>2. \A i \in 1..((a + c) - a) :
              (j - 1) - ((a + c) - a) + i = j - ((a + (c + 1)) - a) + i
      BY <2>1
    <3>3. j - ((a + (c + 1)) - a) + (c + 1) = j
      BY <2>1
    <3>. QED
      BY <3>1, <3>2, <3>3 DEF Agrees
  <2>6. \A j \in 1..Len(path) : /\ j - 1 \in c..Len(path) <=> j \in (c + 1)..Len(path)
                                /\ (j - 1) - c = j - (c + 1)
    BY <2>1
  <2>7. \A j : j \in (c + 1)..Len(path) => j \in 1..Len(path)
    BY <2>1
  <2>. QED
    BY <1>2, <2>4, <2>5, <2>6, <2>7
<1>3. b - a \in Proved
  <2> HIDE DEF Known
  <2>1. 0 \in Proved
    BY <1>1
  <2>2. \A c \in Nat : c \in Proved => c + 1 \in Proved
    <3> SUFFICES ASSUME NEW c \in Nat, a + c =< b => Known(c), a + (c + 1) =< b
                 PROVE  Known(c + 1)
      OBVIOUS
    <3>1. a + c =< b
      OBVIOUS
    <3>. QED
      BY <1>2, <3>1
  <2>3. b - a \in Nat
    OBVIOUS
  <2> HIDE DEF Proved
  <2>. QED
    BY <2>1, <2>2, <2>3, NatInSet
<1>4. Known(b - a) /\ a + (b - a) = b
  BY <1>3
<1>. QED
  BY <1>4

\* ... so that a regular expression of literals between two stars looks for them
\* anywhere, one with a star before them at the end, and one with a star after
\* them at the beginning.
LEMMA StarFirst ==
    ASSUME NEW rule, NEW S, NEW path \in Seq(S), NEW n \in Nat \ {0}, NEW ends,
           IsMatch(ends, rule, path, n), rule[1] = "*"
    PROVE  ends[1] = 0..Len(path)
<1>1. ends[1] = EndsAt({0}, rule, path, 1)
  <2>1. 1 \in 1..n /\ 1 - 1 = 0 /\ n \in Nat
    OBVIOUS
  <2>2. ends[0] = {0} /\ \A i \in 1..n : ends[i] = EndsAt(ends[i - 1], rule, path, i)
    BY <2>1, MatchSteps
  <2>. QED
    BY <2>1, <2>2
<1>. QED
  BY <1>1 DEF EndsAt

LEMMA StarLast ==
    ASSUME NEW rule, NEW path, NEW n \in Nat \ {0}, NEW ends,
           IsMatch(ends, rule, path, n), rule[n] = "*", NEW j
    PROVE  j \in ends[n] <=> j \in 0..Len(path) /\ \E k \in ends[n - 1] : k =< j
<1>1. ends[n] = EndsAt(ends[n - 1], rule, path, n)
  BY MatchSteps
<1>. QED
  BY <1>1 DEF EndsAt

\* The texts a rule is taken apart into.
IsLiteral(rule, a, b) == \A i \in (a + 1)..b : IsPlain(rule, i)

NoMarks(rule) == \A i \in DOMAIN rule : rule[i] \notin {"?", "^"}

LEMMA PlainIs ==
    ASSUME NEW S, NEW rule \in Seq(S), NoMarks(rule)
    PROVE  /\ IsRegex(rule)
           /\ \A i \in 1..Len(rule) : IsPlain(rule, i) <=> rule[i] \notin {"*", "$"}
<1>1. \A i \in 1..Len(rule) : rule[i] \notin {"?", "^"} /\ ~IsOptional(rule, i)
  BY DEF NoMarks, IsOptional
<1>. QED
  BY <1>1 DEF IsRegex, IsPlain, Meta

LEMMA RegexIsSuffix ==
    ASSUME NEW S, NEW T, NEW rule \in Seq(S), NEW path \in Seq(T),
           NEW b \in 1..Len(rule), rule[1] = "*", IsLiteral(rule, 1, b), IsRegex(rule),
           b = Len(rule) \/ (b = Len(rule) - 1 /\ rule[Len(rule)] = "$")
    PROVE  RegexMatch(rule, path) <=> IsSuffix(SubSeq(rule, 2, b), path)
<1>1. PICK ends : /\ IsMatch(ends, rule, path, Len(rule))
                  /\ RegexMatch(rule, path) <=> Len(path) \in ends[Len(rule)]
  BY RegexIsDefined
<1>2. Len(rule) \in Nat \ {0} /\ Len(path) \in Nat
  OBVIOUS
<1>3. ends[1] = 0..Len(path)
  BY <1>1, <1>2, StarFirst
<1>4. Len(path) \in ends[Len(rule)] <=> Len(path) \in ends[b]
  <2>1. CASE b = Len(rule)
    BY <2>1
  <2>2. CASE b = Len(rule) - 1 /\ rule[Len(rule)] = "$"
    <3>1. ends[Len(rule)] = EndsAt(ends[b], rule, path, Len(rule))
      BY <1>1, <1>2, <2>2, MatchSteps
    <3>. QED
      BY <2>2, <3>1 DEF EndsAt
  <2>. QED
    BY <2>1, <2>2
<1>5. Len(path) \in ends[b] <=> /\ Len(path) \in (b - 1)..Len(path)
                                /\ Len(path) - (b - 1) \in 0..Len(path)
                                /\ Agrees(rule, 1, b, path, Len(path))
  <2>1. 1 \in 0..Len(rule) /\ b \in 1..Len(rule) /\ Len(rule) \in Nat /\ ends[1] \subseteq 0..Len(path)
    BY <1>2, <1>3
  <2>2. IsMatch(ends, rule, path, Len(rule)) /\ \A i \in (1 + 1)..b : IsPlain(rule, i)
    BY <1>1 DEF IsLiteral
  <2>3. \A j : j \in ends[b] <=> /\ j \in (b - 1)..Len(path)
                                 /\ j - (b - 1) \in ends[1]
                                 /\ Agrees(rule, 1, b, path, j)
    BY <2>1, <2>2, LiteralsMatch
  <2>. QED
    BY <1>3, <2>3
<1>6. SubSeq(rule, 2, b) \in Seq(S) /\ Len(SubSeq(rule, 2, b)) = b - 1
      /\ \A i \in 1..(b - 1) : SubSeq(rule, 2, b)[i] = rule[1 + i]
  BY <1>2
<1>7. IsSuffix(SubSeq(rule, 2, b), path)
        <=> b - 1 =< Len(path) /\ \A i \in 1..(b - 1) : rule[1 + i] = path[Len(path) - (b - 1) + i]
  <2>1. PICK s \in Seq(S) : /\ s = SubSeq(rule, 2, b) /\ Len(s) = b - 1
                            /\ \A i \in 1..(b - 1) : s[i] = rule[1 + i]
    BY <1>6
  <2>2. IsSuffix(s, path) <=> /\ Len(s) =< Len(path)
                              /\ \A i \in 1..Len(s) : s[i] = path[Len(path) - Len(s) + i]
    BY SuffixIs
  <2>. QED
    BY <2>1, <2>2
<1>. QED
  BY <1>1, <1>2, <1>4, <1>5, <1>7 DEF Agrees

LEMMA RegexOccurs ==
    ASSUME NEW S, NEW T, NEW rule \in Seq(S), NEW path \in Seq(T),
           Len(rule) > 1, rule[1] = "*", rule[Len(rule)] = "*",
           IsLiteral(rule, 1, Len(rule) - 1), IsRegex(rule)
    PROVE  RegexMatch(rule, path) <=> Occurs(SubSeq(rule, 2, Len(rule) - 1), path)
<1> DEFINE b == Len(rule) - 1
           s == SubSeq(rule, 2, b)
<1>1. PICK ends : /\ IsMatch(ends, rule, path, Len(rule))
                  /\ RegexMatch(rule, path) <=> Len(path) \in ends[Len(rule)]
  BY RegexIsDefined
<1>2. Len(rule) \in Nat \ {0} /\ Len(path) \in Nat /\ b \in Nat \ {0} /\ b \in 1..Len(rule)
      /\ b \in 0..Len(rule) /\ b = Len(rule) - 1 /\ Len(rule) \in Nat
  OBVIOUS
<1>p. \A i \in (1 + 1)..b : IsPlain(rule, i)
  BY DEF IsLiteral
<1> HIDE DEF b
<1>3. ends[1] = 0..Len(path)
  BY <1>1, <1>2, StarFirst
<1>4. \A k : k \in ends[b] <=> /\ k \in (b - 1)..Len(path)
                               /\ k - (b - 1) \in 0..Len(path)
                               /\ Agrees(rule, 1, b, path, k)
  <2>1. 1 \in 0..Len(rule) /\ ends[1] \subseteq 0..Len(path)
    BY <1>2, <1>3
  <2>2. \A k : k \in ends[b] <=> /\ k \in (b - 1)..Len(path)
                                 /\ k - (b - 1) \in ends[1]
                                 /\ Agrees(rule, 1, b, path, k)
    <3>1. PICK n \in Nat : n = Len(rule)
      BY <1>2
    <3>2. /\ IsMatch(ends, rule, path, n) /\ 1 \in 0..n /\ b \in 1..n
          /\ ends[1] \subseteq 0..Len(path)
      BY <1>1, <1>2, <2>1, <3>1
    <3>. QED
      BY <1>p, <3>2, LiteralsMatch
  <2>. QED
    BY <1>3, <2>2
<1>5. Len(path) \in ends[Len(rule)] <=> \E k \in ends[b] : k =< Len(path)
  <2>1. Len(path) \in 0..Len(path)
    BY <1>2
  <2>. QED
    BY <1>1, <1>2, <2>1, StarLast
<1>6. s \in Seq(S) /\ Len(s) = b - 1 /\ \A i \in 1..(b - 1) : s[i] = rule[1 + i]
  BY <1>2
<1> HIDE DEF s, b
<1>7. ASSUME NEW i \in 0..Len(path)
      PROVE  IsPrefix(s, SubSeq(path, i + 1, Len(path)))
               <=> b - 1 =< Len(path) - i /\ \A l \in 1..(b - 1) : rule[1 + l] = path[i + l]
  <2> DEFINE t == SubSeq(path, i + 1, Len(path))
  <2>1. t \in Seq(T) /\ Len(t) = Len(path) - i /\ \A l \in 1..(Len(path) - i) : t[l] = path[i + l]
    BY <1>2
  <2> HIDE DEF t
  <2>2. IsPrefix(s, t) <=> Len(s) =< Len(t) /\ \A l \in 1..Len(s) : s[l] = t[l]
    <3>1. s \in Seq(S) /\ t \in Seq(T)
      BY <1>6, <2>1
    <3>. QED
      BY <3>1, PrefixIs
  <2>3. b - 1 =< Len(path) - i => \A l \in 1..(b - 1) : t[l] = path[i + l]
    BY <1>2, <2>1
  <2>. QED
    BY <1>6, <2>1, <2>2, <2>3 DEF t
<1>8. (\E k \in ends[b] : k =< Len(path)) => Occurs(s, path)
  <2> SUFFICES ASSUME NEW k \in ends[b]
               PROVE  Occurs(s, path)
    OBVIOUS
  <2>1. k - (b - 1) \in 0..Len(path) /\ b - 1 =< Len(path) - (k - (b - 1)) /\ k - (b - 1) + (b - 1) = k
    BY <1>2, <1>4
  <2>2. \A l \in 1..(b - 1) : rule[1 + l] = path[(k - (b - 1)) + l]
    BY <1>4 DEF Agrees
  <2>. QED
    BY <1>7, <2>1, <2>2 DEF Occurs
<1>9. Occurs(s, path) => \E k \in ends[b] : k =< Len(path)
  <2> SUFFICES ASSUME NEW i \in 0..Len(path), b - 1 =< Len(path) - i,
                      \A l \in 1..(b - 1) : rule[1 + l] = path[i + l]
               PROVE  \E k \in ends[b] : k =< Len(path)
    BY <1>7 DEF Occurs
  <2>1. i + (b - 1) \in (b - 1)..Len(path) /\ (i + (b - 1)) - (b - 1) = i
    BY <1>2
  <2>2. Agrees(rule, 1, b, path, i + (b - 1))
    BY <2>1 DEF Agrees
  <2>3. i + (b - 1) \in ends[b]
    BY <1>4, <2>1, <2>2
  <2>. QED
    BY <2>1, <2>3
<1>. QED
  BY <1>1, <1>5, <1>8, <1>9 DEF s, b

LEMMA RegexIsPrefix ==
    ASSUME NEW S, NEW T, NEW rule \in Seq(S), NEW path \in Seq(T),
           Len(rule) > 0, rule[Len(rule)] = "*",
           IsLiteral(rule, 0, Len(rule) - 1), IsRegex(rule)
    PROVE  RegexMatch(rule, path) <=> IsPrefix(SubSeq(rule, 1, Len(rule) - 1), path)
<1> DEFINE b == Len(rule) - 1
           s == SubSeq(rule, 1, b)
<1>1. PICK ends : /\ IsMatch(ends, rule, path, Len(rule))
                  /\ RegexMatch(rule, path) <=> Len(path) \in ends[Len(rule)]
  BY RegexIsDefined
<1>2. Len(rule) \in Nat \ {0} /\ Len(path) \in Nat /\ b \in 0..Len(rule)
      /\ b = Len(rule) - 1 /\ Len(rule) \in Nat
  OBVIOUS
<1>p. \A i \in (0 + 1)..b : IsPlain(rule, i)
  BY DEF IsLiteral
<1> HIDE DEF b
<1>3. ends[0] = {0}
  BY <1>1, <1>2, MatchSteps
<1>4. \A k : k \in ends[b] <=> /\ k \in (b - 0)..Len(path)
                               /\ k - (b - 0) \in {0}
                               /\ Agrees(rule, 0, b, path, k)
  <2>1. 0 \in 0..Len(rule) /\ b \in 0..Len(rule) /\ Len(rule) \in Nat /\ ends[0] \subseteq 0..Len(path)
    BY <1>2, <1>3
  <2>2. IsMatch(ends, rule, path, Len(rule))
    BY <1>1
  <2>3. \A k : k \in ends[b] <=> /\ k \in (b - 0)..Len(path)
                                 /\ k - (b - 0) \in ends[0]
                                 /\ Agrees(rule, 0, b, path, k)
    BY <1>p, <2>1, <2>2, LiteralsMatch
  <2>. QED
    BY <1>3, <2>3
<1>5. Len(path) \in ends[Len(rule)] <=> \E k \in ends[b] : k =< Len(path)
  <2>1. Len(path) \in 0..Len(path)
    BY <1>2
  <2>. QED
    BY <1>1, <1>2, <2>1, StarLast
<1>6. s \in Seq(S) /\ Len(s) = b /\ \A i \in 1..b : s[i] = rule[i]
  BY <1>2
<1> HIDE DEF s, b
<1>7. IsPrefix(s, path) <=> b =< Len(path) /\ \A i \in 1..b : rule[i] = path[i]
  BY <1>6, PrefixIs
<1>8. (\E k \in ends[b] : k =< Len(path)) <=> b \in ends[b]
  BY <1>2, <1>4
<1>9. b \in ends[b] <=> b =< Len(path) /\ \A i \in 1..b : rule[i] = path[i]
  <2>1. b \in ends[b] <=> b \in (b - 0)..Len(path) /\ b - (b - 0) \in {0} /\ Agrees(rule, 0, b, path, b)
    BY <1>4
  <2>2. b - 0 = b /\ b - b = 0 /\ \A i \in 1..b : 0 + i = i
    BY <1>2
  <2>3. Agrees(rule, 0, b, path, b) <=> \A i \in 1..b : rule[i] = path[i]
    BY <2>2 DEF Agrees
  <2>4. b \in b..Len(path) <=> b =< Len(path)
    BY <1>2
  <2>. QED
    BY <2>1, <2>2, <2>3, <2>4
<1>. QED
  BY <1>1, <1>5, <1>7, <1>8, <1>9 DEF s, b

\* The first n elements, where the provers need not look into SubSeq.
Beginning(s, n) == SubSeq(s, 1, n)

LEMMA BeginningIs ==
    ASSUME NEW S, NEW s \in Seq(S), NEW n \in 0..Len(s)
    PROVE  /\ Beginning(s, n) \in Seq(S) /\ Len(Beginning(s, n)) = n
           /\ \A i \in 1..n : Beginning(s, n)[i] = s[i]
  BY DEF Beginning

LEMMA HeadIs ==
    ASSUME NEW S, NEW rule \in Seq(S)
    PROVE  \E n \in 0..Len(rule) : /\ LiteralHead(rule) = Beginning(rule, n)
                                   /\ IsLiteral(rule, 0, n)
                                   /\ n = Len(rule) \/ ~IsPlain(rule, n + 1)
<1> DEFINE IsEnd(n) == /\ \A i \in 1..n : IsPlain(rule, i)
                       /\ n = Len(rule) \/ ~IsPlain(rule, n + 1)
           Open == {n \in Nat : n =< Len(rule) => \A i \in 1..n : IsPlain(rule, i)}
<1>1. Len(rule) \in Nat
  OBVIOUS
<1>2. \E n \in 0..Len(rule) : IsEnd(n)
  <2> SUFFICES ASSUME \A n \in 0..Len(rule) : ~IsEnd(n)
               PROVE  FALSE
    OBVIOUS
  <2>1. 0 \in Open
    OBVIOUS
  <2>2. ASSUME NEW n \in Nat, n \in Open
        PROVE  n + 1 \in Open
    <3> SUFFICES ASSUME n + 1 =< Len(rule)
                 PROVE  \A i \in 1..(n + 1) : IsPlain(rule, i)
      OBVIOUS
    <3>1. n \in 0..Len(rule) /\ n # Len(rule) /\ \A i \in 1..n : IsPlain(rule, i)
      BY <1>1, <2>2
    <3>2. IsPlain(rule, n + 1)
      BY <3>1
    <3>3. 1..(n + 1) = (1..n) \cup {n + 1}
      OBVIOUS
    <3>. QED
      BY <3>1, <3>2, <3>3
  <2>3. Len(rule) \in Open
    <3> HIDE DEF Open
    <3>. QED
      BY <1>1, <2>1, <2>2, NatInSet
  <2>4. IsEnd(Len(rule)) /\ Len(rule) \in 0..Len(rule)
    BY <1>1, <2>3
  <2>. QED
    BY <2>4
<1> DEFINE end == CHOOSE n \in 0..Len(rule) : IsEnd(n)
<1>3. LiteralHead(rule) = Beginning(rule, end)
  BY DEF LiteralHead, Beginning
<1>4. end \in 0..Len(rule) /\ IsEnd(end)
  <2> HIDE DEF IsEnd
  <2>. QED
    BY <1>2
<1> HIDE DEF end
<1>. QED
  BY <1>3, <1>4 DEF IsLiteral

\* The literal head of a rule ends before its first star.
LEMMA HeadBeforeStars ==
    ASSUME NEW S, NEW T, NEW rule \in Seq(S), NEW path \in Seq(T), NEW star \in Stars(rule),
           IsPrefix(Beginning(rule, star - 1), path)
    PROVE  IsPrefix(LiteralHead(rule), path)
<1>1. PICK n \in 0..Len(rule) : LiteralHead(rule) = Beginning(rule, n) /\ IsLiteral(rule, 0, n)
  BY HeadIs
<1>2. Len(rule) \in Nat /\ star \in 1..Len(rule) /\ rule[star] = "*" /\ star - 1 \in 0..Len(rule)
  BY DEF Stars
<1>3. n =< star - 1
  BY <1>1, <1>2 DEF IsLiteral, IsPlain, Meta
<1>4. PICK s \in Seq(S) : /\ s = Beginning(rule, star - 1) /\ Len(s) = star - 1
                          /\ \A i \in 1..(star - 1) : s[i] = rule[i]
  BY <1>2, BeginningIs
<1>5. PICK h \in Seq(S) : /\ h = Beginning(rule, n) /\ Len(h) = n
                          /\ \A i \in 1..n : h[i] = rule[i]
  <2>1. /\ Beginning(rule, n) \in Seq(S) /\ Len(Beginning(rule, n)) = n
        /\ \A i \in 1..n : Beginning(rule, n)[i] = rule[i]
    BY BeginningIs
  <2>. QED
    BY <2>1
<1>6. Len(s) =< Len(path) /\ \A i \in 1..Len(s) : s[i] = path[i]
  <2>1. IsPrefix(s, path)
    BY <1>4
  <2>. QED
    BY <1>4, <2>1, PrefixIs
<1>7. Len(h) =< Len(path) /\ \A i \in 1..Len(h) : h[i] = path[i]
  <2>1. \A i \in 1..n : i \in 1..(star - 1)
    BY <1>2, <1>3
  <2>2. \A i \in 1..n : h[i] = rule[i] /\ s[i] = rule[i] /\ s[i] = path[i]
    BY <1>4, <1>5, <1>6, <2>1
  <2>3. Len(path) \in Nat /\ Len(h) =< Len(path)
    BY <1>2, <1>3, <1>4, <1>5, <1>6
  <2>. QED
    BY <1>5, <2>2, <2>3
<1>8. IsPrefix(h, path)
  BY <1>7, PrefixIs
<1>. QED
  BY <1>1, <1>5, <1>8

LEMMA FirstIs ==
    ASSUME NEW S, NEW rule \in Seq(S)
    PROVE  /\ StartsWithStar(rule) <=> Len(rule) > 0 /\ rule[1] = "*"
           /\ StartsWithSlashStar(rule) <=> Len(rule) > 1 /\ rule[1] = "/" /\ rule[2] = "*"
<1>1. PICK s \in Seq({"*"}) : s = <<"*">> /\ Len(s) = 1 /\ s[1] = "*"
  <2>1. <<"*">> \in Seq({"*"}) /\ Len(<<"*">>) = 1 /\ <<"*">>[1] = "*"
    OBVIOUS
  <2>. QED
    BY <2>1
<1>2. PICK t \in Seq({"/", "*"}) : t = <<"/", "*">> /\ Len(t) = 2 /\ t[1] = "/" /\ t[2] = "*"
  <2> DEFINE t == <<"/", "*">>
  <2>1. t \in Seq({"/", "*"}) /\ Len(t) = 2 /\ t[1] = "/" /\ t[2] = "*"
    OBVIOUS
  <2>. QED
    BY <2>1
<1>3. IsPrefix(s, rule) <=> Len(s) =< Len(rule) /\ \A i \in 1..Len(s) : s[i] = rule[i]
  BY PrefixIs
<1>4. IsPrefix(t, rule) <=> Len(t) =< Len(rule) /\ \A i \in 1..Len(t) : t[i] = rule[i]
  BY PrefixIs
<1>5. 1..1 = {1} /\ 1..2 = {1, 2} /\ Len(rule) \in Nat
  OBVIOUS
<1>6. IsPrefix(s, rule) <=> 1 =< Len(rule) /\ rule[1] = "*"
  BY <1>1, <1>3, <1>5
<1>7. IsPrefix(t, rule) <=> 2 =< Len(rule) /\ rule[1] = "/" /\ rule[2] = "*"
  BY <1>2, <1>4, <1>5
<1>8. /\ StartsWithStar(rule) <=> IsPrefix(s, rule)
      /\ StartsWithSlashStar(rule) <=> IsPrefix(t, rule)
  BY <1>1, <1>2 DEF StartsWithStar, StartsWithSlashStar
<1>. QED
  BY <1>5, <1>6, <1>7, <1>8

\* What is asked is asked of texts, and the answer is that of PathMatch.
AnswerIsMatch ==
    asked # <<>> =>
        /\ \E S : asked.rule \in Seq(S) \ {<<>>}
        /\ \E S : asked.path \in Seq(S)
        /\ asked.blocked <=> PathMatch(asked.rule, asked.path)

LEMMA AnswerInvariant == AskSpec => []AnswerIsMatch
<1>1. AskInit => AnswerIsMatch
  BY DEF AskInit, AnswerIsMatch
<1>2. AnswerIsMatch /\ [AskNext]_asked => AnswerIsMatch'
  <2> SUFFICES ASSUME AnswerIsMatch, [AskNext]_asked
               PROVE  AnswerIsMatch'
    OBVIOUS
  <2>1. CASE asked' = asked
    BY <2>1 DEF AnswerIsMatch
  <2>2. ASSUME NEW path \in Paths, NEW rule \in Rules, Ask(path, rule)
        PROVE  AnswerIsMatch'
    <3>1. asked'.path = path /\ asked'.rule = rule /\ asked'.blocked = IsPathBlocked(path, {rule})
      BY <2>2 DEF Ask
    <3>2. IsPathBlocked(path, {rule}) <=> PathMatch(rule, path)
      BY DEF IsPathBlocked
    <3>3. rule \in Seq(ToSet(rule)) \ {<<>>} /\ path \in Seq(ToSet(path))
      BY TextsAssumption
    <3>. QED
      BY <3>1, <3>2, <3>3 DEF AnswerIsMatch
  <2>. QED
    BY <2>1, <2>2 DEF AskNext
<1>. QED
  BY <1>1, <1>2, PTL DEF AskSpec

LEMMA LiteralStaysBelow ==
    ASSUME NEW S, NEW T, NEW rule \in Seq(S) \ {<<>>}, NEW path \in Seq(T), LiteralMatch(rule, path)
    PROVE  Below(rule, path)
<1>1. CASE path = rule
  <2>1. IsPrefix(rule, rule)
    BY DEF IsPrefix
  <2>. QED
    BY <1>1, <2>1 DEF Below
<1>2. CASE path = rule \o <<"/">>
  <2>1. /\ Len(rule) \in Nat /\ Len(path) = Len(rule) + 1 /\ path[Len(rule) + 1] = "/"
        /\ \A i \in 1..Len(rule) : path[i] = rule[i]
    BY <1>2
  <2>2. IsPrefix(rule, path)
    BY <2>1, PrefixIs
  <2>. QED
    BY <2>1, <2>2 DEF Below
<1>3. CASE Len(path) > Len(rule) + 1 /\ IsPrefix(rule, path)
             /\ (path[Len(rule) + 1] = "/" \/ Last(rule) = "/")
  BY <1>3 DEF Below
<1>. QED
  BY <1>1, <1>2, <1>3 DEF LiteralMatch

\* A rule that the regular expression is made of: what it matches begins with
\* the literals at its head.
LEMMA RegexStaysBelow ==
    ASSUME NEW S, NEW T, NEW rule \in Seq(S), NEW path \in Seq(T), RegexMatch(rule, path)
    PROVE  IsPrefix(LiteralHead(rule), path)
<1>1. PICK ends : IsMatch(ends, rule, path, Len(rule)) /\ Len(path) \in ends[Len(rule)]
  BY RegexIsDefined
<1>2. PICK n \in 0..Len(rule) : LiteralHead(rule) = Beginning(rule, n) /\ IsLiteral(rule, 0, n)
  BY HeadIs
<1>3. Len(rule) \in Nat /\ Len(path) \in Nat
  OBVIOUS
<1>4. ends[0] = {0} /\ \A i \in 1..Len(rule) : ends[i] = EndsAt(ends[i - 1], rule, path, i)
  BY <1>1, <1>3, MatchSteps
\* What is matched to the end has been matched up to each character before it.
<1>5. \A i \in 0..Len(rule) : ends[i] # {}
  <2> DEFINE Up == {k \in Nat : k =< Len(rule) => ends[Len(rule) - k] # {}}
  <2>1. 0 \in Up
    BY <1>1, <1>3
  <2>2. ASSUME NEW k \in Nat, k \in Up
        PROVE  k + 1 \in Up
    <3> SUFFICES ASSUME k + 1 =< Len(rule)
                 PROVE  ends[Len(rule) - (k + 1)] # {}
      OBVIOUS
    <3> DEFINE i == Len(rule) - k
    <3>1. i \in 1..Len(rule) /\ i - 1 = Len(rule) - (k + 1) /\ ends[i] # {}
      BY <1>3, <2>2
    <3> HIDE DEF i
    <3>2. ends[i] = EndsAt(ends[i - 1], rule, path, i)
      BY <1>4, <3>1
    <3>3. ends[i - 1] # {}
      BY <3>1, <3>2 DEF EndsAt
    <3>. QED
      BY <3>1, <3>3
  <2>3. Nat \subseteq Up
    <3> HIDE DEF Up
    <3>. QED
      BY <2>1, <2>2, NatInSet
  <2>4. ASSUME NEW i \in 0..Len(rule)
        PROVE  ends[i] # {}
    <3>1. Len(rule) - i \in Nat /\ Len(rule) - i =< Len(rule) /\ Len(rule) - (Len(rule) - i) = i
      BY <1>3
    <3>. QED
      BY <2>3, <3>1
  <2>. QED
    BY <2>4
<1>6. PICK j : j \in ends[n]
  BY <1>5
<1>7. j \in (n - 0)..Len(path) /\ j - (n - 0) \in ends[0] /\ Agrees(rule, 0, n, path, j)
  <2>1. 0 \in 0..Len(rule) /\ ends[0] \subseteq 0..Len(path) /\ n \in 0..Len(rule)
        /\ \A i \in (0 + 1)..n : IsPlain(rule, i)
    BY <1>2, <1>3, <1>4 DEF IsLiteral
  <2>. QED
    BY <1>1, <1>3, <1>6, <2>1, LiteralsMatch
<1>8. n =< Len(path) /\ \A i \in 1..n : rule[i] = path[i]
  BY <1>3, <1>4, <1>7 DEF Agrees
<1>9. PICK h \in Seq(S) : /\ h = Beginning(rule, n) /\ Len(h) = n
                          /\ \A i \in 1..n : h[i] = rule[i]
  <2>1. /\ Beginning(rule, n) \in Seq(S) /\ Len(Beginning(rule, n)) = n
        /\ \A i \in 1..n : Beginning(rule, n)[i] = rule[i]
    BY BeginningIs
  <2>. QED
    BY <2>1
<1>10. IsPrefix(h, path)
  BY <1>8, <1>9, PrefixIs
<1>. QED
  BY <1>2, <1>9, <1>10

LEMMA StarsStayBelow ==
    ASSUME NEW S, NEW T, NEW rule \in Seq(S) \ {<<>>}, NEW path \in Seq(T),
           Stars(rule) # {}, ~StartsWithSlashStar(rule), StarMatch(WithoutDollar(rule), path)
    PROVE  IsPrefix(LiteralHead(rule), path)
<1>1. Len(rule) \in Nat \ {0} /\ Len(path) \in Nat
  OBVIOUS
<1>2. CASE StartsWithStar(rule)
  <2>1. 1 \in Stars(rule)
    BY <1>1, <1>2, FirstIs DEF Stars
  <2>2. PICK h \in Seq(S) : h = Beginning(rule, 1 - 1) /\ Len(h) = 0
    BY <1>1, BeginningIs
  <2>3. IsPrefix(h, path)
    <3>1. Len(h) =< Len(path) /\ \A i \in 1..Len(h) : h[i] = path[i]
      BY <1>1, <2>2
    <3>. QED
      BY <3>1, PrefixIs
  <2>. QED
    BY <2>1, <2>2, <2>3, HeadBeforeStars
<1>3. CASE ~StartsWithStar(rule)
  <2>1. WithoutDollar(rule) = rule
    BY <1>3 DEF WithoutDollar
  <2>2. CASE Last(rule) = "*" /\ IsPrefix(Front(rule), path)
    <3>1. Len(rule) \in Stars(rule) /\ Front(rule) = Beginning(rule, Len(rule) - 1)
      BY <1>1, <2>2 DEF Stars, Last, Front, Beginning
    <3>. QED
      BY <2>2, <3>1, HeadBeforeStars
  <2>3. CASE MiddleMatch(rule, path)
    <3>1. PICK star \in Stars(rule) : IsPrefix(Beginning(rule, star - 1), path)
      BY <2>3 DEF MiddleMatch, Beginning
    <3>. QED
      BY <3>1, HeadBeforeStars
  <2>4. CASE RegexMatch(rule, path)
    BY <2>4, RegexStaysBelow
  <2>. QED
    BY <1>3, <2>1, <2>2, <2>3, <2>4 DEF StarMatch
<1>. QED
  BY <1>2, <1>3

\* RulesStayInside: wildcardPathMatch blocks nothing outside what a rule names,
\* for rules and paths of any length.
THEOREM RulesAreContained == AskSpec => []RulesStayInside
<1>1. AnswerIsMatch => RulesStayInside
  <2> SUFFICES ASSUME AnswerIsMatch, asked # <<>>, asked.blocked
               PROVE  IF Stars(asked.rule) = {} THEN Below(asked.rule, asked.path)
                      ELSE \/ IsPrefix(LiteralHead(asked.rule), asked.path)
                           \/ StartsWithSlashStar(asked.rule)
    BY DEF RulesStayInside
  <2>1. PICK S : asked.rule \in Seq(S) \ {<<>>}
    BY DEF AnswerIsMatch
  <2>2. PICK T : asked.path \in Seq(T)
    BY DEF AnswerIsMatch
  <2>3. PathMatch(asked.rule, asked.path)
    BY DEF AnswerIsMatch
  <2>4. Stars(asked.rule) = {} => Below(asked.rule, asked.path)
    BY <2>1, <2>2, <2>3, LiteralStaysBelow DEF PathMatch
  <2>5. Stars(asked.rule) # {} /\ ~StartsWithSlashStar(asked.rule)
          => IsPrefix(LiteralHead(asked.rule), asked.path)
    BY <2>1, <2>2, <2>3, StarsStayBelow DEF PathMatch
  <2>. QED
    BY <2>4, <2>5
<1>. QED
  BY <1>1, AnswerInvariant, PTL

LEMMA OneOrTwo ==
    ASSUME NEW a, NEW b, a # b
    PROVE  Cardinality({a}) = 1 /\ Cardinality({a, b}) = 2
<1>1. IsFiniteSet({a}) /\ Cardinality({a}) = 1
  BY FS_Singleton
<1>2. Cardinality({a} \cup {b}) = Cardinality({a}) + 1
  BY <1>1, FS_AddElement
<1>3. {a} \cup {b} = {a, b}
  OBVIOUS
<1>. QED
  BY <1>1, <1>2, <1>3

LEMMA SameText ==
    ASSUME NEW S, NEW s \in Seq(S), NEW t \in Seq(S), Len(s) = Len(t),
           \A i \in 1..Len(s) : s[i] = t[i]
    PROVE  s = t
  OBVIOUS

\* The same characters at another place are the same text.
LEMMA SamePiece ==
    ASSUME NEW S, NEW s \in Seq(S), NEW t \in Seq(S),
           NEW a \in 1..(Len(s) + 1), NEW b \in 0..Len(s), a =< b + 1,
           NEW c \in 1..(Len(t) + 1), NEW d \in 0..Len(t), b - a = d - c,
           \A i \in 1..(b - a + 1) : s[a + i - 1] = t[c + i - 1]
    PROVE  SubSeq(s, a, b) = SubSeq(t, c, d)
<1>1. c =< d + 1 /\ b - a + 1 = d - c + 1
  OBVIOUS
<1> DEFINE p == SubSeq(s, a, b)
           q == SubSeq(t, c, d)
<1>2. p \in Seq(S) /\ Len(p) = b - a + 1 /\ \A i \in 1..(b - a + 1) : p[i] = s[a + i - 1]
  BY PieceIs
<1>3. q \in Seq(S) /\ Len(q) = d - c + 1 /\ \A i \in 1..(d - c + 1) : q[i] = t[c + i - 1]
  BY <1>1, PieceIs
<1> HIDE DEF p, q
<1>4. Len(p) = Len(q) /\ \A i \in 1..Len(p) : p[i] = q[i]
  BY <1>1, <1>2, <1>3
<1>5. p = q
  BY <1>2, <1>3, <1>4, SameText
<1>. QED
  BY <1>5 DEF p, q

\* The fast case that a rule without a dollar at its end takes.
LEMMA FastCase ==
    ASSUME NEW S, NEW rule \in Seq(S) \ {<<>>}, NEW path
    PROVE  /\ StartsWithStar(rule) /\ Stars(rule) = {1}
                => (StarMatch(rule, path) <=> IsSuffix(SubSeq(rule, 2, Len(rule)), path))
           /\ StartsWithStar(rule) /\ Len(rule) > 1 /\ Stars(rule) = {1, Len(rule)}
                => (StarMatch(rule, path) <=> Occurs(SubSeq(rule, 2, Len(rule) - 1), path))
           /\ StartsWithSlashStar(rule) /\ Stars(rule) = {2}
                => (StarMatch(rule, path) <=> IsSuffix(SubSeq(rule, 3, Len(rule)), path))
           /\ StartsWithSlashStar(rule) /\ Len(rule) > 2 /\ Stars(rule) = {2, Len(rule)}
                => (StarMatch(rule, path) <=> Occurs(SubSeq(rule, 3, Len(rule) - 1), path))
           /\ ~StartsWithStar(rule) /\ ~StartsWithSlashStar(rule) /\ Stars(rule) = {Len(rule)}
                => (StarMatch(rule, path) <=> IsPrefix(Front(rule), path))
<1>1. Len(rule) \in Nat \ {0} /\ Last(rule) = rule[Len(rule)]
  BY DEF Last
<1>2. StartsWithSlashStar(rule) => ~StartsWithStar(rule)
  BY FirstIs
<1>3. \A i \in Stars(rule) : rule[i] = "*"
  BY DEF Stars
<1>4. Cardinality({1}) = 1 /\ Cardinality({2}) = 1 /\ Cardinality({Len(rule)}) = 1
  BY <1>1, FS_Singleton
<1>5. /\ Len(rule) > 1 => Cardinality({1, Len(rule)}) = 2
      /\ Len(rule) > 2 => Cardinality({2, Len(rule)}) = 2
  <2>1. ASSUME Len(rule) > 1 PROVE Cardinality({1, Len(rule)}) = 2
    <3>1. 1 # Len(rule)
      BY <1>1, <2>1
    <3>. QED
      BY <3>1, OneOrTwo
  <2>2. ASSUME Len(rule) > 2 PROVE Cardinality({2, Len(rule)}) = 2
    <3>1. 2 # Len(rule)
      BY <1>1, <2>2
    <3>. QED
      BY <3>1, OneOrTwo
  <2>. QED
    BY <2>1, <2>2
<1>6. ASSUME StartsWithStar(rule), Stars(rule) = {1}
      PROVE  StarMatch(rule, path) <=> IsSuffix(SubSeq(rule, 2, Len(rule)), path)
  BY <1>2, <1>4, <1>6 DEF StarMatch
<1>7. ASSUME StartsWithStar(rule), Len(rule) > 1, Stars(rule) = {1, Len(rule)}
      PROVE  StarMatch(rule, path) <=> Occurs(SubSeq(rule, 2, Len(rule) - 1), path)
  <2>1. Last(rule) = "*"
    BY <1>1, <1>3, <1>7
  <2>. QED
    BY <2>1, <1>5, <1>7 DEF StarMatch
<1>8. ASSUME StartsWithSlashStar(rule), Stars(rule) = {2}
      PROVE  StarMatch(rule, path) <=> IsSuffix(SubSeq(rule, 3, Len(rule)), path)
  BY <1>2, <1>4, <1>8 DEF StarMatch
<1>9. ASSUME StartsWithSlashStar(rule), Len(rule) > 2, Stars(rule) = {2, Len(rule)}
      PROVE  StarMatch(rule, path) <=> Occurs(SubSeq(rule, 3, Len(rule) - 1), path)
  <2>1. Last(rule) = "*"
    BY <1>1, <1>3, <1>9
  <2>. QED
    BY <2>1, <1>2, <1>5, <1>9 DEF StarMatch
<1>10. ASSUME ~StartsWithStar(rule), ~StartsWithSlashStar(rule), Stars(rule) = {Len(rule)}
       PROVE  StarMatch(rule, path) <=> IsPrefix(Front(rule), path)
  <2>1. Last(rule) = "*"
    BY <1>1, <1>3, <1>10
  <2>. QED
    BY <2>1, <1>4, <1>10 DEF StarMatch
<1>. QED
  BY <1>6, <1>7, <1>8, <1>9, <1>10

\* A rule that begins with a star.
LEMMA StarRuleAgrees ==
    ASSUME NEW S, NEW T, NEW rule \in Seq(S) \ {<<>>}, NEW path \in Seq(T),
           StartsWithStar(rule), Stars(rule) \subseteq {1, Len(rule)},
           \A i \in 1..(Len(rule) - 1) : rule[i] # "$", NoMarks(rule)
    PROVE  StarMatch(WithoutDollar(rule), path) <=> RegexMatch(rule, path)
<1>1. Len(rule) \in Nat \ {0} /\ rule[1] = "*" /\ Last(rule) = rule[Len(rule)]
  BY FirstIs DEF Last
<1>2. \A i \in 1..Len(rule) : i \in Stars(rule) <=> rule[i] = "*"
  BY DEF Stars
<1>3. 1 \in Stars(rule) /\ Stars(rule) \subseteq 1..Len(rule)
  BY <1>1, <1>2 DEF Stars
<1>4. IsLiteral(rule, 1, Len(rule) - 1) /\ IsRegex(rule)
  BY <1>1, <1>2, PlainIs DEF IsLiteral
<1>5. CASE rule[Len(rule)] = "$"
  <2>1. Len(rule) > 1 /\ Len(rule) - 1 \in 1..Len(rule)
    BY <1>1, <1>5
  <2>2. PICK w \in Seq(S) : /\ w = WithoutDollar(rule) /\ Len(w) = Len(rule) - 1
                            /\ \A i \in 1..(Len(rule) - 1) : w[i] = rule[i]
    <3>1. WithoutDollar(rule) = Beginning(rule, Len(rule) - 1)
      BY <1>1, <1>5 DEF WithoutDollar, Front, Beginning
    <3>. QED
      BY <1>1, <3>1, BeginningIs
  <2>3. w # <<>> /\ StartsWithStar(w) /\ Stars(w) = {1}
    <3>1. StartsWithStar(w)
      BY <1>1, <2>1, <2>2, FirstIs
    <3>2. \A i \in 1..Len(w) : w[i] = "*" <=> i = 1
      BY <1>1, <1>2, <2>1, <2>2
    <3>3. DOMAIN w = 1..Len(w) /\ 1 \in 1..Len(w) /\ w # <<>>
      BY <2>1, <2>2
    <3>. QED
      BY <3>1, <3>2, <3>3 DEF Stars
  <2>4. StarMatch(w, path) <=> IsSuffix(SubSeq(w, 2, Len(w)), path)
    BY <2>3, FastCase
  <2>5. SubSeq(w, 2, Len(w)) = SubSeq(rule, 2, Len(rule) - 1)
    <3>1. /\ 2 \in 1..(Len(w) + 1) /\ Len(w) \in 0..Len(w) /\ 2 =< Len(w) + 1
          /\ 2 \in 1..(Len(rule) + 1) /\ Len(rule) - 1 \in 0..Len(rule)
          /\ Len(w) - 2 = (Len(rule) - 1) - 2
          /\ \A i \in 1..(Len(w) - 2 + 1) : w[2 + i - 1] = rule[2 + i - 1]
      BY <1>1, <2>1, <2>2
    <3>. QED
      BY <2>2, <3>1, SamePiece
  <2>6. RegexMatch(rule, path) <=> IsSuffix(SubSeq(rule, 2, Len(rule) - 1), path)
    BY <1>1, <1>4, <1>5, <2>1, RegexIsSuffix
  <2>. QED
    BY <2>2, <2>4, <2>5, <2>6
<1>6. CASE rule[Len(rule)] # "$"
  <2>1. WithoutDollar(rule) = rule
    BY <1>1, <1>6 DEF WithoutDollar
  <2>2. CASE rule[Len(rule)] = "*" /\ Len(rule) > 1
    <3>1. Stars(rule) = {1, Len(rule)}
      BY <1>1, <1>2, <1>3, <2>2
    <3>2. StarMatch(rule, path) <=> Occurs(SubSeq(rule, 2, Len(rule) - 1), path)
      BY <2>2, <3>1, FastCase
    <3>3. RegexMatch(rule, path) <=> Occurs(SubSeq(rule, 2, Len(rule) - 1), path)
      BY <1>1, <1>4, <2>2, RegexOccurs
    <3>. QED
      BY <2>1, <3>2, <3>3
  <2>3. CASE rule[Len(rule)] # "*" \/ Len(rule) = 1
    <3>1. Stars(rule) = {1}
      BY <1>1, <1>2, <1>3, <2>3
    <3>2. IsLiteral(rule, 1, Len(rule)) /\ Len(rule) \in 1..Len(rule)
      BY <1>1, <1>2, <1>6, <2>3, PlainIs DEF IsLiteral
    <3>3. StarMatch(rule, path) <=> IsSuffix(SubSeq(rule, 2, Len(rule)), path)
      BY <3>1, FastCase
    <3>4. RegexMatch(rule, path) <=> IsSuffix(SubSeq(rule, 2, Len(rule)), path)
      BY <1>1, <1>4, <3>2, RegexIsSuffix
    <3>. QED
      BY <2>1, <3>3, <3>4
  <2>4. Len(rule) > 1 \/ Len(rule) = 1
    <3>1. \A n \in Nat \ {0} : n > 1 \/ n = 1
      OBVIOUS
    <3>. QED
      BY <1>1, <3>1
  <2>. QED
    BY <2>2, <2>3, <2>4
<1>. QED
  BY <1>5, <1>6

\* A rule that begins with a slash and a star.
LEMMA SlashStarRuleAgrees ==
    ASSUME NEW S, NEW T, NEW rule \in Seq(S) \ {<<>>}, NEW path \in Seq(T),
           StartsWithSlashStar(rule), Stars(Tail(rule)) \subseteq {1, Len(Tail(rule))},
           \A i \in 1..(Len(rule) - 1) : rule[i] # "$", NoMarks(rule)
    PROVE  StarMatch(WithoutDollar(rule), path) <=> RegexMatch(Tail(rule), path)
<1>1. /\ Len(rule) \in Nat \ {0} /\ Len(rule) > 1 /\ rule[1] = "/" /\ rule[2] = "*"
      /\ Last(rule) = rule[Len(rule)]
  BY FirstIs DEF Last
<1>2. PICK m \in Seq(S) : /\ m = Tail(rule) /\ Len(m) = Len(rule) - 1
                          /\ \A i \in 1..(Len(rule) - 1) : m[i] = rule[i + 1]
  <2>1. /\ Tail(rule) \in Seq(S) /\ Len(Tail(rule)) = Len(rule) - 1
        /\ \A i \in 1..(Len(rule) - 1) : Tail(rule)[i] = rule[i + 1]
    BY <1>1
  <2>. QED
    BY <2>1
<1>3. \A i \in 1..Len(m) : m[i] = "*" => i \in {1, Len(m)}
  <2>1. Stars(m) \subseteq {1, Len(m)} /\ DOMAIN m = 1..Len(m)
    BY <1>2
  <2>. QED
    BY <2>1 DEF Stars
<1>4. \A i \in 1..Len(rule) : rule[i] = "*" => i \in {2, Len(rule)}
  <2> SUFFICES ASSUME NEW i \in 1..Len(rule), rule[i] = "*"
               PROVE  i \in {2, Len(rule)}
    OBVIOUS
  <2>1. i - 1 \in 1..(Len(rule) - 1) /\ (i - 1) + 1 = i
    BY <1>1
  <2>2. m[i - 1] = "*" /\ i - 1 \in 1..Len(m)
    BY <1>2, <2>1
  <2>3. i - 1 = 1 \/ i - 1 = Len(rule) - 1
    BY <1>2, <1>3, <2>2
  <2>. QED
    BY <1>1, <2>3
<1>5. Len(m) \in Nat \ {0} /\ m[1] = "*" /\ m[Len(m)] = rule[Len(rule)]
  BY <1>1, <1>2
<1>0. NoMarks(m)
  <2>1. \A i \in 1..(Len(rule) - 1) : i + 1 \in DOMAIN rule
    BY <1>1
  <2>. QED
    BY <1>2, <2>1 DEF NoMarks
<1>9. IsRegex(m)
  BY <1>0, PlainIs
<1>6. IsLiteral(m, 1, Len(m) - 1)
  <2> SUFFICES ASSUME NEW i \in 2..(Len(m) - 1)
               PROVE  m[i] \notin {"*", "$"}
    <3>1. \A i \in 2..(Len(m) - 1) : i \in 1..Len(m)
      BY <1>5
    <3>. QED
      BY <1>0, <3>1, PlainIs DEF IsLiteral
  <2>1. i \in 1..Len(m) /\ i \notin {1, Len(m)} /\ i + 1 \in 1..(Len(rule) - 1) /\ i \in 1..(Len(rule) - 1)
    <3>1. Len(m) = Len(rule) - 1 /\ Len(rule) \in Nat
      BY <1>1, <1>2
    <3>. QED
      BY <3>1
  <2>. QED
    BY <1>2, <1>3, <2>1
<1>7. CASE rule[Len(rule)] = "$"
  <2>1. Len(rule) > 2 /\ Len(m) - 1 \in 1..Len(m)
    BY <1>1, <1>2, <1>7
  <2>2. PICK w \in Seq(S) : /\ w = WithoutDollar(rule) /\ Len(w) = Len(rule) - 1
                            /\ \A i \in 1..(Len(rule) - 1) : w[i] = rule[i]
    <3>1. WithoutDollar(rule) = Beginning(rule, Len(rule) - 1)
      BY <1>1, <1>7 DEF WithoutDollar, Front, Beginning
    <3>. QED
      BY <1>1, <3>1, BeginningIs
  <2>3. w # <<>> /\ StartsWithSlashStar(w) /\ Stars(w) = {2}
    <3>1. StartsWithSlashStar(w)
      <4>1. Len(w) > 1 /\ w[1] = "/" /\ w[2] = "*"
        BY <1>1, <2>1, <2>2
      <4>. QED
        BY <4>1, FirstIs
    <3>2. \A i \in 1..Len(w) : w[i] = "*" <=> i = 2
      BY <1>1, <1>4, <2>1, <2>2
    <3>3. DOMAIN w = 1..Len(w) /\ 2 \in 1..Len(w) /\ w # <<>>
      BY <1>1, <2>1, <2>2
    <3>. QED
      BY <3>1, <3>2, <3>3 DEF Stars
  <2>4. StarMatch(w, path) <=> IsSuffix(SubSeq(w, 3, Len(w)), path)
    BY <2>3, FastCase
  <2>5. SubSeq(w, 3, Len(w)) = SubSeq(m, 2, Len(m) - 1)
    <3>1. /\ 3 \in 1..(Len(w) + 1) /\ Len(w) \in 0..Len(w) /\ 3 =< Len(w) + 1
          /\ 2 \in 1..(Len(m) + 1) /\ Len(m) - 1 \in 0..Len(m)
          /\ Len(w) - 3 = (Len(m) - 1) - 2
      BY <1>1, <1>2, <2>1, <2>2
    <3>2. \A i \in 1..(Len(w) - 3 + 1) : w[3 + i - 1] = m[2 + i - 1]
      <4> SUFFICES ASSUME NEW i \in 1..(Len(w) - 3 + 1)
                   PROVE  w[3 + i - 1] = m[2 + i - 1]
        OBVIOUS
      <4>1. /\ 3 + i - 1 = i + 2 /\ 2 + i - 1 = i + 1 /\ (i + 1) + 1 = i + 2
            /\ i + 2 \in 1..(Len(rule) - 1) /\ i + 1 \in 1..(Len(rule) - 1)
        BY <1>1, <2>1, <2>2
      <4>2. w[i + 2] = rule[i + 2] /\ m[i + 1] = rule[(i + 1) + 1]
        BY <1>2, <2>2, <4>1
      <4>. QED
        BY <4>1, <4>2
    <3>. QED
      BY <1>2, <2>2, <3>1, <3>2, SamePiece
  <2>6. RegexMatch(m, path) <=> IsSuffix(SubSeq(m, 2, Len(m) - 1), path)
    BY <1>5, <1>6, <1>7, <1>9, <2>1, RegexIsSuffix
  <2>. QED
    BY <1>2, <2>2, <2>4, <2>5, <2>6
<1>8. CASE rule[Len(rule)] # "$"
  <2>1. WithoutDollar(rule) = rule
    BY <1>1, <1>8 DEF WithoutDollar
  <2>2. DOMAIN rule = 1..Len(rule) /\ 2 \in 1..Len(rule)
    BY <1>1
  <2>3. CASE rule[Len(rule)] = "*" /\ Len(rule) > 2
    <3>1. Stars(rule) = {2, Len(rule)}
      <4>1. Len(rule) \in 1..Len(rule) /\ rule[2] = "*" /\ rule[Len(rule)] = "*"
        BY <1>1, <2>3
      <4>2. 2 \in Stars(rule) /\ Len(rule) \in Stars(rule)
        BY <2>2, <4>1 DEF Stars
      <4>3. Stars(rule) \subseteq {2, Len(rule)}
        BY <1>4, <2>2 DEF Stars
      <4>. QED
        BY <4>2, <4>3
    <3>2. StarMatch(rule, path) <=> Occurs(SubSeq(rule, 3, Len(rule) - 1), path)
      BY <2>3, <3>1, FastCase
    <3>3. SubSeq(rule, 3, Len(rule) - 1) = SubSeq(m, 2, Len(m) - 1)
      <4>1. /\ 3 \in 1..(Len(rule) + 1) /\ Len(rule) - 1 \in 0..Len(rule) /\ 3 =< (Len(rule) - 1) + 1
            /\ 2 \in 1..(Len(m) + 1) /\ Len(m) - 1 \in 0..Len(m)
            /\ (Len(rule) - 1) - 3 = (Len(m) - 1) - 2
        BY <1>1, <1>2, <2>3
      <4>2. \A i \in 1..((Len(rule) - 1) - 3 + 1) : rule[3 + i - 1] = m[2 + i - 1]
        <5> SUFFICES ASSUME NEW i \in 1..((Len(rule) - 1) - 3 + 1)
                     PROVE  rule[3 + i - 1] = m[2 + i - 1]
          OBVIOUS
        <5>1. /\ 3 + i - 1 = i + 2 /\ 2 + i - 1 = i + 1 /\ (i + 1) + 1 = i + 2
              /\ i + 1 \in 1..(Len(rule) - 1)
          BY <1>1, <2>3
        <5>. QED
          BY <1>2, <5>1
      <4>. QED
        BY <1>2, <4>1, <4>2, SamePiece
    <3>4. RegexMatch(m, path) <=> Occurs(SubSeq(m, 2, Len(m) - 1), path)
      <4>1. Len(m) > 1 /\ m[1] = "*" /\ m[Len(m)] = "*"
        BY <1>1, <1>2, <1>5, <2>3
      <4>. QED
        BY <1>6, <1>9, <4>1, RegexOccurs
    <3>. QED
      BY <1>2, <2>1, <3>2, <3>3, <3>4
  <2>4. CASE rule[Len(rule)] # "*" \/ Len(rule) = 2
    <3>1. Stars(rule) = {2}
      BY <1>1, <1>4, <2>2, <2>4 DEF Stars
    <3>2. StarMatch(rule, path) <=> IsSuffix(SubSeq(rule, 3, Len(rule)), path)
      BY <3>1, FastCase
    <3>3. SubSeq(rule, 3, Len(rule)) = SubSeq(m, 2, Len(m))
      <4>1. /\ 3 \in 1..(Len(rule) + 1) /\ Len(rule) \in 0..Len(rule) /\ 3 =< Len(rule) + 1
            /\ 2 \in 1..(Len(m) + 1) /\ Len(m) \in 0..Len(m)
            /\ Len(rule) - 3 = Len(m) - 2
        BY <1>1, <1>2
      <4>2. \A i \in 1..(Len(rule) - 3 + 1) : rule[3 + i - 1] = m[2 + i - 1]
        <5> SUFFICES ASSUME NEW i \in 1..(Len(rule) - 3 + 1)
                     PROVE  rule[3 + i - 1] = m[2 + i - 1]
          OBVIOUS
        <5>1. /\ 3 + i - 1 = i + 2 /\ 2 + i - 1 = i + 1 /\ (i + 1) + 1 = i + 2
              /\ i + 1 \in 1..(Len(rule) - 1)
          BY <1>1
        <5>. QED
          BY <1>2, <5>1
      <4>. QED
        BY <1>2, <4>1, <4>2, SamePiece
    <3>4. RegexMatch(m, path) <=> IsSuffix(SubSeq(m, 2, Len(m)), path)
      <4>1. Len(m) \in 1..Len(m) /\ m[1] = "*"
        BY <1>5
      <4>2. IsLiteral(m, 1, Len(m))
        <5>1. m[Len(m)] \notin {"*", "$"} \/ Len(m) = 1
          BY <1>1, <1>2, <1>5, <1>8, <2>4
        <5>2. \A i \in 2..Len(m) : IsPlain(m, i)
          BY <1>0, <1>5, <1>6, <5>1, PlainIs DEF IsLiteral
        <5>. QED
          BY <5>2 DEF IsLiteral
      <4>. QED
        BY <1>9, <4>1, <4>2, RegexIsSuffix
    <3>. QED
      BY <1>2, <2>1, <3>2, <3>3, <3>4
  <2>5. Len(rule) > 2 \/ Len(rule) = 2
    <3>1. \A n \in Nat : n > 1 => n > 2 \/ n = 2
      OBVIOUS
    <3>. QED
      BY <1>1, <3>1
  <2>. QED
    BY <2>3, <2>4, <2>5
<1>. QED
  BY <1>7, <1>8

\* A rule with its star at the end.
LEMMA LastStarRuleAgrees ==
    ASSUME NEW S, NEW T, NEW rule \in Seq(S) \ {<<>>}, NEW path \in Seq(T),
           ~StartsWithStar(rule), ~StartsWithSlashStar(rule),
           Stars(rule) # {}, Stars(rule) \subseteq {1, Len(rule)},
           \A i \in 1..(Len(rule) - 1) : rule[i] # "$", NoMarks(rule)
    PROVE  StarMatch(WithoutDollar(rule), path) <=> RegexMatch(rule, path)
<1>1. Len(rule) \in Nat \ {0} /\ rule[1] # "*" /\ DOMAIN rule = 1..Len(rule)
  BY FirstIs
<1>2. Stars(rule) = {Len(rule)} /\ rule[Len(rule)] = "*"
  BY <1>1 DEF Stars
<1>3. IsLiteral(rule, 0, Len(rule) - 1) /\ IsRegex(rule)
  <2>1. \A i \in 1..(Len(rule) - 1) : i \in 1..Len(rule) /\ rule[i] \notin {"*", "$"}
    BY <1>1, <1>2 DEF Stars
  <2>. QED
    BY <2>1, PlainIs DEF IsLiteral
<1>4. WithoutDollar(rule) = rule /\ Front(rule) = SubSeq(rule, 1, Len(rule) - 1)
  BY DEF WithoutDollar, Front
<1>5. StarMatch(rule, path) <=> IsPrefix(SubSeq(rule, 1, Len(rule) - 1), path)
  BY <1>2, <1>4, FastCase
<1>. QED
  BY <1>1, <1>2, <1>3, <1>4, <1>5, RegexIsPrefix

\* FastCasesAgree: the short cuts of wildcardPathMatch answer as the regular
\* expression they save, for rules and paths of any length.
THEOREM ShortCutsAgree == AskSpec => []FastCasesAgree
<1>1. AnswerIsMatch => FastCasesAgree
  <2> DEFINE meaning == IF StartsWithSlashStar(asked.rule) THEN Tail(asked.rule) ELSE asked.rule
  <2> SUFFICES ASSUME AnswerIsMatch, asked # <<>>,
                      Stars(asked.rule) # {},
                      Stars(meaning) \subseteq {1, Len(meaning)},
                      \A i \in 1..(Len(asked.rule) - 1) : asked.rule[i] # "$",
                      NoMarks(asked.rule)
               PROVE  asked.blocked <=> RegexMatch(meaning, asked.path)
    BY DEF FastCasesAgree, NoMarks
  <2>1. PICK S : asked.rule \in Seq(S) \ {<<>>}
    BY DEF AnswerIsMatch
  <2>2. PICK T : asked.path \in Seq(T)
    BY DEF AnswerIsMatch
  <2>3. asked.blocked <=> StarMatch(WithoutDollar(asked.rule), asked.path)
    BY DEF AnswerIsMatch, PathMatch
  <2>4. CASE StartsWithSlashStar(asked.rule)
    BY <2>1, <2>2, <2>3, <2>4, SlashStarRuleAgrees
  <2>5. CASE StartsWithStar(asked.rule) /\ ~StartsWithSlashStar(asked.rule)
    BY <2>1, <2>2, <2>3, <2>5, StarRuleAgrees
  <2>6. CASE ~StartsWithStar(asked.rule) /\ ~StartsWithSlashStar(asked.rule)
    BY <2>1, <2>2, <2>3, <2>6, LastStarRuleAgrees
  <2>. QED
    BY <2>4, <2>5, <2>6
<1>. QED
  BY <1>1, AnswerInvariant, PTL

=============================================================================
