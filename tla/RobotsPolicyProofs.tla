-------------------------- MODULE RobotsPolicyProofs --------------------------
(***************************************************************************)
(* What holds of the robots.txt that crawlers judge by for every number of *)
(* calls, processes, paths and faults: its types, that every verdict is    *)
(* one some robots.txt of the host has given, that the tables keep the     *)
(* refresh that committed last, alone if no other overlapped it, and how   *)
(* many steps a call has before it.                                        *)
(***************************************************************************)
EXTENDS RobotsPolicy, TLAPS

-----------------------------------------------------------------------------
(* Type correctness *)

LEMMA RulesTyped ==
    /\ \A file \in {NoFile} \cup SUBSET Paths : Rules(file) \subseteq Paths
    /\ \A file \in SUBSET Paths : Rules(file) = file
    /\ \A rows \in SUBSET Rows : RulesIn(rows) \subseteq Paths
    /\ \A c \in Calls, file \in {NoFile} \cup SUBSET Paths :
          {[rule |-> u, by |-> c] : u \in Rules(file)} \subseteq Rows
  BY ConstantsAssumption DEF ConstantsAssumption, Rules, RulesIn, Rows

LEMMA InitTyped == Init => TypeOK
<1> SUFFICES ASSUME Init
             PROVE  TypeOK
  OBVIOUS
<1>1. served \in {NoFile} \cup SUBSET Paths /\ Rules(served) \subseteq Paths
  BY RulesTyped DEF Init
<1>2. changes \in 0..MaxChanges /\ faults \in 0..MaxFaults
  BY ConstantsAssumption DEF Init, ConstantsAssumption
<1>. QED
  BY <1>1, <1>2 DEF Init, TypeOK, PCs, Txs, Verdicts

HostTyped ==
    /\ served \in {NoFile} \cup SUBSET Paths
    /\ changes \in 0..MaxChanges /\ faults \in 0..MaxFaults
    /\ opened \subseteq Paths /\ closed \subseteq Paths
TablesTyped ==
    /\ stored \subseteq Rows
    /\ status \in StatusRows \cup {NoPolicy}
    /\ last \in {NoFile} \cup SUBSET Paths
    /\ heirs \subseteq Calls
MemoryTyped ==
    /\ cache \in [Procs -> {NoPolicy} \cup SUBSET Paths]
    /\ timeouts \in [Procs -> Nat]
CallTyped ==
    /\ pc \in [Calls -> PCs]
    /\ path \in [Calls -> Paths]
    /\ policy \in [Calls -> {NoFile} \cup SUBSET Paths]
    /\ verdict \in [Calls -> Verdicts]
TransTyped ==
    /\ tx \in [Calls -> Txs]
    /\ doomed \in [Calls -> SUBSET Rows]
    /\ missed \in [Calls -> SUBSET Calls]

LEMMA TypeParts ==
    TypeOK <=> HostTyped /\ TablesTyped /\ MemoryTyped /\ CallTyped /\ TransTyped
  BY DEF TypeOK, HostTyped, TablesTyped, MemoryTyped, CallTyped, TransTyped

LEMMA HostStaysTyped == TypeOK /\ [Next]_vars => HostTyped'
<1> SUFFICES ASSUME TypeOK, [Next]_vars
             PROVE  HostTyped'
  OBVIOUS
<1> USE DEF HostTyped
<1>0. HostTyped
  BY TypeParts
<1>1. CASE Change
  <2>1. served' \in {NoFile} \cup SUBSET Paths /\ Rules(served') \subseteq Paths
    BY <1>1, RulesTyped DEF Change
  <2>. QED
    BY <1>0, <1>1, <2>1, ConstantsAssumption DEF Change, ConstantsAssumption
<1>2. CASE UNCHANGED host /\ (Fault \/ UNCHANGED faults)
  BY <1>0, <1>2, ConstantsAssumption DEF Fault, host, ConstantsAssumption
<1>. QED
  BY <1>1, <1>2 DEF Next, Start, Step, Begin, HostIsDown, Cached, Miss, SelectStatus,
     SelectRules, Decide, SelectFails, FetchFails, Fetch, Delete, Deleted, Upsert,
     Commit, RollBack, StatusAges, CacheExpires, PageTimesOut, Restart, vars

LEMMA TablesStayTyped == TypeOK /\ [Next]_vars => TablesTyped'
<1> SUFFICES ASSUME TypeOK, [Next]_vars
             PROVE  TablesTyped'
  OBVIOUS
<1> USE DEF TablesTyped
<1>0. TablesTyped /\ CallTyped /\ TransTyped
  BY TypeParts
<1>1. ASSUME NEW c \in Calls, Commit(c)
      PROVE  TablesTyped'
  <2>1. policy[c] \in {NoFile} \cup SUBSET Paths /\ missed[c] \subseteq Calls
    BY <1>0 DEF CallTyped, TransTyped
  <2>2. stored' \subseteq Rows
    BY <1>0, <1>1, <2>1, RulesTyped DEF Commit
  <2>3. status' \in StatusRows
    BY <1>1 DEF Commit, StatusRows
  <2>. QED
    BY <1>1, <2>1, <2>2, <2>3 DEF Commit
<1>2. CASE StatusAges
  <2>1. status' \in StatusRows
    BY <1>0, <1>2 DEF StatusAges, StatusRows
  <2>. QED
    BY <1>0, <1>2, <2>1 DEF StatusAges
<1>3. CASE UNCHANGED tables
  BY <1>0, <1>3 DEF tables
<1>. QED
  BY <1>1, <1>2, <1>3 DEF Next, Start, Step, Begin, HostIsDown, Cached, Miss, SelectStatus,
     SelectRules, Decide, SelectFails, FetchFails, Fetch, Delete, Deleted, Upsert,
     RollBack, Change, CacheExpires, PageTimesOut, Restart, vars

LEMMA MemoryStaysTyped == TypeOK /\ [Next]_vars => MemoryTyped'
<1> SUFFICES ASSUME TypeOK, [Next]_vars
             PROVE  MemoryTyped'
  OBVIOUS
<1> USE DEF MemoryTyped
<1>0. MemoryTyped /\ CallTyped
  BY TypeParts
<1>1. ASSUME NEW c \in Calls, Decide(c)
      PROVE  MemoryTyped'
  <2>1. Rules(policy[c]) \in {NoPolicy} \cup SUBSET Paths
    BY <1>0, RulesTyped DEF CallTyped
  <2>. QED
    BY <1>0, <1>1, <2>1 DEF Decide
<1>2. ASSUME NEW c \in Calls, FetchFails(c)
      PROVE  MemoryTyped'
  BY <1>0, <1>2, ConstantsAssumption DEF FetchFails, ConstantsAssumption
<1>3. ASSUME NEW p \in Procs, CacheExpires(p) \/ PageTimesOut(p) \/ Restart(p)
      PROVE  MemoryTyped'
  BY <1>0, <1>3 DEF CacheExpires, PageTimesOut, Restart
<1>4. CASE UNCHANGED memory
  BY <1>0, <1>4 DEF memory
<1>. QED
  BY <1>1, <1>2, <1>3, <1>4 DEF Next, Start, Step, Begin, HostIsDown, Cached, Miss,
     SelectStatus, SelectRules, SelectFails, Fetch, Delete, Deleted, Upsert, Commit,
     RollBack, Change, StatusAges, vars

LEMMA CallStaysTyped == TypeOK /\ [Next]_vars => CallTyped'
<1> SUFFICES ASSUME TypeOK, [Next]_vars
             PROVE  CallTyped'
  OBVIOUS
<1> USE DEF CallTyped
<1>0. HostTyped /\ TablesTyped /\ CallTyped
  BY TypeParts
<1>1. ASSUME NEW c \in Calls, NEW v \in Verdicts, Return(c, v)
      PROVE  pc' \in [Calls -> PCs] /\ verdict' \in [Calls -> Verdicts]
  BY <1>0, <1>1 DEF Return, PCs
<1>2. \A file, u : Judged(file, u) \in Verdicts
  BY DEF Judged, Verdicts
<1>3. ASSUME NEW c \in Calls, Start(c)
      PROVE  CallTyped'
  <2> PICK u \in Paths : HostIsDown(c, u) \/ Cached(c, u) \/ Miss(c, u)
    BY <1>3 DEF Start
  <2>1. path' \in [Calls -> Paths]
    BY <1>0 DEF HostIsDown, Cached, Miss, Begin
  <2>2. CASE HostIsDown(c, u)
    BY <1>0, <1>1, <2>1, <2>2 DEF HostIsDown, Verdicts
  <2>3. CASE Cached(c, u)
    BY <1>0, <1>1, <1>2, <2>1, <2>3 DEF Cached
  <2>4. CASE Miss(c, u)
    BY <1>0, <2>1, <2>4 DEF Miss, PCs, Verdicts
  <2>. QED
    BY <2>2, <2>3, <2>4
<1>4. ASSUME NEW c \in Calls, SelectStatus(c)
      PROVE  CallTyped'
  BY <1>0, <1>4 DEF SelectStatus, PCs
<1>5. ASSUME NEW c \in Calls, SelectRules(c)
      PROVE  CallTyped'
  <2>1. RulesIn(stored) \subseteq Paths
    BY <1>0, RulesTyped DEF TablesTyped
  <2>. QED
    BY <1>0, <1>5, <2>1 DEF SelectRules, PCs
<1>6. ASSUME NEW c \in Calls, Decide(c)
      PROVE  CallTyped'
  BY <1>0, <1>1, <1>2, <1>6 DEF Decide
<1>7. ASSUME NEW c \in Calls, SelectFails(c) \/ FetchFails(c)
      PROVE  CallTyped'
  BY <1>0, <1>1, <1>7 DEF SelectFails, FetchFails, Verdicts
<1>8. ASSUME NEW c \in Calls, Fetch(c)
      PROVE  CallTyped'
  BY <1>0, <1>8 DEF Fetch, PCs, HostTyped
<1>9. ASSUME NEW c \in Calls, Upsert(c) \/ RollBack(c)
      PROVE  CallTyped'
  BY <1>0, <1>9 DEF Upsert, RollBack, PCs
<1>10. ASSUME NEW p \in Procs, Restart(p)
       PROVE  CallTyped'
  BY <1>0, <1>10 DEF Restart, PCs, Verdicts
<1>11. CASE UNCHANGED call
  BY <1>0, <1>11 DEF call
<1>. QED
  BY <1>3, <1>4, <1>5, <1>6, <1>7, <1>8, <1>9, <1>10, <1>11 DEF Next, Step, Delete,
     Deleted, Commit, Change, StatusAges, CacheExpires, PageTimesOut, vars

LEMMA TransStaysTyped == TypeOK /\ [Next]_vars => TransTyped'
<1> SUFFICES ASSUME TypeOK, [Next]_vars
             PROVE  TransTyped'
  OBVIOUS
<1> USE DEF TransTyped
<1>0. TablesTyped /\ TransTyped
  BY TypeParts
<1>1. ASSUME NEW c \in Calls, Fetch(c) \/ Deleted(c) \/ Upsert(c)
      PROVE  TransTyped'
  BY <1>0, <1>1 DEF Fetch, Deleted, Upsert, Txs
<1>2. ASSUME NEW c \in Calls, Delete(c)
      PROVE  TransTyped'
  BY <1>0, <1>2 DEF Delete, Txs, TablesTyped
<1>3. ASSUME NEW c \in Calls, Commit(c)
      PROVE  TransTyped'
  BY <1>0, <1>3 DEF Commit, Txs
<1>4. ASSUME NEW c \in Calls, RollBack(c)
      PROVE  TransTyped'
  BY <1>0, <1>4 DEF RollBack, Txs
<1>5. ASSUME NEW p \in Procs, Restart(p)
      PROVE  TransTyped'
  BY <1>0, <1>5 DEF Restart, Txs
<1>6. CASE UNCHANGED trans
  BY <1>0, <1>6 DEF trans
<1>. QED
  BY <1>1, <1>2, <1>3, <1>4, <1>5, <1>6 DEF Next, Start, Step, Begin, HostIsDown, Cached,
     Miss, SelectStatus, SelectRules, Decide, SelectFails, FetchFails, Change,
     StatusAges, CacheExpires, PageTimesOut, vars

\* The variables of every reachable state have the types TypeOK gives them.
THEOREM TypeCorrect == SafeSpec => []TypeOK
<1>1. TypeOK /\ [Next]_vars => TypeOK'
  <2> SUFFICES ASSUME TypeOK, [Next]_vars
               PROVE  TypeOK'
    OBVIOUS
  <2>1. HostTyped' /\ TablesTyped' /\ MemoryTyped' /\ CallTyped' /\ TransTyped'
    BY HostStaysTyped, TablesStayTyped, MemoryStaysTyped, CallStaysTyped, TransStaysTyped
  <2>. QED
    BY <2>1 DEF TypeOK, HostTyped, TablesTyped, MemoryTyped, CallTyped, TransTyped
<1>. QED
  BY InitTyped, <1>1, PTL DEF SafeSpec

-----------------------------------------------------------------------------
(* Where a call and its transaction are, together *)

Phases ==
    \A c \in Calls :
        /\ tx[c] \in {"begun", "waiting", "deleted"} <=> pc[c] = "store"
        /\ tx[c] = "closing" => pc[c] \in {"decide", "idle"}

\* A call and its transaction go through their steps together.
THEOREM PhasesHold == SafeSpec => []Phases
<1>1. Init => Phases
  BY DEF Init, Phases
<1>2. TypeOK /\ Phases /\ [Next]_vars => Phases'
  <2> SUFFICES ASSUME TypeOK, Phases, [Next]_vars
               PROVE  Phases'
    OBVIOUS
  <2> USE DEF Phases
  <2>0. pc \in [Calls -> PCs] /\ tx \in [Calls -> Txs]
    BY DEF TypeOK
  <2>1. ASSUME NEW c \in Calls, Start(c)
        PROVE  Phases'
    BY <2>0, <2>1 DEF Start, Begin, HostIsDown, Cached, Miss, Return, trans
  <2>2. ASSUME NEW c \in Calls,
               SelectStatus(c) \/ SelectRules(c) \/ Decide(c) \/ SelectFails(c) \/ FetchFails(c)
        PROVE  Phases'
    BY <2>0, <2>2 DEF SelectStatus, SelectRules, Decide, SelectFails, FetchFails, Return, trans
  <2>3. ASSUME NEW c \in Calls, Fetch(c)
        PROVE  Phases'
    BY <2>0, <2>3 DEF Fetch, Txs
  <2>4. ASSUME NEW c \in Calls, Delete(c) \/ Deleted(c) \/ Commit(c)
        PROVE  Phases'
    BY <2>0, <2>4 DEF Delete, Deleted, Commit, call
  <2>5. ASSUME NEW c \in Calls, Upsert(c) \/ RollBack(c)
        PROVE  Phases'
    BY <2>0, <2>5 DEF Upsert, RollBack
  <2>6. ASSUME NEW p \in Procs, Restart(p)
        PROVE  Phases'
    BY <2>0, <2>6 DEF Restart
  <2>7. CASE UNCHANGED <<call, trans>>
    BY <2>7 DEF call, trans
  <2>. QED
    BY <2>1, <2>2, <2>3, <2>4, <2>5, <2>6, <2>7 DEF Next, Step, Change, StatusAges,
       CacheExpires, PageTimesOut, vars
<1>. QED
  BY <1>1, <1>2, TypeCorrect, PTL DEF SafeSpec

-----------------------------------------------------------------------------
(* The tables keep the last refresh *)

\* A transaction that has run its DELETE leaves only rows of those it missed.
Inherited ==
    \A c \in Calls : HasDeleted(c) => \A r \in stored \ doomed[c] : r.by \in missed[c]

\* The rows that a refresh inserts.
NewRows(c, file) == {[rule |-> u, by |-> c] : u \in Rules(file)}

LEMMA NewRowsKnown ==
    ASSUME NEW c, NEW file
    PROVE  /\ \A r \in NewRows(c, file) : r.by = c
           /\ Rules(file) \subseteq RulesIn(NewRows(c, file))
<1>1. \A r \in NewRows(c, file) : r.by = c
  BY DEF NewRows
<1>2. ASSUME NEW u \in Rules(file)
      PROVE  u \in RulesIn(NewRows(c, file))
  <2>1. [rule |-> u, by |-> c] \in NewRows(c, file)
    BY DEF NewRows
  <2>2. [rule |-> u, by |-> c].rule = u
    OBVIOUS
  <2>. QED
    BY <2>1, <2>2 DEF RulesIn
<1>. QED
  BY <1>1, <1>2

LEMMA RulesInUnion ==
    ASSUME NEW rows, NEW more
    PROVE  RulesIn(rows \cup more) = RulesIn(rows) \cup RulesIn(more)
  BY DEF RulesIn

LEMMA InheritedStays == TypeOK /\ Inherited /\ [Next]_vars => Inherited'
<1> SUFFICES ASSUME TypeOK, Inherited, [Next]_vars
             PROVE  Inherited'
  OBVIOUS
<1> USE DEF Inherited, HasDeleted
<1>0. /\ tx \in [Calls -> Txs]
      /\ doomed \in [Calls -> SUBSET Rows]
      /\ missed \in [Calls -> SUBSET Calls]
  BY DEF TypeOK
<1>1. ASSUME NEW c \in Calls, Fetch(c) \/ Delete(c) \/ Deleted(c) \/ Upsert(c) \/ RollBack(c)
      PROVE  Inherited'
  BY <1>0, <1>1 DEF Fetch, Delete, Deleted, Upsert, RollBack, tables
<1>2. ASSUME NEW c \in Calls, Commit(c)
      PROVE  Inherited'
  <2> DEFINE new == NewRows(c, policy[c])
  <2> SUFFICES ASSUME NEW d \in Calls, HasDeleted(d)',
                      NEW r \in stored', r \notin doomed'[d]
               PROVE  r.by \in missed'[d]
    BY Zenon
  <2>1. d # c /\ HasDeleted(d)
    BY <1>0, <1>2 DEF Commit
  <2>2. missed'[d] = missed[d] \cup {c} /\ doomed'[d] = doomed[d] \ doomed[c]
    BY <1>2, <2>1 DEF Commit
  <2>3. stored' = (stored \ doomed[c]) \cup new
    BY <1>2 DEF Commit, NewRows
  <2>4. CASE r \in new
    <3>1. r.by = c
      BY <2>4, NewRowsKnown
    <3>. QED
      BY <2>2, <3>1
  <2>5. CASE r \in stored \ doomed[c]
    <3>1. r \in stored \ doomed[d]
      BY <2>2, <2>5
    <3>. QED
      BY <2>1, <2>2, <3>1
  <2>. QED
    BY <2>3, <2>4, <2>5
<1>3. ASSUME NEW p \in Procs, Restart(p)
      PROVE  Inherited'
  BY <1>0, <1>3 DEF Restart, tables
<1>4. CASE stored' = stored /\ UNCHANGED trans
  BY <1>4 DEF trans
<1>. QED
  BY <1>1, <1>2, <1>3, <1>4 DEF Next, Start, Step, Begin, HostIsDown, Cached, Miss,
     SelectStatus, SelectRules, Decide, SelectFails, FetchFails, Change, StatusAges,
     CacheExpires, PageTimesOut, tables, vars

LEMMA LastRefreshStays ==
    TypeOK /\ Inherited /\ LastRefreshIsStored /\ [Next]_vars => LastRefreshIsStored'
<1> SUFFICES ASSUME TypeOK, Inherited, LastRefreshIsStored, [Next]_vars
             PROVE  LastRefreshIsStored'
  OBVIOUS
<1> USE DEF LastRefreshIsStored
<1>1. ASSUME NEW c \in Calls, Commit(c)
      PROVE  LastRefreshIsStored'
  <2> DEFINE new == NewRows(c, policy[c])
  <2>1. /\ stored' = (stored \ doomed[c]) \cup new
        /\ last' = policy[c] /\ heirs' = {c} \cup missed[c]
        /\ status'.have <=> policy[c] # NoFile
    BY <1>1 DEF Commit, NewRows
  <2>2. Rules(last') \subseteq RulesIn(stored')
    <3>1. RulesIn(stored') = RulesIn(stored \ doomed[c]) \cup RulesIn(new)
      BY <2>1, RulesInUnion
    <3>2. Rules(last') \subseteq RulesIn(new)
      BY <2>1, NewRowsKnown
    <3>. QED
      BY <3>1, <3>2
  <2>3. HasDeleted(c)
    BY <1>1 DEF Commit, HasDeleted
  <2>4. \A r \in stored \ doomed[c] : r.by \in heirs'
    BY <2>1, <2>3 DEF Inherited
  <2>5. \A r \in new : r.by \in heirs'
    BY <2>1, NewRowsKnown
  <2>. QED
    BY <2>1, <2>2, <2>4, <2>5
<1>2. CASE StatusAges
  <2>1. status'.have = status.have
    BY <1>2 DEF StatusAges, TypeOK, StatusRows
  <2>2. stored' = stored /\ last' = last /\ heirs' = heirs /\ status # NoPolicy
    BY <1>2 DEF StatusAges
  <2>3. RulesIn(stored)' = RulesIn(stored) /\ Rules(last)' = Rules(last)
    BY <2>2 DEF RulesIn, Rules
  <2>. QED
    BY <2>1, <2>2, <2>3
<1>3. CASE UNCHANGED tables
  BY <1>3 DEF tables, RulesIn, Rules
<1>. QED
  BY <1>1, <1>2, <1>3 DEF Next, Start, Step, Begin, HostIsDown, Cached, Miss, SelectStatus,
     SelectRules, Decide, SelectFails, FetchFails, Fetch, Delete, Deleted, Upsert,
     RollBack, Change, CacheExpires, PageTimesOut, Restart, vars

\* However many refreshes run at once, and whichever of them fail, the tables
\* keep the one that committed last, with rules of others only where these
\* committed while it was under way.
THEOREM LastRefreshKept == SafeSpec => []LastRefreshIsStored
<1>1. Init => Inherited /\ LastRefreshIsStored
  BY DEF Init, Inherited, HasDeleted, LastRefreshIsStored, Rules
<1>. QED
  BY <1>1, TypeCorrect, InheritedStays, LastRefreshStays, PTL DEF SafeSpec

-----------------------------------------------------------------------------
(* Verdicts *)

\* A policy that leaves open only what some robots.txt has, and closes only
\* what some robots.txt has.
Covered(file) == Paths \ Rules(file) \subseteq opened /\ Rules(file) \subseteq closed

\* The policies in memory, in the tables and in the hands of calls.
CacheCovered  == \A p \in Procs : cache[p] # NoPolicy => Covered(cache[p])
TablesCovered ==
    /\ RulesIn(stored) \subseteq closed
    /\ status # NoPolicy => Covered(RulesIn(stored)) /\ Covered(last)
CallsCovered ==
    \A c \in Calls :
        /\ pc[c] \in {"store", "decide"} \/ tx[c] # "none" => Covered(policy[c])
        /\ pc[c] = "status" => policy[c] = {}
        /\ pc[c] = "rules" => status # NoPolicy

PoliciesCovered ==
    Covered(served) /\ CacheCovered /\ TablesCovered /\ CallsCovered /\ VerdictsWereServed

\* What is covered stays so: the host never un-serves a file.
LEMMA CoveredStays == ASSUME [Next]_vars, NEW file, Covered(file)
                      PROVE  Covered(file)'
<1>1. opened \subseteq opened' /\ closed \subseteq closed'
  BY DEF Next, Start, Step, Begin, HostIsDown, Cached, Miss, SelectStatus, SelectRules,
     Decide, SelectFails, FetchFails, Fetch, Delete, Deleted, Upsert, Commit, RollBack,
     Change, StatusAges, CacheExpires, PageTimesOut, Restart, host, vars
<1>. QED
  BY <1>1 DEF Covered

LEMMA JudgedByCovered ==
    ASSUME NEW file, Covered(file), NEW u \in Paths
    PROVE  /\ Judged(file, u) = "crawl" => u \in opened
           /\ Judged(file, u) = "refuse" => u \in closed
  BY DEF Covered, Judged

LEMMA ServedStays == TypeOK /\ PoliciesCovered /\ [Next]_vars => Covered(served)'
<1> SUFFICES ASSUME TypeOK, PoliciesCovered, [Next]_vars
             PROVE  Covered(served)'
  OBVIOUS
<1>1. CASE Change
  BY <1>1 DEF Change, Covered
<1>2. CASE served' = served
  BY <1>2, CoveredStays DEF PoliciesCovered
<1>. QED
  BY <1>1, <1>2 DEF Next, Start, Step, Begin, HostIsDown, Cached, Miss, SelectStatus,
     SelectRules, Decide, SelectFails, FetchFails, Fetch, Delete, Deleted, Upsert,
     Commit, RollBack, StatusAges, CacheExpires, PageTimesOut, Restart, host, vars

LEMMA CacheStays == TypeOK /\ PoliciesCovered /\ [Next]_vars => CacheCovered'
<1> SUFFICES ASSUME TypeOK, PoliciesCovered, [Next]_vars,
                    NEW p \in Procs, cache'[p] # NoPolicy
             PROVE  Covered(cache[p])'
  BY DEF CacheCovered
<1>0. cache \in [Procs -> {NoPolicy} \cup SUBSET Paths]
  BY DEF TypeOK
<1>1. CASE cache'[p] = cache[p]
  <2>1. Covered(cache[p])
    BY <1>1 DEF PoliciesCovered, CacheCovered
  <2>2. \A file : Covered(file) => Covered(file)'
    BY CoveredStays
  <2>. QED
    BY <1>1, <2>1, <2>2 DEF Covered
<1>2. ASSUME NEW c \in Calls, Decide(c), cache'[p] # cache[p]
      PROVE  Covered(cache[p])'
  <2>1. cache'[p] = Rules(policy[c]) /\ pc[c] = "decide"
    BY <1>0, <1>2 DEF Decide
  <2>2. Rules(Rules(policy[c])) = Rules(policy[c])
    BY ConstantsAssumption DEF Rules, ConstantsAssumption
  <2>3. Covered(policy[c])
    BY <2>1 DEF PoliciesCovered, CallsCovered
  <2>4. opened \subseteq opened' /\ closed \subseteq closed'
    BY <1>2 DEF Decide, host
  <2>. QED
    BY <2>1, <2>2, <2>3, <2>4 DEF Covered
<1>3. ASSUME NEW q \in Procs, CacheExpires(q) \/ Restart(q)
      PROVE  cache'[p] = cache[p]
  BY <1>0, <1>3 DEF CacheExpires, Restart
<1>. QED
  BY <1>1, <1>2, <1>3 DEF Next, Start, Step, Begin, HostIsDown, Cached, Miss,
     SelectStatus, SelectRules, SelectFails, FetchFails, Fetch, Delete, Deleted,
     Upsert, Commit, RollBack, Change, StatusAges, PageTimesOut, memory, vars

LEMMA TablesStay == TypeOK /\ PoliciesCovered /\ [Next]_vars => TablesCovered'
<1> SUFFICES ASSUME TypeOK, PoliciesCovered, [Next]_vars
             PROVE  TablesCovered'
  OBVIOUS
<1>0. TablesCovered /\ CallsCovered
  BY DEF PoliciesCovered
<1>1. ASSUME NEW c \in Calls, Commit(c)
      PROVE  TablesCovered'
  <2> DEFINE new == NewRows(c, policy[c])
  <2>1. /\ stored' = (stored \ doomed[c]) \cup new /\ last' = policy[c]
        /\ opened' = opened /\ closed' = closed
    BY <1>1 DEF Commit, NewRows, host
  <2>2. Covered(policy[c])
    BY <1>0, <1>1 DEF CallsCovered, Commit
  <2>3. RulesIn(stored') = RulesIn(stored \ doomed[c]) \cup RulesIn(new)
    BY <2>1, RulesInUnion
  <2>4. RulesIn(new) = Rules(policy[c]) /\ RulesIn(stored \ doomed[c]) \subseteq RulesIn(stored)
    <3>1. RulesIn(new) \subseteq Rules(policy[c])
      BY DEF NewRows, RulesIn
    <3>2. RulesIn(stored \ doomed[c]) \subseteq RulesIn(stored)
      BY DEF RulesIn
    <3>. QED
      BY <3>1, <3>2, NewRowsKnown
  <2>5. RulesIn(stored') \subseteq closed /\ Paths \ RulesIn(stored') \subseteq opened
    BY <1>0, <2>2, <2>3, <2>4 DEF TablesCovered, Covered
  <2>6. RulesIn(stored') \in SUBSET Paths
    BY <2>1, TablesStayTyped, RulesTyped DEF TablesTyped
  <2>7. Rules(RulesIn(stored')) = RulesIn(stored')
    BY <2>6, RulesTyped
  <2>. QED
    BY <2>1, <2>2, <2>5, <2>7 DEF TablesCovered, Covered
<1>2. CASE stored' = stored /\ last' = last /\ (status' # NoPolicy => status # NoPolicy)
  <2>1. RulesIn(stored') = RulesIn(stored) /\ Rules(last') = Rules(last)
    BY <1>2 DEF RulesIn
  <2>2. opened \subseteq opened' /\ closed \subseteq closed'
    BY DEF Next, Start, Step, Begin, HostIsDown, Cached, Miss, SelectStatus, SelectRules,
       Decide, SelectFails, FetchFails, Fetch, Delete, Deleted, Upsert, Commit, RollBack,
       Change, StatusAges, CacheExpires, PageTimesOut, Restart, host, vars
  <2>3. Rules(RulesIn(stored')) = Rules(RulesIn(stored))
    BY <2>1
  <2>. QED
    BY <1>0, <1>2, <2>1, <2>2, <2>3 DEF TablesCovered, Covered
<1>. QED
  BY <1>1, <1>2 DEF Next, Start, Step, Begin, HostIsDown, Cached, Miss, SelectStatus,
     SelectRules, Decide, SelectFails, FetchFails, Fetch, Delete, Deleted, Upsert,
     RollBack, Change, StatusAges, CacheExpires, PageTimesOut, Restart, tables, vars

LEMMA RowIsNoPolicy == NoPolicy \notin StatusRows
  BY ConstantsAssumption DEF ConstantsAssumption, StatusRows

LEMMA CallsStay ==
    TypeOK /\ Phases /\ LastRefreshIsStored /\ PoliciesCovered /\ [Next]_vars => CallsCovered'
<1> SUFFICES ASSUME TypeOK, Phases, LastRefreshIsStored, PoliciesCovered, [Next]_vars,
                    NEW d \in Calls
             PROVE  /\ pc'[d] \in {"store", "decide"} \/ tx'[d] # "none" => Covered(policy[d])'
                    /\ pc'[d] = "status" => policy'[d] = {}
                    /\ pc'[d] = "rules" => status' # NoPolicy
  BY DEF CallsCovered
<1> DEFINE Goal == /\ pc'[d] \in {"store", "decide"} \/ tx'[d] # "none" => Covered(policy[d])'
                   /\ pc'[d] = "status" => policy'[d] = {}
                   /\ pc'[d] = "rules" => status' # NoPolicy
<1> SUFFICES Goal
  OBVIOUS
<1>0. /\ pc \in [Calls -> PCs] /\ tx \in [Calls -> Txs]
      /\ policy \in [Calls -> {NoFile} \cup SUBSET Paths]
      /\ status \in StatusRows \cup {NoPolicy} /\ stored \subseteq Rows
  BY DEF TypeOK
<1>1. /\ pc[d] \in {"store", "decide"} \/ tx[d] # "none" => Covered(policy[d])
      /\ pc[d] = "status" => policy[d] = {}
      /\ pc[d] = "rules" => status # NoPolicy
  BY DEF PoliciesCovered, CallsCovered
<1>2. opened \subseteq opened' /\ closed \subseteq closed'
  BY DEF Next, Start, Step, Begin, HostIsDown, Cached, Miss, SelectStatus, SelectRules,
     Decide, SelectFails, FetchFails, Fetch, Delete, Deleted, Upsert, Commit, RollBack,
     Change, StatusAges, CacheExpires, PageTimesOut, Restart, host, vars
\* A call that did not move, or moved within the part where it holds a policy.
<1>3. CASE /\ policy'[d] = policy[d]
           /\ pc'[d] \in {"store", "decide"} \/ tx'[d] # "none" =>
                 pc[d] \in {"store", "decide"} \/ tx[d] # "none"
           /\ pc'[d] \in {"status", "rules"} => pc'[d] = pc[d]
           /\ status' = NoPolicy => status = NoPolicy
  BY <1>1, <1>2, <1>3 DEF Covered
<1>4. ASSUME NEW c \in Calls, Start(c)
      PROVE  Goal
  <2>1. tx' = tx /\ policy \in [Calls -> {NoFile} \cup SUBSET Paths] /\ status' = status /\ tx[c] = "none"
    BY <1>0, <1>4 DEF Start, Begin, HostIsDown, Cached, Miss, trans, tables
  <2>2. CASE d # c
    BY <1>0, <1>3, <1>4, <2>1, <2>2 DEF Start, HostIsDown, Cached, Miss, Return
  <2>3. CASE d = c
    BY <1>0, <1>4, <2>1, <2>3 DEF Start, HostIsDown, Cached, Miss, Return
  <2>. QED
    BY <2>2, <2>3
<1>5. ASSUME NEW c \in Calls, SelectStatus(c)
      PROVE  Goal
  <2>1. tx' = tx /\ policy' = policy /\ status' = status
    BY <1>5 DEF SelectStatus, trans, tables
  <2>2. CASE d # c
    BY <1>0, <1>3, <1>5, <2>1, <2>2 DEF SelectStatus
  <2>3. CASE d = c
    <3>1. tx[d] = "none" /\ pc[d] = "status" /\ policy[d] = {}
      BY <1>0, <1>1, <1>5, <2>3 DEF SelectStatus, Phases, Txs
    <3>2. pc'[d] \in {"fetch", "rules", "decide"} /\ (pc'[d] = "rules" => status # NoPolicy)
      BY <1>0, <1>5, <2>3 DEF SelectStatus
    <3>3. ASSUME pc'[d] = "decide"
          PROVE  Covered(policy[d])'
      <4>1. status # NoPolicy /\ ~status.have
        BY <1>0, <1>5, <2>3, <3>3 DEF SelectStatus, StatusRows
      <4>2. last = NoFile /\ Covered(last)
        BY <4>1 DEF LastRefreshIsStored, PoliciesCovered, TablesCovered
      <4>3. Rules(NoFile) = {} /\ Rules({}) = {}
        BY DEF Rules
      <4>. QED
        BY <1>2, <2>1, <3>1, <4>2, <4>3 DEF Covered
    <3>. QED
      BY <2>1, <3>1, <3>2, <3>3
  <2>. QED
    BY <2>2, <2>3
<1>6. ASSUME NEW c \in Calls, SelectRules(c)
      PROVE  Goal
  <2>1. tx' = tx /\ status' = status /\ stored' = stored
    BY <1>6 DEF SelectRules, trans, tables
  <2>2. CASE d # c
    BY <1>0, <1>3, <1>6, <2>1, <2>2 DEF SelectRules
  <2>3. CASE d = c
    <3>1. status # NoPolicy /\ policy'[d] = RulesIn(stored) /\ pc'[d] = "decide"
      BY <1>0, <1>1, <1>6, <2>3 DEF SelectRules
    <3>2. Covered(RulesIn(stored))
      BY <3>1 DEF PoliciesCovered, TablesCovered
    <3>. QED
      BY <1>2, <3>1, <3>2 DEF Covered
  <2>. QED
    BY <2>2, <2>3
<1>7. ASSUME NEW c \in Calls, Fetch(c)
      PROVE  Goal
  <2>1. status' = status
    BY <1>7 DEF Fetch, tables
  <2>2. CASE d # c
    BY <1>0, <1>3, <1>7, <2>1, <2>2 DEF Fetch
  <2>3. CASE d = c
    <3>1. policy'[d] = served /\ pc'[d] = "store"
      BY <1>0, <1>7, <2>3 DEF Fetch
    <3>. QED
      BY <1>2, <3>1 DEF PoliciesCovered, Covered
  <2>. QED
    BY <2>2, <2>3
<1>8. ASSUME NEW c \in Calls, Decide(c) \/ SelectFails(c) \/ FetchFails(c)
      PROVE  Goal
  BY <1>0, <1>3, <1>8 DEF Decide, SelectFails, FetchFails, Return, trans, tables
<1>9. ASSUME NEW c \in Calls, Delete(c) \/ Deleted(c)
      PROVE  Goal
  BY <1>0, <1>3, <1>9 DEF Delete, Deleted, call, tables
<1>10. ASSUME NEW c \in Calls, Upsert(c) \/ RollBack(c)
       PROVE  Goal
  BY <1>0, <1>3, <1>10 DEF Upsert, RollBack, tables
<1>11. ASSUME NEW c \in Calls, Commit(c)
       PROVE  Goal
  <2>1. status' \in StatusRows
    BY <1>11 DEF Commit, StatusRows
  <2>2. status' # NoPolicy
    BY <2>1, RowIsNoPolicy
  <2>. QED
    BY <1>0, <1>3, <1>11, <2>2 DEF Commit, call
<1>12. ASSUME NEW p \in Procs, Restart(p)
       PROVE  Goal
  <2>1. CASE ProcOf[d] = p
    BY <1>12, <2>1 DEF Restart
  <2>2. CASE ProcOf[d] # p
    BY <1>3, <1>12, <2>2 DEF Restart, tables
  <2>. QED
    BY <2>1, <2>2
<1>13. CASE UNCHANGED <<call, trans>> /\ (status' = NoPolicy => status = NoPolicy)
  BY <1>3, <1>13 DEF call, trans
<1>14. CASE StatusAges
  <2>1. status' \in StatusRows
    BY <1>0, <1>14 DEF StatusAges, StatusRows
  <2>2. status' # NoPolicy
    BY <2>1, RowIsNoPolicy
  <2>. QED
    BY <1>13, <1>14, <2>2 DEF StatusAges
<1>. QED
  BY <1>4, <1>5, <1>6, <1>7, <1>8, <1>9, <1>10, <1>11, <1>12, <1>13, <1>14 DEF Next, Step,
     Change, CacheExpires, PageTimesOut, tables, vars

LEMMA VerdictsStay ==
    TypeOK /\ PoliciesCovered /\ [Next]_vars => VerdictsWereServed'
<1> SUFFICES ASSUME TypeOK, PoliciesCovered, [Next]_vars, NEW d \in Calls
             PROVE  /\ verdict'[d] = "crawl" => path'[d] \in opened'
                    /\ verdict'[d] = "refuse" => path'[d] \in closed'
  BY DEF VerdictsWereServed
<1> DEFINE Goal == /\ verdict'[d] = "crawl" => path'[d] \in opened'
                   /\ verdict'[d] = "refuse" => path'[d] \in closed'
<1> SUFFICES Goal
  OBVIOUS
<1>0. /\ path \in [Calls -> Paths] /\ verdict \in [Calls -> Verdicts]
      /\ pc \in [Calls -> PCs] /\ ProcOf \in [Calls -> Procs]
  BY ConstantsAssumption DEF TypeOK, ConstantsAssumption
<1>1. opened \subseteq opened' /\ closed \subseteq closed'
  BY DEF Next, Start, Step, Begin, HostIsDown, Cached, Miss, SelectStatus, SelectRules,
     Decide, SelectFails, FetchFails, Fetch, Delete, Deleted, Upsert, Commit, RollBack,
     Change, StatusAges, CacheExpires, PageTimesOut, Restart, host, vars
<1>2. CASE verdict'[d] = verdict[d] /\ path'[d] = path[d]
  BY <1>1, <1>2 DEF PoliciesCovered, VerdictsWereServed
<1>3. CASE verdict'[d] \notin {"crawl", "refuse"}
  BY <1>3
<1>4. ASSUME NEW c \in Calls, NEW u \in Paths, Cached(c, u)
      PROVE  Goal
  <2>1. CASE d # c
    BY <1>0, <1>2, <1>4, <2>1 DEF Cached, Begin, Return
  <2>2. CASE d = c
    <3>1. verdict'[d] = Judged(cache[ProcOf[c]], u) /\ path'[d] = u
      BY <1>0, <1>4, <2>2 DEF Cached, Begin, Return
    <3>2. Covered(cache[ProcOf[c]])
      BY <1>0, <1>4 DEF Cached, PoliciesCovered, CacheCovered
    <3>. QED
      BY <1>1, <3>1, <3>2, JudgedByCovered
  <2>. QED
    BY <2>1, <2>2
<1>5. ASSUME NEW c \in Calls, Decide(c)
      PROVE  Goal
  <2>1. CASE d # c
    BY <1>0, <1>2, <1>5, <2>1 DEF Decide, Return
  <2>2. CASE d = c
    <3>1. verdict'[d] = Judged(policy[d], path[d]) /\ path'[d] = path[d]
      BY <1>0, <1>5, <2>2 DEF Decide, Return
    <3>2. Covered(policy[d]) /\ path[d] \in Paths
      BY <1>0, <1>5, <2>2 DEF Decide, PoliciesCovered, CallsCovered
    <3>. QED
      BY <1>1, <3>1, <3>2, JudgedByCovered
  <2>. QED
    BY <2>1, <2>2
<1>6. ASSUME NEW c \in Calls, NEW u \in Paths, HostIsDown(c, u) \/ Miss(c, u)
      PROVE  Goal
  BY <1>0, <1>2, <1>3, <1>6 DEF HostIsDown, Miss, Begin, Return
<1>7. ASSUME NEW c \in Calls, SelectFails(c) \/ FetchFails(c)
      PROVE  Goal
  BY <1>0, <1>2, <1>3, <1>7 DEF SelectFails, FetchFails, Return
<1>8. ASSUME NEW p \in Procs, Restart(p)
      PROVE  Goal
  BY <1>0, <1>2, <1>3, <1>8 DEF Restart
<1>9. CASE verdict' = verdict /\ path' = path
  BY <1>2, <1>9
<1>. QED
  BY <1>4, <1>5, <1>6, <1>7, <1>8, <1>9 DEF Next, Start, Step, SelectStatus, SelectRules,
     Fetch, Delete, Deleted, Upsert, Commit, RollBack, Change, StatusAges,
     CacheExpires, PageTimesOut, call, vars

\* Whatever calls, refreshes and failures interleave, a call that could ask the
\* host judges a path as some robots.txt of the host has.
THEOREM VerdictsServed == SafeSpec => []VerdictsWereServed
<1>1. Init => PoliciesCovered
  <2> SUFFICES ASSUME Init
               PROVE  PoliciesCovered
    OBVIOUS
  <2>1. Covered(served)
    BY DEF Init, Covered
  <2>2. CacheCovered /\ VerdictsWereServed
    BY DEF Init, CacheCovered, VerdictsWereServed
  <2>3. TablesCovered
    BY DEF Init, TablesCovered, RulesIn
  <2>4. CallsCovered
    BY DEF Init, CallsCovered
  <2>. QED
    BY <2>1, <2>2, <2>3, <2>4 DEF PoliciesCovered
<1>2. TypeOK /\ Phases /\ LastRefreshIsStored /\ PoliciesCovered /\ [Next]_vars => PoliciesCovered'
  <2> SUFFICES ASSUME TypeOK, Phases, LastRefreshIsStored, PoliciesCovered, [Next]_vars
               PROVE  PoliciesCovered'
    OBVIOUS
  <2>1. Covered(served)' /\ CacheCovered' /\ TablesCovered' /\ CallsCovered' /\ VerdictsWereServed'
    BY ServedStays, CacheStays, TablesStay, CallsStay, VerdictsStay
  <2>. QED
    BY <2>1 DEF PoliciesCovered
<1>3. PoliciesCovered => VerdictsWereServed
  BY DEF PoliciesCovered
<1>. QED
  BY <1>1, <1>2, <1>3, TypeCorrect, PhasesHold, LastRefreshKept, PTL DEF SafeSpec

-----------------------------------------------------------------------------
(* A refresh that no other overlaps *)

\* The tables hold the robots.txt of the last refresh and nothing else, when no
\* other refresh committed while it was under way.
LoneRefreshIsExact == \A c \in Calls : heirs = {c} => RulesIn(stored) = Rules(last)

\* A refresh has not missed itself.
MissesOthers == \A c \in Calls : c \notin missed[c]

LEMMA MissesOthersStays == TypeOK /\ MissesOthers /\ [Next]_vars => MissesOthers'
<1> SUFFICES ASSUME TypeOK, MissesOthers, [Next]_vars
             PROVE  MissesOthers'
  OBVIOUS
<1> USE DEF MissesOthers
<1>0. missed \in [Calls -> SUBSET Calls]
  BY DEF TypeOK
<1>1. ASSUME NEW c \in Calls, Commit(c)
      PROVE  MissesOthers'
  BY <1>0, <1>1 DEF Commit
<1>2. ASSUME NEW c \in Calls, RollBack(c)
      PROVE  MissesOthers'
  BY <1>0, <1>2 DEF RollBack
<1>3. ASSUME NEW p \in Procs, Restart(p)
      PROVE  MissesOthers'
  BY <1>0, <1>3 DEF Restart
<1>4. CASE missed' = missed
  BY <1>4
<1>. QED
  BY <1>1, <1>2, <1>3, <1>4 DEF Next, Start, Step, Begin, HostIsDown, Cached, Miss,
     SelectStatus, SelectRules, Decide, SelectFails, FetchFails, Fetch, Delete, Deleted,
     Upsert, Change, StatusAges, CacheExpires, PageTimesOut, trans, vars

LEMMA LoneRefreshStays ==
    TypeOK /\ Inherited /\ MissesOthers /\ LoneRefreshIsExact /\ [Next]_vars => LoneRefreshIsExact'
<1> SUFFICES ASSUME TypeOK, Inherited, MissesOthers, LoneRefreshIsExact, [Next]_vars
             PROVE  LoneRefreshIsExact'
  OBVIOUS
<1>1. ASSUME NEW c \in Calls, Commit(c), NEW d \in Calls, heirs' = {d}
      PROVE  RulesIn(stored') = Rules(last')
  <2>1. /\ stored' = (stored \ doomed[c]) \cup NewRows(c, policy[c])
        /\ last' = policy[c] /\ heirs' = {c} \cup missed[c]
    BY <1>1 DEF Commit, NewRows
  <2>2. missed[c] = {}
    BY <1>1, <2>1 DEF MissesOthers, TypeOK
  <2>3. stored \ doomed[c] = {}
    <3>1. HasDeleted(c)
      BY <1>1 DEF Commit, HasDeleted
    <3>. QED
      BY <2>2, <3>1 DEF Inherited
  <2>4. RulesIn(NewRows(c, policy[c])) = Rules(policy[c])
    <3>1. RulesIn(NewRows(c, policy[c])) \subseteq Rules(policy[c])
      BY DEF RulesIn, NewRows
    <3>. QED
      BY <3>1, NewRowsKnown
  <2>5. stored' = NewRows(c, policy[c])
    BY <2>1, <2>3
  <2>. QED
    BY <2>1, <2>4, <2>5
<1>2. CASE stored' = stored /\ last' = last /\ heirs' = heirs
  <2>1. RulesIn(stored') = RulesIn(stored) /\ Rules(last') = Rules(last)
    BY <1>2
  <2>. QED
    BY <1>2, <2>1 DEF LoneRefreshIsExact
<1>3. ASSUME NEW c \in Calls, Commit(c)
      PROVE  LoneRefreshIsExact'
  BY <1>1, <1>3 DEF LoneRefreshIsExact
<1>. QED
  BY <1>2, <1>3 DEF Next, Start, Step, Begin, HostIsDown, Cached, Miss, SelectStatus,
     SelectRules, Decide, SelectFails, FetchFails, Fetch, Delete, Deleted, Upsert, RollBack,
     Change, StatusAges, CacheExpires, PageTimesOut, Restart, tables, vars

\* Two refreshes at once may leave the rules of both (RefreshesDoNotMix, which
\* does not hold).  That is the only way: a refresh during which no other one
\* commits leaves the rules it has read and no others, whatever was in the
\* tables before, and whatever failed.
THEOREM LoneRefreshExact == SafeSpec => []LoneRefreshIsExact
<1>1. Init => MissesOthers
  BY DEF Init, MissesOthers
<1>2. Init => Inherited
  BY DEF Init, Inherited, HasDeleted
<1>3. Init => LoneRefreshIsExact
  BY DEF Init, LoneRefreshIsExact
<1>. QED
  BY <1>1, <1>2, <1>3, TypeCorrect, InheritedStays, MissesOthersStays, LoneRefreshStays,
     PTL DEF SafeSpec
-----------------------------------------------------------------------------
(* The steps that are left *)

\* How far a label is from "idle" at most, and the state of a transaction from
\* "none".
Cost == [label \in PCs |->
            CASE label = "idle" -> 0
              [] label \in {"decide", "store"} -> 1
              [] label = "rules"  -> 2
              [] label = "fetch"  -> 6
              [] label = "status" -> 7]
TxCost == [state \in Txs |->
            CASE state = "none" -> 0
              [] state = "closing" -> 1
              [] state = "deleted" -> 2
              [] state = "waiting" -> 3
              [] state = "begun"   -> 4]

LEMMA Costs ==
    /\ \A label \in PCs : Cost[label] \in 0..7
    /\ Cost["idle"] = 0 /\ Cost["decide"] = 1 /\ Cost["store"] = 1 /\ Cost["rules"] = 2
    /\ Cost["fetch"] = 6 /\ Cost["status"] = 7
    /\ \A state \in Txs : TxCost[state] \in 0..4
    /\ TxCost["none"] = 0 /\ TxCost["closing"] = 1 /\ TxCost["deleted"] = 2
    /\ TxCost["waiting"] = 3 /\ TxCost["begun"] = 4
  BY DEF Cost, PCs, TxCost, Txs

\* The steps that a call and its transaction have before them.
Left(c) == Cost[pc[c]] + TxCost[tx[c]]

\* Every step of a call or of its transaction, a failure included, brings both
\* nearer to their end.  Nothing else brings them farther away but that a call is
\* made, when both are over.
CallRunsDown ==
    \A c \in Calls :
        /\ Left(c) \in 0..7
        /\ Step(c) \/ SelectFails(c) \/ FetchFails(c) \/ RollBack(c) => Left(c)' < Left(c)
        /\ Left(c)' > Left(c) => Start(c) /\ Left(c) = 0

FewLeft == \A c \in Calls : Left(c) \in 0..7

LEMMA LeftIsBounded == TypeOK /\ Phases => FewLeft
<1> SUFFICES ASSUME TypeOK, Phases, NEW c \in Calls
             PROVE  Left(c) \in 0..7
  BY DEF FewLeft
<1>1. pc[c] \in PCs /\ tx[c] \in Txs
  BY DEF TypeOK
<1>2. Cost[pc[c]] \in 0..7 /\ TxCost[tx[c]] \in 0..4
  BY <1>1, Costs
<1>3. CASE pc[c] \in {"idle", "decide", "store"}
  BY <1>2, <1>3, Costs DEF Left
<1>4. CASE tx[c] = "none"
  BY <1>2, <1>4, Costs DEF Left
<1>5. pc[c] \in {"idle", "decide", "store"} \/ tx[c] = "none"
  BY <1>1 DEF Phases, Txs
<1>. QED
  BY <1>3, <1>4, <1>5

\* One label or one state changes, and those of no other call.
LEMMA StepIsOwn ==
    ASSUME TypeOK, Phases, NEW c \in Calls,
           Step(c) \/ SelectFails(c) \/ FetchFails(c) \/ RollBack(c)
    PROVE  /\ \A d \in Calls \ {c} : pc'[d] = pc[d] /\ tx'[d] = tx[d]
           /\ Left(c)' < Left(c)
<1>0. pc \in [Calls -> PCs] /\ tx \in [Calls -> Txs]
  BY DEF TypeOK
<1>1. Cost[pc[c]] \in Nat /\ TxCost[tx[c]] \in Nat
  BY <1>0, Costs
<1> DEFINE Goal == /\ \A d \in Calls \ {c} : pc'[d] = pc[d] /\ tx'[d] = tx[d]
                   /\ Cost[pc'[c]] + TxCost[tx'[c]] < Cost[pc[c]] + TxCost[tx[c]]
<1> SUFFICES Goal
  BY DEF Left
<1>2. CASE SelectStatus(c)
  <2>1. PICK label \in {"fetch", "rules", "decide"} : pc' = [pc EXCEPT ![c] = label]
    BY <1>2 DEF SelectStatus
  <2>2. pc[c] = "status" /\ tx' = tx /\ pc'[c] = label
    BY <1>0, <1>2, <2>1 DEF SelectStatus, trans
  <2>. QED
    BY <1>0, <1>1, <2>1, <2>2, Costs
<1>3. CASE SelectRules(c)
  <2>1. pc[c] = "rules" /\ pc' = [pc EXCEPT ![c] = "decide"] /\ tx' = tx
    BY <1>3 DEF SelectRules, trans
  <2>. QED
    BY <1>0, <1>1, <2>1, Costs
<1>4. CASE Decide(c) \/ SelectFails(c) \/ FetchFails(c)
  <2>1. pc[c] \in {"decide", "status", "rules", "fetch"} /\ pc' = [pc EXCEPT ![c] = "idle"] /\ tx' = tx
    BY <1>4 DEF Decide, SelectFails, FetchFails, Return, trans
  <2>. QED
    BY <1>0, <1>1, <2>1, Costs
<1>5. CASE Fetch(c)
  <2>1. pc[c] = "fetch" /\ pc' = [pc EXCEPT ![c] = "store"] /\ tx' = [tx EXCEPT ![c] = "begun"]
    BY <1>5 DEF Fetch
  <2>. QED
    BY <1>0, <1>1, <2>1, Costs
<1>6. CASE Delete(c)
  <2>1. tx[c] = "begun" /\ tx' = [tx EXCEPT ![c] = "waiting"] /\ pc' = pc
    BY <1>6 DEF Delete, call
  <2>. QED
    BY <1>0, <1>1, <2>1, Costs
<1>7. CASE Deleted(c)
  <2>1. tx[c] = "waiting" /\ tx' = [tx EXCEPT ![c] = "deleted"] /\ pc' = pc
    BY <1>7 DEF Deleted, call
  <2>. QED
    BY <1>0, <1>1, <2>1, Costs
<1>8. CASE Upsert(c)
  <2>1. tx[c] = "deleted" /\ tx' = [tx EXCEPT ![c] = "closing"] /\ pc' = [pc EXCEPT ![c] = "decide"]
    BY <1>8 DEF Upsert
  <2>2. pc[c] = "store"
    BY <2>1 DEF Phases
  <2>. QED
    BY <1>0, <2>1, <2>2, Costs
<1>9. CASE Commit(c)
  <2>1. tx[c] = "closing" /\ tx' = [tx EXCEPT ![c] = "none"] /\ pc' = pc
    BY <1>9 DEF Commit, call
  <2>. QED
    BY <1>0, <1>1, <2>1, Costs
<1>10. CASE RollBack(c)
  <2>1. PICK label \in PCs : /\ pc' = [pc EXCEPT ![c] = label]
                             /\ label = IF pc[c] = "store" THEN "decide" ELSE pc[c]
    BY <1>0, <1>10 DEF RollBack, PCs
  <2>2. tx[c] # "none" /\ tx' = [tx EXCEPT ![c] = "none"]
    BY <1>10 DEF RollBack
  <2>3. Cost[label] = Cost[pc[c]]
    BY <2>1, Costs
  <2>4. TxCost[tx[c]] > 0
    BY <1>0, <2>2, Costs DEF Txs
  <2>. QED
    BY <1>0, <1>1, <2>1, <2>2, <2>3, <2>4, Costs
<1>. QED
  BY <1>2, <1>3, <1>4, <1>5, <1>6, <1>7, <1>8, <1>9, <1>10 DEF Step

LEMMA CallsRunDown == TypeOK /\ Phases /\ FewLeft /\ FewLeft' /\ [Next]_vars => CallRunsDown
<1> SUFFICES ASSUME TypeOK, Phases, FewLeft, FewLeft', [Next]_vars, NEW c \in Calls
             PROVE  /\ Left(c) \in 0..7
                    /\ Step(c) \/ SelectFails(c) \/ FetchFails(c) \/ RollBack(c) => Left(c)' < Left(c)
                    /\ Left(c)' > Left(c) => Start(c) /\ Left(c) = 0
  BY DEF CallRunsDown
<1> DEFINE Goal == Left(c)' > Left(c) => Start(c) /\ Left(c) = 0
<1>0. pc \in [Calls -> PCs] /\ tx \in [Calls -> Txs]
  BY DEF TypeOK
<1>1. Left(c) \in 0..7 /\ Left(c)' \in 0..7
  BY DEF FewLeft
<1>2. Step(c) \/ SelectFails(c) \/ FetchFails(c) \/ RollBack(c) => Left(c)' < Left(c)
  BY StepIsOwn
<1>3. CASE pc'[c] = pc[c] /\ tx'[c] = tx[c]
  <2>1. Left(c)' = Left(c)
    BY <1>3 DEF Left
  <2>. QED
    BY <1>1, <1>2, <2>1
<1>4. ASSUME NEW d \in Calls, Step(d) \/ SelectFails(d) \/ FetchFails(d) \/ RollBack(d)
      PROVE  Goal
  <2>1. CASE c = d
    BY <1>1, <1>2, <1>4, <2>1
  <2>2. CASE c # d
    BY <1>3, <1>1, <2>2, <1>4, StepIsOwn
  <2>. QED
    BY <2>1, <2>2
<1>5. ASSUME NEW d \in Calls, Start(d)
      PROVE  Goal
  <2>1. PICK label \in PCs : pc' = [pc EXCEPT ![d] = label]
    BY <1>5 DEF Start, HostIsDown, Cached, Miss, Return, PCs
  <2>2. pc[d] = "idle" /\ tx[d] = "none" /\ tx' = tx
    BY <1>5 DEF Start, HostIsDown, Cached, Miss, Begin, trans
  <2>3. CASE c = d
    <3>1. Left(c) = 0
      BY <2>2, <2>3, Costs DEF Left
    <3>. QED
      BY <3>1, <2>3, <1>5
  <2>4. CASE c # d
    BY <1>0, <1>1, <1>3, <2>1, <2>2, <2>4
  <2>. QED
    BY <2>3, <2>4
<1>6. ASSUME NEW p \in Procs, Restart(p)
      PROVE  Goal
  <2>1. CASE ProcOf[c] = p
    <3>1. pc'[c] = "idle" /\ tx'[c] = "none"
      BY <1>0, <1>6, <2>1 DEF Restart
    <3>2. Left(c)' = 0
      BY <3>1, Costs DEF Left
    <3>. QED
      BY <1>1, <3>2
  <2>2. CASE ProcOf[c] # p
    <3>1. pc'[c] = pc[c] /\ tx'[c] = tx[c]
      BY <1>0, <1>6, <2>2 DEF Restart
    <3>. QED
      BY <1>1, <1>3, <3>1
  <2>. QED
    BY <2>1, <2>2
<1>7. CASE UNCHANGED <<call, trans>>
  <2>1. pc' = pc /\ tx' = tx
    BY <1>7 DEF call, trans
  <2>. QED
    BY <1>1, <1>3, <2>1
<1>8. Goal
  BY <1>4, <1>5, <1>6, <1>7 DEF Next, Change, StatusAges, CacheExpires, PageTimesOut, vars
<1>. QED
  BY <1>1, <1>2, <1>8

\* CallRunsDown, in every step: once it is made, a call of shouldCrawl and its
\* transaction end after at most seven steps of their own, and no refresh of
\* another call, failure or restart sets them back.  The transactions wait for
\* one another, but none of them begins anew.
THEOREM CallIsBounded == SafeSpec => [][CallRunsDown]_vars
<1>1. TypeOK /\ Phases /\ FewLeft /\ FewLeft' /\ [Next]_vars => [CallRunsDown]_vars
  BY CallsRunDown
<1>. QED
  BY <1>1, LeftIsBounded, TypeCorrect, PhasesHold, PTL DEF SafeSpec

=============================================================================
