--------------------------- MODULE PageIndexProofs ---------------------------
(***************************************************************************)
(* What holds of the index entry of a page for every number of crawls,     *)
(* contents, links and faults: its types, that search_vector lags behind   *)
(* the stored content only where VectorLagsOnlyInFlight allows it, and the *)
(* links likewise; how often a link can be stored, and how many statements *)
(* a crawl has before it.                                                  *)
(***************************************************************************)
EXTENDS PageIndex, FiniteSetTheorems, TLAPS

Zero == [t \in Targets |-> 0]

\* Crawls of which none overlaps another are one at a time.
Alone == ~overlapped =>
    \A c, d \in Crawls : pc[c] # "idle" /\ pc[d] # "idle" => c = d

\* A crawl past the answer has a content.
Fetched == \A c \in Crawls :
    pc[c] \in {"touch", "store", "addPages"} \cup Reindexing => got[c] \in Contents

\* A crawl alone with the page still finds there what it has stored, and
\* inserts its links where it has just deleted all.
Undisturbed == ~overlapped =>
    \A c \in Crawls :
        /\ pc[c] \in Reindexing /\ row # NoRow => row.stored = got[c]
        /\ pc[c] = "link" => links = Zero

LinksInv == Alone /\ Undisturbed /\ LinksLagOnlyInFlight

-----------------------------------------------------------------------------
(* Type correctness *)

LEMMA RowTypes ==
    /\ NewRow \in Rows
    /\ \A r \in Rows : /\ r.stored \in Contents \cup {None}
                       /\ r.indexed \in Contents \cup {None}
                       /\ r.crawled \in 0..4
                       /\ r.success \in {"never", "fresh", "month", "older"}
                       /\ r.proxied \in BOOLEAN
  BY DEF Rows, NewRow, Never

LEMMA InitTyped == Init => TypeOK
<1> SUFFICES ASSUME Init
             PROVE  TypeOK
  OBVIOUS
<1>1. row \in Rows \cup {NoRow}
  BY RowTypes DEF Init
<1>2. changes \in 0..MaxChanges /\ faults \in 0..MaxFaults
  BY ConstantsAssumption DEF Init, ConstantsAssumption
<1>3. pc \in [Crawls -> PCs]
  BY DEF Init, PCs
<1>4. barred \in BOOLEAN
  BY Zenon DEF Init
<1>5. overlapped \in BOOLEAN
  BY Zenon DEF Init
<1>6. served \in Answers /\ purging \in BOOLEAN
  BY DEF Init
<1>7. links \in [Targets -> Nat]
  BY DEF Init
<1>8. /\ seen \in [Crawls -> Contents \cup {None}]
      /\ got \in [Crawls -> Contents \cup {None}]
  BY DEF Init
<1>9. pages \subseteq Targets /\ torn \subseteq {"vector", "links"}
  BY DEF Init
<1>. QED
  BY <1>1, <1>2, <1>3, <1>4, <1>5, <1>6, <1>7, <1>8, <1>9 DEF TypeOK

\* What a row is stays so when one field changes ...
LEMMA RowField ==
    ASSUME NEW r \in Rows, NEW content \in Contents \cup {None}, NEW p \in BOOLEAN
    PROVE  /\ [r EXCEPT !.stored = content] \in Rows
           /\ [r EXCEPT !.indexed = content] \in Rows
           /\ \A age \in 0..4 : [r EXCEPT !.crawled = age] \in Rows
           /\ \A age \in {"never", "fresh", "month", "older"} :
                  [r EXCEPT !.success = age] \in Rows
           /\ [r EXCEPT !.proxied = p] \in Rows
<1> USE DEF Rows, Never
<1>1. [r EXCEPT !.stored = content] \in Rows
  OBVIOUS
<1>2. [r EXCEPT !.indexed = content] \in Rows
  OBVIOUS
<1>3. ASSUME NEW age \in 0..4
      PROVE  [r EXCEPT !.crawled = age] \in Rows
  OBVIOUS
<1>4. ASSUME NEW age \in {"never", "fresh", "month", "older"}
      PROVE  [r EXCEPT !.success = age] \in Rows
  OBVIOUS
<1>5. [r EXCEPT !.proxied = p] \in Rows
  OBVIOUS
<1>. QED
  BY ONLY <1>1, <1>2, <1>3, <1>4, <1>5

\* ... and so under the UPDATEs of crawlPage.
LEMMA RowUpdates ==
    ASSUME NEW r \in Rows, NEW content \in Contents \cup {None}, NEW p \in BOOLEAN
    PROVE  /\ [r EXCEPT !.crawled = 0, !.proxied = p,
                        !.success = IF @ = "fresh" THEN "month" ELSE @] \in Rows
           /\ [r EXCEPT !.crawled = 0, !.success = "fresh", !.proxied = p] \in Rows
           /\ [r EXCEPT !.stored = content, !.crawled = 0,
                        !.success = "fresh", !.proxied = p] \in Rows
           /\ [r EXCEPT !.indexed = r.stored] \in Rows
           /\ r.crawled \in 0..2 => [r EXCEPT !.crawled = r.crawled + 1] \in Rows
           /\ [r EXCEPT !.success = "older"] \in Rows
<1> DEFINE touched(x) == [x EXCEPT !.crawled = 0]
           proxied(x) == [x EXCEPT !.proxied = p]
           fresh(x)   == [x EXCEPT !.success = "fresh"]
           stored(x)  == [x EXCEPT !.stored = content]
           age        == IF r.success = "fresh" THEN "month" ELSE r.success
<1>1. 0 \in 0..4 /\ age \in {"never", "fresh", "month", "older"}
  BY RowTypes
<1>2. \A x \in Rows : touched(x) \in Rows
  BY <1>1, RowField
<1>3. \A x \in Rows : proxied(x) \in Rows
  BY RowField
<1>4. \A x \in Rows : fresh(x) \in Rows
  BY RowField
<1>5. \A x \in Rows : stored(x) \in Rows
  BY RowField
<1>6. [proxied(touched(r)) EXCEPT !.success = age] \in Rows
  BY <1>1, <1>2, <1>3, RowField
<1>7. proxied(fresh(touched(r))) \in Rows
  BY <1>2, <1>3, <1>4
<1>8. proxied(fresh(touched(stored(r)))) \in Rows
  BY <1>2, <1>3, <1>4, <1>5
<1>9. [r EXCEPT !.indexed = r.stored] \in Rows /\ [r EXCEPT !.success = "older"] \in Rows
  BY RowTypes, RowField
<1>10. r.crawled \in 0..2 => [r EXCEPT !.crawled = r.crawled + 1] \in Rows
  <2>1. \A n \in 0..2 : n + 1 \in 0..4
    OBVIOUS
  <2>. QED
    BY <2>1, RowField
<1>. QED
  BY <1>6, <1>7, <1>8, <1>9, <1>10

RowTyped == row \in Rows \cup {NoRow}

RestTyped ==
    /\ links \in [Targets -> Nat] /\ pages \subseteq Targets
    /\ pc \in [Crawls -> PCs]
    /\ seen \in [Crawls -> Contents \cup {None}]
    /\ got \in [Crawls -> Contents \cup {None}]
    /\ served \in Answers /\ barred \in BOOLEAN /\ purging \in BOOLEAN
    /\ changes \in 0..MaxChanges /\ faults \in 0..MaxFaults
    /\ torn \subseteq {"vector", "links"} /\ overlapped \in BOOLEAN

LEMMA TypeParts == TypeOK <=> RowTyped /\ RestTyped
  BY Zenon DEF TypeOK, RowTyped, RestTyped

LEMMA StepKeepsRow ==
    ASSUME RowTyped, RestTyped, NEW c \in Crawls, Step(c)
    PROVE  RowTyped'
<1> USE RowUpdates DEF RowTyped
<1>1. CASE Vet(c) \/ Select(c) \/ Fetch(c) \/ Unlink(c) \/ Link(c) \/ AddPages(c)
  BY <1>1 DEF Vet, Select, Fetch, Unlink, Link, AddPages, db
<1>2. CASE Insert(c)
  BY <1>2, RowTypes DEF Insert
<1>3. CASE Purge(c)
  BY <1>3 DEF Purge
<1>4. CASE Rest(c) \/ Touch(c) \/ Fail(c)
  <2>1. FALSE \in BOOLEAN
    OBVIOUS
  <2>. QED
    BY <1>4, <2>1 DEF Rest, Touch, Fail, UpdateTo, Failed
<1>5. CASE Refused(c)
  <2>1. (pc[c] = "refused53") \in BOOLEAN
    OBVIOUS
  <2>. QED
    BY <1>5, <2>1 DEF Refused, UpdateTo, Failed
<1>6. CASE Store(c)
  <2>1. got[c] \in Contents \cup {None}
    BY DEF RestTyped
  <2>. QED
    BY <1>6, <2>1 DEF Store, UpdateTo
<1>7. CASE Vector(c)
  BY <1>7 DEF Vector, UpdateTo
<1>. QED
  BY <1>1, <1>2, <1>3, <1>4, <1>5, <1>6, <1>7 DEF Step

LEMMA StepKeepsRest ==
    ASSUME RowTyped, RestTyped, Fetched, NEW c \in Crawls, Step(c)
    PROVE  RestTyped'
<1> USE ConstantsAssumption DEF RestTyped, ConstantsAssumption, PCs, Goto, Finish,
        env, ghost, db, local
<1>1. CASE Vet(c) \/ Insert(c) \/ Rest(c) \/ Touch(c)
  BY <1>1 DEF Vet, Insert, Rest, Touch
<1>2. CASE Select(c)
  <2>1. row # NoRow => row.stored \in Contents \cup {None}
    BY RowTypes DEF RowTyped
  <2>. QED
    BY <1>2, <2>1 DEF Select
<1>3. CASE Fetch(c)
  <2>1. pc' \in [Crawls -> PCs]
    BY <1>3 DEF Fetch
  <2>2. got' \in [Crawls -> Contents \cup {None}]
    BY <1>3 DEF Fetch
  <2>. QED
    BY <1>3, <2>1, <2>2 DEF Fetch
<1>4. CASE Store(c)
  <2>1. Overlaps(c) \in BOOLEAN
    BY Zenon DEF Overlaps
  <2>2. pc' \in [Crawls -> PCs]
    BY <1>4 DEF Store
  <2>. QED
    BY <1>4, <2>1, <2>2 DEF Store
<1>5. CASE Unlink(c) \/ Vector(c)
  BY <1>5 DEF Unlink, Vector
<1>6. CASE Link(c)
  <2>1. links' \in [Targets -> Nat]
    BY <1>6 DEF Link
  <2>2. pc' \in [Crawls -> PCs]
    BY <1>6 DEF Link
  <2>. QED
    BY <1>6, <2>1, <2>2 DEF Link
<1>7. CASE AddPages(c)
  <2>1. LinksOf[got[c]] \subseteq Targets
    BY <1>7 DEF AddPages, Fetched
  <2>. QED
    BY <1>7, <2>1 DEF AddPages
<1>8. CASE Refused(c) \/ Fail(c) \/ Purge(c)
  BY <1>8 DEF Refused, Fail, Purge
<1>. QED
  BY <1>1, <1>2, <1>3, <1>4, <1>5, <1>6, <1>7, <1>8 DEF Step

LEMMA StepKeepsFetched ==
    ASSUME RestTyped, Fetched, NEW c \in Crawls, Step(c)
    PROVE  Fetched'
<1> USE DEF Fetched, RestTyped, Goto, Finish, Reindexing, env, ghost, db, local
<1>1. CASE Vet(c) \/ Select(c) \/ Insert(c)
  <2>1. PICK label \in {"fail", "select", "insert", "rest", "fetch"} : Goto(c, label)
    BY <1>1 DEF Vet, Select, Insert
  <2>2. got' = got
    BY <1>1 DEF Vet, Select, Insert
  <2>. QED
    BY <2>1, <2>2
<1>2. CASE Fetch(c)
  BY <1>2 DEF Fetch
<1>6. CASE Rest(c)
  BY <1>6 DEF Rest
<1>3. CASE Touch(c) \/ Store(c) \/ Vector(c)
  BY <1>3 DEF Touch, Store, Vector
<1>4. CASE Unlink(c) \/ Link(c) \/ AddPages(c)
  BY <1>4 DEF Unlink, Link, AddPages
<1>5. CASE Refused(c) \/ Fail(c) \/ Purge(c)
  BY <1>5 DEF Refused, Fail, Purge
<1>. QED
  BY <1>1, <1>2, <1>3, <1>4, <1>5, <1>6 DEF Step

Typed == RowTyped /\ RestTyped /\ Fetched

LEMMA InitKeeps == Init => Typed
<1>1. Init => Fetched
  BY DEF Init, Fetched, Reindexing
<1>. QED
  BY <1>1, InitTyped, TypeParts DEF Typed

LEMMA AgeingTyped ==
    ASSUME row \in Rows \cup {NoRow}, AgeCrawled \/ AgeSuccess
    PROVE  row' \in Rows
<1>1. CASE AgeCrawled
  <2>1. row \in Rows /\ row.crawled \in 0..2
    BY <1>1 DEF AgeCrawled
  <2>2. row' = [row EXCEPT !.crawled = row.crawled + 1]
    BY <1>1 DEF AgeCrawled
  <2>. QED
    BY <2>1, <2>2, RowUpdates
<1>2. CASE AgeSuccess
  <2>1. row \in Rows /\ row' = [row EXCEPT !.success = "older"]
    BY <1>2 DEF AgeSuccess
  <2>. QED
    BY <2>1, RowUpdates
<1>. QED
  BY <1>1, <1>2

LEMMA OtherStepTyped ==
    ASSUME Typed
    PROVE  /\ \A c \in Crawls : Begin(c) \/ Throw(c) \/ Kill(c) => Typed'
           /\ AgeCrawled \/ AgeSuccess \/ Change \/ UNCHANGED vars => Typed'
           /\ PurgePage \/ PurgeLinks => Typed'
<1> USE ConstantsAssumption DEF Typed, RowTyped, RestTyped, Fetched, ConstantsAssumption,
        PCs, Goto, Finish, Reindexing, env, ghost, db, local
<1>1. ASSUME NEW c \in Crawls, Begin(c)
      PROVE  Typed'
  BY <1>1 DEF Begin
<1>2. ASSUME NEW c \in Crawls, Throw(c) \/ Kill(c)
      PROVE  Typed'
  <2>1. torn' \subseteq {"vector", "links"} /\ faults' \in 0..MaxFaults
    BY <1>2 DEF Throw, Kill, Undone
  <2>. QED
    BY <1>2, <2>1 DEF Throw, Kill
<1>3. CASE AgeCrawled \/ AgeSuccess
  <2>1. row' \in Rows
    BY <1>3, AgeingTyped
  <2>. QED
    BY <1>3, <2>1 DEF AgeCrawled, AgeSuccess
<1>4. CASE Change
  <2>1. served' \in Answers /\ barred' \in BOOLEAN
    BY <1>4, Zenon DEF Change
  <2>2. changes' \in 0..MaxChanges
    BY <1>4 DEF Change
  <2>. QED
    BY <1>4, <2>1, <2>2 DEF Change
<1>5. CASE UNCHANGED vars
  BY <1>5 DEF vars
<1>6. CASE PurgePage
  BY <1>6 DEF PurgePage
<1>7. CASE PurgeLinks
  BY <1>7 DEF PurgeLinks
<1>. QED
  BY <1>1, <1>2, <1>3, <1>4, <1>5, <1>6, <1>7

THEOREM TypedAlways == SafeSpec => []Typed
<1>1. Typed /\ [Next]_vars => Typed'
  BY StepKeepsRow, StepKeepsRest, StepKeepsFetched, OtherStepTyped DEF Next, Typed
<1>. QED
  BY InitKeeps, <1>1, PTL DEF SafeSpec

\* Every variable keeps its type, whatever the constants.
THEOREM TypeCorrect == SafeSpec => []TypeOK
<1>1. Typed => TypeOK
  BY TypeParts DEF Typed
<1>. QED
  BY <1>1, TypedAlways, PTL

-----------------------------------------------------------------------------
(* search_vector *)

\* The two contents of a row come apart in Store alone.
LEMMA RowSteps ==
    ASSUME RowTyped, RestTyped, NEW c \in Crawls,
           Begin(c) \/ Step(c) \/ Throw(c) \/ Kill(c), ~Store(c), ~Vector(c),
           row' # NoRow
    PROVE  \/ row' = NewRow
           \/ row # NoRow /\ row'.stored = row.stored /\ row'.indexed = row.indexed
<1> USE DEF db, UpdateTo, RowTyped
<1>1. CASE Begin(c) \/ Throw(c) \/ Kill(c)
  BY <1>1 DEF Begin, Throw, Kill
<1>2. CASE \/ Vet(c) \/ Select(c) \/ Insert(c) \/ Fetch(c)
           \/ Unlink(c) \/ Link(c) \/ AddPages(c) \/ Purge(c)
  BY <1>2 DEF Vet, Select, Insert, Fetch, Unlink, Link, AddPages, Purge
<1>3. CASE Rest(c) \/ Touch(c) \/ Refused(c) \/ Fail(c)
  BY <1>3 DEF Rest, Touch, Refused, Fail, Failed, Rows
<1>. QED
  BY <1>1, <1>2, <1>3 DEF Step

\* A crawl leaves "vector" by rebuilding search_vector or by a fault.
LEMMA LeavesVector ==
    ASSUME RestTyped, NEW c \in Crawls, Begin(c) \/ Step(c) \/ Throw(c) \/ Kill(c),
           ~Vector(c)
    PROVE  /\ \A d \in Crawls : pc[d] = "vector" =>
                  pc'[d] = "vector" \/ "vector" \in torn'
           /\ "vector" \in torn => "vector" \in torn'
<1> USE DEF RestTyped, Goto, Finish, Undone, ghost, local
<1>1. CASE Begin(c)
  BY <1>1 DEF Begin
<1>2. CASE Throw(c) \/ Kill(c)
  <2>1. torn' = torn \cup Undone(c) /\ (pc[c] = "vector" => "vector" \in Undone(c))
    BY <1>2 DEF Throw, Kill
  <2>2. \A d \in Crawls : d # c => pc'[d] = pc[d]
    BY <1>2 DEF Throw, Kill
  <2>. QED
    BY <2>1, <2>2
<1>3. CASE Vet(c) \/ Select(c) \/ Insert(c) \/ Rest(c) \/ Fetch(c) \/ Touch(c) \/ Store(c)
  BY <1>3 DEF Vet, Select, Insert, Rest, Fetch, Touch, Store
<1>4. CASE Unlink(c) \/ Link(c) \/ AddPages(c) \/ Refused(c) \/ Fail(c) \/ Purge(c)
  BY <1>4 DEF Unlink, Link, AddPages, Refused, Fail, Purge
<1>. QED
  BY <1>1, <1>2, <1>3, <1>4 DEF Step

LEMMA CrawlKeepsVector ==
    ASSUME Typed, VectorLagsOnlyInFlight, NEW c \in Crawls,
           Begin(c) \/ Step(c) \/ Throw(c) \/ Kill(c)
    PROVE  VectorLagsOnlyInFlight'
<1> USE DEF Typed, VectorLagsOnlyInFlight
<1>1. CASE Store(c)
  <2>1. pc'[c] = "vector"
    BY <1>1 DEF Store, Goto, RestTyped
  <2>. QED
    BY <2>1
<1>2. CASE Vector(c)
  <2>1. row' # NoRow => row'.indexed = row'.stored
    BY <1>2 DEF Vector, UpdateTo, RowTyped, Rows
  <2>. QED
    BY <2>1
<1>3. CASE ~Store(c) /\ ~Vector(c)
  <2>1. NewRow.indexed = NewRow.stored
    BY DEF NewRow
  <2>. QED
    BY <1>3, <2>1, RowSteps, LeavesVector
<1>. QED
  BY <1>1, <1>2, <1>3

\* search_vector lags only behind a crawl that is about to rebuild it or has
\* died there, for any number of crawls of the page at a time.
THEOREM VectorLag == SafeSpec => []VectorLagsOnlyInFlight
<1>1. Init => VectorLagsOnlyInFlight
  BY DEF Init, VectorLagsOnlyInFlight, NewRow
<1>2. Typed /\ VectorLagsOnlyInFlight /\ [Next]_vars => VectorLagsOnlyInFlight'
  <2> SUFFICES ASSUME Typed, VectorLagsOnlyInFlight, [Next]_vars
               PROVE  VectorLagsOnlyInFlight'
    OBVIOUS
  <2>1. CASE AgeCrawled \/ AgeSuccess
    BY <2>1 DEF AgeCrawled, AgeSuccess, local, ghost, Typed, RowTyped, Rows,
            VectorLagsOnlyInFlight
  <2>2. CASE Change \/ UNCHANGED vars
    BY <2>2 DEF Change, vars, local, ghost, db, VectorLagsOnlyInFlight
  <2>3. CASE PurgePage \/ PurgeLinks
    BY <2>3 DEF PurgePage, PurgeLinks, local, VectorLagsOnlyInFlight
  <2>. QED
    BY <2>1, <2>2, <2>3, CrawlKeepsVector DEF Next
<1>. QED
  BY <1>1, <1>2, TypedAlways, PTL DEF SafeSpec

-----------------------------------------------------------------------------
(* links *)

\* A crawl that is alone with the page: the steps of the others are over.
LEMMA OthersIdle ==
    ASSUME Alone, ~overlapped, NEW c \in Crawls, pc[c] # "idle"
    PROVE  \A d \in Crawls : d # c => pc[d] = "idle"
  BY DEF Alone

\* A step that leaves row and links as they are and does not begin, store or
\* end a reindexing.
LEMMA CalmLinks ==
    ASSUME LinksInv, RestTyped, NEW c \in Crawls, NEW label \in PCs,
           pc[c] # "idle", Goto(c, label), overlapped' = overlapped,
           links' = links, torn' = torn, label \notin Reindexing, pc[c] \notin Reindexing,
           \/ row' = NoRow \/ row' = NewRow
           \/ row # NoRow /\ row' # NoRow /\ row'.stored = row.stored
    PROVE  LinksInv'
<1> USE DEF LinksInv, RestTyped, Goto, Finish
<1>1. Alone'
  BY DEF Alone
<1>2. \A d \in Crawls : pc'[d] \in Reindexing => pc[d] = pc'[d] /\ d # c
  OBVIOUS
<1>3. ~overlapped => \A d \in Crawls : pc'[d] \notin Reindexing
  BY <1>2, OthersIdle DEF Reindexing
<1>4. Undisturbed'
  BY <1>3 DEF Undisturbed, Reindexing
<1>5. LinksLagOnlyInFlight'
  <2>1. ASSUME row' # NoRow, row'.stored # None, ~overlapped
        PROVE  row # NoRow /\ row.stored = row'.stored
    BY <2>1 DEF NewRow
  <2>2. ~overlapped => \A d \in Crawls : pc[d] \notin Reindexing
    BY OthersIdle DEF Reindexing
  <2>. QED
    BY <2>1, <2>2 DEF LinksLagOnlyInFlight
<1>. QED
  BY <1>1, <1>4, <1>5

LEMMA BeginLinks ==
    ASSUME LinksInv, RestTyped, NEW c \in Crawls, Begin(c)
    PROVE  LinksInv'
<1> USE DEF LinksInv, RestTyped, Begin, Goto, db
<1>1. Alone'
  BY DEF Alone, Overlaps
<1>2. \A d \in Crawls : pc'[d] \in Reindexing <=> pc[d] \in Reindexing
  BY DEF Reindexing
<1>3. \A d \in Crawls : pc'[d] = "link" <=> pc[d] = "link"
  OBVIOUS
<1>4. overlapped => overlapped'
  OBVIOUS
<1>5. Undisturbed'
  BY <1>2, <1>3, <1>4 DEF Undisturbed
<1>6. LinksLagOnlyInFlight'
  BY <1>2, <1>4 DEF LinksLagOnlyInFlight
<1>. QED
  BY <1>1, <1>5, <1>6

\* Whatever crawls that overlapped have left, one that is alone now has stored
\* its content and rewrites the links next.
LEMMA StoreLinks ==
    ASSUME RowTyped, RestTyped, NEW c \in Crawls, Store(c)
    PROVE  LinksInv'
<1> USE DEF RestTyped, Store, Goto
<1>1. pc'[c] = "vector" /\ "vector" \in Reindexing
  BY DEF Reindexing
<1>2. row' # NoRow => row'.stored = got'[c]
  BY DEF UpdateTo, RowTyped, Rows
<1>3. ~overlapped' => \A d \in Crawls : d # c => pc'[d] = "idle"
  BY DEF Overlaps
<1>4. Alone'
  BY <1>3 DEF Alone
<1>5. Undisturbed'
  BY <1>1, <1>2, <1>3 DEF Undisturbed, Reindexing
<1>6. LinksLagOnlyInFlight'
  BY <1>1 DEF LinksLagOnlyInFlight
<1>. QED
  BY <1>4, <1>5, <1>6 DEF LinksInv

LEMMA VectorLinks ==
    ASSUME LinksInv, RowTyped, RestTyped, NEW c \in Crawls, Vector(c)
    PROVE  LinksInv'
<1> USE DEF LinksInv, RestTyped, Vector, Goto, Finish, UpdateTo
<1>1. Alone'
  BY DEF Alone
<1>2. row' # NoRow => row # NoRow /\ row'.stored = row.stored
  BY DEF RowTyped, Rows
<1>3. ~overlapped => \A d \in Crawls : d # c => pc[d] = "idle" /\ pc'[d] = "idle"
  BY OthersIdle
<1>4. "links" \in torn => "links" \in torn'
  OBVIOUS
<1>5. ~overlapped /\ row # NoRow => row.stored = got[c]
  BY DEF Undisturbed, Reindexing
<1>6. CASE LinksOf[got[c]] = {}
  <2>1. pc'[c] = "idle"
    BY <1>6
  <2>2. Undisturbed'
    BY <1>3, <2>1 DEF Undisturbed, Reindexing
  <2>3. LinksLagOnlyInFlight'
    BY <1>2, <1>5, <1>6 DEF LinksLagOnlyInFlight
  <2>. QED
    BY <1>1, <2>2, <2>3
<1>7. CASE LinksOf[got[c]] # {}
  <2>1. pc'[c] = "unlink" /\ got' = got /\ "unlink" \in Reindexing
    BY <1>7 DEF Reindexing
  <2>2. Undisturbed'
    BY <1>2, <1>3, <1>5, <2>1 DEF Undisturbed, Reindexing
  <2>3. LinksLagOnlyInFlight'
    BY <2>1 DEF LinksLagOnlyInFlight
  <2>. QED
    BY <1>1, <2>2, <2>3
<1>. QED
  BY <1>6, <1>7

LEMMA UnlinkLinks ==
    ASSUME LinksInv, RestTyped, NEW c \in Crawls, Unlink(c)
    PROVE  LinksInv'
<1> USE DEF LinksInv, RestTyped, Unlink, Goto, ghost
<1>1. Alone'
  BY DEF Alone
<1>2. pc'[c] = "link" /\ "link" \in Reindexing /\ "unlink" \in Reindexing /\ links' = Zero
  BY DEF Reindexing, Zero
<1>3. Undisturbed'
  BY <1>2 DEF Undisturbed, Zero
<1>4. LinksLagOnlyInFlight'
  BY <1>2 DEF LinksLagOnlyInFlight
<1>. QED
  BY <1>1, <1>3, <1>4

LEMMA LinkLinks ==
    ASSUME LinksInv, RestTyped, NEW c \in Crawls, Link(c)
    PROVE  LinksInv'
<1> USE DEF LinksInv, RestTyped, Link, Goto
<1>1. Alone'
  BY DEF Alone
<1>2. ~overlapped => \A d \in Crawls : pc'[d] \notin Reindexing
  BY OthersIdle DEF Reindexing
<1>3. Undisturbed'
  BY <1>2 DEF Undisturbed, Reindexing
<1>4. ~overlapped /\ row # NoRow => row.stored = got[c] /\ links = Zero
  BY DEF Undisturbed, Reindexing
<1>5. ASSUME ~overlapped, row # NoRow
      PROVE  links' = [t \in Targets |-> IF t \in LinksOf[row.stored] THEN 1 ELSE 0]
  BY <1>4, <1>5 DEF Zero
<1>6. LinksLagOnlyInFlight'
  BY <1>5 DEF LinksLagOnlyInFlight
<1>. QED
  BY <1>1, <1>3, <1>6

\* A crawl that dies while it reindexes leaves the links marked as torn.
LEMMA FaultLinks ==
    ASSUME LinksInv, RestTyped, NEW c \in Crawls, Throw(c) \/ Kill(c)
    PROVE  LinksInv'
<1> USE DEF LinksInv, RestTyped, Throw, Kill, Goto, Finish, db
<1>1. Alone'
  BY DEF Alone
<1>2. pc[c] \in Reindexing => "links" \in torn'
  BY DEF Undone, Reindexing
<1>3. \A d \in Crawls : pc'[d] \in Reindexing => pc'[d] = pc[d] /\ got'[d] = got[d]
  BY DEF Reindexing
<1>4. Undisturbed'
  BY <1>3 DEF Undisturbed, Reindexing
<1>5. \A d \in Crawls : pc[d] \in Reindexing => pc'[d] \in Reindexing \/ "links" \in torn'
  BY <1>2
<1>6. LinksLagOnlyInFlight'
  BY <1>5 DEF LinksLagOnlyInFlight
<1>. QED
  BY <1>1, <1>4, <1>6

LEMMA CrawlKeepsLinks ==
    ASSUME LinksInv, Typed, NEW c \in Crawls,
           Begin(c) \/ Step(c) \/ Throw(c) \/ Kill(c)
    PROVE  LinksInv'
<1> USE DEF Typed
<1>1. CASE Begin(c)
  BY <1>1, BeginLinks
<1>2. CASE Throw(c) \/ Kill(c)
  BY <1>2, FaultLinks
<1>3. CASE Store(c)
  BY <1>3, StoreLinks
<1>4. CASE Vector(c)
  BY <1>4, VectorLinks
<1>5. CASE Unlink(c)
  BY <1>5, UnlinkLinks
<1>6. CASE Link(c)
  BY <1>6, LinkLinks
<1>7. CASE /\ Step(c)
           /\ ~(Store(c) \/ Vector(c) \/ Unlink(c) \/ Link(c))
  <2>1. \/ row' = NoRow \/ row' = NewRow
        \/ row # NoRow /\ row' # NoRow /\ row'.stored = row.stored
    BY <1>7, RowSteps
  <2>2. /\ pc[c] # "idle" /\ pc[c] \notin Reindexing
        /\ overlapped' = overlapped /\ links' = links /\ torn' = torn
    <3>1. CASE Vet(c) \/ Select(c) \/ Insert(c) \/ Rest(c) \/ Fetch(c) \/ Touch(c)
      BY <3>1 DEF Vet, Select, Insert, Rest, Fetch, Touch, db, ghost, Reindexing
    <3>2. CASE AddPages(c) \/ Refused(c) \/ Fail(c) \/ Purge(c)
      BY <3>2 DEF AddPages, Refused, Fail, Purge, ghost, Reindexing
    <3>. QED
      BY <1>7, <3>1, <3>2 DEF Step
  <2>3. \E label \in PCs : Goto(c, label) /\ label \notin Reindexing
    <3> USE DEF PCs, Reindexing
    <3>1. CASE Vet(c) \/ Select(c) \/ Insert(c) \/ Fetch(c)
      BY <3>1 DEF Vet, Select, Insert, Fetch
    <3>2. CASE Rest(c) \/ Touch(c) \/ AddPages(c) \/ Purge(c)
      BY <3>2 DEF Rest, Touch, AddPages, Purge, Finish
    <3>3. CASE Refused(c) \/ Fail(c)
      BY <3>3 DEF Refused, Fail
    <3>. QED
      BY <1>7, <3>1, <3>2, <3>3 DEF Step
  <2>. QED
    BY <2>1, <2>2, <2>3, CalmLinks
<1>. QED
  BY <1>1, <1>2, <1>3, <1>4, <1>5, <1>6, <1>7

\* A purge takes the row, and later the links, of a crawl in flight too.
LEMMA PurgeKeepsLinks ==
    ASSUME LinksInv, PurgePage \/ PurgeLinks
    PROVE  LinksInv'
<1>1. UNCHANGED <<pc, got, overlapped>> /\ (row' = NoRow \/ row' = row)
  BY DEF PurgePage, PurgeLinks, local, ghost
<1>2. links' = links \/ links' = Zero
  BY DEF PurgePage, PurgeLinks, Zero
<1>3. Alone' /\ Undisturbed'
  BY <1>1, <1>2 DEF LinksInv, Alone, Undisturbed, Zero
<1>4. LinksLagOnlyInFlight'
  <2>1. CASE PurgePage
    BY <2>1 DEF PurgePage, LinksLagOnlyInFlight
  <2>2. CASE PurgeLinks
    BY <2>2 DEF PurgeLinks, LinksLagOnlyInFlight
  <2>. QED
    BY <2>1, <2>2
<1>. QED
  BY <1>3, <1>4 DEF LinksInv

\* Unless crawls of the page overlap, its links are those of the stored
\* content but for a crawl that is rewriting them, has died there or has met a
\* purge, and for a content without links.
THEOREM LinksLag == SafeSpec => []LinksLagOnlyInFlight
<1>1. Init => LinksInv
  <2> SUFFICES ASSUME Init
               PROVE  LinksInv
    OBVIOUS
  <2>1. \A c \in Crawls : pc[c] = "idle"
    BY DEF Init
  <2>2. Alone /\ Undisturbed
    BY <2>1 DEF Alone, Undisturbed, Reindexing
  <2>3. LinksLagOnlyInFlight
    BY DEF Init, LinksLagOnlyInFlight, NewRow
  <2>. QED
    BY <2>2, <2>3 DEF LinksInv
<1>2. LinksInv /\ Typed /\ [Next]_vars => LinksInv'
  <2> SUFFICES ASSUME LinksInv, Typed, [Next]_vars
               PROVE  LinksInv'
    OBVIOUS
  <2>1. CASE AgeCrawled \/ AgeSuccess
    <3>1. row # NoRow /\ row'.stored = row.stored
      BY <2>1 DEF AgeCrawled, AgeSuccess, Typed, RowTyped, Rows
    <3>2. UNCHANGED <<links, local, ghost>>
      BY <2>1 DEF AgeCrawled, AgeSuccess
    <3>3. UNCHANGED <<links, pc, got, torn, overlapped>>
      BY <3>2 DEF local, ghost
    <3>4. Alone' /\ Undisturbed'
      BY <3>1, <3>3 DEF LinksInv, Alone, Undisturbed
    <3>5. LinksLagOnlyInFlight'
      BY <3>1, <3>3 DEF LinksInv, LinksLagOnlyInFlight
    <3>. QED
      BY <3>4, <3>5 DEF LinksInv
  <2>2. CASE Change \/ UNCHANGED vars
    <3>1. UNCHANGED <<row, links, pc, got, torn, overlapped>>
      BY <2>2 DEF Change, vars, local, ghost, db
    <3>2. Alone' /\ Undisturbed'
      BY <3>1 DEF LinksInv, Alone, Undisturbed
    <3>3. LinksLagOnlyInFlight'
      BY <3>1 DEF LinksInv, LinksLagOnlyInFlight
    <3>. QED
      BY <3>2, <3>3 DEF LinksInv
  <2>. QED
    BY <2>1, <2>2, CrawlKeepsLinks, PurgeKeepsLinks DEF Next
<1>3. LinksInv => LinksLagOnlyInFlight
  BY DEF LinksInv
<1>. QED
  BY <1>1, <1>2, <1>3, TypedAlways, PTL DEF SafeSpec

-----------------------------------------------------------------------------
(* How often a link can be stored *)

\* The crawls that have deleted the links and not yet inserted theirs.
Linking == {c \in Crawls : pc[c] = "link"}

\* A link is in the table no more often than there are crawls of the page.
LinksAreFew == \A t \in Targets : links[t] =< Cardinality(Crawls)

\* Those to come are counted with those that are there.
FewWithThoseToCome == \A t \in Targets : links[t] + Cardinality(Linking) =< Cardinality(Crawls)

LEMMA LinkingIsFinite ==
    /\ IsFiniteSet(Linking) /\ Cardinality(Linking) \in Nat /\ Cardinality(Crawls) \in Nat
    /\ Cardinality(Linking) =< Cardinality(Crawls)
<1>1. Linking \subseteq Crawls /\ IsFiniteSet(Crawls)
  BY ConstantsAssumption DEF ConstantsAssumption, Linking
<1>. QED
  BY <1>1, FS_Subset, FS_CardinalityType

\* A step that leaves the links alone and lets no crawl come to its INSERT.
LEMMA NoneComesToLink ==
    ASSUME RestTyped, FewWithThoseToCome, links' = links, Linking' \subseteq Linking
    PROVE  FewWithThoseToCome'
<1>1. Cardinality(Linking') =< Cardinality(Linking) /\ Cardinality(Linking') \in Nat
  BY LinkingIsFinite, FS_Subset, FS_CardinalityType
<1>2. \A t \in Targets : links[t] \in Nat
  BY DEF RestTyped
<1>. QED
  BY <1>1, <1>2, LinkingIsFinite DEF FewWithThoseToCome

\* The links are gone: there are no more than crawls that insert theirs.
LEMMA NoneIsLeft ==
    ASSUME links' = Zero, Linking' \subseteq Crawls
    PROVE  FewWithThoseToCome'
<1>1. Cardinality(Linking') =< Cardinality(Crawls) /\ Cardinality(Linking') \in Nat
  BY ConstantsAssumption, FS_Subset, FS_CardinalityType DEF ConstantsAssumption
<1>2. \A t \in Targets : links'[t] = 0
  BY DEF Zero
<1>. QED
  BY <1>1, <1>2 DEF FewWithThoseToCome

LEMMA LinkOnce ==
    ASSUME RestTyped, FewWithThoseToCome, NEW c \in Crawls, Link(c)
    PROVE  FewWithThoseToCome'
<1>1. c \in Linking /\ Linking' = Linking \ {c}
  BY DEF RestTyped, Link, Goto, Linking
<1>2. Cardinality(Linking') = Cardinality(Linking) - 1
  BY <1>1, LinkingIsFinite, FS_RemoveElement
<1>3. \A t \in Targets : links[t] \in Nat /\ links'[t] \in {links[t], links[t] + 1}
  BY DEF RestTyped, Link
<1>. QED
  BY <1>2, <1>3, LinkingIsFinite DEF FewWithThoseToCome

LEMMA LinksStayFew == RestTyped /\ FewWithThoseToCome /\ [Next]_vars => FewWithThoseToCome'
<1> SUFFICES ASSUME RestTyped, FewWithThoseToCome, [Next]_vars
             PROVE  FewWithThoseToCome'
  OBVIOUS
<1>1. Linking' \subseteq Crawls
  BY DEF Linking
<1>2. ASSUME NEW c \in Crawls, Link(c)
      PROVE  FewWithThoseToCome'
  BY <1>2, LinkOnce
<1>3. CASE PurgeLinks \/ \E c \in Crawls : Unlink(c)
  <2>1. links' = Zero
    BY <1>3 DEF PurgeLinks, Unlink, Zero
  <2>. QED
    BY <1>1, <2>1, NoneIsLeft
<1>4. ASSUME NEW c \in Crawls, NEW label \in PCs \ {"link"}, Goto(c, label), links' = links
      PROVE  FewWithThoseToCome'
  <2>1. Linking' \subseteq Linking
    BY <1>4 DEF Linking, RestTyped, Goto
  <2>. QED
    BY <1>4, <2>1, NoneComesToLink
<1>5. ASSUME NEW c \in Crawls,
             \/ Begin(c) \/ Vet(c) \/ Select(c) \/ Insert(c) \/ Rest(c) \/ Fetch(c)
             \/ Throw(c) \/ Kill(c)
      PROVE  FewWithThoseToCome'
  <2>1. links' = links
    BY <1>5 DEF Begin, Vet, Select, Insert, Rest, Fetch, Throw, Kill, db
  <2>2. \E label \in PCs \ {"link"} : Goto(c, label)
    BY <1>5 DEF Begin, Vet, Select, Insert, Rest, Fetch, Throw, Kill, Finish, PCs
  <2>. QED
    BY <1>4, <2>1, <2>2
<1>6. ASSUME NEW c \in Crawls,
             \/ Touch(c) \/ Store(c) \/ Vector(c) \/ AddPages(c) \/ Refused(c)
             \/ Fail(c) \/ Purge(c)
      PROVE  FewWithThoseToCome'
  <2>1. links' = links
    BY <1>6 DEF Touch, Store, Vector, AddPages, Refused, Fail, Purge
  <2>2. \E label \in PCs \ {"link"} : Goto(c, label)
    BY <1>6 DEF Touch, Store, Vector, AddPages, Refused, Fail, Purge, Finish, PCs
  <2>. QED
    BY <1>4, <2>1, <2>2
<1>7. CASE AgeCrawled \/ AgeSuccess \/ Change \/ PurgePage \/ UNCHANGED vars
  <2>1. links' = links /\ pc' = pc
    BY <1>7 DEF AgeCrawled, AgeSuccess, Change, PurgePage, vars, db, local
  <2>2. Linking' \subseteq Linking
    BY <2>1 DEF Linking
  <2>. QED
    BY <2>1, <2>2, NoneComesToLink
<1>. QED
  BY <1>2, <1>3, <1>5, <1>6, <1>7 DEF Next, Step

\* links has no key, and its INSERT no conflicts: crawls that overlap may leave
\* a link several times.  But each crawl deletes before it inserts, so that
\* there are never more of one link than crawls of the page at a time, however
\* many have come and gone and wherever they died.
THEOREM LinksFew == SafeSpec => []LinksAreFew
<1>1. Init => FewWithThoseToCome
  <2> SUFFICES ASSUME Init
               PROVE  FewWithThoseToCome
    OBVIOUS
  <2>1. \A t \in Targets : links[t] = 0
    BY DEF Init
  <2>. QED
    BY <2>1, LinkingIsFinite DEF FewWithThoseToCome
<1>2. Typed /\ FewWithThoseToCome => LinksAreFew
  <2> SUFFICES ASSUME Typed, FewWithThoseToCome, NEW t \in Targets
               PROVE  links[t] =< Cardinality(Crawls)
    BY DEF LinksAreFew
  <2>1. links[t] \in Nat /\ links[t] + Cardinality(Linking) =< Cardinality(Crawls)
    BY DEF Typed, RestTyped, FewWithThoseToCome
  <2>. QED
    BY <2>1, LinkingIsFinite
<1>3. Typed => RestTyped
  BY DEF Typed
<1>. QED
  BY <1>1, <1>2, <1>3, LinksStayFew, TypedAlways, PTL DEF SafeSpec
-----------------------------------------------------------------------------
(* The statements that are left *)

\* How far a label is from "idle" at most.
Cost == [label \in PCs |->
            CASE label = "idle"     -> 0
              [] label = "purge"    -> 1
              [] label = "fail"     -> 2
              [] label \in {"rest", "touch", "addPages", "drop"} -> 3
              [] label \in {"link", "refused", "refused53"} -> 4
              [] label = "unlink"   -> 5
              [] label = "vector"   -> 6
              [] label = "store"    -> 7
              [] label = "fetch"    -> 8
              [] label = "insert"   -> 9
              [] label = "select"   -> 10
              [] label = "vet"      -> 11]

LEMMA CostOf ==
    /\ Cost["idle"] = 0 /\ Cost["purge"] = 1
    /\ Cost["refused"] = 4 /\ Cost["refused53"] = 4 /\ Cost["fail"] = 2
    /\ Cost["drop"] = 3
    /\ Cost["rest"] = 3 /\ Cost["touch"] = 3 /\ Cost["addPages"] = 3
    /\ Cost["link"] = 4 /\ Cost["unlink"] = 5 /\ Cost["vector"] = 6 /\ Cost["store"] = 7
    /\ Cost["fetch"] = 8 /\ Cost["insert"] = 9 /\ Cost["select"] = 10 /\ Cost["vet"] = 11
  BY DEF Cost, PCs

LEMMA Costs ==
    /\ \A label \in PCs : Cost[label] \in 0..11
    /\ \A label \in PCs \ {"idle"} : Cost[label] > 0
    /\ \A label \in PCs \ {"idle", "fail", "purge"} : Cost[label] > 2
  BY CostOf DEF PCs

\* Every statement of a crawl, one that fails included, brings it nearer to its
\* end; nothing else takes it back but that it is begun.
CrawlRunsDown ==
    \A c \in Crawls :
        /\ Step(c) \/ Throw(c) \/ Kill(c) => Cost[pc'[c]] < Cost[pc[c]]
        /\ Cost[pc'[c]] > Cost[pc[c]] => Begin(c)

LEMMA StatementRunsDown ==
    ASSUME pc \in [Crawls -> PCs], NEW c \in Crawls, Step(c) \/ Throw(c) \/ Kill(c)
    PROVE  \E label \in PCs : pc' = [pc EXCEPT ![c] = label] /\ Cost[label] < Cost[pc[c]]
<1> USE DEF PCs
<1>1. CASE Vet(c)
  <2>1. PICK label \in {"fail", "select"} : pc' = [pc EXCEPT ![c] = label]
    BY <1>1 DEF Vet, Goto
  <2>2. pc[c] = "vet"
    BY <1>1 DEF Vet
  <2>3. Cost[label] < Cost[pc[c]]
    BY <2>2, CostOf
  <2>. QED
    BY <2>1, <2>3
<1>2. CASE Select(c)
  <2>1. PICK label \in {"insert", "rest", "fetch"} : pc' = [pc EXCEPT ![c] = label]
    BY <1>2 DEF Select, Goto
  <2>2. pc[c] = "select"
    BY <1>2 DEF Select
  <2>3. Cost[label] < Cost[pc[c]]
    BY <2>2, CostOf
  <2>. QED
    BY <2>1, <2>3
<1>3. CASE Insert(c)
  <2>1. PICK label \in {"fetch", "fail"} : pc' = [pc EXCEPT ![c] = label]
    BY <1>3 DEF Insert, Goto
  <2>2. pc[c] = "insert"
    BY <1>3 DEF Insert
  <2>3. Cost[label] < Cost[pc[c]]
    BY <2>2, CostOf
  <2>. QED
    BY <2>1, <2>3
<1>4. CASE Fetch(c)
  <2>1. PICK label \in {"touch", "store", "refused", "refused53", "fail"} :
            pc' = [pc EXCEPT ![c] = label]
    BY <1>4 DEF Fetch, Goto
  <2>2. pc[c] = "fetch"
    BY <1>4 DEF Fetch
  <2>3. Cost[label] < Cost[pc[c]]
    BY <2>2, CostOf
  <2>. QED
    BY <2>1, <2>3
<1>5. CASE Rest(c) \/ Touch(c) \/ AddPages(c) \/ Purge(c)
  <2>1. pc' = [pc EXCEPT ![c] = "idle"] /\ pc[c] \in {"rest", "touch", "addPages", "drop", "purge"}
    BY <1>5 DEF Rest, Touch, AddPages, Purge, Finish, Goto
  <2>. QED
    BY <2>1, CostOf
<1>6. CASE Store(c)
  <2>1. pc' = [pc EXCEPT ![c] = "vector"] /\ pc[c] = "store"
    BY <1>6 DEF Store, Goto
  <2>. QED
    BY <2>1, CostOf
<1>7. CASE Vector(c)
  <2>1. PICK label \in {"idle", "unlink"} : pc' = [pc EXCEPT ![c] = label]
    BY <1>7 DEF Vector, Finish, Goto
  <2>2. pc[c] = "vector"
    BY <1>7 DEF Vector
  <2>3. Cost[label] < Cost[pc[c]]
    BY <2>2, CostOf
  <2>. QED
    BY <2>1, <2>3
<1>8. CASE Unlink(c)
  <2>1. pc' = [pc EXCEPT ![c] = "link"] /\ pc[c] = "unlink"
    BY <1>8 DEF Unlink, Goto
  <2>. QED
    BY <2>1, CostOf
<1>9. CASE Link(c)
  <2>1. pc' = [pc EXCEPT ![c] = "addPages"] /\ pc[c] = "link"
    BY <1>9 DEF Link, Goto
  <2>. QED
    BY <2>1, CostOf
<1>10. CASE Refused(c) \/ Fail(c)
  <2>1. PICK label \in {"drop", "purge"} :
            /\ pc' = [pc EXCEPT ![c] = label]
            /\ label = "drop" => pc[c] \in {"refused", "refused53"}
            /\ label = "purge" => pc[c] = "fail"
    BY <1>10 DEF Refused, Fail, Goto
  <2>2. Cost[label] < Cost[pc[c]]
    BY <2>1, CostOf
  <2>. QED
    BY <2>1, <2>2
<1>11. CASE Throw(c)
  <2>1. pc' = [pc EXCEPT ![c] = "fail"] /\ pc[c] \in PCs
        /\ pc[c] \notin {"idle", "fail", "purge"}
    BY <1>11 DEF Throw, AfterCatch, Goto
  <2>2. Cost[pc[c]] > 2 /\ Cost["fail"] = 2
    BY <2>1, Costs, CostOf
  <2>3. Cost["fail"] < Cost[pc[c]]
    BY <2>1, <2>2, Costs
  <2>. QED
    BY <2>1, <2>3
<1>12. CASE Kill(c)
  <2>1. pc' = [pc EXCEPT ![c] = "idle"] /\ pc[c] \in PCs /\ pc[c] # "idle"
    BY <1>12 DEF Kill, Finish, Goto
  <2>2. Cost[pc[c]] > 0 /\ Cost["idle"] = 0
    BY <2>1, Costs, CostOf
  <2>3. Cost["idle"] < Cost[pc[c]]
    BY <2>1, <2>2, Costs
  <2>. QED
    BY <2>1, <2>3
<1>. QED
  BY <1>1, <1>2, <1>3, <1>4, <1>5, <1>6, <1>7, <1>8, <1>9, <1>10, <1>11, <1>12 DEF Step

LEMMA CrawlsRunDown == RestTyped /\ [Next]_vars => CrawlRunsDown
<1> SUFFICES ASSUME RestTyped, [Next]_vars, NEW c \in Crawls
             PROVE  /\ Step(c) \/ Throw(c) \/ Kill(c) => Cost[pc'[c]] < Cost[pc[c]]
                    /\ Cost[pc'[c]] > Cost[pc[c]] => Begin(c)
  BY DEF CrawlRunsDown
<1>0. pc \in [Crawls -> PCs] /\ Cost[pc[c]] \in Int
  BY Costs DEF RestTyped
<1>1. ASSUME Step(c) \/ Throw(c) \/ Kill(c)
      PROVE  Cost[pc'[c]] < Cost[pc[c]] /\ ~(Cost[pc'[c]] > Cost[pc[c]])
  <2>1. PICK label \in PCs : pc' = [pc EXCEPT ![c] = label] /\ Cost[label] < Cost[pc[c]]
    BY <1>0, <1>1, StatementRunsDown
  <2>2. pc'[c] = label
    BY <1>0, <2>1
  <2>3. Cost[label] \in Int
    BY Costs
  <2>. QED
    BY <1>0, <2>1, <2>2, <2>3
<1>2. CASE pc'[c] = pc[c]
  BY <1>0, <1>1, <1>2
<1>3. ASSUME NEW d \in Crawls \ {c}, Begin(d) \/ Step(d) \/ Throw(d) \/ Kill(d)
      PROVE  pc'[c] = pc[c]
  <2>1. CASE Begin(d)
    BY <1>0, <2>1 DEF Begin, Goto
  <2>2. CASE Step(d) \/ Throw(d) \/ Kill(d)
    <3>1. PICK label \in PCs : pc' = [pc EXCEPT ![d] = label]
      BY <1>0, <2>2, StatementRunsDown
    <3>. QED
      BY <1>0, <3>1
  <2>. QED
    BY <1>3, <2>1, <2>2
<1>4. CASE AgeCrawled \/ AgeSuccess \/ Change \/ PurgePage \/ PurgeLinks \/ UNCHANGED vars
  <2>1. pc' = pc
    BY <1>4 DEF AgeCrawled, AgeSuccess, Change, PurgePage, PurgeLinks, vars, local
  <2>. QED
    BY <2>1, <1>2
<1>5. CASE Begin(c)
  BY <1>1, <1>5
<1>. QED
  BY <1>1, <1>2, <1>3, <1>4, <1>5 DEF Next

\* CrawlRunsDown, in every step: a crawl of a page ends after at most eleven
\* statements, whatever other crawls, purges and changes of the capsule do
\* meanwhile, so that crawls of a page that fall quiet stay quiet until one is
\* begun.
THEOREM CrawlIsBounded == SafeSpec => [][CrawlRunsDown]_vars
<1>1. Typed /\ [Next]_vars => [CrawlRunsDown]_vars
  BY CrawlsRunDown DEF Typed
<1>. QED
  BY <1>1, TypedAlways, PTL DEF SafeSpec

=============================================================================
