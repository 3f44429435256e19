--------------------------- MODULE WalletReadsProofs ---------------------------
(***************************************************************************)
(* Proofs about GET requests beside the use cases: what is read with       *)
(* several statements, while others commit between them, is what was there *)
(* at one moment.                                                          *)
(***************************************************************************)
EXTENDS WalletPromiseProofs, WalletReads, SequenceTheorems

-----------------------------------------------------------------------------
(* Readers only read                                                       *)

LEMMA ReadsOnlyRead ==
    ASSUME [ReadsNext]_readsVars
    PROVE  /\ [Next]_vars
           /\ UNCHANGED reading \/ UNCHANGED vars
<1>1. ASSUME NEW d \in Readers, ReadArrives(d) \/ ReadProceeds(d) \/ ReadFails(d)
      PROVE  UNCHANGED vars
  BY <1>1 DEF ReadArrives, ReadProceeds, ReadWalletRow, ReadOperation, ReadOperationEntries,
     AuthorizeOperation, ReadPage, ReadFails
<1> QED
  BY <1>1 DEF ReadsNext, readsVars

\* Readers take nothing from the service and leave nothing in it: beside any number
\* of GET requests it does what it does without them, and all that is proved of its
\* behaviours holds there too.
THEOREM ReadersDoNotDisturb == ReadsSpec => Spec
<1>1. [ReadsNext]_readsVars => [Next]_vars
  BY ReadsOnlyRead
<1>2. ReadsInit => Init
  BY DEF ReadsInit
<1> QED
  BY <1>1, <1>2, PTL DEF ReadsSpec, Spec

-----------------------------------------------------------------------------
(* Lists of rows, newest first                                             *)

\* The rows of S can be told apart by their numbers.
Numbered(S) ==
    /\ \A x \in S : x.sequence \in Int
    /\ \A x, y \in S : x.sequence = y.sequence => x = y

LEMMA OldestRow ==
    ASSUME NEW S, IsFiniteSet(S), S # {}, Numbered(S)
    PROVE  \E m \in S : \A x \in S : m.sequence <= x.sequence
<1> DEFINE Below(x) == {y \in S : y.sequence < x.sequence}
           T == {Below(x) : x \in S}
<1>1. T \subseteq SUBSET S /\ T # {}
  OBVIOUS
<1>2. PICK s \in T : \A t \in T : t \subseteq s => t = s
  <2> HIDE DEF T
  <2> QED
    BY <1>1, SmallestSubset
<1>3. PICK m \in S : s = Below(m)
  BY <1>2
<1>4. ASSUME NEW x \in S
      PROVE  m.sequence <= x.sequence
  <2>1. SUFFICES ASSUME x.sequence < m.sequence PROVE FALSE
    BY DEF Numbered
  <2>2. Below(x) \subseteq Below(m) /\ x \in Below(m) /\ x \notin Below(x)
    BY <2>1 DEF Numbered
  <2>3. Below(x) \in T
    OBVIOUS
  <2> HIDE DEF Below, T
  <2> QED
    BY <1>2, <1>3, <2>2, <2>3
<1> QED
  BY <1>4

\* A finite set of numbered rows has a list.
LEMMA ListExists ==
    ASSUME NEW S, IsFiniteSet(S), Numbered(S)
    PROVE  \E items \in [1 .. Cardinality(S) -> S] : Lists(items, S)
<1> DEFINE Listed(s) == \E items \in [1 .. Cardinality(s) -> s] : Lists(items, s)
           Bad == {s \in SUBSET S : ~ Listed(s)}
<1> SUFFICES ASSUME Bad # {} PROVE FALSE
  OBVIOUS
<1>1. PICK s \in Bad : \A t \in Bad : t \subseteq s => t = s
  <2>1. Bad \subseteq SUBSET S
    OBVIOUS
  <2> HIDE DEF Bad
  <2> QED
    BY <2>1, SmallestSubset
<1>2. s \subseteq S /\ ~ Listed(s) /\ IsFiniteSet(s) /\ Numbered(s)
  BY FS_Subset DEF Numbered
<1>3. CASE s = {}
  <2>1. Cardinality(s) = 0
    BY <1>3, FS_EmptySet
  <2>2. [i \in 1 .. 0 |-> i] \in [1 .. Cardinality(s) -> s]
    BY <2>1
  <2>3. Lists([i \in 1 .. 0 |-> i], s)
    BY <1>3 DEF Lists, Range
  <2> QED
    BY <1>2, <2>2, <2>3
<1>4. CASE s # {}
  <2>1. PICK m \in s : \A x \in s : m.sequence <= x.sequence
    BY <1>2, <1>4, OldestRow
  <2> DEFINE t == s \ {m}
             n == Cardinality(t)
  <2>2. t \in SUBSET S /\ t # s /\ t \subseteq s
    BY <1>2
  <2>3. Listed(t)
    BY <1>1, <2>2
  <2>4. n \in Nat /\ Cardinality(s) = n + 1
    <3>1. IsFiniteSet(t) /\ Cardinality(t) = Cardinality(s) - 1
      BY <1>2, FS_RemoveElement
    <3>2. n \in Nat /\ Cardinality(s) \in Nat
      BY <1>2, <3>1, FS_CardinalityType
    <3> QED
      BY <3>1, <3>2
  <2>5. PICK items \in [1 .. n -> t] : Lists(items, t)
    BY <2>3
  <2> DEFINE more == [i \in 1 .. n + 1 |-> IF i = n + 1 THEN m ELSE items[i]]
  <2> HIDE DEF n
  <2>6. more \in [1 .. n + 1 -> s]
    BY <2>4
  <2>7. \A i \in 1 .. n : more[i] = items[i] /\ items[i] \in t
    BY <2>4
  <2>8. more[n + 1] = m /\ DOMAIN more = 1 .. n + 1 /\ DOMAIN items = 1 .. n
    BY <2>4
  <2> HIDE DEF more
  <2>9. Range(more) = s
    <3>1. \A x \in t : \E i \in 1 .. n : items[i] = x
      BY <2>5, <2>8 DEF Lists, Range
    <3>2. \A x \in s : \E i \in 1 .. n + 1 : more[i] = x
      BY <2>4, <2>7, <2>8, <3>1
    <3> QED
      BY <2>6, <2>8, <3>2 DEF Range
  <2>10. ASSUME NEW i \in 1 .. n + 1, NEW j \in 1 .. n + 1, i < j
         PROVE  more[i].sequence > more[j].sequence
    <3>1. i \in 1 .. n
      BY <2>4, <2>10
    <3>2. CASE j = n + 1
      BY <1>2, <2>1, <2>7, <2>8, <3>1, <3>2 DEF Numbered
    <3>3. CASE j \in 1 .. n
      BY <2>5, <2>7, <2>8, <2>10, <3>1, <3>3 DEF Lists
    <3> QED
      BY <2>4, <3>2, <3>3
  <2>11. Lists(more, s)
    BY <2>8, <2>9, <2>10 DEF Lists
  <2> QED
    BY <1>2, <2>4, <2>6, <2>11
<1> QED
  BY <1>3, <1>4

LEMMA NewestFirstLists ==
    ASSUME NEW S, IsFiniteSet(S), Numbered(S)
    PROVE  /\ NewestFirst(S) \in [1 .. Cardinality(S) -> S]
           /\ Lists(NewestFirst(S), S)
           /\ Cardinality(S) \in Nat
BY ListExists, FS_CardinalityType DEF NewestFirst

From(S, n) == {x \in S : x.sequence >= n}

\* The beginning of a list lists the rows from its end on.
LEMMA Beginning ==
    ASSUME NEW S, Numbered(S), NEW n \in Nat, NEW all \in [1 .. n -> S], Lists(all, S),
           NEW k \in 1 .. n, NEW page, DOMAIN page = 1 .. k,
           \A i \in 1 .. k : page[i] = all[i]
    PROVE  Lists(page, From(S, all[k].sequence))
<1>1. \A i \in 1 .. k : i \in 1 .. n
  OBVIOUS
<1>2. \A i, j \in 1 .. n : i < j => all[i].sequence > all[j].sequence
  BY DEF Lists
<1>3. \A i \in 1 .. n : all[i] \in S /\ all[i].sequence \in Int
  BY DEF Numbered
<1>4. ASSUME NEW i \in 1 .. k
      PROVE  all[i].sequence >= all[k].sequence
  BY <1>1, <1>2, <1>3
<1>5. ASSUME NEW x \in S, x.sequence >= all[k].sequence
      PROVE  \E i \in 1 .. k : page[i] = x
  <2>1. PICK i \in 1 .. n : all[i] = x
    BY DEF Lists, Range
  <2>2. ~ (k < i)
    BY <1>2, <1>3, <1>5, <2>1
  <2>3. i \in 1 .. k
    BY <2>2
  <2> QED
    BY <2>1, <2>3
<1>6. \A i, j \in 1 .. k : i < j => page[i].sequence > page[j].sequence
  BY <1>1, <1>2
<1>7. Range(page) = From(S, all[k].sequence)
  BY <1>1, <1>3, <1>4, <1>5 DEF Range, From
<1> QED
  BY <1>6, <1>7 DEF Lists

\* A page of older rows continues a list.
LEMMA Continuation ==
    ASSUME NEW S, Numbered(S), NEW newer, NEW older,
           newer \subseteq S, older \subseteq S,
           \A x \in newer, y \in older : x.sequence > y.sequence,
           NEW items \in Seq(S), Lists(items, newer),
           NEW page \in Seq(S), Lists(page, older)
    PROVE  Lists(items \o page, newer \cup older)
<1> DEFINE both == items \o page
           k == Len(items)
           l == Len(page)
<1>1. /\ both \in Seq(S) /\ Len(both) = k + l
      /\ \A i \in 1 .. k + l : both[i] = IF i <= k THEN items[i] ELSE page[i - k]
  BY ConcatProperties
<1>2. /\ k \in Nat /\ l \in Nat /\ DOMAIN items = 1 .. k /\ DOMAIN page = 1 .. l
      /\ DOMAIN both = 1 .. k + l
  BY <1>1, LenProperties
<1> HIDE DEF both, k, l
<1>3. \A i \in 1 .. k : both[i] = items[i] /\ items[i] \in newer
  BY <1>1, <1>2 DEF Lists, Range
<1>4. ASSUME NEW i \in 1 .. l
      PROVE  k + i \in 1 .. k + l /\ both[k + i] = page[i] /\ page[i] \in older
  <2>1. k + i \in 1 .. k + l /\ ~ (k + i <= k) /\ (k + i) - k = i
    BY <1>2
  <2>2. both[k + i] = page[i]
    BY <1>1, <2>1
  <2> QED
    BY <1>2, <2>1, <2>2 DEF Lists, Range
<1>5. \A i \in 1 .. k + l : i \in 1 .. k \/ \E j \in 1 .. l : i = k + j
  BY <1>2
<1>6. \A x \in newer : \E i \in 1 .. k : items[i] = x
  BY <1>2 DEF Lists, Range
<1>7. \A x \in older : \E i \in 1 .. l : page[i] = x
  BY <1>2 DEF Lists, Range
<1>8. Range(both) = newer \cup older
  <2>1. \A x \in newer \cup older : \E i \in 1 .. k + l : both[i] = x
    BY <1>2, <1>3, <1>4, <1>6, <1>7
  <2>2. \A i \in 1 .. k + l : both[i] \in newer \cup older
    BY <1>3, <1>4, <1>5
  <2> QED
    BY <1>2, <2>1, <2>2 DEF Range
<1>9. ASSUME NEW i \in 1 .. k + l, NEW j \in 1 .. k + l, i < j
      PROVE  both[i].sequence > both[j].sequence
  <2>1. CASE j \in 1 .. k
    BY <1>2, <1>3, <1>9, <2>1 DEF Lists
  <2>2. CASE i \in 1 .. k /\ j \notin 1 .. k
    BY <1>3, <1>4, <1>5, <2>2
  <2>3. CASE i \notin 1 .. k /\ j \notin 1 .. k
    <3>1. PICK a \in 1 .. l, b \in 1 .. l : i = k + a /\ j = k + b
      BY <1>5, <2>3
    <3>2. a < b
      BY <1>2, <1>9, <3>1
    <3> QED
      BY <1>2, <1>4, <3>1, <3>2 DEF Lists
  <2>4. j \in 1 .. k => i \in 1 .. k
    BY <1>2, <1>9
  <2> QED
    BY <2>1, <2>2, <2>3
<1> QED
  BY <1>2, <1>8, <1>9 DEF Lists, both

-----------------------------------------------------------------------------
(* What a page shows                                                       *)

ServiceInv == PromiseInv /\ LedgerOK /\ AccountedOK /\ VersionsOK

LEMMA ServiceInvariant == Spec => []ServiceInv
BY PromiseInvariant, HistoryInvariant, VersionsInvariant, PTL DEF ServiceInv, HistoryInv

Item ==
    [sequence : Nat \ {0}, transaction : Requests,
     type : {"DEPOSIT", "WITHDRAWAL", "TRANSFER"}, direction : {"DEBIT", "CREDIT"},
     amount : Int, after : Int, counterparty : WalletIDs \cup {NoID}]

\* An entry of the ledger belongs to one transaction.
LEMMA TransactionOfEntry ==
    ASSUME ServiceInv
    PROVE  /\ \A e \in ledger : \E t \in transactions : t.id = e.transaction
           /\ \A t, u \in transactions : t.id = u.id => t = u
BY DEF ServiceInv, PromiseInv, PostedOK, RecordsOK

LEMMA ItemsTyped ==
    ASSUME ServiceInv, NEW e \in ledger, NEW t \in transactions
    PROVE  HistoryItem(e, t) \in Item
<1>1. /\ e \in LedgerEntry /\ e.sequence \in Nat \ {0}
  BY DEF ServiceInv, PromiseInv, StagedInv, MoneyInv, TypeOK, StoreTypeOK, LedgerOK
<1>2. t \in FinancialTransaction
  BY DEF ServiceInv, PromiseInv, StagedInv, MoneyInv, TypeOK, StoreTypeOK
<1> QED
  BY <1>1, <1>2 DEF HistoryItem, Item, LedgerEntry, FinancialTransaction

\* The rows a page is taken from.
LEMMA MatchingRows ==
    ASSUME ServiceInv, NEW q, NEW cursor
    PROVE  /\ \A x \in Matching(q, cursor) : \E e \in ledger, t \in transactions :
                /\ x = HistoryItem(e, t) /\ Selects(q, e, t)
                /\ cursor = 0 \/ e.sequence < cursor
           /\ \A e \in ledger, t \in transactions :
                Selects(q, e, t) /\ (cursor = 0 \/ e.sequence < cursor) =>
                  HistoryItem(e, t) \in Matching(q, cursor)
<1>1. \A e, t : <<e, t>>[1] = e /\ <<e, t>>[2] = t
  OBVIOUS
<1>2. ASSUME NEW e \in ledger, NEW t \in transactions, Selects(q, e, t),
             cursor = 0 \/ e.sequence < cursor
      PROVE  HistoryItem(e, t) \in Matching(q, cursor)
  <2>1. <<e, t>> \in ledger \X transactions
    OBVIOUS
  <2> QED
    BY <1>1, <1>2, <2>1 DEF Matching
<1>3. ASSUME NEW x \in Matching(q, cursor)
      PROVE  \E e \in ledger, t \in transactions :
                /\ x = HistoryItem(e, t) /\ Selects(q, e, t)
                /\ cursor = 0 \/ e.sequence < cursor
  BY <1>3 DEF Matching
<1> QED
  BY <1>2, <1>3

LEMMA MatchingNumbered ==
    ASSUME ServiceInv, NEW q, NEW cursor
    PROVE  /\ Matching(q, cursor) \subseteq Item
           /\ Numbered(Matching(q, cursor))
           /\ IsFiniteSet(Matching(q, cursor))
<1>1. Matching(q, cursor) \subseteq Item
  BY MatchingRows, ItemsTyped
<1>2. ASSUME NEW x \in Matching(q, cursor), NEW y \in Matching(q, cursor),
             x.sequence = y.sequence
      PROVE  x = y
  <2>1. PICK e \in ledger, t \in transactions : x = HistoryItem(e, t) /\ Selects(q, e, t)
    BY MatchingRows
  <2>2. PICK f \in ledger, u \in transactions : y = HistoryItem(f, u) /\ Selects(q, f, u)
    BY MatchingRows
  <2>3. x.sequence = e.sequence /\ y.sequence = f.sequence
    BY <2>1, <2>2 DEF HistoryItem
  <2>4. e = f
    BY <1>2, <2>1, <2>2, <2>3 DEF Selects, ServiceInv, LedgerOK
  <2>5. t = u
    BY <2>1, <2>2, <2>4, TransactionOfEntry DEF Selects
  <2> QED
    BY <2>1, <2>2, <2>4, <2>5
<1>3. IsFiniteSet(Matching(q, cursor))
  <2> DEFINE Of(e) == CHOOSE t \in transactions : t.id = e.transaction
             Image == {HistoryItem(e, Of(e)) : e \in HistoryOf(q.wallet)}
  <2>1. IsFiniteSet(HistoryOf(q.wallet))
    <3>1. CASE \E w \in wallets : w.id = q.wallet
      BY <3>1 DEF ServiceInv, VersionsOK
    <3>2. CASE ~ \E w \in wallets : w.id = q.wallet
      <4>1. HistoryOf(q.wallet) = {}
        BY <3>2 DEF ServiceInv, AccountedOK, HistoryOf
      <4> QED
        BY <4>1, FS_EmptySet
    <3> QED
      BY <3>1, <3>2
  <2>2. IsFiniteSet(Image)
    <3> DEFINE f == [e \in HistoryOf(q.wallet) |-> HistoryItem(e, Of(e))]
    <3>1. Image = {f[e] : e \in HistoryOf(q.wallet)}
      OBVIOUS
    <3>2. f \in Surjection(HistoryOf(q.wallet), Image)
      BY <3>1 DEF Surjection
    <3> QED
      BY <2>1, <3>2, FS_Surjection
  <2>3. ASSUME NEW x \in Matching(q, cursor)
        PROVE  x \in Image
    <3>1. PICK e \in ledger, t \in transactions : x = HistoryItem(e, t) /\ Selects(q, e, t)
      BY MatchingRows
    <3>2. t = Of(e)
      BY <3>1, TransactionOfEntry DEF Selects
    <3>3. e \in HistoryOf(q.wallet)
      BY <3>1 DEF Selects, HistoryOf
    <3> QED
      BY <3>1, <3>2, <3>3
  <2> QED
    BY <2>2, <2>3, FS_Subset
<1> QED
  BY <1>1, <1>2, <1>3 DEF Numbered, Item

\* A page lists the newest rows, all of them if it is the last one.
LEMMA PageLists ==
    ASSUME ServiceInv, NEW q \in Query, q.limit # 0, NEW cursor
    PROVE  /\ Page(q, cursor) \in Seq(Matching(q, cursor))
           /\ ~ HasMore(q, cursor) => Lists(Page(q, cursor), Matching(q, cursor))
           /\ HasMore(q, cursor) =>
                /\ Last(Page(q, cursor)) \in Matching(q, cursor)
                /\ Lists(Page(q, cursor),
                         From(Matching(q, cursor), Last(Page(q, cursor)).sequence))
<1> DEFINE M == Matching(q, cursor)
           n == Cardinality(M)
           all == NewestFirst(M)
           fetched == Fetched(q, cursor)
           k == IF n <= q.limit THEN n ELSE q.limit + 1
<1>1. Numbered(M) /\ IsFiniteSet(M)
  BY MatchingNumbered
<1>2. q.limit \in Nat \ {0}
  BY DEF Query
<1>3. all \in [1 .. n -> M] /\ Lists(all, M) /\ n \in Nat
  <2> HIDE DEF M
  <2> QED
    BY <1>1, NewestFirstLists
<1>4. all \in Seq(M) /\ Len(all) = n
  <2> HIDE DEF M, n, all
  <2> QED
    BY <1>3, SeqDef, LenProperties
<1>5. fetched = SubSeq(all, 1, k)
  BY <1>4 DEF Fetched
<1>6. k \in 0 .. n
  <2> HIDE DEF n
  <2> QED
    BY <1>2, <1>3
<1> HIDE DEF M, n, all, fetched
<1>7. /\ fetched \in Seq(M) /\ Len(fetched) = k
      /\ \A i \in 1 .. k : fetched[i] = all[i]
  <2>1. k \in Int /\ \A i \in 1 .. k : all[i] \in M
    BY <1>3, <1>6
  <2>2. /\ SubSeq(all, 1, k) \in Seq(M)
        /\ Len(SubSeq(all, 1, k)) = IF 1 <= k THEN k - 1 + 1 ELSE 0
        /\ \A i \in 1 .. k - 1 + 1 : SubSeq(all, 1, k)[i] = all[1 + i - 1]
    <3> HIDE DEF k
    <3> QED
      BY <2>1, SubSeqProperties
  <2> HIDE DEF k
  <2> QED
    BY <1>3, <1>5, <1>6, <2>2
<1>8. HasMore(q, cursor) <=> k > q.limit
  BY <1>7 DEF HasMore, fetched
<1>9. CASE ~ HasMore(q, cursor)
  <2>1. k = n /\ Page(q, cursor) = fetched
    BY <1>2, <1>3, <1>8, <1>9 DEF Page, HasMore, fetched
  <2>2. DOMAIN fetched = 1 .. n /\ DOMAIN all = 1 .. n
    BY <1>3, <1>7, <2>1, LenProperties
  <2>3. Range(fetched) = Range(all)
    BY <1>7, <2>1, <2>2 DEF Range
  <2>4. Lists(fetched, M)
    BY <1>3, <1>7, <2>1, <2>2, <2>3 DEF Lists
  <2> QED
    BY <1>7, <1>9, <2>1, <2>4 DEF M
<1>10. CASE HasMore(q, cursor)
  <2> DEFINE page == Page(q, cursor)
             l == q.limit
  <2>1. page = SubSeq(fetched, 1, l) /\ l \in 1 .. n /\ l \in 1 .. k /\ l + 1 = k
    BY <1>2, <1>3, <1>8, <1>10 DEF Page, HasMore, fetched
  <2>2. page \in Seq(M) /\ Len(page) = l /\ \A i \in 1 .. l : page[i] = all[i]
    <3>1. l \in Int /\ \A i \in 1 .. l : fetched[i] = all[i] /\ fetched[i] \in M
      BY <1>2, <1>3, <1>7, <2>1
    <3>2. /\ SubSeq(fetched, 1, l) \in Seq(M)
          /\ Len(SubSeq(fetched, 1, l)) = IF 1 <= l THEN l - 1 + 1 ELSE 0
          /\ \A i \in 1 .. l - 1 + 1 : SubSeq(fetched, 1, l)[i] = fetched[1 + i - 1]
      <4> HIDE DEF l
      <4> QED
        BY <3>1, SubSeqProperties
    <3> HIDE DEF l, page
    <3> QED
      BY <2>1, <3>1, <3>2
  <2>3. Last(page) = all[l] /\ all[l] \in M
    <3>1. Last(page) = page[Len(page)]
      BY DEF Last
    <3> HIDE DEF l, page
    <3> QED
      BY <1>3, <2>1, <2>2, <3>1
  <2>4. DOMAIN page = 1 .. l
    BY <2>2, LenProperties
  <2>5. Lists(page, From(M, all[l].sequence))
    <3>1. l \in 1 .. n /\ \A i \in 1 .. l : page[i] = all[i]
      BY <2>1, <2>2
    <3> HIDE DEF l, page, k
    <3> QED
      BY <1>1, <1>3, <2>4, <3>1, Beginning
  <2> QED
    BY <1>10, <2>2, <2>3, <2>5 DEF M, page
<1> QED
  BY <1>9, <1>10

-----------------------------------------------------------------------------
(* The goroutine of a reader                                               *)

Reading ==
    [at       : {"idle", "wallet", "page", "operation", "entries", "authorize", "done"},
     query    : Query,
     cursor   : {NoCursor} \cup {<<n>> : n \in Nat \ {0}},
     items    : Seq(Item),
     found    : SUBSET (Wallet \cup FinancialTransaction),
     entries  : SUBSET LedgerEntry,
     left     : SUBSET WalletIDs,
     baseline : SUBSET Item,
     losses   : Nat,
     error    : Errors \cup {"ErrLimit"}]

\* Each kind of query has its own statements, and a page a size.
PlaceOf(d) ==
    LET r == reading[d]
    IN  /\ r.at = "idle" => r = NotRead
        /\ r.at \in {"operation", "entries", "authorize"} => r.query.kind = "TRANSACTION"
        /\ r.at \in {"entries", "authorize"} => r.found \subseteq FinancialTransaction
        /\ r.at \in {"wallet", "page"} =>
             \/ r.query.kind = "WALLET" /\ r.at = "wallet"
             \/ r.query.kind = "HISTORY" /\ r.query.limit # 0
        /\ r.at \notin {"idle", "done"} => r.error = NoError

ReadingOK ==
    /\ reading \in [Readers -> Reading]
    /\ \A d \in Readers : PlaceOf(d)

ReaderStep(d) == ReadArrives(d) \/ ReadProceeds(d) \/ ReadFails(d)

LEMMA NotReadTyped == NotRead \in Reading
<1>1. NotRead.query \in Query /\ <<>> \in Seq(Item)
  BY EmptySeq DEF NotRead, Query
<1> QED
  BY <1>1 DEF NotRead, Reading, NoCursor, Errors

\* What a page and its token add to a reader.
LEMMA PageTyped ==
    ASSUME ServiceInv, ReadingOK, NEW d \in Readers, ReadPage(d)
    PROVE  LET q == reading[d].query
               c == decodeCursor(reading[d].cursor)
           IN  /\ Page(q, c) \in Seq(Item)
               /\ reading[d].items \o Page(q, c) \in Seq(Item)
               /\ HasMore(q, c) => Last(Page(q, c)).sequence \in Nat \ {0}
<1> DEFINE q == reading[d].query
           c == decodeCursor(reading[d].cursor)
<1>1. q \in Query /\ q.limit # 0 /\ reading[d].items \in Seq(Item)
  BY DEF ReadingOK, PlaceOf, Reading, ReadPage
<1>2. Matching(q, c) \subseteq Item
  BY MatchingNumbered
<1> HIDE DEF q, c
<1>3. Page(q, c) \in Seq(Item)
  <2>1. Page(q, c) \in Seq(Matching(q, c))
    BY <1>1, PageLists
  <2> QED
    BY <1>2, <2>1, SeqMonotonic
<1>4. HasMore(q, c) => Last(Page(q, c)).sequence \in Nat \ {0}
  <2>1. HasMore(q, c) => Last(Page(q, c)) \in Matching(q, c)
    BY <1>1, PageLists
  <2> QED
    BY <1>2, <2>1 DEF Item
<1> QED
  BY <1>1, <1>3, <1>4, ConcatProperties DEF q, c

\* A reader moves by itself.
LEMMA ReaderAlone ==
    ASSUME ReadingOK, NEW d \in Readers, ReaderStep(d)
    PROVE  reading' = [reading EXCEPT ![d] = reading'[d]]
<1>1. reading \in [Readers -> Reading]
  BY DEF ReadingOK
<1>2. \A e : ReadAnswer(d, e) => reading' = [reading EXCEPT ![d] = reading'[d]]
  BY <1>1 DEF ReadAnswer
<1>3. CASE ReadArrives(d)
  BY <1>1, <1>3 DEF ReadArrives
<1>4. CASE ReadWalletRow(d)
  BY <1>1, <1>2, <1>4 DEF ReadWalletRow
<1>5. CASE ReadOperation(d)
  BY <1>1, <1>2, <1>5 DEF ReadOperation
<1>6. CASE ReadOperationEntries(d)
  BY <1>1, <1>6 DEF ReadOperationEntries
<1>7. CASE \E id \in WalletIDs : AuthorizeOperation(d, id)
  BY <1>1, <1>2, <1>7 DEF AuthorizeOperation
<1>8. CASE ReadPage(d)
  BY <1>1, <1>8 DEF ReadPage
<1>9. CASE ReadFails(d)
  BY <1>1, <1>9 DEF ReadFails
<1> QED
  BY <1>3, <1>4, <1>5, <1>6, <1>7, <1>8, <1>9 DEF ReaderStep, ReadProceeds

LEMMA ReaderMoves ==
    ASSUME ServiceInv, ReadingOK, NEW d \in Readers, ReaderStep(d)
    PROVE  reading'[d] \in Reading /\ PlaceOf(d)'
<1> DEFINE r == reading[d]
           q == reading[d].query
<1> USE DEF ReadingOK
<1>t. r \in Reading /\ PlaceOf(d)
  OBVIOUS
<1>2. ASSUME NEW e \in Errors, ReadAnswer(d, e)
      PROVE  reading'[d] \in Reading /\ PlaceOf(d)'
  <2>1. reading'[d] = [r EXCEPT !.at = "done", !.error = e]
    BY <1>2 DEF ReadAnswer
  <2>2. reading'[d] \in Reading
    BY <1>t, <2>1 DEF Reading
  <2>3. reading'[d].at = "done"
    BY <1>t, <2>1 DEF Reading
  <2> QED
    BY <2>2, <2>3 DEF PlaceOf
<1>e. {"ErrWalletNotFound", "ErrWalletAccessDenied", "ErrTransactionNotFound", NoError} \subseteq Errors
  BY DEF Errors
<1>1. CASE ReadArrives(d)
  <2>1. PICK p \in Queries : reading' = [reading EXCEPT
           ![d].query = p, ![d].error = QueryError(p),
           ![d].at = IF QueryError(p) # NoError THEN "done"
                     ELSE IF p.kind = "TRANSACTION" THEN "operation" ELSE "wallet"]
    BY <1>1 DEF ReadArrives
  <2>2. p \in Query /\ QueryError(p) \in Errors \cup {"ErrLimit"}
    BY ReadsAssumption DEF QueryError, Errors
  <2>3. QueryError(p) = NoError /\ p.kind = "HISTORY" => p.limit # 0
    BY DEF QueryError, MaxLimit, NoError
  <2>4. reading'[d] \in Reading
    BY <1>t, <2>1, <2>2 DEF Reading
  <2>5. PlaceOf(d)'
    BY <1>t, <2>1, <2>2, <2>3 DEF Reading, PlaceOf, Query
  <2> QED
    BY <2>4, <2>5
<1>4. CASE ReadWalletRow(d)
  <2> DEFINE row == {w \in wallets : w.id = q.wallet}
  <2>1. row \in SUBSET (Wallet \cup FinancialTransaction)
    BY DEF ServiceInv, PromiseInv, StagedInv, MoneyInv, TypeOK, StoreTypeOK
  <2>2. \/ ReadAnswer(d, "ErrWalletNotFound") \/ ReadAnswer(d, "ErrWalletAccessDenied")
        \/ reading' = [reading EXCEPT ![d].found = row,
              ![d].at = IF q.kind = "WALLET" THEN "done" ELSE "page"]
    BY <1>4 DEF ReadWalletRow
  <2>3. r.at = "wallet"
    BY <1>4 DEF ReadWalletRow
  <2> HIDE DEF row
  <2>4. CASE reading' = [reading EXCEPT ![d].found = row,
              ![d].at = IF q.kind = "WALLET" THEN "done" ELSE "page"]
    <3>1. reading'[d] = [r EXCEPT !.found = row,
              !.at = IF q.kind = "WALLET" THEN "done" ELSE "page"]
      BY <2>4
    <3>2. reading'[d] \in Reading
      BY <1>t, <2>1, <3>1 DEF Reading
    <3>3. PlaceOf(d)'
      BY <1>t, <2>3, <3>1 DEF Reading, PlaceOf
    <3> QED
      BY <3>2, <3>3
  <2> QED
    BY <1>2, <1>e, <2>2, <2>4
<1>5. CASE ReadOperation(d)
  <2> DEFINE row == {t \in transactions : t.id = q.transaction}
  <2>1. row \in SUBSET FinancialTransaction
    BY DEF ServiceInv, PromiseInv, StagedInv, MoneyInv, TypeOK, StoreTypeOK
  <2>2. r.at = "operation" /\ (\/ ReadAnswer(d, "ErrTransactionNotFound")
          \/ reading' = [reading EXCEPT ![d].at = "entries", ![d].found = row])
    BY <1>5 DEF ReadOperation
  <2> HIDE DEF row
  <2>3. CASE reading' = [reading EXCEPT ![d].at = "entries", ![d].found = row]
    <3>1. reading'[d] = [r EXCEPT !.at = "entries", !.found = row]
      BY <2>3
    <3>4. row \in SUBSET (Wallet \cup FinancialTransaction)
      BY <2>1
    <3>2. reading'[d] \in Reading
      BY <1>t, <3>1, <3>4 DEF Reading
    <3>5. /\ reading'[d].at = "entries" /\ reading'[d].found = row
          /\ reading'[d].query = q /\ reading'[d].error = r.error
      BY <1>t, <3>1 DEF Reading
    <3>6. q.kind = "TRANSACTION" /\ r.error = NoError
      BY <1>t, <2>2 DEF PlaceOf
    <3>3. PlaceOf(d)'
      BY <2>1, <3>5, <3>6 DEF PlaceOf
    <3> QED
      BY <3>2, <3>3
  <2> QED
    BY <1>2, <1>e, <2>2, <2>3
<1>6. CASE ReadOperationEntries(d)
  <2> DEFINE left == UNION {Participants(t) : t \in r.found}
             read == EntriesOf(q.transaction)
  <2>0. left \subseteq WalletIDs
    <3>1. r.found \subseteq FinancialTransaction
      BY <1>6, <1>t DEF ReadOperationEntries, PlaceOf
    <3>2. \A t \in FinancialTransaction : Participants(t) \subseteq WalletIDs
      BY DEF FinancialTransaction, Participants
    <3> QED
      BY <3>1, <3>2
  <2>1. read \subseteq LedgerEntry
    BY DEF ServiceInv, PromiseInv, StagedInv, MoneyInv, TypeOK, StoreTypeOK, EntriesOf
  <2>2. /\ r.at = "entries"
        /\ reading'[d] = [r EXCEPT !.at = "authorize", !.entries = read, !.left = left]
    BY <1>6 DEF ReadOperationEntries
  <2> HIDE DEF left, read
  <2>3. reading'[d] \in Reading
    BY <1>t, <2>0, <2>1, <2>2 DEF Reading
  <2>4. PlaceOf(d)'
    BY <1>t, <2>2 DEF Reading, PlaceOf
  <2> QED
    BY <2>3, <2>4
<1>7. CASE \E id \in WalletIDs : AuthorizeOperation(d, id)
  <2>1. PICK id \in WalletIDs : AuthorizeOperation(d, id)
    BY <1>7
  <2>2. r.at = "authorize"
    BY <2>1 DEF AuthorizeOperation
  <2>3. \/ ReadAnswer(d, "ErrWalletNotFound") \/ ReadAnswer(d, NoError)
        \/ ReadAnswer(d, "ErrWalletAccessDenied")
        \/ reading' = [reading EXCEPT ![d].left = r.left \ {id}]
    BY <2>1 DEF AuthorizeOperation
  <2>4. CASE reading' = [reading EXCEPT ![d].left = r.left \ {id}]
    <3>1. reading'[d] = [r EXCEPT !.left = r.left \ {id}]
      BY <2>4
    <3>2. reading'[d] \in Reading
      BY <1>t, <3>1 DEF Reading
    <3>3. PlaceOf(d)'
      BY <1>t, <2>2, <3>1 DEF Reading, PlaceOf
    <3> QED
      BY <3>2, <3>3
  <2> QED
    BY <1>2, <1>e, <2>3, <2>4
<1>8. CASE ReadPage(d)
  <2> DEFINE c     == decodeCursor(r.cursor)
             page  == Page(q, c)
             items == r.items \o page
             token == encodeCursor(IF HasMore(q, c) THEN Last(page).sequence ELSE 0)
             base  == IF c = 0 THEN Matching(q, 0) ELSE r.baseline
             at    == IF HasMore(q, c) THEN "wallet" ELSE "done"
  <2>1. reading'[d] = [r EXCEPT !.items = items, !.cursor = token, !.baseline = base, !.at = at]
    BY <1>8 DEF ReadPage
  <2>2. r.at = "page"
    BY <1>8 DEF ReadPage
  <2>3. items \in Seq(Item)
    BY <1>8, PageTyped
  <2>4. token \in {NoCursor} \cup {<<n>> : n \in Nat \ {0}}
    BY <1>8, PageTyped DEF encodeCursor
  <2>5. base \in SUBSET Item
    BY <1>t, MatchingNumbered DEF Reading
  <2>6. at \in {"wallet", "done"}
    OBVIOUS
  <2> HIDE DEF items, token, base, at
  <2>7. reading'[d] \in Reading
    BY <1>t, <2>1, <2>3, <2>4, <2>5, <2>6 DEF Reading
  <2>8. PlaceOf(d)'
    BY <1>t, <2>1, <2>2, <2>6 DEF Reading, PlaceOf
  <2> QED
    BY <2>7, <2>8
<1>9. CASE ReadFails(d)
  <2>1. /\ r.at \notin {"idle", "done"}
        /\ reading'[d] = [r EXCEPT !.losses = @ + 1,
             !.at = IF q.kind = "HISTORY" THEN "wallet" ELSE "done",
             !.error = IF q.kind = "HISTORY" THEN NoError ELSE "ErrUnavailable"]
    BY <1>9 DEF ReadFails
  <2> DEFINE at == IF q.kind = "HISTORY" THEN "wallet" ELSE "done"
             e  == IF q.kind = "HISTORY" THEN NoError ELSE "ErrUnavailable"
  <2>6. reading'[d] = [r EXCEPT !.losses = r.losses + 1, !.at = at, !.error = e]
    BY <1>t, <2>1 DEF Reading
  <2>7. at \in {"wallet", "done"} /\ e \in Errors /\ r.losses + 1 \in Nat
    BY <1>t DEF Errors, Reading
  <2>2. reading'[d] \in Reading
    <3> HIDE DEF at, e
    <3> QED
      BY <1>t, <2>6, <2>7 DEF Reading
  <2>5. reading'[d].query = q
    BY <1>t, <2>1 DEF Reading
  <2>3. CASE q.kind = "HISTORY"
    <3>1. q.limit # 0
      BY <1>t, <2>1, <2>3 DEF PlaceOf, Reading
    <3>2. reading'[d].at = "wallet" /\ reading'[d].error = NoError
      BY <1>t, <2>1, <2>3 DEF Reading
    <3> QED
      BY <2>2, <2>3, <2>5, <3>1, <3>2 DEF PlaceOf
  <2>4. CASE q.kind # "HISTORY"
    <3>1. reading'[d].at = "done"
      BY <1>t, <2>1, <2>4 DEF Reading
    <3> QED
      BY <2>2, <3>1 DEF PlaceOf
  <2> QED
    BY <2>2, <2>3, <2>4
<1> QED
  BY <1>1, <1>4, <1>5, <1>6, <1>7, <1>8, <1>9 DEF ReaderStep, ReadProceeds

\* One reader moves while the service rests, or the service while they rest.
LEMMA ReadsCases ==
    ASSUME ReadingOK, [ReadsNext]_readsVars
    PROVE  \/ UNCHANGED reading
           \/ UNCHANGED vars /\ \E d \in Readers :
                /\ ReaderStep(d)
                /\ \A e \in Readers : e # d => reading'[e] = reading[e]
<1>1. ASSUME NEW d \in Readers, ReaderStep(d)
      PROVE  /\ UNCHANGED vars
             /\ \A e \in Readers : e # d => reading'[e] = reading[e]
  <2>1. UNCHANGED vars
    BY <1>1 DEF ReaderStep, ReadArrives, ReadProceeds, ReadWalletRow, ReadOperation,
       ReadOperationEntries, AuthorizeOperation, ReadPage, ReadFails
  <2> QED
    BY <1>1, <2>1, ReaderAlone DEF ReadingOK
<1> QED
  BY <1>1 DEF ReadsNext, readsVars, ReaderStep

LEMMA ReadingStep ==
    ASSUME ServiceInv, ReadingOK, [ReadsNext]_readsVars
    PROVE  ReadingOK'
<1>1. CASE UNCHANGED reading
  BY <1>1 DEF ReadingOK, PlaceOf
<1>2. ASSUME NEW d \in Readers, ReaderStep(d),
             \A e \in Readers : e # d => reading'[e] = reading[e]
      PROVE  ReadingOK'
  <2>1. reading'[d] \in Reading /\ PlaceOf(d)'
    BY <1>2, ReaderMoves
  <2>2. reading' = [reading EXCEPT ![d] = reading'[d]]
    BY <1>2, ReaderAlone
  <2>3. reading' \in [Readers -> Reading]
    BY <2>1, <2>2 DEF ReadingOK
  <2>4. ASSUME NEW e \in Readers, e # d
        PROVE  PlaceOf(e)'
    <3>1. reading'[e] = reading[e] /\ PlaceOf(e)
      BY <1>2, <2>4 DEF ReadingOK
    <3> QED
      BY <3>1 DEF PlaceOf
  <2> QED
    BY <2>1, <2>3, <2>4 DEF ReadingOK
<1> QED
  BY <1>1, <1>2, ReadsCases

LEMMA InitReading == ReadsInit => ReadingOK
BY NotReadTyped DEF ReadsInit, ReadingOK, PlaceOf, NotRead, NoError

\* What is known of the service and of the goroutines of the readers.
ReadsInv == ServiceInv /\ ReadingOK

LEMMA ReadsInvariant == ReadsSpec => []ReadsInv
<1>1. ReadsSpec => []ServiceInv
  BY ReadersDoNotDisturb, ServiceInvariant, PTL
<1>2. ReadsInit => ReadingOK
  BY InitReading
<1>3. ServiceInv /\ ReadingOK /\ [ReadsNext]_readsVars => ReadingOK'
  BY ReadingStep
<1> QED
  BY <1>1, <1>2, <1>3, PTL DEF ReadsSpec, ReadsInv

-----------------------------------------------------------------------------
(* An operation and its entries                                            *)

Granted(r) == r.at = "done" /\ r.error = NoError
Denied(r) == r.at = "done" /\ r.error = "ErrWalletAccessDenied"

Owns(owner, id) == \E w \in wallets : w.id = id /\ w.owner = owner
OwnedByAnother(owner, id) == \E w \in wallets : w.id = id /\ w.owner # owner

\* The row a reader of an operation has found, the entries read after it, and the
\* wallets that have been looked at.
OperationOf(d) ==
    LET r == reading[d]
        q == r.query
    IN  q.kind = "TRANSACTION" =>
          /\ r.at \in {"entries", "authorize"} \/ Granted(r) \/ Denied(r) =>
               \E t \in transactions : t.id = q.transaction /\ r.found = {t}
          /\ r.at = "authorize" \/ Granted(r) => r.entries = EntriesOf(q.transaction)
          /\ r.at = "authorize" =>
               \A t \in r.found :
                 /\ r.left \subseteq Participants(t)
                 /\ \A id \in Participants(t) : id \in r.left \/ OwnedByAnother(q.owner, id)
          /\ Granted(r) =>
               \E t \in r.found : \E id \in Participants(t) : Owns(q.owner, id)
          /\ Denied(r) =>
               \A t \in r.found : \A id \in Participants(t) : OwnedByAnother(q.owner, id)

\* What was read stays true while others commit.
LEMMA OperationStays ==
    ASSUME ServiceInv, [Next]_vars, NEW d \in Readers, OperationOf(d), reading'[d] = reading[d]
    PROVE  OperationOf(d)'
<1> DEFINE r == reading[d]
           q == r.query
<1>1. transactions \subseteq transactions'
  BY HistoryGrows DEF ServiceInv, PromiseInv
<1>2. \A t \in transactions : EntriesOf(t.id)' = EntriesOf(t.id)
  <2>1. \A t \in transactions : EntriesIn(t.id)' = EntriesIn(t.id)
    BY EntriesStay DEF ServiceInv
  <2> QED
    BY <2>1 DEF EntriesIn, EntriesOf
<1>3. \A w \in wallets : \E n \in wallets' : n.id = w.id /\ n.owner = w.owner
  BY AccountsStay DEF SameAccount, ServiceInv, PromiseInv
<1>4. \A owner, id : /\ Owns(owner, id) => Owns(owner, id)'
                     /\ OwnedByAnother(owner, id) => OwnedByAnother(owner, id)'
  BY <1>3 DEF Owns, OwnedByAnother
<1> SUFFICES ASSUME q.kind = "TRANSACTION"
             PROVE  OperationOf(d)'
  BY DEF OperationOf
<1>5. CASE ~ (r.at \in {"entries", "authorize"} \/ Granted(r) \/ Denied(r))
  BY <1>5 DEF OperationOf, Granted, Denied
<1>6. CASE r.at \in {"entries", "authorize"} \/ Granted(r) \/ Denied(r)
  <2>1. PICK t \in transactions : t.id = q.transaction /\ r.found = {t}
    BY <1>6 DEF OperationOf
  <2>2. EntriesOf(q.transaction)' = EntriesOf(q.transaction)
    BY <1>2, <2>1
  <2> QED
    BY <1>1, <1>4, <2>1, <2>2 DEF OperationOf, Granted, Denied
<1> QED
  BY <1>5, <1>6

LEMMA OperationMoves ==
    ASSUME ServiceInv, ReadingOK, NEW d \in Readers, ReaderStep(d), OperationOf(d)
    PROVE  OperationOf(d)'
<1> DEFINE r == reading[d]
           q == r.query
           s == reading'[d]
<1> USE DEF Granted, Denied
<1>r. reading \in [Readers -> Reading] /\ r \in Reading /\ PlaceOf(d)
  BY DEF ReadingOK
<1>v. UNCHANGED vars
  BY DEF ReaderStep, ReadArrives, ReadProceeds, ReadWalletRow, ReadOperation,
     ReadOperationEntries, AuthorizeOperation, ReadPage, ReadFails
<1>o. UNCHANGED <<wallets, transactions, ledger>>
  BY <1>v DEF vars, storeVars, tables
\* Constants, for what they stand for does not change with the state.
<1>q. PICK owner, operation : owner = q.owner /\ operation = q.transaction
  OBVIOUS
<1>a. ASSUME NEW e, ReadAnswer(d, e)
      PROVE  s = [r EXCEPT !.at = "done", !.error = e]
  BY <1>r, <1>a DEF ReadAnswer
<1>n. \A id : /\ Owns(owner, id)' = Owns(owner, id)
             /\ OwnedByAnother(owner, id)' = OwnedByAnother(owner, id)
  BY <1>o DEF Owns, OwnedByAnother
<1>1. CASE ReadArrives(d)
  <2>1. PICK p \in Queries : s = [r EXCEPT
           !.query = p, !.error = QueryError(p),
           !.at = IF QueryError(p) # NoError THEN "done"
                     ELSE IF p.kind = "TRANSACTION" THEN "operation" ELSE "wallet"]
    BY <1>1, <1>r DEF ReadArrives
  <2>2. \/ s.at = "done" /\ s.error \in {"ErrInvalidOwner", "ErrLimit"}
        \/ s.at \in {"operation", "wallet"}
    BY <1>r, <2>1 DEF Reading, QueryError, NoError
  <2> QED
    BY <2>2 DEF OperationOf, NoError
<1>2. CASE q.kind # "TRANSACTION" /\ ~ ReadArrives(d)
  <2>1. s.query = q
    <3>1. \A e : ReadAnswer(d, e) => s.query = q
      BY <1>r DEF ReadAnswer, Reading
    <3>2. CASE ReadWalletRow(d)
      BY <1>r, <3>1, <3>2 DEF ReadWalletRow, Reading
    <3>3. CASE ReadOperation(d)
      BY <1>r, <3>1, <3>3 DEF ReadOperation, Reading
    <3>4. CASE ReadOperationEntries(d)
      BY <1>r, <3>4 DEF ReadOperationEntries, Reading
    <3>5. CASE \E id \in WalletIDs : AuthorizeOperation(d, id)
      BY <1>r, <3>1, <3>5 DEF AuthorizeOperation, Reading
    <3>6. CASE ReadPage(d)
      BY <1>r, <3>6 DEF ReadPage, Reading
    <3>7. CASE ReadFails(d)
      BY <1>r, <3>7 DEF ReadFails, Reading
    <3> QED
      BY <1>2, <3>2, <3>3, <3>4, <3>5, <3>6, <3>7 DEF ReaderStep, ReadProceeds
  <2> QED
    BY <1>2, <2>1 DEF OperationOf
<1> SUFFICES ASSUME q.kind = "TRANSACTION", ~ ReadArrives(d)
             PROVE  OperationOf(d)'
  BY <1>1, <1>2
<1>3. CASE ReadOperation(d)
  <2> DEFINE row == {t \in transactions : t.id = q.transaction}
  <2>1. CASE row = {}
    <3>1. s = [r EXCEPT !.at = "done", !.error = "ErrTransactionNotFound"]
      BY <1>3, <1>a, <2>1 DEF ReadOperation
    <3>2. s.at = "done" /\ s.error = "ErrTransactionNotFound"
      BY <1>r, <3>1 DEF Reading
    <3> QED
      BY <3>2 DEF OperationOf, NoError
  <2>2. CASE row # {}
    <3>1. s = [r EXCEPT !.at = "entries", !.found = row]
      BY <1>3, <1>r, <2>2 DEF ReadOperation
    <3>2. s.at = "entries" /\ s.found = row /\ s.query = q
      BY <1>r, <3>1 DEF Reading
    <3>3. PICK t \in transactions : t.id = q.transaction /\ row = {t}
      BY <2>2, TransactionOfEntry
    <3> HIDE DEF row
    <3> QED
      BY <1>o, <3>2, <3>3 DEF OperationOf
  <2> QED
    BY <2>1, <2>2
<1>4. CASE ReadOperationEntries(d)
  <2> DEFINE rows_ == EntriesOf(q.transaction)
             left == UNION {Participants(t) : t \in r.found}
  <2>1. r.at = "entries" /\ s = [r EXCEPT !.at = "authorize", !.entries = rows_, !.left = left]
    BY <1>4, <1>r DEF ReadOperationEntries
  <2>2. PICK t \in transactions : t.id = q.transaction /\ r.found = {t}
    BY <2>1 DEF OperationOf
  <2>3. /\ s.at = "authorize" /\ s.found = r.found /\ s.query = q
        /\ s.entries = rows_ /\ s.left = left
    <3> HIDE DEF rows_, left
    <3> QED
      BY <1>r, <2>1 DEF Reading
  <2>4. EntriesOf(operation)' = rows_
    BY <1>o, <1>q DEF EntriesOf
  <2>5. left = Participants(t)
    BY <2>2
  <2> HIDE DEF rows_, left
  <2> QED
    BY <1>o, <1>q, <2>2, <2>3, <2>4, <2>5 DEF OperationOf
<1>5. CASE \E id \in WalletIDs : AuthorizeOperation(d, id)
  <2>1. PICK id \in WalletIDs : AuthorizeOperation(d, id)
    BY <1>5
  <2> DEFINE left == r.left \ {id}
  <2>2. r.at = "authorize" /\ id \in r.left
    BY <2>1 DEF AuthorizeOperation
  <2>3. PICK t \in transactions : t.id = q.transaction /\ r.found = {t}
    BY <2>2 DEF OperationOf
  <2>4. r.entries = EntriesOf(q.transaction)
    BY <2>2 DEF OperationOf
  <2>5. /\ r.left \subseteq Participants(t)
        /\ \A i \in Participants(t) : i \in r.left \/ OwnedByAnother(q.owner, i)
    <3>1. t \in r.found
      BY <2>3
    <3> QED
      BY <2>2, <3>1 DEF OperationOf
  <2>6. EntriesOf(operation)' = EntriesOf(operation)
    BY <1>o DEF EntriesOf
  <2>7. CASE ~ \E w \in wallets : w.id = id
    <3>1. s = [r EXCEPT !.at = "done", !.error = "ErrWalletNotFound"]
      BY <2>1, <2>7, <1>a DEF AuthorizeOperation
    <3>2. s.at = "done" /\ s.error = "ErrWalletNotFound"
      BY <1>r, <3>1 DEF Reading
    <3> QED
      BY <3>2 DEF OperationOf, NoError
  <2>8. CASE Owns(q.owner, id)
    <3>1. s = [r EXCEPT !.at = "done", !.error = NoError]
      BY <2>1, <2>8, <1>a DEF AuthorizeOperation, Owns
    <3>2. /\ s.at = "done" /\ s.error = NoError /\ s.found = r.found
          /\ s.entries = r.entries /\ s.query = q
      BY <1>r, <3>1 DEF Reading
    <3>3. id \in Participants(t) /\ Owns(owner, id)'
      BY <2>2, <2>5, <2>8, <1>n, <1>q
    <3> QED
      BY <1>o, <1>q, <2>3, <2>4, <2>6, <3>2, <3>3 DEF OperationOf, NoError
  <2>9. CASE ~ Owns(q.owner, id) /\ \E w \in wallets : w.id = id
    <3>0. OwnedByAnother(q.owner, id)
      BY <2>9 DEF Owns, OwnedByAnother
    <3>1. CASE left = {}
      <4>1. s = [r EXCEPT !.at = "done", !.error = "ErrWalletAccessDenied"]
        BY <2>1, <2>9, <3>1, <1>a DEF AuthorizeOperation, Owns
      <4>2. /\ s.at = "done" /\ s.error = "ErrWalletAccessDenied" /\ s.found = r.found
            /\ s.query = q
        BY <1>r, <4>1 DEF Reading
      <4>3. \A i \in Participants(t) : OwnedByAnother(owner, i)'
        BY <2>5, <3>0, <3>1, <1>n, <1>q
      <4> QED
        BY <1>o, <1>q, <2>3, <4>2, <4>3 DEF OperationOf, NoError
    <3>2. CASE left # {}
      <4>1. s = [r EXCEPT !.left = left]
        BY <1>r, <2>1, <2>9, <3>2 DEF AuthorizeOperation, Owns
      <4>2. /\ s.at = "authorize" /\ s.found = r.found /\ s.query = q
            /\ s.entries = r.entries /\ s.left = left
        BY <1>r, <2>2, <4>1 DEF Reading
      <4>3. \A i \in Participants(t) : i \in left \/ OwnedByAnother(owner, i)'
        BY <2>5, <3>0, <1>n, <1>q
      <4> QED
        BY <1>o, <1>q, <2>3, <2>4, <2>5, <2>6, <4>2, <4>3 DEF OperationOf
    <3> QED
      BY <3>1, <3>2
  <2> QED
    BY <2>7, <2>8, <2>9
<1>6. CASE ReadFails(d)
  <2>1. s = [r EXCEPT !.losses = r.losses + 1, !.at = "done", !.error = "ErrUnavailable"]
    BY <1>6, <1>r DEF ReadFails
  <2>2. s.at = "done" /\ s.error = "ErrUnavailable"
    BY <1>r, <2>1 DEF Reading
  <2> QED
    BY <2>2 DEF OperationOf, NoError
<1>7. ~ ReadWalletRow(d) /\ ~ ReadPage(d)
  BY <1>r DEF PlaceOf, ReadWalletRow, ReadPage
<1> QED
  BY <1>3, <1>4, <1>5, <1>6, <1>7 DEF ReaderStep, ReadProceeds

OperationsOK == \A d \in Readers : OperationOf(d)

LEMMA OperationsInvariant == ReadsSpec => []OperationsOK
<1>1. ReadsInit => OperationsOK
  BY DEF ReadsInit, OperationsOK, OperationOf, NotRead
<1>2. ASSUME ReadsInv, OperationsOK, [ReadsNext]_readsVars
      PROVE  OperationsOK'
  <2>0. ServiceInv /\ ReadingOK /\ [Next]_vars
    BY <1>2, ReadsOnlyRead DEF ReadsInv
  <2>1. CASE UNCHANGED reading
    BY <1>2, <2>0, <2>1, OperationStays DEF OperationsOK
  <2>2. ASSUME NEW d \in Readers, ReaderStep(d),
               \A e \in Readers : e # d => reading'[e] = reading[e]
        PROVE  OperationsOK'
    BY <1>2, <2>0, <2>2, OperationStays, OperationMoves DEF OperationsOK
  <2> QED
    BY <1>2, <2>0, <2>1, <2>2, ReadsCases
<1> QED
  BY <1>1, <1>2, ReadsInvariant, PTL DEF ReadsSpec

\* GetTransaction reads the transaction with one statement and its entries with
\* another, with nothing that holds them together, and what it shows has an entry
\* for each wallet of the transaction: whatever commits between the two, a
\* transaction that was found has all its entries, and none is added later.
THEOREM OperationsAreReadWhole == ReadsSpec => []OperationReadWhole
<1>1. ASSUME ReadsInv, OperationsOK
      PROVE  OperationReadWhole
  <2> SUFFICES ASSUME NEW d \in Readers, ReadOK(d, "TRANSACTION"), NEW t \in reading[d].found
               PROVE  {e.wallet : e \in reading[d].entries} = {t.source, t.destination} \ {NoID}
    BY DEF OperationReadWhole
  <2>1. /\ t \in transactions /\ t.id = reading[d].query.transaction
        /\ reading[d].entries = EntriesOf(t.id)
    BY <1>1 DEF OperationsOK, OperationOf, ReadOK, ReadDone, Granted
  <2>2. FullyPosted(t)
    BY <1>1, <2>1 DEF ReadsInv, ServiceInv, PromiseInv, PostedOK
  <2> QED
    BY <2>1, <2>2 DEF FullyPosted, EntriesOf
<1> QED
  BY <1>1, ReadsInvariant, OperationsInvariant, PTL

\* authorizeOperation goes through the wallets of an operation in the order a Go
\* map happens to have, with a statement for each: an operation is shown to the
\* owner of any of them, and who is refused owns none.
THEOREM OperationsAreShownToParticipants == ReadsSpec => []OperationShownToParticipants
<1>1. ASSUME ReadsInv, OperationsOK
      PROVE  OperationShownToParticipants
  <2> SUFFICES ASSUME NEW d \in Readers, reading[d].query.kind = "TRANSACTION"
               PROVE  LET q == reading[d].query
                          mine == {w \in wallets : w.owner = q.owner}
                          participates == \E t \in reading[d].found, w \in mine :
                                              w.id \in {t.source, t.destination}
                      IN  /\ Granted(reading[d]) => participates
                          /\ Denied(reading[d]) => ~ participates
    BY DEF OperationShownToParticipants, ReadOK, ReadDone, Granted, Denied
  <2> DEFINE q == reading[d].query
  <2>1. OperationOf(d)
    BY <1>1 DEF OperationsOK
  <2>2. CASE Granted(reading[d])
    <3>0. PICK t \in reading[d].found : \E id \in Participants(t) : Owns(q.owner, id)
      BY <2>1, <2>2 DEF OperationOf
    <3>1. PICK id \in Participants(t) : Owns(q.owner, id)
      BY <3>0
    <3>2. PICK w \in wallets : w.id = id /\ w.owner = q.owner
      BY <3>1 DEF Owns
    <3> QED
      BY <2>2, <3>1, <3>2 DEF Participants, Granted, Denied, NoError
  <2>3. CASE Denied(reading[d])
    <3>1. SUFFICES ASSUME NEW t \in reading[d].found, NEW w \in wallets, w.owner = q.owner,
                          w.id \in {t.source, t.destination}
                   PROVE  FALSE
      BY <2>3 DEF Granted, Denied, NoError
    <3>2. wallets \subseteq Wallet /\ WalletsOK
      BY <1>1 DEF ReadsInv, ServiceInv, PromiseInv, StagedInv, MoneyInv, MoneyOK, TypeOK, StoreTypeOK
    <3>3. w.id # NoID
      BY <3>2, DomainAssumption DEF Wallet
    <3>4. w.id \in Participants(t)
      BY <3>1, <3>3 DEF Participants
    <3>5. OwnedByAnother(q.owner, w.id)
      BY <2>1, <2>3, <3>4 DEF OperationOf
    <3> QED
      BY <3>1, <3>2, <3>5 DEF OwnedByAnother, WalletsOK
  <2> QED
    BY <2>2, <2>3
<1> QED
  BY <1>1, ReadsInvariant, OperationsInvariant, PTL

-----------------------------------------------------------------------------
(* A history, page by page                                                 *)

EntriesValid == \A e \in ledger : EntryRowValid(e)

\* What the schema would have refused was never staged, and so never committed.
LEMMA EntriesValidInvariant == Spec => []EntriesValid
<1>1. Init => EntriesValid
  BY DEF Init, EntriesValid
<1>2. ASSUME StagedInv, SchemaNeverRefuses, EntriesValid, [Next]_vars
      PROVE  EntriesValid'
  <2>1. CASE UNCHANGED ledger
    BY <1>2, <2>1 DEF EntriesValid, EntryRowValid
  <2>2. ASSUME NEW q \in Requests, ServerCommits(q)
        PROVE  EntriesValid'
    <3>1. ledger' = ledger \cup tx[q].entries
      BY <2>2 DEF ServerCommits, ApplyCommit
    <3> QED
      BY <1>2, <3>1 DEF EntriesValid, SchemaNeverRefuses, EntryRowValid
  <2>3. CASE \E q \in Requests : RequestStep(q)
    BY <2>1, <2>2, <2>3, OnlyCommitsChangeTables DEF tables
  <2>4. CASE Operator \/ UNCHANGED vars
    BY <2>1, <2>4 DEF Operator, OperatorSetsStatus, vars, storeVars
  <2> QED
    BY <1>2, <2>3, <2>4, NextSplit
<1> QED
  BY <1>1, <1>2, StagedInvariant, ConstraintsNeverNeeded, PTL DEF Spec

LEMMA ListedIn ==
    ASSUME NEW T, NEW items \in Seq(T), NEW S, Range(items) \subseteq S
    PROVE  items \in Seq(S)
<1>1. Len(items) \in Nat /\ DOMAIN items = 1 .. Len(items) /\ items \in [1 .. Len(items) -> T]
  BY LenProperties
<1>2. items \in [1 .. Len(items) -> S]
  BY <1>1 DEF Range
<1> QED
  BY <1>1, <1>2, SeqDef

\* The rows a client that began with the newest of baseline goes through: baseline
\* is the history of the wallet up to some entry.
BeganWith(q, baseline) ==
    /\ baseline \subseteq Matching(q, 0)
    /\ \A x \in baseline, y \in Matching(q, 0) : y.sequence <= x.sequence => y \in baseline

\* The pages so far list the baseline from the token on.
PagesOf(d) ==
    LET r == reading[d]
        q == r.query
    IN  q.kind = "HISTORY" =>
          /\ BeganWith(q, r.baseline)
          /\ r.at \in {"wallet", "page"} /\ r.cursor = NoCursor => r.items = <<>>
          /\ r.at \in {"wallet", "page"} /\ r.cursor # NoCursor =>
               /\ \E x \in r.baseline : x.sequence = r.cursor[1]
               /\ Lists(r.items, From(r.baseline, r.cursor[1]))
          /\ Granted(r) => Lists(r.items, r.baseline)

\* A row that appears is newer than all that were there.
LEMMA MatchingGrows ==
    ASSUME ServiceInv, ServiceInv', [Next]_vars, NEW q
    PROVE  /\ Matching(q, 0) \subseteq Matching(q, 0)'
           /\ \A y \in Matching(q, 0)' : y.sequence \in Int
           /\ \A y \in Matching(q, 0)', x \in Matching(q, 0) :
                y \in Matching(q, 0) \/ y.sequence > x.sequence
<1>0. \A e, t : HistoryItem(e, t)' = HistoryItem(e, t) /\ Selects(q, e, t)' = Selects(q, e, t)
  BY DEF HistoryItem, Selects
<1>1. /\ ledger \subseteq ledger' /\ transactions \subseteq transactions'
      /\ \A e \in ledger' \ ledger, o \in ledger : o.wallet = e.wallet => o.sequence < e.sequence
  BY HistoryGrows DEF ServiceInv, PromiseInv
<1>2. \A x \in Matching(q, 0) : \E e \in ledger, t \in transactions :
        x = HistoryItem(e, t) /\ Selects(q, e, t)
  BY MatchingRows
<1>3. \A e \in ledger, t \in transactions : Selects(q, e, t) => HistoryItem(e, t) \in Matching(q, 0)
  BY MatchingRows
<1>4. \A x \in Matching(q, 0)' : \E e \in ledger', t \in transactions' :
        x = HistoryItem(e, t) /\ Selects(q, e, t)
  BY <1>0 DEF Matching
<1>5. \A e \in ledger', t \in transactions' :
        Selects(q, e, t) => HistoryItem(e, t) \in Matching(q, 0)'
  <2> SUFFICES ASSUME NEW e \in ledger', NEW t \in transactions', Selects(q, e, t)
               PROVE  HistoryItem(e, t) \in Matching(q, 0)'
    OBVIOUS
  <2>1. <<e, t>> \in (ledger \X transactions)' /\ <<e, t>>[1] = e /\ <<e, t>>[2] = t
    OBVIOUS
  <2> QED
    BY <1>0, <2>1 DEF Matching
<1>6. Matching(q, 0) \subseteq Matching(q, 0)'
  BY <1>1, <1>2, <1>5
<1>7. ASSUME NEW y \in Matching(q, 0)', NEW x \in Matching(q, 0), y \notin Matching(q, 0)
      PROVE  y.sequence > x.sequence
  <2>1. PICK e \in ledger', t \in transactions' : y = HistoryItem(e, t) /\ Selects(q, e, t)
    BY <1>4
  <2>2. PICK f \in ledger, u \in transactions : x = HistoryItem(f, u) /\ Selects(q, f, u)
    BY <1>2
  <2>3. e \notin ledger
    <3>1. SUFFICES ASSUME e \in ledger PROVE FALSE
      OBVIOUS
    <3>2. PICK v \in transactions : v.id = e.transaction
      BY <3>1, TransactionOfEntry
    <3>3. \A a, b \in transactions' : a.id = b.id => a = b
      BY DEF ServiceInv, PromiseInv, RecordsOK
    <3>4. v = t
      BY <1>1, <2>1, <3>2, <3>3 DEF Selects
    <3> QED
      BY <1>3, <1>7, <2>1, <3>1, <3>2, <3>4
  <2>4. f.sequence < e.sequence
    BY <1>1, <2>1, <2>2, <2>3 DEF Selects
  <2>5. f.sequence \in Int /\ e.sequence \in Int
    BY DEF ServiceInv, LedgerOK
  <2> QED
    BY <2>1, <2>2, <2>4, <2>5 DEF HistoryItem
<1>8. ASSUME NEW y \in Matching(q, 0)'
      PROVE  y.sequence \in Int
  <2>1. PICK e \in ledger' : y.sequence = e.sequence
    BY <1>4 DEF HistoryItem
  <2> QED
    BY <2>1 DEF ServiceInv, LedgerOK
<1> QED
  BY <1>6, <1>7, <1>8

LEMMA PagesStay ==
    ASSUME ServiceInv, ServiceInv', ReadingOK, [Next]_vars, NEW d \in Readers, PagesOf(d),
           reading'[d] = reading[d]
    PROVE  PagesOf(d)'
<1>1. SUFFICES ASSUME reading[d].query.kind = "HISTORY"
               PROVE  BeganWith(reading[d].query, reading[d].baseline)'
  BY DEF PagesOf, Granted
<1>2. PICK q, baseline : q = reading[d].query /\ baseline = reading[d].baseline
  OBVIOUS
<1>3. BeganWith(q, baseline) /\ baseline \subseteq Item
  BY <1>1, <1>2 DEF PagesOf, ReadingOK, Reading
<1>4. /\ Matching(q, 0) \subseteq Matching(q, 0)'
      /\ \A y \in Matching(q, 0)' : y.sequence \in Int
      /\ \A y \in Matching(q, 0)', x \in Matching(q, 0) :
           y \in Matching(q, 0) \/ y.sequence > x.sequence
  BY MatchingGrows
<1>6. ASSUME NEW x \in baseline, NEW y \in Matching(q, 0)', y.sequence <= x.sequence
      PROVE  y \in baseline
  <2>1. x \in Matching(q, 0) /\ x.sequence \in Int /\ y.sequence \in Int
    BY <1>3, <1>4 DEF BeganWith, Item
  <2>2. y \in Matching(q, 0)
    BY <1>4, <1>6, <2>1
  <2> QED
    BY <1>3, <1>6, <2>2 DEF BeganWith
<1>7. BeganWith(q, baseline)'
  BY <1>3, <1>4, <1>6 DEF BeganWith
<1> QED
  BY <1>2, <1>7

\* The rows below a token are those of the baseline that are left.
LEMMA RowsLeft ==
    ASSUME ServiceInv, NEW q, NEW baseline, BeganWith(q, baseline), NEW n \in Nat \ {0},
           \E x \in baseline : x.sequence = n
    PROVE  Matching(q, n) = {x \in baseline : x.sequence < n}
<1>1. ASSUME NEW y \in Matching(q, n)
      PROVE  y \in baseline /\ y.sequence < n
  <2>1. PICK e \in ledger, t \in transactions :
          y = HistoryItem(e, t) /\ Selects(q, e, t) /\ e.sequence < n
    BY MatchingRows
  <2>2. y \in Matching(q, 0) /\ y.sequence = e.sequence /\ e.sequence \in Int
    BY <2>1, MatchingRows DEF HistoryItem, ServiceInv, LedgerOK
  <2> QED
    BY <2>1, <2>2 DEF BeganWith
<1>2. ASSUME NEW x \in baseline, x.sequence < n
      PROVE  x \in Matching(q, n)
  <2>1. x \in Matching(q, 0)
    BY DEF BeganWith
  <2>2. PICK e \in ledger, t \in transactions : x = HistoryItem(e, t) /\ Selects(q, e, t)
    BY <2>1, MatchingRows
  <2>3. e.sequence < n
    BY <1>2, <2>2 DEF HistoryItem
  <2> QED
    BY <2>2, <2>3, MatchingRows
<1> QED
  BY <1>1, <1>2

\* One page more.
LEMMA PageContinues ==
    ASSUME ServiceInv, ReadingOK, NEW d \in Readers, ReadPage(d), PagesOf(d)
    PROVE  LET q == reading[d].query
               c == decodeCursor(reading[d].cursor)
               base == IF c = 0 THEN Matching(q, 0) ELSE reading[d].baseline
               items == reading[d].items \o Page(q, c)
               last == Last(Page(q, c)).sequence
           IN  /\ BeganWith(q, base)
               /\ ~ HasMore(q, c) => Lists(items, base)
               /\ HasMore(q, c) => /\ \E x \in base : x.sequence = last
                                   /\ Lists(items, From(base, last))
<1> DEFINE r == reading[d]
           q == reading[d].query
           c == decodeCursor(reading[d].cursor)
           M == Matching(q, c)
           page == Page(q, c)
           last == Last(page).sequence
<1>1. /\ r \in Reading /\ q \in Query /\ q.kind = "HISTORY" /\ q.limit # 0 /\ r.at = "page"
      /\ r.items \in Seq(Item)
  BY DEF ReadingOK, PlaceOf, Reading, ReadPage
<1>2. M \subseteq Item /\ Numbered(M)
  BY MatchingNumbered
<1>3. /\ page \in Seq(M)
      /\ ~ HasMore(q, c) => Lists(page, M)
      /\ HasMore(q, c) => Last(page) \in M /\ Lists(page, From(M, last))
  BY <1>1, PageLists
<1>4. CASE r.cursor = NoCursor
  <2>1. c = 0 /\ r.items = <<>>
    BY <1>1, <1>4 DEF decodeCursor, PagesOf
  <2>2. r.items \o page = page
    BY <1>3, <2>1, ConcatEmptySeq
  <2>3. BeganWith(q, M)
    BY <2>1 DEF BeganWith
  <2> HIDE DEF q, c, M, page
  <2> QED
    BY <1>3, <2>1, <2>2, <2>3 DEF M, q, c, page
<1>5. CASE r.cursor # NoCursor
  <2> DEFINE B == r.baseline
  <2>1. PICK n \in Nat \ {0} : r.cursor = <<n>>
    BY <1>1, <1>5 DEF Reading
  <2>2. c = n
    BY <1>5, <2>1 DEF decodeCursor
  <2>3. BeganWith(q, B) /\ (\E x \in B : x.sequence = n) /\ Lists(r.items, From(B, n))
    BY <1>1, <1>5, <2>1 DEF PagesOf
  <2>4. M = {x \in B : x.sequence < n}
    <3> HIDE DEF q, B
    <3> QED
      BY <2>2, <2>3, RowsLeft
  <2>5. B \subseteq Item /\ Numbered(B)
    <3>1. B \subseteq Matching(q, 0)
      BY <2>3 DEF BeganWith
    <3>2. Matching(q, 0) \subseteq Item /\ Numbered(Matching(q, 0))
      BY MatchingNumbered
    <3> HIDE DEF B
    <3> QED
      BY <3>1, <3>2 DEF Numbered
  <2>6. r.items \in Seq(B)
    <3>1. Range(r.items) \subseteq B
      BY <2>3 DEF Lists, From
    <3> HIDE DEF B
    <3> QED
      BY <1>1, <3>1, ListedIn
  <2>7. page \in Seq(B)
    <3> HIDE DEF page, M, B
    <3> QED
      BY <1>3, <2>4, SeqMonotonic
  <2> DEFINE newer == From(B, n)
  <2>8. newer \subseteq B /\ M \subseteq B /\ \A x \in newer, y \in M : x.sequence > y.sequence
    BY <2>4, <2>5 DEF From, Numbered
  <2>9. CASE ~ HasMore(q, c)
    <3>1. Lists(page, M)
      BY <1>3, <2>9
    <3>2. newer \cup M = B
      BY <2>4, <2>5 DEF From, Numbered
    <3>3. Lists(r.items, newer)
      BY <2>3
    <3> HIDE DEF r, q, c, M, page, B, newer
    <3>4. Lists(r.items \o page, newer \cup M)
      BY <2>5, <2>6, <2>7, <2>8, <3>1, <3>3, Continuation
    <3> QED
      BY <2>2, <2>3, <2>9, <3>2, <3>4 DEF r, q, c, B, page
  <2>10. CASE HasMore(q, c)
    <3> DEFINE older == From(M, last)
    <3>1. Last(page) \in M /\ Lists(page, older)
      BY <1>3, <2>10
    <3>2. older \subseteq B /\ \A x \in newer, y \in older : x.sequence > y.sequence
      BY <2>8 DEF From
    <3>3. Lists(r.items, newer)
      BY <2>3
    <3>5. last \in Int /\ last < n /\ Last(page) \in B
      BY <1>2, <2>4, <3>1 DEF Item
    <3>6. newer \cup older = From(B, last)
      BY <2>4, <2>5, <3>5 DEF From, Numbered
    <3> HIDE DEF r, q, c, M, page, B, newer, older, last
    <3>4. Lists(r.items \o page, newer \cup older)
      BY <2>5, <2>6, <2>7, <2>8, <3>1, <3>2, <3>3, Continuation
    <3> QED
      BY <2>2, <2>3, <2>10, <3>4, <3>5, <3>6 DEF r, q, c, B, page, last
  <2> QED
    BY <2>9, <2>10
<1> QED
  BY <1>4, <1>5

LEMMA PagesMove ==
    ASSUME ServiceInv, ReadingOK, NEW d \in Readers, ReaderStep(d), PagesOf(d)
    PROVE  PagesOf(d)'
<1> DEFINE r == reading[d]
           s == reading'[d]
<1> USE DEF Granted
<1>r. reading \in [Readers -> Reading] /\ r \in Reading /\ PlaceOf(d)
  BY DEF ReadingOK
<1>v. UNCHANGED <<transactions, ledger>>
  BY DEF ReaderStep, ReadArrives, ReadProceeds, ReadWalletRow, ReadOperation,
     ReadOperationEntries, AuthorizeOperation, ReadPage, ReadFails, vars, storeVars, tables
<1>m. \A q, c : Matching(q, c)' = Matching(q, c)
  BY <1>v DEF Matching, Selects, HistoryItem
<1>b. \A q, baseline : BeganWith(q, baseline)' = BeganWith(q, baseline)
  BY <1>m DEF BeganWith
<1>a. ASSUME NEW e, ReadAnswer(d, e)
      PROVE  s = [r EXCEPT !.at = "done", !.error = e]
  BY <1>r, <1>a DEF ReadAnswer
<1>1. CASE ReadArrives(d)
  <2>1. PICK p \in Queries : s = [r EXCEPT
           !.query = p, !.error = QueryError(p),
           !.at = IF QueryError(p) # NoError THEN "done"
                     ELSE IF p.kind = "TRANSACTION" THEN "operation" ELSE "wallet"]
    BY <1>1, <1>r DEF ReadArrives
  <2>2. r.cursor = NoCursor /\ r.items = <<>> /\ r.baseline = {}
    BY <1>1, <1>r DEF PlaceOf, ReadArrives, NotRead
  <2>3. s.cursor = r.cursor /\ s.items = r.items /\ s.baseline = r.baseline
    BY <1>r, <2>1 DEF Reading
  <2>4. \/ s.at = "done" /\ s.error # NoError
        \/ s.at \in {"operation", "wallet"}
    BY <1>r, <2>1 DEF Reading
  <2>5. \A q : BeganWith(q, {})
    BY DEF BeganWith
  <2> QED
    BY <1>b, <2>2, <2>3, <2>4, <2>5 DEF PagesOf
<1>2. ASSUME s.query = r.query, s.cursor = r.cursor, s.items = r.items,
             s.baseline = r.baseline, s.at \in {"wallet", "page"} => r.at \in {"wallet", "page"},
             s.at = "done" /\ s.error = NoError => r.query.kind # "HISTORY"
      PROVE  PagesOf(d)'
  <2> SUFFICES ASSUME r.query.kind = "HISTORY"
               PROVE  PagesOf(d)'
    BY <1>2 DEF PagesOf
  <2>1. PICK q, baseline : q = r.query /\ baseline = r.baseline
    OBVIOUS
  <2>2. BeganWith(q, baseline)'
    BY <1>b, <2>1 DEF PagesOf
  <2> QED
    BY <1>2, <2>1, <2>2 DEF PagesOf
<1>3. CASE ReadWalletRow(d)
  <2>1. r.at = "wallet"
    BY <1>3 DEF ReadWalletRow
  <2>2. ASSUME NEW e \in {"ErrWalletNotFound", "ErrWalletAccessDenied"}, ReadAnswer(d, e)
        PROVE  PagesOf(d)'
    <3>1. s = [r EXCEPT !.at = "done", !.error = e]
      BY <1>a, <2>2
    <3>2. /\ s.query = r.query /\ s.cursor = r.cursor /\ s.items = r.items
          /\ s.baseline = r.baseline /\ s.at = "done" /\ s.error = e
      BY <1>r, <3>1 DEF Reading
    <3> QED
      BY <1>2, <2>2, <3>2 DEF NoError
  <2> DEFINE row == {w \in wallets : w.id = r.query.wallet}
  <2>3. ASSUME reading' = [reading EXCEPT ![d].found = row,
                  ![d].at = IF r.query.kind = "WALLET" THEN "done" ELSE "page"]
        PROVE  PagesOf(d)'
    <3> HIDE DEF row
    <3>1. s = [r EXCEPT !.found = row,
                  !.at = IF r.query.kind = "WALLET" THEN "done" ELSE "page"]
      BY <1>r, <2>3
    <3>2. /\ s.query = r.query /\ s.cursor = r.cursor /\ s.items = r.items
          /\ s.baseline = r.baseline
          /\ s.at = IF r.query.kind = "WALLET" THEN "done" ELSE "page"
      BY <1>r, <3>1 DEF Reading
    <3> QED
      BY <1>2, <2>1, <3>2
  <2>4. \/ ReadAnswer(d, "ErrWalletNotFound") \/ ReadAnswer(d, "ErrWalletAccessDenied")
        \/ reading' = [reading EXCEPT ![d].found = row,
              ![d].at = IF r.query.kind = "WALLET" THEN "done" ELSE "page"]
    BY <1>3 DEF ReadWalletRow
  <2> QED
    BY <2>2, <2>3, <2>4
<1>4. CASE ReadOperation(d) \/ ReadOperationEntries(d) \/ \E id \in WalletIDs : AuthorizeOperation(d, id)
  <2>1. r.query.kind = "TRANSACTION"
    BY <1>r, <1>4 DEF PlaceOf, ReadOperation, ReadOperationEntries, AuthorizeOperation
  <2>2. \A e : ReadAnswer(d, e) => s.query = r.query
    BY <1>r DEF ReadAnswer, Reading
  <2>3. s.query = r.query
    <3>1. CASE ReadOperation(d)
      BY <1>r, <2>2, <3>1 DEF ReadOperation, Reading
    <3>2. CASE ReadOperationEntries(d)
      BY <1>r, <3>2 DEF ReadOperationEntries, Reading
    <3>3. CASE \E id \in WalletIDs : AuthorizeOperation(d, id)
      BY <1>r, <2>2, <3>3 DEF AuthorizeOperation, Reading
    <3> QED
      BY <1>4, <3>1, <3>2, <3>3
  <2> QED
    BY <2>1, <2>3 DEF PagesOf
<1>5. CASE ReadFails(d)
  <2>1. s = [r EXCEPT !.losses = r.losses + 1,
             !.at = IF r.query.kind = "HISTORY" THEN "wallet" ELSE "done",
             !.error = IF r.query.kind = "HISTORY" THEN NoError ELSE "ErrUnavailable"]
    BY <1>5, <1>r DEF ReadFails
  <2>2. /\ s.query = r.query /\ s.cursor = r.cursor /\ s.items = r.items
        /\ s.baseline = r.baseline
        /\ s.at = IF r.query.kind = "HISTORY" THEN "wallet" ELSE "done"
    BY <1>r, <2>1 DEF Reading
  <2>3. r.query.kind = "HISTORY" => r.at \in {"wallet", "page"}
    BY <1>5, <1>r DEF PlaceOf, ReadFails, Reading
  <2>4. r.query.kind # "HISTORY" => s.query.kind # "HISTORY"
    BY <2>2
  <2> QED
    BY <1>2, <2>2, <2>3, <2>4 DEF PagesOf
<1>6. CASE ReadPage(d)
  <2> DEFINE q == r.query
             c == decodeCursor(r.cursor)
             items == r.items \o Page(q, c)
             last == Last(Page(q, c)).sequence
             base == IF c = 0 THEN Matching(q, 0) ELSE r.baseline
             token == encodeCursor(IF HasMore(q, c) THEN last ELSE 0)
             at == IF HasMore(q, c) THEN "wallet" ELSE "done"
  <2>1. s = [r EXCEPT !.items = items, !.cursor = token, !.baseline = base, !.at = at]
    BY <1>6, <1>r DEF ReadPage
  <2>2. /\ BeganWith(q, base)
        /\ ~ HasMore(q, c) => Lists(items, base)
        /\ HasMore(q, c) => /\ \E x \in base : x.sequence = last
                            /\ Lists(items, From(base, last))
                            /\ last \in Nat \ {0}
    BY <1>6, PageContinues, PageTyped
  <2>3. /\ HasMore(q, c) => token = <<last>> /\ at = "wallet"
        /\ ~ HasMore(q, c) => token = NoCursor /\ at = "done"
    BY <2>2 DEF encodeCursor
  <2>4. PICK more, item_, base_, last_, q_ :
          /\ more = HasMore(q, c) /\ item_ = items /\ base_ = base /\ last_ = last /\ q_ = q
    OBVIOUS
  <2> HIDE DEF items, token, base, at, last
  <2>5. s.query = q_ /\ s.items = item_ /\ s.cursor = token /\ s.baseline = base_ /\ s.at = at
    BY <1>r, <2>1, <2>4 DEF Reading
  <2>6. BeganWith(q_, base_)'
    BY <1>b, <2>2, <2>4
  <2>7. /\ ~ more => Lists(item_, base_) /\ s.cursor = NoCursor /\ s.at = "done"
        /\ more => /\ \E x \in base_ : x.sequence = last_
                   /\ Lists(item_, From(base_, last_))
                   /\ s.cursor = <<last_>> /\ s.at = "wallet"
    BY <2>2, <2>3, <2>4, <2>5
  <2>8. more \in BOOLEAN
    BY <2>4 DEF HasMore
  <2> HIDE DEF q, c
  <2>9. CASE more
    <3>1. s.at = "wallet" /\ s.cursor[1] = last_
      BY <2>7, <2>9
    <3>2. (\E x \in base_ : x.sequence = last_) /\ Lists(item_, From(base_, last_))
      BY <2>7, <2>9
    <3>3. s.cursor # NoCursor
      BY <2>7, <2>9 DEF NoCursor
    <3> QED
      BY <2>5, <2>6, <3>1, <3>2, <3>3 DEF PagesOf
  <2>10. CASE ~ more
    BY <2>5, <2>6, <2>7, <2>10 DEF PagesOf
  <2> QED
    BY <2>9, <2>10
<1> QED
  BY <1>1, <1>3, <1>4, <1>5, <1>6 DEF ReaderStep, ReadProceeds

PagesOK == \A d \in Readers : PagesOf(d)

LEMMA PagesInvariant == ReadsSpec => []PagesOK
<1>1. ReadsInit => PagesOK
  BY DEF ReadsInit, PagesOK, PagesOf, NotRead
<1>2. ASSUME ReadsInv, ReadsInv', PagesOK, [ReadsNext]_readsVars
      PROVE  PagesOK'
  <2>0. ServiceInv /\ ServiceInv' /\ ReadingOK /\ [Next]_vars
    BY <1>2, ReadsOnlyRead DEF ReadsInv
  <2>1. CASE UNCHANGED reading
    BY <1>2, <2>0, <2>1, PagesStay DEF PagesOK
  <2>2. ASSUME NEW d \in Readers, ReaderStep(d),
               \A e \in Readers : e # d => reading'[e] = reading[e]
        PROVE  PagesOK'
    BY <1>2, <2>0, <2>2, PagesStay, PagesMove DEF PagesOK
  <2> QED
    BY <1>2, <2>0, <2>1, <2>2, ReadsCases
<1> QED
  BY <1>1, <1>2, ReadsInvariant, PTL DEF ReadsSpec

\* A history of every type is a statement that adds up.
LEMMA StatementAddsUp ==
    ASSUME ServiceInv, EntriesValid, NEW q, q.type = NoName, NEW baseline,
           BeganWith(q, baseline), NEW items \in Seq(Item), Lists(items, baseline)
    PROVE  AddsUp(items)
<1> DEFINE n == Len(items)
<1>1. n \in Nat /\ DOMAIN items = 1 .. n /\ \A j \in 1 .. n : items[j] \in Item
  BY LenProperties
<1> HIDE DEF n
<1>2. \A j \in 1 .. n : items[j] \in baseline /\ items[j].sequence \in Int
  <2>1. \A x \in Item : x.sequence \in Int
    BY DEF Item
  <2> QED
    BY <1>1, <2>1 DEF Lists, Range
<1>3. \A j, k \in 1 .. n : j < k => items[j].sequence > items[k].sequence
  BY <1>1 DEF Lists
<1>4. ASSUME NEW j \in 1 .. n
      PROVE  \E e \in ledger :
               /\ e.wallet = q.wallet /\ items[j].sequence = e.sequence
               /\ items[j].direction = e.direction /\ items[j].amount = e.amount
               /\ items[j].after = e.after
  <2>1. items[j] \in Matching(q, 0)
    BY <1>2 DEF BeganWith
  <2>2. PICK e \in ledger, t \in transactions : items[j] = HistoryItem(e, t) /\ Selects(q, e, t)
    BY <2>1, MatchingRows
  <2> QED
    BY <2>2 DEF HistoryItem, Selects
<1>5. /\ \A e \in ledger : e.sequence \in Int
      /\ \A e, f \in ledger : e.wallet = f.wallet /\ e.sequence = f.sequence => e = f
      /\ \A e \in ledger : e.direction \in {"DEBIT", "CREDIT"} /\ e.amount \in Int
                           /\ e.before \in Int /\ e.after \in Int
  BY DEF ServiceInv, PromiseInv, StagedInv, MoneyInv, TypeOK, StoreTypeOK, LedgerOK, LedgerEntry
\* Whatever is older than a row of the list comes after it.
<1>6. ASSUME NEW i \in 1 .. n, NEW p \in ledger, p.wallet = q.wallet,
             p.sequence < items[i].sequence
      PROVE  \E j \in 1 .. n : i < j /\ items[j].sequence = p.sequence
  <2>1. PICK u \in transactions : u.id = p.transaction
    BY TransactionOfEntry
  <2>2. Selects(q, p, u)
    BY <1>6, <2>1 DEF Selects
  <2>3. HistoryItem(p, u) \in Matching(q, 0) /\ HistoryItem(p, u).sequence = p.sequence
    BY <2>2, MatchingRows DEF HistoryItem
  <2>4. HistoryItem(p, u) \in baseline
    BY <1>2, <1>5, <1>6, <2>3 DEF BeganWith
  <2>5. PICK j \in 1 .. n : items[j] = HistoryItem(p, u)
    BY <1>1, <2>4 DEF Lists, Range
  <2>6. i < j
    BY <1>1, <1>2, <1>3, <1>6, <2>3, <2>5
  <2> QED
    BY <2>3, <2>5, <2>6
<1>7. ASSUME NEW i \in 1 .. n
      PROVE  items[i].after = (IF i = n THEN 0 ELSE items[i + 1].after)
               + (IF items[i].direction = "DEBIT" THEN - items[i].amount ELSE items[i].amount)
  <2>1. PICK e \in ledger :
          /\ e.wallet = q.wallet /\ items[i].sequence = e.sequence
          /\ items[i].direction = e.direction /\ items[i].amount = e.amount
          /\ items[i].after = e.after
    BY <1>4
  <2>2. EndsAt(e.wallet, e.sequence, e.before)
    BY DEF ServiceInv, AccountedOK
  <2>3. e.after = e.before + (IF e.direction = "DEBIT" THEN - e.amount ELSE e.amount)
    BY <1>5 DEF EntriesValid, EntryRowValid
  <2>4. CASE i = n
    <3>1. \A p \in ledger : p.wallet = e.wallet => ~ (p.sequence < e.sequence)
      BY <1>1, <1>6, <2>1, <2>4
    <3>2. e.before = 0
      BY <2>2, <3>1 DEF EndsAt, NewestBefore
    <3> QED
      BY <2>1, <2>3, <2>4, <3>2
  <2>5. CASE i # n
    <3>1. i + 1 \in 1 .. n /\ i < i + 1
      BY <1>1, <2>5
    <3>2. PICK f \in ledger :
            f.wallet = q.wallet /\ items[i + 1].sequence = f.sequence /\ items[i + 1].after = f.after
      BY <1>4, <3>1
    <3>3. f.sequence < e.sequence
      BY <1>3, <1>5, <2>1, <3>1, <3>2
    <3>4. PICK o \in ledger : NewestBefore(o, e.wallet, e.sequence) /\ o.after = e.before
      BY <2>1, <2>2, <3>2, <3>3 DEF EndsAt
    <3>5. o.wallet = q.wallet /\ o.sequence < e.sequence /\ f.sequence <= o.sequence
      BY <2>1, <3>2, <3>3, <3>4 DEF NewestBefore
    <3>6. PICK j \in 1 .. n : i < j /\ items[j].sequence = o.sequence
      BY <1>6, <2>1, <3>5
    <3>7. j = i + 1 \/ i + 1 < j
      BY <3>1, <3>6
    <3>8. o.sequence <= f.sequence
      BY <1>2, <1>3, <1>5, <3>1, <3>2, <3>6, <3>7
    <3>9. o = f
      BY <1>5, <3>2, <3>5, <3>8
    <3> QED
      BY <2>1, <2>3, <2>5, <3>2, <3>4, <3>9
  <2> QED
    BY <2>4, <2>5
<1> QED
  BY <1>1, <1>7 DEF AddsUp, n

\* A client that follows nextCursor to the end has what the history of the wallet
\* held when its first page was read, newest first, nothing twice and nothing left
\* out, and the balances shown follow from one another: entries that commit while
\* it pages are newer than the row its token names, whatever pages are asked for
\* again.
THEOREM PagesShowTheHistory == ReadsSpec => []PagesAreTheHistory
<1>1. ASSUME ReadsInv, EntriesValid, PagesOK
      PROVE  PagesAreTheHistory
  <2> SUFFICES ASSUME NEW d \in Readers, ReadOK(d, "HISTORY")
               PROVE  LET items == reading[d].items
                      IN  /\ Lists(items, reading[d].baseline)
                          /\ reading[d].query.type = NoName => AddsUp(items)
    BY DEF PagesAreTheHistory
  <2>1. /\ Lists(reading[d].items, reading[d].baseline)
        /\ BeganWith(reading[d].query, reading[d].baseline)
    BY <1>1 DEF PagesOK, PagesOf, ReadOK, ReadDone, Granted
  <2>2. reading[d].items \in Seq(Item)
    BY <1>1 DEF ReadsInv, ReadingOK, Reading
  <2> QED
    BY <1>1, <2>1, <2>2, StatementAddsUp DEF ReadsInv
<1>2. ReadsSpec => []EntriesValid
  BY ReadersDoNotDisturb, EntriesValidInvariant, PTL
<1> QED
  BY <1>1, <1>2, ReadsInvariant, PagesInvariant, PTL
=============================================================================
