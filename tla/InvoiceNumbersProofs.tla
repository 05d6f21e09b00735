------------------------ MODULE InvoiceNumbersProofs ------------------------
(***************************************************************************)
(* No two invoices reserve one number, for any issuers, series and carts,  *)
(* whatever was issued before there were counters.                         *)
(***************************************************************************)
EXTENDS InvoiceNumbers, TLAPS

Reserving == {"inserting", "fulfilling"}

UpTo(p, m) == \A n \in Nat : <<p, n>> \in issued => n <= m

\* The transaction that reserved a number has the counter's row, and the
\* number is above every one issued; a counter is at or above the highest; and
\* a scan of a series without a counter stays good.
NumbersInv ==
  /\ TypeOK
  /\ \A i \in Issuers : draft[i].at \in Reserving =>
       holder[Prefix(i)] = i /\ draft[i].number > 0 /\ UpTo(Prefix(i), draft[i].number - 1)
  /\ \A p \in Prefixes : \A m \in counter[p] : UpTo(p, m)
  /\ \A i \in Issuers : draft[i].at = "opening" /\ counter[Prefix(i)] = {} =>
       UpTo(Prefix(i), draft[i].number)

LEMMA UnderIsIssued ==
  ASSUME TypeOK, NEW p \in Prefixes
  PROVE  /\ NumbersUnder(p) \subseteq Nat
         /\ \A n \in Nat : n \in NumbersUnder(p) <=> <<p, n>> \in issued
  BY DEF TypeOK, NumbersUnder

LEMMA GotoType ==
  ASSUME TypeOK, NEW i \in Issuers, NEW at, NEW n \in Nat,
         at \in {"looking", "scanning", "opening", "locking", "inserting", "fulfilling", "done"},
         (Goto(i, at) /\ n = draft[i].number) \/ GotoWith(i, at, n)
  PROVE  /\ draft' \in [Issuers -> Drafts]
         /\ draft'[i].at = at /\ draft'[i].number = n
         /\ \A j \in Issuers \ {i} : draft'[j] = draft[j]
  BY DEF TypeOK, Drafts, Goto, GotoWith

LEMMA InitNumbers == Init => NumbersInv
  BY NumbersAssumption DEF Init, NumbersInv, TypeOK, Idle, Drafts, Reserving

\* Steps that write neither a counter nor an invoice, and reserve nothing.
LEMMA QuietStep ==
  ASSUME NumbersInv, NEW i \in Issuers, TypeOK', UNCHANGED <<counter, issued>>,
         \A j \in Issuers \ {i} : draft'[j] = draft[j],
         draft'[i].at \notin Reserving \cup {"opening"},
         \A p \in Prefixes : holder[p] # i => holder'[p] = holder[p]
  PROVE  NumbersInv'
  BY NumbersAssumption DEF NumbersInv, UpTo, Prefix, TypeOK

LEMMA StepNumbers ==
  ASSUME NumbersInv, NEW i \in Issuers, Begin(i) \/ Step(i) \/ Rollback(i)
  PROVE  NumbersInv'
  <1>0. TypeOK /\ Prefix(i) \in Prefixes /\ Cart(i) \in Carts /\ draft[i].number \in Nat
    BY NumbersAssumption DEF NumbersInv, TypeOK, Prefix, Cart, Drafts
  <1>1. CASE Begin(i)
    <2>1. /\ draft' \in [Issuers -> Drafts] /\ draft'[i].at = "looking"
          /\ \A j \in Issuers \ {i} : draft'[j] = draft[j]
      BY <1>0, <1>1, GotoType DEF Begin
    <2>2. locker' \in [Carts -> Issuers \cup {Nobody}]
      BY <1>0, <1>1 DEF Begin, TypeOK
    <2>3. TypeOK'
      BY <1>0, <1>1, <2>1, <2>2 DEF Begin, TypeOK
    <2> QED
      BY <1>1, <2>1, <2>3, QuietStep DEF Begin, Reserving
  <1>2. CASE Look(i) \/ FindCounter(i)
    <2>1. PICK at \in {"scanning", "locking"} : Goto(i, at)
      BY <1>2 DEF Look, FindCounter
    <2>2. /\ draft' \in [Issuers -> Drafts] /\ draft'[i].at = at
          /\ \A j \in Issuers \ {i} : draft'[j] = draft[j]
      BY <1>0, <2>1, GotoType
    <2>3. TypeOK'
      BY <1>0, <1>2, <2>2 DEF Look, FindCounter, TypeOK
    <2> QED
      BY <1>2, <2>2, <2>3, QuietStep DEF Look, FindCounter, Reserving
  <1>3. CASE Scan(i)
    <2>1. PICK h : Highest(Prefix(i), h) /\ GotoWith(i, "opening", h)
      BY <1>3 DEF Scan
    <2>2. h \in Nat /\ UpTo(Prefix(i), h)
      BY <1>0, <2>1, UnderIsIssued, NumbersAssumption DEF Highest, UpTo
    <2>3. /\ draft' \in [Issuers -> Drafts] /\ draft'[i].at = "opening" /\ draft'[i].number = h
          /\ \A j \in Issuers \ {i} : draft'[j] = draft[j]
      BY <1>0, <2>1, <2>2, GotoType
    <2>4. TypeOK'
      BY <1>0, <1>3, <2>3 DEF Scan, TypeOK
    <2> QED
      BY <1>3, <2>2, <2>3, <2>4 DEF Scan, NumbersInv, UpTo, Prefix, Reserving
  <1>4. ASSUME NEW n \in Nat, UpTo(Prefix(i), n), GotoWith(i, "inserting", n + 1),
               holder[Prefix(i)] = Nobody, holder' = [holder EXCEPT ![Prefix(i)] = i],
               UNCHANGED <<counter, issued, locker, citing>>
        PROVE  NumbersInv'
    <2>1. /\ draft' \in [Issuers -> Drafts]
          /\ draft'[i].at = "inserting" /\ draft'[i].number = n + 1
          /\ \A j \in Issuers \ {i} : draft'[j] = draft[j]
      BY <1>0, <1>4, GotoType
    <2>2. TypeOK'
      BY <1>0, <1>4, <2>1 DEF TypeOK
    <2>3. holder'[Prefix(i)] = i /\ \A p \in Prefixes \ {Prefix(i)} : holder'[p] = holder[p]
      BY <1>0, <1>4 DEF TypeOK
    <2>4. \A j \in Issuers \ {i} : draft[j].at \in Reserving => Prefix(j) # Prefix(i)
      BY <1>4, NumbersAssumption DEF NumbersInv
    <2>5. \A j \in Issuers : Prefix(j) \in Prefixes
      BY NumbersAssumption DEF Prefix
    <2>6. \A p, m : UpTo(p, m)' <=> UpTo(p, m)
      BY <1>4 DEF UpTo
    <2>7. n + 1 > 0 /\ (n + 1) - 1 = n
      OBVIOUS
    <2>8. \A j \in Issuers : Prefix(j)' = Prefix(j)
      BY DEF Prefix
    <2>9. ASSUME NEW j \in Issuers, draft'[j].at \in Reserving
          PROVE  holder'[Prefix(j)] = j /\ draft'[j].number > 0
                   /\ UpTo(Prefix(j), draft'[j].number - 1)
      <3>1. CASE j = i
        BY <1>4, <2>1, <2>3, <2>7, <3>1
      <3>2. CASE j # i
        BY <2>1, <2>3, <2>4, <2>5, <2>9, <3>2 DEF NumbersInv
      <3> QED
        BY <3>1, <3>2
    <2>10. ASSUME NEW j \in Issuers, draft'[j].at = "opening", counter'[Prefix(j)] = {}
           PROVE  UpTo(Prefix(j), draft'[j].number)
      BY <1>4, <2>1, <2>10 DEF NumbersInv
    <2> QED
      BY <1>4, <2>2, <2>6, <2>8, <2>9, <2>10 DEF NumbersInv
  <1>5. CASE OpenCounter(i)
    BY <1>0, <1>4, <1>5 DEF OpenCounter, NumbersInv
  <1>6. CASE Reserve(i)
    <2>1. PICK n \in counter[Prefix(i)] : GotoWith(i, "inserting", n + 1)
      BY <1>6 DEF Reserve
    <2>2. n \in Nat /\ UpTo(Prefix(i), n)
      BY <1>0, <2>1 DEF NumbersInv, TypeOK
    <2> QED
      BY <1>4, <1>6, <2>1, <2>2 DEF Reserve
  <1>7. CASE InsertInvoice(i)
    <2>1. /\ draft' \in [Issuers -> Drafts]
          /\ draft[i].at = "inserting" /\ draft'[i].at = "fulfilling"
          /\ draft'[i].number = draft[i].number
          /\ \A j \in Issuers \ {i} : draft'[j] = draft[j]
      BY <1>0, <1>7, GotoType DEF InsertInvoice
    <2>2. TypeOK'
      BY <1>0, <1>7, <2>1 DEF InsertInvoice, TypeOK
    <2> QED
      BY <1>7, <2>1, <2>2 DEF InsertInvoice, NumbersInv, UpTo, Prefix, Reserving
  <1>8. ASSUME Release(i)
        PROVE  /\ holder' \in [Prefixes -> Issuers \cup {Nobody}]
               /\ locker' \in [Carts -> Issuers \cup {Nobody}]
               /\ citing' \in [Carts -> SUBSET Issuers]
               /\ \A p \in Prefixes : holder[p] # i => holder'[p] = holder[p]
    BY <1>0, <1>8 DEF Release, TypeOK
  <1>9. CASE Commit(i)
    <2>1. /\ draft' \in [Issuers -> Drafts]
          /\ draft[i].at = "fulfilling" /\ draft'[i].at = "done"
          /\ \A j \in Issuers \ {i} : draft'[j] = draft[j]
      BY <1>0, <1>9, GotoType DEF Commit
    <2>2. PICK p \in Prefixes, n \in Nat : p = Prefix(i) /\ n = draft[i].number
      BY <1>0
    <2>3. /\ counter' = [counter EXCEPT ![p] = {n}]
          /\ issued' = issued \cup {<<p, n>>}
      BY <1>9, <2>2 DEF Commit
    <2>4. TypeOK'
      BY <1>0, <1>8, <1>9, <2>1, <2>2, <2>3 DEF Commit, TypeOK
    <2>5. holder[p] = i /\ n > 0 /\ UpTo(p, n - 1)
      BY <2>1, <2>2 DEF NumbersInv, Reserving
    <2>6. UpTo(p, n)'
      BY <2>3, <2>5 DEF UpTo
    <2>7. \A q \in Prefixes \ {p} : \A m : UpTo(q, m) => UpTo(q, m)'
      BY <2>3 DEF UpTo
    <2>8. \A j \in Issuers : Prefix(j)' = Prefix(j) /\ Prefix(j) \in Prefixes
      BY NumbersAssumption DEF Prefix
    <2>9. \A j \in Issuers \ {i} : draft[j].at \in Reserving => Prefix(j) # p
      BY <2>5 DEF NumbersInv
    <2>10. ASSUME NEW j \in Issuers, draft'[j].at \in Reserving
           PROVE  /\ holder'[Prefix(j)] = j /\ draft'[j].number > 0
                  /\ \A m \in Nat : <<Prefix(j), m>> \in issued' => m <= draft'[j].number - 1
      <3>1. j # i /\ draft'[j] = draft[j]
        BY <2>1, <2>10 DEF Reserving
      <3>2. Prefix(j) # p /\ holder[Prefix(j)] = j /\ draft[j].number > 0
              /\ UpTo(Prefix(j), draft[j].number - 1)
        BY <2>9, <2>10, <3>1 DEF NumbersInv
      <3>3. holder'[Prefix(j)] = j
        BY <1>8, <1>9, <2>8, <3>1, <3>2 DEF Commit
      <3> QED
        BY <2>3, <2>8, <3>1, <3>2, <3>3 DEF UpTo
    <2>11. ASSUME NEW q \in Prefixes, NEW m \in counter'[q]
           PROVE  UpTo(q, m)'
      <3>1. CASE q = p
        BY <1>0, <2>3, <2>6, <2>11, <3>1 DEF TypeOK
      <3>2. CASE q # p
        BY <1>0, <2>3, <2>7, <2>11, <3>2 DEF TypeOK, NumbersInv
      <3> QED
        BY <3>1, <3>2
    <2>12. ASSUME NEW j \in Issuers, draft'[j].at = "opening", counter'[Prefix(j)] = {}
           PROVE  \A m \in Nat : <<Prefix(j), m>> \in issued' => m <= draft'[j].number
      <3>1. j # i /\ draft'[j] = draft[j] /\ Prefix(j) # p /\ counter[Prefix(j)] = {}
        BY <1>0, <2>1, <2>3, <2>8, <2>12 DEF TypeOK
      <3> QED
        BY <2>3, <2>8, <2>12, <3>1 DEF NumbersInv, UpTo
    <2> QED
      BY <2>4, <2>8, <2>10, <2>11, <2>12 DEF NumbersInv, UpTo
  <1>10. CASE Rollback(i)
    <2>1. Idle \in Drafts
      BY DEF Idle, Drafts
    <2>2. /\ draft' \in [Issuers -> Drafts] /\ draft'[i] = Idle
          /\ \A j \in Issuers \ {i} : draft'[j] = draft[j]
      BY <1>0, <1>10, <2>1 DEF Rollback, TypeOK
    <2>3. TypeOK'
      BY <1>0, <1>8, <1>10, <2>2 DEF Rollback, TypeOK
    <2> QED
      BY <1>8, <1>10, <2>2, <2>3, QuietStep DEF Rollback, Idle, Reserving
  <1> QED
    BY <1>1, <1>2, <1>3, <1>5, <1>6, <1>7, <1>9, <1>10 DEF Step, BreakDeadlock

LEMMA NumbersKept == Spec => []NumbersInv
  <1>1. NumbersInv /\ [Next]_vars => NumbersInv'
    <2>1. ASSUME NumbersInv, UNCHANGED vars
          PROVE  NumbersInv'
      BY <2>1 DEF vars, NumbersInv, TypeOK, UpTo, Prefix
    <2> QED
      BY <2>1, StepNumbers DEF Next
  <1> QED
    BY InitNumbers, <1>1, PTL DEF Spec

\* Transactions, counters and locks keep their types, for any issuers, carts
\* and series.
THEOREM NumbersTypeCorrect == Spec => []TypeOK
  <1>1. NumbersInv => TypeOK
    BY DEF NumbersInv
  <1> QED
    BY NumbersKept, <1>1, PTL

\* reserve_next_for locks the counter's row until the transaction ends: of the
\* payments settling at once, no two reserve one number, and none reserves one
\* already issued, with the counter or before there was one.
THEOREM NumbersNeverCollide == Spec => []NoCollision
  <1>1. NumbersInv => NoCollision
    <2> SUFFICES ASSUME NumbersInv, NEW i \in Issuers, draft[i].at \in Reserving
        PROVE  /\ <<Prefix(i), draft[i].number>> \notin issued
               /\ \A j \in Issuers \ {i} :
                    draft[j].at \in Reserving /\ Prefix(j) = Prefix(i) =>
                      draft[j].number # draft[i].number
      BY DEF NoCollision, Reserving
    <2>1. holder[Prefix(i)] = i /\ draft[i].number \in Nat /\ UpTo(Prefix(i), draft[i].number - 1)
      BY DEF NumbersInv, TypeOK, Drafts
    <2>2. \A j \in Issuers \ {i} : draft[j].at \in Reserving => Prefix(j) # Prefix(i)
      BY <2>1 DEF NumbersInv
    <2> QED
      BY <2>1, <2>2 DEF UpTo
  <1> QED
    BY NumbersKept, <1>1, PTL

-----------------------------------------------------------------------------
(***************************************************************************)
(* InvoiceNumbers implements InvoiceSeries.                                *)
(***************************************************************************)

\* h is what the number after the ones S has under p comes after.
TopOf(S, p, h) ==
  /\ h \in Nat /\ \A n \in Nat : <<p, n>> \in S => n <= h
  /\ <<p, h>> \in S \/ (h = First /\ \A n \in Nat : <<p, n>> \notin S)

\* What a transaction goes by is the highest number of its series, and not
\* only above it.
SeriesInv ==
  /\ NumbersInv
  /\ \A i \in Issuers : draft[i].at \in Reserving => TopOf(issued, Prefix(i), draft[i].number - 1)
  /\ \A p \in Prefixes : \A m \in counter[p] : TopOf(issued, p, m)
  /\ \A i \in Issuers : draft[i].at = "opening" /\ counter[Prefix(i)] = {} =>
       TopOf(issued, Prefix(i), draft[i].number)

LEMMA HighestIsTop ==
  ASSUME TypeOK, NEW p \in Prefixes, NEW h
  PROVE  Highest(p, h) <=> TopOf(issued, p, h)
  <1>1. /\ \A n \in NumbersUnder(p) : n \in Nat
        /\ \A n \in Nat : n \in NumbersUnder(p) <=> <<p, n>> \in issued
    BY UnderIsIssued
  <1>2. /\ NumbersUnder(p) = {} <=> \A n \in Nat : <<p, n>> \notin issued
        /\ First \in Nat
    BY <1>1, NumbersAssumption
  <1> QED
    BY <1>1, <1>2 DEF Highest, TopOf

LEMMA InitSeries == Init => SeriesInv
  BY InitNumbers, NumbersAssumption DEF SeriesInv, Init, Idle, Reserving

LEMMA QuietSeries ==
  ASSUME SeriesInv, NEW i \in Issuers, NumbersInv', UNCHANGED <<counter, issued>>,
         \A j \in Issuers \ {i} : draft'[j] = draft[j],
         draft'[i].at \notin Reserving \cup {"opening"}
  PROVE  SeriesInv'
  BY DEF SeriesInv, Prefix

\* Steps that read the highest number, or go on with the one after it.
LEMMA ReadingSeries ==
  ASSUME SeriesInv, NEW i \in Issuers, NumbersInv', UNCHANGED <<counter, issued>>,
         NEW at, NEW n \in Nat, GotoWith(i, at, n),
         \/ at = "opening" /\ TopOf(issued, Prefix(i), n)
         \/ at \in Reserving /\ TopOf(issued, Prefix(i), n - 1)
  PROVE  SeriesInv'
  <1>1. /\ draft'[i].at = at /\ draft'[i].number = n
        /\ \A j \in Issuers \ {i} : draft'[j] = draft[j]
    BY DEF GotoWith, SeriesInv, NumbersInv, TypeOK
  <1>2. ASSUME NEW j \in Issuers, draft'[j].at \in Reserving
        PROVE  TopOf(issued', PrefixOf[j], draft'[j].number - 1)
    <2>1. CASE j = i
      BY <1>1, <1>2, <2>1 DEF Reserving, Prefix
    <2>2. CASE j # i
      BY <1>1, <1>2, <2>2 DEF SeriesInv, Prefix
    <2> QED
      BY <2>1, <2>2
  <1>3. ASSUME NEW j \in Issuers, draft'[j].at = "opening", counter'[PrefixOf[j]] = {}
        PROVE  TopOf(issued', PrefixOf[j], draft'[j].number)
    <2>1. CASE j = i
      BY <1>1, <1>3, <2>1 DEF Reserving, Prefix
    <2>2. CASE j # i
      BY <1>1, <1>3, <2>2 DEF SeriesInv, Prefix
    <2> QED
      BY <2>1, <2>2
  <1> QED
    BY <1>2, <1>3 DEF SeriesInv, Prefix

\* An invoice issued after the highest of its series is the highest, and the
\* other series are as they were.
LEMMA TopsAfterIssue ==
  ASSUME NEW S, NEW p, NEW n \in Nat, \A m \in Nat : <<p, m>> \in S => m <= n - 1
  PROVE  /\ TopOf(S \cup {<<p, n>>}, p, n)
         /\ \A q, h : q # p /\ TopOf(S, q, h) => TopOf(S \cup {<<p, n>>}, q, h)
  BY DEF TopOf

LEMMA CommitSeries ==
  ASSUME SeriesInv, NumbersInv', NEW i \in Issuers, Commit(i)
  PROVE  SeriesInv'
  <1>0. /\ TypeOK /\ NumbersInv /\ draft[i].at \in Reserving
        /\ PrefixOf[i] \in Prefixes /\ draft[i].number \in Nat
    BY NumbersAssumption DEF SeriesInv, NumbersInv, TypeOK, Drafts, Commit, Reserving
  <1>1. PICK p \in Prefixes, n \in Nat : p = PrefixOf[i] /\ n = draft[i].number
    BY <1>0
  <1>2. /\ draft'[i].at = "done" /\ \A j \in Issuers \ {i} : draft'[j] = draft[j]
    BY <1>0 DEF Commit, Goto, TypeOK
  <1>3. /\ issued' = issued \cup {<<p, n>>} /\ counter'[p] = {n}
        /\ \A q \in Prefixes \ {p} : counter'[q] = counter[q]
    BY <1>0, <1>1 DEF Commit, Prefix, TypeOK
  <1>4. holder[p] = i /\ \A m \in Nat : <<p, m>> \in issued => m <= n - 1
    BY <1>0, <1>1 DEF NumbersInv, UpTo, Prefix
  <1>5. /\ TopOf(issued', p, n)
        /\ \A q, h : q # p /\ TopOf(issued, q, h) => TopOf(issued', q, h)
    BY <1>3, <1>4, TopsAfterIssue
  <1>6. ASSUME NEW j \in Issuers, draft'[j].at \in Reserving
        PROVE  TopOf(issued', PrefixOf[j], draft'[j].number - 1)
    <2>1. j # i /\ draft'[j] = draft[j]
      BY <1>2, <1>6 DEF Reserving
    <2>2. PrefixOf[j] # p
      BY <1>0, <1>4, <1>6, <2>1 DEF NumbersInv, Prefix
    <2> QED
      BY <1>5, <1>6, <2>1, <2>2 DEF SeriesInv, Prefix
  <1>7. ASSUME NEW q \in Prefixes, NEW m \in counter'[q]
        PROVE  TopOf(issued', q, m)
    <2>1. CASE q = p
      BY <1>3, <1>5, <1>7, <2>1
    <2>2. CASE q # p
      BY <1>3, <1>5, <1>7, <2>2 DEF SeriesInv
    <2> QED
      BY <2>1, <2>2
  <1>8. ASSUME NEW j \in Issuers, draft'[j].at = "opening", counter'[PrefixOf[j]] = {}
        PROVE  TopOf(issued', PrefixOf[j], draft'[j].number)
    <2>1. j # i /\ draft'[j] = draft[j] /\ PrefixOf[j] # p /\ PrefixOf[j] \in Prefixes
      BY <1>2, <1>3, <1>8, NumbersAssumption
    <2> QED
      BY <1>3, <1>5, <1>8, <2>1 DEF SeriesInv, Prefix
  <1> QED
    BY <1>6, <1>7, <1>8 DEF SeriesInv, Prefix

LEMMA StepSeries ==
  ASSUME SeriesInv, NEW i \in Issuers, Begin(i) \/ Step(i) \/ Rollback(i)
  PROVE  SeriesInv'
  <1>0. TypeOK /\ NumbersInv /\ Prefix(i) \in Prefixes /\ draft[i].number \in Nat
    BY NumbersAssumption DEF SeriesInv, NumbersInv, TypeOK, Prefix, Drafts
  <1>1. NumbersInv'
    BY <1>0, StepNumbers
  <1>2. ASSUME NEW at, Goto(i, at)
        PROVE  /\ draft'[i].at = at /\ draft'[i].number = draft[i].number
               /\ \A j \in Issuers \ {i} : draft'[j] = draft[j]
    BY <1>0, <1>2 DEF Goto, TypeOK, Drafts
  <1>3. CASE Begin(i) \/ Look(i) \/ FindCounter(i)
    <2>1. PICK at \in {"looking", "scanning", "locking"} : Goto(i, at)
      BY <1>3 DEF Begin, Look, FindCounter
    <2>2. UNCHANGED <<counter, issued>>
      BY <1>3 DEF Begin, Look, FindCounter
    <2> QED
      BY <1>1, <1>2, <2>1, <2>2, QuietSeries DEF Reserving
  <1>4. CASE Rollback(i)
    <2>1. /\ \A j \in Issuers \ {i} : draft'[j] = draft[j]
          /\ draft'[i].at = "idle"
      BY <1>0, <1>4 DEF Rollback, Idle, TypeOK
    <2> QED
      BY <1>1, <1>4, <2>1, QuietSeries DEF Reserving, Rollback
  <1>5. CASE Scan(i)
    <2>1. PICK h : Highest(Prefix(i), h) /\ GotoWith(i, "opening", h)
      BY <1>5 DEF Scan
    <2>2. TopOf(issued, Prefix(i), h) /\ h \in Nat
      BY <1>0, <2>1, HighestIsTop DEF TopOf
    <2> QED
      BY <1>1, <1>5, <2>1, <2>2, ReadingSeries DEF Scan
  <1>6. CASE OpenCounter(i)
    <2>1. TopOf(issued, Prefix(i), draft[i].number) /\ (draft[i].number + 1) - 1 = draft[i].number
      BY <1>0, <1>6 DEF OpenCounter, SeriesInv
    <2>2. GotoWith(i, "inserting", draft[i].number + 1) /\ UNCHANGED <<counter, issued>>
      BY <1>6 DEF OpenCounter
    <2> QED
      BY <1>0, <1>1, <2>1, <2>2, ReadingSeries DEF Reserving
  <1>7. CASE Reserve(i)
    <2>1. PICK n \in counter[Prefix(i)] : GotoWith(i, "inserting", n + 1)
      BY <1>7 DEF Reserve
    <2>2. n \in Nat /\ TopOf(issued, Prefix(i), n) /\ (n + 1) - 1 = n
      BY <1>0, <2>1 DEF SeriesInv, TypeOK
    <2>3. UNCHANGED <<counter, issued>> /\ n + 1 \in Nat
      BY <1>7, <2>2 DEF Reserve
    <2> QED
      BY <1>1, <2>1, <2>2, <2>3, ReadingSeries DEF Reserving
  <1>8. CASE InsertInvoice(i)
    <2>1. /\ Goto(i, "fulfilling") /\ UNCHANGED <<counter, issued>>
          /\ draft[i].at = "inserting"
      BY <1>8 DEF InsertInvoice
    <2>2. \A j \in Issuers : /\ draft'[j].at \in Reserving => draft[j].at \in Reserving
                             /\ draft'[j].at = "opening" => draft[j].at = "opening"
                             /\ draft'[j].number = draft[j].number
      BY <1>2, <2>1 DEF Reserving
    <2> QED
      BY <1>1, <2>1, <2>2 DEF SeriesInv, Prefix
  <1>9. CASE Commit(i)
    BY <1>1, <1>9, CommitSeries
  <1> QED
    BY <1>3, <1>4, <1>5, <1>6, <1>7, <1>8, <1>9 DEF Step, BreakDeadlock

\* Only a commit issues an invoice, and it bears the number after the highest.
LEMMA StepIssues ==
  ASSUME SeriesInv, NEW i \in Issuers, Begin(i) \/ Step(i) \/ Rollback(i)
  PROVE  [Series!Next]_issued
  <1>1. CASE Commit(i)
    <2>1. PICK p \in Prefixes, n \in Nat : p = Prefix(i) /\ n = draft[i].number
      BY NumbersAssumption DEF SeriesInv, NumbersInv, TypeOK, Prefix, Drafts
    <2>2. TypeOK /\ TopOf(issued, p, n - 1)
      BY <1>1, <2>1 DEF SeriesInv, NumbersInv, Commit, Reserving
    <2>3. Highest(p, n - 1)
      BY <2>2, HighestIsTop
    <2>4. /\ n - 1 \in NumbersUnder(p) \cup {First}
          /\ (n - 1) + 1 = n
      BY <2>3 DEF Highest
    <2>5. issued' = issued \cup {<<p, (n - 1) + 1>>}
      BY <1>1, <2>1, <2>4 DEF Commit
    <2>6. Series!Highest(p, n - 1) /\ n - 1 \in Series!NumbersUnder(p) \cup {First}
      BY <2>3, <2>4 DEF Highest, NumbersUnder, Series!Highest, Series!NumbersUnder
    <2> QED
      BY <2>5, <2>6 DEF Series!Next, Series!Issue
  <1>2. CASE ~Commit(i)
    BY <1>2 DEF Begin, Step, Look, Scan, OpenCounter, FindCounter, Reserve, InsertInvoice,
       BreakDeadlock, Rollback
  <1> QED
    BY <1>1, <1>2

\* However many payments settle at once, fail, and are tried again, under one
\* prefix or several, every series goes on without a gap or a repeated number.
THEOREM NumbersAreGapless == Spec => ImplementsSeries
  <1>1. Init => Series!Init
    BY NumbersAssumption DEF Init, Series!Init
  <1>2. SeriesInv /\ [Next]_vars => SeriesInv'
    <2>1. ASSUME SeriesInv, UNCHANGED vars
          PROVE  SeriesInv'
      BY <2>1 DEF vars, SeriesInv, NumbersInv, TypeOK, UpTo, Prefix
    <2> QED
      BY <2>1, StepSeries DEF Next
  <1>3. SeriesInv /\ [Next]_vars => [Series!Next]_issued
    <2>1. UNCHANGED vars => UNCHANGED issued
      BY DEF vars
    <2> QED
      BY <2>1, StepIssues DEF Next
  <1> QED
    BY InitSeries, <1>1, <1>2, <1>3, PTL DEF Spec, ImplementsSeries, Series!Spec

-----------------------------------------------------------------------------
(***************************************************************************)
(* Issues never all stand still.  The locks are held by transactions under *)
(* way only, a counter that was found stays, and a series has a highest    *)
(* number: so whoever cannot go on waits for one under way, and when all   *)
(* of them wait they are a ring.                                           *)
(***************************************************************************)
LocksInv ==
  /\ \A p \in Prefixes : holder[p] # Nobody =>
       holder[p] \in Issuers /\ draft[holder[p]].at \in Reserving
  /\ \A c \in Carts : locker[c] # Nobody => locker[c] \in Underway
  /\ \A i \in Issuers : draft[i].at = "locking" => counter[Prefix(i)] # {}
  /\ \A p \in Prefixes : \E h \in Nat : TopOf(issued, p, h)

LEMMA InitLocks == Init => LocksInv
  <1> SUFFICES ASSUME Init
      PROVE  LocksInv
    OBVIOUS
  <1>1. ASSUME NEW p \in Prefixes
        PROVE  \E h \in Nat : TopOf(issued, p, h)
    <2>1. \A n \in Nat : n \in LegacyNumbers(p) <=> <<p, n>> \in issued
      BY NumbersAssumption DEF Init, LegacyNumbers
    <2>2. LegacyNumbers(p) \subseteq Nat /\ First \in Nat
      BY NumbersAssumption DEF LegacyNumbers
    <2>3. CASE LegacyNumbers(p) = {}
      BY <2>1, <2>2, <2>3 DEF TopOf
    <2>4. CASE LegacyNumbers(p) # {}
      <3>1. PICK h \in LegacyNumbers(p) : \A n \in LegacyNumbers(p) : n <= h
        BY <2>4, LegacyAssumption
      <3> QED
        BY <2>1, <2>2, <3>1 DEF TopOf
    <2> QED
      BY <2>3, <2>4
  <1> QED
    BY <1>1 DEF Init, LocksInv, Idle

\* A transaction that stays under way, and takes no counter or cart.
LEMMA KeepsLocks ==
  ASSUME TypeOK, LocksInv, NEW i \in Issuers, UNCHANGED <<counter, issued, locker>>,
         i \in Underway',
         \A j \in Issuers \ {i} : draft'[j] = draft[j],
         draft[i].at \in Reserving => draft'[i].at \in Reserving,
         draft'[i].at = "locking" => counter[Prefix(i)] # {},
         \A p \in Prefixes : holder'[p] = holder[p] \/ (holder'[p] = i /\ draft'[i].at \in Reserving)
  PROVE  LocksInv'
  BY DEF LocksInv, Underway, Prefix

\* One that ends lets go of all it has.
LEMMA LetsGo ==
  ASSUME TypeOK, LocksInv, NEW i \in Issuers, Release(i),
         \A j \in Issuers \ {i} : draft'[j] = draft[j],
         draft'[i].at \in {"idle", "done"},
         \A p \in Prefixes : counter[p] # {} => counter'[p] # {},
         \A p \in Prefixes : \E h \in Nat : TopOf(issued', p, h)
  PROVE  LocksInv'
  <1>1. /\ \A p \in Prefixes : holder'[p] = IF holder[p] = i THEN Nobody ELSE holder[p]
        /\ \A c \in Carts : locker'[c] = IF locker[c] = i THEN Nobody ELSE locker[c]
    BY DEF Release
  <1>2. \A j \in Issuers : Prefix(j) \in Prefixes /\ Prefix(j)' = Prefix(j)
    BY NumbersAssumption DEF Prefix
  <1>3. \A p \in Prefixes : holder'[p] # Nobody =>
          holder'[p] \in Issuers /\ draft'[holder'[p]].at \in Reserving
    BY <1>1 DEF LocksInv
  <1>4. \A c \in Carts : locker'[c] # Nobody => locker'[c] \in Underway'
    BY <1>1 DEF LocksInv, Underway
  <1>5. \A j \in Issuers : draft'[j].at = "locking" => counter'[Prefix(j)] # {}
    BY <1>2 DEF LocksInv
  <1> QED
    BY <1>2, <1>3, <1>4, <1>5 DEF LocksInv

LEMMA StepLocks ==
  ASSUME SeriesInv, LocksInv, NEW i \in Issuers, Begin(i) \/ Step(i) \/ Rollback(i)
  PROVE  LocksInv'
  <1>0. /\ TypeOK /\ NumbersInv
        /\ Prefix(i) \in Prefixes /\ Cart(i) \in Carts /\ draft[i].number \in Nat
    BY NumbersAssumption DEF SeriesInv, NumbersInv, TypeOK, Prefix, Cart, Drafts
  <1>1. ASSUME NEW at, NEW n, Goto(i, at) \/ GotoWith(i, at, n)
        PROVE  draft'[i].at = at /\ \A j \in Issuers \ {i} : draft'[j] = draft[j]
    BY <1>0, <1>1 DEF Goto, GotoWith, TypeOK, Drafts
  <1>2. CASE Begin(i)
    <2>1. draft'[i].at = "looking" /\ \A j \in Issuers \ {i} : draft'[j] = draft[j]
      BY <1>1, <1>2 DEF Begin
    <2>2. /\ draft[i].at = "idle" /\ UNCHANGED <<counter, issued, holder>>
          /\ \A c \in Carts : locker'[c] = locker[c] \/ locker'[c] = i
      BY <1>0, <1>2 DEF Begin, TypeOK
    <2> QED
      BY <2>1, <2>2 DEF LocksInv, Underway, Prefix, Reserving
  <1>3. CASE Look(i) \/ FindCounter(i)
    <2>1. PICK at \in {"scanning", "locking"} :
            Goto(i, at) /\ (at = "locking" => counter[Prefix(i)] # {})
      BY <1>3 DEF Look, FindCounter
    <2>2. /\ draft[i].at \in {"looking", "opening"}
          /\ UNCHANGED <<counter, issued, holder, locker>>
      BY <1>3 DEF Look, FindCounter
    <2>3. i \in Underway'
      BY <1>1, <2>1 DEF Underway
    <2> QED
      BY <1>0, <1>1, <2>1, <2>2, <2>3, KeepsLocks DEF Reserving
  <1>4. CASE Scan(i)
    <2>1. PICK h : GotoWith(i, "opening", h)
      BY <1>4 DEF Scan
    <2>2. draft[i].at = "scanning" /\ UNCHANGED <<counter, issued, holder, locker>>
      BY <1>4 DEF Scan
    <2>3. i \in Underway'
      BY <1>1, <2>1 DEF Underway
    <2> QED
      BY <1>0, <1>1, <2>1, <2>2, <2>3, KeepsLocks DEF Reserving
  <1>5. CASE OpenCounter(i) \/ Reserve(i)
    <2>1. PICK n : GotoWith(i, "inserting", n)
      BY <1>5 DEF OpenCounter, Reserve
    <2>2. /\ holder' = [holder EXCEPT ![Prefix(i)] = i]
          /\ UNCHANGED <<counter, issued, locker>>
      BY <1>5 DEF OpenCounter, Reserve
    <2>3. draft'[i].at = "inserting" /\ \A j \in Issuers \ {i} : draft'[j] = draft[j]
      BY <1>1, <2>1
    <2>4. i \in Underway'
      BY <2>3 DEF Underway
    <2>5. \A p \in Prefixes : holder'[p] = holder[p] \/ (holder'[p] = i /\ draft'[i].at \in Reserving)
      BY <1>0, <2>2, <2>3 DEF TypeOK, Reserving
    <2> QED
      BY <1>0, <2>2, <2>3, <2>4, <2>5, KeepsLocks DEF Reserving
  <1>6. CASE InsertInvoice(i)
    <2>1. draft'[i].at = "fulfilling" /\ \A j \in Issuers \ {i} : draft'[j] = draft[j]
      BY <1>1, <1>6 DEF InsertInvoice
    <2>2. UNCHANGED <<counter, issued, holder, locker>>
      BY <1>6 DEF InsertInvoice
    <2>3. i \in Underway'
      BY <2>1 DEF Underway
    <2> QED
      BY <1>0, <2>1, <2>2, <2>3, KeepsLocks DEF Reserving
  <1>7. CASE Commit(i)
    <2>1. draft'[i].at = "done" /\ \A j \in Issuers \ {i} : draft'[j] = draft[j]
      BY <1>1, <1>7 DEF Commit
    <2>2. PICK p \in Prefixes, n \in Nat : p = Prefix(i) /\ n = draft[i].number
      BY <1>0
    <2>3. issued' = issued \cup {<<p, n>>} /\ counter' = [counter EXCEPT ![p] = {n}] /\ Release(i)
      BY <1>7, <2>2 DEF Commit
    <2>4. \A m \in Nat : <<p, m>> \in issued => m <= n - 1
      BY <1>0, <1>7, <2>2 DEF Commit, NumbersInv, UpTo, Reserving
    <2>5. /\ TopOf(issued', p, n)
          /\ \A q, h : q # p /\ TopOf(issued, q, h) => TopOf(issued', q, h)
      BY <2>3, <2>4, TopsAfterIssue
    <2>6. \A q \in Prefixes : \E h \in Nat : TopOf(issued', q, h)
      BY <2>5 DEF LocksInv
    <2>7. \A q \in Prefixes : counter[q] # {} => counter'[q] # {}
      BY <1>0, <2>3 DEF TypeOK
    <2> QED
      BY <1>0, <2>1, <2>3, <2>6, <2>7, LetsGo
  <1>8. CASE Rollback(i)
    <2>1. draft'[i].at = "idle" /\ \A j \in Issuers \ {i} : draft'[j] = draft[j]
      BY <1>0, <1>8 DEF Rollback, Idle, TypeOK
    <2>2. Release(i) /\ UNCHANGED <<counter, issued>>
      BY <1>8 DEF Rollback
    <2> QED
      BY <1>0, <2>1, <2>2, LetsGo DEF LocksInv
  <1> QED
    BY <1>2, <1>3, <1>4, <1>5, <1>6, <1>7, <1>8 DEF Step, BreakDeadlock

LEMMA WaitsForUnderway ==
  ASSUME NumbersInv, LocksInv, NEW i \in Underway
  PROVE  Ready(i) \/ \E j \in Underway : WaitsFor(i, j)
  <1>0. /\ TypeOK /\ i \in Issuers /\ Prefix(i) \in Prefixes /\ Cart(i) \in Carts
        /\ draft[i] \in Drafts
        /\ draft[i].at \in {"looking", "scanning", "opening", "locking", "inserting", "fulfilling"}
    BY NumbersAssumption DEF NumbersInv, TypeOK, Underway, Prefix, Cart, Drafts
  <1>1. ASSUME draft[i].at \in {"opening", "locking"}, holder[Prefix(i)] # Nobody
        PROVE  \E j \in Underway : WaitsFor(i, j)
    <2>1. PICK j \in Issuers : j = holder[Prefix(i)] /\ draft[j].at \in Reserving
      BY <1>0, <1>1 DEF LocksInv
    <2>2. j \in Underway /\ i # j
      BY <1>1, <2>1 DEF Underway, Reserving
    <2> QED
      BY <1>1, <2>1, <2>2 DEF WaitsFor
  <1>2. CASE draft[i].at = "scanning"
    <2>1. PICK h \in Nat : TopOf(issued, Prefix(i), h)
      BY <1>0 DEF LocksInv
    <2>2. Highest(Prefix(i), h)
      BY <1>0, <2>1, HighestIsTop
    <2> QED
      BY <1>2, <2>2 DEF Ready, Highest
  <1>3. CASE draft[i].at = "locking"
    BY <1>0, <1>1, <1>3 DEF LocksInv, Ready
  <1>4. CASE draft[i].at = "inserting"
    <2>1. <<Prefix(i), draft[i].number>> \notin issued
      BY <1>0, <1>4 DEF NumbersInv, UpTo, Reserving, Drafts
    <2>2. CASE locker[Cart(i)] \in {i, Nobody}
      BY <1>4, <2>1, <2>2 DEF Ready
    <2>3. CASE locker[Cart(i)] \notin {i, Nobody}
      BY <1>0, <1>4, <2>3 DEF LocksInv, WaitsFor
    <2> QED
      BY <2>2, <2>3
  <1>5. CASE draft[i].at \in {"looking", "opening", "fulfilling"}
    BY <1>1, <1>5 DEF Ready
  <1> QED
    BY <1>0, <1>2, <1>3, <1>4, <1>5

\* Polls lock the counter and then wait for the cart, staff the cart and then
\* the counter (retry_fulfillment, reserve_next_for): however they meet, an
\* issue that stands still waits for one under way, and when all of them do
\* the database finds a circle to break.
THEOREM IssuesNeverStuck == Spec => []NeverStuck
  <1>1. SeriesInv /\ LocksInv /\ [Next]_vars => SeriesInv' /\ LocksInv'
    <2>1. ASSUME SeriesInv, LocksInv, UNCHANGED vars
          PROVE  SeriesInv' /\ LocksInv'
      BY <2>1 DEF vars, SeriesInv, NumbersInv, TypeOK, UpTo, Prefix, LocksInv, Underway
    <2> QED
      BY <2>1, StepSeries, StepLocks DEF Next
  <1>2. SeriesInv /\ LocksInv => NeverStuck
    <2> SUFFICES ASSUME SeriesInv, LocksInv
        PROVE  NeverStuck
      OBVIOUS
    <2>1. \A i \in Underway : Ready(i) \/ \E j \in Underway : WaitsFor(i, j)
      BY WaitsForUnderway DEF SeriesInv
    <2>2. ASSUME NEW i \in Underway, \A j \in Underway : ~Ready(j)
          PROVE  Deadlocked(i)
      <3>1. Underway \in SUBSET Issuers /\ \A j \in Underway : \E k \in Underway : WaitsFor(j, k)
        BY <2>1, <2>2 DEF Underway
      <3> QED
        BY <3>1 DEF Deadlocked
    <2> QED
      BY <2>1, <2>2 DEF NeverStuck
  <1> QED
    BY InitSeries, InitLocks, <1>1, <1>2, PTL DEF Spec
=============================================================================
