--------------------------- MODULE InvoiceNumbers ---------------------------
(***************************************************************************)
(* How an invoice gets its number: InvoiceNumberSequence.reserve_next_for  *)
(* within the transaction of issue_invoice_and_fulfill.                    *)
(*                                                                         *)
(* Polls and staff issue invoices at the same time.  The counter's row is  *)
(* locked until the transaction ends; the database reads what is committed *)
(* only, makes the second writer of a key wait for the first, and aborts a *)
(* transaction caught in a circle of waits.                                *)
(***************************************************************************)
EXTENDS Naturals

CONSTANTS
  Issuers,   \* the transactions issuing an invoice
  Staff,     \* those of staff, which lock the cart's row first
  Prefixes, PrefixOf,
  Carts, CartOf,
  First,     \* the number before the first one of a series: 100000
  Legacy,    \* the invoices numbered before there were counters
  Nobody

ASSUME NumbersAssumption ==
  /\ Staff \subseteq Issuers
  /\ PrefixOf \in [Issuers -> Prefixes]
  /\ CartOf \in [Issuers -> Carts]
  /\ First \in Nat
  /\ Legacy \subseteq Prefixes \X (Nat \ {0})
  /\ Nobody \notin Issuers

LegacyNumbers(p) == {v[2] : v \in {w \in Legacy : w[1] = p}}

\* They are rows of a table, and finitely many.
ASSUME LegacyAssumption ==
  \A p \in Prefixes : LegacyNumbers(p) # {} =>
    \E h \in LegacyNumbers(p) : \A n \in LegacyNumbers(p) : n <= h

VARIABLES
  counter,  \* InvoiceNumberSequence.last_number per prefix, {} without a row
  issued,   \* the invoices committed, as pairs of a prefix and a number
  draft,    \* the transactions under way
  holder,   \* who wrote or locked the row of a prefix and has not ended
  locker,   \* the staff transaction that locked a cart's row
  citing    \* the transactions whose invoice refers to a cart

vars == <<counter, issued, draft, holder, locker, citing>>

\* number is the one read last, or the one reserved.
Drafts ==
  [at: {"idle", "looking", "scanning", "opening", "locking", "inserting", "fulfilling", "done"},
   number: Nat]

\* Slip: a transaction that ended keeps no number, not zero.
IdleUnnumbered == [at |-> "idle", number |-> Nobody]

Idle == [at |-> "idle", number |-> 0]

Init ==
  /\ counter = [p \in Prefixes |-> {}]
  /\ issued = Legacy
  /\ draft = [i \in Issuers |-> Idle]
  /\ holder = [p \in Prefixes |-> Nobody]
  /\ locker = [c \in Carts |-> Nobody]
  /\ citing = [c \in Carts |-> {}]

Prefix(i) == PrefixOf[i]

Cart(i) == CartOf[i]

Goto(i, at) == draft' = [draft EXCEPT ![i].at = at]

GotoWith(i, at, n) == draft' = [draft EXCEPT ![i] = [at |-> at, number |-> n]]

NumbersUnder(p) == {invoice[2] : invoice \in {v \in issued : v[1] = p}}

\* last_number_issued_under: the highest number issued, or the default.
Highest(p, h) ==
  \/ h \in NumbersUnder(p) /\ \A n \in NumbersUnder(p) : n <= h
  \/ h = First /\ NumbersUnder(p) = {}

-----------------------------------------------------------------------------
\* A transaction begins; staff lock the cart first.
Begin(i) ==
  /\ draft[i].at = "idle"
  /\ IF i \in Staff
     THEN /\ locker[Cart(i)] = Nobody
          /\ citing[Cart(i)] = {}
          /\ locker' = [locker EXCEPT ![Cart(i)] = i]
     ELSE UNCHANGED locker
  /\ Goto(i, "looking")
  /\ UNCHANGED <<counter, issued, holder, citing>>

\* Whether the prefix has a counter.
Look(i) ==
  /\ draft[i].at = "looking"
  /\ Goto(i, IF counter[Prefix(i)] = {} THEN "scanning" ELSE "locking")
  /\ UNCHANGED <<counter, issued, holder, locker, citing>>

Scan(i) ==
  /\ draft[i].at = "scanning"
  /\ \E h \in NumbersUnder(Prefix(i)) \cup {First} :
       Highest(Prefix(i), h) /\ GotoWith(i, "opening", h)
  /\ UNCHANGED <<counter, issued, holder, locker, citing>>

\* Slip: two transactions may write a row under one prefix at once.
OpenCounterUnlocked(i) ==
  /\ draft[i].at = "opening"
  /\ counter[Prefix(i)] = {}
  /\ holder' = [holder EXCEPT ![Prefix(i)] = i]
  /\ GotoWith(i, "inserting", draft[i].number + 1)
  /\ UNCHANGED <<counter, issued, locker, citing>>

\* get_or_create: a row another transaction is writing is waited for.
OpenCounter(i) ==
  /\ draft[i].at = "opening"
  /\ counter[Prefix(i)] = {}
  /\ holder[Prefix(i)] = Nobody
  /\ holder' = [holder EXCEPT ![Prefix(i)] = i]
  /\ GotoWith(i, "inserting", draft[i].number + 1)
  /\ UNCHANGED <<counter, issued, locker, citing>>

FindCounter(i) ==
  /\ draft[i].at = "opening"
  /\ counter[Prefix(i)] # {}
  /\ Goto(i, "locking")
  /\ UNCHANGED <<counter, issued, holder, locker, citing>>

Reserve(i) ==
  /\ draft[i].at = "locking"
  /\ holder[Prefix(i)] = Nobody
  /\ holder' = [holder EXCEPT ![Prefix(i)] = i]
  /\ \E n \in counter[Prefix(i)] : GotoWith(i, "inserting", n + 1)
  /\ UNCHANGED <<counter, issued, locker, citing>>

\* The invoice is inserted, its number being free; referring to the cart, it
\* waits for whoever locked the cart's row.
InsertInvoice(i) ==
  /\ draft[i].at = "inserting"
  /\ locker[Cart(i)] \in {i, Nobody}
  /\ <<Prefix(i), draft[i].number>> \notin issued
  /\ citing' = [citing EXCEPT ![Cart(i)] = @ \cup {i}]
  /\ Goto(i, "fulfilling")
  /\ UNCHANGED <<counter, issued, holder, locker>>

\* Slip: a cart's row stays locked.
ReleaseCounter(i) ==
  /\ holder' = [p \in Prefixes |-> IF holder[p] = i THEN Nobody ELSE holder[p]]
  /\ UNCHANGED locker
  /\ citing' = [c \in Carts |-> citing[c] \ {i}]

Release(i) ==
  /\ holder' = [p \in Prefixes |-> IF holder[p] = i THEN Nobody ELSE holder[p]]
  /\ locker' = [c \in Carts |-> IF locker[c] = i THEN Nobody ELSE locker[c]]
  /\ citing' = [c \in Carts |-> citing[c] \ {i}]

\* Fulfilled, the invoice and the counter are committed together.
Commit(i) ==
  /\ draft[i].at = "fulfilling"
  /\ counter' = [counter EXCEPT ![Prefix(i)] = {draft[i].number}]
  /\ issued' = issued \cup {<<Prefix(i), draft[i].number>>}
  /\ Goto(i, "done")
  /\ Release(i)

\* Slip: the number reserved is not given back.
RollbackKeepingNumber(i) ==
  /\ draft[i].at \notin {"idle", "done"}
  /\ counter' = IF draft[i].at \in {"inserting", "fulfilling"}
                THEN [counter EXCEPT ![Prefix(i)] = {draft[i].number}] ELSE counter
  /\ draft' = [draft EXCEPT ![i] = Idle]
  /\ Release(i)
  /\ UNCHANGED issued

\* Any statement may fail, the enrolment most of all, and the process may die:
\* nothing the transaction wrote remains.  The issue may be tried again.
Rollback(i) ==
  /\ draft[i].at \notin {"idle", "done"}
  /\ draft' = [draft EXCEPT ![i] = Idle]
  /\ Release(i)
  /\ UNCHANGED <<counter, issued>>

\* i waits for a row j has.
WaitsFor(i, j) ==
  /\ i # j
  /\ \/ draft[i].at \in {"opening", "locking"} /\ holder[Prefix(i)] = j
     \/ draft[i].at = "inserting" /\ locker[Cart(i)] = j

Deadlocked(i) ==
  \E ring \in SUBSET Issuers :
    i \in ring /\ \A j \in ring : \E k \in ring : WaitsFor(j, k)

\* Slip: a circle of waits is left to itself.
NeverBroken(i) ==
  /\ FALSE
  /\ UNCHANGED vars

BreakDeadlock(i) == Deadlocked(i) /\ Rollback(i)

Step(i) ==
  \/ Look(i)
  \/ Scan(i)
  \/ OpenCounter(i)
  \/ FindCounter(i)
  \/ Reserve(i)
  \/ InsertInvoice(i)
  \/ Commit(i)
  \/ BreakDeadlock(i)

Next == \E i \in Issuers : Begin(i) \/ Step(i) \/ Rollback(i)

Spec == Init /\ [][Next]_vars

\* A transaction under way goes on when its locks are free; waiting for one
\* that comes free again and again, it gets it in the end.
FairSpec == Spec /\ \A i \in Issuers : SF_vars(Step(i))

-----------------------------------------------------------------------------
TypeOK ==
  /\ counter \in [Prefixes -> SUBSET Nat]
  /\ issued \subseteq Prefixes \X Nat
  /\ draft \in [Issuers -> Drafts]
  /\ holder \in [Prefixes -> Issuers \cup {Nobody}]
  /\ locker \in [Carts -> Issuers \cup {Nobody}]
  /\ citing \in [Carts -> SUBSET Issuers]

\* Two payments settling at the same moment never reserve the same number, and
\* none reserves one that is taken: no issue dies on the unique constraint.
NoCollision ==
  \A i \in Issuers : draft[i].at \in {"inserting", "fulfilling"} =>
    /\ <<Prefix(i), draft[i].number>> \notin issued
    /\ \A j \in Issuers \ {i} :
         draft[j].at \in {"inserting", "fulfilling"} /\ Prefix(j) = Prefix(i) =>
           draft[j].number # draft[i].number

Underway == {i \in Issuers : draft[i].at \notin {"idle", "done"}}

\* i has before it a statement that neither waits nor fails on a constraint.
Ready(i) ==
  \/ draft[i].at \in {"looking", "fulfilling"}
  \/ draft[i].at = "scanning" /\ \E h \in NumbersUnder(Prefix(i)) \cup {First} : Highest(Prefix(i), h)
  \/ draft[i].at = "opening" /\ (counter[Prefix(i)] # {} \/ holder[Prefix(i)] = Nobody)
  \/ draft[i].at = "locking" /\ counter[Prefix(i)] # {} /\ holder[Prefix(i)] = Nobody
  \/ /\ draft[i].at = "inserting"
     /\ locker[Cart(i)] \in {i, Nobody}
     /\ <<Prefix(i), draft[i].number>> \notin issued

\* An issue that cannot go on waits for another one under way: no lock
\* outlives its transaction.  When none can go on, some wait in a circle, and
\* the database breaks it: issues never all stand still.
NeverStuck ==
  /\ \A i \in Underway : Ready(i) \/ \E j \in Underway : WaitsFor(i, j)
  /\ Underway # {} => \E i \in Underway : Ready(i) \/ Deadlocked(i)

\* An issue that began ends, in an invoice or in a rollback, though polls and
\* staff lock the counter and the cart in opposite orders.
IssueEnds ==
  \A i \in Issuers : draft[i].at # "idle" ~> draft[i].at \in {"idle", "done"}

Series == INSTANCE InvoiceSeries

\* Whoever issues, fails and tries again, each series stays gapless.
ImplementsSeries == Series!Spec
=============================================================================
