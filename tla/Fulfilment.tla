----------------------------- MODULE Fulfilment -----------------------------
(***************************************************************************)
(* How a paid cart is fulfilled: fulfill_cart within the transaction of    *)
(* issue_invoice_and_fulfill, run by the poll that settled the cart and by *)
(* staff retrying it, for the carts of one learner.                        *)
(*                                                                         *)
(* Open edX keeps one enrolment per learner and course; it is external, as *)
(* are its messages about an enrolment, which a rollback does not unsend.  *)
(* Everything else an attempt writes is invisible to others until it       *)
(* commits, and a row it wrote is locked until then.                       *)
(***************************************************************************)
EXTENDS Naturals, Sequences

CONSTANTS
  Carts, Courses, Modes,
  Bundles,    \* the carts that hold a bundle
  CoursesOf,  \* the courses a cart's item grants, in order: one, or a bundle's
  ModeOf,     \* the mode a cart buys each course of it in
  Free,       \* the modes Open edX lets upgrade
  NoMode,     \* where the learner has no active enrolment
  NoCart,
  Attempts,   \* the settlements and retries that may run at the same time
  Mortal,     \* those whose process may die
  Unsettled,  \* the courses that change meanwhile
  Faults      \* what the database may do wrong: "commit"

Granted(c) == {CoursesOf[c][n] : n \in 1..Len(CoursesOf[c])}

\* A bundle has a course once.
ASSUME FulfilmentAssumption ==
  /\ Bundles \subseteq Carts
  /\ CoursesOf \in [Carts -> Seq(Courses) \ {<<>>}]
  /\ \A c \in Carts : \A m, n \in 1..Len(CoursesOf[c]) : CoursesOf[c][m] = CoursesOf[c][n] => m = n
  /\ ModeOf \in [Carts -> [Courses -> Modes \ Free]]
  /\ Free \subseteq Modes
  /\ NoMode \notin Modes
  /\ NoCart \notin Carts
  /\ Mortal \subseteq Attempts
  /\ Unsettled \subseteq Courses

VARIABLES
  enrolled,  \* the mode the learner holds each course in, as committed
  onSale,    \* the courses with a course mode matching their catalogue item
  invoiced,  \* the carts with an invoice
  trail,     \* what the bundle_fulfillment_failed entries of a cart say, together
  attempt,   \* the attempts under way
  told,      \* the courses Open edX announced an enrolment in, for each cart
  changed,   \* the courses whose enrolment changed from outside
  missing,   \* the courses off sale ever since an attempt began
  silent,    \* the carts an attempt at which ended with no error of its own
  contested  \* the courses sold beside an attempt that wanted them in another mode

vars == <<enrolled, onSale, invoiced, trail, attempt, told, changed, missing, silent, contested>>

Entries == [landed: SUBSET Courses, held: SUBSET Courses]

\* next is the member the attempt is at; seen the mode read last; wrote what it
\* has written and not committed; landed and held what its error will carry.
AttemptStates ==
  [at: {"idle", "checking", "reading", "writing", "closing", "failing"},
   cart: Carts \cup {NoCart}, next: Nat, seen: Modes \cup {NoMode},
   wrote: SUBSET Courses, landed: SUBSET Courses, held: SUBSET Courses]

Idle ==
  [at |-> "idle", cart |-> NoCart, next |-> 1, seen |-> NoMode,
   wrote |-> {}, landed |-> {}, held |-> {}]

Init ==
  /\ enrolled \in [Courses -> Modes \cup {NoMode}]
  /\ onSale = Courses
  /\ invoiced = {}
  /\ trail = [c \in Carts |-> [landed |-> {}, held |-> {}]]
  /\ attempt = [a \in Attempts |-> Idle]
  /\ told = [c \in Carts |-> {}]
  /\ changed = {}
  /\ missing = [a \in Attempts |-> {}]
  /\ silent = {}
  /\ contested = {}

Cart(a) == attempt[a].cart

Member(a) == CoursesOf[Cart(a)][attempt[a].next]

Mode(a, k) == ModeOf[Cart(a)][k]

\* What the attempt's transaction sees of the learner's enrolment.
Holding(a, k) == IF k \in attempt[a].wrote THEN Mode(a, k) ELSE enrolled[k]

\* No other transaction has written the enrolment.
Unlocked(a, k) == \A b \in Attempts \ {a} : k \notin attempt[b].wrote

\* Slip: the members are counted from zero.
AdvancePast(a, state, stage) ==
  attempt' = [attempt EXCEPT ![a] =
    IF state.next > Len(CoursesOf[Cart(a)])
    THEN [state EXCEPT !.at = stage, !.next = 1]
    ELSE [state EXCEPT !.next = @ + 1, !.at = IF stage = "closing" THEN "reading" ELSE @]]

\* On to the next member, or, past the last one, to another stage.
Advance(a, state, stage) ==
  attempt' = [attempt EXCEPT ![a] =
    IF state.next = Len(CoursesOf[Cart(a)])
    THEN [state EXCEPT !.at = stage, !.next = 1]
    ELSE [state EXCEPT !.next = @ + 1, !.at = IF stage = "closing" THEN "reading" ELSE @]]

\* CartFulfillmentError: the transaction is rolled back, and what landed before
\* the failure is not forgotten.
Fail(a) == attempt' = [attempt EXCEPT ![a] = [@ EXCEPT !.at = "failing", !.wrote = {}]]

End(a) == attempt' = [attempt EXCEPT ![a] = Idle]

-----------------------------------------------------------------------------
\* The poll that settled the cart, or staff retrying it, begins.
Begin(a, c) ==
  /\ attempt[a].at = "idle"
  /\ c \notin invoiced
  /\ attempt' = [attempt EXCEPT ![a] = [Idle EXCEPT !.at = "checking", !.cart = c]]
  /\ missing' = [missing EXCEPT ![a] = Courses \ onSale]
  /\ UNCHANGED <<enrolled, onSale, invoiced, trail, told, changed, silent, contested>>

\* Slip: one pass, each member looked up when it is enrolled in.
CheckFirst(a) ==
  /\ attempt[a].at = "checking"
  /\ IF Member(a) \in onSale
     THEN attempt' = [attempt EXCEPT ![a] = [@ EXCEPT !.at = "reading", !.next = 1]]
     ELSE Fail(a)
  /\ UNCHANGED <<enrolled, onSale, invoiced, trail, told, changed, missing, silent, contested>>

\* The first pass: the course modes are looked up, in order, before any
\* enrolment.
CheckMember(a) ==
  /\ attempt[a].at = "checking"
  /\ IF Member(a) \in onSale THEN Advance(a, attempt[a], "reading") ELSE Fail(a)
  /\ UNCHANGED <<enrolled, onSale, invoiced, trail, told, changed, missing, silent, contested>>

\* Slip: a course held in another paid mode is left as it is, too.
ReadAnyPaid(a) ==
  /\ attempt[a].at = "reading"
  /\ LET seen == Holding(a, Member(a))
     IN IF seen \notin Free \cup {NoMode}
        THEN Advance(a, [attempt[a] EXCEPT !.held = @ \cup {Member(a)}], "closing")
        ELSE attempt' = [attempt EXCEPT ![a] = [@ EXCEPT !.at = "writing", !.seen = seen]]
  /\ UNCHANGED <<enrolled, onSale, invoiced, trail, told, changed, missing, silent, contested>>

\* enrol_or_upgrade reads the enrolment.  A course held in the mode bought is
\* left as it is.
ReadEnrolment(a) ==
  /\ attempt[a].at = "reading"
  /\ LET seen == Holding(a, Member(a))
     IN IF seen = Mode(a, Member(a))
        THEN Advance(a, [attempt[a] EXCEPT !.held = @ \cup {Member(a)}], "closing")
        ELSE attempt' = [attempt EXCEPT ![a] = [@ EXCEPT !.at = "writing", !.seen = seen]]
  /\ UNCHANGED <<enrolled, onSale, invoiced, trail, told, changed, missing, silent, contested>>

\* Slip: a course enrolled in is listed as held as well.
EnrolAsHeld(a) ==
  /\ attempt[a].at = "writing"
  /\ Unlocked(a, Member(a))
  /\ attempt[a].seen \in Free \/ Holding(a, Member(a)) = NoMode
  /\ Advance(a, [attempt[a] EXCEPT !.wrote = @ \cup {Member(a)}, !.landed = @ \cup {Member(a)},
                                 !.held = @ \cup {Member(a)}],
             "closing")
  /\ told' = [told EXCEPT ![Cart(a)] = @ \cup {Member(a)}]
  /\ UNCHANGED <<enrolled, onSale, invoiced, trail, changed, missing, silent, contested>>

\* Slip: the enrolment is made outside the transaction, and stays if it fails.
EnrolAtOnce(a) ==
  /\ attempt[a].at = "writing"
  /\ Unlocked(a, Member(a))
  /\ attempt[a].seen \in Free \/ Holding(a, Member(a)) = NoMode
  /\ Advance(a, [attempt[a] EXCEPT !.landed = @ \cup {Member(a)}], "closing")
  /\ enrolled' = [enrolled EXCEPT ![Member(a)] = Mode(a, Member(a))]
  /\ told' = [told EXCEPT ![Cart(a)] = @ \cup {Member(a)}]
  /\ UNCHANGED <<onSale, invoiced, trail, changed, missing, silent, contested>>

\* A learner read in a free mode is upgraded, whatever they hold by now; any
\* other is enrolled, which Open edX refuses one who holds the course already.
Enrol(a) ==
  /\ attempt[a].at = "writing"
  /\ Unlocked(a, Member(a))
  /\ attempt[a].seen \in Free \/ Holding(a, Member(a)) = NoMode
  /\ Advance(a, [attempt[a] EXCEPT !.wrote = @ \cup {Member(a)}, !.landed = @ \cup {Member(a)}],
             "closing")
  /\ told' = [told EXCEPT ![Cart(a)] = @ \cup {Member(a)}]
  /\ UNCHANGED <<enrolled, onSale, invoiced, trail, changed, missing, silent, contested>>

\* Open edX refuses the enrolment: it is closed, the course is full, or the
\* learner is enrolled in another mode; or the database does.
RefuseEnrolment(a) ==
  /\ attempt[a].at = "writing"
  /\ Fail(a)
  /\ UNCHANGED <<enrolled, onSale, invoiced, trail, told, changed, missing, silent, contested>>

\* The enrolments a has written while another attempt, for a cart that has the
\* course in another mode, was under way.
Rivalled(a) ==
  {k \in attempt[a].wrote :
     \E b \in Attempts \ {a} : /\ attempt[b].at # "idle" /\ k \in Granted(Cart(b))
                               /\ Mode(b, k) # Mode(a, k)}

\* The invoice and the enrolments are committed together.
Commit(a) ==
  /\ attempt[a].at = "closing"
  /\ invoiced' = invoiced \cup {Cart(a)}
  /\ enrolled' = [k \in Courses |-> Holding(a, k)]
  /\ contested' = contested \cup Rivalled(a)
  /\ End(a)
  /\ UNCHANGED <<onSale, trail, told, changed, missing, silent>>

\* The commit fails, with an error that carries nothing.
FailCommit(a) ==
  /\ "commit" \in Faults
  /\ attempt[a].at = "closing"
  /\ silent' = silent \cup {Cart(a)}
  /\ End(a)
  /\ UNCHANGED <<enrolled, onSale, invoiced, trail, told, changed, missing, contested>>

\* Slip: the entry is written within the transaction, and rolled back with it.
RecordInside(a) ==
  /\ attempt[a].at = "failing"
  /\ End(a)
  /\ UNCHANGED <<enrolled, onSale, invoiced, trail, told, changed, missing, silent, contested>>

\* After the rollback, where it survives, the failure of a bundle is recorded,
\* with the courses that had landed and those that were held.
RecordFailure(a) ==
  /\ attempt[a].at = "failing"
  /\ trail' = IF Cart(a) \in Bundles
              THEN [trail EXCEPT ![Cart(a)] = [landed |-> @.landed \cup attempt[a].landed,
                                               held |-> @.held \cup attempt[a].held]]
              ELSE trail
  /\ End(a)
  /\ UNCHANGED <<enrolled, onSale, invoiced, told, changed, missing, silent, contested>>

Crash(a) ==
  /\ a \in Mortal
  /\ attempt[a].at # "idle"
  /\ silent' = silent \cup {Cart(a)}
  /\ End(a)
  /\ UNCHANGED <<enrolled, onSale, invoiced, trail, told, changed, missing, contested>>

-----------------------------------------------------------------------------
(***************************************************************************)
(* Meanwhile, the learner and staff change enrolments in Open edX, and the *)
(* catalogue and the course modes come apart and are put right.            *)
(***************************************************************************)
EnrolOutside(k, mode) ==
  /\ \A a \in Attempts : k \notin attempt[a].wrote
  /\ enrolled' = [enrolled EXCEPT ![k] = mode]
  /\ changed' = changed \cup {k}
  /\ UNCHANGED <<onSale, invoiced, trail, attempt, told, missing, silent, contested>>

TakeOffSale(k) ==
  /\ onSale' = onSale \ {k}
  /\ UNCHANGED <<enrolled, invoiced, trail, attempt, told, changed, missing, silent, contested>>

PutOnSale(k) ==
  /\ onSale' = onSale \cup {k}
  /\ missing' = [a \in Attempts |-> missing[a] \ {k}]
  /\ UNCHANGED <<enrolled, invoiced, trail, attempt, told, changed, silent, contested>>

-----------------------------------------------------------------------------
AttemptStep(a) ==
  \/ CheckMember(a)
  \/ ReadEnrolment(a)
  \/ Enrol(a)
  \/ RefuseEnrolment(a)
  \/ Commit(a)
  \/ FailCommit(a)
  \/ RecordFailure(a)

OpenEdxStep ==
  \E k \in Unsettled :
    \/ \E mode \in Modes \cup {NoMode} : EnrolOutside(k, mode)
    \/ TakeOffSale(k)
    \/ PutOnSale(k)

Next ==
  \/ \E a \in Attempts : AttemptStep(a) \/ Crash(a) \/ \E c \in Carts : Begin(a, c)
  \/ OpenEdxStep

Spec == Init /\ [][Next]_vars

-----------------------------------------------------------------------------
\* Every attempt at work has a cart, and is at one of its members.
TypeOK ==
  /\ enrolled \in [Courses -> Modes \cup {NoMode}]
  /\ onSale \subseteq Courses
  /\ invoiced \subseteq Carts
  /\ trail \in [Carts -> Entries]
  /\ attempt \in [Attempts -> AttemptStates]
  /\ \A a \in Attempts : attempt[a].at # "idle" =>
       Cart(a) \in Carts /\ attempt[a].next \in 1..Len(CoursesOf[Cart(a)])
  /\ told \in [Carts -> SUBSET Courses]
  /\ changed \subseteq Courses
  /\ missing \in [Attempts -> SUBSET Courses]
  /\ silent \subseteq Carts
  /\ contested \subseteq Courses

\* The learner holds a course as cart c has it, or as another cart sold it in a
\* race between the two.
Has(c, k) ==
  \/ enrolled[k] = ModeOf[c][k]
  \/ k \in contested /\ \E d \in invoiced : k \in Granted(d) /\ enrolled[k] = ModeOf[d][k]

\* A learner billed for a cart holds every course of it in the mode bought,
\* until someone changes the enrolment outside.  Only where their attempts ran
\* beside each other does the mode of another cart they were billed for take
\* its place.
SoldIsEnrolled ==
  \A c \in invoiced : \A k \in Granted(c) \ changed : Has(c, k)

\* Staff can tell from the trail what the learner was told, "together with the
\* courses of a bundle whose enrolment went through before it" (base.py): a
\* course of an uninvoiced bundle that Open edX announced, and no attempt is at
\* work on, is among those its entries say landed -- unless a process died or a
\* commit failed, which leave no such entry.
ToldIsOnRecord ==
  \A c \in Bundles \ (invoiced \cup silent) :
    (\A a \in Attempts : attempt[a].at # "idle" => Cart(a) # c) =>
      told[c] \subseteq trail[c].landed

\* A course an entry says was held needs no action on a retry: the learner
\* holds it, unless someone changed that outside.
HeldNeedsNoAction ==
  \A c \in Carts : \A k \in trail[c].held \ changed : Has(c, k)

\* A bundle with a course that has been off sale since before the attempt began
\* enrols its learner in none of its courses.
BrokenBundleUntouched ==
  [][\A a \in Attempts :
       Enrol(a) => Granted(Cart(a)) \cap missing[a] = {}]_vars

\* Read committed, fulfilment is what Delivery says: a learner is given all of
\* a cart and its invoice in one step or nothing at all, whichever member fails,
\* process dies or attempt runs beside it; and no attempt, whatever it read
\* before, takes a learner out of a mode that is not below the one bought,
\* unless a cart just sold beside it put them there.
Sale == INSTANCE Delivery WITH
  GrantedBy <- [c \in Carts |-> Granted(c)],
  delivered <- invoiced

ImplementsDelivery == Sale!Spec
=============================================================================
